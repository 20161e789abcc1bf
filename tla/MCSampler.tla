------------------------------ MODULE MCSampler ------------------------------
(* Two samplers at a time, two samples, three addresses for identities.     *)
EXTENDS Sampler, TLC

SlotSymmetry == Permutations(SamplerSlot) \cup Permutations(SampleSlot) \cup Permutations(Addr)
=============================================================================
