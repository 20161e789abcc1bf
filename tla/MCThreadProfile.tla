--------------------------- MODULE MCThreadProfile ---------------------------
(* Words of four bits; two hardware counters beside the cycles.             *)
EXTENDS ThreadProfile, TLC

CONSTANTS h0, h1

HwCounters == {h0, h1}
Symmetry == Permutations(HwCounters)
=============================================================================
