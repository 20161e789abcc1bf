------------------------ MODULE MCHandleDescriptors ------------------------
(* Two ZTS threads with one Handle object each over one descriptor table.   *)
EXTENDS HandleDescriptors

OneObjectEach == [o \in Obj |-> o]

\* Descriptor numbers are only compared for equality.
FdSymmetry == Permutations(Fd)
=============================================================================
