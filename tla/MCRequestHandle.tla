--------------------------- MODULE MCRequestHandle ---------------------------
(* A server of two or three processes and as many event groups.              *)
EXTENDS RequestHandle, TLC

\* Every process has an id of its own.
DistinctPids == [p \in Proc |-> p]

\* The kernel gives the third process the id the first one had.
ReusedPids == [p \in Proc |-> IF p = 3 THEN 1 ELSE p]

GroupSymmetry == Permutations(Group)
=============================================================================
