------------------------- MODULE MCWindowsProfiling -------------------------
(* Three threads, the third of which gets the id of the first.              *)
EXTENDS WindowsProfiling, TLC

ReusedIds == [t \in Thread |-> IF t = 3 THEN 1 ELSE t]

ObjSymmetry == Permutations(Obj)
=============================================================================
