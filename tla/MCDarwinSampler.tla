--------------------------- MODULE MCDarwinSampler ---------------------------
(* Words of four bits, ratios below a half word: one that divides evenly,   *)
(* one that stretches and one that shrinks time, both with a remainder.     *)
EXTENDS DarwinSampler, TLC

CONSTANTS t1, t2

MCThread == {t1, t2}
Symmetry == Permutations(MCThread)
MCTimebases == {[numer |-> 1, denom |-> 1], [numer |-> 3, denom |-> 2], [numer |-> 2, denom |-> 3]}
=============================================================================
