-------------------------- MODULE MCWindowsSampler --------------------------
(* A counter of two bits, widened to four.                                  *)
EXTENDS WindowsSampler
=============================================================================
