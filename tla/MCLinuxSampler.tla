--------------------------- MODULE MCLinuxSampler ---------------------------
(* Two metrics of different rates, read in this order; two threads.          *)
EXTENDS LinuxSampler, TLC

CONSTANTS cpuTime, instructions

TwoMetrics == <<cpuTime, instructions>>
TwoRates == (cpuTime :> 1) @@ (instructions :> 2)
=============================================================================
