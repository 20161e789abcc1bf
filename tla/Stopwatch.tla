------------------------------ MODULE Stopwatch ------------------------------
(***************************************************************************)
(* What a perf handle promises its user: a stopwatch.  It runs or stands   *)
(* still; while it runs it accumulates the time it has been enabled, the   *)
(* part of that time the events were scheduled on a counter, and a count.  *)
(* Zeroing clears all three at one instant, and only while it stands still *)
(* (handle.c:154-155: "Keep the group disabled so the baseline and count   *)
(* reset share one measurement boundary").                                 *)
(*                                                                         *)
(* The count is that of a clock event (one per unit of scheduled time), so *)
(* that a misplaced boundary shows as count # active.                      *)
(***************************************************************************)
EXTENDS Integers

VARIABLES running,  \* BOOLEAN
          elapsed,  \* enabled time since the last zeroing
          active,   \* scheduled time since the last zeroing
          count     \* events counted since the last zeroing

vars == <<running, elapsed, active, count>>

Init == running = FALSE /\ elapsed = 0 /\ active = 0 /\ count = 0

Start == running' = TRUE  /\ UNCHANGED <<elapsed, active, count>>
Stop  == running' = FALSE /\ UNCHANGED <<elapsed, active, count>>

Zero == ~running /\ elapsed' = 0 /\ active' = 0 /\ count' = 0 /\ UNCHANGED running

Run == /\ running
       /\ UNCHANGED running
       /\ elapsed' >= elapsed
       /\ active' - active >= 0 /\ active' - active <= elapsed' - elapsed
       /\ count' - count = active' - active

Next == Start \/ Stop \/ Zero \/ Run

Spec == Init /\ [][Next]_vars
=============================================================================
