--------------------------- MODULE CounterBackend ---------------------------
(***************************************************************************)
(* What Perfidious\Sampler needs from the backend of a platform            *)
(* (src/src/sampler.h): counters of the metrics asked for, each a 64-bit   *)
(* word, that start anywhere and never go back while the sampler is open,  *)
(* so that sampler.c can subtract an origin and an earlier sample.         *)
(*                                                                         *)
(* A read that fails changes nothing, whatever the backend had done by     *)
(* then; it is a stuttering step here.  LinuxSampler, WindowsSampler and   *)
(* DarwinSampler each implement this specification.                        *)
(***************************************************************************)
EXTENDS Naturals

CONSTANTS Metric,
          UintMax     \* UINT64_MAX

VARIABLES state,     \* "closed", "opening" (the origin is not read yet) or "open"
          metrics,   \* those the sampler was opened with
          values     \* the snapshot of the last successful read

vars == <<state, metrics, values>>

Zeros == [m \in Metric |-> 0]

Init == state = "closed" /\ metrics = {} /\ values = Zeros

\* A snapshot: words, and nothing for a metric that was not asked for.
Snapshot(v, ms) == v \in [Metric -> 0..UintMax] /\ \A m \in Metric \ ms : v[m] = 0

Open ==
  /\ state = "closed" /\ state' = "opening"
  /\ metrics' \subseteq Metric
  /\ values' = Zeros

\* The read inside Sampler::open(): the counters may start anywhere.
FirstRead ==
  /\ state = "opening" /\ state' = "open"
  /\ Snapshot(values', metrics)
  /\ UNCHANGED metrics

Read ==
  /\ state = "open"
  /\ Snapshot(values', metrics)
  /\ \A m \in Metric : values'[m] >= values[m]
  /\ UNCHANGED <<state, metrics>>

\* Opening or its read failed, or the sampler is closed.
Close == state # "closed" /\ state' = "closed" /\ metrics' = {} /\ values' = Zeros

Next == Open \/ FirstRead \/ Read \/ Close

Spec == Init /\ [][Next]_vars
=============================================================================
