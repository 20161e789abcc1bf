--------------------------- MODULE WindowsSampler ---------------------------
(***************************************************************************)
(* The Windows backend of Perfidious\Sampler (src/src/windows/sampler.c):  *)
(* reading the native counters and widening the 32-bit one of the scope    *)
(* (page faults of the process, context switches of the thread) to 64      *)
(* bits.  WindowsProfiling has the threads and their profiling sessions.   *)
(***************************************************************************)
EXTENDS Integers

CONSTANTS Wrap,      \* 2^32: the native counter counts modulo Wrap
          UintMax,   \* UINT64_MAX
          Unit,      \* nanoseconds in a FILETIME unit: 100
          MaxCount,  \* bound on the events counted
          Times      \* the kernel and user times read, in FILETIME units

ASSUME WideningAssumption ==
  /\ Wrap \in Nat \ {0} /\ Unit \in Nat \ {0}
  /\ UintMax \in Nat /\ (UintMax + 1) % Wrap = 0
  /\ MaxCount \in Nat /\ Times \subseteq Nat

VARIABLES
  native,    \* events that happened; the API returns native % Wrap
  phase,     \* "closed", "opening" (the origin is not read yet) or "open"
  scope,     \* "process" or "thread"
  metrics,   \* the sampler's metrics; "events" is the 32-bit one
  previous,  \* previous_page_faults / previous_context_switches
  base,      \* page_fault_base / context_switch_base
  snapshot,  \* what the last successful read returned
  result,    \* how the last read ended
  \* observed, not in the code
  seen,      \* native at the last time the sampler took the counter over
  offset     \* native minus the first value returned

vars == <<native, phase, scope, metrics, previous, base, snapshot, result, seen, offset>>
counter == <<previous, base, seen>>

Metrics == {"cpuTime", "events", "cycles"}
Empty == [cpuTime |-> 0, events |-> 0]

Init ==
  /\ native = 0
  /\ phase = "closed" /\ scope = "process" /\ metrics = {}
  /\ previous = 0 /\ base = 0
  /\ snapshot = Empty /\ result = "none"
  /\ seen = 0 /\ offset = 0

\* Events happen.  A sampler cannot see that a counter has gone round twice, so they
\* are fewer than Wrap between two observations, until the 64 bits are used up.
Happen ==
  /\ native < MaxCount
  /\ (phase = "open" /\ "events" \in metrics /\ base <= UintMax - Wrap) => native + 1 - seen < Wrap
  /\ native' = native + 1
  /\ UNCHANGED <<phase, scope, metrics, previous, base, snapshot, result, seen, offset>>

-----------------------------------------------------------------------------
(* perfidious_platform_sampler_open() and _close(). *)

Open(s, ms) ==
  /\ phase = "closed" /\ ms # {}
  /\ phase' = "opening" /\ scope' = s /\ metrics' = ms
  /\ previous' = 0 /\ base' = 0 /\ snapshot' = Empty /\ result' = "none"
  /\ seen' = native /\ offset' = 0
  /\ UNCHANGED native

Close ==
  /\ phase = "open"
  /\ phase' = "closed"
  /\ UNCHANGED <<native, scope, metrics, counter, snapshot, result, offset>>

-----------------------------------------------------------------------------
(* perfidious_platform_sampler_read(): thread and profile data, CPU time,    *)
(* page faults or context switches, cycles, in this order.                   *)

\* A read that fails inside Sampler::open() destroys the sampler.
Fails(error) ==
  /\ phase \in {"opening", "open"}
  /\ phase' = IF phase = "opening" THEN "closed" ELSE "open"
  /\ result' = error
  /\ UNCHANGED <<native, scope, metrics, snapshot, offset>>

CpuFits(kernel, user) == kernel + user <= UintMax /\ kernel + user <= UintMax \div Unit

\* The CPU time of a process or thread does not go back.
CpuAdvances(kernel, user) == phase = "open" => (kernel + user) * Unit >= snapshot.cpuTime

Now == native % Wrap

\* Mutant of Wrapped: a repeated value is taken for a wrap.
WrappedOrSame == Now <= previous

\* The native counter went round since it was last taken over.
Wrapped == Now < previous

BaseOverflows == Wrapped /\ base > UintMax - Wrap

\* Mutant of ObserveOverflow: the value is remembered before the overflow is noticed.
ObserveOverflowMoves == previous' = Now /\ UNCHANGED <<base, seen>>

\* An overflow leaves the widening state alone.
ObserveOverflow == UNCHANGED counter

Observe ==
  /\ base' = IF Wrapped THEN base + Wrap ELSE base
  /\ previous' = Now
  /\ seen' = native

\* The wrong thread, or a native call before the counter is taken over fails.
ReadFailsEarly == Fails("error") /\ UNCHANGED counter

ReadCpuOverflows(kernel, user) ==
  /\ "cpuTime" \in metrics /\ ~CpuFits(kernel, user)
  /\ Fails("overflow")
  /\ UNCHANGED counter

ReadCountOverflows ==
  /\ "events" \in metrics /\ BaseOverflows
  /\ Fails("overflow")
  /\ ObserveOverflow

\* QueryProcessCycleTime() fails: page faults were taken over, in place.  A thread's
\* cycles come with the profile data read before.
ReadCyclesFails ==
  /\ "cycles" \in metrics /\ scope = "process"
  /\ "events" \in metrics => ~BaseOverflows
  /\ Fails("error")
  /\ IF "events" \in metrics THEN Observe ELSE UNCHANGED counter

ReadSucceeds(kernel, user) ==
  /\ phase \in {"opening", "open"}
  /\ "cpuTime" \in metrics => CpuFits(kernel, user) /\ CpuAdvances(kernel, user)
  /\ "events" \in metrics => ~BaseOverflows
  /\ IF "events" \in metrics THEN Observe ELSE UNCHANGED counter
  /\ snapshot' = [cpuTime |-> IF "cpuTime" \in metrics THEN (kernel + user) * Unit ELSE 0,
                  events  |-> IF "events" \in metrics THEN base' + Now ELSE 0]
  /\ offset' = IF phase = "opening" THEN native - snapshot'.events ELSE offset
  /\ phase' = "open" /\ result' = "ok"
  /\ UNCHANGED <<native, scope, metrics>>

-----------------------------------------------------------------------------

Next ==
  \/ Happen
  \/ \E s \in {"process", "thread"}, ms \in SUBSET Metrics : Open(s, ms)
  \/ Close
  \/ ReadFailsEarly \/ ReadCountOverflows \/ ReadCyclesFails
  \/ \E kernel, user \in Times :
        ReadCpuOverflows(kernel, user) \/ ReadSucceeds(kernel, user)

Spec == Init /\ [][Next]_vars

-----------------------------------------------------------------------------
(* Properties. *)

\* Every variable keeps its type: a snapshot holds 64-bit values.
TypeOK ==
  /\ native \in Nat
  /\ phase \in {"closed", "opening", "open"} /\ scope \in {"process", "thread"}
  /\ metrics \in SUBSET Metrics
  /\ previous \in 0..Wrap - 1 /\ base \in 0..UintMax
  /\ snapshot \in [cpuTime : 0..UintMax, events : 0..UintMax]
  /\ result \in {"none", "ok", "error", "overflow"}
  /\ seen \in Nat /\ offset \in Nat

\* Differences of widened counts are the events that happened, over any number of
\* wraps and however many reads failed before or after the counter was taken over,
\* as long as the count fits 64 bits.
WidenedExact ==
  (result = "ok" /\ "events" \in metrics /\ seen - offset <= UintMax) =>
     snapshot.events = seen - offset

Backend == INSTANCE CounterBackend WITH
  Metric  <- DOMAIN Empty,
  state   <- phase,
  metrics <- IF phase = "closed" THEN {} ELSE metrics \cap DOMAIN Empty,
  values  <- IF phase = "closed" THEN Empty ELSE snapshot

\* The backend keeps the contract sampler.c is written against: a CPU time or a count
\* that does not fit 64 bits is reported, and the reads that succeed again afterwards
\* never return less than an earlier one.
ImplementsBackend == Backend!Spec
=============================================================================
