---------------------------- MODULE LinuxSampler ----------------------------
(***************************************************************************)
(* The Linux backend of Perfidious\Sampler (src/src/linux/sampler.c): one  *)
(* independent perf event per metric, read one after the other.  The kernel*)
(* multiplexes events, so a read scales each interval by enabled/running   *)
(* time and adds it to a running total; it publishes all metrics or none.  *)
(*                                                                         *)
(* Metric m counts Rate[m] events per unit of scheduled time.              *)
(***************************************************************************)
EXTENDS Integers, FiniteSets, SequencesExt

CONSTANTS Order,       \* the metrics in the order of enum perfidious_metric_id
          Rate,        \* [metric -> Nat]
          Thread,
          MaxTime,     \* bound on the enabled time of an event
          MaxStep,     \* bound on the time between two observed steps
          UintMax      \* UINT64_MAX

Metric == {Order[i] : i \in DOMAIN Order}

ASSUME SamplerAssumption ==
  /\ Order \in Seq(Metric)
  /\ \A i, j \in DOMAIN Order : Order[i] = Order[j] => i = j
  /\ Rate \in [Metric -> Nat]
  /\ MaxTime \in Nat /\ MaxStep \in Nat /\ UintMax \in Nat

Zero == [value |-> 0, enabled |-> 0, running |-> 0]

VARIABLES
  event,       \* the kernel's reading of each metric's event
  fds,         \* the metrics with an open descriptor
  requested,   \* the metrics asked for
  supported,   \* those a probe has opened
  pc,          \* none, probe, open, read, ready: what the sampler is doing
  pos,         \* the metric it is at, in Order
  threadId,    \* the thread that opened it
  counters,    \* [metric -> [previous, total]]
  next,        \* the working copy of a read
  first,       \* the read in progress is the one inside open()
  snapshot     \* the totals the last successful read handed out

vars == <<event, fds, requested, supported, pc, pos, threadId, counters, next, first, snapshot>>
kernel == <<event, fds>>

NoCounter == [previous |-> Zero, total |-> 0]

NoEvents   == [m \in Metric |-> Zero]
NoCounters == [m \in Metric |-> NoCounter]
NoSnapshot == [m \in Metric |-> 0]

Init ==
  /\ event = NoEvents
  /\ fds = {} /\ requested = {} /\ supported = {}
  /\ pc = "none" /\ pos = 1
  /\ threadId \in Thread
  /\ counters = NoCounters
  /\ next = NoCounters
  /\ first = FALSE
  /\ snapshot = NoSnapshot

-----------------------------------------------------------------------------
(* The kernel: an open, enabled event advances on its own. *)

Tick(m, d, r) ==
  /\ m \in fds /\ event[m].enabled + d <= MaxTime
  /\ event' = [event EXCEPT ![m] = [value   |-> @.value + Rate[m] * r,
                                    enabled |-> @.enabled + d,
                                    running |-> @.running + r]]
  /\ UNCHANGED <<fds, requested, supported, pc, pos, threadId, counters, next, first, snapshot>>

-----------------------------------------------------------------------------
(* perfidious_platform_sampler_close(): the descriptors are closed, which    *)
(* ends their events, and the sampler is freed; open() or close() returns.   *)

SamplerClose ==
  /\ fds' = {} /\ event' = NoEvents
  /\ counters' = NoCounters /\ next' = NoCounters /\ snapshot' = NoSnapshot
  /\ requested' = {} /\ supported' = {}
  /\ pc' = "none" /\ pos' = 1 /\ first' = FALSE

-----------------------------------------------------------------------------
(* perfidious_platform_sampler_supported_metrics(): each requested metric is *)
(* opened once, disabled, and closed again.                                  *)

At(m) == pos \in DOMAIN Order /\ m = Order[pos]
AtEnd == pos = Len(Order) + 1

OpenCall(t, ms) ==
  /\ pc = "none" /\ ms # {}
  /\ requested' = ms /\ supported' = {}
  /\ threadId' = t
  /\ pc' = "probe" /\ pos' = 1
  /\ UNCHANGED <<kernel, counters, next, first, snapshot>>

\* The event opens and is closed; or its errno says that it does not exist here.
Probe(m, exists) ==
  /\ pc = "probe" /\ At(m)
  /\ supported' = IF m \in requested /\ exists THEN supported \cup {m} ELSE supported
  /\ pos' = pos + 1
  /\ UNCHANGED <<kernel, requested, pc, threadId, counters, next, first, snapshot>>

\* Another errno ends open() with an IOException, as a missing metric does below.
ProbeFails(m) ==
  /\ pc = "probe" /\ At(m) /\ m \in requested
  /\ pc' = "none" /\ requested' = {} /\ supported' = {} /\ pos' = 1
  /\ UNCHANGED <<kernel, threadId, counters, next, first, snapshot>>

ProbeEnd ==
  /\ pc = "probe" /\ AtEnd
  /\ pos' = 1
  /\ \/ requested \ supported = {} /\ pc' = "open" /\ UNCHANGED <<requested, supported>>
     \/ requested \ supported # {} /\ pc' = "none" /\ requested' = {} /\ supported' = {}
  /\ UNCHANGED <<kernel, threadId, counters, next, first, snapshot>>

-----------------------------------------------------------------------------
(* perfidious_platform_sampler_open(), then the read of the origin. *)

OpenMetric(m) ==
  /\ pc = "open" /\ At(m)
  /\ fds' = fds \cup ({m} \cap requested)
  /\ event' = [event EXCEPT ![m] = Zero]
  /\ counters' = [counters EXCEPT ![m] = NoCounter]
  /\ pos' = pos + 1
  /\ UNCHANGED <<requested, supported, pc, threadId, next, first, snapshot>>

\* Mutant of OpenMetricFails: the descriptors opened so far are not closed.
OpenMetricFailsLeaks(m) ==
  /\ pc = "open" /\ At(m) /\ m \in requested
  /\ pc' = "none" /\ pos' = 1 /\ requested' = {} /\ supported' = {}
  /\ UNCHANGED <<kernel, counters, next, first, snapshot, threadId>>

\* The partly opened sampler is closed.
OpenMetricFails(m) ==
  /\ pc = "open" /\ At(m) /\ m \in requested
  /\ SamplerClose
  /\ UNCHANGED threadId

OpenEnd ==
  /\ pc = "open" /\ AtEnd
  /\ pc' = "read" /\ pos' = 1 /\ first' = TRUE
  /\ next' = counters
  /\ UNCHANGED <<kernel, requested, supported, threadId, counters, snapshot>>

-----------------------------------------------------------------------------
(* perfidious_platform_sampler_read(). *)

\* A read from another thread throws WrongThreadException and changes nothing.
ReadCall(t) ==
  /\ pc = "ready" /\ t = threadId
  /\ pc' = "read" /\ pos' = 1 /\ first' = FALSE
  /\ next' = counters
  /\ UNCHANGED <<kernel, requested, supported, threadId, counters, snapshot>>

Delta(m) == [value   |-> event[m].value   - next[m].previous.value,
             enabled |-> event[m].enabled - next[m].previous.enabled,
             running |-> event[m].running - next[m].previous.running]

\* perfidious_scale_uint64(), with its 128-bit product.
Scale(d) == IF d.running = 0 THEN 0 ELSE (d.value * d.enabled) \div d.running

\* Mutant of Usable: an interval without running time counts as 0.
UsableUnscheduled(m) ==
  LET d == Delta(m)
  IN  d.running <= d.enabled /\ next[m].total + Scale(d) <= UintMax

\* The monotonicity check, the running-time check (EAGAIN) and the overflow checks.
Usable(m) ==
  LET d == Delta(m)
  IN  /\ d.value >= 0 /\ d.enabled >= 0 /\ d.running >= 0
      /\ d.running <= d.enabled
      /\ d.running = 0 => d.enabled = 0 /\ d.value = 0
      /\ next[m].total + Scale(d) <= UintMax

\* Mutant of Accumulate: the interval replaces the total.
AccumulateLast(m) == [previous |-> event[m], total |-> Scale(Delta(m))]

Accumulate(m) == [previous |-> event[m], total |-> next[m].total + Scale(Delta(m))]

ReadMetric(m) ==
  /\ pc = "read" /\ At(m)
  /\ m \in fds => Usable(m)
  /\ next' = IF m \in fds THEN [next EXCEPT ![m] = Accumulate(m)] ELSE next
  /\ pos' = pos + 1
  /\ UNCHANGED <<kernel, requested, supported, pc, threadId, counters, first, snapshot>>

\* Mutants of ReadFails: the metrics read before the failure are committed; a metric
\* that was not scheduled is waited for.
ReadFailsCommits(m) ==
  /\ pc = "read" /\ At(m) /\ m \in fds
  /\ \/ first /\ SamplerClose
     \/ /\ ~first
        /\ pc' = "ready" /\ pos' = 1 /\ counters' = next
        /\ UNCHANGED <<kernel, requested, supported, next, first, snapshot>>
  /\ UNCHANGED threadId

ReadFailsWaits(m) == pc = "read" /\ At(m) /\ m \in fds /\ UNCHANGED vars

\* The interval cannot be used, or read() fails (a read interrupted by a signal is
\* retried and shows as time passing before ReadMetric or ReadFails).  Inside open() the
\* new object is destroyed, which closes its descriptors; otherwise the sampler stays.
ReadFails(m) ==
  /\ pc = "read" /\ At(m) /\ m \in fds
  /\ \/ first /\ SamplerClose
     \/ /\ ~first
        /\ pc' = "ready" /\ pos' = 1 /\ next' = counters
        /\ UNCHANGED <<kernel, requested, supported, counters, first, snapshot>>
  /\ UNCHANGED threadId

ReadEnd ==
  /\ pc = "read" /\ AtEnd
  /\ counters' = next
  /\ pc' = "ready" /\ pos' = 1 /\ first' = FALSE
  /\ snapshot' = [m \in Metric |-> next[m].total]
  /\ UNCHANGED <<kernel, requested, supported, threadId, next>>

\* Sampler::close() or the destructor of the object.
CloseCall ==
  /\ pc = "ready"
  /\ SamplerClose
  /\ UNCHANGED threadId

-----------------------------------------------------------------------------

\* The steps of a call in progress.
CallStep ==
  \/ \E m \in Metric :
        \/ \E exists \in BOOLEAN : Probe(m, exists)
        \/ ProbeFails(m) \/ OpenMetric(m) \/ OpenMetricFails(m)
        \/ ReadMetric(m) \/ ReadFails(m)
  \/ ProbeEnd \/ OpenEnd \/ ReadEnd

Next ==
  \/ \E m \in Metric, d \in 1..MaxStep : \E r \in 0..d : Tick(m, d, r)
  \/ \E t \in Thread, ms \in SUBSET Metric : OpenCall(t, ms)
  \/ \E t \in Thread : ReadCall(t)
  \/ CallStep
  \/ CloseCall

Spec == Init /\ [][Next]_vars

\* The thread that is in a call goes on executing it.  Nothing is assumed of the
\* kernel: an event may never be scheduled.
FairSpec == Spec /\ WF_vars(CallStep)

-----------------------------------------------------------------------------
(* Properties. *)

Reading == [value : Nat, enabled : Nat, running : Nat]
Counter == [previous : Reading, total : Nat]

\* Every variable keeps its type.
TypeOK ==
  /\ event \in [Metric -> Reading]
  /\ fds \in SUBSET Metric /\ requested \in SUBSET Metric /\ supported \in SUBSET Metric
  /\ pc \in {"none", "probe", "open", "read", "ready"}
  /\ pos \in 1..Len(Order) + 1
  /\ threadId \in Thread
  /\ counters \in [Metric -> Counter] /\ next \in [Metric -> Counter]
  /\ first \in BOOLEAN
  /\ snapshot \in [Metric -> 0..UintMax]

\* However the event was multiplexed and however many reads failed or were refused
\* for want of running time in between, the total is what the metric would have
\* counted had it been scheduled all the time up to the last reading.
TotalIsUnmultiplexed ==
  \A m \in fds : counters[m].total = Rate[m] * counters[m].previous.enabled

\* A failed read consumes no part of any metric's interval: what the sampler has
\* accumulated is what its last successful read handed out, for every metric.
NothingUnpublished ==
  pc = "ready" => \A m \in fds : counters[m].total = snapshot[m]

\* No descriptor survives a failed open(), a failed first read or a close, and a
\* sampler that is open has one for each requested metric and no other.
DescriptorsMatchState ==
  /\ pc \in {"none", "probe"} => fds = {}
  /\ pc \in {"read", "ready"} => fds = requested

Backend == INSTANCE CounterBackend WITH
  state   <- IF pc \in {"none", "probe"} THEN "closed"
             ELSE IF pc = "open" \/ (pc = "read" /\ first) THEN "opening" ELSE "open",
  metrics <- IF pc \in {"none", "probe"} THEN {} ELSE requested,
  values  <- snapshot

\* The backend keeps the contract sampler.c is written against: from one successful
\* read to the next no total decreases, whatever was multiplexed, refused or failed in
\* between, and each fits 64 bits.
ImplementsBackend == Backend!Spec

\* open() and read() return, with a result or an exception, also when the kernel never
\* schedules an event again: a metric that cannot be scaled fails the read and is not
\* waited for.
CallsReturn == pc \in {"probe", "open", "read"} ~> pc \in {"none", "ready"}
=============================================================================
