------------------------ MODULE LinuxSampler_proofs ------------------------
(***************************************************************************)
(* Proofs about LinuxSampler for every order of metrics, rates, bounds and *)
(* UINT64_MAX: totals are exact under multiplexing, a failed read consumes *)
(* nothing, descriptors follow the sampler's state, and the sampler keeps  *)
(* the contract of a CounterBackend.                                       *)
(***************************************************************************)
EXTENDS LinuxSampler, TLAPS

-----------------------------------------------------------------------------
(* The inductive invariant. *)

\* An event counts at its rate while it is scheduled.
EventsAtRate == \A m \in Metric : event[m].value = Rate[m] * event[m].running

\* A counter stands at a reading of its event, and its total is the unmultiplexed one.
Exact(c, m) ==
  /\ c.previous.value = Rate[m] * c.previous.running
  /\ c.total = Rate[m] * c.previous.enabled
  /\ c.total <= UintMax

CountersExact == \A m \in Metric : Exact(counters[m], m) /\ Exact(next[m], m)

\* A read in progress adds to its own copy only, and only for open metrics.
ReadAdds ==
  pc = "read" => \A m \in Metric :
    /\ next[m].total >= counters[m].total
    /\ m \notin fds => next[m].total = 0

\* A sampler has counted nothing until its first read has committed.
NothingYet ==
  (pc \in {"none", "probe", "open"} \/ first) => counters = NoCounters /\ snapshot = NoSnapshot

\* After that, what it has accumulated is what it handed out.
AllPublished == \A m \in Metric : counters[m].total = snapshot[m]

\* Descriptors are opened in order, for the requested metrics only.
OpenedSoFar ==
  /\ pc \in {"none", "probe"} => fds = {} /\ ~first
  /\ pc = "open" => fds = {Order[i] : i \in 1..pos - 1} \cap requested /\ ~first
  /\ pc \in {"read", "ready"} => fds = requested
  /\ pc = "ready" => ~first
  /\ \A m \in Metric \ fds : counters[m].total = 0

IndInv ==
  /\ TypeOK
  /\ EventsAtRate
  /\ CountersExact
  /\ ReadAdds
  /\ NothingYet
  /\ AllPublished
  /\ OpenedSoFar

-----------------------------------------------------------------------------
(* Scaling. *)

\* The events of an interval, scaled by enabled over running time, are those of an
\* event that was scheduled all the time: perfidious_scale_uint64() has no remainder.
LEMMA ScaleExact ==
  ASSUME NEW rate \in Nat, NEW enabled \in Nat, NEW running \in Nat, running > 0
  PROVE  ((rate * running) * enabled) \div running = rate * enabled
<1> DEFINE q == rate * enabled
<1>1. q \in Nat /\ (rate * running) * enabled = q * running
  BY Z3
<1>2. (q * running) \div running = q
  <2> HIDE DEF q
  <2> QED BY <1>1, Z3
<1> QED BY <1>1, <1>2

\* A usable interval takes an exact counter to an exact counter that is not smaller.
LEMMA AccumulateExact ==
  ASSUME IndInv, NEW m \in Metric, Usable(m)
  PROVE  /\ Accumulate(m) \in Counter
         /\ Exact(Accumulate(m), m)
         /\ Accumulate(m).total >= next[m].total
<1> DEFINE e == event[m]
           p == next[m].previous
           d == Delta(m)
           rate == Rate[m]
<1>1. /\ e.value \in Nat /\ e.enabled \in Nat /\ e.running \in Nat
      /\ p.value \in Nat /\ p.enabled \in Nat /\ p.running \in Nat
      /\ next[m].total \in Nat /\ rate \in Nat /\ UintMax \in Nat
      /\ event[m] \in Reading
  BY SamplerAssumption DEF IndInv, TypeOK, Counter, Reading
<1>2. /\ e.value = rate * e.running /\ p.value = rate * p.running
      /\ next[m].total = rate * p.enabled
  BY DEF IndInv, EventsAtRate, CountersExact, Exact
<1>3. /\ d.value = e.value - p.value /\ d.enabled = e.enabled - p.enabled
      /\ d.running = e.running - p.running
  BY DEF Delta
<1>4. /\ d.enabled \in Nat /\ d.running \in Nat
      /\ d.running = 0 => d.enabled = 0
      /\ next[m].total + Scale(d) <= UintMax
  BY <1>1, <1>3 DEF Usable
<1>5. d.value = rate * d.running
  <2> HIDE DEF e, p, d, rate
  <2> QED BY <1>1, <1>2, <1>3, Z3
<1>6. Scale(d) = rate * d.enabled
  <2>1. CASE d.running = 0
    <3> HIDE DEF d, rate
    <3> QED BY <1>1, <1>4, <2>1 DEF Scale
  <2>2. CASE d.running # 0
    <3>1. ((rate * d.running) * d.enabled) \div d.running = rate * d.enabled
      BY <1>1, <1>4, <2>2, ScaleExact
    <3> HIDE DEF d, rate
    <3> QED BY <1>5, <2>2, <3>1 DEF Scale
  <2> QED BY <2>1, <2>2
<1>7. Scale(d) \in Nat /\ next[m].total + Scale(d) = rate * e.enabled
  <2> HIDE DEF e, p, d, rate
  <2> QED BY <1>1, <1>2, <1>3, <1>4, <1>6, Z3
<1>8. Accumulate(m) = [previous |-> event[m], total |-> next[m].total + Scale(d)]
  BY DEF Accumulate
<1> HIDE DEF d
<1> QED BY <1>1, <1>2, <1>4, <1>7, <1>8 DEF Counter, Exact

-----------------------------------------------------------------------------
(* The invariant is inductive. *)

\* Where the sampler stands when nothing is open.
LEMMA ZerosTyped ==
  /\ Zero \in Reading /\ NoCounter \in Counter
  /\ NoEvents \in [Metric -> Reading] /\ NoCounters \in [Metric -> Counter]
  /\ NoSnapshot \in [Metric -> 0..UintMax]
  /\ \A m \in Metric : /\ NoEvents[m].value = Rate[m] * NoEvents[m].running
                       /\ Exact(NoCounters[m], m) /\ NoCounters[m].total = 0 /\ NoSnapshot[m] = 0
<1>1. Zero \in Reading
  BY DEF Zero, Reading
<1>2. NoCounter \in Counter
  BY <1>1 DEF NoCounter, Counter
<1>3. \A m \in Metric : Rate[m] \in Nat /\ Rate[m] * 0 = 0
  BY SamplerAssumption
<1>4. \A m \in Metric : NoEvents[m] = Zero /\ NoCounters[m] = NoCounter /\ NoSnapshot[m] = 0
  BY DEF NoEvents, NoCounters, NoSnapshot
<1>5. /\ Zero.value = 0 /\ Zero.running = 0 /\ Zero.enabled = 0
      /\ NoCounter.previous = Zero /\ NoCounter.total = 0
  BY DEF Zero, NoCounter
<1>6. NoSnapshot \in [Metric -> 0..UintMax]
  BY SamplerAssumption DEF NoSnapshot
<1>7. \A m \in Metric : Exact(NoCounters[m], m)
  BY <1>3, <1>4, <1>5, SamplerAssumption DEF Exact
<1>8. NoEvents \in [Metric -> Reading] /\ NoCounters \in [Metric -> Counter]
  BY <1>1, <1>2 DEF NoEvents, NoCounters
<1> QED BY <1>1, <1>2, <1>3, <1>4, <1>5, <1>6, <1>7, <1>8

\* A sampler that does not exist yet.
LEMMA InitIndInv == Init => IndInv
<1> SUFFICES ASSUME Init PROVE IndInv
  OBVIOUS
<1>1. Len(Order) \in Nat
  BY SamplerAssumption
<1>2. first \in BOOLEAN
  BY Zenon DEF Init
<1>3. TypeOK
  BY <1>1, <1>2, ZerosTyped DEF Init, TypeOK
<1> QED BY <1>3, ZerosTyped DEF Init, IndInv, EventsAtRate, CountersExact, ReadAdds, NothingYet,
                               AllPublished, OpenedSoFar

\* The kernel's side: events advance at their rate, whatever the sampler does.
LEMMA TickIndInv ==
  ASSUME IndInv, NEW m \in Metric, NEW d \in Nat, NEW r \in Nat, Tick(m, d, r)
  PROVE  IndInv'
<1>1. event' \in [Metric -> Reading] /\ EventsAtRate'
  <2>1. event[m] \in Reading /\ Rate[m] \in Nat /\ event[m].value = Rate[m] * event[m].running
    BY SamplerAssumption DEF IndInv, TypeOK, EventsAtRate
  <2> DEFINE v == event[m].value
             k == event[m].running
             e == event[m].enabled
             rate == Rate[m]
             after == [value |-> v + rate * r, enabled |-> e + d, running |-> k + r]
  <2>2. v \in Nat /\ k \in Nat /\ e \in Nat /\ rate \in Nat /\ v = rate * k
    BY <2>1 DEF Reading
  <2>3. v + rate * r \in Nat /\ v + rate * r = rate * (k + r)
    <3> HIDE DEF v, k, rate
    <3> QED BY <2>2, Z3
  <2>4. after \in Reading /\ after.value = Rate[m] * after.running
    BY <2>2, <2>3 DEF Reading
  <2>5. event' = [event EXCEPT ![m] = after]
    BY DEF Tick
  <2> HIDE DEF after
  <2> QED BY <2>4, <2>5 DEF IndInv, TypeOK, EventsAtRate
<1>2. UNCHANGED <<fds, requested, supported, pc, pos, threadId, counters, next, first, snapshot>>
  BY DEF Tick
<1>3. TypeOK'
  BY <1>1, <1>2 DEF IndInv, TypeOK
<1>4. CountersExact' /\ ReadAdds' /\ NothingYet' /\ AllPublished' /\ OpenedSoFar'
  BY <1>2 DEF IndInv, CountersExact, Exact, ReadAdds, NothingYet, AllPublished, OpenedSoFar
<1> QED BY <1>1, <1>3, <1>4 DEF IndInv

\* Closing leaves nothing behind.
LEMMA SamplerCloseIndInv ==
  ASSUME IndInv, SamplerClose, UNCHANGED threadId
  PROVE  IndInv'
<1>1. Len(Order) \in Nat
  BY SamplerAssumption
<1>2. first' \in BOOLEAN
  BY Zenon DEF SamplerClose
<1>3. TypeOK'
  BY <1>1, <1>2, ZerosTyped DEF SamplerClose, IndInv, TypeOK
<1>4. EventsAtRate' /\ CountersExact' /\ AllPublished'
  BY ZerosTyped DEF SamplerClose, EventsAtRate, CountersExact, Exact, AllPublished
<1>5. ReadAdds' /\ NothingYet' /\ OpenedSoFar'
  BY ZerosTyped DEF SamplerClose, ReadAdds, NothingYet, OpenedSoFar
<1> QED BY <1>3, <1>4, <1>5 DEF IndInv

\* The supported_metrics() probes open nothing that stays open.
LEMMA ProbeIndInv ==
  ASSUME IndInv,
         \/ \E t \in Thread, ms \in SUBSET Metric : OpenCall(t, ms)
         \/ \E m \in Metric : ProbeFails(m) \/ \E exists \in BOOLEAN : Probe(m, exists)
         \/ ProbeEnd
  PROVE  IndInv'
<1>1. /\ UNCHANGED <<kernel, counters, next, first, snapshot>>
      /\ pc \in {"none", "probe"} /\ pc' \in {"none", "probe", "open"}
      /\ pc' = "open" => pos' = 1
  BY DEF OpenCall, Probe, ProbeFails, ProbeEnd
<1>2. requested' \in SUBSET Metric /\ supported' \in SUBSET Metric /\ threadId' \in Thread
  BY DEF OpenCall, Probe, ProbeFails, ProbeEnd, IndInv, TypeOK
<1>3. pos' \in 1..Len(Order) + 1
  <2>1. Len(Order) \in Nat /\ DOMAIN Order = 1..Len(Order)
    BY SamplerAssumption
  <2> QED BY <2>1 DEF OpenCall, Probe, ProbeFails, ProbeEnd, At, IndInv, TypeOK
<1>4. TypeOK'
  BY <1>1, <1>2, <1>3 DEF IndInv, TypeOK, kernel
<1>5. EventsAtRate' /\ CountersExact' /\ ReadAdds' /\ NothingYet' /\ AllPublished'
  BY <1>1 DEF IndInv, EventsAtRate, CountersExact, Exact, ReadAdds, NothingYet, OpenedSoFar,
              AllPublished, kernel
<1>6. OpenedSoFar'
  <2>1. fds = {} /\ fds' = {} /\ ~first /\ ~first'
    BY <1>1 DEF IndInv, OpenedSoFar, kernel
  <2>2. pos' = 1 => {Order[i] : i \in 1..pos' - 1} = {}
    OBVIOUS
  <2> QED BY <1>1, <2>1, <2>2 DEF IndInv, OpenedSoFar, kernel
<1> QED BY <1>4, <1>5, <1>6 DEF IndInv

\* perfidious_platform_sampler_open() goes through the metrics in order.
LEMMA OpenMetricIndInv ==
  ASSUME IndInv, NEW m \in Metric, OpenMetric(m)
  PROVE  IndInv'
<1>1. Len(Order) \in Nat /\ DOMAIN Order = 1..Len(Order)
  BY SamplerAssumption
<1>2. pos \in 1..Len(Order) /\ m = Order[pos] /\ pos' = pos + 1 /\ pc = "open" /\ pc' = "open"
  BY <1>1 DEF OpenMetric, At
<1>3. counters' = counters /\ counters = NoCounters
  BY <1>2 DEF OpenMetric, IndInv, NothingYet, NoCounters
<1>4. TypeOK'
  BY <1>1, <1>2, <1>3, ZerosTyped DEF OpenMetric, IndInv, TypeOK
<1>5. EventsAtRate'
  <2>1. Zero.value = 0 /\ Zero.running = 0 /\ Rate[m] * 0 = 0
    BY SamplerAssumption DEF Zero
  <2>2. event' = [event EXCEPT ![m] = Zero] /\ event \in [Metric -> Reading]
    BY DEF OpenMetric, IndInv, TypeOK
  <2> QED BY <2>1, <2>2 DEF EventsAtRate, IndInv
<1>6. CountersExact' /\ ReadAdds' /\ NothingYet' /\ AllPublished'
  BY <1>2, <1>3 DEF OpenMetric, IndInv, CountersExact, Exact, ReadAdds, NothingYet, AllPublished
<1>7. OpenedSoFar'
  <2>1. {Order[i] : i \in 1..pos' - 1} = {Order[i] : i \in 1..pos - 1} \cup {m}
    BY <1>1, <1>2
  <2>2. fds' = {Order[i] : i \in 1..pos' - 1} \cap requested' /\ ~first'
    BY <1>2, <2>1 DEF OpenMetric, IndInv, OpenedSoFar
  <2> QED BY <1>2, <1>3, <2>2, ZerosTyped DEF OpenedSoFar
<1> QED BY <1>4, <1>5, <1>6, <1>7 DEF IndInv

\* A read starts from the counters of the last successful one.
LEMMA ReadStartsIndInv ==
  ASSUME IndInv, OpenEnd \/ \E t \in Thread : ReadCall(t)
  PROVE  IndInv'
<1>1. Len(Order) \in Nat /\ DOMAIN Order = 1..Len(Order)
  BY SamplerAssumption
<1>2. /\ UNCHANGED <<kernel, requested, supported, threadId, counters, snapshot>>
      /\ pc' = "read" /\ pos' = 1 /\ next' = counters /\ first' \in BOOLEAN
  BY DEF OpenEnd, ReadCall
<1>3. TypeOK'
  BY <1>1, <1>2 DEF IndInv, TypeOK, kernel
<1>4. fds = requested
  <2>1. CASE OpenEnd
    <3>1. {Order[i] : i \in 1..pos - 1} = Metric
      BY <1>1, <2>1 DEF OpenEnd, AtEnd, Metric
    <3> QED BY <2>1, <3>1 DEF OpenEnd, IndInv, OpenedSoFar, TypeOK
  <2>2. CASE \E t \in Thread : ReadCall(t)
    BY <2>2 DEF ReadCall, IndInv, OpenedSoFar
  <2> QED BY <2>1, <2>2
<1>5. EventsAtRate' /\ CountersExact' /\ AllPublished' /\ OpenedSoFar'
  BY <1>2, <1>4 DEF IndInv, EventsAtRate, CountersExact, Exact, AllPublished, OpenedSoFar, kernel
<1>6. ReadAdds'
  <2>1. \A m \in Metric : counters[m].total \in Nat
    BY DEF IndInv, TypeOK, Counter
  <2> QED BY <1>2, <2>1 DEF ReadAdds, IndInv, OpenedSoFar, kernel
<1>7. NothingYet'
  BY <1>2 DEF OpenEnd, ReadCall, NothingYet, IndInv, OpenedSoFar
<1> QED BY <1>3, <1>5, <1>6, <1>7 DEF IndInv

\* A metric is accumulated in the working copy.
LEMMA ReadMetricIndInv ==
  ASSUME IndInv, NEW m \in Metric, ReadMetric(m)
  PROVE  IndInv'
<1>1. Len(Order) \in Nat /\ DOMAIN Order = 1..Len(Order)
  BY SamplerAssumption
<1>2. /\ UNCHANGED <<kernel, requested, supported, pc, threadId, counters, first, snapshot>>
      /\ pc = "read" /\ pos \in 1..Len(Order) /\ pos' = pos + 1
  BY <1>1 DEF ReadMetric, At
<1>3. next \in [Metric -> Counter] /\ \A n \in Metric : counters[n].total \in Nat /\ next[n].total \in Nat
  BY DEF IndInv, TypeOK, Counter
<1>4. /\ next' \in [Metric -> Counter]
      /\ \A n \in Metric : /\ Exact(next'[n], n) /\ next'[n].total >= next[n].total
                           /\ n \notin fds => next'[n] = next[n]
  <2>1. CASE m \in fds
    <3>1. next' = [next EXCEPT ![m] = Accumulate(m)] /\ Usable(m)
      BY <2>1 DEF ReadMetric
    <3>2. /\ Accumulate(m) \in Counter /\ Exact(Accumulate(m), m)
          /\ Accumulate(m).total >= next[m].total
      BY <3>1, AccumulateExact
    <3>3. \A n \in Metric : Exact(next[n], n)
      BY DEF IndInv, CountersExact
    <3> QED BY <1>3, <2>1, <3>1, <3>2, <3>3
  <2>2. CASE m \notin fds
    BY <1>3, <2>2 DEF ReadMetric, IndInv, CountersExact
  <2> QED BY <2>1, <2>2
<1>5. TypeOK'
  BY <1>1, <1>2, <1>4 DEF IndInv, TypeOK, kernel
<1>6. CountersExact'
  BY <1>2, <1>4 DEF IndInv, CountersExact, Exact
<1>7. ReadAdds'
  <2>1. \A n \in Metric : next'[n].total \in Nat
    BY <1>4 DEF Counter
  <2> QED BY <1>2, <1>3, <1>4, <2>1 DEF IndInv, ReadAdds, kernel
<1>8. EventsAtRate' /\ NothingYet' /\ AllPublished' /\ OpenedSoFar'
  BY <1>2 DEF IndInv, EventsAtRate, NothingYet, AllPublished, OpenedSoFar, kernel
<1> QED BY <1>5, <1>6, <1>7, <1>8 DEF IndInv

\* A failed read forgets the working copy, or the sampler that is being opened.
LEMMA ReadFailsIndInv ==
  ASSUME IndInv, NEW m \in Metric, ReadFails(m)
  PROVE  IndInv'
<1>1. CASE SamplerClose
  BY <1>1, SamplerCloseIndInv DEF ReadFails
<1>2. CASE ~SamplerClose
  <2>1. /\ UNCHANGED <<kernel, requested, supported, counters, first, snapshot, threadId>>
        /\ pc = "read" /\ pc' = "ready" /\ pos' = 1 /\ next' = counters /\ ~first
    BY <1>2 DEF ReadFails
  <2>2. Len(Order) \in Nat
    BY SamplerAssumption
  <2>3. TypeOK'
    BY <2>1, <2>2 DEF IndInv, TypeOK, kernel
  <2>4. EventsAtRate' /\ CountersExact' /\ AllPublished'
    BY <2>1 DEF IndInv, EventsAtRate, CountersExact, Exact, AllPublished, kernel
  <2>5. ReadAdds' /\ NothingYet' /\ OpenedSoFar'
    BY <2>1 DEF IndInv, ReadAdds, NothingYet, OpenedSoFar, kernel
  <2> QED BY <2>3, <2>4, <2>5 DEF IndInv
<1> QED BY <1>1, <1>2

\* A read that went through all metrics commits and publishes them together.
LEMMA ReadEndIndInv ==
  ASSUME IndInv, ReadEnd
  PROVE  IndInv'
<1>1. /\ UNCHANGED <<kernel, requested, supported, threadId, next>>
      /\ pc = "read" /\ pc' = "ready" /\ pos' = 1 /\ first' = FALSE
      /\ counters' = next /\ snapshot' = [m \in Metric |-> next[m].total]
  BY DEF ReadEnd
<1>2. Len(Order) \in Nat
  BY SamplerAssumption
<1>3. \A m \in Metric : next[m].total \in 0..UintMax
  BY SamplerAssumption DEF IndInv, TypeOK, Counter, CountersExact, Exact
<1>4. snapshot' \in [Metric -> 0..UintMax] /\ first' \in BOOLEAN
  <2>1. snapshot' \in [Metric -> 0..UintMax]
    BY <1>1, <1>3
  <2>2. first' \in BOOLEAN
    BY <1>1, Zenon
  <2> QED BY <2>1, <2>2
<1>5. TypeOK'
  BY <1>1, <1>2, <1>4 DEF IndInv, TypeOK, kernel
<1>6. EventsAtRate' /\ CountersExact' /\ AllPublished'
  BY <1>1 DEF IndInv, EventsAtRate, CountersExact, Exact, AllPublished, kernel
<1>7. ReadAdds' /\ NothingYet' /\ OpenedSoFar'
  BY <1>1 DEF IndInv, ReadAdds, NothingYet, OpenedSoFar, kernel
<1> QED BY <1>5, <1>6, <1>7 DEF IndInv

\* Every step keeps the invariant.
LEMMA NextIndInv == IndInv /\ [Next]_vars => IndInv'
<1> SUFFICES ASSUME IndInv, [Next]_vars PROVE IndInv'
  OBVIOUS
<1>1. CASE \E m \in Metric, d \in 1..MaxStep : \E r \in 0..d : Tick(m, d, r)
  <2>1. PICK m \in Metric, d \in 1..MaxStep : \E r \in 0..d : Tick(m, d, r)
    BY <1>1
  <2>2. PICK r \in 0..d : Tick(m, d, r)
    BY <2>1
  <2>3. d \in Nat /\ r \in Nat
    BY SamplerAssumption
  <2> QED BY <2>2, <2>3, TickIndInv
<1>2. CASE \/ \E t \in Thread, ms \in SUBSET Metric : OpenCall(t, ms)
           \/ \E m \in Metric : ProbeFails(m) \/ \E exists \in BOOLEAN : Probe(m, exists)
           \/ ProbeEnd
  BY <1>2, ProbeIndInv
<1>3. CASE \E m \in Metric : OpenMetric(m)
  BY <1>3, OpenMetricIndInv
<1>4. CASE CloseCall \/ \E m \in Metric : OpenMetricFails(m)
  BY <1>4, SamplerCloseIndInv DEF CloseCall, OpenMetricFails
<1>5. CASE OpenEnd \/ \E t \in Thread : ReadCall(t)
  BY <1>5, ReadStartsIndInv
<1>6. CASE \E m \in Metric : ReadMetric(m)
  BY <1>6, ReadMetricIndInv
<1>7. CASE \E m \in Metric : ReadFails(m)
  BY <1>7, ReadFailsIndInv
<1>8. CASE ReadEnd
  BY <1>8, ReadEndIndInv
<1>9. CASE UNCHANGED vars
  <2>1. TypeOK'
    BY <1>9 DEF IndInv, TypeOK, vars
  <2>2. EventsAtRate' /\ CountersExact' /\ ReadAdds' /\ NothingYet' /\ AllPublished' /\ OpenedSoFar'
    BY <1>9 DEF IndInv, EventsAtRate, CountersExact, Exact, ReadAdds, NothingYet, AllPublished,
                OpenedSoFar, vars
  <2> QED BY <2>1, <2>2 DEF IndInv
<1> QED BY <1>1, <1>2, <1>3, <1>4, <1>5, <1>6, <1>7, <1>8, <1>9 DEF Next, CallStep

\* The invariant holds in every reachable state.
LEMMA Invariance == Spec => []IndInv
  BY InitIndInv, NextIndInv, PTL DEF Spec

-----------------------------------------------------------------------------
(* The safety properties. *)

\* Type correctness, the 64 bits of every snapshot among it.
THEOREM TypeCorrect == Spec => []TypeOK
  BY Invariance, PTL DEF IndInv

\* However its event was multiplexed and however many reads failed, the total of an
\* open metric is what it would have counted had it been scheduled all the time.
THEOREM TotalIsUnmultiplexedAlways == Spec => []TotalIsUnmultiplexed
<1>1. IndInv => TotalIsUnmultiplexed
  BY DEF IndInv, TypeOK, CountersExact, Exact, TotalIsUnmultiplexed
<1> QED BY <1>1, Invariance, PTL

\* A failed read consumes no part of any metric's interval.
THEOREM NothingUnpublishedAlways == Spec => []NothingUnpublished
<1>1. IndInv => NothingUnpublished
  BY DEF IndInv, TypeOK, AllPublished, NothingUnpublished
<1> QED BY <1>1, Invariance, PTL

\* No descriptor survives a failed open(), a failed first read or a close, and an open
\* sampler has exactly those of its metrics.
THEOREM DescriptorsMatchStateAlways == Spec => []DescriptorsMatchState
<1>1. IndInv => DescriptorsMatchState
  BY DEF IndInv, OpenedSoFar, DescriptorsMatchState
<1> QED BY <1>1, Invariance, PTL

-----------------------------------------------------------------------------
(* The sampler is a counter backend. *)

\* Closing the sampler closes the backend, or leaves a closed one closed.
LEMMA CloseStep ==
  ASSUME SamplerClose, pc \in {"open", "read", "ready"}
  PROVE  Backend!Close
  BY DEF SamplerClose, Backend!Close, Backend!Zeros, NoSnapshot

\* A committed read is a read of the backend, the first one or a later one.
LEMMA ReadEndStep ==
  ASSUME IndInv, ReadEnd
  PROVE  Backend!FirstRead \/ Backend!Read
<1>1. /\ pc = "read" /\ pc' = "ready" /\ first' = FALSE /\ requested' = requested
      /\ snapshot' = [m \in Metric |-> next[m].total]
  BY DEF ReadEnd
<1>2. \A m \in Metric : next[m].total \in 0..UintMax
  BY SamplerAssumption DEF IndInv, TypeOK, Counter, CountersExact, Exact
<1>3. \A m \in Metric \ requested : next[m].total = 0
  BY <1>1 DEF IndInv, ReadAdds, OpenedSoFar
<1>4. \A m \in Metric : next[m].total >= snapshot[m]
  BY <1>1 DEF IndInv, ReadAdds, AllPublished
<1>5. snapshot' \in [Metric -> 0..UintMax] /\ \A m \in Metric : snapshot'[m] = next[m].total
  BY <1>1, <1>2
<1>6. Backend!Snapshot(snapshot', requested)
  BY <1>3, <1>5 DEF Backend!Snapshot
<1>7. CASE first
  BY <1>1, <1>6, <1>7 DEF Backend!FirstRead
<1>8. CASE ~first
  BY <1>1, <1>4, <1>5, <1>6, <1>8 DEF Backend!Read
<1> QED BY <1>7, <1>8

\* A step of the sampler is a step of the backend or leaves it alone.
LEMMA BackendStep == IndInv /\ [Next]_vars => [Backend!Next]_Backend!vars
<1> SUFFICES ASSUME IndInv, [Next]_vars PROVE Backend!Next \/ UNCHANGED Backend!vars
  OBVIOUS
<1>1. CASE \/ \E m \in Metric, d \in 1..MaxStep : \E r \in 0..d : Tick(m, d, r)
           \/ \E m \in Metric : ReadMetric(m)
           \/ UNCHANGED vars
  <2>1. UNCHANGED <<requested, pc, first, snapshot>>
    BY <1>1 DEF Tick, ReadMetric, vars
  <2> QED BY <2>1 DEF Backend!vars
<1>2. CASE \/ \E t \in Thread, ms \in SUBSET Metric : OpenCall(t, ms)
           \/ \E m \in Metric : ProbeFails(m) \/ \E exists \in BOOLEAN : Probe(m, exists)
  <2>1. pc \in {"none", "probe"} /\ pc' \in {"none", "probe"} /\ UNCHANGED snapshot
    BY <1>2 DEF OpenCall, Probe, ProbeFails
  <2> QED BY <2>1 DEF Backend!vars
<1>3. CASE ProbeEnd
  <2>1. pc = "probe" /\ snapshot' = snapshot /\ pc' \in {"none", "open"}
    BY <1>3 DEF ProbeEnd
  <2>2. requested' \in SUBSET Metric /\ snapshot = NoSnapshot
    BY <1>3, <2>1 DEF ProbeEnd, IndInv, TypeOK, NothingYet
  <2>3. CASE pc' = "none"
    BY <2>1, <2>3 DEF Backend!vars
  <2>4. CASE pc' = "open"
    <3>1. Backend!Open
      BY <2>1, <2>2, <2>4 DEF Backend!Open, Backend!Zeros, NoSnapshot
    <3> QED BY <3>1 DEF Backend!Next
  <2> QED BY <2>1, <2>3, <2>4
<1>4. CASE \E m \in Metric : OpenMetric(m)
  <2>1. UNCHANGED <<requested, pc, first, snapshot>>
    BY <1>4 DEF OpenMetric
  <2> QED BY <2>1 DEF Backend!vars
<1>5. CASE CloseCall \/ \E m \in Metric : OpenMetricFails(m)
  <2>1. SamplerClose /\ pc \in {"open", "ready"}
    BY <1>5 DEF CloseCall, OpenMetricFails
  <2> QED BY <2>1, CloseStep DEF Backend!Next
<1>6. CASE OpenEnd
  BY <1>6 DEF OpenEnd, Backend!vars
<1>7. CASE \E t \in Thread : ReadCall(t)
  BY <1>7 DEF ReadCall, Backend!vars
<1>8. CASE \E m \in Metric : ReadFails(m)
  <2>1. CASE SamplerClose
    BY <1>8, <2>1, CloseStep DEF ReadFails, Backend!Next
  <2>2. CASE ~SamplerClose
    BY <1>8, <2>2 DEF ReadFails, Backend!vars
  <2> QED BY <2>1, <2>2
<1>9. CASE ReadEnd
  BY <1>9, ReadEndStep DEF Backend!Next
<1> QED BY <1>1, <1>2, <1>3, <1>4, <1>5, <1>6, <1>7, <1>8, <1>9 DEF Next, CallStep

\* The Linux sampler keeps the contract sampler.c is written against.
THEOREM LinuxIsBackend == Spec => ImplementsBackend
<1>1. Init => Backend!Init
  BY DEF Init, Backend!Init, Backend!Zeros, NoSnapshot
<1> QED BY <1>1, Invariance, BackendStep, PTL DEF Spec, ImplementsBackend, Backend!Spec
=============================================================================
