------------------------------- MODULE Sampler -------------------------------
(***************************************************************************)
(* Perfidious\Sampler, Sample and SampleDelta (src/src/sampler.c), over a  *)
(* backend whose totals never decrease (LinuxSampler is one).  Samples     *)
(* remember their sampler by the address of a reference-counted identity   *)
(* block, which the allocator hands out again once it is freed.            *)
(***************************************************************************)
EXTENDS Naturals, FiniteSets

CONSTANTS SamplerSlot,  \* places for Sampler objects
          SampleSlot,   \* places for Sample objects
          Addr,         \* addresses of identity blocks
          LongMax,      \* ZEND_LONG_MAX
          MaxClock,     \* bound on the monotonic clock
          MaxTotal,     \* bound on a backend's total
          MaxFirst,     \* bound on the total its first read returns
          MaxOpens,     \* bound on the samplers opened altogether
          MaxReads      \* bound on the reads of one sampler that create a sample

ASSUME SamplerBounds ==
  /\ LongMax \in Nat /\ MaxClock \in Nat /\ MaxTotal \in Nat /\ MaxFirst \in Nat
  /\ MaxOpens \in Nat /\ MaxReads \in Nat

VARIABLES
  refcount,   \* of each identity block; 0 when the block is free
  sampler,    \* the Sampler objects: a function on the slots in use
  sample,     \* the Sample objects: a function on the slots in use
  clock,      \* hrtime
  opens       \* samplers opened so far; numbers them (observed)

vars == <<refcount, sampler, sample, clock, opens>>

Without(f, x) == [y \in DOMAIN f \ {x} |-> f[y]]
With(f, x, v) == [y \in DOMAIN f \cup {x} |-> IF y = x THEN v ELSE f[y]]

Init ==
  /\ refcount = [a \in Addr |-> 0]
  /\ sampler = [s \in {} |-> 0]
  /\ sample = [x \in {} |-> 0]
  /\ clock = 0
  /\ opens = 0

\* perfidious_sample_identity_release()
Release(a) == refcount' = [refcount EXCEPT ![a] = @ - 1]

-----------------------------------------------------------------------------
(* The world: time passes, a backend counts. *)

Tick == clock < MaxClock /\ clock' = clock + 1 /\ UNCHANGED <<refcount, sampler, sample, opens>>

Count(s) ==
  /\ s \in DOMAIN sampler /\ sampler[s].state = "open" /\ sampler[s].total < MaxTotal
  /\ sampler' = [sampler EXCEPT ![s].total = @ + 1]
  /\ UNCHANGED <<refcount, sample, clock, opens>>

-----------------------------------------------------------------------------
(* Sampler::open(): object and identity exist before the backend is opened. *)

OpenBegin(s, a) ==
  /\ s \notin DOMAIN sampler /\ refcount[a] = 0 /\ opens < MaxOpens
  /\ opens' = opens + 1
  /\ refcount' = [refcount EXCEPT ![a] = 1]
  /\ sampler' = With(sampler, s, [state |-> "opening", identity |-> a, total |-> 0, origin |-> 0,
                                  timeOrigin |-> 0, number |-> opens + 1, reads |-> 0])
  /\ UNCHANGED <<sample, clock>>

\* The backend opens and its first read, whatever total it starts from, is the origin.
OpenSucceeds(s, total) ==
  /\ s \in DOMAIN sampler /\ sampler[s].state = "opening"
  /\ sampler' = [sampler EXCEPT ![s].state = "open", ![s].total = total,
                                ![s].origin = total, ![s].timeOrigin = clock]
  /\ UNCHANGED <<refcount, sample, clock, opens>>

\* sampler_obj_free(): on the last reference, or when opening or its read failed.
FreeSampler(s) ==
  /\ s \in DOMAIN sampler
  /\ Release(sampler[s].identity)
  /\ sampler' = Without(sampler, s)
  /\ UNCHANGED <<sample, clock, opens>>

Close(s) ==
  /\ s \in DOMAIN sampler /\ sampler[s].state = "open"
  /\ sampler' = [sampler EXCEPT ![s].state = "closed"]
  /\ UNCHANGED <<refcount, sample, clock, opens>>

-----------------------------------------------------------------------------
(* Sampler::read(): a failed backend read leaves everything as it was.       *)

\* Mutants of Read: no overflow check; the sample does not keep the identity alive.
ReadAnySize(s, x) ==
  /\ s \in DOMAIN sampler /\ sampler[s].state = "open" /\ sampler[s].reads < MaxReads
  /\ x \notin DOMAIN sample
  /\ sample' = With(sample, x, [identity |-> sampler[s].identity,
                                value    |-> sampler[s].total - sampler[s].origin,
                                time     |-> clock - sampler[s].timeOrigin,
                                number   |-> sampler[s].number,
                                order    |-> sampler[s].reads])
  /\ refcount' = [refcount EXCEPT ![sampler[s].identity] = @ + 1]
  /\ sampler' = [sampler EXCEPT ![s].reads = @ + 1]
  /\ UNCHANGED <<clock, opens>>

ReadUncounted(s, x) ==
  /\ s \in DOMAIN sampler /\ sampler[s].state = "open" /\ sampler[s].reads < MaxReads
  /\ x \notin DOMAIN sample
  /\ sampler[s].total - sampler[s].origin <= LongMax
  /\ sample' = With(sample, x, [identity |-> sampler[s].identity,
                                value    |-> sampler[s].total - sampler[s].origin,
                                time     |-> clock - sampler[s].timeOrigin,
                                number   |-> sampler[s].number,
                                order    |-> sampler[s].reads])
  /\ sampler' = [sampler EXCEPT ![s].reads = @ + 1]
  /\ UNCHANGED <<refcount, clock, opens>>

Read(s, x) ==
  /\ s \in DOMAIN sampler /\ sampler[s].state = "open" /\ sampler[s].reads < MaxReads
  /\ x \notin DOMAIN sample
  /\ clock >= sampler[s].timeOrigin
  /\ sampler[s].total - sampler[s].origin <= LongMax
  /\ sample' = With(sample, x, [identity |-> sampler[s].identity,
                                value    |-> sampler[s].total - sampler[s].origin,
                                time     |-> clock - sampler[s].timeOrigin,
                                number   |-> sampler[s].number,
                                order    |-> sampler[s].reads])
  /\ refcount' = [refcount EXCEPT ![sampler[s].identity] = @ + 1]
  /\ sampler' = [sampler EXCEPT ![s].reads = @ + 1]
  /\ UNCHANGED <<clock, opens>>

\* Mutant of ReadOverflows: the sample is not destroyed.
ReadOverflowsLeaks(s) ==
  /\ s \in DOMAIN sampler /\ sampler[s].state = "open" /\ sampler[s].reads < MaxReads
  /\ clock >= sampler[s].timeOrigin
  /\ sampler[s].total - sampler[s].origin > LongMax
  /\ refcount' = [refcount EXCEPT ![sampler[s].identity] = @ + 1]
  /\ sampler' = [sampler EXCEPT ![s].reads = @ + 1]
  /\ UNCHANGED <<sample, clock, opens>>

\* A value does not fit: the sample, which by then has its reference to the identity, is
\* destroyed again (OverflowException).
ReadOverflows(s) ==
  /\ s \in DOMAIN sampler /\ sampler[s].state = "open" /\ sampler[s].reads < MaxReads
  /\ clock >= sampler[s].timeOrigin
  /\ sampler[s].total - sampler[s].origin > LongMax
  /\ LET created == [refcount EXCEPT ![sampler[s].identity] = @ + 1]
     IN  refcount' = [created EXCEPT ![sampler[s].identity] = @ - 1]
  /\ sampler' = [sampler EXCEPT ![s].reads = @ + 1]
  /\ UNCHANGED <<sample, clock, opens>>

FreeSample(x) ==
  /\ x \in DOMAIN sample
  /\ Release(sample[x].identity)
  /\ sample' = Without(sample, x)
  /\ UNCHANGED <<sampler, clock, opens>>

\* perfidious_uint64_to_long()
ToLong(v) == IF v > LongMax THEN "OverflowException" ELSE "int"

\* Sample::value() and SampleDelta::value(), for the metric the sampler was opened with.
Value(v) == ToLong(v)

\* Mutant of Since: the operands are swapped.
SinceSwapped(later, earlier) ==
  IF later.identity # earlier.identity \/ earlier.time < later.time THEN "ValueError"
  ELSE IF earlier.time - later.time > LongMax THEN "OverflowException"
  ELSE IF earlier.value < later.value THEN "IOException"
  ELSE "SampleDelta"

\* Sample::since(): later->since(earlier).
Since(later, earlier) ==
  IF later.identity # earlier.identity \/ later.time < earlier.time THEN "ValueError"
  ELSE IF ToLong(later.time - earlier.time) # "int" THEN "OverflowException"
  ELSE IF later.value < earlier.value THEN "IOException"
  ELSE "SampleDelta"

-----------------------------------------------------------------------------

Next ==
  \/ Tick
  \/ \E s \in SamplerSlot :
        \/ Count(s)
        \/ \E a \in Addr : OpenBegin(s, a)
        \/ \E total \in 0..MaxFirst : OpenSucceeds(s, total)
        \/ FreeSampler(s)
        \/ Close(s)
        \/ \E x \in SampleSlot : Read(s, x)
        \/ ReadOverflows(s)
  \/ \E x \in SampleSlot : FreeSample(x)

Spec == Init /\ [][Next]_vars

-----------------------------------------------------------------------------
(* Properties. *)

SamplerObj == [state : {"opening", "open", "closed"}, identity : Addr, total : Nat,
               origin : Nat, timeOrigin : Nat, number : Nat, reads : Nat]
SampleObj  == [identity : Addr, value : 0..LongMax, time : Nat, number : Nat, order : Nat]

\* Every variable keeps its type.
TypeOK ==
  /\ refcount \in [Addr -> Nat]
  /\ DOMAIN sampler \subseteq SamplerSlot /\ \A s \in DOMAIN sampler : sampler[s] \in SamplerObj
  /\ DOMAIN sample \subseteq SampleSlot /\ \A x \in DOMAIN sample : sample[x] \in SampleObj
  /\ clock \in Nat /\ opens \in Nat

\* An identity block is freed when, and only when, no sampler and no sample refers
\* to it: none leaks and none is used after it was freed, in whatever order the
\* objects go and wherever opening or reading fails.
IdentityCounted ==
  \A a \in Addr :
    refcount[a] = Cardinality({s \in DOMAIN sampler : sampler[s].identity = a})
                + Cardinality({x \in DOMAIN sample : sample[x].identity = a})

\* since() tells samplers apart by the address of their identity also after they
\* were destroyed and the allocator has reused addresses.
ForeignSampleRejected ==
  \A x, y \in DOMAIN sample : sample[x].number # sample[y].number =>
                                  Since(sample[x], sample[y]) = "ValueError"

\* A sample that was handed out can be used: value() of it, and of the difference to any
\* sample since() accepts, is a PHP integer and not negative.
ValuesConvertible ==
  \A x, y \in DOMAIN sample :
    /\ Value(sample[x].value) = "int"
    /\ Since(sample[x], sample[y]) = "SampleDelta" =>
         sample[x].value >= sample[y].value /\ Value(sample[x].value - sample[y].value) = "int"

\* Samples of one sampler can be subtracted in the order they were taken, also after
\* close(): the result is a delta unless the elapsed time is not a PHP integer.
InOrderSubtracts ==
  \A x, y \in DOMAIN sample :
    (sample[x].number = sample[y].number /\ sample[x].order >= sample[y].order) =>
       IF sample[x].time - sample[y].time > LongMax
       THEN Since(sample[x], sample[y]) = "OverflowException"
       ELSE Since(sample[x], sample[y]) = "SampleDelta"

\* docs/SAMPLER_API.md:252-253: "Passing a sample from another sampler or a later
\* sample throws `ValueError`".
LaterSampleRejected ==
  \A x, y \in DOMAIN sample :
    (sample[x].number = sample[y].number /\ sample[y].order > sample[x].order) =>
       Since(sample[x], sample[y]) = "ValueError"
=============================================================================
