# Verification of php-perfidious

php-perfidious is a PHP extension, written in C, that gives scripts access to
native performance counters: Linux perf events, Windows thread profiling and
process counters, Darwin resource usage. This directory holds TLA+ models of the
parts that keep state, the TLC configurations that check them on small instances,
and TLAPS proofs of their properties for all values of the constants. Paths are relative to the repository.

## The system

| Component | Source | State | Operations |
|---|---|---|---|
| `Perfidious\Handle` | `src/handle.c`, `src/handle.h` | the event group's descriptors and ids, `enabled`, the timing baseline `time_*_at_reset` | `open`, `enable`, `disable`, `reset`, `read`, `readArray`, `rawStream`, `close`, destructor |
| Request handle | `src/linux/platform.c`, `src/functions.c` | module globals: `request_handle`, `_pid`, `_ready`, `_error` | RINIT, RSHUTDOWN, GSHUTDOWN, `request_handle()`, `phpinfo()` |
| `Perfidious\Sampler`, `Sample`, `SampleDelta` | `src/sampler.c` | platform sampler, origin, reference-counted identity | `open`, `read`, `close`, `since`, destructors |
| Linux sampler backend | `src/linux/sampler.c`, `counter_math.h` | a descriptor, the previous reading and a total per metric; the thread id | `supported_metrics`, `open`, `read`, `close` |
| Windows sampler backend | `src/windows/sampler.c` | thread and profile handles, 32-bit counters and their 64-bit bases | the same |
| `Perfidious\Windows\ThreadProfile` | `src/windows/functions.c`, `thread_profile.c` | profiling session handle, counter mask, origins of the cycle and hardware counters | enable, `read`, `close`, destructor |
| Windows functions | `src/windows/functions.c`, `private.h` | none | cycle times, process and thread times, memory information |
| Darwin backend and functions | `src/darwin/*.c` | the timebase and the `thread_selfcounts` pointer set by MINIT; a sampler's metrics, scope and thread id | `get_current_{process,thread}_resource_usage`, the sampler operations |
| PMU listing, `ReadResult`, exceptions | the other files of `src/` | none | single reads, class registration |

How they interact. A `Handle` object owns a `struct perfidious_handle`, except the
one `request_handle()` returns, which borrows the persistent handle of the module
globals. RINIT and RSHUTDOWN work on that handle around the script that may use it, in
a process, or in each thread of a thread-safe (ZTS) server with globals of its own.
`Sampler` calls the backend selected at build time; samples keep their sampler's
identity alive. What it needs of a backend is stated once, as `CounterBackend`, and
each backend is shown to implement it. `ThreadProfile` and current-thread samplers on Windows compete for
the one profiling session of a native thread. The kernel is the other party
throughout: it counts between any two system calls, fails any of them, reuses
descriptor numbers, process ids and thread ids, and shares event groups over `fork()`.

What is hard: operations of several system calls of which one fails; state that
survives a request or a fork; identities that are reused (descriptors, addresses,
pids, thread ids); unsigned differences, 32-bit wraps and 64-bit overflow. The
list, line by line, is under `hazards` in `PROJECT.json`.

What makes each component correct:

* Handle: counts and times always describe one interval; a call restores the running
  state or reports; descriptors have exactly one owner.
* Request handle: what a request can read is its own work, all of it and nothing else;
  errors are reported once; no failure disables it for good; nothing leaks to workers.
* Sampler: samples of different samplers are never mixed; samples subtract in order and
  convert to PHP integers.
* Backends: totals are exact whatever was multiplexed, wrapped or failed; a read
  publishes everything or nothing and returns; nothing leaks from a failed open.
* Windows values: every integer is the exact count since profiling was enabled, whatever
  word the counter started from, or an exception that is justified.

## The modules

**`Stopwatch`** is the abstract specification of a handle: it runs or stands still,
accumulates while it runs, and is zeroed at one instant while it stands still.

**`CounterBackend`** is the abstract specification of a platform backend: a snapshot of
words for the metrics asked for, that may start anywhere and never decrease while the
sampler is open. Failed reads are stuttering steps. `LinuxSampler`, `WindowsSampler` and
`DarwinSampler` each have a refinement mapping to it (`Backend`) and the property
`ImplementsBackend`. In `LinuxSampler`, whose calls take several steps, a sampler is
"opening" until its first read has committed, and the metrics a read has accumulated
so far are not part of the mapping: only a commit is a step of the backend.

**`PerfHandle`** is an open handle at the granularity of system calls. `leaderOn`,
`count`, `timeEnabled` and `timeRunning` are the kernel's group; `enabled` and
`time*AtReset` are the fields of `struct perfidious_handle`; `pc`, `wasEnabled`,
`data` and `error` are the call in progress. `Enable`, `Disable`, `Reset*` (one
action per system call of `perfidious_handle_try_reset()`), `Read*` (`read()` and
`readArray()`) and `Info` (`minfo_handle_metrics()`) follow the source; each may
fail, and `Tick` lets the group count between any two of them. The member counts one
per unit of scheduled time, so that a wrong boundary shows as a difference between
count and running time.

**`HandleDescriptors`** has the descriptor table of a process whose threads open,
close and duplicate handles, one system call per step, next to files of the
application that take the numbers a handle releases.

**`RequestHandle`** has PHP workers with their module globals over shared event
groups. A worker is a process (`Fork` copies the globals and shares the groups) or a
thread (`ThreadStart` gives it fresh globals in the same process). A server forks its
workers before it has threads; only `pcntl_fork()` could mix the two. A handle's system calls are taken together (`PerfHandle` has them one by
one) with the set of those that fail chosen; a count is the set of requests whose
work it contains. `Rinit*` and `Prepare` are RINIT, `Rshutdown` is RSHUTDOWN,
after which (`late`) the RSHUTDOWN of other modules can still run user code;
`EndRequest` frees the objects, `Exit` is GSHUTDOWN or a kill. `InfoRows` is what
`phpinfo()` prints under "Request Metrics". `request_metrics` is
never NULL (it has an INI default and is `PHP_INI_SYSTEM`), so that branch is left out.

**`Sampler`** has samplers, samples and their identity blocks, with addresses
handed out again once free, over a backend whose total never decreases, as
`CounterBackend` promises. `ReadOverflows` is the read that has made a sample, with its
reference to the identity, and destroys it again because a value does not fit.

**`LinuxSampler`** is the Linux backend, one metric per step; each event is
multiplexed on its own. **`WindowsSampler`** is the Windows read path with the
widening of the 32-bit counters; **`WindowsProfiling`** has native threads, their
profiling sessions and the objects that own them. Opening a current-thread sampler is two
native calls: `DuplicateHandle`, then either `OpenSampler`, which enables profiling where
the metrics need it, or `OpenSamplerFails`, where the thread is busy or Windows refuses and
the duplicated handle is closed again. In between (`opening`) the thread does nothing else,
while other threads go on.

**`ThreadProfile`** has the values of `Windows\ThreadProfile` and of the Windows
functions. A session's cycle and hardware counters start from any of `Baselines` and
wrap; `Enable*`, `ReadOrigin*`, `Read*` and `Close*` are the native calls of
the object, with events in between, and `Convert` is the conversion to PHP integers that
`read()` and the functions share. `outcome` holds the integers returned next to the
numbers they should be, and is observed only.

**`DarwinSampler`** has threads that accumulate Mach units, for themselves and for their
process, whose total the kernel keeps as a counter of its own; the conversion of those to
nanoseconds in words of limited width (`MachTimeToNs`, `TimeValueToNs`), the two
resource usage functions (`GetUsage*`) and the sampler (`Supported`, `Open`, `Read*`,
`Close`). `machine` is the true ratio and `timebase` what MINIT got of it. Every read is
one native call followed by arithmetic, so it is one step. `outcome` is observed only.

A module `M_proofs` proves the properties of `M`, for all values of the constants.
`WindowsProfiling_proofs` does so for the two halves of a thread profile, `WindowsProfiling`
and `ThreadProfile`; it extends both, which is why the specification of the latter is
called `ProfileSpec`.

An `MC*` module gives each of these its constants. Definitions marked *Mutant* are
the broken variants used to confirm that each property can fail; no specification
uses them.

## The runs

| Run | What it shows | Distinct states |
|---|---|---|
| `PerfHandle` | the invariants below, `CallRestoresOrReports`, refinement of `Stopwatch` | 120,000 |
| `HandleDescriptors` | `OneOwner`, `LeaderOutlivesMembers`, `ReadMatchesMetrics`, `FilesUntouched` | 757,000 |
| `RequestHandle` | `RequestIsolation`, `OwnGroup`, `RequestMeasured`, `DescriptorsOwned`, `BorrowedNotDangling`, `UnavailableExplained`, `InfoExplained`, `StartRecovers`, `LifecycleSparesOthers`, `FirstErrorKept` | 1,244,000 |
| `LinuxSampler` | `TotalIsUnmultiplexed`, `NothingUnpublished`, `DescriptorsMatchState`, refinement of `CounterBackend`, `CallsReturn` | 203,000 |
| `Sampler` | `IdentityCounted`, `ForeignSampleRejected`, `ValuesConvertible`, `InOrderSubtracts` | 1,769,000 |
| `WindowsSampler` | `WidenedExact`, refinement of `CounterBackend` | 441,000 |
| `WindowsProfiling` | `SessionOwned`, `ReadsOwnThread`, `HandlesReleased` | 497,000 |
| `DarwinSampler` | `CpuTimeExact`, `OverflowReal`, `CyclesCounted`, refinement of `CounterBackend` | 173,000 |
| `ThreadProfile` | `ResultExact`, `OverflowReal` | 1,386,000 |
| `ForkInRequest` | violated: `RequestMeasured` of the parent when a script forks | |
| `PidReuse` | violated: `OwnGroup` when a process id is reused | |
| `LaterSample` | violated: `LaterSampleRejected` for equal timestamps | |

Bounds, and why they are enough:

* `PerfHandle`: five units of lifetime in steps of at most two allow two resets with
  the group multiplexed in each interval; `LongMax` 3 makes counts and times overflow
  the conversion to PHP integers separately.
* `HandleDescriptors`: two threads, four numbers, groups of up to three events and five
  events altogether: two groups overlap, and a released number is taken by the other
  thread, a stream or a file. Events are numbered by the kernel and never reused.
* `RequestHandle`: two workers (parent and forked child, or two threads), two groups and
  three requests: a failing request, the one that inherits its state, and a clean one. The
  violation runs add a fork inside a request, or a third process with a reused id.
* `LinuxSampler`: two metrics of different rates show an order among them;
  `UintMax` 8 is crossed by the faster one only.
* `Sampler`: two samplers at a time, three opened altogether over three addresses, so an
  address is reused while samples of its first owner may live.
* `WindowsSampler`: a two-bit counter widened to four bits goes round until the wide
  one overflows. Between two reads fewer than a full turn of events happen: a double
  wrap is unobservable by any sampler (`docs/development/code-simplifications.md`).
  The kernel and user times 0, 2, 3 and 8 give sums that fit, that only overflow the
  conversion to nanoseconds, and that overflow 64 bits themselves.
* `WindowsProfiling`: three threads, two of which have the same id at different times,
  two objects and four sessions: two threads open at the same time, and one opens while
  its session belongs to another object, which a third thread may just be freeing.
* `DarwinSampler`: four-bit words and two-bit ratios (1/1, 3/2, 2/3), so that a quotient,
  the sum of whole and fraction (11 units at 3/2), and the sum of user and system time
  each overflow separately, and a direct product would wrap where the result fits.
  Threads run in steps of 4 and 7 units, which reach 4, 7, 8, 11 and 12.
* `ThreadProfile`: four-bit words. Counters start at 0, at the largest PHP integer (7) and
  at 13, from where steps of 4 and 7 pass the end of the word; the differences 7 and 8
  are the last that fits and the first that does not. The two-bit context-switch count
  wraps.

Symmetry is used for model values that are only compared for equality, never together
with a liveness property. `CHECK_DEADLOCK FALSE` stands where a bounded number of
requests, opens or sessions is used up and every process or thread has ended.

**Fairness.** `LinuxSampler` is checked under `FairSpec`: weak fairness of `CallStep`,
the steps of an `open()` or `read()` in progress. It says that a thread inside a call
goes on executing it, which the operating system's scheduler gives every runnable thread,
and that signals interrupt a `read(2)` only finitely often (the retry at
`linux/sampler.c:160`). Nothing is assumed of the counters: an event may never be
scheduled, and no caller has to call. Under it `CallsReturn` holds: a metric that
cannot be scaled fails the read instead of being waited for. Elsewhere no fairness is assumed: the
extension has no threads, queues or waiting of its own, a handle's or backend's call is
a fixed sequence of system calls, and a script may stop calling at any time. What must
happen there is stated as what holds when a call returns (`CallRestoresOrReports`,
`UnavailableExplained`, `StartRecovers`).

The type invariants (`TypeOK`) of `HandleDescriptors`, `RequestHandle`, `LinuxSampler`,
`Sampler` and `WindowsSampler` are the starting point of the proofs and proved there.
The widths among them that could go wrong are checked by the properties above:
`CounterBackend` has the 64-bit snapshots, `ValuesConvertible` the PHP integers.

## Findings

1. *A child forked inside a request disturbs its parent* (`ForkInRequest`). RSHUTDOWN
   (`src/linux/platform.c:226`) disables and resets `request_handle` without comparing
   the recorded pid, so the child of `pcntl_fork()` stops and clears the group that
   still measures the parent's request. `RequestMeasured` speaks of the process that opened
   the group, and `touched` records what user code of any process did to it, so the trace
   (RINIT, fork, RSHUTDOWN of the child) can only end in such a step: with
   `~Inherited(p)` as a condition of that part of `Rshutdown` the run has no violation
   (468,000 states). RINIT avoids exactly that for forks between
   requests, and `README.md:301` says that `request_handle()` measures individual requests.
2. *A reused process id* (`PidReuse`). RINIT (`platform.c:185`) recognises an inherited
   handle by its pid alone. If the opener has died and a descendant of it gets its id,
   the inherited handle, which measures the dead process, is reset, enabled and lent.
   It takes a full cycle of process ids, and is a limit of the check rather than a
   likely event.
3. *Equal timestamps* (`LaterSample`). `since()` (`src/sampler.c:579`) rejects a
   later sample only when its timestamp is greater; two reads in one tick of the clock
   are accepted in either order, where `docs/SAMPLER_API.md:252` promises a `ValueError`.

## What is proved

Each theorem has the form `Spec => []Property`, or `Spec => Property` for an action
property or a refinement, and holds for every value of the constants that satisfies
the named ASSUME of the module, which TLC evaluates on every run. Those assumptions
give types, name the values that stand for nothing, and fix word sizes
(`Word = Dword * Dword`; `Half * Half <= Word` for the parts of a timebase); no set of threads, objects, numbers or requests is assumed
finite or small. Every proof has the same shape: an inductive invariant `IndInv` of named
parts, one lemma per action that preserves it, and the property from `IndInv`. The
invariants were checked by TLC before they were proved.

| Module | Theorems |
|---|---|
| `PerfHandle_proofs` | `TypeCorrect`, `CountMatchesIntervalAlways`, `BaselineConsistentAlways`, `ScaledIsEnabledTimeAlways`, `CallsRestoreOrReport`, `HandleIsStopwatch` |
| `HandleDescriptors_proofs` | `TypeCorrect`, `OneOwnerAlways`, `LeaderOutlivesMembersAlways`, `ReadMatchesMetricsAlways`, `FilesUntouchedAlways` |
| `RequestHandle_proofs` | `TypeCorrect`, `BorrowedNotDanglingAlways`, `UnavailableExplainedAlways`, `StartRecoversAlways`, `FirstErrorKeptAlways`; with two hypotheses `RequestIsolationAlways`, `OwnGroupAlways`, `RequestMeasuredAlways`, `DescriptorsOwnedAlways`, `InfoExplainedAlways`, `LifecycleSparesOthersAlways` |
| `LinuxSampler_proofs` | `TypeCorrect`, `TotalIsUnmultiplexedAlways`, `NothingUnpublishedAlways`, `DescriptorsMatchStateAlways`, `LinuxIsBackend` |
| `Sampler_proofs` | `TypeCorrect`, `IdentityCountedAlways`, `ForeignSampleRejectedAlways`, `ValuesConvertibleAlways`, `InOrderSubtractsAlways` |
| `WindowsSampler_proofs` | `TypeCorrect`, `WidenedExactAlways`, `WindowsIsBackend` |
| `WindowsProfiling_proofs` | `SessionOwnedAlways`, `ReadsOwnThreadAlways`, `HandlesReleasedAlways`; of `ThreadProfile` `ResultExactAlways`, `OverflowRealAlways` |
| `DarwinSampler_proofs` | `CpuTimeExactAlways`, `OverflowRealAlways`, `CyclesCountedAlways`, `DarwinIsBackend` |

**`PerfHandle`.** None of the invariants is inductive alone. `IndInv` adds `FlagIsLeader`
(the handle's flag is the leader's state between any two system calls), `Boundary` (from
the read of the totals to the ioctl the group stands still and `data` is what the kernel
has; this is what the comment at `handle.c:155` relies on) and `CallState` (where a call
can be, given the state it found). `ScaleExact` and `PercentBound` are the arithmetic of
the `phpinfo()` row. The action property and the refinement follow from `IndInv`.

**`HandleDescriptors`.** Counting owners per number is awkward to carry through a step, so
`Ref(k, w, i, m)` says that owner `w` of kind `k` has `m` in its place `i`, and `Owned`
that owners have the event they opened, that no two have one number, and that no
number of an event is without one. A step opens, closes or hands on a reference; one
lemma for each of these (`OwnedAdd`, `OwnedRemove`, `OwnedMove`, `OwnedMoveAll`) carries
`Owned` through all actions. `ReadMatchesMetrics` needs the groups of calls in
progress as well: `GroupsRight` says that the events of an object or a call are one
group in the order of creation, all that is alive of it while it is complete, and that no two
share a leader. A new leader cannot lead an older event that a stream still keeps
alive, because `leader[e] <= e` (`IdsGiven`). `CallsRight` says that an object
is worked on by its own thread only, which is why a failed or late step of another
thread cannot disturb it. `FilesUntouched` follows because a number that is closed
is, by `Owned`, an event.

**`RequestHandle`.** There are two invariants. `GlobalsInv` (`TypeOK`, and `Settled` for each
worker) relates the globals of one worker; it needs no assumption, and gives the properties
about errors, recovery and the borrowed pointer also where a process id is reused or a
script forks. `GroupsInv` (`KnownIds`, `Holds` and `Counted` for each worker) relates
globals to the shared groups: whose id a handle records, who holds its descriptors, and
what it contains. It needs `PidsDistinct` and `~ForkInRequest`, stated as hypotheses of
each theorem that uses it; the runs `PidReuse` and `ForkInRequest` show that neither can be
dropped, since they violate `OwnGroup` and `RequestMeasured` without them.

**`LinuxSampler`.** `EventsAtRate` (the kernel counts at a rate while an event runs),
`CountersExact` (committed totals) and `ReadAdds` (what a read in progress has
accumulated, per metric already read, is exact too, while the others are as committed) give the
totals; `NothingYet`, `AllPublished` and `OpenedSoFar` say what holds at each place of an
open or a read. In the refinement every step but the end of an open, a commit, a
failing open and a close is a stutter.

**`Sampler`.** `IdentityCounted` is an equation of cardinalities: `FinitelyMany` lets one
be added or removed. `SamplersApart` and the counted identities make an
address stand for one sampler as long as any sample has it. `OriginsPast`,
`SamplesBefore` and `SamplesOrdered` order values and times of the samples of one
sampler, which gives `InOrderSubtracts`.

**`WindowsSampler`.** `Turns` and `Fresh` say that the native counter has gone less than one
turn since it was taken over, `Widened` that base and previous word are the events seen
since the first read, modulo the wide word; `AtMostOneTurn`, `HandedOut` and `OnlyRequested`
are what monotony of the snapshots, hence the refinement, needs. The arithmetic
is in lemmas about `%` and a word that divides the other.

**`WindowsProfiling`.** `LiveIdsDiffer` (ids are unique among live threads), `HandlesEnabled`,
`EnabledOwned` (a session has at most one object, and the other way round),
`SamplersBound` (a sampler's thread handle keeps its thread, and its id, known) and
`OpensApart` (an object that is being opened is not there yet, and one thread opens it), so
that the handle a failed open or a close closes is nobody else's.

**`ThreadProfile`.** `OriginsRead` says that from the enabling on the recorded origins are the
words the counters started from; the rest is that a difference modulo a word is exact
below it, for every baseline.

**`DarwinSampler`.** The core is arithmetic. `ScaleExact`: for a ratio `n / d` below half a
word and any time `v`, the guards of `mach_time_to_ns()` hold exactly when
`(v * n) \div d` fits a word, and then the split into quotient and remainder computes it.
The first guard is `n * q <= UintMax` (`QuotientBound`), the remainder's product cannot wrap
(`ProductFits`, from `Half * Half <= Word`), and whole and fraction add up because a multiple of `d`
can be taken out of a dividend (`DivisionShift`). `TimeValueExact` says the same of
`time_value_to_ns()`, to the microsecond. `CpuTimeExact` and `OverflowReal` follow from these
and from the type invariant, which has the one fact about MINIT they need: a ratio that is known
is the machine's. The refinement needs more, since a read is compared with an earlier one:
`NotAhead` says that what a sampler has handed out is at most the exact time now, which
stays true while threads run because the exact time is monotone (`ExactOrder`), through both
roundings. Its part about cycles, that a sampler that has them was opened when they were
above 0, gives `CyclesCounted`. That `ri_cycles` itself is a word (`MaxCycles < Word`) is
assumed, as the model says of that counter.

Only model-checked:

* `CallsReturn` of `LinuxSampler`: liveness under fairness is out of the prover's reach.
* What the violation runs show: they are counterexamples.

## Not modelled

* On Darwin, the values of page faults, context switches and instructions.
* PMU listing (`list_pmus()`, `list_pmu_events()`, `get_pmu_info()`, `get_pmu_event_info()`),
  `ReadResult` and the exception classes: one pass over tables of libpfm that no operation
  changes, and construction of read-only objects. They keep no state between calls and
  share none, so a model of them would have one state.
* MINIT and MSHUTDOWN: registration, once and before or after everything else.
* Debug-only hooks (`PERFIDIOUS_DEBUG`), generated argument information, packaging.
* The cycle values of a Windows sampler. They are raw native words, which `Sampler`
  compares unsigned: one that starts just below 2^64 and passes it is reported as a counter
  that moved backwards (`windows/sampler.c:236`), where `ThreadProfile` subtracts modulo
  2^64. The documents do not say which is meant for a sampler.
* Above 2^32 the context switches of a `ThreadProfile` snapshot are those of the native
  32-bit counter; `ResultExact` claims them exact below.
* Builds without a 128-bit integer, where `perfidious_scale_uint64()` checks the product
  instead of the quotient (such a build refuses reads that `ReadFails` lets fail anyway);
  32-bit builds.
* Reuse of thread ids on Linux (`linux/sampler.c:143`). The events stay attached to the
  thread that opened them, so a thread that was given its id reads the totals that thread
  ended with, never its own work.
* A request that is unwound inside `php_stream_fopen_from_fd()` (`handle.c:623`), after
  `fcntl()` has returned the duplicate and before the stream owns it.
* Rounding in `perfidious_scale_uint64()`: the events of `LinuxSampler` count at a constant
  whole rate, so each scaled interval is a whole number. With rounding, a total would be
  below the unmultiplexed count by less than one for each successful read.
* A `pcntl_fork()` from a process with several threads, whose child also inherits the
  descriptors of the other threads' handles.

## Plan

1. *Done*: `Stopwatch`, `PerfHandle`, `HandleDescriptors`, `RequestHandle` with processes
   and threads, `Sampler`, `CounterBackend` and the three backends that implement it,
   `WindowsProfiling`, `ThreadProfile`, liveness of `LinuxSampler`.
2. *Done*: proofs of every safety property, action property and refinement of these.
3. Open: liveness stays with TLC, as does everything the runs of the three findings show.
   What remains to be modelled is under "Not modelled"; of it, the raw cycle words of a
   Windows sampler would come first, once the documents say which behaviour is meant.
