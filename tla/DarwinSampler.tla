---------------------------- MODULE DarwinSampler ----------------------------
(***************************************************************************)
(* CPU time on Darwin: the backend of Perfidious\Sampler                   *)
(* (src/src/darwin/sampler.c), the resource usage functions and the        *)
(* conversions they share (src/src/darwin/functions.c).  The kernel counts *)
(* in Mach units, to be scaled by a rational timebase in 64 bits; where    *)
(* thread_selfcounts() is missing a thread's time comes in microseconds.   *)
(*                                                                         *)
(* "events" stands for page faults and for context switches.  They come    *)
(* from a call of its own, getrusage(); their values, and the instruction  *)
(* counts of the functions, are left out and taken to fit.                 *)
(***************************************************************************)
EXTENDS Integers

CONSTANTS Thread,      \* native threads; their 64-bit ids are never used again
          Word,        \* 2^64
          Half,        \* 2^32: numer and denom of a timebase are below it
          Timebases,   \* the ratios of the machines considered
          PerSecond,   \* microseconds in a second
          NsPerMicro,  \* nanoseconds in a microsecond
          MaxTime,     \* bound on the Mach units the process runs
          Steps,       \* Mach units a thread runs between two observed steps
          MaxCycles    \* bound on ri_cycles, which is taken not to wrap

Ratio == [numer : 1..Half - 1, denom : 1..Half - 1]

ASSUME TimeAssumption ==
  /\ Half \in Nat /\ Word \in Nat /\ Half * Half <= Word
  /\ Timebases \subseteq Ratio
  /\ PerSecond \in Nat \ {0} /\ NsPerMicro \in Nat \ {0}
  /\ MaxTime \in Nat /\ Steps \subseteq Nat /\ MaxCycles \in Nat /\ MaxCycles < Word
  /\ "process" \notin Thread

UintMax == Word - 1                        \* UINT64_MAX
LongMax == Word \div 2 - 1                 \* ZEND_LONG_MAX

None == [none |-> TRUE]
NoTimebase == [numer |-> 0, denom |-> 0]
Process == "process"
Metrics == {"cpuTime", "cycles", "events"}

VARIABLES
  cpu,         \* the [user, system] Mach units each thread, and the process, has run
  cycles,      \* ri_cycles; stays 0 on hardware that does not count them
  machine,     \* the ratio of this machine
  timebase,    \* perfidious_darwin_timebase
  selfcounts,  \* perfidious_darwin_thread_selfcounts is not NULL
  answers,     \* the kernel supports THSC_TIME_CPI
  sampler,     \* the opening or open sampler, or None
  outcome      \* what the call just made returned, None after other steps (observed)

vars == <<cpu, cycles, machine, timebase, selfcounts, answers, sampler, outcome>>
usage == <<cpu, cycles>>
module == <<machine, timebase, selfcounts, answers>>

\* perfidious_darwin_minit(): without a ratio thread_selfcounts() is not used.
Minit ==
  /\ timebase \in {machine, NoTimebase}
  /\ selfcounts \in {dlsym \in BOOLEAN : dlsym => timebase # NoTimebase}

Init ==
  /\ cpu = [who \in Thread \cup {Process} |-> [user |-> 0, system |-> 0]]
  /\ cycles = 0
  /\ machine \in Timebases /\ answers \in BOOLEAN
  /\ Minit
  /\ sampler = None /\ outcome = None

-----------------------------------------------------------------------------
(* The kernel. *)

\* The time the machine's ratio gives, rounded down: what a conversion should compute.
Nanoseconds(v) == (v * machine.numer) \div machine.denom

\* THREAD_BASIC_INFO: a time_value_t.
TimeValue(v) == [seconds      |-> (Nanoseconds(v) \div NsPerMicro) \div PerSecond,
                 microseconds |-> (Nanoseconds(v) \div NsPerMicro) % PerSecond]

\* What a thread runs is added to its own time and to that of its process.
Run(t, user, system, c) ==
  /\ cpu[Process].user + cpu[Process].system + user + system <= MaxTime
  /\ cycles + c <= MaxCycles
  /\ cpu' = [who \in DOMAIN cpu |->
               IF who \in {t, Process}
               THEN [user |-> cpu[who].user + user, system |-> cpu[who].system + system]
               ELSE cpu[who]]
  /\ cycles' = cycles + c
  /\ outcome' = None
  /\ UNCHANGED <<module, sampler>>

-----------------------------------------------------------------------------
(* perfidious_darwin_mach_time_to_ns(), in 64-bit arithmetic. *)

Quotient(v) == v \div timebase.denom
Whole(v)    == (Quotient(v) * timebase.numer) % Word
Fraction(v) == (((v % timebase.denom) * timebase.numer) % Word) \div timebase.denom

\* Mutant of MachTimeFits: the product is required to fit, not the quotient.
MachTimeFitsProduct(v) == v <= UintMax \div timebase.numer

MachTimeFits(v) ==
  /\ Quotient(v) <= UintMax \div timebase.numer
  /\ Whole(v) <= UintMax - Fraction(v)

\* Mutant of MachTimeToNs: multiply, then divide.
MachTimeToNsDirect(v) == ((v * timebase.numer) % Word) \div timebase.denom

MachTimeToNs(v) == (Whole(v) + Fraction(v)) % Word

(* perfidious_darwin_time_value_to_ns() *)

NsPerSecond == PerSecond * NsPerMicro

TimeValueFits(tv) == tv.seconds <= (UintMax - tv.microseconds * NsPerMicro) \div NsPerSecond

TimeValueToNs(tv) == (tv.seconds * NsPerSecond + tv.microseconds * NsPerMicro) % Word

-----------------------------------------------------------------------------
(* Where a time comes from and how it is converted. *)

\* proc_pid_rusage() and thread_selfcounts() return Mach units; when the latter is
\* missing or not supported, thread_info() is asked.
InMachUnits(who) == who = Process \/ (selfcounts /\ answers)

Convertible(who) == InMachUnits(who) => timebase # NoTimebase

ToNsFits(who, v) ==
  IF InMachUnits(who) THEN MachTimeFits(v) ELSE TimeValueFits(TimeValue(v))

ToNs(who, v) == IF InMachUnits(who) THEN MachTimeToNs(v) ELSE TimeValueToNs(TimeValue(v))

UsageFits(who) == ToNsFits(who, cpu[who].user) /\ ToNsFits(who, cpu[who].system)

UserNs(who)   == ToNs(who, cpu[who].user)
SystemNs(who) == ToNs(who, cpu[who].system)

-----------------------------------------------------------------------------
(* get_current_process_resource_usage(), get_current_thread_resource_usage() *)

Return(who, call, error, values) ==
  outcome' = [who |-> who, call |-> call, error |-> error, values |-> values]

FitsLong(who) == UsageFits(who) /\ UserNs(who) <= LongMax /\ SystemNs(who) <= LongMax

GetUsage(who) ==
  /\ Convertible(who) /\ FitsLong(who)
  /\ Return(who, "usage", "none", <<UserNs(who), SystemNs(who)>>)
  /\ UNCHANGED <<usage, module, sampler>>

GetUsageOverflows(who) ==
  /\ Convertible(who) /\ ~FitsLong(who)
  /\ Return(who, "usage", "OverflowException", <<>>)
  /\ UNCHANGED <<usage, module, sampler>>

\* A native call fails, or there is no ratio.
GetUsageFails(who) ==
  /\ Return(who, "usage", "IOException", <<>>)
  /\ UNCHANGED <<usage, module, sampler>>

-----------------------------------------------------------------------------
(* Sampler::open(): perfidious_platform_sampler_supported_metrics() and     *)
(* _open().  The first read, inside open() too, is Read on "opening".       *)

\* Mutant of Supported: the counter is not looked at.
SupportedAlways(scope) == IF scope = Process THEN Metrics ELSE {"cpuTime"}

Supported(scope) ==
  IF scope = Process
  THEN {"cpuTime", "events"} \cup {m \in {"cycles"} : cycles # 0}
  ELSE {"cpuTime"}

\* scope is Process or the calling thread.
Open(scope, metrics) ==
  /\ sampler = None /\ metrics # {} /\ metrics \subseteq Supported(scope)
  /\ sampler' = [phase |-> "opening", who |-> scope, metrics |-> metrics,
                 cpuTime |-> 0, cycles |-> 0]
  /\ outcome' = None
  /\ UNCHANGED <<usage, module>>

\* An unsupported metric, or the probe or pthread_threadid_np() fails.
OpenFails(scope) ==
  /\ sampler = None
  /\ Return(scope, "open", "Exception", <<>>)
  /\ UNCHANGED <<usage, module, sampler>>

Close ==
  /\ sampler # None /\ sampler.phase = "open"
  /\ sampler' = None /\ outcome' = None
  /\ UNCHANGED <<usage, module>>

-----------------------------------------------------------------------------
(* perfidious_platform_sampler_read(), called by thread t. *)

Has(metric) == metric \in sampler.metrics

\* Only the opener calls while open() is in progress.
Calls(t) == sampler # None /\ (sampler.phase = "opening" /\ sampler.who # Process => t = sampler.who)

\* Mutant of OwnThread: the check is forgotten.
OwnThreadAny(t) == TRUE

OwnThread(t) == sampler.who # Process => t = sampler.who

\* The native calls measure the calling thread.
Source(t) == IF sampler.who = Process THEN Process ELSE t

\* perfidious_darwin_store_cpu_time() after the conversions.
CpuTimeFits(who) == UsageFits(who) /\ UserNs(who) <= UintMax - SystemNs(who)

Read(t) ==
  /\ Calls(t) /\ OwnThread(t)
  /\ Has("cpuTime") => Convertible(Source(t)) /\ CpuTimeFits(Source(t))
  /\ LET total   == IF Has("cpuTime") THEN (UserNs(Source(t)) + SystemNs(Source(t))) % Word ELSE 0
         counted == IF Has("cycles") THEN cycles ELSE 0
     IN  /\ sampler' = [sampler EXCEPT !.phase = "open", !.cpuTime = total, !.cycles = counted]
         /\ Return(sampler.who, "read", "none", IF Has("cpuTime") THEN <<total>> ELSE <<>>)
  /\ UNCHANGED <<usage, module>>

\* A sampler whose first read fails is destroyed.
Survive == sampler' = IF sampler.phase = "opening" THEN None ELSE sampler

ReadOverflows(t) ==
  /\ Calls(t) /\ OwnThread(t)
  /\ Has("cpuTime") /\ Convertible(Source(t)) /\ ~CpuTimeFits(Source(t))
  /\ Survive
  /\ Return(sampler.who, "read", "OverflowException", <<>>)
  /\ UNCHANGED <<usage, module>>

ReadWrongThread(t) ==
  /\ Calls(t) /\ ~OwnThread(t)
  /\ Survive
  /\ Return(sampler.who, "read", "WrongThreadException", <<>>)
  /\ UNCHANGED <<usage, module>>

\* A native call fails, or there is no ratio.
ReadFails(t) ==
  /\ Calls(t)
  /\ Survive
  /\ Return(sampler.who, "read", "IOException", <<>>)
  /\ UNCHANGED <<usage, module>>

-----------------------------------------------------------------------------

Next ==
  \/ \E t \in Thread :
        \/ \E user, system \in Steps \cup {0}, c \in 0..1 : Run(t, user, system, c)
        \/ Read(t) \/ ReadOverflows(t) \/ ReadWrongThread(t) \/ ReadFails(t)
  \/ \E who \in Thread \cup {Process} :
        \/ GetUsage(who) \/ GetUsageOverflows(who) \/ GetUsageFails(who)
        \/ \E metrics \in SUBSET Metrics : Open(who, metrics)
        \/ OpenFails(who)
  \/ Close

Spec == Init /\ [][Next]_vars

-----------------------------------------------------------------------------
(* Properties. *)

\* What the machine's ratio gives, to the microsecond where thread_info() is the source.
ExactTime(who, v) ==
  IF InMachUnits(who) THEN Nanoseconds(v) ELSE Nanoseconds(v) - (Nanoseconds(v) % NsPerMicro)

ExactUser   == ExactTime(outcome.who, cpu[outcome.who].user)
ExactSystem == ExactTime(outcome.who, cpu[outcome.who].system)

\* The CPU time a sampler or a resource usage function returns is that of the process or
\* of the thread it is about, exactly, for every ratio: no intermediate product of
\* mach_time_to_ns() wraps and no rounding accumulates.
CpuTimeExact ==
  (outcome # None /\ outcome.values # <<>>) =>
     outcome.values = IF outcome.call = "read" THEN <<ExactUser + ExactSystem>>
                                               ELSE <<ExactUser, ExactSystem>>

\* An OverflowException is justified: the time does not fit the 64 bits of a snapshot,
\* or the PHP integer of a resource usage object.
OverflowReal ==
  (outcome # None /\ outcome.error = "OverflowException") =>
     IF outcome.call = "read" THEN ExactUser + ExactSystem > UintMax
                              ELSE ExactUser > LongMax \/ ExactSystem > LongMax

Backend == INSTANCE CounterBackend WITH
  Metric  <- {"cpuTime", "cycles"},
  state   <- IF sampler = None THEN "closed" ELSE sampler.phase,
  metrics <- IF sampler = None THEN {} ELSE sampler.metrics \cap {"cpuTime", "cycles"},
  values  <- [m \in {"cpuTime", "cycles"} |-> IF sampler = None THEN 0 ELSE sampler[m]]

\* The backend keeps the contract sampler.c is written against: the totals of an open
\* sampler never go back, whichever thread reads it and however many reads failed in
\* between, and each fits 64 bits.
ImplementsBackend == Backend!Spec

\* A sampler that offers cycles has them: zero, which on Darwin can mean that they are
\* not counted, was refused when it was opened.
CyclesCounted ==
  (sampler # None /\ sampler.phase = "open" /\ Has("cycles")) => sampler.cycles > 0
=============================================================================
