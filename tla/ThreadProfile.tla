---------------------------- MODULE ThreadProfile ----------------------------
(***************************************************************************)
(* The values Perfidious\Windows returns (src/src/windows/functions.c): the*)
(* snapshots of a ThreadProfile, relative to the origins read when it was  *)
(* enabled, and the functions that convert what one native call reports.   *)
(* WindowsProfiling has the threads that own a profile; what both modules  *)
(* have is prefixed here, so that one module can reason about both.        *)
(*                                                                         *)
(* A native counter is a 64-bit word that starts anywhere ("HCP can expose *)
(* an unsigned implementation-specific baseline", functions.c:593) and     *)
(* wraps; the context switches of a session are a 32-bit one that starts   *)
(* at 0.  A PHP integer is a signed word.  The retry count, the wait       *)
(* reasons and the types of the counters are copied and left out.          *)
(***************************************************************************)
EXTENDS Integers

CONSTANTS HwCounter,   \* indices of hardware counters
          Word,        \* 2^64
          Dword,       \* 2^32
          Baselines,   \* the words the counters may be at when profiling is enabled
          Steps,       \* events counted between two observed steps
          MaxCount,    \* bound on the events of a counter
          Words        \* what the other native functions report

LongMax == Word \div 2 - 1                 \* ZEND_LONG_MAX

ASSUME ProfileAssumption ==
  /\ Dword \in Nat \ {0} /\ Word = Dword * Dword /\ Word % 2 = 0
  /\ Baselines \subseteq 0..Word - 1 /\ Words \subseteq 0..Word - 1
  /\ Steps \subseteq Nat /\ MaxCount \in 0..Word - 1
  /\ HwCounter \cap {"cycles", "switches"} = {}

Wide   == HwCounter \cup {"cycles"}        \* counters with an origin
Source == Wide \cup {"switches"}

VARIABLES
  baseline,  \* the word each wide counter was at when the session was enabled
  count,     \* events since then
  phase,     \* of the object: "closed", "enabling" (origins not read yet), "open"
  mask,      \* hardware_counter_mask
  origin,    \* cycle_time_origin and hardware_counter_origins
  start,     \* count when the origins were read (observed)
  outcome    \* what the call just made returned (observed)

profileVars == <<baseline, count, phase, mask, origin, start, outcome>>
object == <<phase, mask, origin, start>>
native == <<baseline, count>>

\* error, or the integers handed to PHP and the numbers they should be.
Nothing == [s \in {} |-> 0]
Quiet == [error |-> "none", values |-> Nothing, truth |-> Nothing]

NoEvents == [s \in Source |-> 0]
NoWords  == [s \in Wide |-> 0]

ProfileInit ==
  /\ baseline = NoWords /\ count = NoEvents
  /\ phase = "closed" /\ mask = {} /\ origin = NoWords /\ start = NoEvents
  /\ outcome = Quiet

\* No session, and no object that could be read: nothing is left of either.
EndSession ==
  /\ phase' = "closed"
  /\ baseline' = NoWords /\ count' = NoEvents
  /\ mask' = {} /\ origin' = NoWords /\ start' = NoEvents

\* A counter the machine does not have is one that starts at 0 and never counts.
Happen(s, n) ==
  /\ phase # "closed" /\ count[s] + n <= MaxCount
  /\ count' = [count EXCEPT ![s] = @ + n]
  /\ outcome' = Quiet
  /\ UNCHANGED <<baseline, object>>

\* ReadThreadProfilingData()
Raw(s) == (baseline[s] + count[s]) % Word

-----------------------------------------------------------------------------
(* The outcome of a call. *)

Throw(error) == outcome' = [error |-> error, values |-> Nothing, truth |-> Nothing]

\* Mutant of TooLarge: the largest PHP integer is refused.
TooLargeOrMax(v) == v >= LongMax

\* perfidious_windows_uint64_to_zend_long()
TooLarge(v) == v > LongMax

\* All values are converted before the result is built: it has all or none of them.
Convert(values, truth) ==
  outcome' = IF \E s \in DOMAIN values : TooLarge(values[s])
             THEN [error |-> "OverflowException", values |-> Nothing, truth |-> truth]
             ELSE [error |-> "none", values |-> values, truth |-> truth]

-----------------------------------------------------------------------------
(* enable_current_thread_profiling() *)

Enable(m, words) ==
  /\ phase = "closed"
  /\ phase' = "enabling" /\ mask' = m
  /\ baseline' = words
  /\ outcome' = Quiet
  /\ UNCHANGED <<count, origin, start>>

\* A mask out of range, a session that exists already, or another native error.
EnableFails(error) ==
  /\ phase = "closed"
  /\ Throw(error)
  /\ UNCHANGED <<native, object>>

ReadOrigin ==
  /\ phase = "enabling"
  /\ phase' = "open"
  /\ origin' = [s \in Wide |-> IF s = "cycles" \/ s \in mask THEN Raw(s) ELSE 0]
  /\ start' = [count EXCEPT !["switches"] = 0]
  /\ outcome' = Quiet
  /\ UNCHANGED <<native, mask>>

\* The object is destroyed, which ends the session.
ReadOriginFails ==
  /\ phase = "enabling"
  /\ EndSession
  /\ Throw("IOException")

-----------------------------------------------------------------------------
(* ThreadProfile::read() and close() *)

\* Mutant of Difference: a counter below its origin is taken to be at it.
DifferenceSaturated(raw, from) == IF raw < from THEN 0 ELSE raw - from

\* Unsigned subtraction.
Difference(raw, from) == (raw - from) % Word

\* What a snapshot holds: cycles, context switches, the counters of the mask.
Fields == mask \cup {"cycles", "switches"}

Read ==
  /\ phase = "open"
  /\ Convert([s \in Fields |-> IF s = "switches" THEN count[s] % Dword
                                                 ELSE Difference(Raw(s), origin[s])],
             [s \in Fields |-> count[s] - start[s]])
  /\ UNCHANGED <<native, object>>

\* A native error, or more counters than PERFORMANCE_DATA has room for.
ReadFails ==
  /\ phase = "open"
  /\ Throw("IOException")
  /\ UNCHANGED <<native, object>>

ReadClosed ==
  /\ phase = "closed"
  /\ Throw("ClosedException")
  /\ UNCHANGED <<native, object>>

\* close(), or the destructor, which does not look at the native result.
Close ==
  /\ phase = "open"
  /\ EndSession
  /\ outcome' = Quiet

\* The handle stays: close() may be called again, and so may read().
CloseFails ==
  /\ phase = "open"
  /\ Throw("IOException")
  /\ UNCHANGED <<native, object>>

-----------------------------------------------------------------------------
(* The functions of one native call. *)

\* query_current_process_cycle_time(), query_current_thread_cycle_time() and
\* get_current_process_memory_info(): each field is a word of its own.
QueryWords(w, v) ==
  /\ LET words == [first |-> w, second |-> v] IN Convert(words, words)
  /\ UNCHANGED <<native, object>>

\* A time as Windows hands it over, in two halves.
Filetime(t) == [low |-> t % Dword, high |-> t \div Dword]

\* perfidious_windows_filetime_to_uint64()
FiletimeToUint64(ft) == ft.high * Dword + ft.low

\* get_current_process_times(), get_current_thread_times()
GetTimes(kernel, user) ==
  /\ LET times == [kernelTime |-> kernel, userTime |-> user]
     IN  Convert([f \in DOMAIN times |-> FiletimeToUint64(Filetime(times[f]))], times)
  /\ UNCHANGED <<native, object>>

QueryFails ==
  /\ Throw("IOException")
  /\ UNCHANGED <<native, object>>

-----------------------------------------------------------------------------

ProfileNext ==
  \/ \E s \in Source, n \in Steps : Happen(s, n)
  \/ \E m \in SUBSET HwCounter, words \in [Wide -> Baselines] : Enable(m, words)
  \/ \E error \in {"ValueError", "ResourceBusyException", "IOException"} : EnableFails(error)
  \/ ReadOrigin \/ ReadOriginFails
  \/ Read \/ ReadFails \/ ReadClosed
  \/ Close \/ CloseFails
  \/ \E w, v \in Words : QueryWords(w, v) \/ GetTimes(w, v)
  \/ QueryFails

ProfileSpec == ProfileInit /\ [][ProfileNext]_profileVars

-----------------------------------------------------------------------------
(* Properties. *)

\* The events a field can tell apart: the context switches come from 32 bits.
Width(s) == IF s = "switches" THEN Dword ELSE Word

\* A number handed to PHP is the number of events since profiling was enabled, for
\* every baseline, when the word passes zero between the origin and the read too, and
\* however many reads and closes failed in between; of a time or a memory counter it
\* is the number Windows has.
ResultExact ==
  \A s \in DOMAIN outcome.values : outcome.truth[s] < Width(s) => outcome.values[s] = outcome.truth[s]

\* An OverflowException is thrown when one of the numbers really is too large for PHP,
\* not because the counter started high, and no number wraps to a negative one.
OverflowReal ==
  /\ outcome.error = "OverflowException" => \E s \in DOMAIN outcome.truth : outcome.truth[s] > LongMax
  /\ \A s \in DOMAIN outcome.values : outcome.values[s] <= LongMax
=============================================================================
