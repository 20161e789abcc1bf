----------------------------- MODULE PerfHandle -----------------------------
(***************************************************************************)
(* One open Perfidious\Handle on Linux (src/src/handle.c) over its kernel  *)
(* perf event group, at the granularity of system calls: the group keeps   *)
(* counting between any two of them, and every one of them can fail.       *)
(*                                                                         *)
(* The group is its dummy leader, which gates it, and one member that      *)
(* counts one per unit of time it is scheduled (a task clock).             *)
(***************************************************************************)
EXTENDS Integers

CONSTANTS MaxTime,   \* bound on the lifetime total of enabled time
          MaxStep,   \* bound on the time between two observed steps
          LongMax    \* ZEND_LONG_MAX

ASSUME BoundsAssumption == MaxTime \in Nat /\ MaxStep \in Nat /\ LongMax \in Nat

VARIABLES
  \* the kernel's event group
  leaderOn,             \* the leader is enabled: the group counts
  count,                \* the member's count since the last PERF_EVENT_IOC_RESET
  timeEnabled,          \* lifetime totals of the group, never reset
  timeRunning,
  \* struct perfidious_handle
  enabled,
  timeEnabledAtReset,
  timeRunningAtReset,
  \* the call in progress
  pc,                   \* the system call it makes next; "idle" between calls
  wasEnabled,           \* `enabled` / `orig_enabled`, saved at its start
  data,                 \* the group record read by reset
  error,                \* what the call reports to PHP
  \* observed, not in the code
  failed,               \* the steps of the call that failed
  info                  \* the row the last phpinfo() printed

kernel == <<leaderOn, count, timeEnabled, timeRunning>>
handle == <<enabled, timeEnabledAtReset, timeRunningAtReset>>
call   == <<pc, wasEnabled, data, error, failed>>
vars   == <<kernel, handle, call, info>>

NoRow == [scaled |-> 0, percent |-> 0, te |-> 0, tr |-> 0]
Steps == {"set", "malloc", "disable", "read", "overflow", "ioctl", "resume", "bailout"}
Pcs   == {"idle", "reset_disable", "reset_read", "reset_ioctl", "reset_resume",
          "read_disable", "read_raw", "readArray_disable", "readArray_raw", "read_enable"}

Init ==
  /\ leaderOn = FALSE /\ count = 0 /\ timeEnabled = 0 /\ timeRunning = 0
  /\ enabled = FALSE /\ timeEnabledAtReset = 0 /\ timeRunningAtReset = 0
  /\ pc = "idle" /\ wasEnabled = FALSE /\ data = [te |-> 0, tr |-> 0]
  /\ error = "none" /\ failed = {}
  /\ info = NoRow

-----------------------------------------------------------------------------
(* The kernel's side. *)

\* Time passes while the leader is enabled; for part of it the group is scheduled.
Tick(d, r) ==
  /\ leaderOn
  /\ timeEnabled + d <= MaxTime
  /\ timeEnabled' = timeEnabled + d
  /\ timeRunning' = timeRunning + r
  /\ count' = count + r
  /\ UNCHANGED <<leaderOn, handle, call, info>>

-----------------------------------------------------------------------------
(* Helpers every call is built from. *)

\* perfidious_handle_try_set_enabled(), when the leader's ioctl succeeds ...
SetEnabled(e) ==
  /\ leaderOn' = e
  /\ enabled' = e
  /\ UNCHANGED <<count, timeEnabled, timeRunning, timeEnabledAtReset, timeRunningAtReset>>

\* ... and when it fails: the handle keeps the state it had.
SetEnabledFails == UNCHANGED <<kernel, handle>>

\* A step of reset fails; the first failure is the one that is reported.
Fail(step) ==
  /\ failed' = failed \cup {step}
  /\ error' = IF error = "none" THEN step ELSE error

\* A step of a read fails and throws; an earlier exception becomes its previous one.
Throw(step) == failed' = failed \cup {step} /\ error' = step

NoFail == UNCHANGED <<failed, error>>

Goto(label) == pc' = label

Begin(label) ==
  /\ pc = "idle"
  /\ wasEnabled' = enabled
  /\ failed' = {} /\ error' = "none"
  /\ Goto(label)
  /\ UNCHANGED <<kernel, handle, data, info>>

-----------------------------------------------------------------------------
(* Handle::enable() and Handle::disable(). *)

SetEnabledMethod(e) ==
  /\ pc = "idle"
  /\ UNCHANGED <<pc, wasEnabled, data, info>>
  /\ \/ SetEnabled(e) /\ failed' = {} /\ error' = "none"
     \/ SetEnabledFails /\ failed' = {"set"} /\ error' = "set"

Enable  == SetEnabledMethod(TRUE)
Disable == SetEnabledMethod(FALSE)

-----------------------------------------------------------------------------
(* Handle::reset(): perfidious_handle_try_reset(). *)

ResetNoMemory ==
  /\ pc = "idle"
  /\ failed' = {"malloc"} /\ error' = "malloc"
  /\ wasEnabled' = enabled
  /\ UNCHANGED <<kernel, handle, pc, data, info>>

\* Mutant of ResetBegin: the group keeps running through the reset.
ResetBeginRunning == Begin("reset_read")

ResetBegin == Begin(IF enabled THEN "reset_disable" ELSE "reset_read")

\* Mutant of ResetDisable: the reset goes on when the group could not be stopped.
ResetDisableIgnored ==
  /\ pc = "reset_disable"
  /\ Goto("reset_read")
  /\ UNCHANGED <<wasEnabled, data, info>>
  /\ \/ SetEnabled(FALSE) /\ NoFail
     \/ SetEnabledFails /\ Fail("disable")

ResetDisable ==
  /\ pc = "reset_disable"
  /\ UNCHANGED <<wasEnabled, data, info>>
  /\ \/ SetEnabled(FALSE) /\ NoFail /\ Goto("reset_read")
     \/ SetEnabledFails /\ Fail("disable") /\ Goto("idle")

\* Mutant of AfterReset: the handle stays stopped.
AfterResetStopped == "idle"

AfterReset == IF wasEnabled THEN "reset_resume" ELSE "idle"

\* Mutant of ResetRead: the result of the read is not checked.
ResetReadUnchecked ==
  /\ pc = "reset_read"
  /\ Goto("reset_ioctl") /\ NoFail
  /\ UNCHANGED <<kernel, handle, wasEnabled, info>>
  /\ \/ data' = [te |-> timeEnabled, tr |-> timeRunning]
     \/ data' = [te |-> -1, tr |-> -1]

ResetRead ==
  /\ pc = "reset_read"
  /\ UNCHANGED <<kernel, handle, wasEnabled, info>>
  /\ \/ data' = [te |-> timeEnabled, tr |-> timeRunning] /\ NoFail /\ Goto("reset_ioctl")
     \/ Fail("read") /\ Goto(AfterReset) /\ UNCHANGED data

\* Mutant of ResetIoctl: the two baselines are swapped.
ResetIoctlSwapped ==
  /\ pc = "reset_ioctl"
  /\ Goto(AfterReset)
  /\ UNCHANGED <<leaderOn, timeEnabled, timeRunning, enabled, wasEnabled, data, info>>
  /\ \/ /\ count' = 0
        /\ timeEnabledAtReset' = data.tr
        /\ timeRunningAtReset' = data.te
        /\ NoFail
     \/ Fail("ioctl") /\ UNCHANGED <<count, timeEnabledAtReset, timeRunningAtReset>>

\* PERF_EVENT_IOC_RESET clears the counts and leaves the lifetime totals alone.
ResetIoctl ==
  /\ pc = "reset_ioctl"
  /\ Goto(AfterReset)
  /\ UNCHANGED <<leaderOn, timeEnabled, timeRunning, enabled, wasEnabled, data, info>>
  /\ \/ /\ count' = 0
        /\ timeEnabledAtReset' = data.te
        /\ timeRunningAtReset' = data.tr
        /\ NoFail
     \/ Fail("ioctl") /\ UNCHANGED <<count, timeEnabledAtReset, timeRunningAtReset>>

ResetResume ==
  /\ pc = "reset_resume"
  /\ Goto("idle")
  /\ UNCHANGED <<wasEnabled, data, info>>
  /\ \/ SetEnabled(TRUE) /\ NoFail
     \/ SetEnabledFails /\ Fail("resume")

-----------------------------------------------------------------------------
(* Handle::read() and Handle::readArray(). *)

ReadBegin(method) ==
  Begin(IF method = "read" THEN IF enabled THEN "read_disable" ELSE "read_raw"
                           ELSE IF enabled THEN "readArray_disable" ELSE "readArray_raw")

\* A failed disable is reported and the read goes on over the running group.
ReadDisable ==
  /\ pc \in {"read_disable", "readArray_disable"}
  /\ Goto(IF pc = "read_disable" THEN "read_raw" ELSE "readArray_raw")
  /\ UNCHANGED <<wasEnabled, data, info>>
  /\ \/ SetEnabled(FALSE) /\ NoFail
     \/ SetEnabledFails /\ Throw("disable")

\* read() converts the times as well as the counts to PHP integers.
Fits == count <= LongMax /\ (pc = "read_raw" => timeEnabled <= LongMax /\ timeRunning <= LongMax)

\* The PHP allocations of the result can unwind the whole request (memory limit):
\* then the trailing enable is never reached.
ReadRaw ==
  /\ pc \in {"read_raw", "readArray_raw"}
  /\ UNCHANGED <<kernel, handle, wasEnabled, data, info>>
  /\ \/ /\ Goto(IF wasEnabled THEN "read_enable" ELSE "idle")
        /\ \/ Fits /\ NoFail
           \/ ~Fits /\ Throw("overflow")
           \/ Throw("read")
     \/ Goto("idle") /\ Throw("bailout")

ReadEnable ==
  /\ pc = "read_enable"
  /\ Goto("idle")
  /\ UNCHANGED <<wasEnabled, data, info>>
  /\ \/ SetEnabled(TRUE) /\ NoFail
     \/ SetEnabledFails /\ Throw("resume")

-----------------------------------------------------------------------------
(* phpinfo(): minfo_handle_metrics() reads the running group and scales the *)
(* count by the times since the last reset.                                 *)

\* Mutant of Scaled: the ratio is upside down.
ScaledInverse(value, te, tr) == IF te = 0 THEN 0 ELSE (value * tr) \div te

Scaled(value, te, tr) == IF tr = 0 THEN 0 ELSE (value * te) \div tr

Info ==
  LET te == timeEnabled - timeEnabledAtReset
      tr == timeRunning - timeRunningAtReset
      printed == /\ count <= LongMax
                 /\ timeEnabled >= timeEnabledAtReset /\ timeRunning >= timeRunningAtReset
  IN  /\ pc = "idle"
      /\ UNCHANGED <<kernel, handle, call>>
      /\ \/ /\ printed
            /\ info' = [scaled  |-> Scaled(count, te, tr),
                        percent |-> IF te = 0 THEN 0 ELSE (tr * 100) \div te,
                        te |-> te, tr |-> tr]
         \/ info' = NoRow                                       \* READ ERROR

-----------------------------------------------------------------------------

Next ==
  \/ \E d \in 1..MaxStep : \E r \in 0..d : Tick(d, r)
  \/ Enable \/ Disable
  \/ ResetNoMemory \/ ResetBegin \/ ResetDisable \/ ResetRead \/ ResetIoctl \/ ResetResume
  \/ \E method \in {"read", "readArray"} : ReadBegin(method)
  \/ ReadDisable \/ ReadRaw \/ ReadEnable
  \/ Info

Spec == Init /\ [][Next]_vars

-----------------------------------------------------------------------------
(* Properties. *)

\* Every variable keeps its type.
TypeOK ==
  /\ leaderOn \in BOOLEAN /\ count \in Nat /\ timeEnabled \in Nat /\ timeRunning \in Nat
  /\ enabled \in BOOLEAN /\ timeEnabledAtReset \in Nat /\ timeRunningAtReset \in Nat
  /\ pc \in Pcs /\ wasEnabled \in BOOLEAN /\ data \in [te : Nat, tr : Nat]
  /\ error \in Steps \cup {"none"} /\ failed \in SUBSET Steps
  /\ info \in [scaled : Nat, percent : Nat, te : Nat, tr : Nat]

\* The count and the timing baseline describe the same interval, whichever system
\* call of a reset or of a read failed and however the group ran in between:
\* try_reset() stores the totals it read before the ioctl, while the count is
\* cleared by the ioctl itself.
CountMatchesInterval == count = timeRunning - timeRunningAtReset

\* The baseline never runs ahead of the kernel's totals and the group was never
\* scheduled for longer than it was enabled: minfo_handle_metrics() never
\* takes its "times went backwards" branch nor shows more than 100%.
BaselineConsistent ==
  /\ timeEnabledAtReset <= timeEnabled
  /\ timeRunningAtReset <= timeRunning
  /\ timeRunning - timeRunningAtReset <= timeEnabled - timeEnabledAtReset

\* The scaled count phpinfo() prints for a clock is exactly the time the handle was
\* enabled since its last successful reset, however little of it was scheduled.
ScaledIsEnabledTime ==
  /\ info.tr > 0 => info.scaled = info.te
  /\ info.percent <= 100

\* reset(), read() and readArray() leave the handle as they found it, running or
\* stopped.  Only a failed resume or an unwound request stops it, and then the
\* caller is told, of this failure or of the earlier one that reset() prefers.
CallRestoresOrReports ==
  [][(pc # "idle" /\ pc' = "idle" /\ enabled' # wasEnabled) =>
        /\ failed' \cap {"resume", "bailout"} # {}
        /\ error' # "none"]_vars

\* A handle is a stopwatch: its count and interval are zeroed together while the
\* group stands still, and otherwise only advance while it runs.
SW == INSTANCE Stopwatch WITH
        running <- leaderOn,
        elapsed <- timeEnabled - timeEnabledAtReset,
        active  <- timeRunning - timeRunningAtReset,
        count   <- count

ImplementsStopwatch == SW!Spec
=============================================================================
