-------------------------- MODULE PerfHandle_proofs --------------------------
(***************************************************************************)
(* Proofs about PerfHandle for every lifetime, step and ZEND_LONG_MAX: its *)
(* type, the agreement of count and timing baseline, what phpinfo() prints,*)
(* that a call leaves the handle as it found it or says so, and that a     *)
(* handle is a Stopwatch.                                                  *)
(***************************************************************************)
EXTENDS PerfHandle, TLAPS

-----------------------------------------------------------------------------
(* The inductive invariant. *)

\* The handle's flag is the leader's state between any two system calls.
FlagIsLeader == enabled = leaderOn

\* From the moment reset has read the totals until the ioctl, the group stands
\* still, so that what it read is still what the kernel has.
Boundary ==
  /\ pc \in {"reset_read", "reset_ioctl"} => ~leaderOn
  /\ pc = "reset_ioctl" => data = [te |-> timeEnabled, tr |-> timeRunning]

\* Where a call is, given the state it found.
CallState ==
  /\ pc \in {"reset_disable", "read_disable", "readArray_disable"} => wasEnabled /\ enabled
  /\ pc = "reset_resume" => wasEnabled
  /\ pc \in {"read_raw", "readArray_raw"} => (enabled => wasEnabled)
  /\ pc = "read_enable" => wasEnabled

IndInv ==
  /\ TypeOK
  /\ FlagIsLeader
  /\ CountMatchesInterval
  /\ BaselineConsistent
  /\ ScaledIsEnabledTime
  /\ Boundary
  /\ CallState
-----------------------------------------------------------------------------
(* Arithmetic of the row phpinfo() prints. *)

\* A count times a whole interval, divided by a positive one, is a natural number.
LEMMA QuotientNat ==
  ASSUME NEW a \in Nat, NEW b \in Nat, b > 0
  PROVE  a \div b \in Nat
  BY Z3

\* Scaling a clock's own running time by enabled over running gives the enabled time.
LEMMA ScaleExact ==
  ASSUME NEW te \in Nat, NEW tr \in Nat, tr > 0
  PROVE  Scaled(tr, te, tr) = te
  BY Z3 DEF Scaled

\* A part of the enabled time is at most 100 percent of it.
LEMMA PercentBound ==
  ASSUME NEW te \in Nat, NEW tr \in Nat, te > 0, tr <= te
  PROVE  (tr * 100) \div te \in Nat /\ (tr * 100) \div te <= 100
  BY Z3

-----------------------------------------------------------------------------
(* The invariant is inductive. *)

\* A newly opened handle: everything is zero and stopped.
LEMMA InitIndInv == Init => IndInv
<1> SUFFICES ASSUME Init PROVE IndInv
  OBVIOUS
<1>1. TypeOK
  BY DEF Init, TypeOK, NoRow, Pcs, Steps
<1>2. FlagIsLeader
  BY Zenon DEF Init, FlagIsLeader
<1>3. CountMatchesInterval /\ BaselineConsistent /\ ScaledIsEnabledTime
  BY DEF Init, CountMatchesInterval, BaselineConsistent, ScaledIsEnabledTime, NoRow
<1>4. Boundary /\ CallState
  BY DEF Init, Boundary, CallState
<1> QED BY <1>1, <1>2, <1>3, <1>4 DEF IndInv

\* The running group: count, running time and enabled time advance together.
LEMMA TickIndInv ==
  ASSUME IndInv, NEW d \in 1..MaxStep, NEW r \in 0..d, Tick(d, r)
  PROVE  IndInv'
<1>1. d \in Nat /\ r \in Nat /\ r <= d
  BY BoundsAssumption
<1>2. TypeOK'
  BY <1>1 DEF Tick, IndInv, TypeOK, handle, call
<1>3. FlagIsLeader' /\ CountMatchesInterval' /\ BaselineConsistent' /\ ScaledIsEnabledTime'
  BY <1>1 DEF Tick, IndInv, TypeOK, FlagIsLeader, CountMatchesInterval, BaselineConsistent,
              ScaledIsEnabledTime, handle, call
<1>4. Boundary' /\ CallState'
  BY DEF Tick, IndInv, Boundary, CallState, FlagIsLeader, handle, call
<1> QED BY <1>2, <1>3, <1>4 DEF IndInv

\* Starting or stopping the group, or failing to, keeps flag and leader together and
\* moves neither the counts nor the baseline.
LEMMA SetEnabledKeeps ==
  ASSUME IndInv, NEW e \in BOOLEAN, SetEnabled(e) \/ SetEnabledFails, info' = info
  PROVE  FlagIsLeader' /\ CountMatchesInterval' /\ BaselineConsistent' /\ ScaledIsEnabledTime'
  BY DEF IndInv, SetEnabled, SetEnabledFails, FlagIsLeader, CountMatchesInterval,
         BaselineConsistent, ScaledIsEnabledTime, kernel, handle

\* enable() and disable().
LEMMA SetEnabledMethodIndInv ==
  ASSUME IndInv, NEW e \in BOOLEAN, SetEnabledMethod(e)
  PROVE  IndInv'
<1>1. SetEnabled(e) \/ SetEnabledFails
  BY DEF SetEnabledMethod
<1>2. TypeOK'
  BY DEF SetEnabledMethod, SetEnabled, SetEnabledFails, IndInv, TypeOK, Steps, kernel, handle
<1>3. Boundary' /\ CallState'
  BY DEF SetEnabledMethod, Boundary, CallState
<1> QED BY <1>1, <1>2, <1>3, SetEnabledKeeps DEF IndInv, SetEnabledMethod


\* reset(): no memory for the record, or the call begins.
LEMMA ResetBeginIndInv ==
  ASSUME IndInv, ResetNoMemory \/ ResetBegin
  PROVE  IndInv'
<1>1. UNCHANGED <<kernel, handle, data, info>>
  BY DEF ResetNoMemory, ResetBegin, Begin
<1>2. TypeOK'
  BY <1>1 DEF ResetNoMemory, ResetBegin, Begin, Goto, IndInv, TypeOK, Steps, Pcs, kernel, handle
<1>3. FlagIsLeader' /\ CountMatchesInterval' /\ BaselineConsistent' /\ ScaledIsEnabledTime'
  BY <1>1 DEF IndInv, FlagIsLeader, CountMatchesInterval, BaselineConsistent,
              ScaledIsEnabledTime, kernel, handle
<1>4. Boundary' /\ CallState'
  <2>1. CASE ResetNoMemory
    BY <2>1 DEF ResetNoMemory, Boundary, CallState
  <2>2. CASE ResetBegin /\ enabled
    BY <1>1, <2>2 DEF ResetBegin, Begin, Goto, Boundary, CallState, handle
  <2>3. CASE ResetBegin /\ ~enabled
    BY <1>1, <2>3 DEF ResetBegin, Begin, Goto, IndInv, FlagIsLeader, Boundary, CallState, kernel
  <2> QED BY <2>1, <2>2, <2>3
<1> QED BY <1>2, <1>3, <1>4 DEF IndInv

\* reset() stops the group, or gives up.
LEMMA ResetDisableIndInv ==
  ASSUME IndInv, ResetDisable
  PROVE  IndInv'
<1>1. CASE SetEnabled(FALSE) /\ NoFail /\ Goto("reset_read")
  <2>1. TypeOK'
    BY <1>1 DEF ResetDisable, SetEnabled, NoFail, Goto, IndInv, TypeOK, Pcs
  <2>2. Boundary' /\ CallState'
    BY <1>1 DEF SetEnabled, Goto, Boundary, CallState
  <2> QED BY <1>1, <2>1, <2>2, SetEnabledKeeps DEF IndInv, ResetDisable
<1>2. CASE SetEnabledFails /\ Fail("disable") /\ Goto("idle")
  <2>1. TypeOK'
    BY <1>2 DEF ResetDisable, SetEnabledFails, Fail, Goto, IndInv, TypeOK, Pcs, Steps, kernel, handle
  <2>2. Boundary' /\ CallState'
    BY <1>2 DEF Goto, Boundary, CallState
  <2> QED BY <1>2, <2>1, <2>2, SetEnabledKeeps DEF IndInv, ResetDisable
<1> QED BY <1>1, <1>2 DEF ResetDisable

\* reset() reads the totals of the stopped group.
LEMMA ResetReadIndInv ==
  ASSUME IndInv, ResetRead
  PROVE  IndInv'
<1>1. UNCHANGED <<kernel, handle, wasEnabled, info>> /\ ~leaderOn
  BY DEF ResetRead, IndInv, Boundary
<1>2. FlagIsLeader' /\ CountMatchesInterval' /\ BaselineConsistent' /\ ScaledIsEnabledTime'
  BY <1>1 DEF IndInv, FlagIsLeader, CountMatchesInterval, BaselineConsistent,
              ScaledIsEnabledTime, kernel, handle
<1>3. CASE data' = [te |-> timeEnabled, tr |-> timeRunning] /\ NoFail /\ Goto("reset_ioctl")
  <2>1. TypeOK'
    BY <1>1, <1>3 DEF NoFail, Goto, IndInv, TypeOK, Pcs, kernel, handle
  <2>2. Boundary' /\ CallState'
    BY <1>1, <1>3 DEF Goto, Boundary, CallState, kernel
  <2> QED BY <1>2, <2>1, <2>2 DEF IndInv
<1>4. CASE Fail("read") /\ Goto(AfterReset) /\ UNCHANGED data
  <2>1. TypeOK'
    BY <1>1, <1>4 DEF Fail, Goto, AfterReset, IndInv, TypeOK, Pcs, Steps, kernel, handle
  <2>2. Boundary' /\ CallState'
    BY <1>1, <1>4 DEF Goto, AfterReset, Boundary, CallState
  <2> QED BY <1>2, <2>1, <2>2 DEF IndInv
<1> QED BY <1>3, <1>4 DEF ResetRead

\* The ioctl clears the count: the totals read are still the kernel's, so count and
\* baseline name the same instant.
LEMMA ResetIoctlIndInv ==
  ASSUME IndInv, ResetIoctl
  PROVE  IndInv'
<1>1. ~leaderOn /\ data.te = timeEnabled /\ data.tr = timeRunning
  BY DEF ResetIoctl, IndInv, Boundary
<1>2. TypeOK'
  <2>1. pc' \in Pcs
    BY DEF ResetIoctl, Goto, AfterReset, Pcs
  <2>2. error' \in Steps \cup {"none"} /\ failed' \in SUBSET Steps
    BY DEF ResetIoctl, NoFail, Fail, IndInv, TypeOK, Steps
  <2>3. count' \in Nat /\ timeEnabledAtReset' \in Nat /\ timeRunningAtReset' \in Nat
    BY <1>1 DEF ResetIoctl, IndInv, TypeOK
  <2> QED BY <2>1, <2>2, <2>3 DEF ResetIoctl, IndInv, TypeOK
<1>3. CountMatchesInterval' /\ BaselineConsistent'
  BY <1>1 DEF ResetIoctl, IndInv, TypeOK, CountMatchesInterval, BaselineConsistent
<1>4. FlagIsLeader' /\ ScaledIsEnabledTime'
  BY DEF ResetIoctl, IndInv, FlagIsLeader, ScaledIsEnabledTime
<1>5. Boundary' /\ CallState'
  BY <1>1 DEF ResetIoctl, Goto, AfterReset, Boundary, CallState
<1> QED BY <1>2, <1>3, <1>4, <1>5 DEF IndInv

\* reset() or read() starts the group again, or fails to; either way the call ends.
LEMMA ResumeIndInv ==
  ASSUME IndInv, ResetResume \/ ReadEnable
  PROVE  IndInv'
<1>1. /\ SetEnabled(TRUE) \/ SetEnabledFails
      /\ UNCHANGED <<wasEnabled, data, info>>
      /\ pc' = "idle"
      /\ NoFail \/ Fail("resume") \/ Throw("resume")
  BY DEF ResetResume, ReadEnable, Goto
<1>2. TypeOK'
  BY <1>1 DEF SetEnabled, SetEnabledFails, NoFail, Fail, Throw, IndInv, TypeOK, Pcs, Steps, kernel, handle
<1>3. Boundary' /\ CallState'
  BY <1>1 DEF Boundary, CallState
<1> QED BY <1>1, <1>2, <1>3, SetEnabledKeeps DEF IndInv


\* read() and readArray() begin.
LEMMA ReadBeginIndInv ==
  ASSUME IndInv, NEW method \in {"read", "readArray"}, ReadBegin(method)
  PROVE  IndInv'
<1>1. /\ UNCHANGED <<kernel, handle, data, info>>
      /\ wasEnabled' = enabled /\ failed' = {} /\ error' = "none"
      /\ \/ enabled /\ pc' \in {"read_disable", "readArray_disable"}
         \/ ~enabled /\ pc' \in {"read_raw", "readArray_raw"}
  BY DEF ReadBegin, Begin, Goto
<1>2. TypeOK'
  BY <1>1 DEF IndInv, TypeOK, Pcs, Steps, kernel, handle
<1>3. FlagIsLeader' /\ CountMatchesInterval' /\ BaselineConsistent' /\ ScaledIsEnabledTime'
  BY <1>1 DEF IndInv, FlagIsLeader, CountMatchesInterval, BaselineConsistent,
              ScaledIsEnabledTime, kernel, handle
<1>4. Boundary' /\ CallState'
  BY <1>1 DEF Boundary, CallState, handle
<1> QED BY <1>2, <1>3, <1>4 DEF IndInv

\* They stop the group, or fail to and go on.
LEMMA ReadDisableIndInv ==
  ASSUME IndInv, ReadDisable
  PROVE  IndInv'
<1>1. /\ SetEnabled(FALSE) \/ SetEnabledFails
      /\ UNCHANGED <<wasEnabled, data, info>>
      /\ pc' \in {"read_raw", "readArray_raw"}
      /\ NoFail \/ Throw("disable")
      /\ wasEnabled
  BY DEF ReadDisable, Goto, IndInv, CallState
<1>2. TypeOK'
  BY <1>1 DEF SetEnabled, SetEnabledFails, NoFail, Throw, IndInv, TypeOK, Pcs, Steps, kernel, handle
<1>3. Boundary' /\ CallState'
  BY <1>1 DEF Boundary, CallState
<1> QED BY <1>1, <1>2, <1>3, SetEnabledKeeps DEF IndInv

\* They read the group and convert the result.
LEMMA ReadRawIndInv ==
  ASSUME IndInv, ReadRaw
  PROVE  IndInv'
<1>1. /\ UNCHANGED <<kernel, handle, wasEnabled, data, info>>
      /\ pc' = "idle" \/ (pc' = "read_enable" /\ wasEnabled)
      /\ NoFail \/ \E step \in {"overflow", "read", "bailout"} : Throw(step)
  BY DEF ReadRaw, Goto
<1>2. TypeOK'
  BY <1>1 DEF NoFail, Throw, IndInv, TypeOK, Pcs, Steps, kernel, handle
<1>3. FlagIsLeader' /\ CountMatchesInterval' /\ BaselineConsistent' /\ ScaledIsEnabledTime'
  BY <1>1 DEF IndInv, FlagIsLeader, CountMatchesInterval, BaselineConsistent,
              ScaledIsEnabledTime, kernel, handle
<1>4. Boundary' /\ CallState'
  BY <1>1 DEF Boundary, CallState
<1> QED BY <1>2, <1>3, <1>4 DEF IndInv

\* phpinfo(): the printed count is the interval's running time, scaled.
LEMMA InfoIndInv ==
  ASSUME IndInv, Info
  PROVE  IndInv'
<1>1. UNCHANGED <<kernel, handle, call>>
  BY DEF Info
<1>2. FlagIsLeader' /\ CountMatchesInterval' /\ BaselineConsistent' /\ Boundary' /\ CallState'
  BY <1>1 DEF IndInv, FlagIsLeader, CountMatchesInterval, BaselineConsistent, Boundary, CallState,
              kernel, handle, call
<1>3. info' \in [scaled : Nat, percent : Nat, te : Nat, tr : Nat] /\ ScaledIsEnabledTime'
  <2>1. CASE info' = NoRow
    BY <2>1 DEF NoRow, ScaledIsEnabledTime
  <2>2. CASE info' # NoRow
    <3> DEFINE te == timeEnabled - timeEnabledAtReset
               tr == timeRunning - timeRunningAtReset
               percent == IF te = 0 THEN 0 ELSE (tr * 100) \div te
    <3>1. te \in Nat /\ tr \in Nat /\ tr <= te /\ count = tr
      BY DEF IndInv, TypeOK, BaselineConsistent, CountMatchesInterval
    <3>2. info' = [scaled |-> Scaled(tr, te, tr), percent |-> percent, te |-> te, tr |-> tr]
      BY <2>2, <3>1 DEF Info
    <3> HIDE DEF te, tr
    <3>3. percent \in Nat /\ percent <= 100
      BY <3>1, PercentBound
    <3>4. CASE tr = 0
      <4>1. Scaled(tr, te, tr) = 0
        BY <3>4 DEF Scaled
      <4> QED BY <3>1, <3>2, <3>3, <3>4, <4>1 DEF ScaledIsEnabledTime
    <3>5. CASE tr # 0
      <4>1. Scaled(tr, te, tr) = te
        BY <3>1, <3>5, ScaleExact
      <4> HIDE DEF percent
      <4> QED BY <3>1, <3>2, <3>3, <4>1 DEF ScaledIsEnabledTime
    <3> QED BY <3>4, <3>5
  <2> QED BY <2>1, <2>2
<1>4. TypeOK'
  BY <1>1, <1>3 DEF IndInv, TypeOK, kernel, handle, call
<1> QED BY <1>2, <1>3, <1>4 DEF IndInv

\* Every step keeps the invariant.
LEMMA NextIndInv == IndInv /\ [Next]_vars => IndInv'
<1> SUFFICES ASSUME IndInv, [Next]_vars PROVE IndInv'
  OBVIOUS
<1>1. CASE \E d \in 1..MaxStep : \E r \in 0..d : Tick(d, r)
  BY <1>1, TickIndInv
<1>2. CASE Enable \/ Disable
  BY <1>2, SetEnabledMethodIndInv DEF Enable, Disable
<1>3. CASE ResetNoMemory \/ ResetBegin
  BY <1>3, ResetBeginIndInv
<1>4. CASE ResetDisable
  BY <1>4, ResetDisableIndInv
<1>5. CASE ResetRead
  BY <1>5, ResetReadIndInv
<1>6. CASE ResetIoctl
  BY <1>6, ResetIoctlIndInv
<1>7. CASE ResetResume \/ ReadEnable
  BY <1>7, ResumeIndInv
<1>8. CASE \E method \in {"read", "readArray"} : ReadBegin(method)
  BY <1>8, ReadBeginIndInv
<1>9. CASE ReadDisable
  BY <1>9, ReadDisableIndInv
<1>10. CASE ReadRaw
  BY <1>10, ReadRawIndInv
<1>11. CASE Info
  BY <1>11, InfoIndInv
<1>12. CASE UNCHANGED vars
  BY <1>12 DEF IndInv, TypeOK, FlagIsLeader, CountMatchesInterval, BaselineConsistent,
               ScaledIsEnabledTime, Boundary, CallState, vars, kernel, handle, call
<1> QED BY <1>1, <1>2, <1>3, <1>4, <1>5, <1>6, <1>7, <1>8, <1>9, <1>10, <1>11, <1>12 DEF Next

\* The invariant holds in every reachable state.
LEMMA Invariance == Spec => []IndInv
  BY InitIndInv, NextIndInv, PTL DEF Spec


-----------------------------------------------------------------------------
(* The safety properties. *)

\* Type correctness of the handle, the group and the call in progress.
THEOREM TypeCorrect == Spec => []TypeOK
  BY Invariance, PTL DEF IndInv

\* The count and the timing baseline of a handle describe the same interval in every
\* reachable state, whichever system calls of try_reset() failed.
THEOREM CountMatchesIntervalAlways == Spec => []CountMatchesInterval
  BY Invariance, PTL DEF IndInv

\* minfo_handle_metrics() never sees the kernel's times behind the baseline, and the
\* running time never exceeds the enabled time of the interval.
THEOREM BaselineConsistentAlways == Spec => []BaselineConsistent
  BY Invariance, PTL DEF IndInv

\* The scaled count phpinfo() prints for a clock is the enabled time of the interval.
THEOREM ScaledIsEnabledTimeAlways == Spec => []ScaledIsEnabledTime
  BY Invariance, PTL DEF IndInv

-----------------------------------------------------------------------------
(* A call restores the handle or reports. *)

\* Of the steps that end a call, only a failed resume and an unwound request leave
\* the handle in another state than the call found it in.
LEMMA CallEnds ==
  ASSUME IndInv, [Next]_vars, pc # "idle", pc' = "idle", enabled' # wasEnabled
  PROVE  failed' \cap {"resume", "bailout"} # {} /\ error' # "none"
<1>1. CASE Fail("resume") \/ Throw("resume") \/ Throw("bailout")
  BY <1>1 DEF Fail, Throw
<1>2. CASE ResetDisable
  <2>1. SetEnabledFails
    BY <1>2 DEF ResetDisable, Goto
  <2> QED BY <1>2, <2>1 DEF ResetDisable, SetEnabledFails, IndInv, TypeOK, CallState, handle
<1>3. CASE ResetRead \/ ResetIoctl
  <2>1. ~wasEnabled /\ ~enabled /\ enabled' = enabled
    BY <1>3 DEF ResetRead, ResetIoctl, Goto, AfterReset, IndInv, Boundary, FlagIsLeader, handle
  <2> QED BY <2>1 DEF IndInv, TypeOK
<1>4. CASE (ResetResume \/ ReadEnable) /\ ~Fail("resume") /\ ~Throw("resume")
  <2>1. enabled' = TRUE /\ wasEnabled
    BY <1>4 DEF ResetResume, ReadEnable, SetEnabled, IndInv, CallState
  <2> QED BY <2>1 DEF IndInv, TypeOK
<1>5. CASE ReadRaw /\ ~Throw("bailout")
  <2>1. ~wasEnabled /\ ~enabled /\ enabled' = enabled
    BY <1>5 DEF ReadRaw, Goto, IndInv, CallState, handle
  <2> QED BY <2>1 DEF IndInv, TypeOK
<1>6. ~ReadDisable /\ ~UNCHANGED pc
  BY DEF ReadDisable, Goto
<1>7. /\ ~Enable /\ ~Disable /\ ~ResetNoMemory /\ ~ResetBegin /\ ~Info
      /\ \A method : ~ReadBegin(method)
      /\ \A d, r : ~Tick(d, r)
  BY <1>6 DEF Enable, Disable, SetEnabledMethod, ResetNoMemory, ResetBegin, ReadBegin, Begin,
              Info, Tick, call
<1>8. UNCHANGED vars => UNCHANGED pc
  BY DEF vars, call
<1> QED BY <1>1, <1>2, <1>3, <1>4, <1>5, <1>6, <1>7, <1>8 DEF Next

\* reset(), read() and readArray() leave the handle as they found it or report.
THEOREM CallsRestoreOrReport == Spec => CallRestoresOrReports
<1>1. IndInv /\ [Next]_vars =>
        [(pc # "idle" /\ pc' = "idle" /\ enabled' # wasEnabled) =>
            failed' \cap {"resume", "bailout"} # {} /\ error' # "none"]_vars
  BY CallEnds
<1> QED BY <1>1, Invariance, PTL DEF Spec, CallRestoresOrReports

-----------------------------------------------------------------------------
(* A handle is a stopwatch. *)

\* A step of the handle is a step of the stopwatch or leaves it alone.
LEMMA StopwatchStep == IndInv /\ [Next]_vars => [SW!Next]_SW!vars
<1> SUFFICES ASSUME IndInv, [Next]_vars PROVE SW!Next \/ UNCHANGED SW!vars
  OBVIOUS
<1>1. ASSUME NEW e \in BOOLEAN, SetEnabled(e)
      PROVE  SW!Next
  BY <1>1 DEF SetEnabled, SW!Next, SW!Start, SW!Stop
<1>2. ASSUME UNCHANGED <<kernel, handle>>
      PROVE  UNCHANGED SW!vars
  BY <1>2 DEF kernel, handle, SW!vars
<1>3. CASE \E d \in 1..MaxStep : \E r \in 0..d : Tick(d, r)
  <2>0. PICK d \in 1..MaxStep : \E r \in 0..d : Tick(d, r)
    BY <1>3
  <2>1. PICK r \in 0..d : Tick(d, r)
    BY <2>0
  <2>2. d \in Nat /\ r \in Nat /\ r <= d
    BY BoundsAssumption
  <2>3. SW!Run
    BY <2>1, <2>2 DEF Tick, SW!Run, IndInv, TypeOK, handle
  <2> QED BY <2>3 DEF SW!Next
<1>4. CASE ResetIoctl
  <2>1. ~leaderOn /\ data.te = timeEnabled /\ data.tr = timeRunning
    BY <1>4 DEF ResetIoctl, IndInv, Boundary
  <2>2. SW!Zero \/ UNCHANGED SW!vars
    BY <1>4, <2>1 DEF ResetIoctl, SW!Zero, SW!vars, IndInv, TypeOK
  <2> QED BY <2>2 DEF SW!Next
<1>5. CASE Enable \/ Disable \/ ResetDisable \/ ResetResume \/ ReadDisable \/ ReadEnable
  <2>1. SetEnabled(TRUE) \/ SetEnabled(FALSE) \/ SetEnabledFails
    BY <1>5 DEF Enable, Disable, SetEnabledMethod, ResetDisable, ResetResume, ReadDisable, ReadEnable
  <2> QED BY <1>1, <1>2, <2>1 DEF SetEnabledFails
<1>6. CASE \/ ResetNoMemory \/ ResetBegin \/ ResetRead \/ ReadRaw \/ Info
           \/ \E method \in {"read", "readArray"} : ReadBegin(method)
  BY <1>2, <1>6 DEF ResetNoMemory, ResetBegin, ResetRead, ReadRaw, Info, ReadBegin, Begin
<1>7. CASE UNCHANGED vars
  BY <1>2, <1>7 DEF vars
<1> QED BY <1>3, <1>4, <1>5, <1>6, <1>7 DEF Next

\* The handle implements the stopwatch its documentation promises.
THEOREM HandleIsStopwatch == Spec => ImplementsStopwatch
<1>1. Init => SW!Init
  BY DEF Init, SW!Init
<1> QED BY <1>1, Invariance, StopwatchStep, PTL DEF Spec, ImplementsStopwatch, SW!Spec
=============================================================================
