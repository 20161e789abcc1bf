------------------------ MODULE RequestHandle_proofs ------------------------
(***************************************************************************)
(* Proofs about RequestHandle for every number of workers, event groups    *)
(* and requests.  What concerns one worker's globals holds with any reuse  *)
(* of process ids and with pcntl_fork() in requests; what concerns the     *)
(* event groups needs ids of their own and no such fork: MCPidReuse.cfg    *)
(* and MCForkInRequest.cfg show it fails otherwise.                        *)
(***************************************************************************)
EXTENDS RequestHandle, TLAPS

-----------------------------------------------------------------------------
(* The inductive invariants, worker by worker. *)

\* What the properties about a worker's own globals rest on.
Settled(q) ==
  /\ phase[q] = "unborn" => handle[q] = None /\ handlePid[q] = 0 /\ error[q] = "none"
  /\ ~Alive(q) => handle[q] = None
  /\ ~InRequest(q) => obj[q] = None /\ ~ready[q]
  /\ ready[q] => phase[q] = "active" /\ handle[q] # None
  /\ obj[q] # None => obj[q] = handle[q]
  /\ phase[q] = "active" /\ requestEnable[q] /\ ~ready[q] => error[q] # "none" \/ told[q]
  /\ phase[q] = "active" /\ requestEnable[q] /\ clean[q] => ready[q]

GlobalsInv == TypeOK /\ \A q \in Proc : Settled(q)

\* The id was given to a process that was started.
Used(n) == \E b \in Proc : phase[b] # "unborn" /\ PidOf[b] = n

KnownIds(q) ==
  /\ phase[q] = "unborn" => pid[q] = PidOf[q]
  /\ phase[q] # "unborn" => Used(pid[q])
  /\ handlePid[q] # 0 => Used(handlePid[q])

\* A worker's descriptors are those of its handle; a handle it opened itself counts it.
Holds(q) ==
  /\ \A g \in Group : q \in holders[g] <=> Alive(q) /\ handle[q] = g
  /\ Alive(q) /\ handle[q] # None /\ ~Inherited(q) => measured[handle[q]] = q
  /\ InRequest(q) => ~Inherited(q)

\* What a worker's handle has counted.
Counted(q) ==
  /\ ready[q] \/ obj[q] # None => work[handle[q]] \subseteq {request[q]}
  /\ ready[q] /\ ~touched[q] =>
        on[handle[q]] /\ (worked[q] => request[q] \in work[handle[q]])
  /\ InRequest(q) /\ requestEnable[q] /\ handle[q] # None =>
        work[handle[q]] \subseteq {request[q]} \/ error[q] # "none" \/ told[q]

GroupsInv == \A q \in Proc : KnownIds(q) /\ Holds(q) /\ Counted(q)

\* No two workers are ever given the same id.
PidsDistinct == \A p, q \in Proc : PidOf[p] = PidOf[q] => p = q

\* A step that leaves the worker's memory alone (user code of a process that shares its
\* group may touch the group).
Same(q) ==
  /\ pid'[q] = pid[q] /\ phase'[q] = phase[q] /\ request'[q] = request[q]
  /\ requestEnable'[q] = requestEnable[q] /\ handle'[q] = handle[q]
  /\ handlePid'[q] = handlePid[q] /\ ready'[q] = ready[q] /\ error'[q] = error[q]
  /\ flag'[q] = flag[q] /\ obj'[q] = obj[q]
  /\ clean'[q] = clean[q] /\ told'[q] = told[q]
  /\ (touched[q] => touched'[q]) /\ worked'[q] = worked[q]

-----------------------------------------------------------------------------
(* Operations on a handle. *)

HandleState == [on : BOOLEAN, flag : BOOLEAN, work : SUBSET Nat]

\* The state of an open handle, as its operations see it.
LEMMA StateTyped ==
  ASSUME TypeOK, NEW p \in Proc, NEW g \in Group
  PROVE  State(p, g) \in HandleState /\ State(p, g).work = work[g] /\ NewGroup \in HandleState
         /\ NewGroup.work = {}
  BY DEF TypeOK, State, HandleState, NewGroup

\* Starting and stopping do not change what was counted.
LEMMA SetEnabledRight ==
  ASSUME NEW h \in HandleState, NEW e \in BOOLEAN, NEW fails \in BOOLEAN
  PROVE  /\ SetEnabled(h, e, fails) \in HandleState
         /\ SetEnabled(h, e, fails).work = h.work
         /\ ~fails => SetEnabled(h, e, fails).on = e
  BY DEF SetEnabled, HandleState

\* A reset keeps the work or clears it; it clears it when it does not fail.
LEMMA ResetRight ==
  ASSUME NEW h \in HandleState, NEW r \in Resets(h)
  PROVE  /\ r.state \in HandleState /\ r.fails \in BOOLEAN
         /\ r.state.work = h.work \/ r.state.work = {}
         /\ ~r.fails => r.state.work = {}
<1>1. PICK f \in SUBSET Faults : r = [state |-> TryReset(h, f), fails |-> ResetFails(h, f)]
  BY DEF Resets
<1>2. r.fails \in BOOLEAN
  <2>1. r.fails = ResetFails(h, f)
    BY <1>1
  <2> QED BY <2>1, Zenon DEF ResetFails
<1> DEFINE stopped == IF h.flag THEN SetEnabled(h, FALSE, FALSE) ELSE h
           cleared == IF "clear" \in f THEN stopped ELSE [stopped EXCEPT !.work = {}]
           resumed == IF h.flag THEN SetEnabled(cleared, TRUE, "resume" \in f) ELSE cleared
<1>3. stopped \in HandleState /\ stopped.work = h.work
  BY SetEnabledRight
<1>4. /\ cleared \in HandleState /\ (cleared.work = h.work \/ cleared.work = {})
      /\ "clear" \notin f => cleared.work = {}
  <2> HIDE DEF stopped
  <2> QED BY <1>3 DEF HandleState
<1>5. resumed \in HandleState /\ resumed.work = cleared.work
  <2> HIDE DEF cleared
  <2>1. ("resume" \in f) \in BOOLEAN
    OBVIOUS
  <2> QED BY <1>4, <2>1, SetEnabledRight
<1>6. TryReset(h, f) = IF "malloc" \in f \/ (h.flag /\ "disable" \in f) THEN h ELSE resumed
  BY DEF TryReset
<1>7. r.state = TryReset(h, f)
  BY <1>1
<1>8. "clear" \in f => r.fails
  BY <1>1 DEF ResetFails
<1>9. "malloc" \in f \/ (h.flag /\ "disable" \in f) => r.fails
  BY <1>1 DEF ResetFails
<1> HIDE DEF stopped, cleared, resumed
<1>10. r.state \in HandleState
  BY <1>5, <1>6, <1>7
<1>11. r.state.work = h.work \/ r.state.work = {}
  BY <1>4, <1>5, <1>6, <1>7
<1>12. ~r.fails => r.state.work = {}
  BY <1>4, <1>5, <1>6, <1>7, <1>8, <1>9
<1> QED BY <1>2, <1>10, <1>11, <1>12

\* A read does not change what was counted.
LEMMA ReadSideRight ==
  ASSUME NEW h \in HandleState, NEW f
  PROVE  ReadSide(h, f) \in HandleState /\ ReadSide(h, f).work = h.work
<1> DEFINE stopped == SetEnabled(h, FALSE, "disable" \in f)
<1>1. ("disable" \in f) \in BOOLEAN /\ ("resume" \in f) \in BOOLEAN
  OBVIOUS
<1>2. stopped \in HandleState /\ stopped.work = h.work
  BY <1>1, SetEnabledRight
<1> HIDE DEF stopped
<1>3. /\ SetEnabled(stopped, TRUE, "resume" \in f) \in HandleState
      /\ SetEnabled(stopped, TRUE, "resume" \in f).work = h.work
  BY <1>1, <1>2, SetEnabledRight
<1> QED BY <1>3 DEF ReadSide, stopped

\* Writing a handle's state back changes one group and the worker's flag.
LEMMA SetStateRight ==
  ASSUME TypeOK, NEW p \in Proc, NEW g \in Group, NEW h \in HandleState, SetState(p, g, h)
  PROVE  /\ on' \in [Group -> BOOLEAN] /\ work' \in [Group -> SUBSET Nat]
         /\ flag' \in [Proc -> BOOLEAN]
         /\ on'[g] = h.on /\ work'[g] = h.work
         /\ \A k \in Group : k # g => on'[k] = on[k] /\ work'[k] = work[k]
         /\ \A q \in Proc : q # p => flag'[q] = flag[q]
  BY DEF TypeOK, SetState, HandleState

\* perfidious_request_handle_record_error()
LEMMA RecordErrorRight ==
  ASSUME NEW pending \in Operations, NEW op \in Operations \ {"none"}, NEW fails \in BOOLEAN
  PROVE  /\ RecordError(pending, op, fails) \in Operations
         /\ pending # "none" => RecordError(pending, op, fails) = pending
         /\ fails => RecordError(pending, op, fails) # "none"
  BY DEF RecordError, Operations

-----------------------------------------------------------------------------
(* RINIT. *)

\* RINIT leaves the worker with handle hd, pending error er, and ready or not; the groups
\* but hd are as they were.
Started(p, e, hd, rd, er, cl) ==
  /\ handle' = [handle EXCEPT ![p] = hd]
  /\ ready' = [ready EXCEPT ![p] = rd]
  /\ error' = [error EXCEPT ![p] = er]
  /\ clean' = [clean EXCEPT ![p] = cl]
  /\ KeptError(p) # "none" => er = KeptError(p)
  /\ rd => hd # None /\ on'[hd] /\ work'[hd] = {}
  /\ e /\ ~rd => er # "none"
  /\ e /\ cl => rd
  /\ e /\ hd # None => work'[hd] = {} \/ er # "none"
  /\ on' \in [Group -> BOOLEAN] /\ work' \in [Group -> SUBSET Nat] /\ flag' \in [Proc -> BOOLEAN]
  /\ \A k \in Group : k # hd => on'[k] = on[k] /\ work'[k] = work[k]
  /\ \A q \in Proc : q # p => flag'[q] = flag[q]

\* Its descriptors: none, those of a group nobody else had, or those of the handle it kept.
Acquired(p, e, hd) ==
  \/ /\ hd = KeptHandle(p) /\ (~e \/ hd = None)
     /\ holders' = KeptHolders(p) /\ UNCHANGED <<measured, on, work>>
  \/ /\ hd \in Group /\ KeptHandle(p) = None /\ KeptHolders(p)[hd] = {}
     /\ holders' = [KeptHolders(p) EXCEPT ![hd] = {p}]
     /\ measured' = [measured EXCEPT ![hd] = p]
  \/ hd = handle[p] /\ hd = KeptHandle(p) /\ UNCHANGED <<measured, holders>>

\* The pending error that survives the check for an inherited handle.
LEMMA KeptTyped ==
  ASSUME TypeOK, NEW p \in Proc
  PROVE  /\ KeptError(p) \in Operations /\ KeptHandle(p) \in Group \cup {None}
         /\ KeptHolders(p) \in [Group -> SUBSET Proc]
<1>1. KeptError(p) \in Operations
  BY DEF TypeOK, KeptError, Operations
<1>2. KeptHandle(p) \in Group \cup {None}
  BY DEF TypeOK, KeptHandle
<1>3. KeptHolders(p) \in [Group -> SUBSET Proc]
  BY DEF TypeOK, KeptHolders
<1> QED BY <1>1, <1>2, <1>3

\* Resetting and enabling a handle: it is ready when both worked; otherwise an error is
\* pending, and a handle that was not cleared is not ready.
LEMMA PrepareRight ==
  ASSUME TypeOK, NEW p \in Proc, NEW g \in Group, NEW h \in HandleState, NEW r \in Resets(h),
         NEW enableFails \in BOOLEAN, Prepare(p, g, r, enableFails)
  PROVE  \E rd \in BOOLEAN, er \in Operations :
           /\ ready' = [ready EXCEPT ![p] = rd]
           /\ error' = [error EXCEPT ![p] = er]
           /\ clean' = [clean EXCEPT ![p] = rd]
           /\ KeptError(p) # "none" => er = KeptError(p)
           /\ rd => on'[g] /\ work'[g] = {}
           /\ ~rd => er # "none"
           /\ work'[g] = {} \/ er # "none"
           /\ on' \in [Group -> BOOLEAN] /\ work' \in [Group -> SUBSET Nat]
           /\ flag' \in [Proc -> BOOLEAN]
           /\ \A k \in Group : k # g => on'[k] = on[k] /\ work'[k] = work[k]
           /\ \A q \in Proc : q # p => flag'[q] = flag[q]
<1> DEFINE rd == ~r.fails /\ ~enableFails
           er == IF r.fails THEN RecordError(KeptError(p), "reset", TRUE)
                            ELSE RecordError(KeptError(p), "enable", enableFails)
           after == IF r.fails THEN r.state ELSE SetEnabled(r.state, TRUE, enableFails)
<1>1. /\ r.state \in HandleState /\ r.fails \in BOOLEAN
      /\ ~r.fails => r.state.work = {}
  BY ResetRight
<1>2. /\ after \in HandleState /\ (~r.fails => after.work = {})
      /\ rd => after.on
  <2>1. /\ SetEnabled(r.state, TRUE, enableFails) \in HandleState
        /\ SetEnabled(r.state, TRUE, enableFails).work = r.state.work
        /\ ~enableFails => SetEnabled(r.state, TRUE, enableFails).on = TRUE
    BY <1>1, SetEnabledRight
  <2> QED BY <1>1, <2>1
<1>3. /\ er \in Operations /\ (KeptError(p) # "none" => er = KeptError(p))
      /\ ~rd => er # "none"
      /\ r.fails => er # "none"
  <2>1. KeptError(p) \in Operations
    BY KeptTyped
  <2>2. /\ "reset" \in Operations \ {"none"} /\ "enable" \in Operations \ {"none"}
        /\ TRUE \in BOOLEAN
    BY DEF Operations
  <2>3. /\ RecordError(KeptError(p), "reset", TRUE) \in Operations
        /\ KeptError(p) # "none" => RecordError(KeptError(p), "reset", TRUE) = KeptError(p)
        /\ RecordError(KeptError(p), "reset", TRUE) # "none"
    BY <2>1, <2>2, RecordErrorRight
  <2>4. /\ RecordError(KeptError(p), "enable", enableFails) \in Operations
        /\ KeptError(p) # "none" => RecordError(KeptError(p), "enable", enableFails) = KeptError(p)
        /\ enableFails => RecordError(KeptError(p), "enable", enableFails) # "none"
    BY <2>1, <2>2, RecordErrorRight
  <2> QED BY <2>3, <2>4
<1>4. /\ SetState(p, g, after) /\ ready' = [ready EXCEPT ![p] = rd]
      /\ error' = [error EXCEPT ![p] = er] /\ clean' = [clean EXCEPT ![p] = rd]
  BY DEF Prepare
<1>5. rd \in BOOLEAN
  BY Zenon
<1> HIDE DEF after
<1>6. /\ on' \in [Group -> BOOLEAN] /\ work' \in [Group -> SUBSET Nat]
      /\ flag' \in [Proc -> BOOLEAN] /\ on'[g] = after.on /\ work'[g] = after.work
      /\ \A k \in Group : k # g => on'[k] = on[k] /\ work'[k] = work[k]
      /\ \A q \in Proc : q # p => flag'[q] = flag[q]
  BY <1>2, <1>4, SetStateRight
<1>7. /\ rd => on'[g] /\ work'[g] = {}
      /\ work'[g] = {} \/ er # "none"
  BY <1>2, <1>3, <1>6
<1> HIDE DEF rd, er
<1> QED BY <1>3, <1>4, <1>5, <1>6, <1>7

\* Every way RINIT can go.
LEMMA RinitEffect ==
  ASSUME TypeOK, NEW p \in Proc, Rinit(p)
  PROVE  \E e, rd, cl \in BOOLEAN, hd \in Group \cup {None}, er \in Operations :
            BeginRequest(p, e) /\ Started(p, e, hd, rd, er, cl) /\ Acquired(p, e, hd)
<1> USE KeptTyped
<1> DEFINE Goal == \E e, rd, cl \in BOOLEAN, hd \in Group \cup {None}, er \in Operations :
                     BeginRequest(p, e) /\ Started(p, e, hd, rd, er, cl) /\ Acquired(p, e, hd)
<1>1. CASE RinitDisabled(p)
  <2>1. BeginRequest(p, FALSE)
    BY <1>1 DEF RinitDisabled
  <2>2. Started(p, FALSE, KeptHandle(p), FALSE, KeptError(p), TRUE)
    BY <1>1 DEF RinitDisabled, Started, TypeOK
  <2>3. Acquired(p, FALSE, KeptHandle(p))
    BY <1>1 DEF RinitDisabled, Acquired
  <2> QED BY <2>1, <2>2, <2>3
<1>2. CASE RinitOpenFails(p)
  <2> DEFINE er == RecordError(KeptError(p), "open", TRUE)
  <2>1. er \in Operations /\ er # "none" /\ (KeptError(p) # "none" => er = KeptError(p))
    <3>1. "open" \in Operations \ {"none"}
      BY DEF Operations
    <3> QED BY <3>1, RecordErrorRight
  <2>2. BeginRequest(p, TRUE)
    BY <1>2 DEF RinitOpenFails
  <2>3. Started(p, TRUE, None, FALSE, er, FALSE)
    <3>1. error' = [error EXCEPT ![p] = er]
      BY <1>2 DEF RinitOpenFails
    <3> HIDE DEF er
    <3> QED BY <1>2, <2>1, <3>1 DEF RinitOpenFails, Started, TypeOK
  <2>4. Acquired(p, TRUE, None)
    BY <1>2 DEF RinitOpenFails, Acquired
  <2> HIDE DEF er
  <2> QED BY <2>1, <2>2, <2>3, <2>4
<1>3. ASSUME NEW g \in Group, NEW h \in HandleState, NEW r \in Resets(h), NEW enableFails \in BOOLEAN,
             BeginRequest(p, TRUE), Prepare(p, g, r, enableFails),
             handle' = [handle EXCEPT ![p] = g], Acquired(p, TRUE, g)
      PROVE  Goal
  <2>1. PICK rd \in BOOLEAN, er \in Operations :
           /\ ready' = [ready EXCEPT ![p] = rd]
           /\ error' = [error EXCEPT ![p] = er]
           /\ clean' = [clean EXCEPT ![p] = rd]
           /\ KeptError(p) # "none" => er = KeptError(p)
           /\ rd => on'[g] /\ work'[g] = {}
           /\ ~rd => er # "none"
           /\ work'[g] = {} \/ er # "none"
           /\ on' \in [Group -> BOOLEAN] /\ work' \in [Group -> SUBSET Nat]
           /\ flag' \in [Proc -> BOOLEAN]
           /\ \A k \in Group : k # g => on'[k] = on[k] /\ work'[k] = work[k]
           /\ \A q \in Proc : q # p => flag'[q] = flag[q]
    BY <1>3, PrepareRight
  <2>2. g # None
    BY ProcAssumption
  <2>3. Started(p, TRUE, g, rd, er, rd)
    BY <1>3, <2>1, <2>2 DEF Started
  <2> QED BY <1>3, <2>3
<1>4. CASE \E g \in Group, r \in Resets(NewGroup), enableFails \in BOOLEAN :
              RinitOpen(p, g, r, enableFails)
  <2>1. PICK g \in Group, r \in Resets(NewGroup), enableFails \in BOOLEAN :
              RinitOpen(p, g, r, enableFails)
    BY <1>4
  <2>2. Acquired(p, TRUE, g)
    BY <2>1 DEF RinitOpen, Acquired
  <2>3. NewGroup \in HandleState
    BY DEF NewGroup, HandleState
  <2> QED BY <1>3, <2>1, <2>2, <2>3 DEF RinitOpen
<1>5. CASE /\ handle[p] # None
           /\ \E r \in Resets(State(p, handle[p])), enableFails \in BOOLEAN :
                RinitReuse(p, r, enableFails)
  <2>1. PICK r \in Resets(State(p, handle[p])), enableFails \in BOOLEAN :
              RinitReuse(p, r, enableFails)
    BY <1>5
  <2>2. handle[p] \in Group /\ handle' = [handle EXCEPT ![p] = handle[p]]
    BY <1>5, <2>1 DEF RinitReuse, TypeOK
  <2>3. Acquired(p, TRUE, handle[p])
    BY <2>1 DEF RinitReuse, Acquired, KeptHandle
  <2>4. State(p, handle[p]) \in HandleState
    BY <2>2, StateTyped
  <2> QED BY <1>3, <2>1, <2>2, <2>3, <2>4 DEF RinitReuse
<1> QED BY <1>1, <1>2, <1>4, <1>5 DEF Rinit

-----------------------------------------------------------------------------
(* RSHUTDOWN and the borrowed object. *)

\* RSHUTDOWN keeps a pending error, and the handle's work or none of it.
LEMMA RshutdownEffect ==
  ASSUME TypeOK, NEW p \in Proc, Rshutdown(p)
  PROVE  /\ \E er \in Operations : /\ error' = [error EXCEPT ![p] = er]
                                   /\ error[p] # "none" => er = error[p]
         /\ on' \in [Group -> BOOLEAN] /\ work' \in [Group -> SUBSET Nat]
         /\ flag' \in [Proc -> BOOLEAN]
         /\ handle[p] # None => work'[handle[p]] = work[handle[p]] \/ work'[handle[p]] = {}
         /\ \A k \in Group : k # handle[p] => on'[k] = on[k] /\ work'[k] = work[k]
         /\ \A q \in Proc : q # p => flag'[q] = flag[q]
<1>1. CASE handle[p] = None /\ UNCHANGED <<error, flag, on, work>>
  BY <1>1 DEF TypeOK
<1>2. ASSUME NEW disableFails \in BOOLEAN, handle[p] # None,
             NEW r \in Resets(SetEnabled(State(p, handle[p]), FALSE, disableFails)),
             SetState(p, handle[p], r.state),
             error' = [error EXCEPT ![p] = RecordError(RecordError(@, "disable", disableFails),
                                                       "reset", r.fails)]
      PROVE  /\ \E er \in Operations : /\ error' = [error EXCEPT ![p] = er]
                                       /\ error[p] # "none" => er = error[p]
             /\ on' \in [Group -> BOOLEAN] /\ work' \in [Group -> SUBSET Nat]
             /\ flag' \in [Proc -> BOOLEAN]
             /\ work'[handle[p]] = work[handle[p]] \/ work'[handle[p]] = {}
             /\ \A k \in Group : k # handle[p] => on'[k] = on[k] /\ work'[k] = work[k]
             /\ \A q \in Proc : q # p => flag'[q] = flag[q]
  <2>1. handle[p] \in Group /\ error[p] \in Operations
    BY <1>2 DEF TypeOK
  <2> DEFINE g == handle[p]
             h == SetEnabled(State(p, g), FALSE, disableFails)
             first == RecordError(error[p], "disable", disableFails)
             er == RecordError(first, "reset", r.fails)
  <2>2. h \in HandleState /\ h.work = work[g]
    <3>1. State(p, g) \in HandleState /\ State(p, g).work = work[g]
      BY <2>1, StateTyped
    <3>2. FALSE \in BOOLEAN
      OBVIOUS
    <3> QED BY <3>1, <3>2, SetEnabledRight
  <2>3. r.state \in HandleState /\ r.fails \in BOOLEAN /\ (r.state.work = work[g] \/ r.state.work = {})
    <3>1. r \in Resets(h)
      OBVIOUS
    <3> HIDE DEF h
    <3> QED BY <2>2, <3>1, ResetRight
  <2>4. "disable" \in Operations \ {"none"} /\ "reset" \in Operations \ {"none"}
    BY DEF Operations
  <2>5. first \in Operations /\ (error[p] # "none" => first = error[p])
    BY <2>1, <2>4, RecordErrorRight
  <2>6. er \in Operations /\ (error[p] # "none" => er = error[p])
    <3> HIDE DEF first
    <3> QED BY <2>3, <2>4, <2>5, RecordErrorRight
  <2>7. error' = [error EXCEPT ![p] = er]
    BY <1>2
  <2>8. /\ on' \in [Group -> BOOLEAN] /\ work' \in [Group -> SUBSET Nat]
        /\ flag' \in [Proc -> BOOLEAN] /\ work'[g] = r.state.work
        /\ \A k \in Group : k # g => on'[k] = on[k] /\ work'[k] = work[k]
        /\ \A q \in Proc : q # p => flag'[q] = flag[q]
    BY <1>2, <2>1, <2>3, SetStateRight
  <2> HIDE DEF er, h
  <2> QED BY <2>3, <2>6, <2>7, <2>8
<1> QED BY <1>1, <1>2 DEF Rshutdown

\* A method of the borrowed object keeps the handle's work or clears it.
LEMMA UseEffect ==
  ASSUME TypeOK, NEW p \in Proc, Use(p)
  PROVE  /\ obj[p] \in Group
         /\ \E h \in HandleState : Method(p, h) /\ (h.work = work[obj[p]] \/ h.work = {})
<1> DEFINE g == obj[p]
           h == State(p, g)
<1>1. g \in Group
  BY DEF Use, TypeOK
<1>2. h \in HandleState /\ h.work = work[g]
  BY <1>1, StateTyped
<1>3. PICK after \in {SetEnabled(h, e, fails) : e, fails \in BOOLEAN}
                  \cup {r.state : r \in Resets(h)}
                  \cup {ReadSide(h, f) : f \in SUBSET {"disable", "resume"}} :
        Method(p, after)
  BY DEF Use
<1> HIDE DEF h
<1>4. after \in HandleState /\ (after.work = h.work \/ after.work = {})
  <2>1. CASE \E e, fails \in BOOLEAN : after = SetEnabled(h, e, fails)
    BY <1>2, <2>1, SetEnabledRight
  <2>2. CASE \E r \in Resets(h) : after = r.state
    BY <1>2, <2>2, ResetRight
  <2>3. CASE \E f \in SUBSET {"disable", "resume"} : after = ReadSide(h, f)
    BY <1>2, <2>3, ReadSideRight
  <2> QED BY <1>3, <2>1, <2>2, <2>3
<1> QED BY <1>1, <1>2, <1>3, <1>4

-----------------------------------------------------------------------------
(* The globals of the workers. *)

\* A worker whose memory did not change is as settled as before.
LEMMA SettledSame ==
  ASSUME NEW q \in Proc, Settled(q), Same(q)
  PROVE  Settled(q)'
  BY DEF Settled, Same, Alive, InRequest

\* A fresh server.
LEMMA InitGlobals == Init => GlobalsInv
<1> SUFFICES ASSUME Init PROVE GlobalsInv
  OBVIOUS
<1>1. TypeOK
  BY ProcAssumption DEF Init, TypeOK, Operations
<1>2. \A q \in Proc : Settled(q)
  BY DEF Init, Settled, Alive, InRequest
<1> QED BY <1>1, <1>2 DEF GlobalsInv

\* RINIT
LEMMA RinitGlobals ==
  ASSUME GlobalsInv, NEW p \in Proc, Rinit(p)
  PROVE  GlobalsInv'
<1>1. TypeOK /\ Settled(p) /\ \A q \in Proc : Settled(q)
  BY DEF GlobalsInv
<1>2. PICK e, rd, cl \in BOOLEAN, hd \in Group \cup {None}, er \in Operations :
        BeginRequest(p, e) /\ Started(p, e, hd, rd, er, cl) /\ Acquired(p, e, hd)
  BY <1>1, RinitEffect
<1>3. TypeOK'
  <2>1. /\ pid' \in [Proc -> Nat \ {0}]
        /\ phase' \in [Proc -> {"unborn", "idle", "active", "late", "dead"}]
        /\ request' \in [Proc -> Nat] /\ served' \in Nat
        /\ requestEnable' \in [Proc -> BOOLEAN] /\ handlePid' \in [Proc -> Nat]
        /\ obj' \in [Proc -> Group \cup {None}]
    BY <1>1, <1>2 DEF TypeOK, BeginRequest
  <2>2. /\ told' \in [Proc -> BOOLEAN] /\ touched' \in [Proc -> BOOLEAN]
        /\ worked' \in [Proc -> BOOLEAN]
    BY <1>1, <1>2 DEF TypeOK, BeginRequest
  <2>3. /\ handle' \in [Proc -> Group \cup {None}] /\ ready' \in [Proc -> BOOLEAN]
        /\ error' \in [Proc -> Operations] /\ clean' \in [Proc -> BOOLEAN]
        /\ flag' \in [Proc -> BOOLEAN] /\ on' \in [Group -> BOOLEAN]
        /\ work' \in [Group -> SUBSET Nat]
    BY <1>1, <1>2 DEF TypeOK, Started
  <2>4. measured' \in [Group -> Proc] /\ holders' \in [Group -> SUBSET Proc]
    <3>1. KeptHolders(p) \in [Group -> SUBSET Proc]
      BY <1>1, KeptTyped
    <3>2. measured \in [Group -> Proc] /\ holders \in [Group -> SUBSET Proc]
      BY <1>1 DEF TypeOK
    <3>3. CASE holders' = KeptHolders(p) /\ UNCHANGED <<measured, on, work>>
      BY <3>1, <3>2, <3>3
    <3>4. CASE /\ hd \in Group /\ holders' = [KeptHolders(p) EXCEPT ![hd] = {p}]
               /\ measured' = [measured EXCEPT ![hd] = p]
      BY <3>1, <3>2, <3>4
    <3>5. CASE UNCHANGED <<measured, holders>>
      BY <3>2, <3>5
    <3> QED BY <1>2, <3>3, <3>4, <3>5 DEF Acquired
  <2> QED BY <2>1, <2>2, <2>3, <2>4 DEF TypeOK
<1>4. \A q \in Proc : q # p => Same(q)
  BY <1>1, <1>2 DEF TypeOK, BeginRequest, Started, Same
<1>5. Settled(p)'
  BY <1>1, <1>2 DEF TypeOK, BeginRequest, Started, Settled, Alive, InRequest
<1> QED BY <1>1, <1>3, <1>4, <1>5, SettledSame DEF GlobalsInv

\* RSHUTDOWN
LEMMA RshutdownGlobals ==
  ASSUME GlobalsInv, NEW p \in Proc, Rshutdown(p)
  PROVE  GlobalsInv'
<1>1. TypeOK /\ Settled(p) /\ \A q \in Proc : Settled(q)
  BY DEF GlobalsInv
<1>2. /\ \E er \in Operations : /\ error' = [error EXCEPT ![p] = er]
                                /\ error[p] # "none" => er = error[p]
      /\ on' \in [Group -> BOOLEAN] /\ work' \in [Group -> SUBSET Nat]
      /\ flag' \in [Proc -> BOOLEAN]
      /\ \A q \in Proc : q # p => flag'[q] = flag[q]
  BY <1>1, RshutdownEffect
<1>3. /\ phase[p] = "active" /\ phase' = [phase EXCEPT ![p] = "late"]
      /\ ready' = [ready EXCEPT ![p] = FALSE]
      /\ UNCHANGED <<pid, request, served, requestEnable, handle, handlePid, obj,
                     measured, holders, ghosts>>
  BY DEF Rshutdown
<1>4. TypeOK'
  BY <1>1, <1>2, <1>3 DEF TypeOK, ghosts
<1>5. \A q \in Proc : q # p => Same(q)
  BY <1>1, <1>2, <1>3 DEF TypeOK, Same, ghosts
<1>6. Settled(p)'
  BY <1>1, <1>2, <1>3 DEF TypeOK, Settled, Alive, InRequest, ghosts
<1> QED BY <1>1, <1>4, <1>5, <1>6, SettledSame DEF GlobalsInv

\* The end of a request.
LEMMA EndRequestGlobals ==
  ASSUME GlobalsInv, NEW p \in Proc, EndRequest(p)
  PROVE  GlobalsInv'
<1>1. TypeOK /\ Settled(p) /\ \A q \in Proc : Settled(q)
  BY DEF GlobalsInv
<1>2. TypeOK'
  BY <1>1 DEF TypeOK, EndRequest, ForgetRequest, groupVars
<1>3. \A q \in Proc : q # p => Same(q)
  BY <1>1 DEF TypeOK, Same, EndRequest, ForgetRequest
<1>4. Settled(p)'
  BY <1>1 DEF TypeOK, Settled, Alive, InRequest, EndRequest, ForgetRequest
<1> QED BY <1>1, <1>2, <1>3, <1>4, SettledSame DEF GlobalsInv

\* The end of a worker.
LEMMA ExitGlobals ==
  ASSUME GlobalsInv, NEW p \in Proc, Exit(p)
  PROVE  GlobalsInv'
<1>1. TypeOK /\ Settled(p) /\ \A q \in Proc : Settled(q)
  BY DEF GlobalsInv
<1>2. TypeOK'
  <2>1. /\ pid' \in [Proc -> Nat \ {0}]
        /\ phase' \in [Proc -> {"unborn", "idle", "active", "late", "dead"}]
        /\ request' \in [Proc -> Nat] /\ served' \in Nat
        /\ handlePid' \in [Proc -> Nat]
        /\ handle' \in [Proc -> Group \cup {None}] /\ obj' \in [Proc -> Group \cup {None}]
        /\ error' \in [Proc -> Operations]
    BY <1>1 DEF TypeOK, Exit, Operations
  <2>2. /\ requestEnable' \in [Proc -> BOOLEAN] /\ ready' \in [Proc -> BOOLEAN]
        /\ flag' \in [Proc -> BOOLEAN]
        /\ clean' \in [Proc -> BOOLEAN] /\ told' \in [Proc -> BOOLEAN]
        /\ touched' \in [Proc -> BOOLEAN] /\ worked' \in [Proc -> BOOLEAN]
    BY <1>1 DEF TypeOK, Exit, ForgetRequest
  <2>3. /\ on' \in [Group -> BOOLEAN] /\ work' \in [Group -> SUBSET Nat]
        /\ measured' \in [Group -> Proc] /\ holders' \in [Group -> SUBSET Proc]
    BY <1>1 DEF TypeOK, Exit
  <2> QED BY <2>1, <2>2, <2>3 DEF TypeOK
<1>3. \A q \in Proc : q # p => Same(q)
  BY <1>1 DEF TypeOK, Same, Exit, ForgetRequest
<1>4. Settled(p)'
  BY <1>1 DEF TypeOK, Settled, Alive, InRequest, Exit, ForgetRequest
<1> QED BY <1>1, <1>2, <1>3, <1>4, SettledSame DEF GlobalsInv

\* A new thread.
LEMMA ThreadStartGlobals ==
  ASSUME GlobalsInv, NEW p \in Proc, NEW c \in Proc, ThreadStart(p, c)
  PROVE  GlobalsInv'
<1>1. TypeOK /\ Settled(c) /\ \A q \in Proc : Settled(q)
  BY DEF GlobalsInv
<1>2. TypeOK'
  BY <1>1 DEF TypeOK, ThreadStart, globals, groupVars, ghosts
<1>3. \A q \in Proc : q # c => Same(q)
  BY <1>1 DEF TypeOK, Same, ThreadStart, globals, ghosts
<1>4. Settled(c)'
  BY <1>1 DEF TypeOK, Settled, Alive, InRequest, ThreadStart, globals, ghosts
<1> QED BY <1>1, <1>2, <1>3, <1>4, SettledSame DEF GlobalsInv

\* fork(), in a request too: the child's memory is the parent's.
LEMMA ForkGlobals ==
  ASSUME GlobalsInv, NEW p \in Proc, NEW c \in Proc, Fork(p, c)
  PROVE  GlobalsInv'
<1>1. TypeOK /\ Settled(p) /\ Settled(c) /\ \A q \in Proc : Settled(q)
  BY DEF GlobalsInv
<1>2. TypeOK'
  <2>1. /\ pid' \in [Proc -> Nat \ {0}]
        /\ phase' \in [Proc -> {"unborn", "idle", "active", "late", "dead"}]
        /\ request' \in [Proc -> Nat] /\ served' \in Nat
        /\ handlePid' \in [Proc -> Nat]
        /\ handle' \in [Proc -> Group \cup {None}] /\ obj' \in [Proc -> Group \cup {None}]
        /\ error' \in [Proc -> Operations]
    BY <1>1 DEF TypeOK, Fork
  <2>2. /\ requestEnable' \in [Proc -> BOOLEAN] /\ ready' \in [Proc -> BOOLEAN]
        /\ flag' \in [Proc -> BOOLEAN]
        /\ clean' \in [Proc -> BOOLEAN] /\ told' \in [Proc -> BOOLEAN]
        /\ touched' \in [Proc -> BOOLEAN] /\ worked' \in [Proc -> BOOLEAN]
    BY <1>1 DEF TypeOK, Fork
  <2>3. /\ on' \in [Group -> BOOLEAN] /\ work' \in [Group -> SUBSET Nat]
        /\ measured' \in [Group -> Proc] /\ holders' \in [Group -> SUBSET Proc]
    BY <1>1 DEF TypeOK, Fork
  <2> QED BY <2>1, <2>2, <2>3 DEF TypeOK
<1>3. \A q \in Proc : q # c => Same(q)
  BY <1>1 DEF TypeOK, Same, Fork
<1>4. Settled(c)'
  BY <1>1 DEF TypeOK, Settled, Alive, InRequest, Fork
<1> QED BY <1>1, <1>2, <1>3, <1>4, SettledSame DEF GlobalsInv

\* A worker executes.
LEMMA WorkGlobals ==
  ASSUME GlobalsInv, NEW p \in Proc, Work(p)
  PROVE  GlobalsInv'
<1>1. TypeOK /\ \A q \in Proc : Settled(q)
  BY DEF GlobalsInv
<1>2. TypeOK'
  <2>1. work' \in [Group -> SUBSET Nat]
    BY <1>1 DEF TypeOK, Work
  <2>2. worked' \in [Proc -> BOOLEAN]
    BY <1>1 DEF TypeOK, Work
  <2> QED BY <1>1, <2>1, <2>2 DEF TypeOK, Work, procVars, globals
<1>3. \A q \in Proc : Settled(q)'
  BY <1>1 DEF TypeOK, Settled, Alive, InRequest, Work, procVars, globals
<1> QED BY <1>2, <1>3 DEF GlobalsInv

\* request_handle(), and close() of what it returned.
LEMMA RequestHandleGlobals ==
  ASSUME GlobalsInv, NEW p \in Proc,
         RequestHandleThrows(p) \/ RequestHandleLends(p) \/ CloseBorrowed(p)
  PROVE  GlobalsInv'
<1>1. TypeOK /\ Settled(p) /\ \A q \in Proc : Settled(q)
  BY DEF GlobalsInv
<1>2. CASE RequestHandleThrows(p)
  <2>1. TypeOK'
    BY <1>1, <1>2 DEF TypeOK, RequestHandleThrows, procVars, groupVars, Operations
  <2>2. \A q \in Proc : q # p => Same(q)
    BY <1>1, <1>2 DEF TypeOK, Same, RequestHandleThrows, procVars
  <2>3. Settled(p)'
    BY <1>1, <1>2 DEF TypeOK, Settled, Alive, InRequest, RequestHandleThrows, procVars
  <2> QED BY <1>1, <2>1, <2>2, <2>3, SettledSame DEF GlobalsInv
<1>3. CASE RequestHandleLends(p)
  <2>1. TypeOK'
    BY <1>1, <1>3 DEF TypeOK, RequestHandleLends, procVars, groupVars, ghosts
  <2>2. \A q \in Proc : q # p => Same(q)
    BY <1>1, <1>3 DEF TypeOK, Same, RequestHandleLends, procVars, ghosts
  <2>3. Settled(p)'
    BY <1>1, <1>3 DEF TypeOK, Settled, Alive, InRequest, RequestHandleLends, procVars, ghosts
  <2> QED BY <1>1, <2>1, <2>2, <2>3, SettledSame DEF GlobalsInv
<1>4. CASE CloseBorrowed(p)
  <2>1. TypeOK'
    BY <1>1, <1>4 DEF TypeOK, CloseBorrowed, procVars, groupVars, ghosts
  <2>2. \A q \in Proc : q # p => Same(q)
    BY <1>1, <1>4 DEF TypeOK, Same, CloseBorrowed, procVars, ghosts
  <2>3. Settled(p)'
    BY <1>1, <1>4 DEF TypeOK, Settled, Alive, InRequest, CloseBorrowed, procVars, ghosts
  <2> QED BY <1>1, <2>1, <2>2, <2>3, SettledSame DEF GlobalsInv
<1> QED BY <1>2, <1>3, <1>4

\* The other methods of the borrowed object.
LEMMA UseGlobals ==
  ASSUME GlobalsInv, NEW p \in Proc, Use(p)
  PROVE  GlobalsInv'
<1>1. TypeOK /\ Settled(p) /\ \A q \in Proc : Settled(q)
  BY DEF GlobalsInv
<1>2. obj[p] \in Group /\ \E h \in HandleState : Method(p, h)
  BY <1>1, UseEffect
<1>3. PICK h \in HandleState : Method(p, h)
  BY <1>2
<1>4. /\ on' \in [Group -> BOOLEAN] /\ work' \in [Group -> SUBSET Nat]
      /\ flag' \in [Proc -> BOOLEAN] /\ \A q \in Proc : q # p => flag'[q] = flag[q]
  BY <1>1, <1>2, <1>3, SetStateRight DEF Method
<1>5. /\ UNCHANGED <<procVars, requestEnable, handle, handlePid, ready, error, obj,
                     measured, holders, clean, told, worked>>
      /\ touched' = [q \in Proc |->
           touched[q] \/ (handle[q] = obj[p] /\ (~h.on \/ h.work # work[obj[p]]))]
  BY <1>3 DEF Method
<1>6. touched' \in [Proc -> BOOLEAN]
  BY <1>1, <1>5 DEF TypeOK
<1>7. TypeOK'
  BY <1>1, <1>4, <1>5, <1>6 DEF TypeOK, procVars
<1>8. \A q \in Proc : Settled(q)'
  BY <1>1, <1>5 DEF Settled, Alive, InRequest, procVars
<1> QED BY <1>7, <1>8 DEF GlobalsInv

\* Every step keeps what is said of the globals.
LEMMA NextGlobals == GlobalsInv /\ [Next]_vars => GlobalsInv'
<1> SUFFICES ASSUME GlobalsInv, [Next]_vars PROVE GlobalsInv'
  OBVIOUS
<1>1. CASE UNCHANGED vars
  BY <1>1 DEF vars, procVars, globals, groupVars, ghosts, GlobalsInv, TypeOK, Settled, Alive, InRequest
<1>2. ASSUME NEW p \in Proc, Rinit(p) PROVE GlobalsInv'
  BY <1>2, RinitGlobals
<1>3. ASSUME NEW p \in Proc, Rshutdown(p) PROVE GlobalsInv'
  BY <1>3, RshutdownGlobals
<1>4. ASSUME NEW p \in Proc, EndRequest(p) PROVE GlobalsInv'
  BY <1>4, EndRequestGlobals
<1>5. ASSUME NEW p \in Proc, Exit(p) PROVE GlobalsInv'
  BY <1>5, ExitGlobals
<1>6. ASSUME NEW p \in Proc, NEW c \in Proc, ThreadStart(p, c) PROVE GlobalsInv'
  BY <1>6, ThreadStartGlobals
<1>7. ASSUME NEW p \in Proc, NEW c \in Proc, Fork(p, c) PROVE GlobalsInv'
  BY <1>7, ForkGlobals
<1>8. ASSUME NEW p \in Proc, Work(p) PROVE GlobalsInv'
  BY <1>8, WorkGlobals
<1>9. ASSUME NEW p \in Proc, RequestHandleThrows(p) \/ RequestHandleLends(p) \/ CloseBorrowed(p)
      PROVE  GlobalsInv'
  BY <1>9, RequestHandleGlobals
<1>10. ASSUME NEW p \in Proc, Use(p) PROVE GlobalsInv'
  BY <1>10, UseGlobals
<1> QED BY <1>1, <1>2, <1>3, <1>4, <1>5, <1>6, <1>7, <1>8, <1>9, <1>10 DEF Next

\* The invariant of the globals holds throughout.
THEOREM GlobalsInvariance == Spec => []GlobalsInv
  BY InitGlobals, NextGlobals, PTL DEF Spec

\* Every variable keeps its type.
THEOREM TypeCorrect == Spec => []TypeOK
<1>1. GlobalsInv => TypeOK
  BY DEF GlobalsInv
<1> QED BY <1>1, GlobalsInvariance, PTL

\* The object request_handle() returned never points to a handle the worker no longer
\* has: only the next RINIT, GSHUTDOWN or the end of the process close handles.
THEOREM BorrowedNotDanglingAlways == Spec => []BorrowedNotDangling
<1>1. GlobalsInv => BorrowedNotDangling
  BY DEF GlobalsInv, Settled, BorrowedNotDangling
<1> QED BY <1>1, GlobalsInvariance, PTL

\* A request whose handle RINIT could not prepare has an error to be thrown by
\* request_handle(), or has been thrown it.
THEOREM UnavailableExplainedAlways == Spec => []UnavailableExplained
<1>1. GlobalsInv => UnavailableExplained
  BY DEF GlobalsInv, Settled, UnavailableExplained
<1> QED BY <1>1, GlobalsInvariance, PTL

\* A RINIT in which nothing fails makes the handle available, whatever failed before.
THEOREM StartRecoversAlways == Spec => []StartRecovers
<1>1. GlobalsInv => StartRecovers
  BY DEF GlobalsInv, Settled, StartRecovers
<1> QED BY <1>1, GlobalsInvariance, PTL

\* A step that replaces or clears a pending error is one that may.
LEMMA StepKeepsError ==
  ASSUME GlobalsInv, Next, NEW p \in Proc, error[p] # "none", error'[p] # error[p]
  PROVE  \/ error'[p] = "none" /\ told'[p] /\ InRequest(p)
         \/ phase[p] = "idle" /\ Inherited(p)
         \/ phase'[p] = "dead"
<1>1. TypeOK /\ Settled(p) /\ error \in [Proc -> Operations] /\ told \in [Proc -> BOOLEAN]
      /\ phase \in [Proc -> {"unborn", "idle", "active", "late", "dead"}]
  BY DEF GlobalsInv, TypeOK
<1>2. PICK a \in Proc :
        \/ Rinit(a) \/ Rshutdown(a) \/ EndRequest(a) \/ Exit(a)
        \/ \E c \in Proc : ThreadStart(a, c) \/ Fork(a, c)
        \/ Work(a) \/ RequestHandleThrows(a) \/ RequestHandleLends(a)
        \/ Use(a) \/ CloseBorrowed(a)
  BY DEF Next
<1>3. CASE Rinit(a)
  <2>1. PICK e, rd, cl \in BOOLEAN, hd \in Group \cup {None}, er \in Operations :
          BeginRequest(a, e) /\ Started(a, e, hd, rd, er, cl)
    BY <1>1, <1>3, RinitEffect
  <2>2. a = p /\ error'[p] = er /\ phase[p] = "idle"
    BY <1>1, <2>1 DEF Started, BeginRequest
  <2>3. ~Inherited(p) => er = error[p]
    BY <2>1, <2>2 DEF Started, KeptError
  <2> QED BY <2>2, <2>3
<1>4. CASE Rshutdown(a)
  <2>1. PICK er \in Operations : error' = [error EXCEPT ![a] = er] /\ (error[a] # "none" => er = error[a])
    BY <1>1, <1>4, RshutdownEffect
  <2> QED BY <1>1, <2>1
<1>5. CASE Exit(a)
  BY <1>1, <1>5 DEF Exit
<1>6. ASSUME NEW c \in Proc, Fork(a, c) PROVE FALSE
  BY <1>1, <1>6 DEF Fork, Settled
<1>7. CASE RequestHandleThrows(a)
  BY <1>1, <1>7 DEF RequestHandleThrows
<1>8. CASE UNCHANGED error
  BY <1>8
<1>9. /\ EndRequest(a) \/ Work(a) \/ RequestHandleLends(a) \/ CloseBorrowed(a) => UNCHANGED error
      /\ \A c \in Proc : ThreadStart(a, c) => UNCHANGED error
  BY DEF EndRequest, ThreadStart, Work, RequestHandleLends, CloseBorrowed, globals
<1>10. Use(a) => UNCHANGED error
  BY DEF Use, Method
<1> QED BY <1>2, <1>3, <1>4, <1>5, <1>6, <1>7, <1>8, <1>9, <1>10

\* perfidious_request_handle_record_error() keeps the first error until request_handle()
\* throws it; besides, only the check for an inherited handle and GSHUTDOWN clear it.
THEOREM FirstErrorKeptAlways == Spec => FirstErrorKept
<1> DEFINE Kept == \A p \in Proc : (error[p] # "none" /\ error'[p] # error[p]) =>
                      \/ error'[p] = "none" /\ told'[p] /\ InRequest(p)
                      \/ phase[p] = "idle" /\ Inherited(p)
                      \/ phase'[p] = "dead"
<1>1. GlobalsInv /\ [Next]_vars => [Kept]_vars
  BY StepKeepsError
<1>2. Spec => [][Kept]_vars
  BY <1>1, GlobalsInvariance, PTL DEF Spec
<1> QED BY <1>2 DEF FirstErrorKept

-----------------------------------------------------------------------------
(* The event groups. *)

\* An id that was given to a process stays used: nothing is born twice.
LEMMA UsedKept ==
  ASSUME NEW n, Used(n), \A b \in Proc : phase[b] # "unborn" => phase'[b] # "unborn"
  PROVE  Used(n)'
  BY DEF Used

Fits(q) == KnownIds(q) /\ Holds(q) /\ Counted(q)

\* A worker whose memory, descriptors and own group did not change.
LEMMA FitsSame ==
  ASSUME NEW q \in Proc, Settled(q), Fits(q), Same(q),
         \A b \in Proc : phase[b] # "unborn" => phase'[b] # "unborn",
         \A g \in Group : q \in holders'[g] <=> q \in holders[g],
         Alive(q) /\ handle[q] # None /\ ~Inherited(q) =>
            /\ on'[handle[q]] = on[handle[q]] /\ work'[handle[q]] = work[handle[q]]
            /\ measured'[handle[q]] = measured[handle[q]]
  PROVE  Fits(q)'
<1>1. KnownIds(q)'
  BY UsedKept DEF Fits, KnownIds, Same
<1>2. (Alive(q)' <=> Alive(q)) /\ (InRequest(q)' <=> InRequest(q)) /\ (Inherited(q)' <=> Inherited(q))
  BY DEF Same, Alive, InRequest, Inherited
<1>3. Holds(q)'
  BY <1>2 DEF Fits, Holds, Same
<1>4. InRequest(q) => Alive(q) /\ ~Inherited(q)
  BY DEF Fits, Holds, InRequest, Alive
<1>5. Counted(q)'
  <2>1. ready[q] => InRequest(q) /\ handle[q] # None
    BY DEF Settled, InRequest
  <2>2. obj[q] # None => InRequest(q) /\ handle[q] # None
    BY DEF Settled
  <2> QED BY <1>2, <1>4, <2>1, <2>2 DEF Fits, Counted, Same
<1> QED BY <1>1, <1>3, <1>5 DEF Fits

\* Two workers that opened their handles themselves have different ones.
LEMMA OwnHandlesDiffer ==
  ASSUME NEW p \in Proc, NEW q \in Proc, p # q, Holds(p), Holds(q),
         Alive(p), ~Inherited(p), Alive(q), ~Inherited(q), handle[q] # None
  PROVE  handle[p] # handle[q]
  BY DEF Holds

\* A fresh server.
LEMMA InitGroups == Init => GroupsInv
<1> SUFFICES ASSUME Init PROVE GroupsInv
  OBVIOUS
<1>1. \A q \in Proc : KnownIds(q)
  BY ProcAssumption DEF Init, KnownIds, Used
<1>2. \A q \in Proc : Holds(q)
  BY ProcAssumption DEF Init, Holds, Alive, InRequest
<1>3. \A q \in Proc : Counted(q)
  BY DEF Init, Counted, InRequest
<1> QED BY <1>1, <1>2, <1>3 DEF GroupsInv

Inv == GlobalsInv /\ GroupsInv

\* RINIT closes an inherited handle, keeps its own or opens a new one: the group it ends
\* up with counts it, is shared with nobody, and is clear unless an error is pending.
LEMMA RinitGroups ==
  ASSUME Inv, NEW p \in Proc, Rinit(p)
  PROVE  GroupsInv'
<1>1. TypeOK /\ \A q \in Proc : Settled(q) /\ Fits(q)
  BY DEF Inv, GlobalsInv, GroupsInv, Fits
<1>2. PICK e, rd, cl \in BOOLEAN, hd \in Group \cup {None}, er \in Operations :
        BeginRequest(p, e) /\ Started(p, e, hd, rd, er, cl) /\ Acquired(p, e, hd)
  BY <1>1, RinitEffect
<1>3. \A q \in Proc : q # p => Same(q)
  BY <1>1, <1>2 DEF TypeOK, BeginRequest, Started, Same
<1>4. /\ phase[p] = "idle" /\ phase'[p] = "active" /\ pid' = pid /\ handlePid'[p] = pid[p]
      /\ requestEnable'[p] = e /\ obj'[p] = obj[p] /\ worked'[p] = FALSE
      /\ request' \in [Proc -> Nat]
  BY <1>1, <1>2 DEF TypeOK, BeginRequest
<1>5. handle'[p] = hd /\ ready'[p] = rd /\ error'[p] = er
  BY <1>1, <1>2 DEF TypeOK, Started
<1>6. \A b \in Proc : phase[b] # "unborn" => phase'[b] # "unborn"
  BY <1>3, <1>4 DEF Same
<1>7. /\ \A k \in Group : KeptHolders(p)[k] = IF Inherited(p) /\ k = handle[p]
                                              THEN holders[k] \ {p} ELSE holders[k]
      /\ KeptHandle(p) = IF Inherited(p) THEN None ELSE handle[p]
      /\ None \notin Group /\ Alive(p) /\ ~InRequest(p)
      /\ KeptHolders(p) \in [Group -> SUBSET Proc]
      /\ measured \in [Group -> Proc]
  BY <1>1, <1>4, KeptTyped, ProcAssumption DEF KeptHolders, KeptHandle, Alive, InRequest, TypeOK
<1>8. \A g \in Group : p \in holders[g] <=> handle[p] = g
  BY <1>1, <1>7 DEF Fits, Holds
<1>9. /\ \A q \in Proc : q # p => \A g \in Group : q \in holders'[g] <=> q \in holders[g]
      /\ \A g \in Group : p \in holders'[g] <=> hd = g
      /\ hd # None => measured'[hd] = p
      /\ \A k \in Group : k # hd => measured'[k] = measured[k]
      /\ hd # None => \A q \in Proc : q # p /\ Alive(q) /\ ~Inherited(q) /\ handle[q] = hd =>
            on'[hd] = on[hd] /\ work'[hd] = work[hd] /\ measured'[hd] = measured[hd]
  <2>1. CASE /\ hd = KeptHandle(p) /\ (~e \/ hd = None)
             /\ holders' = KeptHolders(p) /\ UNCHANGED <<measured, on, work>>
    BY <1>1, <1>7, <1>8, <2>1 DEF Fits, Holds
  <2>2. CASE /\ hd \in Group /\ KeptHandle(p) = None /\ KeptHolders(p)[hd] = {}
             /\ holders' = [KeptHolders(p) EXCEPT ![hd] = {p}]
             /\ measured' = [measured EXCEPT ![hd] = p]
    <3>1. \A q \in Proc : q # p => q \notin holders[hd]
      BY <1>7, <2>2
    <3>2. \A q \in Proc : q # p /\ Alive(q) => handle[q] # hd
      BY <1>1, <2>2, <3>1 DEF Fits, Holds
    <3>3. \A g \in Group : holders'[g] = IF g = hd THEN {p} ELSE KeptHolders(p)[g]
      BY <1>7, <2>2
    <3>4. \A g \in Group : p \in holders'[g] <=> hd = g
      BY <1>7, <1>8, <2>2, <3>3
    <3>5. \A q \in Proc : q # p => \A g \in Group : q \in holders'[g] <=> q \in holders[g]
      BY <1>7, <3>1, <3>3
    <3> QED BY <1>7, <2>2, <3>2, <3>4, <3>5
  <2>3. CASE hd = handle[p] /\ hd = KeptHandle(p) /\ UNCHANGED <<measured, holders>>
    <3>1. hd # None => ~Inherited(p) /\ measured[hd] = p
      BY <1>1, <1>7, <2>3 DEF Fits, Holds
    <3>2. hd # None => \A q \in Proc : q # p /\ Alive(q) /\ ~Inherited(q) => handle[q] # hd
      BY <1>1, <1>7, <2>3, <3>1 DEF Fits, Holds
    <3> QED BY <1>8, <2>3, <3>1, <3>2
  <2> QED BY <1>2, <2>1, <2>2, <2>3 DEF Acquired
<1>10. ASSUME NEW q \in Proc, q # p PROVE Fits(q)'
  <2>1. Alive(q) /\ handle[q] # None /\ ~Inherited(q) =>
            /\ on'[handle[q]] = on[handle[q]] /\ work'[handle[q]] = work[handle[q]]
            /\ measured'[handle[q]] = measured[handle[q]]
    <3>1. handle[q] # None => handle[q] \in Group
      BY <1>1 DEF TypeOK
    <3> QED BY <1>2, <1>9, <1>10, <3>1 DEF Started
  <2> QED BY <1>1, <1>3, <1>6, <1>9, <1>10, <2>1, FitsSame
<1>11. Fits(p)'
  <2>1. KnownIds(p)'
    <3>1. Used(pid[p])
      BY <1>1, <1>4 DEF Fits, KnownIds
    <3>2. Used(pid[p])'
      BY <1>4, <1>6, <3>1, UsedKept
    <3> QED BY <1>4, <3>2 DEF KnownIds
  <2>2. Holds(p)'
    BY <1>4, <1>5, <1>9 DEF Holds, Alive, InRequest, Inherited
  <2>3. Counted(p)'
    <3>1. obj'[p] = None
      BY <1>1, <1>4, <1>7 DEF Settled
    <3> QED BY <1>2, <1>4, <1>5, <3>1 DEF Counted, Started
  <2> QED BY <2>1, <2>2, <2>3 DEF Fits
<1> QED BY <1>10, <1>11 DEF GroupsInv, Fits

\* RSHUTDOWN touches the worker's own group only.
LEMMA RshutdownGroups ==
  ASSUME Inv, NEW p \in Proc, Rshutdown(p)
  PROVE  GroupsInv'
<1>1. TypeOK /\ \A q \in Proc : Settled(q) /\ Fits(q)
  BY DEF Inv, GlobalsInv, GroupsInv, Fits
<1>2. /\ phase[p] = "active" /\ phase' = [phase EXCEPT ![p] = "late"]
      /\ ready' = [ready EXCEPT ![p] = FALSE]
      /\ UNCHANGED <<pid, request, served, requestEnable, handle, handlePid, obj,
                     measured, holders, ghosts>>
  BY DEF Rshutdown
<1>3. /\ \E er \in Operations : /\ error' = [error EXCEPT ![p] = er]
                                /\ error[p] # "none" => er = error[p]
      /\ handle[p] # None => work'[handle[p]] = work[handle[p]] \/ work'[handle[p]] = {}
      /\ \A k \in Group : k # handle[p] => on'[k] = on[k] /\ work'[k] = work[k]
      /\ \A q \in Proc : q # p => flag'[q] = flag[q]
  BY <1>1, RshutdownEffect
<1>4. \A q \in Proc : q # p => Same(q)
  BY <1>1, <1>2, <1>3 DEF TypeOK, Same, ghosts
<1>5. \A b \in Proc : phase[b] # "unborn" => phase'[b] # "unborn"
  BY <1>1, <1>2 DEF TypeOK
<1>6. Alive(p) /\ InRequest(p) /\ ~Inherited(p)
  BY <1>1, <1>2 DEF Alive, InRequest, Fits, Holds
<1>7. ASSUME NEW q \in Proc, q # p PROVE Fits(q)'
  <2>1. Alive(q) /\ handle[q] # None /\ ~Inherited(q) => handle[q] \in Group /\ handle[q] # handle[p]
    BY <1>1, <1>6, <1>7, OwnHandlesDiffer DEF Fits, TypeOK
  <2> QED BY <1>1, <1>2, <1>3, <1>4, <1>5, <1>7, <2>1, FitsSame
<1>8. Fits(p)'
  <2>1. KnownIds(p)'
    BY <1>1, <1>2, <1>5, UsedKept DEF Fits, KnownIds, TypeOK
  <2>2. Holds(p)'
    BY <1>1, <1>2, <1>6 DEF Fits, Holds, Alive, InRequest, Inherited, TypeOK
  <2>3. error[p] # "none" => error'[p] = error[p]
    BY <1>1, <1>3 DEF TypeOK
  <2>4. /\ ready'[p] = FALSE /\ InRequest(p)' /\ obj'[p] = obj[p] /\ handle'[p] = handle[p]
        /\ request'[p] = request[p] /\ requestEnable'[p] = requestEnable[p] /\ told'[p] = told[p]
    BY <1>1, <1>2 DEF TypeOK, InRequest, ghosts
  <2>5. obj[p] # None => handle[p] # None
    BY <1>1 DEF Settled
  <2>6. Counted(p)'
    BY <1>1, <1>3, <1>6, <2>3, <2>4, <2>5 DEF Fits, Counted
  <2> QED BY <2>1, <2>2, <2>6 DEF Fits
<1> QED BY <1>7, <1>8 DEF GroupsInv, Fits

\* The end of a request leaves the groups alone.
LEMMA EndRequestGroups ==
  ASSUME Inv, NEW p \in Proc, EndRequest(p)
  PROVE  GroupsInv'
<1>1. TypeOK /\ \A q \in Proc : Settled(q) /\ Fits(q)
  BY DEF Inv, GlobalsInv, GroupsInv, Fits
<1>2. \A q \in Proc : q # p => Same(q)
  BY <1>1 DEF TypeOK, Same, EndRequest, ForgetRequest
<1>3. \A b \in Proc : phase[b] # "unborn" => phase'[b] # "unborn"
  BY <1>1 DEF TypeOK, EndRequest
<1>4. UNCHANGED groupVars
  BY DEF EndRequest
<1>5. \A q \in Proc : q # p => Fits(q)'
  BY <1>1, <1>2, <1>3, <1>4, FitsSame DEF groupVars
<1>6. /\ phase[p] = "late" /\ phase'[p] = "idle" /\ pid' = pid /\ handle' = handle
      /\ handlePid' = handlePid /\ ready' = ready /\ obj'[p] = None
  BY <1>1 DEF TypeOK, EndRequest
<1>7. KnownIds(p)'
  BY <1>1, <1>3, <1>6, UsedKept DEF Fits, KnownIds
<1>8. Holds(p)'
  BY <1>1, <1>4, <1>6 DEF Fits, Holds, groupVars, Alive, InRequest, Inherited
<1>9. Counted(p)'
  BY <1>1, <1>6 DEF Counted, InRequest, Settled
<1> QED BY <1>5, <1>7, <1>8, <1>9 DEF GroupsInv, Fits

\* The end of a worker takes its descriptors away and with them the groups only it had.
LEMMA ExitGroups ==
  ASSUME Inv, NEW p \in Proc, Exit(p)
  PROVE  GroupsInv'
<1>1. TypeOK /\ \A q \in Proc : Settled(q) /\ Fits(q)
  BY DEF Inv, GlobalsInv, GroupsInv, Fits
<1>2. \A q \in Proc : q # p => Same(q)
  BY <1>1 DEF TypeOK, Same, Exit, ForgetRequest
<1>3. \A b \in Proc : phase[b] # "unborn" => phase'[b] # "unborn"
  BY <1>1 DEF TypeOK, Exit
<1>4. /\ holders' = [g \in Group |-> holders[g] \ {p}]
      /\ on' = [g \in Group |-> on[g] /\ holders[g] # {p}]
      /\ work' = [g \in Group |-> IF holders[g] = {p} THEN {} ELSE work[g]]
      /\ measured' = measured
  BY DEF Exit
<1>5. ASSUME NEW q \in Proc, q # p PROVE Fits(q)'
  <2>1. Alive(q) /\ handle[q] # None => /\ handle[q] \in Group /\ q \in holders[handle[q]]
                                        /\ holders[handle[q]] # {p}
    BY <1>1, <1>5 DEF Fits, Holds, TypeOK
  <2>2. \A g \in Group : q \in holders'[g] <=> q \in holders[g]
    BY <1>4, <1>5
  <2>3. Alive(q) /\ handle[q] # None =>
            /\ on'[handle[q]] = on[handle[q]] /\ work'[handle[q]] = work[handle[q]]
            /\ measured'[handle[q]] = measured[handle[q]]
    BY <1>1, <1>4, <2>1 DEF TypeOK
  <2> QED BY <1>1, <1>2, <1>3, <1>5, <2>2, <2>3, FitsSame
<1>6. /\ phase'[p] = "dead" /\ pid' = pid /\ handlePid'[p] = 0
      /\ ready'[p] = FALSE /\ obj'[p] = None /\ Alive(p)
  BY <1>1 DEF TypeOK, Exit
<1>7. KnownIds(p)'
  BY <1>1, <1>3, <1>6, UsedKept DEF Fits, KnownIds, Alive
<1>8. Holds(p)'
  BY <1>4, <1>6 DEF Holds, Alive, InRequest
<1>9. Counted(p)'
  BY <1>6 DEF Counted, InRequest
<1> QED BY <1>5, <1>7, <1>8, <1>9 DEF GroupsInv, Fits

\* A new thread has the id of its process and no handle.
LEMMA ThreadStartGroups ==
  ASSUME Inv, NEW p \in Proc, NEW c \in Proc, ThreadStart(p, c)
  PROVE  GroupsInv'
<1>1. TypeOK /\ \A q \in Proc : Settled(q) /\ Fits(q)
  BY DEF Inv, GlobalsInv, GroupsInv, Fits
<1>2. \A q \in Proc : q # c => Same(q)
  BY <1>1 DEF TypeOK, Same, ThreadStart, globals, ghosts
<1>3. \A b \in Proc : phase[b] # "unborn" => phase'[b] # "unborn"
  BY <1>1 DEF TypeOK, ThreadStart
<1>4. UNCHANGED <<globals, groupVars>>
  BY DEF ThreadStart
<1>5. \A q \in Proc : q # c => Fits(q)'
  BY <1>1, <1>2, <1>3, <1>4, FitsSame DEF groupVars
<1>6. /\ phase[c] = "unborn" /\ phase'[c] = "idle" /\ pid'[c] = pid[p] /\ phase[p] # "unborn"
      /\ handle'[c] = None /\ handlePid'[c] = 0 /\ None \notin Group
  BY <1>1, <1>4, ProcAssumption DEF TypeOK, ThreadStart, Settled, Alive, globals
<1>7. KnownIds(c)'
  <2>1. Used(pid[p])
    BY <1>1, <1>6 DEF Fits, KnownIds
  <2>2. Used(pid[c])'
    BY <1>3, <1>6, <2>1, UsedKept
  <2> QED BY <1>6, <2>2 DEF KnownIds
<1>8. Holds(c)'
  BY <1>1, <1>4, <1>6 DEF Fits, Holds, groupVars, Alive, InRequest
<1>9. Counted(c)'
  BY <1>1, <1>4, <1>6 DEF Counted, InRequest, Settled, globals
<1> QED BY <1>5, <1>7, <1>8, <1>9 DEF GroupsInv, Fits

\* fork() between requests: the child shares the parent's group, if it has one, and is
\* told apart from whoever opened it by an id no process had before.
LEMMA ForkGroups ==
  ASSUME Inv, PidsDistinct, ~ForkInRequest, NEW p \in Proc, NEW c \in Proc, Fork(p, c)
  PROVE  GroupsInv'
<1>1. TypeOK /\ \A q \in Proc : Settled(q) /\ Fits(q)
  BY DEF Inv, GlobalsInv, GroupsInv, Fits
<1>2. \A q \in Proc : q # c => Same(q)
  BY <1>1 DEF TypeOK, Same, Fork
<1>3. /\ phase[p] = "idle" /\ \A q \in Proc \ {p} : Alive(q) => pid[q] # pid[p]
      /\ phase[c] = "unborn" /\ p # c /\ Alive(p) /\ ~Alive(c)
  BY DEF Fork, Alive
<1>4. /\ phase'[c] = "idle" /\ pid' = pid /\ handle'[c] = handle[p] /\ handlePid'[c] = handlePid[p]
      /\ ready'[c] = ready[p] /\ obj'[c] = obj[p]
      /\ UNCHANGED <<on, work, measured>>
      /\ holders' = [g \in Group |-> IF \E q \in holders[g] : pid[q] = pid[p]
                                     THEN holders[g] \cup {c} ELSE holders[g]]
  BY <1>1, <1>3 DEF TypeOK, Fork
<1>5. \A b \in Proc : phase[b] # "unborn" => phase'[b] # "unborn"
  BY <1>2, <1>4 DEF Same
<1>6. \A q \in Proc : q # c => Fits(q)'
  <2>1. \A q \in Proc : q # c => \A g \in Group : q \in holders'[g] <=> q \in holders[g]
    BY <1>4
  <2> QED BY <1>1, <1>2, <1>4, <1>5, <2>1, FitsSame
<1>7. pid[c] = PidOf[c] /\ ~Used(PidOf[c])
  BY <1>1, <1>3 DEF Fits, KnownIds, Used, PidsDistinct
<1>8. handlePid[p] # pid[c]
  <2>1. pid[c] # 0
    BY <1>1 DEF TypeOK
  <2> QED BY <1>1, <1>7, <2>1 DEF Fits, KnownIds
<1>9. KnownIds(c)'
  <2>1. Used(pid[c])'
    BY <1>4, <1>7 DEF Used
  <2>2. handlePid[p] # 0 => Used(handlePid[c])'
    BY <1>1, <1>4, <1>5, UsedKept DEF Fits, KnownIds
  <2> QED BY <1>4, <2>1, <2>2 DEF KnownIds
<1>10. Holds(c)'
  <2>1. Inherited(c)'
    BY <1>4, <1>8 DEF Inherited
  <2>2. \A g \in Group : c \in holders'[g] <=> handle[p] = g
    <3>1. ASSUME NEW g \in Group PROVE c \in holders'[g] <=> handle[p] = g
      <4>1. holders[g] \subseteq Proc /\ c \notin holders[g]
        BY <1>1, <1>3 DEF TypeOK, Fits, Holds
      <4>2. \A q \in holders[g] : Alive(q)
        BY <1>1, <4>1 DEF Fits, Holds
      <4>3. (\E q \in holders[g] : pid[q] = pid[p]) <=> p \in holders[g]
        BY <1>3, <4>1, <4>2
      <4>4. p \in holders[g] <=> handle[p] = g
        BY <1>1, <1>3 DEF Fits, Holds
      <4> QED BY <1>4, <4>1, <4>3, <4>4
    <3> QED BY <3>1
  <2> QED BY <1>4, <2>1, <2>2 DEF Holds, Alive, InRequest
<1>11. Counted(c)'
  <2>1. ~ready[p] /\ obj[p] = None
    BY <1>1, <1>3 DEF Settled, InRequest
  <2> QED BY <1>4, <2>1 DEF Counted, InRequest
<1> QED BY <1>6, <1>9, <1>10, <1>11 DEF GroupsInv, Fits

\* A worker's execution is counted by the groups that measure it.
LEMMA WorkGroups ==
  ASSUME Inv, NEW p \in Proc, Work(p)
  PROVE  GroupsInv'
<1>1. TypeOK /\ \A q \in Proc : Settled(q) /\ Fits(q)
  BY DEF Inv, GlobalsInv, GroupsInv, Fits
<1>2. UNCHANGED <<procVars, globals, on, measured, holders, clean, told, touched>>
  BY DEF Work
<1>3. work' = [g \in Group |-> IF measured[g] = p /\ on[g] /\ holders[g] # {}
                               THEN work[g] \cup {request[p]} ELSE work[g]]
  BY DEF Work
<1>4. \A q \in Proc : q # p => Same(q)
  BY <1>1, <1>2 DEF TypeOK, Same, Work, procVars, globals
<1>5. ASSUME NEW q \in Proc, q # p PROVE Fits(q)'
  <2>1. Alive(q) /\ handle[q] # None /\ ~Inherited(q) =>
           handle[q] \in Group /\ measured[handle[q]] = q
    BY <1>1 DEF Fits, Holds, TypeOK
  <2>2. Alive(q) /\ handle[q] # None /\ ~Inherited(q) => work'[handle[q]] = work[handle[q]]
    BY <1>3, <1>5, <2>1
  <2> QED BY <1>1, <1>2, <1>4, <1>5, <2>2, FitsSame DEF procVars, globals
<1>6. KnownIds(p)'
  BY <1>1, <1>2, UsedKept DEF Fits, KnownIds, procVars, globals
<1>7. Holds(p)'
  BY <1>1, <1>2 DEF Fits, Holds, procVars, globals, Alive, InRequest, Inherited
<1>8. Counted(p)'
  <2>1. /\ phase' = phase /\ request' = request /\ requestEnable' = requestEnable
        /\ handle' = handle /\ ready' = ready /\ error' = error /\ obj' = obj
        /\ told' = told /\ touched' = touched /\ on' = on
    BY <1>2 DEF procVars, globals
  <2>2. handle[p] # None => handle[p] \in Group /\ work[handle[p]] \in SUBSET Nat
    BY <1>1 DEF TypeOK
  <2>3. handle[p] # None => /\ work[handle[p]] \subseteq work'[handle[p]]
                            /\ work'[handle[p]] \subseteq work[handle[p]] \cup {request[p]}
    BY <1>3, <2>2
  <2>4. ready[p] => phase[p] = "active" /\ handle[p] # None
    BY <1>1 DEF Settled
  <2>5. obj[p] # None => handle[p] # None
    BY <1>1 DEF Settled
  <2>6. ready[p] /\ ~touched[p] => on[handle[p]] /\ request[p] \in work'[handle[p]]
    <3>1. ready[p] => measured[handle[p]] = p /\ p \in holders[handle[p]]
      BY <1>1, <2>2, <2>4 DEF Fits, Holds, Alive, InRequest
    <3>2. ready[p] /\ ~touched[p] => on[handle[p]]
      BY <1>1 DEF Fits, Counted
    <3> QED BY <1>3, <2>2, <2>4, <3>1, <3>2
  <2>7. /\ ready[p] \/ obj[p] # None => work[handle[p]] \subseteq {request[p]}
        /\ InRequest(p) /\ requestEnable[p] /\ handle[p] # None =>
             work[handle[p]] \subseteq {request[p]} \/ error[p] # "none" \/ told[p]
    BY <1>1 DEF Fits, Counted
  <2> QED BY <2>1, <2>3, <2>4, <2>5, <2>6, <2>7 DEF Counted, InRequest
<1> QED BY <1>5, <1>6, <1>7, <1>8 DEF GroupsInv, Fits

\* request_handle() and close() of what it returned leave the groups alone; what is lent
\* is ready, hence clear of other requests.
LEMMA RequestHandleGroups ==
  ASSUME Inv, NEW p \in Proc,
         RequestHandleThrows(p) \/ RequestHandleLends(p) \/ CloseBorrowed(p)
  PROVE  GroupsInv'
<1>1. TypeOK /\ \A q \in Proc : Settled(q) /\ Fits(q)
  BY DEF Inv, GlobalsInv, GroupsInv, Fits
<1>2. UNCHANGED <<procVars, requestEnable, handle, handlePid, ready, flag, groupVars, clean, touched, worked>>
  BY DEF RequestHandleThrows, RequestHandleLends, CloseBorrowed, ghosts
<1>3. \A q \in Proc : q # p => Same(q)
  BY <1>1, <1>2 DEF TypeOK, Same, procVars, RequestHandleThrows, RequestHandleLends, CloseBorrowed, ghosts
<1>4. \A q \in Proc : q # p => Fits(q)'
  BY <1>1, <1>2, <1>3, FitsSame DEF groupVars, procVars
<1>5. KnownIds(p)'
  BY <1>1, <1>2, UsedKept DEF Fits, KnownIds, procVars
<1>6. Holds(p)'
  BY <1>1, <1>2 DEF Fits, Holds, procVars, groupVars, Alive, InRequest, Inherited
<1>7. Counted(p)'
  <2>1. CASE RequestHandleThrows(p)
    BY <1>1, <1>2, <2>1 DEF RequestHandleThrows, TypeOK, Fits, Counted, procVars, groupVars, InRequest
  <2>2. CASE RequestHandleLends(p)
    BY <1>1, <1>2, <2>2 DEF RequestHandleLends, Fits, Counted, procVars, groupVars, ghosts, InRequest
  <2>3. CASE CloseBorrowed(p)
    BY <1>1, <1>2, <2>3 DEF CloseBorrowed, TypeOK, Fits, Counted, procVars, groupVars, ghosts, InRequest
  <2> QED BY <2>1, <2>2, <2>3
<1> QED BY <1>4, <1>5, <1>6, <1>7 DEF GroupsInv, Fits

\* The methods of a borrowed object reach the worker's own group only.
LEMMA UseGroups ==
  ASSUME Inv, NEW p \in Proc, Use(p)
  PROVE  GroupsInv'
<1>1. TypeOK /\ \A q \in Proc : Settled(q) /\ Fits(q)
  BY DEF Inv, GlobalsInv, GroupsInv, Fits
<1>2. /\ obj[p] \in Group /\ InRequest(p)
      /\ \E h \in HandleState : Method(p, h) /\ (h.work = work[obj[p]] \/ h.work = {})
  <2>1. InRequest(p)
    BY DEF Use
  <2> QED BY <1>1, <2>1, UseEffect
<1>3. PICK h \in HandleState : Method(p, h) /\ (h.work = work[obj[p]] \/ h.work = {})
  BY <1>2
<1>4. obj[p] = handle[p] /\ handle[p] # None /\ Alive(p) /\ ~Inherited(p)
  BY <1>1, <1>2, ProcAssumption DEF Settled, Fits, Holds, Alive, InRequest
<1>5. /\ on'[handle[p]] = h.on /\ work'[handle[p]] = h.work
      /\ \A k \in Group : k # handle[p] => on'[k] = on[k] /\ work'[k] = work[k]
      /\ \A q \in Proc : q # p => flag'[q] = flag[q]
  BY <1>1, <1>2, <1>3, <1>4, SetStateRight DEF Method
<1>6. /\ UNCHANGED <<procVars, requestEnable, handle, handlePid, ready, error, obj,
                     measured, holders, clean, told, worked>>
      /\ touched' = [q \in Proc |->
           touched[q] \/ (handle[q] = obj[p] /\ (~h.on \/ h.work # work[obj[p]]))]
  BY <1>3 DEF Method
<1>7. \A q \in Proc : q # p => Same(q)
  BY <1>1, <1>5, <1>6 DEF TypeOK, Same, procVars
<1>8. ASSUME NEW q \in Proc, q # p PROVE Fits(q)'
  <2>1. Alive(q) /\ handle[q] # None /\ ~Inherited(q) => handle[q] \in Group /\ handle[q] # handle[p]
    BY <1>1, <1>4, <1>8, OwnHandlesDiffer DEF Fits, TypeOK
  <2> QED BY <1>1, <1>5, <1>6, <1>7, <1>8, <2>1, FitsSame DEF procVars
<1>9. KnownIds(p)'
  BY <1>1, <1>6, UsedKept DEF Fits, KnownIds, procVars
<1>10. Holds(p)'
  BY <1>1, <1>6 DEF Fits, Holds, procVars, Alive, InRequest, Inherited
<1>11. Counted(p)'
  <2>1. ~touched'[p] => ~touched[p] /\ h.on /\ h.work = work[handle[p]]
    BY <1>1, <1>4, <1>6 DEF TypeOK
  <2>2. work'[handle[p]] \subseteq work[handle[p]]
    BY <1>3, <1>4, <1>5
  <2> QED BY <1>1, <1>4, <1>5, <1>6, <2>1, <2>2 DEF Fits, Counted, procVars, InRequest
<1> QED BY <1>8, <1>9, <1>10, <1>11 DEF GroupsInv, Fits

\* Every step keeps what is said of the groups.
LEMMA NextGroups ==
  ASSUME PidsDistinct, ~ForkInRequest, Inv, [Next]_vars
  PROVE  GroupsInv'
<1>1. CASE UNCHANGED vars
  <2>1. \A q \in Proc : Settled(q) /\ Fits(q)
    BY DEF Inv, GlobalsInv, GroupsInv, Fits
  <2>2. \A q \in Proc : Same(q)
    BY <1>1 DEF vars, procVars, globals, ghosts, Same
  <2>3. UNCHANGED <<phase, holders, on, work, measured>>
    BY <1>1 DEF vars, procVars, groupVars
  <2>4. \A q \in Proc : Fits(q)'
    BY <2>1, <2>2, <2>3, FitsSame
  <2> QED BY <2>4 DEF GroupsInv, Fits
<1>2. ASSUME NEW p \in Proc, Rinit(p) PROVE GroupsInv'
  BY <1>2, RinitGroups
<1>3. ASSUME NEW p \in Proc, Rshutdown(p) PROVE GroupsInv'
  BY <1>3, RshutdownGroups
<1>4. ASSUME NEW p \in Proc, EndRequest(p) PROVE GroupsInv'
  BY <1>4, EndRequestGroups
<1>5. ASSUME NEW p \in Proc, Exit(p) PROVE GroupsInv'
  BY <1>5, ExitGroups
<1>6. ASSUME NEW p \in Proc, NEW c \in Proc, ThreadStart(p, c) PROVE GroupsInv'
  BY <1>6, ThreadStartGroups
<1>7. ASSUME NEW p \in Proc, NEW c \in Proc, Fork(p, c) PROVE GroupsInv'
  BY <1>7, ForkGroups
<1>8. ASSUME NEW p \in Proc, Work(p) PROVE GroupsInv'
  BY <1>8, WorkGroups
<1>9. ASSUME NEW p \in Proc, RequestHandleThrows(p) \/ RequestHandleLends(p) \/ CloseBorrowed(p)
      PROVE  GroupsInv'
  BY <1>9, RequestHandleGroups
<1>10. ASSUME NEW p \in Proc, Use(p) PROVE GroupsInv'
  BY <1>10, UseGroups
<1> QED BY <1>1, <1>2, <1>3, <1>4, <1>5, <1>6, <1>7, <1>8, <1>9, <1>10 DEF Next

\* Both invariants hold throughout where ids are not used again and requests do not fork.
THEOREM Invariance ==
  ASSUME PidsDistinct, ~ForkInRequest
  PROVE  Spec => []Inv
<1>1. Init => Inv
  BY InitGlobals, InitGroups DEF Inv
<1>2. Inv /\ [Next]_vars => Inv'
  BY NextGlobals, NextGroups DEF Inv
<1> QED BY <1>1, <1>2, PTL DEF Spec

\* What a request reads through request_handle() is its own work alone: an inherited
\* handle is closed and a handle whose reset failed is not lent.
THEOREM RequestIsolationAlways ==
  ASSUME PidsDistinct, ~ForkInRequest
  PROVE  Spec => []RequestIsolation
<1>1. Inv => RequestIsolation
  BY DEF Inv, GroupsInv, Counted, RequestIsolation
<1> QED BY <1>1, Invariance, PTL

\* The handle RINIT made ready counts the worker that lends it.
THEOREM OwnGroupAlways ==
  ASSUME PidsDistinct, ~ForkInRequest
  PROVE  Spec => []OwnGroup
<1>1. Inv => OwnGroup
  BY DEF Inv, GlobalsInv, Settled, GroupsInv, Holds, Alive, InRequest, OwnGroup
<1> QED BY <1>1, Invariance, PTL

\* A handle that is ready for the worker that opened it runs and contains the request's
\* work, unless user code stopped or zeroed it: no other worker's start, end or failure
\* takes it away.
THEOREM RequestMeasuredAlways ==
  ASSUME PidsDistinct, ~ForkInRequest
  PROVE  Spec => []RequestMeasured
<1>1. Inv => RequestMeasured
  BY DEF Inv, GroupsInv, Counted, RequestMeasured
<1> QED BY <1>1, Invariance, PTL

\* A worker's descriptors are those of its handle, and none of them is inherited once
\* RINIT has run, with counting enabled or not.
THEOREM DescriptorsOwnedAlways ==
  ASSUME PidsDistinct, ~ForkInRequest
  PROVE  Spec => []DescriptorsOwned
<1>1. Inv => DescriptorsOwned
  <2> SUFFICES ASSUME Inv, NEW p \in Proc, NEW g \in Group
               PROVE  /\ p \in holders[g] <=> (Alive(p) /\ handle[p] = g)
                      /\ p \in holders[g] /\ InRequest(p) => measured[g] = p
    BY DEF DescriptorsOwned
  <2>1. Holds(p) /\ g # None
    BY ProcAssumption DEF Inv, GroupsInv
  <2> QED BY <2>1 DEF Holds
<1> QED BY <1>1, Invariance, PTL

\* phpinfo() shows foreign counts only to a request that is told of the failure behind them.
THEOREM InfoExplainedAlways ==
  ASSUME PidsDistinct, ~ForkInRequest
  PROVE  Spec => []InfoExplained
<1>1. Inv => InfoExplained
  BY DEF Inv, GroupsInv, Counted, InfoExplained, InfoRows
<1> QED BY <1>1, Invariance, PTL

\* What a start or an end leaves of the groups that count others.
LEMMA StepSparesOthers ==
  ASSUME Inv, Next, NEW p \in Proc, phase[p] # phase'[p], NEW g \in Group,
         measured[g] # p, holders[g] \ {p} # {}
  PROVE  on'[g] = on[g] /\ work'[g] = work[g]
<1>1. TypeOK /\ \A q \in Proc : Settled(q) /\ Fits(q)
  BY DEF Inv, GlobalsInv, GroupsInv, Fits
<1>2. PICK a \in Proc :
        \/ Rinit(a) \/ Rshutdown(a) \/ EndRequest(a) \/ Exit(a)
        \/ \E c \in Proc : ThreadStart(a, c) \/ Fork(a, c)
        \/ Work(a) \/ RequestHandleThrows(a) \/ RequestHandleLends(a)
        \/ Use(a) \/ CloseBorrowed(a)
  BY DEF Next
<1>3. CASE Rinit(a)
  <2>1. PICK e, rd, cl \in BOOLEAN, hd \in Group \cup {None}, er \in Operations :
          BeginRequest(a, e) /\ Started(a, e, hd, rd, er, cl) /\ Acquired(a, e, hd)
    BY <1>1, <1>3, RinitEffect
  <2>2. a = p /\ Alive(p)
    BY <1>1, <2>1 DEF BeginRequest, TypeOK, Alive
  <2>3. CASE UNCHANGED <<measured, on, work>>
    BY <2>3
  <2>4. CASE KeptHolders(p)[hd] = {} /\ hd \in Group
    <3>1. holders[hd] \ {p} = {}
      BY <2>4 DEF KeptHolders
    <3> QED BY <2>1, <2>2, <3>1 DEF Started
  <2>5. CASE hd = handle[p] /\ hd = KeptHandle(p)
    <3>1. hd # None => measured[hd] = p
      BY <1>1, <2>2, <2>5 DEF Fits, Holds, KeptHandle
    <3>2. hd # g
      BY <3>1, ProcAssumption
    <3> QED BY <2>1, <2>2, <3>2 DEF Started
  <2> QED BY <2>1, <2>2, <2>3, <2>4, <2>5 DEF Acquired
<1>4. CASE Rshutdown(a)
  <2>1. a = p /\ Alive(p) /\ InRequest(p)
    BY <1>1, <1>4 DEF Rshutdown, TypeOK, Alive, InRequest
  <2>2. handle[p] # g
    BY <1>1, <2>1, ProcAssumption DEF Fits, Holds
  <2>3. \A k \in Group : k # handle[a] => on'[k] = on[k] /\ work'[k] = work[k]
    BY <1>1, <1>4, RshutdownEffect
  <2> QED BY <2>1, <2>2, <2>3
<1>5. CASE Exit(a)
  <2>1. a = p
    BY <1>1, <1>5 DEF Exit, TypeOK
  <2>2. holders[g] # {p}
    OBVIOUS
  <2> QED BY <1>1, <1>5, <2>1, <2>2 DEF Exit, TypeOK
<1>6. ~(Work(a) \/ RequestHandleThrows(a) \/ RequestHandleLends(a) \/ Use(a) \/ CloseBorrowed(a))
  BY DEF Work, RequestHandleThrows, RequestHandleLends, Use, Method, CloseBorrowed, procVars
<1>7. /\ EndRequest(a) => UNCHANGED <<on, work>>
      /\ \A c \in Proc : ThreadStart(a, c) \/ Fork(a, c) => UNCHANGED <<on, work>>
  BY DEF EndRequest, ThreadStart, Fork, groupVars
<1> QED BY <1>2, <1>3, <1>4, <1>5, <1>6, <1>7

\* Closing inherited descriptors, in RINIT or at the end of a worker, neither stops nor
\* clears the group of the worker they came from.
THEOREM LifecycleSparesOthersAlways ==
  ASSUME PidsDistinct, ~ForkInRequest
  PROVE  Spec => LifecycleSparesOthers
<1> DEFINE Spares == \A p \in Proc : phase[p] # phase'[p] =>
                        \A g \in Group : (measured[g] # p /\ holders[g] \ {p} # {}) =>
                                            on'[g] = on[g] /\ work'[g] = work[g]
<1>1. Inv /\ [Next]_vars => [Spares]_vars
  BY StepSparesOthers
<1>2. Spec => [][Spares]_vars
  BY <1>1, Invariance, PTL DEF Spec
<1> QED BY <1>2 DEF LifecycleSparesOthers
=============================================================================
