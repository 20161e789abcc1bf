---------------------------- MODULE RequestHandle ----------------------------
(***************************************************************************)
(* The automatic per-request handle (src/src/linux/platform.c and          *)
(* request_handle() in src/src/functions.c): PHP workers that serve        *)
(* requests one after the other, each with its own copy of the module      *)
(* globals, over perf event groups that fork() makes them share.  A worker *)
(* is a process, or a thread of one in a thread-safe (ZTS) build.          *)
(*                                                                         *)
(* A handle's system calls are taken together here (PerfHandle has them    *)
(* one by one); which of them fail is chosen.  A count is abstracted to    *)
(* the set of requests whose work it contains.                             *)
(***************************************************************************)
EXTENDS Naturals, FiniteSets

CONSTANTS Proc,           \* workers, over the whole life of the server
          Master,         \* the one that starts the server
          PidOf,          \* the id the kernel gives a worker that is a process
          Group,          \* kernel event groups
          MaxRequests,    \* bound on the requests served altogether
          ForkInRequest,  \* user code may call pcntl_fork()
          None

ASSUME ProcAssumption ==
  /\ Master \in Proc
  /\ PidOf \in [Proc -> Nat \ {0}]
  /\ ForkInRequest \in BOOLEAN
  /\ MaxRequests \in Nat
  /\ None \notin Group

VARIABLES
  \* the workers
  pid,        \* getpid()
  phase,      \* unborn, idle (between requests), active, late (after RSHUTDOWN), dead
  request,    \* number of the request being served, 0 between requests
  served,     \* requests started so far
  \* their module globals (zend_perfidious_globals)
  requestEnable, handle, handlePid, ready, error,
  flag,       \* the `enabled` field of the process's copy of the handle
  obj,        \* the handle the user's borrowed Perfidious\Handle points to
  \* the kernel's event groups
  on, work,
  measured,   \* the process whose execution the group counts
  holders,    \* the processes with descriptors of it; none: the group is gone
  \* observed, not in the code
  clean,      \* no system call failed while this request started
  told,       \* request_handle() reported an error in this request
  touched,    \* user code stopped or zeroed the handle in this request
  worked      \* the request has done work

procVars   == <<pid, phase, request, served>>
globals    == <<requestEnable, handle, handlePid, ready, error, flag, obj>>
groupVars  == <<on, work, measured, holders>>
ghosts     == <<clean, told, touched, worked>>
vars       == <<procVars, globals, groupVars, ghosts>>

Alive(p) == phase[p] \in {"idle", "active", "late"}

Init ==
  /\ pid = PidOf
  /\ phase = [p \in Proc |-> IF p = Master THEN "idle" ELSE "unborn"]
  /\ request = [p \in Proc |-> 0]
  /\ served = 0
  /\ requestEnable = [p \in Proc |-> FALSE]
  /\ handle = [p \in Proc |-> None]
  /\ handlePid = [p \in Proc |-> 0]
  /\ ready = [p \in Proc |-> FALSE]
  /\ error = [p \in Proc |-> "none"]
  /\ flag = [p \in Proc |-> FALSE]
  /\ obj = [p \in Proc |-> None]
  /\ on = [g \in Group |-> FALSE]
  /\ work = [g \in Group |-> {}]
  /\ measured = [g \in Group |-> Master]
  /\ holders = [g \in Group |-> {}]
  /\ clean = [p \in Proc |-> TRUE]
  /\ told = [p \in Proc |-> FALSE]
  /\ touched = [p \in Proc |-> FALSE]
  /\ worked = [p \in Proc |-> FALSE]

-----------------------------------------------------------------------------
(* Operations on a handle, as functions of its state h = [on, flag, work]   *)
(* and of the set f of system calls that fail.                              *)

Faults == {"malloc", "disable", "clear", "resume"}

SetEnabled(h, e, fails) == IF fails THEN h ELSE [h EXCEPT !.on = e, !.flag = e]

\* perfidious_handle_try_reset(): stop if enabled, read and clear, start again.
ResetFails(h, f) ==
  \/ "malloc" \in f
  \/ "clear" \in f
  \/ h.flag /\ f \cap {"disable", "resume"} # {}

TryReset(h, f) ==
  LET stopped == IF h.flag THEN SetEnabled(h, FALSE, FALSE) ELSE h
      cleared == IF "clear" \in f THEN stopped ELSE [stopped EXCEPT !.work = {}]
  IN  IF "malloc" \in f \/ (h.flag /\ "disable" \in f) THEN h
      ELSE IF h.flag THEN SetEnabled(cleared, TRUE, "resume" \in f) ELSE cleared

\* Every way a reset can end.
Resets(h) == {[state |-> TryReset(h, f), fails |-> ResetFails(h, f)] : f \in SUBSET Faults}

\* Handle::read(): a failed disable does not stop it; a failed resume, or a
\* request unwound while the result is built, leaves the handle stopped.
ReadSide(h, f) ==
  LET stopped == SetEnabled(h, FALSE, "disable" \in f)
  IN  IF h.flag THEN SetEnabled(stopped, TRUE, "resume" \in f) ELSE h

State(p, g) == [on |-> on[g], flag |-> flag[p], work |-> work[g]]

SetState(p, g, h) ==
  /\ on' = [on EXCEPT ![g] = h.on]
  /\ work' = [work EXCEPT ![g] = h.work]
  /\ flag' = [flag EXCEPT ![p] = h.flag]

\* Mutants of RecordError: a failed reset is not worth reporting; the last error wins.
RecordErrorUnlessReset(pending, operation, fails) ==
  IF fails /\ pending = "none" /\ operation # "reset" THEN operation ELSE pending
RecordErrorLast(pending, operation, fails) == IF fails THEN operation ELSE pending

\* perfidious_request_handle_record_error(): the first pending error wins.
RecordError(pending, operation, fails) ==
  IF fails /\ pending = "none" THEN operation ELSE pending

-----------------------------------------------------------------------------
(* PHP_RINIT_FUNCTION(perfidious_platform).                                 *)

\* Mutant of Inherited: only a process that never opened a handle is told apart.
InheritedFirst(p) == handlePid[p] = 0

\* Another process opened the handle this process finds in its globals.
Inherited(p) == handlePid[p] # pid[p]

\* What is left of the handle, its descriptors and the pending error once an
\* inherited handle is closed.
KeptHandle(p)  == IF Inherited(p) THEN None ELSE handle[p]
KeptError(p)   == IF Inherited(p) THEN "none" ELSE error[p]
KeptHolders(p) == [g \in Group |-> IF Inherited(p) /\ g = handle[p]
                                   THEN holders[g] \ {p} ELSE holders[g]]

BeginRequest(p, e) ==
  /\ phase[p] = "idle" /\ served < MaxRequests
  /\ served' = served + 1
  /\ phase' = [phase EXCEPT ![p] = "active"]
  /\ request' = [request EXCEPT ![p] = served + 1]
  /\ requestEnable' = [requestEnable EXCEPT ![p] = e]
  /\ handlePid' = [handlePid EXCEPT ![p] = pid[p]]
  /\ told' = [told EXCEPT ![p] = FALSE]
  /\ touched' = [touched EXCEPT ![p] = FALSE]
  /\ worked' = [worked EXCEPT ![p] = FALSE]
  /\ UNCHANGED <<pid, obj>>

\* Mutants of RinitDisabled: it returns before the inherited handle is closed; it
\* stops the inherited group before closing it.
RinitDisabledEarly(p) ==
  /\ BeginRequest(p, FALSE)
  /\ ready' = [ready EXCEPT ![p] = FALSE]
  /\ clean' = [clean EXCEPT ![p] = TRUE]
  /\ UNCHANGED <<handle, error, holders, flag, on, work, measured>>

RinitDisabledStops(p) ==
  /\ BeginRequest(p, FALSE)
  /\ handle' = [handle EXCEPT ![p] = KeptHandle(p)]
  /\ error' = [error EXCEPT ![p] = KeptError(p)]
  /\ ready' = [ready EXCEPT ![p] = FALSE]
  /\ holders' = KeptHolders(p)
  /\ clean' = [clean EXCEPT ![p] = TRUE]
  /\ on' = [g \in Group |-> on[g] /\ ~(Inherited(p) /\ g = handle[p])]
  /\ UNCHANGED <<flag, work, measured>>

RinitDisabled(p) ==
  /\ BeginRequest(p, FALSE)
  /\ handle' = [handle EXCEPT ![p] = KeptHandle(p)]
  /\ error' = [error EXCEPT ![p] = KeptError(p)]
  /\ ready' = [ready EXCEPT ![p] = FALSE]
  /\ holders' = KeptHolders(p)
  /\ clean' = [clean EXCEPT ![p] = TRUE]
  /\ UNCHANGED <<flag, on, work, measured>>

\* Mutant of RinitOpenFails: the failure is not recorded.
RinitOpenFailsSilent(p) ==
  /\ BeginRequest(p, TRUE)
  /\ KeptHandle(p) = None
  /\ handle' = [handle EXCEPT ![p] = None]
  /\ error' = [error EXCEPT ![p] = KeptError(p)]
  /\ ready' = [ready EXCEPT ![p] = FALSE]
  /\ holders' = KeptHolders(p)
  /\ clean' = [clean EXCEPT ![p] = FALSE]
  /\ UNCHANGED <<flag, on, work, measured>>

RinitOpenFails(p) ==
  /\ BeginRequest(p, TRUE)
  /\ KeptHandle(p) = None
  /\ handle' = [handle EXCEPT ![p] = None]
  /\ error' = [error EXCEPT ![p] = RecordError(KeptError(p), "open", TRUE)]
  /\ ready' = [ready EXCEPT ![p] = FALSE]
  /\ holders' = KeptHolders(p)
  /\ clean' = [clean EXCEPT ![p] = FALSE]
  /\ UNCHANGED <<flag, on, work, measured>>

\* Mutants of Prepare: a failed reset is recorded and otherwise ignored; a failed
\* enable is; the handle is ready only when no older error is pending.
PrepareDespiteReset(p, g, r, enableFails) ==
  /\ SetState(p, g, SetEnabled(r.state, TRUE, enableFails))
  /\ error' = [error EXCEPT ![p] =
                 IF r.fails THEN RecordError(KeptError(p), "reset", TRUE)
                            ELSE RecordError(KeptError(p), "enable", enableFails)]
  /\ ready' = [ready EXCEPT ![p] = ~enableFails]
  /\ clean' = [clean EXCEPT ![p] = ~r.fails /\ ~enableFails]

PrepareDespiteEnable(p, g, r, enableFails) ==
  /\ SetState(p, g, IF r.fails THEN r.state ELSE SetEnabled(r.state, TRUE, enableFails))
  /\ error' = [error EXCEPT ![p] =
                 IF r.fails THEN RecordError(KeptError(p), "reset", TRUE)
                            ELSE RecordError(KeptError(p), "enable", enableFails)]
  /\ ready' = [ready EXCEPT ![p] = ~r.fails]
  /\ clean' = [clean EXCEPT ![p] = ~r.fails /\ ~enableFails]

PrepareUnlessPending(p, g, r, enableFails) ==
  /\ SetState(p, g, IF r.fails THEN r.state ELSE SetEnabled(r.state, TRUE, enableFails))
  /\ error' = [error EXCEPT ![p] =
                 IF r.fails THEN RecordError(KeptError(p), "reset", TRUE)
                            ELSE RecordError(KeptError(p), "enable", enableFails)]
  /\ ready' = [ready EXCEPT ![p] = ~r.fails /\ ~enableFails /\ KeptError(p) = "none"]
  /\ clean' = [clean EXCEPT ![p] = ~r.fails /\ ~enableFails]

\* The handle g is reset with outcome r, then enabled.
Prepare(p, g, r, enableFails) ==
  /\ SetState(p, g, IF r.fails THEN r.state ELSE SetEnabled(r.state, TRUE, enableFails))
  /\ error' = [error EXCEPT ![p] =
                 IF r.fails THEN RecordError(KeptError(p), "reset", TRUE)
                            ELSE RecordError(KeptError(p), "enable", enableFails)]
  /\ ready' = [ready EXCEPT ![p] = ~r.fails /\ ~enableFails]
  /\ clean' = [clean EXCEPT ![p] = ~r.fails /\ ~enableFails]

\* split_and_open() succeeds: a new, stopped group that counts this process.
NewGroup == [on |-> FALSE, flag |-> FALSE, work |-> {}]

RinitOpen(p, g, r, enableFails) ==
  /\ BeginRequest(p, TRUE)
  /\ KeptHandle(p) = None
  /\ KeptHolders(p)[g] = {}
  /\ handle' = [handle EXCEPT ![p] = g]
  /\ holders' = [KeptHolders(p) EXCEPT ![g] = {p}]
  /\ measured' = [measured EXCEPT ![g] = p]
  /\ Prepare(p, g, r, enableFails)

RinitReuse(p, r, enableFails) ==
  /\ BeginRequest(p, TRUE)
  /\ KeptHandle(p) # None
  /\ Prepare(p, handle[p], r, enableFails)
  /\ UNCHANGED <<handle, measured, holders>>

Rinit(p) ==
  \/ RinitDisabled(p)
  \/ RinitOpenFails(p)
  \/ \E g \in Group, r \in Resets(NewGroup), enableFails \in BOOLEAN :
        RinitOpen(p, g, r, enableFails)
  \/ /\ handle[p] # None
     /\ \E r \in Resets(State(p, handle[p])), enableFails \in BOOLEAN :
          RinitReuse(p, r, enableFails)

-----------------------------------------------------------------------------
(* PHP_RSHUTDOWN_FUNCTION(perfidious_platform), and what follows it: other  *)
(* modules' RSHUTDOWN may still run user code, then the objects are freed.  *)

\* Mutant of Rshutdown: it closes the handle while user objects still borrow it.
RshutdownCloses(p) ==
  /\ phase[p] = "active"
  /\ phase' = [phase EXCEPT ![p] = "late"]
  /\ ready' = [ready EXCEPT ![p] = FALSE]
  /\ handle' = [handle EXCEPT ![p] = None]
  /\ holders' = [g \in Group |-> holders[g] \ {p}]
  /\ UNCHANGED <<pid, request, served, requestEnable, handlePid, error, flag, obj,
                 on, work, measured, ghosts>>

Rshutdown(p) ==
  /\ phase[p] = "active"
  /\ phase' = [phase EXCEPT ![p] = "late"]
  /\ ready' = [ready EXCEPT ![p] = FALSE]
  /\ \/ handle[p] = None /\ UNCHANGED <<error, flag, on, work>>
     \/ /\ handle[p] # None
        /\ \E disableFails \in BOOLEAN :
             \E r \in Resets(SetEnabled(State(p, handle[p]), FALSE, disableFails)) :
               /\ SetState(p, handle[p], r.state)
               /\ error' = [error EXCEPT ![p] =
                              RecordError(RecordError(@, "disable", disableFails),
                                          "reset", r.fails)]
  /\ UNCHANGED <<pid, request, served, requestEnable, handle, handlePid, obj,
                 measured, holders, ghosts>>

ForgetRequest(p) ==
  /\ clean' = [clean EXCEPT ![p] = TRUE]
  /\ told' = [told EXCEPT ![p] = FALSE]
  /\ touched' = [touched EXCEPT ![p] = FALSE]
  /\ worked' = [worked EXCEPT ![p] = FALSE]

EndRequest(p) ==
  /\ phase[p] = "late"
  /\ phase' = [phase EXCEPT ![p] = "idle"]
  /\ request' = [request EXCEPT ![p] = 0]
  /\ obj' = [obj EXCEPT ![p] = None]
  /\ requestEnable' = [requestEnable EXCEPT ![p] = FALSE]
  /\ ForgetRequest(p)
  /\ UNCHANGED <<pid, served, handle, handlePid, ready, error, flag, groupVars>>

\* GSHUTDOWN closes the handle and the worker ends; a killed process, in whatever
\* phase it is, has its descriptors closed by the kernel.
Exit(p) ==
  /\ Alive(p)
  /\ phase' = [phase EXCEPT ![p] = "dead"]
  /\ request' = [request EXCEPT ![p] = 0]
  /\ requestEnable' = [requestEnable EXCEPT ![p] = FALSE]
  /\ handle' = [handle EXCEPT ![p] = None]
  /\ handlePid' = [handlePid EXCEPT ![p] = 0]
  /\ ready' = [ready EXCEPT ![p] = FALSE]
  /\ error' = [error EXCEPT ![p] = "none"]
  /\ flag' = [flag EXCEPT ![p] = FALSE]
  /\ obj' = [obj EXCEPT ![p] = None]
  /\ ForgetRequest(p)
  /\ holders' = [g \in Group |-> holders[g] \ {p}]
  /\ on' = [g \in Group |-> on[g] /\ holders[g] # {p}]
  /\ work' = [g \in Group |-> IF holders[g] = {p} THEN {} ELSE work[g]]
  /\ UNCHANGED <<pid, served, measured>>

\* A thread starts with fresh globals (GINIT) in the process of p.
ThreadStart(p, c) ==
  /\ Alive(p) /\ phase[c] = "unborn"
  /\ pid' = [pid EXCEPT ![c] = pid[p]]
  /\ phase' = [phase EXCEPT ![c] = "idle"]
  /\ UNCHANGED <<request, served, globals, groupVars, ghosts>>

\* fork(): the child gets a copy of the forking thread's memory and shares the event
\* groups of all threads.  A server forks workers before it has threads, if it ever has.
Fork(p, c) ==
  LET Copied(v) == [v EXCEPT ![c] = v[p]]
  IN  /\ \/ phase[p] = "idle" /\ \A q \in Proc \ {p} : Alive(q) => pid[q] # pid[p]
         \/ ForkInRequest /\ phase[p] = "active"
      /\ phase[c] = "unborn"
      /\ \A q \in Proc : Alive(q) => pid[q] # PidOf[c]
      /\ phase' = Copied(phase) /\ request' = Copied(request)
      /\ requestEnable' = Copied(requestEnable) /\ handle' = Copied(handle)
      /\ handlePid' = Copied(handlePid) /\ ready' = Copied(ready)
      /\ error' = Copied(error) /\ flag' = Copied(flag) /\ obj' = Copied(obj)
      /\ clean' = Copied(clean) /\ told' = Copied(told)
      /\ touched' = Copied(touched) /\ worked' = Copied(worked)
      /\ holders' = [g \in Group |-> IF \E q \in holders[g] : pid[q] = pid[p]
                                     THEN holders[g] \cup {c} ELSE holders[g]]
      /\ UNCHANGED <<pid, served, on, work, measured>>

-----------------------------------------------------------------------------
(* User code. *)

InRequest(p) == phase[p] \in {"active", "late"}

\* A process executes: every running group that measures it counts.
Work(p) ==
  /\ Alive(p)
  /\ work' = [g \in Group |-> IF measured[g] = p /\ on[g] /\ holders[g] # {}
                              THEN work[g] \cup {request[p]} ELSE work[g]]
  /\ worked' = [worked EXCEPT ![p] = phase[p] = "active" \/ @]
  /\ UNCHANGED <<procVars, globals, on, measured, holders, clean, told, touched>>

\* Perfidious\request_handle() throws the pending error once, ...
RequestHandleThrows(p) ==
  /\ InRequest(p) /\ requestEnable[p] /\ error[p] # "none"
  /\ error' = [error EXCEPT ![p] = "none"]
  /\ told' = [told EXCEPT ![p] = TRUE]
  /\ UNCHANGED <<procVars, requestEnable, handle, handlePid, ready, flag, obj,
                 groupVars, clean, touched, worked>>

\* ... or lends the handle (or returns null, which changes nothing).
RequestHandleLends(p) ==
  /\ InRequest(p) /\ requestEnable[p] /\ error[p] = "none"
  /\ handle[p] # None /\ ready[p]
  /\ obj' = [obj EXCEPT ![p] = handle[p]]
  /\ UNCHANGED <<procVars, requestEnable, handle, handlePid, ready, error, flag,
                 groupVars, ghosts>>

\* A method of the borrowed object moves the handle to state h: it is stopped or zeroed
\* for every process that shares the group.
Method(p, h) ==
  /\ SetState(p, obj[p], h)
  /\ touched' = [q \in Proc |->
       touched[q] \/ (handle[q] = obj[p] /\ (~h.on \/ h.work # work[obj[p]]))]
  /\ UNCHANGED <<procVars, requestEnable, handle, handlePid, ready, error, obj,
                 measured, holders, clean, told, worked>>

Use(p) ==
  /\ InRequest(p) /\ obj[p] # None
  /\ LET h == State(p, obj[p])
     IN  \E after \in {SetEnabled(h, e, fails) : e, fails \in BOOLEAN}
                  \cup {r.state : r \in Resets(h)}
                  \cup {ReadSide(h, f) : f \in SUBSET {"disable", "resume"}} :
           Method(p, after)

\* Handle::close() of a borrowed object forgets the handle and leaves it open.
CloseBorrowed(p) ==
  /\ InRequest(p) /\ obj[p] # None
  /\ obj' = [obj EXCEPT ![p] = None]
  /\ UNCHANGED <<procVars, requestEnable, handle, handlePid, ready, error, flag,
                 groupVars, ghosts>>

\* phpinfo(): whose work the counts under "Request Metrics" contain.  It looks at the
\* handle, not at request_handle_ready.
InfoRows(p) == IF requestEnable[p] /\ handle[p] # None THEN work[handle[p]] ELSE {}

-----------------------------------------------------------------------------

Next ==
  \E p \in Proc :
    \/ Rinit(p)
    \/ Rshutdown(p)
    \/ EndRequest(p)
    \/ Exit(p)
    \/ \E c \in Proc : ThreadStart(p, c) \/ Fork(p, c)
    \/ Work(p)
    \/ RequestHandleThrows(p)
    \/ RequestHandleLends(p)
    \/ Use(p)
    \/ CloseBorrowed(p)

Spec == Init /\ [][Next]_vars

-----------------------------------------------------------------------------
(* Properties. *)

Operations == {"none", "open", "reset", "enable", "disable"}

\* Every variable keeps its type.
TypeOK ==
  /\ pid \in [Proc -> Nat \ {0}]
  /\ phase \in [Proc -> {"unborn", "idle", "active", "late", "dead"}]
  /\ request \in [Proc -> Nat] /\ served \in Nat
  /\ requestEnable \in [Proc -> BOOLEAN]
  /\ handle \in [Proc -> Group \cup {None}]
  /\ handlePid \in [Proc -> Nat]
  /\ ready \in [Proc -> BOOLEAN]
  /\ error \in [Proc -> Operations]
  /\ flag \in [Proc -> BOOLEAN]
  /\ obj \in [Proc -> Group \cup {None}]
  /\ on \in [Group -> BOOLEAN]
  /\ work \in [Group -> SUBSET Nat]
  /\ measured \in [Group -> Proc]
  /\ holders \in [Group -> SUBSET Proc]
  /\ clean \in [Proc -> BOOLEAN] /\ told \in [Proc -> BOOLEAN]
  /\ touched \in [Proc -> BOOLEAN] /\ worked \in [Proc -> BOOLEAN]

\* What a request can read through request_handle() contains no other request's
\* work and none of the server's own, whichever resets failed before: a handle
\* whose reset failed in RINIT is never lent.
RequestIsolation ==
  \A p \in Proc : (ready[p] \/ obj[p] # None) => work[handle[p]] \subseteq {request[p]}

\* The handle a process lends counts that process, never the one it was forked from.
OwnGroup == \A p \in Proc : ready[p] => measured[handle[p]] = p

\* request_handle() measures the request of the process that opened it: unless user
\* code stopped or zeroed it, a prepared handle runs from RINIT until that process's
\* own RSHUTDOWN and contains the request's work.
RequestMeasured ==
  \A p \in Proc : (ready[p] /\ measured[handle[p]] = p /\ ~touched[p]) =>
    /\ on[handle[p]]
    /\ worked[p] => request[p] \in work[handle[p]]

\* No request holds descriptors of a group it inherited, also where counting is
\* disabled for it, and a process's descriptors are those of its handle: none leaks.
DescriptorsOwned ==
  \A p \in Proc : \A g \in Group :
    /\ p \in holders[g] <=> (Alive(p) /\ handle[p] = g)
    /\ p \in holders[g] /\ InRequest(p) => measured[g] = p

\* A borrowed object never outlives the handle it points to.
BorrowedNotDangling == \A p \in Proc : obj[p] # None => obj[p] = handle[p]

\* A request whose handle could not be prepared is told why: the first
\* request_handle() throws, it does not just return null.
UnavailableExplained ==
  \A p \in Proc : (phase[p] = "active" /\ requestEnable[p] /\ ~ready[p]) =>
                     error[p] # "none" \/ told[p]

\* phpinfo() shows a request counts that are not its own only when the failure behind
\* them is still to be thrown by request_handle() or was: the request can find out.
InfoExplained ==
  \A p \in Proc : (InRequest(p) /\ ~(InfoRows(p) \subseteq {request[p]})) =>
                     error[p] # "none" \/ told[p]

\* Whatever failed in earlier requests, a start without a failure makes the
\* handle available: no history of failures disables request counting for good.
StartRecovers ==
  \A p \in Proc : (phase[p] = "active" /\ requestEnable[p] /\ clean[p]) => ready[p]

\* Starting or ending a request or a process does not touch a group that measures
\* another process: closing inherited descriptors neither stops nor clears it.
LifecycleSparesOthers ==
  [][\A p \in Proc : phase[p] # phase'[p] =>
        \A g \in Group : (measured[g] # p /\ holders[g] \ {p} # {}) =>
                            on'[g] = on[g] /\ work'[g] = work[g]]_vars

\* A pending error is kept, over requests too, until request_handle() throws it
\* or the process finds it was forked with it; no later error replaces it.
FirstErrorKept ==
  [][\A p \in Proc : (error[p] # "none" /\ error'[p] # error[p]) =>
        \/ error'[p] = "none" /\ told'[p] /\ InRequest(p)
        \/ phase[p] = "idle" /\ Inherited(p)
        \/ phase'[p] = "dead"]_vars
=============================================================================
