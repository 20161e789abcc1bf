------------------------- MODULE HandleDescriptors -------------------------
(***************************************************************************)
(* The file descriptors behind Perfidious\Handle objects: Perfidious\open  *)
(* (src/src/functions.c), perfidious_handle_try_open_ex(), try_close(),    *)
(* the destructor and rawStream() (src/src/handle.c), one system call per  *)
(* step.  Threads of a ZTS process share the descriptor table, so a number *)
(* one thread closes may be another file before its next step.             *)
(***************************************************************************)
EXTENDS Integers, FiniteSets, Sequences, SequencesExt

CONSTANTS Thread,
          Obj,        \* Handle objects, each of one thread
          ThreadOf,   \* [Obj -> Thread]
          Fd,         \* descriptor numbers
          MaxNames,   \* bound on the events passed to one open()
          MaxEvents   \* bound on the perf events created altogether

ASSUME DescriptorAssumption ==
  /\ ThreadOf \in [Obj -> Thread]
  /\ 0 \notin Fd /\ 0 \notin Obj        \* 0 stands for none
  /\ MaxNames \in Nat /\ MaxEvents \in Nat

\* Perf events are their kernel ids, which grow and are never reused.
Event == 1..MaxEvents
Free == 0      \* a descriptor number not in use
File == -1     \* a file of the application or of PHP

VARIABLES
  table,     \* the process's descriptor table: [Fd -> Event \cup {Free, File}]
  nextId,    \* id of the next perf event
  leader,    \* the group leader an event was created under
  metrics,   \* handle->metrics of each object; <<>> when obj->handle is NULL
  streams,   \* descriptors owned by streams of rawStream()
  call       \* what each thread is doing

vars == <<table, nextId, leader, metrics, streams, call>>

NoFd == [fd |-> 0, id |-> 0]
Idle == [op |-> "none", obj |-> 0, names |-> 0, metrics |-> <<>>, fd |-> NoFd]

Init ==
  /\ table = [f \in Fd |-> Free]
  /\ nextId = 1
  /\ leader = [e \in Event |-> e]
  /\ metrics = [o \in Obj |-> <<>>]
  /\ streams = {}
  /\ call = [t \in Thread |-> Idle]

-----------------------------------------------------------------------------
(* The kernel's side. *)

\* perf_event_open() or fcntl(F_DUPFD_CLOEXEC) hands out an unused number.
Alloc(f, file) == table[f] = Free /\ table' = [table EXCEPT ![f] = file]

\* close() releases the number, whatever it returns.
Close(f) == table' = [table EXCEPT ![f] = Free]

\* Some descriptor keeps the event alive.
Live(e) == \E f \in Fd : table[f] = e

\* Unrelated files come and go in the same table.
FileOpen(f)  == Alloc(f, File) /\ UNCHANGED <<nextId, leader, metrics, streams, call>>
FileClose(f) == table[f] = File /\ Close(f) /\ UNCHANGED <<nextId, leader, metrics, streams, call>>

-----------------------------------------------------------------------------
(* Perfidious\open(): the PHP object exists before anything is acquired. *)

InCall(t, op) == call[t].op = op
Step(t, c)    == call' = [call EXCEPT ![t] = c]

OpenBegin(t, o, n) ==
  /\ InCall(t, "none") /\ metrics[o] = <<>>
  /\ Step(t, [Idle EXCEPT !.op = "open", !.obj = o, !.names = n])
  /\ UNCHANGED <<table, nextId, leader, metrics, streams>>

\* perf_event_open(): the dummy leader first, then the named events in its group.
OpenEvent(t, f) ==
  /\ InCall(t, "open") /\ call[t].fd = NoFd /\ Len(call[t].metrics) <= call[t].names
  /\ nextId <= MaxEvents
  /\ Alloc(f, nextId)
  /\ leader' = [leader EXCEPT ![nextId] =
                  IF call[t].metrics = <<>> THEN nextId ELSE table[call[t].metrics[1].fd]]
  /\ nextId' = nextId + 1
  /\ Step(t, [call[t] EXCEPT !.fd = [fd |-> f, id |-> nextId]])
  /\ UNCHANGED <<metrics, streams>>

\* A name without an encoding, or perf_event_open() fails: goto cleanup.
OpenEventFails(t) ==
  /\ InCall(t, "open") /\ call[t].fd = NoFd /\ Len(call[t].metrics) <= call[t].names
  /\ Step(t, [call[t] EXCEPT !.op = "close"])
  /\ UNCHANGED <<table, nextId, leader, metrics, streams>>

\* ioctl(PERF_EVENT_IOC_ID), then the descriptor is recorded in the handle.
OpenId(t) ==
  /\ InCall(t, "open") /\ call[t].fd # NoFd
  /\ Step(t, [call[t] EXCEPT !.fd = NoFd,
                !.metrics = Append(@, [fd |-> call[t].fd.fd, id |-> table[call[t].fd.fd]])])
  /\ UNCHANGED <<table, nextId, leader, metrics, streams>>

\* Mutant of OpenIdFails: the unrecorded descriptor is not closed.
OpenIdFailsLeaks(t) ==
  /\ InCall(t, "open") /\ call[t].fd # NoFd
  /\ Step(t, [call[t] EXCEPT !.op = "close", !.fd = NoFd])
  /\ UNCHANGED <<table, nextId, leader, metrics, streams>>

\* Mutant of OpenIdFails: the event is skipped, its descriptor left in the group.
OpenIdFailsSkips(t) ==
  /\ InCall(t, "open") /\ call[t].fd # NoFd
  /\ Step(t, [call[t] EXCEPT !.fd = NoFd, !.names = IF @ = 0 THEN 0 ELSE @ - 1])
  /\ UNCHANGED <<table, nextId, leader, metrics, streams>>

\* The ioctl fails: the descriptor is not recorded yet and is closed here.
OpenIdFails(t) ==
  /\ InCall(t, "open") /\ call[t].fd # NoFd
  /\ Close(call[t].fd.fd)
  /\ Step(t, [call[t] EXCEPT !.op = "close", !.fd = NoFd])
  /\ UNCHANGED <<nextId, leader, metrics, streams>>

OpenReturn(t) ==
  /\ InCall(t, "open") /\ call[t].fd = NoFd /\ Len(call[t].metrics) = call[t].names + 1
  /\ metrics' = [metrics EXCEPT ![call[t].obj] = call[t].metrics]
  /\ Step(t, Idle)
  /\ UNCHANGED <<table, nextId, leader, streams>>

-----------------------------------------------------------------------------
(* Handle::close() and the destructor detach the handle, then               *)
(* perfidious_handle_try_close() closes it, last event first; it goes on    *)
(* after an error.  A failed open ends the same way.                        *)

\* Mutant of CloseBegin: the object keeps its pointer to the handle.
CloseBeginAttached(t, o) ==
  /\ InCall(t, "none") /\ metrics[o] # <<>>
  /\ Step(t, [Idle EXCEPT !.op = "close", !.obj = o, !.metrics = metrics[o]])
  /\ UNCHANGED <<table, nextId, leader, metrics, streams>>

CloseBegin(t, o) ==
  /\ InCall(t, "none") /\ metrics[o] # <<>>
  /\ metrics' = [metrics EXCEPT ![o] = <<>>]
  /\ Step(t, [Idle EXCEPT !.op = "close", !.obj = o, !.metrics = metrics[o]])
  /\ UNCHANGED <<table, nextId, leader, streams>>

\* Mutant of CloseStep: the leader is closed first.
CloseStepForward(t) ==
  /\ InCall(t, "close") /\ call[t].metrics # <<>>
  /\ Close(Head(call[t].metrics).fd)
  /\ Step(t, [call[t] EXCEPT !.metrics = Tail(@)])
  /\ UNCHANGED <<nextId, leader, metrics, streams>>

CloseStep(t) ==
  /\ InCall(t, "close") /\ call[t].metrics # <<>>
  /\ Close(Last(call[t].metrics).fd)
  /\ Step(t, [call[t] EXCEPT !.metrics = Front(@)])
  /\ UNCHANGED <<nextId, leader, metrics, streams>>

CloseReturn(t) ==
  /\ InCall(t, "close") /\ call[t].metrics = <<>>
  /\ Step(t, Idle)
  /\ UNCHANGED <<table, nextId, leader, metrics, streams>>

-----------------------------------------------------------------------------
(* Handle::rawStream(): the stream owns a duplicate of the descriptor. *)

StreamDup(t, o, i, f) ==
  /\ InCall(t, "none") /\ i \in DOMAIN metrics[o]
  /\ Alloc(f, table[metrics[o][i].fd])
  /\ Step(t, [Idle EXCEPT !.op = "stream", !.obj = o, !.fd = [fd |-> f, id |-> metrics[o][i].id]])
  /\ UNCHANGED <<nextId, leader, metrics, streams>>

StreamReturn(t) ==
  /\ InCall(t, "stream")
  /\ streams' = streams \cup {call[t].fd}
  /\ Step(t, Idle)
  /\ UNCHANGED <<table, nextId, leader, metrics>>

\* php_stream_fopen_from_fd() fails: the duplicate is closed.
StreamFails(t) ==
  /\ InCall(t, "stream")
  /\ Close(call[t].fd.fd)
  /\ Step(t, Idle)
  /\ UNCHANGED <<nextId, leader, metrics, streams>>

StreamClose(s) ==
  /\ Close(s.fd)
  /\ streams' = streams \ {s}
  /\ UNCHANGED <<nextId, leader, metrics, call>>

-----------------------------------------------------------------------------

Next ==
  \/ \E f \in Fd : FileOpen(f) \/ FileClose(f)
  \/ \E s \in streams : StreamClose(s)
  \/ \E o \in Obj : LET t == ThreadOf[o] IN
        \/ \E n \in 0..MaxNames : OpenBegin(t, o, n)
        \/ CloseBegin(t, o)
        \/ \E i \in 1..MaxNames + 1, f \in Fd : StreamDup(t, o, i, f)
  \/ \E t \in Thread :
        \/ \E f \in Fd : OpenEvent(t, f)
        \/ OpenEventFails(t) \/ OpenId(t) \/ OpenIdFails(t) \/ OpenReturn(t)
        \/ CloseStep(t) \/ CloseReturn(t)
        \/ StreamReturn(t) \/ StreamFails(t)

Spec == Init /\ [][Next]_vars

-----------------------------------------------------------------------------
(* Properties. *)

Metric == [fd : Fd \cup {0}, id : Event \cup {0}]
Calls  == [op : {"none", "open", "close", "stream"}, obj : Obj \cup {0}, names : 0..MaxNames,
           metrics : Seq(Metric), fd : Metric]

\* Every variable keeps its type.
TypeOK ==
  /\ table \in [Fd -> Event \cup {Free, File}]
  /\ nextId \in 1..MaxEvents + 1
  /\ leader \in [Event -> Event]
  /\ metrics \in [Obj -> Seq(Metric)]
  /\ streams \in SUBSET Metric
  /\ call \in [Thread -> Calls]

\* Who owns which descriptor: a handle object, a call in progress, a stream.
HandleRefs == UNION {{<<"obj", o, i, metrics[o][i]>> : i \in DOMAIN metrics[o]} : o \in Obj}
CallRefs   == UNION {{<<"call", t, i, call[t].metrics[i]>> : i \in DOMAIN call[t].metrics} : t \in Thread}
LocalRefs  == {<<"local", t, 0, call[t].fd>> : t \in {t \in Thread : call[t].fd # NoFd}}
StreamRefs == {<<"stream", 0, 0, s>> : s \in streams}
Refs       == HandleRefs \cup CallRefs \cup LocalRefs \cup StreamRefs

\* Every perf descriptor has exactly one owner and every owner's number still is the
\* event it was opened for: nothing leaks on any failing step of open(), close() or
\* rawStream(), and no owner is left with a number the kernel may hand out again.
OneOwner ==
  /\ \A r \in Refs : table[r[4].fd] = r[4].id
  /\ \A f \in Fd : table[f] \in Event => Cardinality({r \in Refs : r[4].fd = f}) = 1

\* No event outlives its group leader except through a stream's duplicate: the
\* kernel makes an orphaned member an independent, running event, so a handle is
\* closed from its last event to its leader.
LeaderOutlivesMembers ==
  \A r \in Refs \ StreamRefs : Live(leader[r[4].id])

\* The group a read of an open handle's leader returns is, entry by entry, the
\* handle's metrics: the size of the read and its "ID mismatch" check cannot fail.
ReadMatchesMetrics ==
  \A o \in Obj : metrics[o] # <<>> =>
    LET ids == [i \in DOMAIN metrics[o] |-> metrics[o][i].id]
    IN  /\ {e \in Event : e < nextId /\ Live(e) /\ leader[e] = ids[1]} = {ids[i] : i \in DOMAIN ids}
        /\ \A i, j \in DOMAIN ids : i < j => ids[i] < ids[j]

\* Handle calls never close a file that is not theirs, also when another thread has
\* just been given a number they closed.
FilesUntouched ==
  [][\A f \in Fd : (table[f] = File /\ table'[f] # File) =>
        UNCHANGED <<metrics, streams, call>>]_vars
=============================================================================
