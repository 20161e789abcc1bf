-------------------------- MODULE WindowsProfiling --------------------------
(***************************************************************************)
(* Thread profiling on Windows: Perfidious\Windows\ThreadProfile           *)
(* (src/src/windows/functions.c, thread_profile.c) and the current-thread  *)
(* samplers of src/src/windows/sampler.c.  A native thread has at most one *)
(* profiling session, whoever opened it; a thread id is used again once    *)
(* its thread has ended; an object may be used from another thread than    *)
(* the one it was made on.                                                 *)
(***************************************************************************)
EXTENDS Naturals, FiniteSets

CONSTANTS Thread,      \* native threads, over the life of the process
          IdOf,        \* their ids
          Obj,         \* ThreadProfile and Sampler objects
          MaxSessions, \* bound on the sessions opened altogether
          None

NULL == 0
Session == 1..MaxSessions

\* A PHP object (the thread of a profile is not recorded), a sampler that a thread is
\* opening, and a read of a sampler.
Object  == [kind : {"profile", "sampler"}, handle : {NULL} \cup Session, id : Nat,
            thread : Thread \cup {None}]
Opening == [obj : Obj, profiled : BOOLEAN]
Reading == [reader : Thread, thread : Thread]

ASSUME ProfilingAssumption ==
  /\ IdOf \in [Thread -> Nat]
  /\ MaxSessions \in Nat
  /\ None \notin Thread /\ None \notin Object /\ None \notin Opening /\ None \notin Reading

VARIABLES
  life,      \* of each thread: "unborn", "live", "ended"
  sessions,  \* the native sessions: [thread, enabled]
  objects,   \* the PHP objects, None where there is none
  opening,   \* of each thread: the sampler it is opening, between two native calls
  dups,      \* duplicated thread handles that are open: <<object, thread>>
  leaked,    \* sessions whose DisableThreadProfiling() failed for good (observed)
  read       \* who made the last successful read of a sampler, and of which thread (observed)

vars == <<life, sessions, objects, opening, dups, leaked, read>>

Init ==
  /\ life \in [Thread -> {"unborn", "live"}]
  /\ \A t, u \in Thread : life[t] = "live" /\ life[u] = "live" /\ t # u => IdOf[t] # IdOf[u]
  /\ sessions = <<>>
  /\ objects = [o \in Obj |-> None]
  /\ opening = [t \in Thread |-> None]
  /\ dups = {} /\ leaked = {} /\ read = None

-----------------------------------------------------------------------------
(* Windows. *)

Live(t) == life[t] = "live"

\* The thread is alive and not in the middle of opening a sampler.
Idle(t) == Live(t) /\ opening[t] = None

ThreadStart(t) ==
  /\ life[t] = "unborn" /\ \A u \in Thread : Live(u) => IdOf[u] # IdOf[t]
  /\ life' = [life EXCEPT ![t] = "live"]
  /\ UNCHANGED <<sessions, objects, opening, dups, leaked, read>>

ThreadEnd(t) ==
  /\ Idle(t)
  /\ life' = [life EXCEPT ![t] = "ended"]
  /\ UNCHANGED <<sessions, objects, opening, dups, leaked, read>>

\* ERROR_WMI_ALREADY_ENABLED
Busy(t) == \E s \in DOMAIN sessions : sessions[s].thread = t /\ sessions[s].enabled

\* EnableThreadProfiling() on the current thread: the new session's handle.
NewSession == Cardinality(DOMAIN sessions) + 1
EnableThreadProfiling(t) ==
  /\ ~Busy(t) /\ NewSession \in Session
  /\ sessions' = [s \in 1..NewSession |-> IF s = NewSession THEN [thread |-> t, enabled |-> TRUE]
                                                            ELSE sessions[s]]

DisableThreadProfiling(s) == sessions' = [sessions EXCEPT ![s].enabled = FALSE]

-----------------------------------------------------------------------------
(* enable_current_thread_profiling(): the object exists before the session.  *)

Profile(s) == [kind |-> "profile", handle |-> s, id |-> 0, thread |-> None]

Unused(o) == objects[o] = None /\ \A u \in Thread : opening[u] # None => opening[u].obj # o

EnableProfile(t, o) ==
  /\ Idle(t) /\ Unused(o)
  /\ EnableThreadProfiling(t)
  /\ objects' = [objects EXCEPT ![o] = Profile(NewSession)]
  /\ UNCHANGED <<life, opening, dups, leaked, read>>

\* The first read fails and the object is destroyed.  A failure to enable, a busy
\* thread among them, leaves everything as it was.
EnableProfileUnread(t, o) ==
  /\ Idle(t) /\ Unused(o) /\ ~Busy(t) /\ NewSession \in Session
  /\ \E disabled \in BOOLEAN :
       /\ sessions' = [s \in 1..NewSession |-> IF s = NewSession
                         THEN [thread |-> t, enabled |-> ~disabled] ELSE sessions[s]]
       /\ leaked' = IF disabled THEN leaked ELSE leaked \cup {NewSession}
  /\ UNCHANGED <<life, objects, opening, dups, read>>

IsProfile(o) == objects[o] # None /\ objects[o].kind = "profile"

\* Mutant of CloseProfile: the handle is forgotten also when disabling fails.
CloseProfileForgets(t, o) ==
  /\ Idle(t) /\ IsProfile(o) /\ objects[o].handle # NULL
  /\ objects' = [objects EXCEPT ![o].handle = NULL]
  /\ \/ DisableThreadProfiling(objects[o].handle)
     \/ UNCHANGED sessions
  /\ UNCHANGED <<life, opening, dups, leaked, read>>

\* ThreadProfile::close() (read() changes nothing): a failure keeps the handle, so that it can be retried.
CloseProfile(t, o) ==
  /\ Idle(t) /\ IsProfile(o) /\ objects[o].handle # NULL
  /\ DisableThreadProfiling(objects[o].handle)
  /\ objects' = [objects EXCEPT ![o].handle = NULL]
  /\ UNCHANGED <<life, opening, dups, leaked, read>>

\* Ending an object tries to disable its session once and ignores the outcome.
Release(s) ==
  \/ s = NULL /\ UNCHANGED <<sessions, leaked>>
  \/ s # NULL /\ DisableThreadProfiling(s) /\ UNCHANGED leaked
  \/ s # NULL /\ leaked' = leaked \cup {s} /\ UNCHANGED sessions

FreeProfile(t, o) ==
  /\ Idle(t) /\ IsProfile(o)
  /\ Release(objects[o].handle)
  /\ objects' = [objects EXCEPT ![o] = None]
  /\ UNCHANGED <<life, opening, dups, read>>

-----------------------------------------------------------------------------
(* The current-thread sampler. *)

Sampler(t, s) == [kind |-> "sampler", handle |-> s, id |-> IdOf[t], thread |-> t]

\* perfidious_platform_sampler_open() duplicates the handle of the calling thread; a
\* failure to do so leaves everything as it was.
DuplicateHandle(t, o, profiled) ==
  /\ Idle(t) /\ Unused(o)
  /\ opening' = [opening EXCEPT ![t] = [obj |-> o, profiled |-> profiled]]
  /\ dups' = dups \cup {<<o, t>>}
  /\ UNCHANGED <<life, sessions, objects, leaked, read>>

\* Then context switches and cycles need a session, and the sampler is there.
OpenSampler(t) ==
  /\ opening[t] # None
  /\ \/ opening[t].profiled /\ EnableThreadProfiling(t)
        /\ objects' = [objects EXCEPT ![opening[t].obj] = Sampler(t, NewSession)]
     \/ ~opening[t].profiled /\ UNCHANGED sessions
        /\ objects' = [objects EXCEPT ![opening[t].obj] = Sampler(t, NULL)]
  /\ opening' = [opening EXCEPT ![t] = None]
  /\ UNCHANGED <<life, dups, leaked, read>>

\* Mutant of OpenSamplerFails: the duplicated handle is not closed.
OpenSamplerFailsLeaks(t) ==
  /\ opening[t] # None /\ opening[t].profiled
  /\ opening' = [opening EXCEPT ![t] = None]
  /\ UNCHANGED <<life, sessions, objects, dups, leaked, read>>

\* EnableThreadProfiling() fails, on a busy thread (ResourceBusyException) or for any
\* other reason (IOException): the duplicated handle is closed and no sampler returned.
OpenSamplerFails(t) ==
  /\ opening[t] # None /\ opening[t].profiled
  /\ dups' = dups \ {<<opening[t].obj, t>>}
  /\ opening' = [opening EXCEPT ![t] = None]
  /\ UNCHANGED <<life, sessions, objects, leaked, read>>

\* Mutant of OwnThread: the id alone is compared.
OwnThreadId(t, o) == objects[o].id = IdOf[t]

\* The reader has the id of the thread that opened the sampler, and that thread, by
\* its duplicated handle, has not ended.
OwnThread(t, o) == objects[o].id = IdOf[t] /\ Live(objects[o].thread)

IsSampler(o) == objects[o] # None /\ objects[o].kind = "sampler"

\* perfidious_platform_sampler_read(): otherwise WrongThreadException.
ReadSampler(t, o) ==
  /\ Idle(t) /\ IsSampler(o) /\ OwnThread(t, o)
  /\ read' = [reader |-> t, thread |-> objects[o].thread]
  /\ UNCHANGED <<life, sessions, objects, opening, dups, leaked>>

\* perfidious_platform_sampler_close(), also of a sampler whose first read failed.
CloseSampler(t, o) ==
  /\ Idle(t) /\ IsSampler(o)
  /\ Release(objects[o].handle)
  /\ dups' = dups \ {<<o, objects[o].thread>>}
  /\ objects' = [objects EXCEPT ![o] = None]
  /\ UNCHANGED <<life, opening, read>>

-----------------------------------------------------------------------------

Next ==
  \E t \in Thread :
    \/ ThreadStart(t) \/ ThreadEnd(t)
    \/ OpenSampler(t) \/ OpenSamplerFails(t)
    \/ \E o \in Obj :
          \/ EnableProfile(t, o) \/ EnableProfileUnread(t, o)
          \/ \E profiled \in BOOLEAN : DuplicateHandle(t, o, profiled)
          \/ ReadSampler(t, o)
          \/ CloseProfile(t, o) \/ FreeProfile(t, o) \/ CloseSampler(t, o)

Spec == Init /\ [][Next]_vars

-----------------------------------------------------------------------------
(* Properties. *)

\* A session that counts has exactly one object to end it, or Windows refused to end
\* it when its object went: close() may be retried, and "callers can release the
\* existing sampler or low-level profile and retry" (docs/SAMPLER_API.md:233).
SessionOwned ==
  \A s \in DOMAIN sessions :
    LET owners == {o \in Obj : objects[o] # None /\ objects[o].handle = s}
    IN  /\ sessions[s].enabled => Cardinality(owners) = 1 \/ (s \in leaked /\ owners = {})
        /\ ~sessions[s].enabled => owners = {}

\* A current-thread sampler is only ever read by the thread it measures, also when
\* that thread has ended and another one was given its id.
ReadsOwnThread == read # None => read.reader = read.thread

\* The handle of thread t duplicated for object o is in use: the sampler exists, or t
\* is still opening it.
HandleInUse(o, t) ==
  \/ IsSampler(o) /\ objects[o].thread = t
  \/ opening[t] # None /\ opening[t].obj = o

\* No duplicated thread handle leaks and none is closed early: those that are open are
\* in use, also when profiling could not be enabled (windows/sampler.c:88) and after
\* samplers were closed by other threads than they measure.
HandlesReleased == dups = {d \in Obj \X Thread : HandleInUse(d[1], d[2])}
=============================================================================
