---------------------- MODULE WindowsProfiling_proofs ----------------------
(***************************************************************************)
(* Proofs about both halves of a thread profile.  WindowsProfiling, for    *)
(* every number of threads, objects and sessions and every assignment of   *)
(* ids: sessions have one owner, samplers are read by their own thread,    *)
(* and thread handles are released.  ThreadProfile, for every word size,   *)
(* baseline and set of hardware counters: every integer handed to PHP is   *)
(* exact, and every OverflowException is justified.                        *)
(***************************************************************************)
EXTENDS WindowsProfiling, ThreadProfile, FiniteSetTheorems, TLAPS

-----------------------------------------------------------------------------
(* WindowsProfiling: the inductive invariant. *)

\* Every variable keeps its type; sessions are numbered in the order they were enabled.
TypeOK ==
  /\ life \in [Thread -> {"unborn", "live", "ended"}]
  /\ \E n \in 0..MaxSessions : sessions \in [1..n -> [thread : Thread, enabled : BOOLEAN]]
  /\ objects \in [Obj -> Object \cup {None}]
  /\ opening \in [Thread -> Opening \cup {None}]
  /\ leaked \in SUBSET DOMAIN sessions
  /\ read \in Reading \cup {None}

\* Windows gives a thread an id no living thread has.
LiveIdsDiffer == \A t, u \in Thread : Live(t) /\ Live(u) /\ t # u => IdOf[t] # IdOf[u]

\* The object is there to end the session.
Owns(o, s) == objects[o] # None /\ objects[o].handle = s

\* An object's handle is a session that counts, and no two objects have the same.
HandlesEnabled ==
  /\ \A o \in Obj : \A s \in Session : Owns(o, s) =>
        s \in DOMAIN sessions /\ sessions[s].enabled /\ s \notin leaked
  /\ \A o, p \in Obj : \A s \in Session : Owns(o, s) /\ Owns(p, s) => o = p

\* A session that counts has such an object, or Windows refused to end it.
EnabledOwned ==
  \A s \in DOMAIN sessions : sessions[s].enabled => s \in leaked \/ \E o \in Obj : Owns(o, s)

\* A sampler knows the thread that opened it by its handle and by its id.
SamplersBound ==
  \A o \in Obj : IsSampler(o) => objects[o].thread \in Thread /\ objects[o].id = IdOf[objects[o].thread]

\* An object that is being opened is not there yet, and one thread only opens it.
OpensApart ==
  /\ \A t \in Thread : opening[t] # None => objects[opening[t].obj] = None
  /\ \A t, u \in Thread : /\ opening[t] # None /\ opening[u] # None
                          /\ opening[t].obj = opening[u].obj
                          => t = u

IndInv ==
  /\ TypeOK
  /\ LiveIdsDiffer
  /\ HandlesEnabled
  /\ EnabledOwned
  /\ SamplersBound
  /\ OpensApart
  /\ ReadsOwnThread
  /\ HandlesReleased

\* What the properties and the invariant say of sessions and objects.
Ownership == HandlesEnabled /\ EnabledOwned
Bound     == SamplersBound /\ OpensApart /\ ReadsOwnThread /\ HandlesReleased

SessionRecord == [thread : Thread, enabled : BOOLEAN]
SessionsTyped == \E n \in 0..MaxSessions : sessions \in [1..n -> SessionRecord]

-----------------------------------------------------------------------------
(* Sessions. *)

\* Enabling adds one session, under a number that is not in use.
LEMMA NewSessionAdds ==
  ASSUME SessionsTyped, NewSession \in Session, NEW r \in SessionRecord,
         sessions' = [s \in 1..NewSession |-> IF s = NewSession THEN r ELSE sessions[s]]
  PROVE  /\ SessionsTyped'
         /\ NewSession \notin DOMAIN sessions
         /\ DOMAIN sessions' = DOMAIN sessions \cup {NewSession}
         /\ sessions'[NewSession] = r
         /\ \A s \in DOMAIN sessions : sessions'[s] = sessions[s]
<1>1. PICK n \in 0..MaxSessions : sessions \in [1..n -> SessionRecord]
  BY DEF SessionsTyped
<1>2. n \in Nat /\ DOMAIN sessions = 1..n /\ MaxSessions \in Nat
  BY <1>1, ProfilingAssumption
<1>3. Cardinality(1..n) = n
  BY <1>2, FS_Interval
<1>4. NewSession = n + 1
  BY <1>2, <1>3 DEF NewSession
<1>5. n + 1 \in 0..MaxSessions
  BY <1>2, <1>4 DEF Session
<1>6. sessions' = [s \in 1..n + 1 |-> IF s = n + 1 THEN r ELSE sessions[s]]
  BY <1>4
<1>7. sessions' \in [1..n + 1 -> SessionRecord]
  <2>1. \A s \in 1..n + 1 : s # n + 1 => s \in 1..n
    BY <1>2
  <2>2. \A s \in 1..n + 1 : (IF s = n + 1 THEN r ELSE sessions[s]) \in SessionRecord
    BY <1>1, <2>1
  <2> QED BY <1>6, <2>2
<1>8. 1..n + 1 = (1..n) \cup {n + 1} /\ n + 1 \notin 1..n
  BY <1>2
<1> QED BY <1>2, <1>4, <1>5, <1>6, <1>7, <1>8 DEF SessionsTyped

\* Disabling ends one session and leaves the others alone.
LEMMA DisableEnds ==
  ASSUME SessionsTyped, NEW x \in DOMAIN sessions, DisableThreadProfiling(x)
  PROVE  /\ SessionsTyped'
         /\ DOMAIN sessions' = DOMAIN sessions
         /\ ~sessions'[x].enabled
         /\ \A s \in DOMAIN sessions : s # x => sessions'[s] = sessions[s]
<1>1. PICK n \in 0..MaxSessions : sessions \in [1..n -> SessionRecord]
  BY DEF SessionsTyped
<1>2. sessions' = [sessions EXCEPT ![x] = [sessions[x] EXCEPT !.enabled = FALSE]]
  BY DEF DisableThreadProfiling
<1>3. sessions[x] \in SessionRecord
  BY <1>1
<1>4. /\ [sessions[x] EXCEPT !.enabled = FALSE] \in SessionRecord
      /\ ~[sessions[x] EXCEPT !.enabled = FALSE].enabled
  BY <1>3 DEF SessionRecord
<1>5. sessions' \in [1..n -> SessionRecord]
  BY <1>1, <1>2, <1>4
<1>6. \A s \in DOMAIN sessions : s # x => sessions'[s] = sessions[s]
  BY <1>1, <1>2
<1>7. ~sessions'[x].enabled
  BY <1>1, <1>2, <1>4
<1> QED BY <1>1, <1>5, <1>6, <1>7 DEF SessionsTyped

\* Sessions are numbered by Session.
LEMMA SessionsNumbered ==
  ASSUME SessionsTyped
  PROVE  DOMAIN sessions \subseteq Session /\ NULL \notin Session
<1>1. PICK n \in 0..MaxSessions : sessions \in [1..n -> SessionRecord]
  BY DEF SessionsTyped
<1> QED BY <1>1, ProfilingAssumption DEF Session, NULL

-----------------------------------------------------------------------------
(* Ownership. *)

\* A new session and the new object that owns it.
LEMMA OwnershipEnabled ==
  ASSUME IndInv, NEW o \in Obj, NEW t \in Thread, NEW x \in Object, objects[o] = None,
         EnableThreadProfiling(t), x.handle = NewSession,
         objects' = [objects EXCEPT ![o] = x], UNCHANGED leaked
  PROVE  Ownership' /\ SessionsTyped' /\ leaked' \subseteq DOMAIN sessions'
<1> DEFINE r == [thread |-> t, enabled |-> TRUE]
           k == NewSession
<1>1. SessionsTyped /\ leaked \subseteq DOMAIN sessions /\ objects \in [Obj -> Object \cup {None}]
  BY DEF IndInv, TypeOK, SessionsTyped, SessionRecord
<1>2. r \in SessionRecord /\ r.enabled
  BY DEF SessionRecord
<1>3. /\ k \in Session
      /\ sessions' = [s \in 1..NewSession |-> IF s = NewSession THEN r ELSE sessions[s]]
  BY DEF EnableThreadProfiling
<1>4. /\ SessionsTyped' /\ k \notin DOMAIN sessions
      /\ DOMAIN sessions' = DOMAIN sessions \cup {k}
      /\ sessions'[k] = r /\ \A s \in DOMAIN sessions : sessions'[s] = sessions[s]
  <2> HIDE DEF r
  <2> QED BY <1>1, <1>2, <1>3, NewSessionAdds
<1> HIDE DEF r, k
<1>5. x # None /\ x.handle = k
  BY ProfilingAssumption DEF k
<1>6. \A p \in Obj : \A s : Owns(p, s)' <=> IF p = o THEN s = k ELSE Owns(p, s)
  BY <1>1, <1>5 DEF Owns
<1>7. \A p \in Obj, s \in Session : Owns(p, s) =>
         p # o /\ s \in DOMAIN sessions /\ sessions[s].enabled /\ s \notin leaked /\ s # k
  BY <1>4 DEF IndInv, HandlesEnabled, Owns
<1>8. HandlesEnabled'
  <2>1. k \in DOMAIN sessions' /\ sessions'[k].enabled /\ k \notin leaked'
    BY <1>1, <1>2, <1>4
  <2>2. \A p \in Obj, s \in Session : Owns(p, s)' =>
           s \in DOMAIN sessions' /\ sessions'[s].enabled /\ s \notin leaked'
    BY <1>4, <1>6, <1>7, <2>1
  <2>3. \A p, q \in Obj, s \in Session : Owns(p, s)' /\ Owns(q, s)' => p = q
    BY <1>6, <1>7 DEF IndInv, HandlesEnabled
  <2> QED BY <2>2, <2>3 DEF HandlesEnabled
<1>9. EnabledOwned'
  <2>1. \A s \in DOMAIN sessions : sessions[s].enabled => s \in leaked \/ \E p \in Obj : p # o /\ Owns(p, s)
    BY DEF IndInv, EnabledOwned, Owns
  <2>2. \A s \in DOMAIN sessions' : sessions'[s].enabled => s \in leaked' \/ \E p \in Obj : Owns(p, s)'
    BY <1>4, <1>6, <2>1
  <2> QED BY <2>2 DEF EnabledOwned
<1> QED BY <1>1, <1>4, <1>8, <1>9 DEF Ownership

\* A new session without an object: ended at once, or given up.
LEMMA OwnershipUnread ==
  ASSUME IndInv, NEW o \in Obj, NEW t \in Thread, EnableProfileUnread(t, o)
  PROVE  Ownership' /\ SessionsTyped' /\ leaked' \subseteq DOMAIN sessions'
<1> DEFINE k == NewSession
<1>1. SessionsTyped /\ leaked \subseteq DOMAIN sessions
  BY DEF IndInv, TypeOK, SessionsTyped, SessionRecord
<1>2. PICK disabled \in BOOLEAN :
        /\ sessions' = [s \in 1..NewSession |-> IF s = NewSession
                          THEN [thread |-> t, enabled |-> ~disabled] ELSE sessions[s]]
        /\ leaked' = IF disabled THEN leaked ELSE leaked \cup {NewSession}
  BY DEF EnableProfileUnread
<1> DEFINE r == [thread |-> t, enabled |-> ~disabled]
<1>3. r \in SessionRecord /\ (r.enabled <=> ~disabled)
  BY DEF SessionRecord
<1>4. k \in Session /\ objects' = objects
  BY DEF EnableProfileUnread
<1>5. /\ SessionsTyped' /\ k \notin DOMAIN sessions
      /\ DOMAIN sessions' = DOMAIN sessions \cup {k}
      /\ sessions'[k] = r /\ \A s \in DOMAIN sessions : sessions'[s] = sessions[s]
  <2>1. sessions' = [s \in 1..NewSession |-> IF s = NewSession THEN r ELSE sessions[s]]
    BY <1>2
  <2> HIDE DEF r
  <2> QED BY <1>1, <1>3, <1>4, <2>1, NewSessionAdds
<1>6. leaked' = IF disabled THEN leaked ELSE leaked \cup {k}
  BY <1>2
<1> HIDE DEF r, k
<1>7. \A p \in Obj : \A s : Owns(p, s)' <=> Owns(p, s)
  BY <1>4 DEF Owns
<1>8. HandlesEnabled'
  <2>1. \A p \in Obj, s \in Session : Owns(p, s)' =>
           s \in DOMAIN sessions' /\ sessions'[s].enabled /\ s \notin leaked'
    BY <1>5, <1>6, <1>7 DEF IndInv, HandlesEnabled
  <2>2. \A p, q \in Obj, s \in Session : Owns(p, s)' /\ Owns(q, s)' => p = q
    BY <1>7 DEF IndInv, HandlesEnabled
  <2> QED BY <2>1, <2>2 DEF HandlesEnabled
<1>9. EnabledOwned'
  <2>1. \A s \in DOMAIN sessions' : sessions'[s].enabled => s \in leaked' \/ \E p \in Obj : Owns(p, s)'
    BY <1>3, <1>5, <1>6, <1>7 DEF IndInv, EnabledOwned
  <2> QED BY <2>1 DEF EnabledOwned
<1> QED BY <1>1, <1>5, <1>6, <1>8, <1>9 DEF Ownership

\* An object gives its session up: by ending it, or by leaving it to Windows.
LEMMA OwnershipReleased ==
  ASSUME IndInv, NEW o \in Obj, objects[o] # None, Release(objects[o].handle),
         \A p \in Obj : \A s \in Session : Owns(p, s)' <=> p # o /\ Owns(p, s)
  PROVE  Ownership' /\ SessionsTyped' /\ leaked' \subseteq DOMAIN sessions'
<1> DEFINE h == objects[o].handle
<1>1. /\ SessionsTyped /\ leaked \subseteq DOMAIN sessions
      /\ h \in {NULL} \cup Session
  BY DEF IndInv, TypeOK, SessionsTyped, SessionRecord, Object
<1>2. DOMAIN sessions \subseteq Session /\ NULL \notin Session
  BY <1>1, SessionsNumbered
<1>3. h # NULL => h \in DOMAIN sessions /\ sessions[h].enabled
  BY <1>1 DEF IndInv, HandlesEnabled, Owns
<1>4. \A p \in Obj, s \in Session : Owns(p, s) /\ p # o =>
         s # h /\ s \in DOMAIN sessions /\ sessions[s].enabled /\ s \notin leaked
  BY DEF IndInv, HandlesEnabled, Owns
<1>5. /\ SessionsTyped' /\ DOMAIN sessions' = DOMAIN sessions
      /\ \A s \in DOMAIN sessions : s # h => sessions'[s] = sessions[s]
      /\ leaked \subseteq leaked' /\ leaked' \subseteq leaked \cup ({h} \cap DOMAIN sessions)
      /\ h # NULL => ~sessions'[h].enabled \/ h \in leaked'
  <2>1. CASE h = NULL /\ UNCHANGED <<sessions, leaked>>
    BY <1>1, <2>1 DEF SessionsTyped
  <2>2. CASE h # NULL /\ DisableThreadProfiling(h) /\ UNCHANGED leaked
    <3> HIDE DEF h
    <3> QED BY <1>1, <1>3, <2>2, DisableEnds
  <2>3. CASE h # NULL /\ leaked' = leaked \cup {h} /\ UNCHANGED sessions
    BY <1>1, <1>3, <2>3 DEF SessionsTyped
  <2> QED BY <2>1, <2>2, <2>3 DEF Release
<1>6. \A s \in DOMAIN sessions : sessions[s].enabled /\ s # h =>
         s \in leaked \/ \E p \in Obj : p # o /\ Owns(p, s)
  BY DEF IndInv, EnabledOwned, Owns
<1> HIDE DEF h
<1>7. HandlesEnabled'
  <2>1. \A p \in Obj, s \in Session : Owns(p, s)' =>
           s \in DOMAIN sessions' /\ sessions'[s].enabled /\ s \notin leaked'
    BY <1>4, <1>5
  <2>2. \A p, q \in Obj, s \in Session : Owns(p, s)' /\ Owns(q, s)' => p = q
    BY DEF IndInv, HandlesEnabled
  <2> QED BY <2>1, <2>2 DEF HandlesEnabled
<1>8. EnabledOwned'
  <2>1. \A s \in DOMAIN sessions' : sessions'[s].enabled => s \in leaked' \/ \E p \in Obj : Owns(p, s)'
    BY <1>2, <1>5, <1>6
  <2> QED BY <2>1 DEF EnabledOwned
<1> QED BY <1>1, <1>5, <1>7, <1>8 DEF Ownership

-----------------------------------------------------------------------------
(* The invariant is inductive. *)

\* The type of the sessions, folded and unfolded.
LEMMA TypeSessions ==
  TypeOK <=> /\ life \in [Thread -> {"unborn", "live", "ended"}]
             /\ SessionsTyped
             /\ objects \in [Obj -> Object \cup {None}]
             /\ opening \in [Thread -> Opening \cup {None}]
             /\ leaked \in SUBSET DOMAIN sessions
             /\ read \in Reading \cup {None}
  BY DEF TypeOK, SessionsTyped, SessionRecord

\* No session, no object.
LEMMA InitIndInv == Init => IndInv
<1> SUFFICES ASSUME Init PROVE IndInv
  OBVIOUS
<1>1. sessions \in [1..0 -> SessionRecord] /\ 0 \in 0..MaxSessions /\ DOMAIN sessions = {}
  BY ProfilingAssumption DEF Init
<1>2. SessionsTyped
  BY <1>1 DEF SessionsTyped
<1>3. TypeOK
  BY <1>2, TypeSessions DEF Init
<1>4. LiveIdsDiffer
  BY DEF Init, LiveIdsDiffer, Live
<1>5. HandlesEnabled /\ EnabledOwned
  BY <1>1 DEF Init, HandlesEnabled, EnabledOwned, Owns
<1>6. Bound
  BY DEF Init, Bound, SamplersBound, OpensApart, ReadsOwnThread, HandlesReleased, HandleInUse, IsSampler
<1> QED BY <1>3, <1>4, <1>5, <1>6 DEF IndInv, Bound

\* The conjuncts about samplers, when no object changes.
LEMMA BoundUnchanged ==
  ASSUME IndInv, UNCHANGED <<objects, opening, dups, read>>
  PROVE  Bound'
  BY DEF IndInv, Bound, SamplersBound, OpensApart, ReadsOwnThread, HandlesReleased, HandleInUse, IsSampler

\* A thread starts, with an id that is free, or ends.
LEMMA ThreadIndInv ==
  ASSUME IndInv, NEW t \in Thread, ThreadStart(t) \/ ThreadEnd(t)
  PROVE  IndInv'
<1>1. UNCHANGED <<sessions, objects, opening, dups, leaked, read>>
  BY DEF ThreadStart, ThreadEnd
<1>2. life \in [Thread -> {"unborn", "live", "ended"}]
  BY DEF IndInv, TypeOK
<1>3. TypeOK'
  BY <1>1, <1>2 DEF ThreadStart, ThreadEnd, IndInv, TypeOK
<1>4. LiveIdsDiffer'
  <2>1. CASE ThreadStart(t)
    BY <1>2, <2>1 DEF ThreadStart, IndInv, LiveIdsDiffer, Live
  <2>2. CASE ThreadEnd(t)
    BY <1>2, <2>2 DEF ThreadEnd, IndInv, LiveIdsDiffer, Live
  <2> QED BY <2>1, <2>2
<1>5. HandlesEnabled' /\ EnabledOwned'
  BY <1>1 DEF IndInv, HandlesEnabled, EnabledOwned, Owns
<1>6. Bound'
  BY <1>1, BoundUnchanged
<1> QED BY <1>3, <1>4, <1>5, <1>6 DEF IndInv, Bound

\* The conjuncts about samplers, when an object that is not being opened becomes a profile,
\* stays one, or goes.
LEMMA BoundObject ==
  ASSUME IndInv, NEW o \in Obj, NEW x \in Object \cup {None},
         x # None => x.kind = "profile",
         \A u \in Thread : opening[u] # None => opening[u].obj # o,
         objects' = [objects EXCEPT ![o] = x],
         dups' = {d \in dups : d[1] # o}, UNCHANGED <<opening, read>>
  PROVE  Bound'
<1>1. objects \in [Obj -> Object \cup {None}] /\ opening \in [Thread -> Opening \cup {None}]
  BY DEF IndInv, TypeOK
<1>2. \A p \in Obj : objects'[p] = IF p = o THEN x ELSE objects[p]
  BY <1>1
<1>3. \A p \in Obj : IsSampler(p)' <=> p # o /\ IsSampler(p)
  BY <1>2 DEF IsSampler
<1>4. SamplersBound'
  BY <1>2, <1>3 DEF IndInv, SamplersBound
<1>5. \A p \in Obj, u \in Thread : HandleInUse(p, u)' <=> p # o /\ HandleInUse(p, u)
  BY <1>2, <1>3 DEF HandleInUse
<1>6. HandlesReleased'
  BY <1>5 DEF IndInv, HandlesReleased
<1>7. OpensApart'
  BY <1>1, <1>2 DEF IndInv, OpensApart, Opening
<1>8. ReadsOwnThread'
  BY DEF IndInv, ReadsOwnThread
<1> QED BY <1>4, <1>6, <1>7, <1>8 DEF Bound

\* Objects of a kind have the type of objects.
LEMMA NewObjects ==
  ASSUME NEW s \in {NULL} \cup Session, NEW t \in Thread
  PROVE  /\ Profile(s) \in Object /\ Profile(s).kind = "profile" /\ Profile(s).handle = s
         /\ Sampler(t, s) \in Object /\ Sampler(t, s).kind = "sampler" /\ Sampler(t, s).handle = s
         /\ Sampler(t, s).thread = t /\ Sampler(t, s).id = IdOf[t]
  BY ProfilingAssumption DEF Profile, Sampler, Object

\* The handles of an object that is no sampler and does not become one are none.
LEMMA NoHandles ==
  ASSUME IndInv, NEW o \in Obj, ~IsSampler(o),
         \A u \in Thread : opening[u] # None => opening[u].obj # o
  PROVE  dups = {d \in dups : d[1] # o}
  BY DEF IndInv, HandlesReleased, HandleInUse

\* An object that is there is not being opened.
LEMMA NotOpening ==
  ASSUME IndInv, NEW o \in Obj, objects[o] # None
  PROVE  \A u \in Thread : opening[u] # None => opening[u].obj # o
  BY DEF IndInv, OpensApart

\* The conjunct about threads, when no thread starts or ends.
LEMMA LiveUnchanged ==
  ASSUME IndInv, UNCHANGED life
  PROVE  LiveIdsDiffer'
  BY DEF IndInv, LiveIdsDiffer, Live

\* The conjuncts put together, for a step in which no thread starts or ends.
LEMMA Reassemble ==
  ASSUME IndInv, UNCHANGED life, Ownership', SessionsTyped', leaked' \subseteq DOMAIN sessions',
         Bound', objects' \in [Obj -> Object \cup {None}],
         opening' \in [Thread -> Opening \cup {None}], read' \in Reading \cup {None}
  PROVE  IndInv'
<1>1. life' \in [Thread -> {"unborn", "live", "ended"}]
  BY DEF IndInv, TypeOK
<1>2. TypeOK'
  BY <1>1 DEF TypeOK, SessionsTyped, SessionRecord
<1>3. LiveIdsDiffer'
  BY LiveUnchanged
<1> QED BY <1>2, <1>3 DEF IndInv, Ownership, Bound

\* enable_current_thread_profiling(): the object owns the session it was made for.
LEMMA EnableProfileIndInv ==
  ASSUME IndInv, NEW t \in Thread, NEW o \in Obj, EnableProfile(t, o)
  PROVE  IndInv'
<1> DEFINE x == Profile(NewSession)
<1>1. /\ objects[o] = None /\ EnableThreadProfiling(t) /\ NewSession \in Session
      /\ \A u \in Thread : opening[u] # None => opening[u].obj # o
      /\ objects' = [objects EXCEPT ![o] = x] /\ UNCHANGED <<life, opening, dups, leaked, read>>
  BY DEF EnableProfile, EnableThreadProfiling, Unused
<1>2. x \in Object /\ x.handle = NewSession /\ x.kind = "profile"
  BY <1>1, NewObjects
<1> HIDE DEF x
<1>3. Ownership' /\ SessionsTyped' /\ leaked' \subseteq DOMAIN sessions'
  BY <1>1, <1>2, OwnershipEnabled
<1>4. ~IsSampler(o)
  BY <1>1 DEF IsSampler
<1>5. dups' = {d \in dups : d[1] # o}
  BY <1>1, <1>4, NoHandles
<1>6. Bound'
  BY <1>1, <1>2, <1>5, BoundObject
<1>7. /\ objects' \in [Obj -> Object \cup {None}] /\ read' \in Reading \cup {None}
      /\ opening' \in [Thread -> Opening \cup {None}]
  BY <1>1, <1>2 DEF IndInv, TypeOK
<1> QED BY <1>1, <1>3, <1>6, <1>7, Reassemble

\* The first read fails: the session is ended or given up, and nothing else changes.
LEMMA EnableProfileUnreadIndInv ==
  ASSUME IndInv, NEW t \in Thread, NEW o \in Obj, EnableProfileUnread(t, o)
  PROVE  IndInv'
<1>1. UNCHANGED <<life, objects, opening, dups, read>>
  BY DEF EnableProfileUnread
<1>2. Ownership' /\ SessionsTyped' /\ leaked' \subseteq DOMAIN sessions'
  BY OwnershipUnread
<1>3. Bound'
  BY <1>1, BoundUnchanged
<1>4. /\ objects' \in [Obj -> Object \cup {None}] /\ read' \in Reading \cup {None}
      /\ opening' \in [Thread -> Opening \cup {None}]
  BY <1>1 DEF IndInv, TypeOK
<1> QED BY <1>1, <1>2, <1>3, <1>4, Reassemble

\* Sessions and objects' handles stay as they are.
LEMMA OwnershipKept ==
  ASSUME IndInv, UNCHANGED <<sessions, leaked>>,
         \A p \in Obj : \A s \in Session : Owns(p, s)' <=> Owns(p, s)
  PROVE  Ownership' /\ SessionsTyped' /\ leaked' \subseteq DOMAIN sessions'
<1>1. SessionsTyped /\ leaked \subseteq DOMAIN sessions
  BY TypeSessions DEF IndInv
<1>2. DOMAIN sessions \subseteq Session
  BY <1>1, SessionsNumbered
<1>3. HandlesEnabled'
  <2>1. \A p \in Obj, s \in Session : Owns(p, s)' =>
           s \in DOMAIN sessions' /\ sessions'[s].enabled /\ s \notin leaked'
    BY DEF IndInv, HandlesEnabled
  <2>2. \A p, q \in Obj, s \in Session : Owns(p, s)' /\ Owns(q, s)' => p = q
    BY DEF IndInv, HandlesEnabled
  <2> QED BY <2>1, <2>2 DEF HandlesEnabled
<1>4. EnabledOwned'
  <2>1. \A s \in DOMAIN sessions' : sessions'[s].enabled => s \in leaked' \/ \E p \in Obj : Owns(p, s)'
    BY <1>2 DEF IndInv, EnabledOwned
  <2> QED BY <2>1 DEF EnabledOwned
<1>5. SessionsTyped'
  BY <1>1 DEF SessionsTyped
<1> QED BY <1>1, <1>3, <1>4, <1>5 DEF Ownership

\* DuplicateHandle(): one more thread handle, and a thread that uses it.
LEMMA DuplicateHandleIndInv ==
  ASSUME IndInv, NEW t \in Thread, NEW o \in Obj, NEW profiled \in BOOLEAN,
         DuplicateHandle(t, o, profiled)
  PROVE  IndInv'
<1> DEFINE w == [obj |-> o, profiled |-> profiled]
<1>1. /\ opening[t] = None /\ objects[o] = None
      /\ \A u \in Thread : opening[u] # None => opening[u].obj # o
      /\ opening' = [opening EXCEPT ![t] = w] /\ dups' = dups \cup {<<o, t>>}
      /\ UNCHANGED <<life, sessions, objects, leaked, read>>
      /\ opening \in [Thread -> Opening \cup {None}]
  BY DEF DuplicateHandle, Idle, Unused, IndInv, TypeOK
<1>2. w \in Opening /\ w # None /\ w.obj = o
  BY ProfilingAssumption DEF Opening
<1> HIDE DEF w
<1>3. \A u \in Thread : opening'[u] = IF u = t THEN w ELSE opening[u]
  BY <1>1
<1>4. \A p \in Obj, u \in Thread : HandleInUse(p, u)' <=> (p = o /\ u = t) \/ HandleInUse(p, u)
  BY <1>1, <1>2, <1>3 DEF HandleInUse, IsSampler
<1>5. HandlesReleased'
  BY <1>1, <1>4 DEF IndInv, HandlesReleased
<1>6. OpensApart'
  BY <1>1, <1>2, <1>3 DEF IndInv, OpensApart
<1>7. Bound'
  BY <1>1, <1>5, <1>6 DEF IndInv, Bound, SamplersBound, ReadsOwnThread, IsSampler
<1>8. \A p \in Obj : \A s \in Session : Owns(p, s)' <=> Owns(p, s)
  BY <1>1 DEF Owns
<1>9. Ownership' /\ SessionsTyped' /\ leaked' \subseteq DOMAIN sessions'
  BY <1>1, <1>8, OwnershipKept
<1>10. /\ objects' \in [Obj -> Object \cup {None}] /\ read' \in Reading \cup {None}
       /\ opening' \in [Thread -> Opening \cup {None}]
  BY <1>1, <1>2 DEF IndInv, TypeOK
<1> QED BY <1>1, <1>7, <1>9, <1>10, Reassemble

\* The rest of perfidious_platform_sampler_open(): with a session of its own, or without
\* any, the sampler takes the thread handle over.
LEMMA OpenSamplerIndInv ==
  ASSUME IndInv, NEW t \in Thread, OpenSampler(t)
  PROVE  IndInv'
<1>1. PICK o \in Obj : o = opening[t].obj
  BY DEF OpenSampler, IndInv, TypeOK, Opening
<1>2. /\ opening[t] # None /\ opening[t].obj = o /\ objects[o] = None
      /\ opening' = [opening EXCEPT ![t] = None] /\ UNCHANGED <<life, dups, leaked, read>>
      /\ objects \in [Obj -> Object \cup {None}] /\ opening \in [Thread -> Opening \cup {None}]
  BY <1>1 DEF OpenSampler, IndInv, TypeOK, OpensApart
<1>3. SessionsTyped /\ NULL \notin Session
  BY TypeSessions, SessionsNumbered DEF IndInv
<1>4. PICK h \in {NULL} \cup Session :
        /\ objects' = [objects EXCEPT ![o] = Sampler(t, h)]
        /\ \/ EnableThreadProfiling(t) /\ h = NewSession
           \/ UNCHANGED sessions /\ h = NULL
  <2>1. CASE /\ EnableThreadProfiling(t)
             /\ objects' = [objects EXCEPT ![o] = Sampler(t, NewSession)]
    BY <2>1 DEF EnableThreadProfiling
  <2>2. CASE UNCHANGED sessions /\ objects' = [objects EXCEPT ![o] = Sampler(t, NULL)]
    BY <2>2
  <2> QED BY <1>1, <2>1, <2>2 DEF OpenSampler
<1> DEFINE x == Sampler(t, h)
<1>5. x \in Object /\ x.handle = h /\ x.kind = "sampler" /\ x.thread = t /\ x.id = IdOf[t]
  BY NewObjects
<1>6. x # None
  BY <1>5, ProfilingAssumption
<1>7. objects' = [objects EXCEPT ![o] = x]
  BY <1>4
<1> HIDE DEF x
<1>8. Ownership' /\ SessionsTyped' /\ leaked' \subseteq DOMAIN sessions'
  <2>1. CASE EnableThreadProfiling(t) /\ h = NewSession
    BY <1>2, <1>5, <1>7, <2>1, OwnershipEnabled
  <2>2. CASE UNCHANGED sessions /\ h = NULL
    <3>1. \A p \in Obj : \A s \in Session : Owns(p, s)' <=> Owns(p, s)
      BY <1>2, <1>3, <1>5, <1>7, <2>2 DEF Owns
    <3> QED BY <1>2, <2>2, <3>1, OwnershipKept
  <2> QED BY <1>4, <2>1, <2>2
<1>9. \A p \in Obj : objects'[p] = IF p = o THEN x ELSE objects[p]
  BY <1>2, <1>7
<1>10. \A u \in Thread : opening'[u] = IF u = t THEN None ELSE opening[u]
  BY <1>2
<1>11. \A u \in Thread : opening[u] # None /\ opening[u].obj = o => u = t
  BY <1>2 DEF IndInv, OpensApart
<1>12. \A p \in Obj : IsSampler(p)' <=> p = o \/ IsSampler(p)
  BY <1>5, <1>6, <1>9 DEF IsSampler
<1>13. \A p \in Obj, u \in Thread : HandleInUse(p, u)' <=> HandleInUse(p, u)
  <2>1. ~IsSampler(o)
    BY <1>2 DEF IsSampler
  <2>2. \A u \in Thread : HandleInUse(o, u)' <=> HandleInUse(o, u)
    BY <1>2, <1>5, <1>9, <1>10, <1>11, <1>12, <2>1 DEF HandleInUse
  <2>3. \A p \in Obj, u \in Thread : p # o => (HandleInUse(p, u)' <=> HandleInUse(p, u))
    BY <1>2, <1>9, <1>10, <1>12 DEF HandleInUse
  <2> QED BY <2>2, <2>3
<1>14. HandlesReleased'
  BY <1>2, <1>13 DEF IndInv, HandlesReleased
<1>15. SamplersBound' /\ ReadsOwnThread'
  BY <1>2, <1>5, <1>9, <1>12 DEF IndInv, SamplersBound, ReadsOwnThread
<1>16. OpensApart'
  BY <1>2, <1>9, <1>10, <1>11 DEF IndInv, OpensApart, Opening
<1>17. /\ objects' \in [Obj -> Object \cup {None}] /\ read' \in Reading \cup {None}
       /\ opening' \in [Thread -> Opening \cup {None}]
  BY <1>2, <1>5, <1>7 DEF IndInv, TypeOK
<1>18. Bound'
  BY <1>14, <1>15, <1>16 DEF Bound
<1> QED BY <1>2, <1>8, <1>17, <1>18, Reassemble

\* Profiling could not be enabled: CloseHandle() closes the handle no sampler takes over,
\* and no handle that is still in use.
LEMMA OpenSamplerFailsIndInv ==
  ASSUME IndInv, NEW t \in Thread, OpenSamplerFails(t)
  PROVE  IndInv'
<1>1. PICK o \in Obj : o = opening[t].obj
  BY DEF OpenSamplerFails, IndInv, TypeOK, Opening
<1>2. /\ opening[t] # None /\ opening[t].obj = o /\ objects[o] = None
      /\ opening' = [opening EXCEPT ![t] = None] /\ dups' = dups \ {<<o, t>>}
      /\ UNCHANGED <<life, sessions, objects, leaked, read>>
      /\ opening \in [Thread -> Opening \cup {None}]
  BY <1>1 DEF OpenSamplerFails, IndInv, TypeOK, OpensApart
<1>3. \A u \in Thread : opening'[u] = IF u = t THEN None ELSE opening[u]
  BY <1>2
<1>4. \A p \in Obj, u \in Thread : HandleInUse(p, u)' <=> HandleInUse(p, u) /\ ~(p = o /\ u = t)
  BY <1>2, <1>3 DEF HandleInUse, IsSampler
<1>5. HandlesReleased'
  BY <1>2, <1>4 DEF IndInv, HandlesReleased
<1>6. OpensApart'
  BY <1>2, <1>3 DEF IndInv, OpensApart
<1>7. Bound'
  BY <1>2, <1>5, <1>6 DEF IndInv, Bound, SamplersBound, ReadsOwnThread, IsSampler
<1>8. \A p \in Obj : \A s \in Session : Owns(p, s)' <=> Owns(p, s)
  BY <1>2 DEF Owns
<1>9. Ownership' /\ SessionsTyped' /\ leaked' \subseteq DOMAIN sessions'
  BY <1>2, <1>8, OwnershipKept
<1>10. /\ objects' \in [Obj -> Object \cup {None}] /\ read' \in Reading \cup {None}
       /\ opening' \in [Thread -> Opening \cup {None}]
  BY <1>2 DEF IndInv, TypeOK
<1> QED BY <1>2, <1>7, <1>9, <1>10, Reassemble

\* ThreadProfile::close(): the session ends and the object forgets it.
LEMMA CloseProfileIndInv ==
  ASSUME IndInv, NEW t \in Thread, NEW o \in Obj, CloseProfile(t, o)
  PROVE  IndInv'
<1> DEFINE x == [objects[o] EXCEPT !.handle = NULL]
<1>1. /\ objects[o] # None /\ objects[o].kind = "profile" /\ objects[o].handle # NULL
      /\ DisableThreadProfiling(objects[o].handle) /\ UNCHANGED <<life, opening, dups, leaked, read>>
      /\ objects' = [objects EXCEPT ![o] = x]
      /\ objects \in [Obj -> Object \cup {None}]
  BY DEF CloseProfile, IsProfile, IndInv, TypeOK
<1>2. x \in Object /\ x.handle = NULL /\ x.kind = "profile"
  BY <1>1 DEF Object
<1>3. SessionsTyped /\ NULL \notin Session
  BY TypeSessions, SessionsNumbered DEF IndInv
<1> HIDE DEF x
<1>4. \A p \in Obj : \A s \in Session : Owns(p, s)' <=> p # o /\ Owns(p, s)
  BY <1>1, <1>2, <1>3 DEF Owns
<1>5. Release(objects[o].handle)
  BY <1>1 DEF Release
<1>6. Ownership' /\ SessionsTyped' /\ leaked' \subseteq DOMAIN sessions'
  BY <1>1, <1>4, <1>5, OwnershipReleased
<1>7. ~IsSampler(o)
  BY <1>1 DEF IsSampler
<1>8. dups' = {d \in dups : d[1] # o}
  BY <1>1, <1>7, NotOpening, NoHandles
<1>9. Bound'
  BY <1>1, <1>2, <1>8, NotOpening, BoundObject
<1>10. /\ objects' \in [Obj -> Object \cup {None}] /\ read' \in Reading \cup {None}
       /\ opening' \in [Thread -> Opening \cup {None}]
  BY <1>1, <1>2 DEF IndInv, TypeOK
<1> QED BY <1>1, <1>6, <1>9, <1>10, Reassemble

\* An object goes, and with it its session and, for a sampler, its thread handle.
LEMMA FreeIndInv ==
  ASSUME IndInv, NEW t \in Thread, NEW o \in Obj, FreeProfile(t, o) \/ CloseSampler(t, o)
  PROVE  IndInv'
<1>1. /\ objects[o] # None /\ Release(objects[o].handle) /\ UNCHANGED <<life, opening, read>>
      /\ objects' = [objects EXCEPT ![o] = None]
      /\ objects \in [Obj -> Object \cup {None}]
  BY DEF FreeProfile, CloseSampler, IsProfile, IsSampler, IndInv, TypeOK
<1>2. \A p \in Obj : \A s \in Session : Owns(p, s)' <=> p # o /\ Owns(p, s)
  BY <1>1 DEF Owns
<1>3. Ownership' /\ SessionsTyped' /\ leaked' \subseteq DOMAIN sessions'
  BY <1>1, <1>2, OwnershipReleased
<1>4. dups' = {d \in dups : d[1] # o}
  <2>1. CASE FreeProfile(t, o)
    <3>1. ~IsSampler(o) /\ dups' = dups
      BY <2>1 DEF FreeProfile, IsProfile, IsSampler
    <3> QED BY <1>1, <3>1, NotOpening, NoHandles
  <2>2. CASE CloseSampler(t, o)
    <3>1. dups' = dups \ {<<o, objects[o].thread>>}
      BY <2>2 DEF CloseSampler
    <3>2. \A u \in Thread : HandleInUse(o, u) => u = objects[o].thread
      BY <1>1, NotOpening DEF HandleInUse
    <3> QED BY <3>1, <3>2 DEF IndInv, HandlesReleased
  <2> QED BY <2>1, <2>2
<1>5. Bound'
  BY <1>1, <1>4, NotOpening, BoundObject
<1>6. /\ objects' \in [Obj -> Object \cup {None}] /\ read' \in Reading \cup {None}
      /\ opening' \in [Thread -> Opening \cup {None}]
  BY <1>1 DEF IndInv, TypeOK
<1> QED BY <1>1, <1>3, <1>5, <1>6, Reassemble

\* perfidious_platform_sampler_read(): the reader and the sampler's thread are both
\* alive and have the same id, so they are the same.
LEMMA ReadSamplerIndInv ==
  ASSUME IndInv, NEW t \in Thread, NEW o \in Obj, ReadSampler(t, o)
  PROVE  IndInv'
<1>1. /\ Live(t) /\ IsSampler(o) /\ objects[o].id = IdOf[t] /\ Live(objects[o].thread)
      /\ read' = [reader |-> t, thread |-> objects[o].thread]
      /\ UNCHANGED <<life, sessions, objects, opening, dups, leaked>>
  BY DEF ReadSampler, Idle, OwnThread
<1>2. objects[o].thread \in Thread /\ objects[o].id = IdOf[objects[o].thread]
  BY <1>1 DEF IndInv, SamplersBound
<1>3. objects[o].thread = t
  BY <1>1, <1>2 DEF IndInv, LiveIdsDiffer
<1>4. ReadsOwnThread' /\ read' \in Reading
  BY <1>1, <1>2, <1>3 DEF ReadsOwnThread, Reading
<1>5. Bound' /\ objects' \in [Obj -> Object \cup {None}] /\ opening' \in [Thread -> Opening \cup {None}]
  BY <1>1, <1>4 DEF IndInv, TypeOK, Bound, SamplersBound, OpensApart, HandlesReleased, HandleInUse, IsSampler
<1>6. \A p \in Obj : \A s \in Session : Owns(p, s)' <=> Owns(p, s)
  BY <1>1 DEF Owns
<1>7. Ownership' /\ SessionsTyped' /\ leaked' \subseteq DOMAIN sessions'
  BY <1>1, <1>6, OwnershipKept
<1> QED BY <1>1, <1>4, <1>5, <1>7, Reassemble

\* Every step keeps the invariant.
LEMMA NextIndInv == IndInv /\ [Next]_vars => IndInv'
<1> SUFFICES ASSUME IndInv, [Next]_vars PROVE IndInv'
  OBVIOUS
<1>1. CASE UNCHANGED vars
  BY <1>1 DEF vars, IndInv, TypeOK, LiveIdsDiffer, HandlesEnabled, EnabledOwned, Owns,
              SamplersBound, OpensApart, ReadsOwnThread, HandlesReleased, HandleInUse, IsSampler, Live
<1>2. ASSUME NEW t \in Thread, ThreadStart(t) \/ ThreadEnd(t) PROVE IndInv'
  BY <1>2, ThreadIndInv
<1>3. ASSUME NEW t \in Thread, NEW o \in Obj, EnableProfile(t, o) PROVE IndInv'
  BY <1>3, EnableProfileIndInv
<1>4. ASSUME NEW t \in Thread, NEW o \in Obj, EnableProfileUnread(t, o) PROVE IndInv'
  BY <1>4, EnableProfileUnreadIndInv
<1>5. ASSUME NEW t \in Thread, NEW o \in Obj, NEW profiled \in BOOLEAN, DuplicateHandle(t, o, profiled)
      PROVE  IndInv'
  BY <1>5, DuplicateHandleIndInv
<1>6. ASSUME NEW t \in Thread, OpenSampler(t) PROVE IndInv'
  BY <1>6, OpenSamplerIndInv
<1>7. ASSUME NEW t \in Thread, OpenSamplerFails(t) PROVE IndInv'
  BY <1>7, OpenSamplerFailsIndInv
<1>8. ASSUME NEW t \in Thread, NEW o \in Obj, ReadSampler(t, o) PROVE IndInv'
  BY <1>8, ReadSamplerIndInv
<1>9. ASSUME NEW t \in Thread, NEW o \in Obj, CloseProfile(t, o) PROVE IndInv'
  BY <1>9, CloseProfileIndInv
<1>10. ASSUME NEW t \in Thread, NEW o \in Obj, FreeProfile(t, o) \/ CloseSampler(t, o) PROVE IndInv'
  BY <1>10, FreeIndInv
<1> QED BY <1>1, <1>2, <1>3, <1>4, <1>5, <1>6, <1>7, <1>8, <1>9, <1>10 DEF Next

\* The invariant holds throughout.
THEOREM Invariance == Spec => []IndInv
  BY InitIndInv, NextIndInv, PTL DEF Spec

-----------------------------------------------------------------------------
(* The properties. *)

\* The invariant counts the owners of a session.
LEMMA OwnersCounted == IndInv => SessionOwned
<1> SUFFICES ASSUME IndInv, NEW s \in DOMAIN sessions
             PROVE  LET owners == {o \in Obj : objects[o] # None /\ objects[o].handle = s}
                    IN  /\ sessions[s].enabled =>
                             Cardinality(owners) = 1 \/ (s \in leaked /\ owners = {})
                        /\ ~sessions[s].enabled => owners = {}
  BY DEF SessionOwned
<1> DEFINE owners == {o \in Obj : objects[o] # None /\ objects[o].handle = s}
<1>1. s \in Session
  BY TypeSessions, SessionsNumbered DEF IndInv
<1>2. \A o \in owners : sessions[s].enabled /\ s \notin leaked
  BY <1>1 DEF IndInv, HandlesEnabled, Owns
<1>3. \A o, p \in owners : o = p
  BY <1>1 DEF IndInv, HandlesEnabled, Owns
<1>4. sessions[s].enabled => s \in leaked \/ owners # {}
  BY DEF IndInv, EnabledOwned, Owns
<1>5. ASSUME owners # {} PROVE Cardinality(owners) = 1
  <2>1. PICK o \in owners : TRUE
    BY <1>5
  <2>2. owners = {o}
    BY <1>3, <2>1
  <2> HIDE DEF owners
  <2> QED BY <2>2, FS_Singleton
<1> HIDE DEF owners
<1>6. /\ sessions[s].enabled => Cardinality(owners) = 1 \/ (s \in leaked /\ owners = {})
      /\ ~sessions[s].enabled => owners = {}
  BY <1>2, <1>4, <1>5
<1> QED BY <1>6 DEF owners

\* A session that counts has exactly one object to end it, or Windows refused to end it
\* (enable_current_thread_profiling(), close(), the free handlers and the sampler's close).
THEOREM SessionOwnedAlways == Spec => []SessionOwned
<1>1. IndInv => SessionOwned
  BY OwnersCounted
<1> QED BY <1>1, Invariance, PTL

\* perfidious_platform_sampler_read() succeeds only on the thread that opened the
\* sampler, however thread ids are used again.
THEOREM ReadsOwnThreadAlways == Spec => []ReadsOwnThread
<1>1. IndInv => ReadsOwnThread
  BY DEF IndInv
<1> QED BY <1>1, Invariance, PTL

\* A duplicated thread handle is closed when perfidious_platform_sampler_open() cannot
\* enable profiling, and by perfidious_platform_sampler_close(), profiled or not: none
\* leaks, and none that is still in use is closed.
THEOREM HandlesReleasedAlways == Spec => []HandlesReleased
<1>1. IndInv => HandlesReleased
  BY DEF IndInv
<1> QED BY <1>1, Invariance, PTL

-----------------------------------------------------------------------------
(* ThreadProfile: the inductive invariant. *)

\* Every variable keeps its type; outcome is observed and only compared.
ProfileTypeOK ==
  /\ baseline \in [Wide -> 0..Word - 1]
  /\ count \in [Source -> 0..MaxCount]
  /\ phase \in {"closed", "enabling", "open"}
  /\ mask \in SUBSET HwCounter
  /\ origin \in [Wide -> 0..Word - 1]
  /\ start \in [Source -> 0..MaxCount]

\* The origins of an open profile are the words its counters were at when they were
\* read, and no counter has gone back since; context switches have no origin.
OriginsRead ==
  phase = "open" =>
    /\ \A s \in mask \cup {"cycles"} : origin[s] = (baseline[s] + start[s]) % Word
    /\ \A s \in Source : start[s] <= count[s]
    /\ start["switches"] = 0

ProfileInv == ProfileTypeOK /\ OriginsRead /\ ResultExact /\ OverflowReal

-----------------------------------------------------------------------------
(* Arithmetic of words. *)

\* What the assumptions say of the two widths.
LEMMA Widths ==
  /\ Word \in Nat \ {0} /\ Dword \in Nat \ {0} /\ MaxCount \in 0..Word - 1
  /\ LongMax \in Int /\ LongMax < Word
<1>1. /\ Dword \in Nat \ {0} /\ Word = Dword * Dword /\ Word % 2 = 0
      /\ MaxCount \in 0..Word - 1
  BY ProfileAssumption
<1>2. Word \in Nat \ {0}
  BY <1>1, Z3
<1>3. LongMax \in Int /\ LongMax < Word
  BY <1>2, Z3 DEF LongMax
<1> QED BY <1>1, <1>2, <1>3

\* A number below the width is its own remainder.
LEMMA ModBelow ==
  ASSUME NEW w \in Nat \ {0}, NEW x \in 0..w - 1
  PROVE  x % w = x
  BY SMT

\* One turn past the width, ...
LEMMA ModAbove ==
  ASSUME NEW w \in Nat \ {0}, NEW x \in w..2 * w - 1
  PROVE  x % w = x - w
  BY SMT

\* ... and one turn below zero.
LEMMA ModNegative ==
  ASSUME NEW w \in Nat \ {0}, NEW x \in (-w)..(-1)
  PROVE  x % w = x + w
  BY SMT

\* A remainder is not larger than the number.
LEMMA ModBound ==
  ASSUME NEW w \in Nat \ {0}, NEW x \in Nat
  PROVE  x % w \in 0..w - 1 /\ x % w <= x
  BY SMT

\* Unsigned subtraction of two words of one counter gives the events in between,
\* wherever the counter started and also when it passed zero.
LEMMA DifferenceExact ==
  ASSUME NEW b \in 0..Word - 1, NEW c \in 0..MaxCount, NEW st \in 0..MaxCount, st <= c
  PROVE  Difference((b + c) % Word, (b + st) % Word) = c - st
<1>1. Word \in Nat \ {0} /\ MaxCount \in 0..Word - 1
  BY Widths
<1> DEFINE x == (b + c) % Word
           y == (b + st) % Word
<1>2. \/ b + c \in 0..Word - 1 /\ x = b + c
      \/ b + c \in Word..2 * Word - 1 /\ x = b + c - Word
  <2>1. b + c \in 0..Word - 1 \/ b + c \in Word..2 * Word - 1
    BY <1>1
  <2>2. CASE b + c \in 0..Word - 1
    BY <1>1, <2>2, ModBelow
  <2>3. CASE b + c \in Word..2 * Word - 1
    <3>1. x = (b + c) - Word
      BY <1>1, <2>3, ModAbove
    <3> HIDE DEF x
    <3> QED BY <1>1, <2>3, <3>1
  <2> QED BY <2>1, <2>2, <2>3
<1>3. \/ b + st \in 0..Word - 1 /\ y = b + st
      \/ b + st \in Word..2 * Word - 1 /\ y = b + st - Word
  <2>1. b + st \in 0..Word - 1 \/ b + st \in Word..2 * Word - 1
    BY <1>1
  <2>2. CASE b + st \in 0..Word - 1
    BY <1>1, <2>2, ModBelow
  <2>3. CASE b + st \in Word..2 * Word - 1
    <3>1. y = (b + st) - Word
      BY <1>1, <2>3, ModAbove
    <3> HIDE DEF y
    <3> QED BY <1>1, <2>3, <3>1
  <2> QED BY <2>1, <2>2, <2>3
<1> HIDE DEF x, y
<1>4. \/ x - y \in 0..Word - 1 /\ x - y = c - st
      \/ x - y \in (-Word)..(-1) /\ x - y + Word = c - st
  BY <1>1, <1>2, <1>3
<1>5. (x - y) % Word = c - st
  BY <1>1, <1>4, ModBelow, ModNegative
<1> QED BY <1>5 DEF Difference, x, y

\* The two halves of a FILETIME put together again are the time.
LEMMA FiletimeExact ==
  ASSUME NEW t \in Nat
  PROVE  FiletimeToUint64(Filetime(t)) = t
<1>1. Dword \in Nat \ {0}
  BY Widths
<1>2. (t \div Dword) * Dword + (t % Dword) = t
  BY <1>1, SMT
<1> QED BY <1>2 DEF FiletimeToUint64, Filetime

-----------------------------------------------------------------------------
(* Conversion. *)

\* The outcome is right: both properties of the run, of one outcome.
Right(o) ==
  /\ \A s \in DOMAIN o.values : o.truth[s] < Width(s) => o.values[s] = o.truth[s]
  /\ o.error = "OverflowException" => \E s \in DOMAIN o.truth : o.truth[s] > LongMax
  /\ \A s \in DOMAIN o.values : o.values[s] <= LongMax

\* The two properties are about the outcome alone.
LEMMA RightIsProperties ==
  /\ Right(outcome) <=> ResultExact /\ OverflowReal
  /\ Right(outcome') <=> ResultExact' /\ OverflowReal'
  BY DEF Right, ResultExact, OverflowReal

\* Nothing returned, and nothing thrown about a value.
LEMMA ThrowRight ==
  ASSUME NEW error, error # "OverflowException"
  PROVE  Right([error |-> error, values |-> Nothing, truth |-> Nothing])
  BY DEF Right, Nothing

\* Values that are those they should be, up to the width of the counter, convert to
\* exact integers or to a justified exception.
LEMMA ConvertRight ==
  ASSUME NEW values, NEW truth, DOMAIN values = DOMAIN truth,
         \A s \in DOMAIN values :
            /\ values[s] \in Int /\ truth[s] \in Int
            /\ values[s] <= truth[s]
            /\ truth[s] < Width(s) => values[s] = truth[s],
         Convert(values, truth)
  PROVE  Right(outcome')
<1>1. LongMax \in Int
  BY Widths
<1>2. CASE \E s \in DOMAIN values : TooLarge(values[s])
  <2>1. outcome' = [error |-> "OverflowException", values |-> Nothing, truth |-> truth]
    BY <1>2 DEF Convert
  <2>2. PICK s \in DOMAIN truth : values[s] > LongMax
    BY <1>2 DEF TooLarge
  <2>3. truth[s] > LongMax
    BY <1>1, <2>2
  <2> QED BY <2>1, <2>3 DEF Right, Nothing
<1>3. CASE ~\E s \in DOMAIN values : TooLarge(values[s])
  <2>1. outcome' = [error |-> "none", values |-> values, truth |-> truth]
    BY <1>3 DEF Convert
  <2>2. \A s \in DOMAIN values : values[s] <= LongMax
    BY <1>1, <1>3 DEF TooLarge
  <2> QED BY <2>1, <2>2 DEF Right
<1> QED BY <1>2, <1>3

\* A snapshot: the counters since the origins, the context switches modulo 2^32.
LEMMA ReadRight ==
  ASSUME ProfileInv, Read
  PROVE  Right(outcome')
<1> DEFINE values == [s \in Fields |-> IF s = "switches" THEN count[s] % Dword
                                                       ELSE Difference(Raw(s), origin[s])]
           truth == [s \in Fields |-> count[s] - start[s]]
<1>1. Convert(values, truth) /\ phase = "open"
  BY DEF Read
<1>2. /\ Word \in Nat \ {0} /\ Dword \in Nat \ {0} /\ MaxCount \in Nat
  BY Widths
<1>3. ASSUME NEW s \in Fields
      PROVE  /\ values[s] \in Int /\ truth[s] \in Int /\ values[s] <= truth[s]
             /\ truth[s] < Width(s) => values[s] = truth[s]
  <2>1. s \in Source /\ count[s] \in 0..MaxCount /\ start[s] \in 0..MaxCount /\ start[s] <= count[s]
    BY <1>1 DEF Fields, Source, Wide, ProfileInv, ProfileTypeOK, OriginsRead
  <2>2. CASE s = "switches"
    <3>1. start[s] = 0 /\ values[s] = count[s] % Dword /\ truth[s] = count[s] - start[s]
      BY <1>1, <2>2 DEF ProfileInv, OriginsRead
    <3>2. count[s] \in Nat /\ truth[s] = count[s]
      BY <1>2, <2>1, <3>1
    <3>3. count[s] % Dword \in 0..Dword - 1 /\ count[s] % Dword <= count[s]
      BY <1>2, <3>2, ModBound
    <3>4. count[s] < Dword => count[s] % Dword = count[s]
      BY <1>2, <3>2, ModBelow
    <3> HIDE DEF values, truth
    <3> QED BY <1>2, <2>2, <3>1, <3>2, <3>3, <3>4 DEF Width
  <2>3. CASE s # "switches"
    <3>1. /\ s \in mask \cup {"cycles"} /\ s \in Wide
          /\ baseline[s] \in 0..Word - 1
      BY <2>3 DEF Fields, Wide, ProfileInv, ProfileTypeOK
    <3>2. origin[s] = (baseline[s] + start[s]) % Word
      BY <1>1, <3>1 DEF ProfileInv, OriginsRead
    <3>3. Difference(Raw(s), origin[s]) = count[s] - start[s]
      BY <2>1, <3>1, <3>2, DifferenceExact DEF Raw
    <3>4. values[s] = count[s] - start[s] /\ truth[s] = count[s] - start[s]
      BY <2>3, <3>3
    <3> HIDE DEF values, truth
    <3> QED BY <1>2, <2>1, <3>4
  <2> QED BY <2>2, <2>3
<1>4. DOMAIN values = Fields /\ DOMAIN truth = Fields
  OBVIOUS
<1> HIDE DEF values, truth
<1> QED BY <1>1, <1>3, <1>4, ConvertRight

\* The functions of one native call return what Windows reported.
LEMMA QueryRight ==
  ASSUME NEW w \in Words, NEW v \in Words, QueryWords(w, v) \/ GetTimes(w, v)
  PROVE  Right(outcome')
<1>1. w \in Nat /\ v \in Nat
  BY ProfileAssumption, Widths
<1>2. CASE QueryWords(w, v)
  <2> DEFINE words == [first |-> w, second |-> v]
  <2>1. Convert(words, words)
    BY <1>2 DEF QueryWords
  <2>2. \A s \in DOMAIN words : words[s] \in Nat
    BY <1>1
  <2> HIDE DEF words
  <2> QED BY <2>1, <2>2, ConvertRight
<1>3. CASE GetTimes(w, v)
  <2> DEFINE times == [kernelTime |-> w, userTime |-> v]
             values == [f \in DOMAIN times |-> FiletimeToUint64(Filetime(times[f]))]
  <2>1. Convert(values, times)
    BY <1>3 DEF GetTimes
  <2>2. \A s \in DOMAIN times : times[s] \in Nat
    BY <1>1
  <2>3. \A s \in DOMAIN times : values[s] = times[s]
    <3> HIDE DEF times
    <3> QED BY <2>2, FiletimeExact
  <2>4. DOMAIN values = DOMAIN times
    OBVIOUS
  <2> HIDE DEF values, times
  <2> QED BY <2>1, <2>2, <2>3, <2>4, ConvertRight
<1> QED BY <1>2, <1>3

-----------------------------------------------------------------------------
(* The invariant of ThreadProfile is inductive. *)

\* No session yet, nothing returned.
LEMMA InitProfileInv == ProfileInit => ProfileInv
<1> SUFFICES ASSUME ProfileInit PROVE ProfileInv
  OBVIOUS
<1>1. ProfileTypeOK
  BY Widths DEF ProfileInit, ProfileTypeOK, NoWords, NoEvents
<1>2. Right(outcome)
  BY ThrowRight DEF ProfileInit, Quiet
<1> QED BY <1>1, <1>2, RightIsProperties DEF ProfileInit, ProfileInv, OriginsRead

\* What every step returns is right.
LEMMA NextRight ==
  ASSUME ProfileInv, ProfileNext
  PROVE  Right(outcome')
<1>1. CASE Read
  BY <1>1, ReadRight
<1>2. CASE \E w, v \in Words : QueryWords(w, v) \/ GetTimes(w, v)
  BY <1>2, QueryRight
<1>3. CASE outcome' = Quiet
  BY <1>3, ThrowRight DEF Quiet
<1>4. CASE \E error \in {"ValueError", "ResourceBusyException", "IOException", "ClosedException"} :
              Throw(error)
  BY <1>4, ThrowRight DEF Throw
<1> QED BY <1>1, <1>2, <1>3, <1>4
        DEF ProfileNext, Happen, Enable, EnableFails, ReadOrigin, ReadOriginFails,
            ReadFails, ReadClosed, Close, CloseFails, QueryFails

\* The object and its counters: every step but those named leaves them alone.
LEMMA NextState ==
  ASSUME ProfileInv, ProfileNext
  PROVE  ProfileTypeOK' /\ OriginsRead'
<1>0. Word \in Nat \ {0} /\ MaxCount \in Nat /\ "switches" \notin Wide
  BY Widths, ProfileAssumption DEF Wide
<1>1. ASSUME NEW s \in Source, NEW n \in Steps, Happen(s, n)
      PROVE  ProfileTypeOK' /\ OriginsRead'
  <2>1. n \in Nat /\ count[s] \in 0..MaxCount
    BY ProfileAssumption DEF ProfileInv, ProfileTypeOK
  <2>2. count[s] + n \in 0..MaxCount /\ count[s] + n >= count[s]
    BY <1>0, <1>1, <2>1 DEF Happen
  <2>3. count' = [count EXCEPT ![s] = count[s] + n] /\ UNCHANGED <<baseline, object>> /\ phase # "closed"
    BY <1>1 DEF Happen
  <2>4. count' \in [Source -> 0..MaxCount] /\ \A u \in Source : count'[u] >= count[u]
    BY <1>0, <2>2, <2>3 DEF ProfileInv, ProfileTypeOK
  <2>5. \A u \in Source : start[u] \in Int /\ count[u] \in Int /\ count'[u] \in Int
    BY <1>0, <2>4 DEF ProfileInv, ProfileTypeOK
  <2> QED BY <2>3, <2>4, <2>5 DEF ProfileInv, ProfileTypeOK, OriginsRead, object
<1>2. ASSUME NEW m \in SUBSET HwCounter, NEW words \in [Wide -> Baselines],
             Enable(m, words)
      PROVE  ProfileTypeOK' /\ OriginsRead'
  BY <1>2, ProfileAssumption DEF Enable, ProfileInv, ProfileTypeOK, OriginsRead
<1>3. CASE ReadOrigin
  <2>1. \A s \in Wide : Raw(s) \in 0..Word - 1
    <3>1. \A s \in Wide : baseline[s] + count[s] \in Nat
      BY <1>0 DEF ProfileInv, ProfileTypeOK, Source
    <3> QED BY <1>0, <3>1, ModBound DEF Raw
  <2>2. origin' \in [Wide -> 0..Word - 1] /\ start' \in [Source -> 0..MaxCount]
    <3>1. 0 \in 0..Word - 1 /\ 0 \in 0..MaxCount
      BY <1>0
    <3>2. origin' \in [Wide -> 0..Word - 1]
      BY <1>3, <2>1, <3>1 DEF ReadOrigin
    <3>3. start' \in [Source -> 0..MaxCount]
      BY <1>3, <3>1 DEF ReadOrigin, ProfileInv, ProfileTypeOK
    <3> QED BY <3>2, <3>3
  <2>3. \A s \in Source : count[s] \in 0..MaxCount
    BY DEF ProfileInv, ProfileTypeOK
  <2>4. /\ start' = [count EXCEPT !["switches"] = 0] /\ "switches" \in Source
        /\ UNCHANGED <<native, mask>> /\ phase' = "open"
        /\ origin' = [s \in Wide |-> IF s = "cycles" \/ s \in mask THEN Raw(s) ELSE 0]
    BY <1>3 DEF ReadOrigin, Source
  <2>5. \A s \in Source : start'[s] <= count[s] /\ start'["switches"] = 0
    BY <1>0, <2>3, <2>4 DEF ProfileInv, ProfileTypeOK
  <2>6. \A s \in mask \cup {"cycles"} : s \in Wide /\ s \in Source /\ s # "switches"
    BY <1>0 DEF Wide, Source, ProfileInv, ProfileTypeOK
  <2>7. \A s \in mask \cup {"cycles"} : origin'[s] = (baseline[s] + start'[s]) % Word
    BY <2>4, <2>6 DEF Raw, ProfileInv, ProfileTypeOK
  <2> QED BY <2>2, <2>4, <2>5, <2>7 DEF ProfileInv, ProfileTypeOK, OriginsRead, native
<1>4. CASE EndSession
  BY <1>0, <1>4 DEF EndSession, ProfileTypeOK, OriginsRead, NoWords, NoEvents
<1>5. CASE UNCHANGED <<native, object>>
  BY <1>5 DEF ProfileInv, ProfileTypeOK, OriginsRead, native, object
<1> QED BY <1>1, <1>2, <1>3, <1>4, <1>5
        DEF ProfileNext, EnableFails, ReadOriginFails, Read, ReadFails, ReadClosed, Close, CloseFails,
            QueryWords, GetTimes, QueryFails

\* The invariant holds in every reachable state.
LEMMA ProfileInvariance == ProfileSpec => []ProfileInv
<1>1. ProfileInv /\ [ProfileNext]_profileVars => ProfileInv'
  <2> SUFFICES ASSUME ProfileInv, [ProfileNext]_profileVars PROVE ProfileInv'
    OBVIOUS
  <2>1. CASE ProfileNext
    BY <2>1, NextRight, NextState, RightIsProperties DEF ProfileInv
  <2>2. CASE UNCHANGED profileVars
    BY <2>2 DEF profileVars, ProfileInv, ProfileTypeOK, OriginsRead, ResultExact, OverflowReal
  <2> QED BY <2>1, <2>2
<1> QED BY <1>1, InitProfileInv, PTL DEF ProfileSpec

-----------------------------------------------------------------------------
(* The safety properties of ThreadProfile. *)

\* Every integer the Windows functions and ThreadProfile::read() hand to PHP is exact,
\* for every baseline, and when the word passes zero between origin and read too.
THEOREM ResultExactAlways == ProfileSpec => []ResultExact
  BY ProfileInvariance, PTL DEF ProfileInv

\* An OverflowException is thrown only when a number really is too large for PHP.
THEOREM OverflowRealAlways == ProfileSpec => []OverflowReal
  BY ProfileInvariance, PTL DEF ProfileInv
=============================================================================
