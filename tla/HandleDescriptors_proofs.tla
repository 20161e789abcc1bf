---------------------- MODULE HandleDescriptors_proofs ----------------------
(***************************************************************************)
(* Proofs about HandleDescriptors for every number of threads, objects,    *)
(* descriptors, names and events: every descriptor has one owner, leaders  *)
(* outlive their members, a handle reads what it opened, and no file of    *)
(* the application is closed.                                              *)
(***************************************************************************)
EXTENDS HandleDescriptors, FiniteSetTheorems, TLAPS

-----------------------------------------------------------------------------
(* The inductive invariant. *)

\* Refs, one owner at a time: object, call, local variable or stream k of w has m at i.
Ref(k, w, i, m) ==
  \/ k = "obj" /\ w \in Obj /\ i \in DOMAIN metrics[w] /\ m = metrics[w][i]
  \/ k = "call" /\ w \in Thread /\ i \in DOMAIN call[w].metrics /\ m = call[w].metrics[i]
  \/ k = "local" /\ w \in Thread /\ i = 0 /\ call[w].fd # NoFd /\ m = call[w].fd
  \/ k = "stream" /\ w = 0 /\ i = 0 /\ m \in streams

Opened == [fd : Fd, id : Event]

\* An owner has a number that is its event, no other owner has it, and no number of an
\* event is without an owner.
OwnersRight == \A k, w, i, m : Ref(k, w, i, m) => m \in Opened /\ table[m.fd] = m.id
OwnersApart ==
  \A k, w, i, m, l, v, j, n :
    Ref(k, w, i, m) /\ Ref(l, v, j, n) /\ m.fd = n.fd => k = l /\ w = v /\ i = j /\ m = n
NothingLeaks == \A f \in Fd : table[f] \in Event => \E k, w, i, m : Ref(k, w, i, m) /\ m.fd = f
Owned == OwnersRight /\ OwnersApart /\ NothingLeaks

\* Events are numbered in the order they were created, a leader before its members.
IdsGiven ==
  /\ \A f \in Fd : table[f] \in Event => table[f] < nextId
  /\ \A e \in Event : leader[e] <= e

\* What a thread's call has in hand.
CallRight(t) ==
  /\ call[t].op = "none" => call[t].metrics = <<>> /\ call[t].fd = NoFd
  /\ call[t].op = "open" =>
       call[t].obj \in Obj /\ ThreadOf[call[t].obj] = t /\ metrics[call[t].obj] = <<>>
  /\ call[t].op = "close" => call[t].fd = NoFd
  /\ call[t].op = "stream" =>
       /\ call[t].metrics = <<>> /\ call[t].fd # NoFd
       /\ call[t].obj \in Obj /\ ThreadOf[call[t].obj] = t
       /\ \E i \in DOMAIN metrics[call[t].obj] : metrics[call[t].obj][i].id = call[t].fd.id
CallsRight == \A t \in Thread : CallRight(t)

\* The events a call has opened, the one it has not recorded yet included.
Pending(t) ==
  IF call[t].op = "open" /\ call[t].fd # NoFd THEN Append(call[t].metrics, call[t].fd)
                                              ELSE call[t].metrics

\* The group of an object or of a call.
Group(k, w, m) ==
  \/ k = "obj" /\ w \in Obj /\ m = metrics[w]
  \/ k = "call" /\ w \in Thread /\ m = Pending(w)

\* The group is one: its first event leads it, and it is in the order of creation.
OneGroup(m) ==
  /\ \A i \in DOMAIN m : leader[m[i].id] = m[1].id
  /\ \A i, j \in DOMAIN m : i < j => m[i].id < m[j].id

\* It is all of the group: a duplicate may keep an event alive, but not one of another group.
WholeGroup(m) ==
  \A e \in Event : Live(e) /\ leader[e] = m[1].id => \E i \in DOMAIN m : m[i].id = e

GroupsOne   == \A k, w, m : Group(k, w, m) /\ m # <<>> => OneGroup(m)
GroupsWhole ==
  \A k, w, m : Group(k, w, m) /\ m # <<>> /\ (k = "obj" \/ call[w].op = "open") => WholeGroup(m)
GroupsApart ==
  \A k, w, m, l, v, n :
    Group(k, w, m) /\ Group(l, v, n) /\ m # <<>> /\ n # <<>> /\ m[1].id = n[1].id => k = l /\ w = v

GroupsRight == GroupsOne /\ GroupsWhole /\ GroupsApart

IndInv ==
  /\ TypeOK
  /\ Owned
  /\ IdsGiven
  /\ CallsRight
  /\ GroupsRight

-----------------------------------------------------------------------------
(* Sequences. *)

\* All but the last, and the last.
LEMMA FrontLast ==
  ASSUME NEW S, NEW s \in Seq(S), s # <<>>
  PROVE  /\ Front(s) \in Seq(S) /\ DOMAIN Front(s) = 1..(Len(s) - 1)
         /\ \A i \in 1..(Len(s) - 1) : Front(s)[i] = s[i]
         /\ Last(s) = s[Len(s)] /\ Len(s) \in Nat /\ Len(s) > 0 /\ DOMAIN s = 1..Len(s)
<1>1. Len(s) \in Nat /\ Len(s) > 0 /\ DOMAIN s = 1..Len(s)
  OBVIOUS
<1>2. Front(s) = SubSeq(s, 1, Len(s) - 1)
  BY DEF Front
<1>3. Front(s) \in Seq(S)
  BY <1>1, <1>2
<1>4. Len(Front(s)) = Len(s) - 1
  BY <1>1, <1>2
<1>5. \A i \in 1..(Len(s) - 1) : Front(s)[i] = s[i]
  BY <1>1, <1>2
<1>6. Last(s) = s[Len(s)]
  BY DEF Last
<1> QED BY <1>1, <1>3, <1>4, <1>5, <1>6

\* One more.
LEMMA AppendOne ==
  ASSUME NEW S, NEW s \in Seq(S), NEW x \in S
  PROVE  /\ Append(s, x) \in Seq(S) /\ Append(s, x) # <<>>
         /\ DOMAIN s = 1..Len(s) /\ Len(s) \in Nat
         /\ DOMAIN Append(s, x) = 1..(Len(s) + 1)
         /\ \A i \in 1..Len(s) : Append(s, x)[i] = s[i]
         /\ Append(s, x)[Len(s) + 1] = x
         /\ s = <<>> <=> Len(s) = 0
  OBVIOUS

-----------------------------------------------------------------------------
(* Owners. *)

\* How a step changes who owns what: one owner more, one owner less, one descriptor
\* handed on, everything one owner has handed on.
Gained(k0, w0, i0, m0) ==
  \A k, w, i, m : Ref(k, w, i, m)' <=>
     Ref(k, w, i, m) \/ (k = k0 /\ w = w0 /\ i = i0 /\ m = m0)
Lost(k0, w0, i0, m0) ==
  \A k, w, i, m : Ref(k, w, i, m)' <=>
     Ref(k, w, i, m) /\ ~(k = k0 /\ w = w0 /\ i = i0 /\ m = m0)
Handed(k0, w0, i0, m0, k1, w1, i1) ==
  \A k, w, i, m : Ref(k, w, i, m)' <=>
     \/ Ref(k, w, i, m) /\ ~(k = k0 /\ w = w0 /\ i = i0 /\ m = m0)
     \/ k = k1 /\ w = w1 /\ i = i1 /\ m = m0
AllHanded(k0, w0, k1, w1) ==
  \A k, w, i, m : Ref(k, w, i, m)' <=>
     \/ k = k1 /\ w = w1 /\ Ref(k0, w0, i, m)
     \/ ~(k = k1 /\ w = w1) /\ ~(k = k0 /\ w = w0) /\ Ref(k, w, i, m)

\* Who owns what does not change, nor does the table where there are events.
LEMMA OwnedSame ==
  ASSUME Owned, \A k, w, i, m : Ref(k, w, i, m)' <=> Ref(k, w, i, m),
         \A f \in Fd : table'[f] = table[f] \/ (table[f] \notin Event /\ table'[f] \notin Event)
  PROVE  Owned'
<1>1. OwnersRight'
  <2>1. \A k, w, i, m : Ref(k, w, i, m) => m \in Opened /\ table'[m.fd] = m.id
    BY DEF Owned, OwnersRight, Opened
  <2> QED BY <2>1 DEF OwnersRight
<1>2. OwnersApart'
  BY DEF Owned, OwnersApart
<1>3. NothingLeaks'
  BY DEF Owned, NothingLeaks
<1> QED BY <1>1, <1>2, <1>3 DEF Owned

\* An unused number becomes an event, and gets an owner.
LEMMA OwnedAdd ==
  ASSUME Owned, NEW f \in Fd, NEW e \in Event, table[f] \notin Event,
         table \in [Fd -> Event \cup {Free, File}], table' = [table EXCEPT ![f] = e],
         NEW k0, NEW w0, NEW i0, NEW m0 \in Opened, m0.fd = f, m0.id = e, Gained(k0, w0, i0, m0)
  PROVE  Owned'
<1> USE DEF Gained
<1>1. \A k, w, i, m : Ref(k, w, i, m) => m \in Opened /\ table[m.fd] = m.id /\ m.fd # f
  BY DEF Owned, OwnersRight, Opened
<1>2. OwnersRight'
  <2>1. \A k, w, i, m : Ref(k, w, i, m)' => m \in Opened /\ table'[m.fd] = m.id
    BY <1>1 DEF Opened
  <2> QED BY <2>1 DEF OwnersRight
<1>3. OwnersApart'
  <2>1. ASSUME NEW k, NEW w, NEW i, NEW m, NEW l, NEW v, NEW j, NEW n,
               Ref(k, w, i, m)', Ref(l, v, j, n)', m.fd = n.fd
        PROVE  k = l /\ w = v /\ i = j /\ m = n
    BY <1>1, <2>1 DEF Owned, OwnersApart
  <2> QED BY <2>1 DEF OwnersApart
<1>4. NothingLeaks'
  BY DEF Owned, NothingLeaks
<1> QED BY <1>2, <1>3, <1>4 DEF Owned

\* An owner closes its number and is one no more.
LEMMA OwnedRemove ==
  ASSUME Owned, NEW k0, NEW w0, NEW i0, NEW m0, Ref(k0, w0, i0, m0),
         table \in [Fd -> Event \cup {Free, File}], table' = [table EXCEPT ![m0.fd] = Free],
         Lost(k0, w0, i0, m0)
  PROVE  Owned'
<1> USE DEF Lost
<1>1. /\ m0 \in Opened /\ m0.fd \in Fd
      /\ \A k, w, i, m : Ref(k, w, i, m)' => m \in Opened /\ table[m.fd] = m.id /\ m.fd # m0.fd
  BY DEF Owned, OwnersRight, OwnersApart, Opened
<1>2. OwnersRight'
  <2>1. \A k, w, i, m : Ref(k, w, i, m)' => m \in Opened /\ table'[m.fd] = m.id
    BY <1>1 DEF Opened
  <2> QED BY <2>1 DEF OwnersRight
<1>3. OwnersApart'
  BY DEF Owned, OwnersApart
<1>4. NothingLeaks'
  <2>1. ASSUME NEW f \in Fd, table'[f] \in Event
        PROVE  \E k, w, i, m : Ref(k, w, i, m)' /\ m.fd = f
    <3>1. Free \notin Event
      BY DEF Free, Event
    <3>2. f # m0.fd /\ table[f] \in Event
      BY <1>1, <2>1, <3>1
    <3>3. PICK k, w, i, m : Ref(k, w, i, m) /\ m.fd = f
      BY <3>2 DEF Owned, NothingLeaks
    <3> QED BY <3>2, <3>3
  <2> QED BY <2>1 DEF NothingLeaks
<1> QED BY <1>2, <1>3, <1>4 DEF Owned

\* A number is handed from one owner to another.
LEMMA OwnedMove ==
  ASSUME Owned, NEW k0, NEW w0, NEW i0, NEW m0, Ref(k0, w0, i0, m0), NEW k1, NEW w1, NEW i1,
         UNCHANGED table, k0 # k1, Handed(k0, w0, i0, m0, k1, w1, i1)
  PROVE  Owned'
<1> USE DEF Handed
<1>1. OwnersRight'
  <2>1. \A k, w, i, m : Ref(k, w, i, m)' => m \in Opened /\ table'[m.fd] = m.id
    BY DEF Owned, OwnersRight
  <2> QED BY <2>1 DEF OwnersRight
<1>2. OwnersApart'
  <2>1. ASSUME NEW k, NEW w, NEW i, NEW m, NEW l, NEW v, NEW j, NEW n,
               Ref(k, w, i, m)', Ref(l, v, j, n)', m.fd = n.fd
        PROVE  k = l /\ w = v /\ i = j /\ m = n
    BY <2>1 DEF Owned, OwnersApart
  <2> QED BY <2>1 DEF OwnersApart
<1>3. NothingLeaks'
  BY DEF Owned, NothingLeaks
<1> QED BY <1>1, <1>2, <1>3 DEF Owned

\* Everything one owner has is handed to one that has nothing.
LEMMA OwnedMoveAll ==
  ASSUME Owned, NEW k0, NEW w0, NEW k1, NEW w1, UNCHANGED table,
         AllHanded(k0, w0, k1, w1), \A i, m : ~Ref(k1, w1, i, m)
  PROVE  Owned'
<1> USE DEF AllHanded
<1>1. OwnersRight'
  <2>1. \A k, w, i, m : Ref(k, w, i, m)' => m \in Opened /\ table'[m.fd] = m.id
    BY DEF Owned, OwnersRight
  <2> QED BY <2>1 DEF OwnersRight
<1>2. OwnersApart'
  <2>1. ASSUME NEW k, NEW w, NEW i, NEW m, NEW l, NEW v, NEW j, NEW n,
               Ref(k, w, i, m)', Ref(l, v, j, n)', m.fd = n.fd
        PROVE  k = l /\ w = v /\ i = j /\ m = n
    BY <2>1 DEF Owned, OwnersApart
  <2> QED BY <2>1 DEF OwnersApart
<1>3. NothingLeaks'
  <2>1. ASSUME NEW f \in Fd, table'[f] \in Event
        PROVE  \E k, w, i, m : Ref(k, w, i, m)' /\ m.fd = f
    <3>1. PICK k, w, i, m : Ref(k, w, i, m) /\ m.fd = f
      BY <2>1 DEF Owned, NothingLeaks
    <3>2. CASE k = k0 /\ w = w0
      BY <3>1, <3>2
    <3>3. CASE ~(k = k0 /\ w = w0)
      BY <3>1, <3>3
    <3> QED BY <3>2, <3>3
  <2> QED BY <2>1 DEF NothingLeaks
<1> QED BY <1>1, <1>2, <1>3 DEF Owned

-----------------------------------------------------------------------------
(* Groups. *)

\* What a call has in hand, by what it does.
LEMMA PendingTyped ==
  ASSUME TypeOK, NEW t \in Thread
  PROVE  /\ call[t] \in Calls /\ call[t].metrics \in Seq(Metric) /\ call[t].fd \in Metric
         /\ Pending(t) \in Seq(Metric)
<1>1. call[t] \in Calls
  BY DEF TypeOK
<1>2. call[t].metrics \in Seq(Metric) /\ call[t].fd \in Metric
  BY <1>1 DEF Calls
<1> QED BY <1>1, <1>2, AppendOne DEF Pending

\* The members of a group are open descriptors, hence live.
LEMMA GroupMembers ==
  ASSUME TypeOK, Owned, IdsGiven, NEW k, NEW w, NEW m, Group(k, w, m)
  PROVE  /\ m \in Seq(Metric) /\ DOMAIN m = 1..Len(m) /\ Len(m) \in Nat
         /\ m # <<>> => 1 \in DOMAIN m
         /\ \A i \in DOMAIN m : /\ m[i] \in Opened /\ table[m[i].fd] = m[i].id
                                /\ m[i].fd \in Fd /\ m[i].id \in Event
                                /\ m[i].id < nextId /\ Live(m[i].id)
<1>1. m \in Seq(Metric)
  BY PendingTyped DEF Group, TypeOK
<1>2. DOMAIN m = 1..Len(m) /\ Len(m) \in Nat /\ (m # <<>> => 1 \in DOMAIN m)
  BY <1>1
<1>3. ASSUME NEW i \in DOMAIN m
      PROVE  m[i] \in Opened /\ table[m[i].fd] = m[i].id
  <2>1. CASE k = "obj" /\ w \in Obj /\ m = metrics[w]
    BY <1>3, <2>1 DEF Ref, Owned, OwnersRight
  <2>2. CASE k = "call" /\ w \in Thread /\ m = Pending(w)
    <3>1. call[w].metrics \in Seq(Metric) /\ call[w].fd \in Metric
      BY <2>2, PendingTyped
    <3>2. CASE m = call[w].metrics
      BY <1>3, <2>2, <3>2 DEF Ref, Owned, OwnersRight
    <3>3. CASE m = Append(call[w].metrics, call[w].fd) /\ call[w].fd # NoFd
      <4>1. \/ i \in DOMAIN call[w].metrics /\ m[i] = call[w].metrics[i]
            \/ m[i] = call[w].fd
        BY <1>2, <1>3, <3>1, <3>3, AppendOne
      <4>2. CASE i \in DOMAIN call[w].metrics /\ m[i] = call[w].metrics[i]
        <5>1. Ref("call", w, i, m[i])
          BY <2>2, <4>2 DEF Ref
        <5> QED BY <5>1 DEF Owned, OwnersRight
      <4>3. CASE m[i] = call[w].fd
        <5>1. Ref("local", w, 0, m[i])
          BY <2>2, <3>3, <4>3 DEF Ref
        <5> QED BY <5>1 DEF Owned, OwnersRight
      <4> QED BY <4>1, <4>2, <4>3
    <3> QED BY <2>2, <3>2, <3>3 DEF Pending
  <2> QED BY <2>1, <2>2 DEF Group
<1>4. \A i \in DOMAIN m : m[i].fd \in Fd /\ m[i].id \in Event
  BY <1>3 DEF Opened
<1>5. \A i \in DOMAIN m : m[i].id < nextId /\ Live(m[i].id)
  BY <1>3, <1>4 DEF IdsGiven, Live
<1> QED BY <1>1, <1>2, <1>3, <1>4, <1>5

\* Groups stay, and events may go.
LEMMA GroupsSame ==
  ASSUME GroupsRight, UNCHANGED leader, \A e \in Event : Live(e)' => Live(e),
         \A k, w, m : m # <<>> => (Group(k, w, m)' <=> Group(k, w, m)),
         \A t \in Thread : call'[t].op = "open" => call[t].op = "open" \/ Pending(t)' = <<>>
  PROVE  GroupsRight'
<1>1. GroupsOne'
  BY DEF GroupsRight, GroupsOne, OneGroup
<1>2. GroupsWhole'
  <2>1. ASSUME NEW k, NEW w, NEW m, Group(k, w, m)', m # <<>>, k = "obj" \/ call'[w].op = "open"
        PROVE  WholeGroup(m)'
    <3>1. Group(k, w, m)
      BY <2>1
    <3>2. k = "obj" \/ call[w].op = "open"
      BY <2>1 DEF Group
    <3>3. WholeGroup(m)
      BY <2>1, <3>1, <3>2 DEF GroupsRight, GroupsWhole
    <3> QED BY <3>3 DEF WholeGroup
  <2> QED BY <2>1 DEF GroupsWhole
<1>3. GroupsApart'
  BY DEF GroupsRight, GroupsApart
<1> QED BY <1>1, <1>2, <1>3 DEF GroupsRight

\* How a step changes the groups: one is handed on, one becomes c.
GroupHanded(k0, w0, k1, w1) ==
  \A k, w, m : m # <<>> => (Group(k, w, m)' <=>
     \/ k = k1 /\ w = w1 /\ Group(k0, w0, m)
     \/ ~(k = k1 /\ w = w1) /\ ~(k = k0 /\ w = w0) /\ Group(k, w, m))
GroupBecomes(t, c) ==
  \A k, w, m : m # <<>> => (Group(k, w, m)' <=>
     IF k = "call" /\ w = t THEN m = c ELSE Group(k, w, m))

\* A group is handed over, as it is, to one that had none.
LEMMA GroupsMoved ==
  ASSUME GroupsRight, UNCHANGED leader, \A e \in Event : Live(e)' => Live(e),
         NEW k0, NEW w0, NEW k1, NEW w1, GroupHanded(k0, w0, k1, w1),
         \A t \in Thread : call'[t].op = "open" => call[t].op = "open",
         k1 = "obj" => k0 = "obj" \/ call[w0].op = "open",
         k1 # "obj" => call'[w1].op # "open"
  PROVE  GroupsRight'
<1> USE DEF GroupHanded
<1>1. GroupsOne'
  BY DEF GroupsRight, GroupsOne, OneGroup
<1>2. GroupsWhole'
  <2>1. ASSUME NEW k, NEW w, NEW m, Group(k, w, m)', m # <<>>, k = "obj" \/ call'[w].op = "open"
        PROVE  WholeGroup(m)'
    <3>1. PICK l, v : Group(l, v, m) /\ (l = "obj" \/ call[v].op = "open")
      BY <2>1 DEF Group
    <3>2. WholeGroup(m)
      BY <2>1, <3>1 DEF GroupsRight, GroupsWhole
    <3> QED BY <3>2 DEF WholeGroup
  <2> QED BY <2>1 DEF GroupsWhole
<1>3. GroupsApart'
  <2>1. ASSUME NEW k, NEW w, NEW m, NEW l, NEW v, NEW n, Group(k, w, m)', Group(l, v, n)',
               m # <<>>, n # <<>>, m[1].id = n[1].id
        PROVE  k = l /\ w = v
    BY <2>1 DEF GroupsRight, GroupsApart
  <2> QED BY <2>1 DEF GroupsApart
<1> QED BY <1>1, <1>2, <1>3 DEF GroupsRight

\* A group that is being closed loses its last event.
LEMMA GroupsCut ==
  ASSUME GroupsRight, UNCHANGED leader, \A e \in Event : Live(e)' => Live(e),
         NEW t \in Thread, NEW c, NEW d, Group("call", t, d), d # <<>>,
         DOMAIN c \subseteq DOMAIN d, \A i \in DOMAIN c : c[i] = d[i], c # <<>> => 1 \in DOMAIN c,
         GroupBecomes(t, c),
         \A u \in Thread : call'[u].op = "open" => call[u].op = "open",
         call'[t].op # "open"
  PROVE  GroupsRight'
<1> USE DEF GroupBecomes
<1>1. OneGroup(d)
  BY DEF GroupsRight, GroupsOne
<1>2. c # <<>> => OneGroup(c) /\ c[1].id = d[1].id
  BY <1>1 DEF OneGroup
<1>3. GroupsOne'
  <2>1. \A k, w, m : Group(k, w, m)' /\ m # <<>> => OneGroup(m)
    BY <1>2 DEF GroupsRight, GroupsOne
  <2> QED BY <2>1 DEF GroupsOne, OneGroup
<1>4. GroupsWhole'
  <2>1. ASSUME NEW k, NEW w, NEW m, Group(k, w, m)', m # <<>>, k = "obj" \/ call'[w].op = "open"
        PROVE  WholeGroup(m)'
    <3>1. Group(k, w, m) /\ (k = "obj" \/ call[w].op = "open")
      BY <2>1 DEF Group
    <3>2. WholeGroup(m)
      BY <2>1, <3>1 DEF GroupsRight, GroupsWhole
    <3> QED BY <3>2 DEF WholeGroup
  <2> QED BY <2>1 DEF GroupsWhole
<1>5. GroupsApart'
  <2>1. ASSUME NEW k, NEW w, NEW m, NEW l, NEW v, NEW n, Group(k, w, m)', Group(l, v, n)',
               m # <<>>, n # <<>>, m[1].id = n[1].id
        PROVE  k = l /\ w = v
    <3>1. PICK m0 : Group(k, w, m0) /\ m0 # <<>> /\ m0[1].id = m[1].id
      BY <1>2, <2>1
    <3>2. PICK n0 : Group(l, v, n0) /\ n0 # <<>> /\ n0[1].id = n[1].id
      BY <1>2, <2>1
    <3> QED BY <2>1, <3>1, <3>2 DEF GroupsRight, GroupsApart
  <2> QED BY <2>1 DEF GroupsApart
<1> QED BY <1>3, <1>4, <1>5 DEF GroupsRight

\* A call opens one more event.
LEMMA GroupsGrow ==
  ASSUME TypeOK, Owned, IdsGiven, GroupsRight, nextId \in Event,
         NEW t \in Thread, NEW c \in Seq(Metric), Group("call", t, c), call[t].op = "open",
         NEW x \in Metric, x.id = nextId,
         leader' = [leader EXCEPT ![nextId] = IF c = <<>> THEN nextId ELSE c[1].id],
         \A e \in Event : Live(e)' => Live(e) \/ e = nextId,
         \A k, w, m : Group(k, w, m)' <=>
            IF k = "call" /\ w = t THEN m = Append(c, x) ELSE Group(k, w, m),
         \A u \in Thread : call'[u].op = call[u].op
  PROVE  GroupsRight'
<1> DEFINE d == Append(c, x)
<1>1. /\ DOMAIN c = 1..Len(c) /\ Len(c) \in Nat /\ DOMAIN d = 1..(Len(c) + 1) /\ d # <<>>
      /\ \A i \in DOMAIN c : d[i] = c[i]
      /\ d[Len(c) + 1] = x /\ (c = <<>> <=> Len(c) = 0)
  BY AppendOne
<1>2. /\ leader \in [Event -> Event] /\ leader' \in [Event -> Event] /\ Event \subseteq Int
      /\ nextId \in Int
      /\ \A e \in Event : e # nextId => leader'[e] = leader[e]
      /\ leader'[nextId] = IF c = <<>> THEN nextId ELSE c[1].id
  <2>1. c # <<>> => c[1].id \in Event
    BY GroupMembers
  <2> QED BY <2>1 DEF TypeOK, Event
<1>3. \A k, w, m : Group(k, w, m) =>
         /\ m # <<>> => 1 \in DOMAIN m
         /\ \A i \in DOMAIN m : m[i].id \in Event /\ m[i].id < nextId /\ Live(m[i].id)
  BY GroupMembers
<1>4. d[1].id = leader'[nextId]
  BY <1>1, <1>2
<1>5. \A e \in Event : Live(e) => e < nextId
  BY DEF IdsGiven, Live
<1>6. \A k, w, m : Group(k, w, m) /\ ~(k = "call" /\ w = t) /\ m # <<>> => m[1].id # d[1].id
  <2>1. CASE c = <<>>
    BY <1>2, <1>3, <1>4, <2>1
  <2>2. CASE c # <<>>
    BY <1>2, <1>4, <2>2 DEF GroupsRight, GroupsApart
  <2> QED BY <2>1, <2>2
<1> HIDE DEF d
<1>7. GroupsOne'
  <2>1. ASSUME NEW k, NEW w, NEW m, Group(k, w, m)', m # <<>>
        PROVE  OneGroup(m)'
    <3>1. CASE k = "call" /\ w = t
      <4>1. m = d
        BY <2>1, <3>1 DEF d
      <4>2. c # <<>> => OneGroup(c)
        BY DEF GroupsRight, GroupsOne
      <4>3. ASSUME NEW i \in DOMAIN d
            PROVE  leader'[d[i].id] = d[1].id
        <5>1. CASE i = Len(c) + 1
          BY <1>1, <1>4, <5>1
        <5>2. CASE i \in DOMAIN c
          <6>1. c # <<>> /\ leader[c[i].id] = c[1].id
            BY <1>1, <4>2, <5>2 DEF OneGroup
          <6>2. leader'[c[i].id] = c[1].id
            BY <1>2, <1>3, <5>2, <6>1
          <6> QED BY <1>1, <1>2, <1>4, <5>2, <6>1, <6>2
        <5> QED BY <1>1, <4>3, <5>1, <5>2
      <4>4. ASSUME NEW i \in DOMAIN d, NEW j \in DOMAIN d, i < j
            PROVE  d[i].id < d[j].id
        <5>1. i \in DOMAIN c /\ c # <<>>
          BY <1>1, <4>4
        <5>2. CASE j = Len(c) + 1
          BY <1>1, <1>3, <5>1, <5>2
        <5>3. CASE j \in DOMAIN c
          BY <1>1, <4>2, <4>4, <5>1, <5>3 DEF OneGroup
        <5> QED BY <1>1, <4>4, <5>2, <5>3
      <4> QED BY <4>1, <4>3, <4>4 DEF OneGroup
    <3>2. CASE ~(k = "call" /\ w = t)
      <4>1. Group(k, w, m) /\ OneGroup(m)
        BY <2>1, <3>2 DEF GroupsRight, GroupsOne
      <4>2. \A i \in DOMAIN m : leader'[m[i].id] = leader[m[i].id]
        BY <1>2, <1>3, <4>1
      <4> QED BY <4>1, <4>2 DEF OneGroup
    <3> QED BY <3>1, <3>2
  <2> QED BY <2>1 DEF GroupsOne
<1>8. GroupsWhole'
  <2>1. ASSUME NEW k, NEW w, NEW m, Group(k, w, m)', m # <<>>, k = "obj" \/ call'[w].op = "open",
               NEW e \in Event, Live(e)', leader'[e] = m[1].id
        PROVE  \E i \in DOMAIN m : m[i].id = e
    <3>1. CASE k = "call" /\ w = t
      <4>1. m = d
        BY <2>1, <3>1 DEF d
      <4>2. CASE e = nextId
        BY <1>1, <4>1, <4>2
      <4>3. CASE e # nextId /\ c = <<>>
        <5>1. Live(e) /\ leader[e] <= e /\ leader'[e] = leader[e] /\ leader[e] \in Int /\ e \in Int
          BY <1>2, <2>1, <4>3 DEF IdsGiven
        <5>2. e < nextId
          BY <1>5, <5>1
        <5>3. leader'[e] = nextId
          BY <1>2, <1>4, <2>1, <4>1, <4>3
        <5> QED BY <1>2, <5>1, <5>2, <5>3
      <4>4. CASE e # nextId /\ c # <<>>
        <5>1. WholeGroup(c)
          BY <4>4 DEF GroupsRight, GroupsWhole
        <5>2. Live(e) /\ leader[e] = c[1].id
          BY <1>2, <1>4, <2>1, <4>1, <4>4
        <5>3. \E i \in DOMAIN c : c[i].id = e
          BY <5>1, <5>2 DEF WholeGroup
        <5> QED BY <1>1, <4>1, <5>3
      <4> QED BY <4>2, <4>3, <4>4
    <3>2. CASE ~(k = "call" /\ w = t)
      <4>1. Group(k, w, m) /\ (k = "obj" \/ call[w].op = "open")
        BY <2>1, <3>2 DEF Group
      <4>2. WholeGroup(m)
        BY <2>1, <4>1 DEF GroupsRight, GroupsWhole
      <4>3. e # nextId
        BY <1>4, <1>6, <2>1, <3>2, <4>1
      <4> QED BY <1>2, <2>1, <4>2, <4>3 DEF WholeGroup
    <3> QED BY <3>1, <3>2
  <2> QED BY <2>1 DEF GroupsWhole, WholeGroup
<1>9. GroupsApart'
  <2>1. ASSUME NEW k, NEW w, NEW m, NEW l, NEW v, NEW n, Group(k, w, m)', Group(l, v, n)',
               m # <<>>, n # <<>>, m[1].id = n[1].id
        PROVE  k = l /\ w = v
    <3>1. \/ k = "call" /\ w = t /\ m = d
          \/ ~(k = "call" /\ w = t) /\ Group(k, w, m)
      BY <2>1 DEF d
    <3>2. \/ l = "call" /\ v = t /\ n = d
          \/ ~(l = "call" /\ v = t) /\ Group(l, v, n)
      BY <2>1 DEF d
    <3> QED BY <1>6, <2>1, <3>1, <3>2 DEF GroupsRight, GroupsApart
  <2> QED BY <2>1 DEF GroupsApart
<1> QED BY <1>7, <1>8, <1>9 DEF GroupsRight

-----------------------------------------------------------------------------
(* The table. *)

\* Neither an unused number nor a file is an event.
LEMMA NotEvents == Free \notin Event /\ File \notin Event
  BY DEF Free, File, Event

\* Events are unchanged where the table is.
LEMMA TableSame ==
  ASSUME IdsGiven, UNCHANGED <<nextId, leader>>,
         \A f \in Fd : table'[f] = table[f] \/ (table[f] \notin Event /\ table'[f] \notin Event)
  PROVE  IdsGiven' /\ \A e \in Event : Live(e)' => Live(e)
  BY DEF IdsGiven, Live

\* A number is closed: no event comes to life.
LEMMA NumberClosed ==
  ASSUME TypeOK, IdsGiven, NEW f \in Fd, Close(f), UNCHANGED <<nextId, leader>>
  PROVE  /\ table' \in [Fd -> Event \cup {Free, File}] /\ IdsGiven'
         /\ \A e \in Event : Live(e)' => Live(e)
<1>1. table' \in [Fd -> Event \cup {Free, File}]
  BY DEF TypeOK, Close
<1>2. \A g \in Fd : table'[g] \in Event => table'[g] = table[g]
  BY NotEvents DEF TypeOK, Close
<1> QED BY <1>1, <1>2 DEF IdsGiven, Live

\* A thread takes a step.
LEMMA ThreadSteps ==
  ASSUME TypeOK, NEW t \in Thread, NEW c \in Calls, Step(t, c)
  PROVE  /\ call' \in [Thread -> Calls] /\ call'[t] = c
         /\ \A u \in Thread : u # t => call'[u] = call[u]
  BY DEF TypeOK, Step

LEMMA IdleTyped ==
  /\ Idle \in Calls /\ NoFd \in Metric
  /\ Idle.op = "none" /\ Idle.metrics = <<>> /\ Idle.fd = NoFd
<1>1. MaxNames \in Nat
  BY DescriptorAssumption
<1>2. NoFd \in Metric
  BY DEF NoFd, Metric
<1> QED BY <1>1, <1>2 DEF Idle, Calls

\* Nobody's descriptors change, and those of other files may.
LEMMA QuietStep ==
  ASSUME IndInv, UNCHANGED <<nextId, leader, metrics, streams>>,
         \A f \in Fd : table'[f] = table[f] \/ (table[f] \notin Event /\ table'[f] \notin Event),
         \A t \in Thread : /\ call'[t].metrics = call[t].metrics /\ call'[t].fd = call[t].fd
                           /\ Pending(t)' = Pending(t)
                           /\ call'[t].op = "open" => call[t].op = "open" \/ Pending(t)' = <<>>
  PROVE  Owned' /\ IdsGiven' /\ GroupsRight'
<1>1. \A k, w, i, m : Ref(k, w, i, m)' <=> Ref(k, w, i, m)
  BY DEF Ref
<1>2. Owned'
  BY <1>1, OwnedSame DEF IndInv
<1>3. IdsGiven' /\ \A e \in Event : Live(e)' => Live(e)
  BY TableSame DEF IndInv
<1>4. \A k, w, m : Group(k, w, m)' <=> Group(k, w, m)
  BY DEF Group
<1>5. GroupsRight'
  BY <1>3, <1>4, GroupsSame DEF IndInv
<1> QED BY <1>2, <1>3, <1>5

-----------------------------------------------------------------------------
(* One step of each action. *)

LEMMA FileStep ==
  ASSUME IndInv, NEW f \in Fd, FileOpen(f) \/ FileClose(f)
  PROVE  IndInv'
<1>1. /\ UNCHANGED <<nextId, leader, metrics, streams, call>>
      /\ table' \in [Fd -> Event \cup {Free, File}]
      /\ \A g \in Fd : table'[g] = table[g] \/ (table[g] \notin Event /\ table'[g] \notin Event)
  BY NotEvents DEF FileOpen, FileClose, Alloc, Close, IndInv, TypeOK
<1>2. TypeOK'
  BY <1>1 DEF IndInv, TypeOK
<1>3. CallsRight'
  BY <1>1 DEF IndInv, CallsRight, CallRight
<1>4. \A t \in Thread : /\ call'[t].metrics = call[t].metrics /\ call'[t].fd = call[t].fd
                        /\ Pending(t)' = Pending(t)
                        /\ call'[t].op = "open" => call[t].op = "open" \/ Pending(t)' = <<>>
  BY <1>1 DEF Pending
<1> QED BY <1>1, <1>2, <1>3, <1>4, QuietStep DEF IndInv

LEMMA StreamCloseStep ==
  ASSUME IndInv, NEW s \in streams, StreamClose(s)
  PROVE  IndInv'
<1>1. /\ UNCHANGED <<nextId, leader, metrics, call>> /\ Close(s.fd)
      /\ streams' = streams \ {s}
  BY DEF StreamClose
<1>2. Ref("stream", 0, 0, s) /\ s.fd \in Fd
  BY DEF Ref, IndInv, Owned, OwnersRight, Opened
<1>3. Lost("stream", 0, 0, s)
  BY <1>1 DEF Lost, Ref
<1>4. Owned'
  BY <1>1, <1>2, <1>3, OwnedRemove DEF IndInv, TypeOK, Close
<1>5. /\ table' \in [Fd -> Event \cup {Free, File}] /\ IdsGiven'
      /\ \A e \in Event : Live(e)' => Live(e)
  BY <1>1, <1>2, NumberClosed DEF IndInv
<1>6. TypeOK'
  BY <1>1, <1>5 DEF IndInv, TypeOK
<1>7. CallsRight'
  BY <1>1 DEF IndInv, CallsRight, CallRight
<1>8. \A k, w, m : Group(k, w, m)' <=> Group(k, w, m)
  BY <1>1 DEF Group, Pending
<1>9. GroupsRight'
  BY <1>1, <1>5, <1>8, GroupsSame DEF IndInv
<1> QED BY <1>4, <1>5, <1>6, <1>7, <1>9 DEF IndInv

LEMMA OpenBeginStep ==
  ASSUME IndInv, NEW o \in Obj, NEW n \in 0..MaxNames, OpenBegin(ThreadOf[o], o, n)
  PROVE  IndInv'
<1>1. PICK t \in Thread : t = ThreadOf[o]
  BY DescriptorAssumption
<1>2. PICK c : c = [Idle EXCEPT !.op = "open", !.obj = o, !.names = n]
  OBVIOUS
<1>3. c \in Calls /\ c.op = "open" /\ c.obj = o /\ c.metrics = <<>> /\ c.fd = NoFd
  BY <1>2, IdleTyped DEF Idle, Calls
<1>4. /\ call[t].op = "none" /\ metrics[o] = <<>> /\ Step(t, c)
      /\ UNCHANGED <<table, nextId, leader, metrics, streams>>
  BY <1>1, <1>2 DEF OpenBegin, InCall
<1>5. call' \in [Thread -> Calls] /\ call'[t] = c /\ \A u \in Thread : u # t => call'[u] = call[u]
  BY <1>3, <1>4, ThreadSteps DEF IndInv
<1>6. call[t].metrics = <<>> /\ call[t].fd = NoFd
  BY <1>4 DEF IndInv, CallsRight, CallRight
<1>7. TypeOK'
  BY <1>4, <1>5 DEF IndInv, TypeOK
<1>8. CallsRight'
  BY <1>1, <1>3, <1>4, <1>5 DEF IndInv, CallsRight, CallRight
<1>9. \A u \in Thread : /\ call'[u].metrics = call[u].metrics /\ call'[u].fd = call[u].fd
                        /\ Pending(u)' = Pending(u)
                        /\ call'[u].op = "open" => call[u].op = "open" \/ Pending(u)' = <<>>
  BY <1>3, <1>4, <1>5, <1>6 DEF Pending
<1> QED BY <1>4, <1>7, <1>8, <1>9, QuietStep DEF IndInv

LEMMA OpenEventFailsStep ==
  ASSUME IndInv, NEW t \in Thread, OpenEventFails(t)
  PROVE  IndInv'
<1>1. PICK c : c = [call[t] EXCEPT !.op = "close"]
  OBVIOUS
<1>2. /\ call[t].op = "open" /\ call[t].fd = NoFd /\ Step(t, c)
      /\ UNCHANGED <<table, nextId, leader, metrics, streams>>
  BY <1>1 DEF OpenEventFails, InCall
<1>3. c \in Calls /\ c.op = "close" /\ c.metrics = call[t].metrics /\ c.fd = NoFd
  BY <1>1, <1>2, PendingTyped DEF Calls, IndInv
<1>4. call' \in [Thread -> Calls] /\ call'[t] = c /\ \A u \in Thread : u # t => call'[u] = call[u]
  BY <1>2, <1>3, ThreadSteps DEF IndInv
<1>5. TypeOK'
  BY <1>2, <1>4 DEF IndInv, TypeOK
<1>6. CallsRight'
  BY <1>2, <1>3, <1>4 DEF IndInv, CallsRight, CallRight
<1>7. \A u \in Thread : /\ call'[u].metrics = call[u].metrics /\ call'[u].fd = call[u].fd
                        /\ Pending(u)' = Pending(u)
                        /\ call'[u].op = "open" => call[u].op = "open" \/ Pending(u)' = <<>>
  BY <1>2, <1>3, <1>4 DEF Pending
<1> QED BY <1>2, <1>5, <1>6, <1>7, QuietStep DEF IndInv

LEMMA CloseReturnStep ==
  ASSUME IndInv, NEW t \in Thread, CloseReturn(t)
  PROVE  IndInv'
<1>1. /\ call[t].op = "close" /\ call[t].metrics = <<>> /\ Step(t, Idle)
      /\ UNCHANGED <<table, nextId, leader, metrics, streams>>
  BY DEF CloseReturn, InCall
<1>2. call' \in [Thread -> Calls] /\ call'[t] = Idle /\ \A u \in Thread : u # t => call'[u] = call[u]
  BY <1>1, IdleTyped, ThreadSteps DEF IndInv
<1>3. call[t].fd = NoFd
  BY <1>1 DEF IndInv, CallsRight, CallRight
<1>4. TypeOK'
  BY <1>1, <1>2 DEF IndInv, TypeOK
<1>5. CallsRight'
  BY <1>1, <1>2, IdleTyped DEF IndInv, CallsRight, CallRight
<1>6. \A u \in Thread : /\ call'[u].metrics = call[u].metrics /\ call'[u].fd = call[u].fd
                        /\ Pending(u)' = Pending(u)
                        /\ call'[u].op = "open" => call[u].op = "open" \/ Pending(u)' = <<>>
  BY <1>1, <1>2, <1>3, IdleTyped DEF Pending
<1> QED BY <1>1, <1>4, <1>5, <1>6, QuietStep DEF IndInv

LEMMA OpenEventStep ==
  ASSUME IndInv, NEW t \in Thread, NEW f \in Fd, OpenEvent(t, f)
  PROVE  IndInv'
<1>1. PICK e : e = nextId
  OBVIOUS
<1>2. PICK x : x = [fd |-> f, id |-> e]
  OBVIOUS
<1>3. PICK c : c = [call[t] EXCEPT !.fd = x]
  OBVIOUS
<1>4. PICK d : d = call[t].metrics
  OBVIOUS
<1>5. /\ call[t].op = "open" /\ call[t].fd = NoFd /\ Step(t, c)
      /\ table[f] = Free /\ table' = [table EXCEPT ![f] = e] /\ nextId' = e + 1
      /\ leader' = [leader EXCEPT ![e] = IF d = <<>> THEN e ELSE table[d[1].fd]]
      /\ UNCHANGED <<metrics, streams>>
  BY <1>1, <1>2, <1>3, <1>4 DEF OpenEvent, InCall, Alloc
<1>6. e \in Event /\ e \in Nat /\ nextId' \in 1..MaxEvents + 1
  BY <1>1, <1>5, DescriptorAssumption DEF OpenEvent, IndInv, TypeOK, Event
<1>7. x \in Opened /\ x \in Metric /\ x.fd = f /\ x.id = e /\ x # NoFd /\ d \in Seq(Metric)
  <2>1. f # 0 /\ d \in Seq(Metric)
    BY <1>4, DescriptorAssumption, PendingTyped DEF IndInv
  <2> QED BY <1>2, <1>6, <2>1 DEF Opened, Metric, NoFd
<1>8. c \in Calls /\ c.op = "open" /\ c.metrics = d /\ c.fd = x /\ c.obj = call[t].obj
  BY <1>3, <1>4, <1>5, <1>7, PendingTyped DEF Calls, IndInv
<1>9. call' \in [Thread -> Calls] /\ call'[t] = c /\ \A u \in Thread : u # t => call'[u] = call[u]
  BY <1>5, <1>8, ThreadSteps DEF IndInv
<1>10. Group("call", t, d) /\ (d # <<>> => 1 \in DOMAIN d /\ table[d[1].fd] = d[1].id /\ d[1].id \in Event
                                          /\ d[1].id < e)
  <2>1. Group("call", t, d)
    BY <1>4, <1>5 DEF Group, Pending
  <2> QED BY <1>1, <2>1, GroupMembers DEF IndInv
<1>11. TypeOK'
  BY <1>5, <1>6, <1>9, <1>10 DEF IndInv, TypeOK
<1>12. Owned'
  <2>1. Gained("local", t, 0, x)
    BY <1>4, <1>5, <1>7, <1>8, <1>9 DEF Gained, Ref
  <2>2. Owned /\ table \in [Fd -> Event \cup {Free, File}] /\ table[f] \notin Event
    BY <1>5, NotEvents DEF IndInv, TypeOK
  <2> QED BY <1>5, <1>6, <1>7, <2>1, <2>2, OwnedAdd
<1>13. IdsGiven'
  <2>1. \A g \in Fd : table'[g] \in Event => table'[g] < nextId'
    <3>1. ASSUME NEW g \in Fd, table'[g] \in Event
          PROVE  table'[g] < nextId'
      <4>1. CASE g = f
        BY <1>5, <1>6, <4>1 DEF IndInv, TypeOK
      <4>2. CASE g # f
        <5>1. table'[g] = table[g] /\ table[g] < e
          BY <1>1, <1>5, <3>1, <4>2 DEF IndInv, TypeOK, IdsGiven
        <5> QED BY <1>5, <1>6, <3>1, <5>1 DEF Event
      <4> QED BY <4>1, <4>2
    <3> QED BY <3>1
  <2>2. \A y \in Event : leader'[y] <= y
    BY <1>5, <1>6, <1>10 DEF IndInv, TypeOK, IdsGiven, Event
  <2> QED BY <2>1, <2>2 DEF IdsGiven
<1>14. CallsRight'
  BY <1>5, <1>8, <1>9 DEF IndInv, CallsRight, CallRight
<1>15. GroupsRight'
  <2>1. \A y \in Event : Live(y)' => Live(y) \/ y = nextId
    BY <1>1, <1>5 DEF Live, IndInv, TypeOK
  <2>2. Pending(t)' = Append(d, x) /\ \A u \in Thread : u # t => Pending(u)' = Pending(u)
    BY <1>7, <1>8, <1>9 DEF Pending
  <2>3. \A k, w, m : Group(k, w, m)' <=>
          IF k = "call" /\ w = t THEN m = Append(d, x) ELSE Group(k, w, m)
    BY <1>5, <2>2 DEF Group
  <2>4. \A u \in Thread : call'[u].op = call[u].op
    BY <1>5, <1>8, <1>9
  <2>5. leader' = [leader EXCEPT ![nextId] = IF d = <<>> THEN nextId ELSE d[1].id]
    BY <1>1, <1>5, <1>10
  <2> QED BY <1>1, <1>5, <1>6, <1>7, <1>10, <2>1, <2>3, <2>4, <2>5, GroupsGrow DEF IndInv
<1> QED BY <1>11, <1>12, <1>13, <1>14, <1>15 DEF IndInv

\* The descriptor in a call's local variable.
LEMMA LocalRef ==
  ASSUME IndInv, NEW t \in Thread, call[t].fd # NoFd
  PROVE  /\ Ref("local", t, 0, call[t].fd) /\ call[t].fd \in Opened
         /\ call[t].fd.fd \in Fd /\ call[t].fd.id \in Event
         /\ table[call[t].fd.fd] = call[t].fd.id
<1>1. Ref("local", t, 0, call[t].fd)
  BY DEF Ref
<1>2. call[t].fd \in Opened /\ table[call[t].fd.fd] = call[t].fd.id
  BY <1>1 DEF IndInv, Owned, OwnersRight
<1> QED BY <1>1, <1>2 DEF Opened

LEMMA OpenIdStep ==
  ASSUME IndInv, NEW t \in Thread, OpenId(t)
  PROVE  IndInv'
<1>1. PICK d : d = call[t].metrics
  OBVIOUS
<1>2. PICK x : x = call[t].fd
  OBVIOUS
<1>3. PICK c : c = [call[t] EXCEPT !.fd = NoFd, !.metrics = Append(d, x)]
  OBVIOUS
<1>4. call[t].op = "open" /\ x # NoFd
  BY <1>2 DEF OpenId, InCall
<1>5. d \in Seq(Metric) /\ x \in Metric /\ call[t] \in Calls
  BY <1>1, <1>2, PendingTyped DEF IndInv
<1>6. x = [fd |-> x.fd, id |-> table[x.fd]]
  <2>1. x.id = table[x.fd]
    BY <1>2, <1>4, LocalRef
  <2> QED BY <1>5, <2>1 DEF Metric
<1>7. Step(t, c) /\ UNCHANGED <<table, nextId, leader, metrics, streams>>
  BY <1>1, <1>2, <1>3, <1>5, <1>6 DEF OpenId, Calls
<1>8. c \in Calls /\ c.op = "open" /\ c.metrics = Append(d, x) /\ c.fd = NoFd /\ c.obj = call[t].obj
  <2>1. Append(d, x) \in Seq(Metric)
    BY <1>5, AppendOne
  <2> QED BY <1>3, <1>4, <1>5, <2>1, IdleTyped DEF Calls
<1>9. call' \in [Thread -> Calls] /\ call'[t] = c /\ \A u \in Thread : u # t => call'[u] = call[u]
  BY <1>7, <1>8, ThreadSteps DEF IndInv
<1>10. TypeOK'
  BY <1>7, <1>9 DEF IndInv, TypeOK
<1>11. Owned'
  <2>1. /\ DOMAIN d = 1..Len(d) /\ Len(d) \in Nat /\ DOMAIN Append(d, x) = 1..(Len(d) + 1)
        /\ \A i \in 1..Len(d) : Append(d, x)[i] = d[i]
        /\ Append(d, x)[Len(d) + 1] = x
    BY <1>5, AppendOne
  <2>2. \A i, m : (i \in DOMAIN c.metrics /\ m = c.metrics[i]) <=>
                    (i \in DOMAIN d /\ m = d[i]) \/ (i = Len(d) + 1 /\ m = x)
    BY <1>8, <2>1
  <2> PICK z : z = Len(d) + 1
    OBVIOUS
  <2>3. Handed("local", t, 0, x, "call", t, z)
    <3>1. ASSUME NEW k, NEW w, NEW i, NEW m, ~(w = t /\ k \in {"call", "local"})
          PROVE  Ref(k, w, i, m)' <=> Ref(k, w, i, m)
      BY <1>7, <1>9, <3>1 DEF Ref
    <3>2. ASSUME NEW i, NEW m
          PROVE  /\ Ref("call", t, i, m)' <=> Ref("call", t, i, m) \/ (i = Len(d) + 1 /\ m = x)
                 /\ ~Ref("local", t, i, m)'
                 /\ Ref("local", t, i, m) <=> i = 0 /\ m = x
      BY <1>1, <1>2, <1>4, <1>8, <1>9, <2>2 DEF Ref
    <3> QED BY <3>1, <3>2 DEF Handed
  <2>4. Ref("local", t, 0, x)
    BY <1>2, <1>4, LocalRef
  <2>5. Owned /\ UNCHANGED table
    BY <1>7 DEF IndInv
  <2> QED BY <2>3, <2>4, <2>5, OwnedMove
<1>12. IdsGiven' /\ \A e \in Event : Live(e)' => Live(e)
  BY <1>7, TableSame DEF IndInv
<1>13. CallsRight'
  <2>1. call[t].obj \in Obj /\ ThreadOf[call[t].obj] = t /\ metrics[call[t].obj] = <<>>
    BY <1>4 DEF IndInv, CallsRight, CallRight
  <2>2. CallsRight
    BY DEF IndInv
  <2>3. CallRight(t)'
    BY <1>7, <1>8, <1>9, <2>1 DEF CallRight
  <2>4. \A u \in Thread : u # t => CallRight(u)'
    BY <1>7, <1>9, <2>2 DEF CallsRight, CallRight
  <2> QED BY <2>3, <2>4 DEF CallsRight
<1>14. GroupsRight'
  <2>1. \A u \in Thread : Pending(u)' = Pending(u)
    BY <1>1, <1>2, <1>4, <1>8, <1>9 DEF Pending
  <2>2. \A k, w, m : Group(k, w, m)' <=> Group(k, w, m)
    BY <1>7, <2>1 DEF Group
  <2>3. \A u \in Thread : call'[u].op = call[u].op
    BY <1>4, <1>8, <1>9
  <2> QED BY <1>7, <1>12, <2>2, <2>3, GroupsSame DEF IndInv
<1> QED BY <1>10, <1>11, <1>12, <1>13, <1>14 DEF IndInv

LEMMA OpenIdFailsStep ==
  ASSUME IndInv, NEW t \in Thread, OpenIdFails(t)
  PROVE  IndInv'
<1>1. PICK d : d = call[t].metrics
  OBVIOUS
<1>2. PICK x : x = call[t].fd
  OBVIOUS
<1>3. PICK c : c = [call[t] EXCEPT !.op = "close", !.fd = NoFd]
  OBVIOUS
<1>4. /\ call[t].op = "open" /\ x # NoFd /\ Close(x.fd) /\ Step(t, c)
      /\ UNCHANGED <<nextId, leader, metrics, streams>>
  BY <1>2, <1>3 DEF OpenIdFails, InCall
<1>5. d \in Seq(Metric) /\ x \in Metric /\ call[t] \in Calls
  BY <1>1, <1>2, PendingTyped DEF IndInv
<1>6. c \in Calls /\ c.op = "close" /\ c.metrics = d /\ c.fd = NoFd
  BY <1>1, <1>3, <1>5, IdleTyped DEF Calls
<1>7. call' \in [Thread -> Calls] /\ call'[t] = c /\ \A u \in Thread : u # t => call'[u] = call[u]
  BY <1>4, <1>6, ThreadSteps DEF IndInv
<1>8. Ref("local", t, 0, x) /\ x.fd \in Fd
  BY <1>2, <1>4, LocalRef
<1>9. Owned'
  <2>1. Lost("local", t, 0, x)
    BY <1>1, <1>2, <1>4, <1>6, <1>7 DEF Lost, Ref
  <2> QED BY <1>4, <1>8, <2>1, OwnedRemove DEF IndInv, TypeOK, Close
<1>10. /\ table' \in [Fd -> Event \cup {Free, File}] /\ IdsGiven'
       /\ \A e \in Event : Live(e)' => Live(e)
  BY <1>4, <1>8, NumberClosed DEF IndInv
<1>11. TypeOK'
  BY <1>4, <1>7, <1>10 DEF IndInv, TypeOK
<1>12. CallsRight'
  BY <1>4, <1>6, <1>7 DEF IndInv, CallsRight, CallRight
<1>13. GroupsRight'
  <2>1. PICK a : a = Append(d, x)
    OBVIOUS
  <2>2. Group("call", t, a) /\ a # <<>>
    BY <1>1, <1>2, <1>4, <1>5, <2>1, AppendOne DEF Group, Pending
  <2>3. /\ DOMAIN d \subseteq DOMAIN a /\ \A i \in DOMAIN d : d[i] = a[i]
        /\ d # <<>> => 1 \in DOMAIN d
    BY <1>5, <2>1, AppendOne
  <2>4. Pending(t)' = d /\ \A u \in Thread : u # t => Pending(u)' = Pending(u)
    BY <1>6, <1>7 DEF Pending
  <2>5. GroupBecomes(t, d)
    BY <1>4, <2>4 DEF GroupBecomes, Group
  <2>6. call'[t].op # "open" /\ \A u \in Thread : call'[u].op = "open" => call[u].op = "open"
    BY <1>4, <1>6, <1>7
  <2>7. GroupsRight /\ UNCHANGED leader
    BY <1>4 DEF IndInv
  <2> QED BY <1>10, <2>2, <2>3, <2>5, <2>6, <2>7, GroupsCut
<1> QED BY <1>9, <1>10, <1>11, <1>12, <1>13 DEF IndInv

LEMMA OpenReturnStep ==
  ASSUME IndInv, NEW t \in Thread, OpenReturn(t)
  PROVE  IndInv'
<1>1. PICK d : d = call[t].metrics
  OBVIOUS
<1>2. PICK o : o = call[t].obj
  OBVIOUS
<1>3. /\ call[t].op = "open" /\ call[t].fd = NoFd /\ Step(t, Idle)
      /\ metrics' = [metrics EXCEPT ![o] = d] /\ UNCHANGED <<table, nextId, leader, streams>>
  BY <1>1, <1>2 DEF OpenReturn, InCall
<1>4. d \in Seq(Metric) /\ o \in Obj /\ ThreadOf[o] = t /\ metrics[o] = <<>>
  BY <1>1, <1>2, <1>3, PendingTyped DEF IndInv, CallsRight, CallRight
<1>5. call' \in [Thread -> Calls] /\ call'[t] = Idle /\ \A u \in Thread : u # t => call'[u] = call[u]
  BY <1>3, IdleTyped, ThreadSteps DEF IndInv
<1>6. /\ metrics' \in [Obj -> Seq(Metric)] /\ metrics'[o] = d
      /\ \A p \in Obj : p # o => metrics'[p] = metrics[p]
  BY <1>3, <1>4 DEF IndInv, TypeOK
<1>7. TypeOK'
  BY <1>3, <1>5, <1>6 DEF IndInv, TypeOK
<1>8. Owned'
  <2>1. ASSUME NEW k, NEW w, NEW i, NEW m, ~(k = "obj" /\ w = o), ~(k = "call" /\ w = t)
        PROVE  Ref(k, w, i, m)' <=> Ref(k, w, i, m)
    BY <1>3, <1>5, <1>6, <2>1, IdleTyped DEF Ref
  <2>2. ASSUME NEW i, NEW m
        PROVE  /\ Ref("obj", o, i, m)' <=> Ref("call", t, i, m)
               /\ ~Ref("call", t, i, m)' /\ ~Ref("obj", o, i, m)
    BY <1>1, <1>4, <1>5, <1>6, IdleTyped DEF Ref
  <2>3. AllHanded("call", t, "obj", o)
    BY <2>1, <2>2 DEF AllHanded
  <2>4. Owned /\ UNCHANGED table
    BY <1>3 DEF IndInv
  <2> QED BY <2>2, <2>3, <2>4, OwnedMoveAll
<1>9. IdsGiven' /\ \A e \in Event : Live(e)' => Live(e)
  BY <1>3, TableSame DEF IndInv
<1>10. CallsRight'
  BY <1>4, <1>5, <1>6, IdleTyped DEF IndInv, CallsRight, CallRight
<1>11. GroupsRight'
  <2>1. Pending(t)' = <<>> /\ Pending(t) = d /\ \A u \in Thread : u # t => Pending(u)' = Pending(u)
    BY <1>1, <1>3, <1>5, IdleTyped DEF Pending
  <2>2. GroupHanded("call", t, "obj", o)
    BY <1>4, <1>6, <2>1 DEF GroupHanded, Group
  <2>3. \A u \in Thread : call'[u].op = "open" => call[u].op = "open"
    BY <1>5, IdleTyped
  <2>4. GroupsRight /\ UNCHANGED leader
    BY <1>3 DEF IndInv
  <2> QED BY <1>3, <1>9, <2>2, <2>3, <2>4, GroupsMoved
<1> QED BY <1>7, <1>8, <1>9, <1>10, <1>11 DEF IndInv

LEMMA CloseBeginStep ==
  ASSUME IndInv, NEW o \in Obj, CloseBegin(ThreadOf[o], o)
  PROVE  IndInv'
<1>1. PICK t \in Thread : t = ThreadOf[o]
  BY DescriptorAssumption
<1>2. PICK d : d = metrics[o]
  OBVIOUS
<1>3. PICK c : c = [Idle EXCEPT !.op = "close", !.obj = o, !.metrics = d]
  OBVIOUS
<1>4. /\ call[t].op = "none" /\ Step(t, c)
      /\ metrics' = [metrics EXCEPT ![o] = <<>>] /\ UNCHANGED <<table, nextId, leader, streams>>
  BY <1>1, <1>2, <1>3 DEF CloseBegin, InCall
<1>5. d \in Seq(Metric) /\ call[t].metrics = <<>> /\ call[t].fd = NoFd
  BY <1>2, <1>4 DEF IndInv, TypeOK, CallsRight, CallRight
<1>6. c \in Calls /\ c.op = "close" /\ c.metrics = d /\ c.fd = NoFd
  BY <1>3, <1>5, IdleTyped DEF Idle, Calls
<1>7. call' \in [Thread -> Calls] /\ call'[t] = c /\ \A u \in Thread : u # t => call'[u] = call[u]
  BY <1>4, <1>6, ThreadSteps DEF IndInv
<1>8. /\ metrics' \in [Obj -> Seq(Metric)] /\ metrics'[o] = <<>>
      /\ \A p \in Obj : p # o => metrics'[p] = metrics[p]
  BY <1>4 DEF IndInv, TypeOK
<1>9. TypeOK'
  BY <1>4, <1>7, <1>8 DEF IndInv, TypeOK
<1>10. Owned'
  <2>1. ASSUME NEW k, NEW w, NEW i, NEW m, ~(k = "obj" /\ w = o), ~(k = "call" /\ w = t)
        PROVE  Ref(k, w, i, m)' <=> Ref(k, w, i, m)
    BY <1>4, <1>5, <1>6, <1>7, <1>8, <2>1 DEF Ref
  <2>2. ASSUME NEW i, NEW m
        PROVE  /\ Ref("call", t, i, m)' <=> Ref("obj", o, i, m)
               /\ ~Ref("obj", o, i, m)' /\ ~Ref("call", t, i, m)
    BY <1>2, <1>5, <1>6, <1>7, <1>8 DEF Ref
  <2>3. AllHanded("obj", o, "call", t)
    BY <2>1, <2>2 DEF AllHanded
  <2>4. Owned /\ UNCHANGED table
    BY <1>4 DEF IndInv
  <2> QED BY <2>2, <2>3, <2>4, OwnedMoveAll
<1>11. IdsGiven' /\ \A e \in Event : Live(e)' => Live(e)
  BY <1>4, TableSame DEF IndInv
<1>12. CallsRight'
  BY <1>1, <1>6, <1>7, <1>8 DEF IndInv, CallsRight, CallRight
<1>13. GroupsRight'
  <2>1. Pending(t)' = d /\ Pending(t) = <<>> /\ \A u \in Thread : u # t => Pending(u)' = Pending(u)
    BY <1>4, <1>5, <1>6, <1>7 DEF Pending
  <2>2. GroupHanded("obj", o, "call", t)
    BY <1>2, <1>8, <2>1 DEF GroupHanded, Group
  <2>3. call'[t].op # "open" /\ \A u \in Thread : call'[u].op = "open" => call[u].op = "open"
    BY <1>6, <1>7
  <2>4. GroupsRight /\ UNCHANGED leader
    BY <1>4 DEF IndInv
  <2> QED BY <1>11, <2>2, <2>3, <2>4, GroupsMoved
<1> QED BY <1>9, <1>10, <1>11, <1>12, <1>13 DEF IndInv

LEMMA CloseStepStep ==
  ASSUME IndInv, NEW t \in Thread, CloseStep(t)
  PROVE  IndInv'
<1>1. PICK d : d = call[t].metrics
  OBVIOUS
<1>2. PICK b : b = Front(d)
  OBVIOUS
<1>3. PICK c : c = [call[t] EXCEPT !.metrics = b]
  OBVIOUS
<1>4. d \in Seq(Metric) /\ call[t] \in Calls
  BY <1>1, PendingTyped DEF IndInv
<1>5. /\ call[t].op = "close" /\ d # <<>> /\ Close(Last(d).fd) /\ Step(t, c)
      /\ UNCHANGED <<nextId, leader, metrics, streams>>
  BY <1>1, <1>2, <1>3, <1>4 DEF CloseStep, InCall, Calls
<1>6. PICK z : z = Len(d)
  OBVIOUS
<1>7. /\ b \in Seq(Metric) /\ DOMAIN b = 1..(z - 1) /\ \A i \in 1..(z - 1) : b[i] = d[i]
      /\ Last(d) = d[z] /\ z \in Nat /\ z > 0 /\ DOMAIN d = 1..z
  BY <1>2, <1>4, <1>5, <1>6, FrontLast
<1>8. c \in Calls /\ c.op = "close" /\ c.metrics = b /\ c.fd = call[t].fd
  BY <1>3, <1>4, <1>5, <1>7 DEF Calls
<1>9. call[t].fd = NoFd
  BY <1>5 DEF IndInv, CallsRight, CallRight
<1>10. call' \in [Thread -> Calls] /\ call'[t] = c /\ \A u \in Thread : u # t => call'[u] = call[u]
  BY <1>5, <1>8, ThreadSteps DEF IndInv
<1>11. PICK x : x = d[z]
  OBVIOUS
<1>12. Ref("call", t, z, x) /\ x.fd \in Fd
  <2>1. Ref("call", t, z, x)
    BY <1>1, <1>7, <1>11 DEF Ref
  <2> QED BY <2>1 DEF IndInv, Owned, OwnersRight, Opened
<1>13. Owned'
  <2>1. ASSUME NEW k, NEW w, NEW i, NEW m, ~(k = "call" /\ w = t)
        PROVE  Ref(k, w, i, m)' <=> Ref(k, w, i, m)
    BY <1>5, <1>8, <1>10, <2>1 DEF Ref
  <2>2. ASSUME NEW i, NEW m
        PROVE  Ref("call", t, i, m)' <=> Ref("call", t, i, m) /\ ~(i = z /\ m = x)
    <3>1. Ref("call", t, i, m)' <=> i \in 1..(z - 1) /\ m = d[i]
      BY <1>7, <1>8, <1>10 DEF Ref
    <3>2. Ref("call", t, i, m) <=> i \in 1..z /\ m = d[i]
      BY <1>1, <1>7 DEF Ref
    <3> QED BY <1>7, <1>11, <3>1, <3>2
  <2>3. Lost("call", t, z, x)
    BY <2>1, <2>2 DEF Lost
  <2>4. Owned /\ table \in [Fd -> Event \cup {Free, File}] /\ table' = [table EXCEPT ![x.fd] = Free]
    BY <1>5, <1>7, <1>11 DEF IndInv, TypeOK, Close
  <2> QED BY <1>12, <2>3, <2>4, OwnedRemove
<1>14. /\ table' \in [Fd -> Event \cup {Free, File}] /\ IdsGiven'
       /\ \A e \in Event : Live(e)' => Live(e)
  BY <1>5, <1>7, <1>11, <1>12, NumberClosed DEF IndInv
<1>15. TypeOK'
  BY <1>5, <1>10, <1>14 DEF IndInv, TypeOK
<1>16. CallsRight'
  BY <1>5, <1>8, <1>9, <1>10 DEF IndInv, CallsRight, CallRight
<1>17. GroupsRight'
  <2>1. Pending(t)' = b /\ Pending(t) = d /\ \A u \in Thread : u # t => Pending(u)' = Pending(u)
    BY <1>1, <1>5, <1>8, <1>10 DEF Pending
  <2>2. GroupBecomes(t, b) /\ Group("call", t, d)
    BY <1>5, <2>1 DEF GroupBecomes, Group
  <2>3. DOMAIN b \subseteq DOMAIN d /\ (\A i \in DOMAIN b : b[i] = d[i]) /\ (b # <<>> => 1 \in DOMAIN b)
    BY <1>7
  <2>4. call'[t].op # "open" /\ \A u \in Thread : call'[u].op = "open" => call[u].op = "open"
    BY <1>8, <1>10
  <2>5. GroupsRight /\ UNCHANGED leader
    BY <1>5 DEF IndInv
  <2> QED BY <1>5, <1>14, <2>2, <2>3, <2>4, <2>5, GroupsCut
<1> QED BY <1>13, <1>14, <1>15, <1>16, <1>17 DEF IndInv

LEMMA StreamDupStep ==
  ASSUME IndInv, NEW o \in Obj, NEW i, NEW f \in Fd, StreamDup(ThreadOf[o], o, i, f)
  PROVE  IndInv'
<1>1. PICK t \in Thread : t = ThreadOf[o]
  BY DescriptorAssumption
<1>2. PICK n : n = metrics[o][i]
  OBVIOUS
<1>3. PICK x : x = [fd |-> f, id |-> n.id]
  OBVIOUS
<1>4. PICK c : c = [Idle EXCEPT !.op = "stream", !.obj = o, !.fd = x]
  OBVIOUS
<1>5. i \in DOMAIN metrics[o] /\ n \in Opened /\ table[n.fd] = n.id /\ n.id \in Event /\ n.fd \in Fd
  <2>1. Ref("obj", o, i, n)
    BY <1>2 DEF StreamDup, Ref
  <2>2. n \in Opened /\ table[n.fd] = n.id
    BY <2>1 DEF IndInv, Owned, OwnersRight
  <2> QED BY <2>2 DEF StreamDup, Opened
<1>6. /\ call[t].op = "none" /\ Step(t, c)
      /\ table[f] = Free /\ table' = [table EXCEPT ![f] = n.id]
      /\ UNCHANGED <<nextId, leader, metrics, streams>>
  BY <1>1, <1>2, <1>3, <1>4, <1>5 DEF StreamDup, InCall, Alloc
<1>7. x \in Opened /\ x \in Metric /\ x.fd = f /\ x.id = n.id /\ x # NoFd
  <2>1. f # 0
    BY DescriptorAssumption
  <2> QED BY <1>3, <1>5, <2>1 DEF Opened, Metric, NoFd
<1>8. c \in Calls /\ c.op = "stream" /\ c.metrics = <<>> /\ c.fd = x /\ c.obj = o
  BY <1>4, <1>7, IdleTyped DEF Idle, Calls
<1>9. call' \in [Thread -> Calls] /\ call'[t] = c /\ \A u \in Thread : u # t => call'[u] = call[u]
  BY <1>6, <1>8, ThreadSteps DEF IndInv
<1>10. call[t].metrics = <<>> /\ call[t].fd = NoFd
  BY <1>6 DEF IndInv, CallsRight, CallRight
<1>11. /\ table \in [Fd -> Event \cup {Free, File}] /\ table' \in [Fd -> Event \cup {Free, File}]
       /\ \A g \in Fd : table'[g] = IF g = f THEN n.id ELSE table[g]
  BY <1>5, <1>6 DEF IndInv, TypeOK
<1>12. TypeOK'
  BY <1>6, <1>9, <1>11 DEF IndInv, TypeOK
<1>13. Owned'
  <2>1. Gained("local", t, 0, x)
    BY <1>6, <1>7, <1>8, <1>9, <1>10 DEF Gained, Ref
  <2>2. Owned /\ table[f] \notin Event
    BY <1>6, NotEvents DEF IndInv
  <2> QED BY <1>5, <1>6, <1>7, <1>11, <2>1, <2>2, OwnedAdd
<1>14. IdsGiven' /\ \A e \in Event : Live(e)' => Live(e)
  <2>1. \A g \in Fd : table'[g] \in Event => \E h \in Fd : table'[g] = table[h]
    BY <1>5, <1>11
  <2> QED BY <1>6, <2>1 DEF IndInv, IdsGiven, Live
<1>15. CallsRight'
  BY <1>1, <1>2, <1>5, <1>6, <1>7, <1>8, <1>9 DEF IndInv, CallsRight, CallRight
<1>16. GroupsRight'
  <2>1. \A u \in Thread : Pending(u)' = Pending(u)
    BY <1>6, <1>8, <1>9, <1>10 DEF Pending
  <2>2. \A k, w, m : Group(k, w, m)' <=> Group(k, w, m)
    BY <1>6, <2>1 DEF Group
  <2>3. \A u \in Thread : call'[u].op = "open" => call[u].op = "open"
    BY <1>8, <1>9
  <2> QED BY <1>6, <1>14, <2>2, <2>3, GroupsSame DEF IndInv
<1> QED BY <1>12, <1>13, <1>14, <1>15, <1>16 DEF IndInv

LEMMA StreamReturnStep ==
  ASSUME IndInv, NEW t \in Thread, StreamReturn(t)
  PROVE  IndInv'
<1>1. PICK x : x = call[t].fd
  OBVIOUS
<1>2. /\ call[t].op = "stream" /\ streams' = streams \cup {x} /\ Step(t, Idle)
      /\ UNCHANGED <<table, nextId, leader, metrics>>
  BY <1>1 DEF StreamReturn, InCall
<1>3. x # NoFd /\ call[t].metrics = <<>> /\ x \in Metric
  BY <1>1, <1>2, PendingTyped DEF IndInv, CallsRight, CallRight
<1>4. call' \in [Thread -> Calls] /\ call'[t] = Idle /\ \A u \in Thread : u # t => call'[u] = call[u]
  BY <1>2, IdleTyped, ThreadSteps DEF IndInv
<1>5. TypeOK'
  BY <1>2, <1>3, <1>4 DEF IndInv, TypeOK
<1>6. Owned'
  <2>1. Ref("local", t, 0, x)
    BY <1>1, <1>3, LocalRef
  <2>2. Handed("local", t, 0, x, "stream", 0, 0)
    BY <1>1, <1>2, <1>3, <1>4, IdleTyped DEF Handed, Ref
  <2>3. Owned /\ UNCHANGED table
    BY <1>2 DEF IndInv
  <2> QED BY <2>1, <2>2, <2>3, OwnedMove
<1>7. IdsGiven' /\ \A e \in Event : Live(e)' => Live(e)
  BY <1>2, TableSame DEF IndInv
<1>8. CallsRight'
  BY <1>2, <1>4, IdleTyped DEF IndInv, CallsRight, CallRight
<1>9. GroupsRight'
  <2>1. \A u \in Thread : Pending(u)' = Pending(u)
    BY <1>2, <1>3, <1>4, IdleTyped DEF Pending
  <2>2. \A k, w, m : Group(k, w, m)' <=> Group(k, w, m)
    BY <1>2, <2>1 DEF Group
  <2>3. \A u \in Thread : call'[u].op = "open" => call[u].op = "open"
    BY <1>4, IdleTyped
  <2> QED BY <1>2, <1>7, <2>2, <2>3, GroupsSame DEF IndInv
<1> QED BY <1>5, <1>6, <1>7, <1>8, <1>9 DEF IndInv

LEMMA StreamFailsStep ==
  ASSUME IndInv, NEW t \in Thread, StreamFails(t)
  PROVE  IndInv'
<1>1. PICK x : x = call[t].fd
  OBVIOUS
<1>2. /\ call[t].op = "stream" /\ Close(x.fd) /\ Step(t, Idle)
      /\ UNCHANGED <<nextId, leader, metrics, streams>>
  BY <1>1 DEF StreamFails, InCall
<1>3. x # NoFd /\ call[t].metrics = <<>>
  BY <1>1, <1>2 DEF IndInv, CallsRight, CallRight
<1>4. call' \in [Thread -> Calls] /\ call'[t] = Idle /\ \A u \in Thread : u # t => call'[u] = call[u]
  BY <1>2, IdleTyped, ThreadSteps DEF IndInv
<1>5. Ref("local", t, 0, x) /\ x.fd \in Fd
  BY <1>1, <1>3, LocalRef
<1>6. /\ table' \in [Fd -> Event \cup {Free, File}] /\ IdsGiven'
      /\ \A e \in Event : Live(e)' => Live(e)
  BY <1>2, <1>5, NumberClosed DEF IndInv
<1>7. TypeOK'
  BY <1>2, <1>4, <1>6 DEF IndInv, TypeOK
<1>8. Owned'
  <2>1. Lost("local", t, 0, x)
    BY <1>1, <1>2, <1>3, <1>4, IdleTyped DEF Lost, Ref
  <2>2. Owned /\ table \in [Fd -> Event \cup {Free, File}] /\ table' = [table EXCEPT ![x.fd] = Free]
    BY <1>2 DEF IndInv, TypeOK, Close
  <2> QED BY <1>5, <2>1, <2>2, OwnedRemove
<1>9. CallsRight'
  BY <1>2, <1>4, IdleTyped DEF IndInv, CallsRight, CallRight
<1>10. GroupsRight'
  <2>1. \A u \in Thread : Pending(u)' = Pending(u)
    BY <1>2, <1>3, <1>4, IdleTyped DEF Pending
  <2>2. \A k, w, m : Group(k, w, m)' <=> Group(k, w, m)
    BY <1>2, <2>1 DEF Group
  <2>3. \A u \in Thread : call'[u].op = "open" => call[u].op = "open"
    BY <1>4, IdleTyped
  <2> QED BY <1>2, <1>6, <2>2, <2>3, GroupsSame DEF IndInv
<1> QED BY <1>6, <1>7, <1>8, <1>9, <1>10 DEF IndInv

-----------------------------------------------------------------------------
(* The invariant always holds. *)

LEMMA InitIndInv == Init => IndInv
<1> SUFFICES ASSUME Init PROVE IndInv
  OBVIOUS
<1>1. \A k, w, i, m : ~Ref(k, w, i, m)
  BY IdleTyped DEF Init, Ref
<1>2. \A f \in Fd : table[f] \notin Event
  BY NotEvents DEF Init
<1>3. TypeOK
  <2>1. MaxEvents \in Nat /\ Idle \in Calls
    BY DescriptorAssumption, IdleTyped
  <2> QED BY <2>1 DEF Init, TypeOK, Event
<1>4. Owned
  BY <1>1, <1>2 DEF Owned, OwnersRight, OwnersApart, NothingLeaks
<1>5. IdsGiven
  BY <1>2 DEF Init, IdsGiven, Event
<1>6. CallsRight
  BY IdleTyped DEF Init, CallsRight, CallRight
<1>7. \A k, w, m : Group(k, w, m) => m = <<>>
  BY IdleTyped DEF Init, Group, Pending
<1>8. GroupsRight
  BY <1>7 DEF GroupsRight, GroupsOne, GroupsWhole, GroupsApart
<1> QED BY <1>3, <1>4, <1>5, <1>6, <1>8 DEF IndInv

LEMMA NextIndInv == IndInv /\ [Next]_vars => IndInv'
<1> SUFFICES ASSUME IndInv, [Next]_vars PROVE IndInv'
  OBVIOUS
<1>1. ASSUME NEW f \in Fd, FileOpen(f) \/ FileClose(f) PROVE IndInv'
  BY <1>1, FileStep
<1>2. ASSUME NEW s \in streams, StreamClose(s) PROVE IndInv'
  BY <1>2, StreamCloseStep
<1>3. ASSUME NEW o \in Obj, NEW n \in 0..MaxNames, OpenBegin(ThreadOf[o], o, n) PROVE IndInv'
  BY <1>3, OpenBeginStep
<1>4. ASSUME NEW o \in Obj, CloseBegin(ThreadOf[o], o) PROVE IndInv'
  BY <1>4, CloseBeginStep
<1>5. ASSUME NEW o \in Obj, NEW i \in 1..MaxNames + 1, NEW f \in Fd, StreamDup(ThreadOf[o], o, i, f)
      PROVE  IndInv'
  BY <1>5, StreamDupStep
<1>6. ASSUME NEW t \in Thread, NEW f \in Fd, OpenEvent(t, f) PROVE IndInv'
  BY <1>6, OpenEventStep
<1>7. ASSUME NEW t \in Thread, OpenEventFails(t) \/ OpenId(t) \/ OpenIdFails(t) \/ OpenReturn(t)
      PROVE  IndInv'
  BY <1>7, OpenEventFailsStep, OpenIdStep, OpenIdFailsStep, OpenReturnStep
<1>8. ASSUME NEW t \in Thread, CloseStep(t) \/ CloseReturn(t) PROVE IndInv'
  BY <1>8, CloseStepStep, CloseReturnStep
<1>9. ASSUME NEW t \in Thread, StreamReturn(t) \/ StreamFails(t) PROVE IndInv'
  BY <1>9, StreamReturnStep, StreamFailsStep
<1>10. CASE UNCHANGED vars
  <2>1. /\ UNCHANGED <<table, nextId, leader, metrics, streams, call>>
    BY <1>10 DEF vars
  <2>2. \A t \in Thread : Pending(t)' = Pending(t)
    BY <2>1 DEF Pending
  <2>3. TypeOK' /\ CallsRight'
    BY <2>1 DEF IndInv, TypeOK, CallsRight, CallRight
  <2> QED BY <2>1, <2>2, <2>3, QuietStep DEF IndInv
<1> QED BY <1>1, <1>2, <1>3, <1>4, <1>5, <1>6, <1>7, <1>8, <1>9, <1>10 DEF Next

\* The descriptors, the objects and the calls of all threads fit together in every
\* reachable state.
THEOREM Invariance == Spec => []IndInv
  BY InitIndInv, NextIndInv, PTL DEF Spec

-----------------------------------------------------------------------------
(* What the invariant says of the properties. *)

LEMMA RefsAreRef ==
  \A r : r \in Refs <=> \E k, w, i, m : r = <<k, w, i, m>> /\ Ref(k, w, i, m)
<1>1. \A r : r \in HandleRefs <=>
         \E w, i, m : r = <<"obj", w, i, m>> /\ Ref("obj", w, i, m)
  BY DEF HandleRefs, Ref
<1>2. \A r : r \in CallRefs <=>
         \E w, i, m : r = <<"call", w, i, m>> /\ Ref("call", w, i, m)
  BY DEF CallRefs, Ref
<1>3. \A r : r \in LocalRefs <=>
         \E w, i, m : r = <<"local", w, i, m>> /\ Ref("local", w, i, m)
  BY DEF LocalRefs, Ref
<1>4. \A r : r \in StreamRefs <=>
         \E w, i, m : r = <<"stream", w, i, m>> /\ Ref("stream", w, i, m)
  BY DEF StreamRefs, Ref
<1>5. \A k, w, i, m : Ref(k, w, i, m) => k \in {"obj", "call", "local", "stream"}
  BY DEF Ref
<1> QED BY <1>1, <1>2, <1>3, <1>4, <1>5 DEF Refs

LEMMA IndInvOneOwner == IndInv => OneOwner
<1> SUFFICES ASSUME IndInv PROVE OneOwner
  OBVIOUS
<1>1. ASSUME NEW r \in Refs
      PROVE  table[r[4].fd] = r[4].id
  <2>1. PICK k, w, i, m : r = <<k, w, i, m>> /\ Ref(k, w, i, m)
    BY RefsAreRef
  <2> QED BY <2>1 DEF IndInv, Owned, OwnersRight
<1>2. ASSUME NEW f \in Fd, table[f] \in Event
      PROVE  Cardinality({r \in Refs : r[4].fd = f}) = 1
  <2>1. PICK k, w, i, m : Ref(k, w, i, m) /\ m.fd = f
    BY <1>2 DEF IndInv, Owned, NothingLeaks
  <2>2. <<k, w, i, m>> \in Refs
    BY <2>1, RefsAreRef
  <2>3. ASSUME NEW r \in Refs, r[4].fd = f
        PROVE  r = <<k, w, i, m>>
    <3>1. PICK l, v, j, n : r = <<l, v, j, n>> /\ Ref(l, v, j, n)
      BY RefsAreRef
    <3>2. n.fd = m.fd
      BY <2>1, <2>3, <3>1
    <3> QED BY <2>1, <3>1, <3>2 DEF IndInv, Owned, OwnersApart
  <2>4. {r \in Refs : r[4].fd = f} = {<<k, w, i, m>>}
    BY <2>1, <2>2, <2>3
  <2> QED BY <2>4, FS_Singleton
<1> QED BY <1>1, <1>2 DEF OneOwner

\* A group's first event is live, and leads the others.
LEMMA GroupLed ==
  ASSUME IndInv, NEW k, NEW w, NEW m, Group(k, w, m), NEW i \in DOMAIN m
  PROVE  Live(leader[m[i].id])
<1>1. m # <<>>
  OBVIOUS
<1>2. leader[m[i].id] = m[1].id
  BY <1>1 DEF IndInv, GroupsRight, GroupsOne, OneGroup
<1> QED BY <1>1, <1>2, GroupMembers DEF IndInv

LEMMA IndInvLeaderOutlives == IndInv => LeaderOutlivesMembers
<1> SUFFICES ASSUME IndInv, NEW r \in Refs \ StreamRefs PROVE Live(leader[r[4].id])
  BY DEF LeaderOutlivesMembers
<1>1. PICK k, w, i, m : r = <<k, w, i, m>> /\ Ref(k, w, i, m)
  BY RefsAreRef
<1>2. k # "stream"
  BY <1>1 DEF Ref, StreamRefs
<1>3. CASE k = "obj"
  <2>1. Group("obj", w, metrics[w]) /\ i \in DOMAIN metrics[w] /\ m = metrics[w][i]
    BY <1>1, <1>3 DEF Ref, Group
  <2> QED BY <1>1, <2>1, GroupLed
<1>4. CASE k = "call"
  <2>1. w \in Thread /\ i \in DOMAIN call[w].metrics /\ m = call[w].metrics[i]
    BY <1>1, <1>4 DEF Ref
  <2>2. Group("call", w, Pending(w)) /\ call[w].metrics \in Seq(Metric) /\ call[w].fd \in Metric
    BY <2>1, PendingTyped DEF Group, IndInv
  <2>3. i \in DOMAIN Pending(w) /\ m = Pending(w)[i]
    BY <2>1, <2>2, AppendOne DEF Pending
  <2> QED BY <1>1, <2>2, <2>3, GroupLed
<1>5. CASE k = "local"
  <2>1. w \in Thread /\ call[w].fd # NoFd /\ m = call[w].fd
    BY <1>1, <1>5 DEF Ref
  <2>2. call[w].metrics \in Seq(Metric) /\ call[w].fd \in Metric /\ call[w] \in Calls
    BY <2>1, PendingTyped DEF IndInv
  <2>3. call[w].op = "open" \/ call[w].op = "stream"
    BY <2>1, <2>2 DEF Calls, IndInv, CallsRight, CallRight
  <2>4. CASE call[w].op = "open"
    <3>1. Group("call", w, Pending(w)) /\ Pending(w) = Append(call[w].metrics, m)
      BY <2>1, <2>4 DEF Group, Pending
    <3>2. Len(call[w].metrics) + 1 \in DOMAIN Pending(w) /\ Pending(w)[Len(call[w].metrics) + 1] = m
      BY <2>1, <2>2, <3>1, AppendOne
    <3> QED BY <1>1, <3>1, <3>2, GroupLed
  <2>5. CASE call[w].op = "stream"
    <3>1. PICK o : o = call[w].obj
      OBVIOUS
    <3>2. o \in Obj /\ \E j \in DOMAIN metrics[o] : metrics[o][j].id = m.id
      BY <2>1, <2>5, <3>1 DEF IndInv, CallsRight, CallRight
    <3>3. Group("obj", o, metrics[o])
      BY <3>2 DEF Group
    <3> QED BY <1>1, <3>2, <3>3, GroupLed
  <2> QED BY <2>3, <2>4, <2>5
<1> QED BY <1>1, <1>2, <1>3, <1>4, <1>5 DEF Ref

LEMMA IndInvReadMatches == IndInv => ReadMatchesMetrics
<1> SUFFICES ASSUME IndInv, NEW o \in Obj, metrics[o] # <<>>
             PROVE  LET ids == [i \in DOMAIN metrics[o] |-> metrics[o][i].id]
                    IN  /\ {e \in Event : e < nextId /\ Live(e) /\ leader[e] = ids[1]} =
                             {ids[i] : i \in DOMAIN ids}
                        /\ \A i, j \in DOMAIN ids : i < j => ids[i] < ids[j]
  BY DEF ReadMatchesMetrics
<1> DEFINE m   == metrics[o]
           ids == [i \in DOMAIN m |-> m[i].id]
<1>1. Group("obj", o, m)
  BY DEF Group
<1>2. OneGroup(m) /\ WholeGroup(m)
  BY <1>1 DEF IndInv, GroupsRight, GroupsOne, GroupsWhole
<1>3. /\ 1 \in DOMAIN m
      /\ \A i \in DOMAIN m : m[i].id \in Event /\ m[i].id < nextId /\ Live(m[i].id)
  BY <1>1, GroupMembers DEF IndInv
<1>4. DOMAIN ids = DOMAIN m /\ ids[1] = m[1].id /\ \A i \in DOMAIN m : ids[i] = m[i].id
  BY <1>3
<1>5. \A i \in DOMAIN m : leader[m[i].id] = m[1].id
  BY <1>2 DEF OneGroup
<1>6. \A e \in Event : Live(e) /\ leader[e] = m[1].id => \E i \in DOMAIN m : m[i].id = e
  BY <1>2 DEF WholeGroup
<1>7. \A i, j \in DOMAIN m : i < j => m[i].id < m[j].id
  BY <1>2 DEF OneGroup
<1> HIDE DEF m, ids
<1>8. {e \in Event : e < nextId /\ Live(e) /\ leader[e] = ids[1]} = {ids[i] : i \in DOMAIN ids}
  BY <1>3, <1>4, <1>5, <1>6
<1>9. \A i, j \in DOMAIN ids : i < j => ids[i] < ids[j]
  BY <1>4, <1>7
<1> QED BY <1>8, <1>9 DEF m, ids

\* A descriptor that is closed is an event of its owner, and one that is opened was unused.
LEMMA StepSparesFiles ==
  ASSUME IndInv, [Next]_vars, NEW f \in Fd, table[f] = File, table'[f] # File
  PROVE  UNCHANGED <<metrics, streams, call>>
<1>1. table \in [Fd -> Event \cup {Free, File}] /\ Free # File
  BY DEF IndInv, TypeOK, Free, File
<1>2. ASSUME NEW g \in Fd, table[g] # File, \E file : table' = [table EXCEPT ![g] = file]
      PROVE  FALSE
  BY <1>1, <1>2
<1>3. \A k, w, i, m : Ref(k, w, i, m) => m.fd \in Fd /\ table[m.fd] # File
  BY NotEvents DEF IndInv, Owned, OwnersRight, Opened
<1>4. ASSUME NEW g \in Fd, FileOpen(g) \/ FileClose(g) PROVE UNCHANGED <<metrics, streams, call>>
  BY <1>4 DEF FileOpen, FileClose
<1>5. ASSUME NEW s \in streams, StreamClose(s) PROVE FALSE
  <2>1. Ref("stream", 0, 0, s)
    BY DEF Ref
  <2> QED BY <1>2, <1>3, <1>5, <2>1 DEF StreamClose, Close
<1>6. ASSUME NEW o \in Obj, NEW i, NEW g \in Fd, StreamDup(ThreadOf[o], o, i, g) PROVE FALSE
  BY <1>1, <1>2, <1>6 DEF StreamDup, Alloc
<1>7. ASSUME NEW t \in Thread, NEW g \in Fd, OpenEvent(t, g) PROVE FALSE
  BY <1>1, <1>2, <1>7 DEF OpenEvent, Alloc
<1>8. ASSUME NEW t \in Thread, OpenIdFails(t) PROVE FALSE
  <2>1. Ref("local", t, 0, call[t].fd)
    BY <1>8 DEF OpenIdFails, Ref
  <2> QED BY <1>2, <1>3, <1>8, <2>1 DEF OpenIdFails, Close
<1>9. ASSUME NEW t \in Thread, StreamFails(t) PROVE FALSE
  <2>1. Ref("local", t, 0, call[t].fd)
    BY <1>9 DEF StreamFails, InCall, Ref, IndInv, CallsRight, CallRight
  <2> QED BY <1>2, <1>3, <1>9, <2>1 DEF StreamFails, Close
<1>10. ASSUME NEW t \in Thread, CloseStep(t) PROVE FALSE
  <2>1. call[t].metrics # <<>> /\ call[t].metrics \in Seq(Metric)
    BY <1>10, PendingTyped DEF CloseStep, IndInv
  <2>2. PICK d \in Seq(Metric) : d = call[t].metrics
    BY <2>1
  <2>3. Last(d) = d[Len(d)] /\ Len(d) \in DOMAIN d
    <3>1. d # <<>>
      BY <2>1, <2>2
    <3>2. Len(d) > 0 /\ Len(d) \in Nat /\ DOMAIN d = 1..Len(d) /\ Last(d) = d[Len(d)]
      BY <3>1, FrontLast
    <3> QED BY <3>2
  <2>4. Ref("call", t, Len(d), Last(d))
    BY <2>2, <2>3 DEF Ref
  <2> QED BY <1>2, <1>3, <1>10, <2>2, <2>4 DEF CloseStep, Close
<1>11. CASE UNCHANGED table
  BY <1>11
<1> QED
  <2>1. CASE UNCHANGED vars
    BY <1>11, <2>1 DEF vars
  <2>2. ASSUME NEW o \in Obj, NEW n, OpenBegin(ThreadOf[o], o, n) \/ CloseBegin(ThreadOf[o], o)
        PROVE  UNCHANGED table
    BY <2>2 DEF OpenBegin, CloseBegin
  <2>3. ASSUME NEW t \in Thread,
               \/ OpenEventFails(t) \/ OpenId(t) \/ OpenReturn(t) \/ CloseReturn(t) \/ StreamReturn(t)
        PROVE  UNCHANGED table
    BY <2>3 DEF OpenEventFails, OpenId, OpenReturn, CloseReturn, StreamReturn
  <2> QED BY <1>4, <1>5, <1>6, <1>7, <1>8, <1>9, <1>10, <1>11, <2>1, <2>2, <2>3 DEF Next

-----------------------------------------------------------------------------
(* Theorems. *)

\* Every variable keeps its type.
THEOREM TypeCorrect == Spec => []TypeOK
<1>1. IndInv => TypeOK
  BY DEF IndInv
<1> QED BY <1>1, Invariance, PTL

\* Every perf descriptor has exactly one owner and every owner's number is still the
\* event it was opened for, on every failing step of open(), close() and rawStream()
\* and however many threads share the descriptor table.
THEOREM OneOwnerAlways == Spec => []OneOwner
  BY Invariance, IndInvOneOwner, PTL

\* A handle is closed from its last event to its leader: no event but a stream's
\* duplicate outlives its group leader.
THEOREM LeaderOutlivesMembersAlways == Spec => []LeaderOutlivesMembers
  BY Invariance, IndInvLeaderOutlives, PTL

\* A group read of an open handle returns one entry per metric, in the order of the
\* metrics: perfidious_handle_read_to_array_with_times() meets no "ID mismatch".
THEOREM ReadMatchesMetricsAlways == Spec => []ReadMatchesMetrics
  BY Invariance, IndInvReadMatches, PTL

\* No step of a handle closes a file of the application, also when another thread was
\* given a number just closed.
THEOREM FilesUntouchedAlways == Spec => FilesUntouched
<1>1. IndInv /\ [Next]_vars =>
        [\A f \in Fd : (table[f] = File /\ table'[f] # File) => UNCHANGED <<metrics, streams, call>>]_vars
  BY StepSparesFiles
<1> QED BY <1>1, Invariance, PTL DEF Spec, FilesUntouched
=============================================================================
