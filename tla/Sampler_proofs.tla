--------------------------- MODULE Sampler_proofs ---------------------------
(***************************************************************************)
(* Proofs about Sampler for every number of samplers, samples, addresses   *)
(* and reads and every ZEND_LONG_MAX: identity blocks are counted, since() *)
(* tells samplers apart, and subtracts the samples of one in order.        *)
(***************************************************************************)
EXTENDS Sampler, FiniteSetTheorems, TLAPS

-----------------------------------------------------------------------------
(* The inductive invariant. *)

\* Who refers to an identity block.
SamplerRefs(a) == {s \in DOMAIN sampler : sampler[s].identity = a}
SampleRefs(a)  == {x \in DOMAIN sample : sample[x].identity = a}

\* There are finitely many objects, wherever they may be placed.
FinitelyMany == IsFiniteSet(DOMAIN sampler) /\ IsFiniteSet(DOMAIN sample)

\* Samplers that exist at the same time have different blocks and numbers.
SamplersApart ==
  \A s, t \in DOMAIN sampler :
    sampler[s].identity = sampler[t].identity \/ sampler[s].number = sampler[t].number => s = t

\* A sampler's origin is not after now, and was taken before its first read.
OriginsPast ==
  \A s \in DOMAIN sampler :
    /\ sampler[s].number <= opens
    /\ sampler[s].timeOrigin <= clock /\ sampler[s].origin <= sampler[s].total
    /\ sampler[s].state = "opening" => sampler[s].reads = 0

\* Samples of a sampler that still exists: they share its block, and its next read
\* comes after them.
SamplesBefore ==
  \A s \in DOMAIN sampler, x \in DOMAIN sample :
    /\ sample[x].identity = sampler[s].identity <=> sample[x].number = sampler[s].number
    /\ sample[x].number = sampler[s].number =>
         /\ sample[x].order < sampler[s].reads
         /\ sample[x].time + sampler[s].timeOrigin <= clock
         /\ sample[x].value + sampler[s].origin <= sampler[s].total

\* Samples share a block when they are of the same sampler, and grow in the order taken.
SamplesOrdered ==
  /\ \A x \in DOMAIN sample : sample[x].number <= opens
  /\ \A x, y \in DOMAIN sample :
       /\ sample[x].identity = sample[y].identity <=> sample[x].number = sample[y].number
       /\ sample[x].number = sample[y].number /\ sample[x].order >= sample[y].order =>
            sample[x].time >= sample[y].time /\ sample[x].value >= sample[y].value

IndInv ==
  /\ TypeOK
  /\ FinitelyMany
  /\ IdentityCounted
  /\ SamplersApart
  /\ OriginsPast
  /\ SamplesBefore
  /\ SamplesOrdered

-----------------------------------------------------------------------------
(* Counting references. *)

\* A function without one of its values.
LEMMA WithoutRight ==
  ASSUME NEW f, NEW x
  PROVE  /\ DOMAIN Without(f, x) = DOMAIN f \ {x}
         /\ \A y \in DOMAIN f \ {x} : Without(f, x)[y] = f[y]
  BY DEF Without

\* A reference more is counted once.
LEMMA CountUp ==
  ASSUME NEW S, IsFiniteSet(S), NEW T, IsFiniteSet(T), NEW x, x \notin S
  PROVE  /\ Cardinality(S \cup {x}) + Cardinality(T) = (Cardinality(S) + Cardinality(T)) + 1
         /\ Cardinality(T) + Cardinality(S \cup {x}) = (Cardinality(T) + Cardinality(S)) + 1
<1>1. Cardinality(S \cup {x}) = Cardinality(S) + 1
  BY FS_AddElement
<1>2. Cardinality(S) \in Nat /\ Cardinality(T) \in Nat
  BY FS_CardinalityType
<1> QED BY <1>1, <1>2

\* A reference less, too; there was one to count.
LEMMA CountDown ==
  ASSUME NEW S, IsFiniteSet(S), NEW T, IsFiniteSet(T), NEW x, x \in S
  PROVE  /\ Cardinality(S \ {x}) + Cardinality(T) = (Cardinality(S) + Cardinality(T)) - 1
         /\ Cardinality(T) + Cardinality(S \ {x}) = (Cardinality(T) + Cardinality(S)) - 1
         /\ (Cardinality(S) + Cardinality(T)) - 1 \in Nat
         /\ (Cardinality(T) + Cardinality(S)) - 1 \in Nat
<1>1. Cardinality(S \ {x}) = Cardinality(S) - 1
  BY FS_RemoveElement
<1>2. Cardinality(S) \in Nat /\ Cardinality(T) \in Nat /\ Cardinality(S \ {x}) \in Nat
  BY FS_CardinalityType, FS_RemoveElement
<1> QED BY <1>1, <1>2

\* The sets of references are finite.
LEMMA RefsFinite ==
  ASSUME FinitelyMany, NEW a
  PROVE  IsFiniteSet(SamplerRefs(a)) /\ IsFiniteSet(SampleRefs(a))
<1>1. SamplerRefs(a) \in SUBSET DOMAIN sampler /\ SampleRefs(a) \in SUBSET DOMAIN sample
  BY DEF SamplerRefs, SampleRefs
<1> QED BY <1>1, FS_Subset DEF FinitelyMany

\* A block that is not counted has no reference to it.
LEMMA Unreferenced ==
  ASSUME FinitelyMany, IdentityCounted, NEW a \in Addr, refcount[a] = 0
  PROVE  SamplerRefs(a) = {} /\ SampleRefs(a) = {}
<1> DEFINE m == Cardinality(SamplerRefs(a))
           n == Cardinality(SampleRefs(a))
<1>1. m \in Nat /\ n \in Nat
  BY RefsFinite, FS_CardinalityType
<1>2. m + n = 0
  BY DEF IdentityCounted, SamplerRefs, SampleRefs
<1>3. m = 0 /\ n = 0
  <2> HIDE DEF m, n
  <2> QED BY <1>1, <1>2
<1> QED BY <1>3, RefsFinite, FS_EmptySet

\* The same references, the same counts.
LEMMA CountedSame ==
  ASSUME IdentityCounted, UNCHANGED refcount,
         \A a \in Addr : SamplerRefs(a)' = SamplerRefs(a) /\ SampleRefs(a)' = SampleRefs(a)
  PROVE  IdentityCounted'
  BY DEF IdentityCounted, SamplerRefs, SampleRefs

\* A sampler, or a sample, is added that refers to block b.
LEMMA CountedUp ==
  ASSUME TypeOK, FinitelyMany, IdentityCounted, NEW b \in Addr, NEW x,
         refcount' = [refcount EXCEPT ![b] = @ + 1],
         \A a \in Addr : a # b => SamplerRefs(a)' = SamplerRefs(a) /\ SampleRefs(a)' = SampleRefs(a),
         \/ SamplerRefs(b)' = SamplerRefs(b) \cup {x} /\ SampleRefs(b)' = SampleRefs(b) /\ x \notin SamplerRefs(b)
         \/ SamplerRefs(b)' = SamplerRefs(b) /\ SampleRefs(b)' = SampleRefs(b) \cup {x} /\ x \notin SampleRefs(b)
  PROVE  IdentityCounted' /\ refcount' \in [Addr -> Nat]
<1>1. refcount \in [Addr -> Nat]
  BY DEF TypeOK
<1>2. \A a \in Addr : refcount[a] = Cardinality(SamplerRefs(a)) + Cardinality(SampleRefs(a))
  BY DEF IdentityCounted, SamplerRefs, SampleRefs
<1>3. IsFiniteSet(SamplerRefs(b)) /\ IsFiniteSet(SampleRefs(b))
  BY RefsFinite
<1>4. Cardinality(SamplerRefs(b)') + Cardinality(SampleRefs(b)')
        = (Cardinality(SamplerRefs(b)) + Cardinality(SampleRefs(b))) + 1
  BY <1>3, CountUp
<1>5. refcount'[b] = refcount[b] + 1 /\ \A a \in Addr : a # b => refcount'[a] = refcount[a]
  BY <1>1
<1>6. refcount'[b] = Cardinality(SamplerRefs(b)') + Cardinality(SampleRefs(b)')
  BY <1>2, <1>4, <1>5
<1>7. \A a \in Addr : refcount'[a] = Cardinality(SamplerRefs(a)') + Cardinality(SampleRefs(a)')
  BY <1>2, <1>5, <1>6
<1>8. IdentityCounted'
  BY <1>7 DEF IdentityCounted, SamplerRefs, SampleRefs
<1> QED BY <1>1, <1>8

\* One that referred to block b is gone.
LEMMA CountedDown ==
  ASSUME TypeOK, FinitelyMany, IdentityCounted, NEW b \in Addr, NEW x,
         refcount' = [refcount EXCEPT ![b] = @ - 1],
         \A a \in Addr : a # b => SamplerRefs(a)' = SamplerRefs(a) /\ SampleRefs(a)' = SampleRefs(a),
         \/ SamplerRefs(b)' = SamplerRefs(b) \ {x} /\ SampleRefs(b)' = SampleRefs(b) /\ x \in SamplerRefs(b)
         \/ SamplerRefs(b)' = SamplerRefs(b) /\ SampleRefs(b)' = SampleRefs(b) \ {x} /\ x \in SampleRefs(b)
  PROVE  IdentityCounted' /\ refcount' \in [Addr -> Nat]
<1>1. refcount \in [Addr -> Nat]
  BY DEF TypeOK
<1>2. \A a \in Addr : refcount[a] = Cardinality(SamplerRefs(a)) + Cardinality(SampleRefs(a))
  BY DEF IdentityCounted, SamplerRefs, SampleRefs
<1>3. IsFiniteSet(SamplerRefs(b)) /\ IsFiniteSet(SampleRefs(b))
  BY RefsFinite
<1>4. /\ Cardinality(SamplerRefs(b)') + Cardinality(SampleRefs(b)')
           = (Cardinality(SamplerRefs(b)) + Cardinality(SampleRefs(b))) - 1
      /\ (Cardinality(SamplerRefs(b)) + Cardinality(SampleRefs(b))) - 1 \in Nat
  BY <1>3, CountDown
<1>5. refcount'[b] = refcount[b] - 1 /\ \A a \in Addr : a # b => refcount'[a] = refcount[a]
  BY <1>1
<1>6. refcount[b] - 1 \in Nat /\ refcount'[b] = Cardinality(SamplerRefs(b)') + Cardinality(SampleRefs(b)')
  BY <1>2, <1>4, <1>5
<1>7. \A a \in Addr : refcount'[a] = Cardinality(SamplerRefs(a)') + Cardinality(SampleRefs(a)')
  BY <1>2, <1>5, <1>6
<1>8. IdentityCounted'
  BY <1>7 DEF IdentityCounted, SamplerRefs, SampleRefs
<1>9. refcount' \in [Addr -> Nat]
  BY <1>1, <1>6
<1> QED BY <1>8, <1>9

-----------------------------------------------------------------------------
(* The invariant is inductive. *)

\* The types of the objects, spelled out.
LEMMA ObjectTypes ==
  ASSUME TypeOK
  PROVE  /\ \A s \in DOMAIN sampler :
              /\ sampler[s].state \in {"opening", "open", "closed"} /\ sampler[s].identity \in Addr
              /\ sampler[s].total \in Nat /\ sampler[s].origin \in Nat
              /\ sampler[s].timeOrigin \in Nat /\ sampler[s].number \in Nat
              /\ sampler[s].reads \in Nat
         /\ \A x \in DOMAIN sample :
              /\ sample[x].identity \in Addr /\ sample[x].value \in 0..LongMax
              /\ sample[x].value \in Nat /\ sample[x].time \in Nat /\ sample[x].number \in Nat
              /\ sample[x].order \in Nat
         /\ clock \in Nat /\ opens \in Nat
  BY SamplerBounds DEF TypeOK, SamplerObj, SampleObj

\* No object at all.
LEMMA InitIndInv == Init => IndInv
<1> SUFFICES ASSUME Init PROVE IndInv
  OBVIOUS
<1>1. DOMAIN sampler = {} /\ DOMAIN sample = {}
  BY DEF Init
<1>2. TypeOK
  BY <1>1 DEF Init, TypeOK
<1>3. FinitelyMany
  BY <1>1, FS_EmptySet DEF FinitelyMany
<1>4. IdentityCounted
  <2>1. \A a \in Addr : /\ {s \in DOMAIN sampler : sampler[s].identity = a} = {}
                        /\ {x \in DOMAIN sample : sample[x].identity = a} = {}
    BY <1>1
  <2> QED BY <2>1, FS_EmptySet DEF Init, IdentityCounted
<1>5. SamplersApart /\ OriginsPast /\ SamplesBefore /\ SamplesOrdered
  BY <1>1 DEF SamplersApart, OriginsPast, SamplesBefore, SamplesOrdered
<1> QED BY <1>2, <1>3, <1>4, <1>5 DEF IndInv

\* Time passes.
LEMMA TickIndInv ==
  ASSUME IndInv, Tick
  PROVE  IndInv'
<1>1. /\ clock \in Nat /\ clock' = clock + 1 /\ UNCHANGED <<refcount, sampler, sample, opens>>
  BY DEF IndInv, TypeOK, Tick
<1>2. TypeOK' /\ FinitelyMany' /\ SamplersApart' /\ SamplesOrdered' /\ IdentityCounted'
  BY <1>1 DEF IndInv, TypeOK, FinitelyMany, SamplersApart, SamplesOrdered, IdentityCounted
<1>3. OriginsPast'
  BY <1>1, ObjectTypes DEF IndInv, OriginsPast
<1>4. SamplesBefore'
  BY <1>1, ObjectTypes DEF IndInv, SamplesBefore
<1> QED BY <1>2, <1>3, <1>4 DEF IndInv

\* A sampler changes without a change of who it is: it counts, its opening ends, a read
\* fails, or it closes.
LEMMA SamplerMoves ==
  ASSUME IndInv, NEW s \in DOMAIN sampler, NEW r \in SamplerObj,
         sampler' = [sampler EXCEPT ![s] = r], UNCHANGED <<refcount, sample, clock, opens>>,
         r.identity = sampler[s].identity, r.number = sampler[s].number,
         r.reads \in {sampler[s].reads, sampler[s].reads + 1},
         r.timeOrigin <= clock, r.origin <= r.total, r.state = "opening" => r.reads = 0,
         \/ sampler[s].state = "opening"
         \/ /\ r.timeOrigin = sampler[s].timeOrigin /\ r.origin = sampler[s].origin
            /\ sampler[s].total <= r.total
  PROVE  IndInv'
<1>1. /\ DOMAIN sampler' = DOMAIN sampler /\ sampler'[s] = r
      /\ \A t \in DOMAIN sampler : t # s => sampler'[t] = sampler[t]
  OBVIOUS
<1>2. TypeOK'
  BY <1>1 DEF IndInv, TypeOK
<1>3. FinitelyMany'
  BY <1>1 DEF IndInv, FinitelyMany
<1>4. IdentityCounted'
  <2>1. \A a \in Addr : SamplerRefs(a)' = SamplerRefs(a) /\ SampleRefs(a)' = SampleRefs(a)
    BY <1>1 DEF SamplerRefs, SampleRefs
  <2> QED BY <2>1, CountedSame DEF IndInv
<1>5. SamplersApart'
  BY <1>1 DEF IndInv, SamplersApart
<1>6. OriginsPast'
  BY <1>1 DEF IndInv, OriginsPast
<1>7. SamplesBefore'
  <2>1. ASSUME NEW x \in DOMAIN sample
        PROVE  /\ sample[x].identity = r.identity <=> sample[x].number = r.number
               /\ sample[x].number = r.number =>
                    /\ sample[x].order < r.reads
                    /\ sample[x].time + r.timeOrigin <= clock
                    /\ sample[x].value + r.origin <= r.total
    <3>1. CASE sampler[s].state = "opening"
      <4>1. sampler[s].reads = 0 /\ sample[x].order \in Nat
        BY <3>1, ObjectTypes DEF IndInv, OriginsPast
      <4>2. sample[x].number # r.number /\ sample[x].identity # r.identity
        BY <4>1 DEF IndInv, SamplesBefore
      <4> QED BY <4>2
    <3>2. CASE /\ r.timeOrigin = sampler[s].timeOrigin /\ r.origin = sampler[s].origin
               /\ sampler[s].total <= r.total
      <4>1. /\ sample[x].value \in Nat /\ r.origin \in Nat /\ r.total \in Nat
            /\ sampler[s].total \in Nat /\ sampler[s].reads \in Nat /\ sample[x].order \in Nat
        BY ObjectTypes DEF IndInv, SamplerObj
      <4> QED BY <3>2, <4>1 DEF IndInv, SamplesBefore
    <3> QED BY <3>1, <3>2
  <2> QED BY <1>1, <2>1 DEF IndInv, SamplesBefore
<1>8. SamplesOrdered'
  BY DEF IndInv, SamplesOrdered
<1> QED BY <1>2, <1>3, <1>4, <1>5, <1>6, <1>7, <1>8 DEF IndInv

\* Count, the end of open() and close() are such changes.
LEMMA MovesIndInv ==
  ASSUME IndInv, NEW s,
         Count(s) \/ Close(s) \/ \E total \in 0..MaxFirst : OpenSucceeds(s, total)
  PROVE  IndInv'
<1>1. s \in DOMAIN sampler /\ UNCHANGED <<refcount, sample, clock, opens>>
  BY DEF Count, Close, OpenSucceeds
<1>2. sampler[s] \in SamplerObj /\ clock \in Nat
  BY <1>1 DEF IndInv, TypeOK
<1>3. sampler[s].timeOrigin <= clock /\ sampler[s].origin <= sampler[s].total
  BY <1>1 DEF IndInv, OriginsPast
<1>4. CASE Count(s)
  <2> DEFINE r == [sampler[s] EXCEPT !.total = @ + 1]
  <2>1. sampler' = [sampler EXCEPT ![s] = r] /\ sampler[s].state = "open"
    BY <1>4 DEF Count
  <2>2. /\ r \in SamplerObj /\ r.identity = sampler[s].identity /\ r.number = sampler[s].number
        /\ r.reads = sampler[s].reads /\ r.timeOrigin = sampler[s].timeOrigin
        /\ r.origin = sampler[s].origin /\ r.total = sampler[s].total + 1 /\ r.state = "open"
        /\ sampler[s].total \in Nat /\ sampler[s].origin \in Nat
    BY <1>2, <2>1 DEF SamplerObj
  <2> HIDE DEF r
  <2>3. sampler[s].total <= r.total /\ r.origin <= r.total
    BY <1>3, <2>2
  <2> QED BY <1>1, <1>3, <2>1, <2>2, <2>3, SamplerMoves
<1>5. CASE Close(s)
  <2> DEFINE r == [sampler[s] EXCEPT !.state = "closed"]
  <2>1. sampler' = [sampler EXCEPT ![s] = r]
    BY <1>5 DEF Close
  <2>2. /\ r \in SamplerObj /\ r.identity = sampler[s].identity /\ r.number = sampler[s].number
        /\ r.reads = sampler[s].reads /\ r.timeOrigin = sampler[s].timeOrigin
        /\ r.origin = sampler[s].origin /\ r.total = sampler[s].total /\ r.state = "closed"
        /\ sampler[s].total \in Nat
    BY <1>2 DEF SamplerObj
  <2> HIDE DEF r
  <2>3. sampler[s].total <= r.total
    BY <2>2
  <2> QED BY <1>1, <1>3, <2>1, <2>2, <2>3, SamplerMoves
<1>6. ASSUME NEW total \in 0..MaxFirst, OpenSucceeds(s, total) PROVE IndInv'
  <2> DEFINE r == [sampler[s] EXCEPT !.state = "open", !.total = total, !.origin = total,
                                     !.timeOrigin = clock]
  <2>1. sampler' = [sampler EXCEPT ![s] = r] /\ sampler[s].state = "opening"
    BY <1>1, <1>6 DEF OpenSucceeds
  <2>2. total \in Nat
    BY SamplerBounds
  <2>3. /\ r \in SamplerObj /\ r.identity = sampler[s].identity /\ r.number = sampler[s].number
        /\ r.reads = sampler[s].reads /\ r.timeOrigin = clock
        /\ r.origin = total /\ r.total = total /\ r.state = "open"
    BY <1>2, <2>2 DEF SamplerObj
  <2> HIDE DEF r
  <2>4. r.timeOrigin <= clock /\ r.origin <= r.total
    BY <1>2, <2>2, <2>3
  <2> QED BY <1>1, <2>1, <2>3, <2>4, SamplerMoves
<1> QED BY <1>4, <1>5, <1>6

\* Sampler::read() whose value does not fit gives back the reference it took.
LEMMA ReadOverflowsIndInv ==
  ASSUME IndInv, NEW s, ReadOverflows(s)
  PROVE  IndInv'
<1>1. /\ s \in DOMAIN sampler /\ sampler[s].state = "open" /\ UNCHANGED <<sample, clock, opens>>
  BY DEF ReadOverflows
<1>2. sampler[s] \in SamplerObj /\ refcount \in [Addr -> Nat]
  BY <1>1 DEF IndInv, TypeOK
<1>3. PICK a \in Addr : a = sampler[s].identity
  BY <1>2 DEF SamplerObj
<1>4. refcount' = [[refcount EXCEPT ![a] = refcount[a] + 1] EXCEPT ![a] = (refcount[a] + 1) - 1]
  BY <1>2, <1>3 DEF ReadOverflows
<1>5. refcount' = refcount
  <2>1. (refcount[a] + 1) - 1 = refcount[a]
    BY <1>2
  <2> QED BY <1>2, <1>4, <2>1
<1> DEFINE r == [sampler[s] EXCEPT !.reads = @ + 1]
<1>6. sampler' = [sampler EXCEPT ![s] = r]
  BY DEF ReadOverflows
<1>7. /\ r \in SamplerObj /\ r.identity = sampler[s].identity /\ r.number = sampler[s].number
      /\ r.reads = sampler[s].reads + 1 /\ r.timeOrigin = sampler[s].timeOrigin
      /\ r.origin = sampler[s].origin /\ r.total = sampler[s].total /\ r.state = "open"
      /\ sampler[s].total \in Nat
  BY <1>1, <1>2 DEF SamplerObj
<1> HIDE DEF r
<1>8. sampler[s].timeOrigin <= clock /\ sampler[s].origin <= sampler[s].total
  BY <1>1 DEF IndInv, OriginsPast
<1>9. sampler[s].total <= r.total
  BY <1>7
<1> QED BY <1>1, <1>5, <1>6, <1>7, <1>8, <1>9, SamplerMoves

\* Sampler::open() takes a block nothing refers to, and a number that was not given yet.
LEMMA OpenBeginIndInv ==
  ASSUME IndInv, NEW s \in SamplerSlot, NEW a \in Addr, OpenBegin(s, a)
  PROVE  IndInv'
<1> DEFINE r == [state |-> "opening", identity |-> a, total |-> 0, origin |-> 0,
                 timeOrigin |-> 0, number |-> opens + 1, reads |-> 0]
<1>1. /\ s \notin DOMAIN sampler /\ refcount[a] = 0 /\ opens' = opens + 1
      /\ refcount' = [refcount EXCEPT ![a] = 1] /\ sampler' = With(sampler, s, r)
      /\ UNCHANGED <<sample, clock>>
      /\ refcount \in [Addr -> Nat] /\ clock \in Nat /\ opens \in Nat
  BY DEF OpenBegin, IndInv, TypeOK
<1>2. /\ r \in SamplerObj /\ r.identity = a /\ r.number = opens + 1 /\ r.reads = 0 /\ r.total = 0
      /\ r.origin = 0 /\ r.timeOrigin = 0
  BY <1>1 DEF SamplerObj
<1> HIDE DEF r
<1>3. /\ DOMAIN sampler' = DOMAIN sampler \cup {s} /\ sampler'[s] = r
      /\ \A t \in DOMAIN sampler : sampler'[t] = sampler[t]
  <2>1. /\ DOMAIN With(sampler, s, r) = DOMAIN sampler \cup {s}
        /\ With(sampler, s, r)[s] = r
        /\ \A t \in DOMAIN sampler : t # s => With(sampler, s, r)[t] = sampler[t]
    BY DEF With
  <2> QED BY <1>1, <2>1
<1>4. SamplerRefs(a) = {} /\ SampleRefs(a) = {}
  BY <1>1, Unreferenced DEF IndInv
<1>5. /\ \A t \in DOMAIN sampler : sampler[t].identity # a
      /\ \A x \in DOMAIN sample : sample[x].identity # a
  BY <1>4 DEF SamplerRefs, SampleRefs
<1>6. /\ \A t \in DOMAIN sampler : sampler[t].number <= opens /\ sampler[t].number # opens + 1
      /\ \A x \in DOMAIN sample : sample[x].number <= opens /\ sample[x].number # opens + 1
  BY <1>1, ObjectTypes DEF IndInv, OriginsPast, SamplesOrdered
<1>7. FinitelyMany'
  BY <1>1, <1>3, FS_AddElement DEF IndInv, FinitelyMany
<1>8. IdentityCounted' /\ refcount' \in [Addr -> Nat]
  <2>1. refcount' = [refcount EXCEPT ![a] = @ + 1]
    BY <1>1
  <2>2. \A b \in Addr : b # a => SamplerRefs(b)' = SamplerRefs(b) /\ SampleRefs(b)' = SampleRefs(b)
    BY <1>1, <1>2, <1>3 DEF SamplerRefs, SampleRefs
  <2>3. /\ SamplerRefs(a)' = SamplerRefs(a) \cup {s} /\ SampleRefs(a)' = SampleRefs(a)
        /\ s \notin SamplerRefs(a)
    BY <1>1, <1>2, <1>3 DEF SamplerRefs, SampleRefs
  <2> QED BY <2>1, <2>2, <2>3, CountedUp DEF IndInv
<1>9. TypeOK'
  BY <1>1, <1>2, <1>3, <1>8 DEF IndInv, TypeOK
<1>10. SamplersApart'
  BY <1>2, <1>3, <1>5, <1>6 DEF IndInv, SamplersApart
<1>11. OriginsPast'
  <2>1. \A t \in DOMAIN sampler : sampler[t].number <= opens + 1
    BY <1>1, <1>6, ObjectTypes DEF IndInv
  <2> QED BY <1>1, <1>2, <1>3, <2>1 DEF IndInv, OriginsPast
<1>12. SamplesBefore'
  BY <1>1, <1>2, <1>3, <1>5, <1>6 DEF IndInv, SamplesBefore
<1>13. SamplesOrdered'
  <2>1. \A x \in DOMAIN sample : sample[x].number <= opens + 1
    BY <1>1, <1>6, ObjectTypes DEF IndInv
  <2> QED BY <1>1, <2>1 DEF IndInv, SamplesOrdered
<1> QED BY <1>7, <1>8, <1>9, <1>10, <1>11, <1>12, <1>13 DEF IndInv

\* A sampler goes and releases its block.
LEMMA FreeSamplerIndInv ==
  ASSUME IndInv, NEW s \in SamplerSlot, FreeSampler(s)
  PROVE  IndInv'
<1>1. /\ s \in DOMAIN sampler /\ refcount' = [refcount EXCEPT ![sampler[s].identity] = @ - 1]
      /\ sampler' = Without(sampler, s) /\ UNCHANGED <<sample, clock, opens>>
  BY DEF FreeSampler, Release
<1>2. PICK a \in Addr : a = sampler[s].identity
  BY <1>1, ObjectTypes DEF IndInv
<1>3. /\ DOMAIN sampler' = DOMAIN sampler \ {s}
      /\ \A t \in DOMAIN sampler \ {s} : sampler'[t] = sampler[t]
  BY <1>1, WithoutRight
<1>4. FinitelyMany'
  BY <1>1, <1>3, FS_RemoveElement DEF IndInv, FinitelyMany
<1>5. IdentityCounted' /\ refcount' \in [Addr -> Nat]
  <2>1. \A b \in Addr : b # a => SamplerRefs(b)' = SamplerRefs(b) /\ SampleRefs(b)' = SampleRefs(b)
    BY <1>1, <1>2, <1>3 DEF SamplerRefs, SampleRefs
  <2>2. /\ SamplerRefs(a)' = SamplerRefs(a) \ {s} /\ SampleRefs(a)' = SampleRefs(a)
        /\ s \in SamplerRefs(a)
    <3>1. SampleRefs(a)' = SampleRefs(a) /\ s \in SamplerRefs(a)
      BY <1>1, <1>2 DEF SampleRefs, SamplerRefs
    <3>2. SamplerRefs(a)' = SamplerRefs(a) \ {s}
      BY <1>1, <1>2, <1>3 DEF SamplerRefs
    <3> QED BY <3>1, <3>2
  <2> QED BY <1>1, <1>2, <2>1, <2>2, CountedDown DEF IndInv
<1>6. TypeOK'
  BY <1>1, <1>3, <1>5 DEF IndInv, TypeOK
<1>7. SamplersApart' /\ OriginsPast'
  BY <1>1, <1>3 DEF IndInv, SamplersApart, OriginsPast
<1>8. SamplesBefore' /\ SamplesOrdered'
  BY <1>1, <1>3 DEF IndInv, SamplesBefore, SamplesOrdered
<1> QED BY <1>4, <1>5, <1>6, <1>7, <1>8 DEF IndInv

\* A sample goes and releases its block.
LEMMA FreeSampleIndInv ==
  ASSUME IndInv, NEW x \in SampleSlot, FreeSample(x)
  PROVE  IndInv'
<1>1. /\ x \in DOMAIN sample /\ refcount' = [refcount EXCEPT ![sample[x].identity] = @ - 1]
      /\ sample' = Without(sample, x) /\ UNCHANGED <<sampler, clock, opens>>
  BY DEF FreeSample, Release
<1>2. PICK a \in Addr : a = sample[x].identity
  BY <1>1, ObjectTypes DEF IndInv
<1>3. /\ DOMAIN sample' = DOMAIN sample \ {x}
      /\ \A y \in DOMAIN sample \ {x} : sample'[y] = sample[y]
  BY <1>1, WithoutRight
<1>4. FinitelyMany'
  BY <1>1, <1>3, FS_RemoveElement DEF IndInv, FinitelyMany
<1>5. IdentityCounted' /\ refcount' \in [Addr -> Nat]
  <2>1. \A b \in Addr : b # a => SamplerRefs(b)' = SamplerRefs(b) /\ SampleRefs(b)' = SampleRefs(b)
    BY <1>1, <1>2, <1>3 DEF SamplerRefs, SampleRefs
  <2>2. /\ SamplerRefs(a)' = SamplerRefs(a) /\ SampleRefs(a)' = SampleRefs(a) \ {x}
        /\ x \in SampleRefs(a)
    <3>1. SamplerRefs(a)' = SamplerRefs(a) /\ x \in SampleRefs(a)
      BY <1>1, <1>2 DEF SampleRefs, SamplerRefs
    <3>2. SampleRefs(a)' = SampleRefs(a) \ {x}
      BY <1>1, <1>2, <1>3 DEF SampleRefs
    <3> QED BY <3>1, <3>2
  <2> QED BY <1>1, <1>2, <2>1, <2>2, CountedDown DEF IndInv
<1>6. TypeOK'
  BY <1>1, <1>3, <1>5 DEF IndInv, TypeOK
<1>7. SamplersApart' /\ OriginsPast'
  BY <1>1 DEF IndInv, SamplersApart, OriginsPast
<1>8. SamplesBefore' /\ SamplesOrdered'
  BY <1>1, <1>3 DEF IndInv, SamplesBefore, SamplesOrdered
<1> QED BY <1>4, <1>5, <1>6, <1>7, <1>8 DEF IndInv

\* Sampler::read() takes a sample that shares the sampler's block and is not before any
\* other sample of it.
LEMMA ReadIndInv ==
  ASSUME IndInv, NEW s \in SamplerSlot, NEW x \in SampleSlot, Read(s, x)
  PROVE  IndInv'
<1> DEFINE old == sampler[s]
           new == [sampler[s] EXCEPT !.reads = @ + 1]
           r == [identity |-> sampler[s].identity,
                 value    |-> sampler[s].total - sampler[s].origin,
                 time     |-> clock - sampler[s].timeOrigin,
                 number   |-> sampler[s].number,
                 order    |-> sampler[s].reads]
<1>1. /\ s \in DOMAIN sampler /\ old.state = "open" /\ x \notin DOMAIN sample
      /\ old.total - old.origin <= LongMax
      /\ sample' = With(sample, x, r) /\ refcount' = [refcount EXCEPT ![old.identity] = @ + 1]
      /\ sampler' = [sampler EXCEPT ![s] = new] /\ UNCHANGED <<clock, opens>>
  BY DEF Read
<1>2. /\ old \in SamplerObj /\ old.identity \in Addr /\ old.total \in Nat /\ old.origin \in Nat
      /\ old.timeOrigin \in Nat /\ old.number \in Nat /\ old.reads \in Nat
      /\ clock \in Nat /\ opens \in Nat /\ LongMax \in Nat
  BY <1>1, ObjectTypes, SamplerBounds DEF IndInv, TypeOK
<1>3. old.number <= opens /\ old.timeOrigin <= clock /\ old.origin <= old.total
  BY <1>1 DEF IndInv, OriginsPast
<1>4. /\ r.identity = old.identity /\ r.number = old.number /\ r.order = old.reads
      /\ r.value + old.origin = old.total /\ r.time + old.timeOrigin = clock
      /\ r.value \in 0..LongMax /\ r.value \in Nat /\ r.time \in Nat
  BY <1>1, <1>2, <1>3
<1>5. r \in SampleObj
  <2>1. /\ old.identity \in Addr /\ old.total - old.origin \in 0..LongMax
        /\ clock - old.timeOrigin \in Nat /\ old.number \in Nat /\ old.reads \in Nat
    BY <1>1, <1>2, <1>3
  <2> QED BY <2>1 DEF SampleObj
<1>6. /\ new \in SamplerObj /\ new.identity = old.identity /\ new.number = old.number
      /\ new.reads = old.reads + 1 /\ new.total = old.total /\ new.origin = old.origin
      /\ new.timeOrigin = old.timeOrigin /\ new.state = "open"
  BY <1>1, <1>2 DEF SamplerObj
<1>7. /\ DOMAIN sampler' = DOMAIN sampler /\ sampler'[s] = new
      /\ \A t \in DOMAIN sampler : t # s => sampler'[t] = sampler[t]
  BY <1>1
<1> HIDE DEF r, new
<1>8. /\ DOMAIN sample' = DOMAIN sample \cup {x} /\ sample'[x] = r
      /\ \A y \in DOMAIN sample : y # x /\ sample'[y] = sample[y]
  <2>1. /\ DOMAIN With(sample, x, r) = DOMAIN sample \cup {x}
        /\ With(sample, x, r)[x] = r
        /\ \A y \in DOMAIN sample : y # x => With(sample, x, r)[y] = sample[y]
    BY DEF With
  <2> QED BY <1>1, <2>1
<1>9. FinitelyMany'
  BY <1>7, <1>8, FS_AddElement DEF IndInv, FinitelyMany
<1>10. IdentityCounted' /\ refcount' \in [Addr -> Nat]
  <2>0. PICK a \in Addr : a = old.identity
    BY <1>2
  <2>1. \A b \in Addr : SamplerRefs(b)' = SamplerRefs(b)
    BY <1>6, <1>7 DEF SamplerRefs
  <2>2. \A b \in Addr : b # a => SampleRefs(b)' = SampleRefs(b)
    BY <1>4, <1>8, <2>0 DEF SampleRefs
  <2>3. SampleRefs(a)' = SampleRefs(a) \cup {x} /\ x \notin SampleRefs(a)
    BY <1>1, <1>4, <1>8, <2>0 DEF SampleRefs
  <2>4. refcount' = [refcount EXCEPT ![a] = @ + 1]
    BY <1>1, <2>0
  <2> QED BY <2>1, <2>2, <2>3, <2>4, CountedUp DEF IndInv
<1>11. TypeOK'
  BY <1>1, <1>5, <1>6, <1>7, <1>8, <1>10 DEF IndInv, TypeOK
<1>12. SamplersApart'
  BY <1>1, <1>6, <1>7 DEF IndInv, SamplersApart
<1>13. OriginsPast'
  BY <1>1, <1>3, <1>6, <1>7 DEF IndInv, OriginsPast
<1>14. \A y \in DOMAIN sample :
         /\ sample[y].identity = r.identity <=> sample[y].number = r.number
         /\ sample[y].number = r.number => /\ sample[y].order < r.order
                                           /\ sample[y].time <= r.time /\ sample[y].value <= r.value
  <2>1. ASSUME NEW y \in DOMAIN sample
        PROVE  /\ sample[y].identity = r.identity <=> sample[y].number = r.number
               /\ sample[y].number = r.number =>
                    /\ sample[y].order < r.order
                    /\ sample[y].time <= r.time /\ sample[y].value <= r.value
    <3>1. sample[y].time \in Nat /\ sample[y].value \in Nat
      BY ObjectTypes DEF IndInv
    <3>2. /\ sample[y].identity = old.identity <=> sample[y].number = old.number
          /\ sample[y].number = old.number =>
               /\ sample[y].order < old.reads
               /\ sample[y].time + old.timeOrigin <= clock
               /\ sample[y].value + old.origin <= old.total
      BY <1>1 DEF IndInv, SamplesBefore
    <3> HIDE DEF old
    <3> QED BY <1>2, <1>4, <3>1, <3>2
  <2> QED BY <2>1
<1>15. SamplesBefore'
  <2>1. \A t \in DOMAIN sampler : t # s =>
           sampler[t].identity # old.identity /\ sampler[t].number # old.number
    BY <1>1 DEF IndInv, SamplersApart
  <2>2. ASSUME NEW t \in DOMAIN sampler, NEW y \in DOMAIN sample
        PROVE  /\ sample'[y].identity = sampler'[t].identity <=> sample'[y].number = sampler'[t].number
               /\ sample'[y].number = sampler'[t].number =>
                    /\ sample'[y].order < sampler'[t].reads
                    /\ sample'[y].time + sampler'[t].timeOrigin <= clock'
                    /\ sample'[y].value + sampler'[t].origin <= sampler'[t].total
    <3>1. sample[y].order \in Nat /\ sample'[y] = sample[y] /\ clock' = clock
      BY <1>1, <1>8, ObjectTypes DEF IndInv
    <3>2. /\ sample[y].identity = sampler[t].identity <=> sample[y].number = sampler[t].number
          /\ sample[y].number = sampler[t].number =>
               /\ sample[y].order < sampler[t].reads
               /\ sample[y].time + sampler[t].timeOrigin <= clock
               /\ sample[y].value + sampler[t].origin <= sampler[t].total
      BY DEF IndInv, SamplesBefore
    <3>3. CASE t # s
      BY <1>7, <3>1, <3>2, <3>3
    <3>4. CASE t = s
      <4>1. sample[y].order < old.reads => sample[y].order < new.reads
        BY <1>2, <1>6, <3>1
      <4> QED BY <1>6, <1>7, <3>1, <3>2, <3>4, <4>1
    <3> QED BY <3>3, <3>4
  <2>3. ASSUME NEW t \in DOMAIN sampler
        PROVE  /\ r.identity = sampler'[t].identity <=> r.number = sampler'[t].number
               /\ r.number = sampler'[t].number =>
                    /\ r.order < sampler'[t].reads
                    /\ r.time + sampler'[t].timeOrigin <= clock
                    /\ r.value + sampler'[t].origin <= sampler'[t].total
    <3>1. CASE t # s
      BY <1>4, <1>7, <2>1, <3>1
    <3>2. CASE t = s
      <4>1. r.order < new.reads /\ r.time + new.timeOrigin <= clock /\ r.value + new.origin <= new.total
        BY <1>2, <1>4, <1>6
      <4> QED BY <1>4, <1>6, <1>7, <3>2, <4>1
    <3> QED BY <3>1, <3>2
  <2> QED BY <1>1, <1>7, <1>8, <2>2, <2>3 DEF SamplesBefore
<1>16. SamplesOrdered'
  <2>1. \A y \in DOMAIN sample' : sample'[y].number <= opens'
    BY <1>1, <1>3, <1>4, <1>8 DEF IndInv, SamplesOrdered
  <2>2. ASSUME NEW y \in DOMAIN sample', NEW z \in DOMAIN sample'
        PROVE  /\ sample'[y].identity = sample'[z].identity <=> sample'[y].number = sample'[z].number
               /\ sample'[y].number = sample'[z].number /\ sample'[y].order >= sample'[z].order =>
                    sample'[y].time >= sample'[z].time /\ sample'[y].value >= sample'[z].value
    <3>1. r.order \in Nat /\ \A w \in DOMAIN sample : sample[w].order \in Nat
      BY <1>2, <1>4, ObjectTypes DEF IndInv
    <3>2. CASE y \in DOMAIN sample /\ z \in DOMAIN sample
      BY <1>8, <3>2 DEF IndInv, SamplesOrdered
    <3>3. CASE y = x /\ z \in DOMAIN sample
      BY <1>4, <1>8, <1>14, <3>3, ObjectTypes DEF IndInv
    <3>4. CASE y \in DOMAIN sample /\ z = x
      BY <1>8, <1>14, <3>1, <3>4
    <3>5. CASE y = x /\ z = x
      BY <1>4, <1>8, <3>5
    <3> QED BY <1>8, <3>2, <3>3, <3>4, <3>5
  <2> QED BY <2>1, <2>2 DEF SamplesOrdered
<1> QED BY <1>9, <1>10, <1>11, <1>12, <1>13, <1>15, <1>16 DEF IndInv

\* Every step keeps the invariant.
LEMMA NextIndInv == IndInv /\ [Next]_vars => IndInv'
<1> SUFFICES ASSUME IndInv, [Next]_vars PROVE IndInv'
  OBVIOUS
<1>1. CASE UNCHANGED vars
  BY <1>1 DEF vars, IndInv, TypeOK, FinitelyMany, IdentityCounted, SamplersApart, OriginsPast,
              SamplesBefore, SamplesOrdered
<1>2. CASE Tick
  BY <1>2, TickIndInv
<1>3. ASSUME NEW s \in SamplerSlot,
             Count(s) \/ Close(s) \/ \E total \in 0..MaxFirst : OpenSucceeds(s, total)
      PROVE  IndInv'
  BY <1>3, MovesIndInv
<1>4. ASSUME NEW s \in SamplerSlot, NEW a \in Addr, OpenBegin(s, a) PROVE IndInv'
  BY <1>4, OpenBeginIndInv
<1>5. ASSUME NEW s \in SamplerSlot, FreeSampler(s) PROVE IndInv'
  BY <1>5, FreeSamplerIndInv
<1>6. ASSUME NEW s \in SamplerSlot, NEW x \in SampleSlot, Read(s, x) PROVE IndInv'
  BY <1>6, ReadIndInv
<1>7. ASSUME NEW x \in SampleSlot, FreeSample(x) PROVE IndInv'
  BY <1>7, FreeSampleIndInv
<1>8. ASSUME NEW s \in SamplerSlot, ReadOverflows(s) PROVE IndInv'
  BY <1>8, ReadOverflowsIndInv
<1> QED BY <1>1, <1>2, <1>3, <1>4, <1>5, <1>6, <1>7, <1>8 DEF Next

\* The invariant holds throughout.
THEOREM Invariance == Spec => []IndInv
  BY InitIndInv, NextIndInv, PTL DEF Spec

-----------------------------------------------------------------------------
(* The properties. *)

\* Every variable keeps its type; a sample's value fits a PHP integer because a backend's
\* total is never below its origin and read() checks the difference.
THEOREM TypeCorrect == Spec => []TypeOK
<1>1. IndInv => TypeOK
  BY DEF IndInv
<1> QED BY <1>1, Invariance, PTL

\* perfidious_sample_identity_release() frees a block with the last object that refers to
\* it: none leaks, also when read() destroys the sample it made, and none is used after it
\* was freed.
THEOREM IdentityCountedAlways == Spec => []IdentityCounted
<1>1. IndInv => IdentityCounted
  BY DEF IndInv
<1> QED BY <1>1, Invariance, PTL

\* Sample::since() rejects a sample of another sampler, though it only compares addresses
\* that the allocator uses again.
THEOREM ForeignSampleRejectedAlways == Spec => []ForeignSampleRejected
<1>1. IndInv => ForeignSampleRejected
  BY DEF IndInv, SamplesOrdered, ForeignSampleRejected, Since
<1> QED BY <1>1, Invariance, PTL

\* value() of a sample, and of a difference since() made, does not throw.
THEOREM ValuesConvertibleAlways == Spec => []ValuesConvertible
<1>1. IndInv => ValuesConvertible
  <2> SUFFICES ASSUME IndInv, NEW x \in DOMAIN sample, NEW y \in DOMAIN sample
               PROVE  /\ Value(sample[x].value) = "int"
                      /\ Since(sample[x], sample[y]) = "SampleDelta" =>
                           /\ sample[x].value >= sample[y].value
                           /\ Value(sample[x].value - sample[y].value) = "int"
    BY DEF ValuesConvertible
  <2>1. /\ sample[x].value \in Nat /\ sample[x].value \in 0..LongMax
        /\ sample[y].value \in Nat /\ LongMax \in Nat
    BY ObjectTypes, SamplerBounds DEF IndInv
  <2>2. ~(sample[x].value > LongMax)
    BY <2>1
  <2>3. Since(sample[x], sample[y]) = "SampleDelta" => ~(sample[x].value < sample[y].value)
    BY DEF Since
  <2>4. ~(sample[x].value < sample[y].value) =>
           sample[x].value >= sample[y].value /\ ~(sample[x].value - sample[y].value > LongMax)
    BY <2>1
  <2> QED BY <2>2, <2>3, <2>4 DEF Value, ToLong
<1> QED BY <1>1, Invariance, PTL

\* Sample::since() accepts the samples of one sampler in the order read() took them.
THEOREM InOrderSubtractsAlways == Spec => []InOrderSubtracts
<1>1. IndInv => InOrderSubtracts
  <2> SUFFICES ASSUME IndInv, NEW x \in DOMAIN sample, NEW y \in DOMAIN sample,
                      sample[x].number = sample[y].number, sample[x].order >= sample[y].order
               PROVE  IF sample[x].time - sample[y].time > LongMax
                      THEN Since(sample[x], sample[y]) = "OverflowException"
                      ELSE Since(sample[x], sample[y]) = "SampleDelta"
    BY DEF InOrderSubtracts
  <2>1. /\ sample[x].identity = sample[y].identity
        /\ sample[x].time >= sample[y].time /\ sample[x].value >= sample[y].value
    BY DEF IndInv, SamplesOrdered
  <2>2. /\ sample[x].time \in Nat /\ sample[y].time \in Nat
        /\ sample[x].value \in Nat /\ sample[y].value \in Nat
    BY ObjectTypes DEF IndInv
  <2>3. ~(sample[x].time < sample[y].time) /\ ~(sample[x].value < sample[y].value)
    BY <2>1, <2>2
  <2> QED BY <2>1, <2>3 DEF Since, ToLong
<1> QED BY <1>1, Invariance, PTL
=============================================================================
