----------------------- MODULE WindowsSampler_proofs -----------------------
(***************************************************************************)
(* Proofs about WindowsSampler for every width of the native counter, of   *)
(* the widened one and every time: widened counts are exact until they no  *)
(* longer fit, and the sampler keeps the contract of a CounterBackend.     *)
(***************************************************************************)
EXTENDS WindowsSampler, TLAPS

-----------------------------------------------------------------------------
(* The inductive invariant. *)

\* The native counter is looked at in order, and the wide one is a number of turns.
Turns ==
  /\ seen <= native
  /\ previous < Wrap
  /\ base % Wrap = 0

\* A sampler that is opening has taken nothing over and returned nothing.
Fresh == phase = "opening" => previous = 0 /\ base = 0 /\ snapshot = Empty /\ result = "none"

\* The sampler widens a counter and has read it.
Widening == (phase = "open" \/ result = "ok") /\ "events" \in metrics

\* What was taken over is what the counter was at, and the wide count is the number of
\* events since the first turn; or this number does not fit the wide counter any more.
Widened ==
  Widening =>
    /\ previous = seen % Wrap
    /\ offset <= seen
    /\ \/ base + previous = seen - offset
       \/ base > UintMax - Wrap /\ seen - offset > UintMax

\* The native counter goes round at most once between two observations.
AtMostOneTurn ==
  (phase = "open" /\ "events" \in metrics /\ base <= UintMax - Wrap) => native - seen < Wrap

\* What was handed out is what was taken over, or less once a later read has failed.
HandedOut ==
  "events" \in metrics =>
    /\ result = "ok" => snapshot.events = base + previous
    /\ phase = "open" => snapshot.events <= base + previous

\* Nothing is returned for a metric that was not asked for.
OnlyRequested ==
  /\ "cpuTime" \notin metrics => snapshot.cpuTime = 0
  /\ "events" \notin metrics => snapshot.events = 0

IndInv ==
  TypeOK /\ Turns /\ Fresh /\ Widened /\ AtMostOneTurn /\ HandedOut /\ OnlyRequested

-----------------------------------------------------------------------------
(* Arithmetic of a counter that goes round. *)

\* A number is its turns and what is left of the last one.
LEMMA DivMod ==
  ASSUME NEW w \in Nat \ {0}, NEW x \in Nat
  PROVE  /\ x \div w \in Nat /\ x % w \in 0..w - 1
         /\ x = w * (x \div w) + (x % w)
  BY Z3

\* More turns are at least one turn more.
LEMMA TurnMore ==
  ASSUME NEW w \in Nat \ {0}, NEW a \in Nat, NEW b \in Nat, a < b
  PROVE  w * a + w <= w * b
<1>1. PICK d \in Nat : b = (a + 1) + d
  <2>1. b - (a + 1) \in Nat /\ b = (a + 1) + (b - (a + 1))
    OBVIOUS
  <2> QED BY <2>1
<1>2. w * b = (w * a + w) + w * d /\ w * d \in Nat
  BY <1>1, Z3
<1> QED BY <1>2, Z3

\* Between two multiples of a turn lies a turn.
LEMMA NextTurn ==
  ASSUME NEW w \in Nat \ {0}, NEW x \in Nat, NEW y \in Nat, x % w = 0, y % w = 0, x < y
  PROVE  x + w <= y
<1>1. /\ x \div w \in Nat /\ y \div w \in Nat
      /\ x = w * (x \div w) /\ y = w * (y \div w)
  BY DivMod
<1> DEFINE a == x \div w
           b == y \div w
<1>2. a \in Nat /\ b \in Nat /\ x = w * a /\ y = w * b
  BY <1>1
<1> HIDE DEF a, b
<1>3. a < b
  <2>1. CASE b < a
    <3>1. w * b + w <= w * a
      BY <1>2, <2>1, TurnMore
    <3> QED BY <1>2, <3>1
  <2>2. CASE a = b
    BY <1>2, <2>2
  <2> QED BY <1>2, <2>1, <2>2
<1> QED BY <1>2, <1>3, TurnMore

\* A multiple of a turn, and a turn more.
LEMMA AddTurn ==
  ASSUME NEW w \in Nat \ {0}, NEW x \in Nat, x % w = 0
  PROVE  (x + w) % w = 0
<1> DEFINE k == x \div w
           q == (x + w) \div w
           r == (x + w) % w
<1>1. k \in Nat /\ x = w * k
  BY DivMod
<1>2. q \in Nat /\ r \in 0..w - 1 /\ x + w = w * q + r
  <2>1. x + w \in Nat
    OBVIOUS
  <2> QED BY <2>1, DivMod, Zenon
<1> SUFFICES r = 0
  OBVIOUS
<1> HIDE DEF k, q, r
<1>3. w * (k + 1) = w * k + w /\ w * k \in Nat /\ w * q \in Nat
  BY <1>1, <1>2, Z3
<1>4. CASE q = k + 1
  BY <1>1, <1>2, <1>3, <1>4
<1>5. CASE q < k + 1
  <2>1. w * q + w <= w * (k + 1)
    BY <1>1, <1>2, <1>5, TurnMore
  <2> QED BY <1>1, <1>2, <1>3, <2>1
<1>6. CASE k + 1 < q
  <2>1. w * (k + 1) + w <= w * q
    BY <1>1, <1>2, <1>6, TurnMore
  <2> QED BY <1>1, <1>2, <1>3, <2>1
<1> QED BY <1>1, <1>2, <1>4, <1>5, <1>6

\* The events between two looks at a counter, by what it showed: if it shows less, it
\* has gone round; if it does not, it has not, or gone round a number of times.
LEMMA Rounds ==
  ASSUME NEW w \in Nat \ {0}, NEW s \in Nat, NEW n \in Nat, s <= n
  PROVE  /\ n % w < s % w => n - s = (n % w) - (s % w) + w \/ n - s >= w
         /\ n % w >= s % w => n - s = (n % w) - (s % w) \/ n - s >= (n % w) - (s % w) + w
<1> DEFINE a == s \div w
           b == n \div w
           p == s % w
           q == n % w
<1>1. /\ a \in Nat /\ p \in 0..w - 1 /\ s = w * a + p
      /\ b \in Nat /\ q \in 0..w - 1 /\ n = w * b + q
  BY DivMod
<1> SUFFICES /\ q < p => n - s = q - p + w \/ n - s >= w
             /\ q >= p => n - s = q - p \/ n - s >= q - p + w
  OBVIOUS
<1> HIDE DEF a, b, p, q
<1>2. w * a \in Nat /\ w * b \in Nat
  BY <1>1, Z3
<1>3. CASE a = b
  BY <1>1, <1>2, <1>3
<1>4. CASE b < a
  <2>1. w * b + w <= w * a
    BY <1>1, <1>4, TurnMore
  <2> QED BY <1>1, <1>2, <2>1
<1>5. CASE b = a + 1
  <2>1. w * b = w * a + w
    BY <1>1, <1>5, Z3
  <2> QED BY <1>1, <1>2, <2>1
<1>6. CASE b > a + 1
  <2>1. w * (a + 1) + w <= w * b /\ w * (a + 1) = w * a + w
    BY <1>1, <1>6, TurnMore, Z3
  <2> QED BY <1>1, <1>2, <2>1
<1> QED BY <1>1, <1>3, <1>4, <1>5, <1>6

\* The check before the multiplication is enough.
LEMMA ProductFits ==
  ASSUME NEW u \in Nat \ {0}, NEW n \in Nat, NEW m \in Nat, n <= m \div u
  PROVE  n * u \in Nat /\ n * u <= m
<1> DEFINE q == m \div u
<1>1. q \in Nat /\ m % u \in 0..u - 1 /\ m = u * q + (m % u)
  BY DivMod
<1>2. n \in Nat /\ n <= q
  OBVIOUS
<1> DEFINE r == m % u
<1> HIDE DEF q, r
<1>3. r \in Nat /\ m = u * q + r
  BY <1>1 DEF r
<1>4. PICK d \in Nat : q = n + d
  <2>1. q - n \in Nat /\ q = n + (q - n)
    BY <1>1, <1>2
  <2> QED BY <2>1
<1>5. u * q = n * u + u * d /\ u * d \in Nat /\ n * u \in Nat
  BY <1>4, Z3
<1> QED BY <1>3, <1>5

-----------------------------------------------------------------------------
(* The counter is taken over. *)

\* What the assumptions and the invariant say of the numbers involved.
LEMMA Numbers ==
  ASSUME TypeOK
  PROVE  /\ Wrap \in Nat \ {0} /\ Unit \in Nat \ {0} /\ UintMax \in Nat /\ UintMax + 1 \in Nat
         /\ (UintMax + 1) % Wrap = 0
         /\ native \in Nat /\ seen \in Nat /\ offset \in Nat
         /\ previous \in Nat /\ base \in Nat /\ base <= UintMax /\ Now \in 0..Wrap - 1
         /\ snapshot.cpuTime \in 0..UintMax /\ snapshot.events \in 0..UintMax
<1>1. Wrap \in Nat \ {0} /\ Unit \in Nat \ {0} /\ UintMax \in Nat /\ (UintMax + 1) % Wrap = 0
  BY WideningAssumption
<1>2. /\ native \in Nat /\ seen \in Nat /\ offset \in Nat
      /\ previous \in Nat /\ base \in Nat /\ base <= UintMax
      /\ snapshot.cpuTime \in 0..UintMax /\ snapshot.events \in 0..UintMax
  BY <1>1 DEF TypeOK
<1>3. Now \in 0..Wrap - 1
  BY <1>1, <1>2, DivMod DEF Now
<1> QED BY <1>1, <1>2, <1>3

\* Taking the counter over keeps the wide one a number of turns below 2^64, and what
\* it returns fits and does not go back.
LEMMA ObserveFits ==
  ASSUME IndInv, Observe, ~BaseOverflows
  PROVE  /\ base' \in 0..UintMax /\ base' % Wrap = 0
         /\ base' + Now \in 0..UintMax /\ base' + Now >= base + previous
         /\ previous' = Now /\ seen' = native
<1>1. /\ Wrap \in Nat \ {0} /\ UintMax \in Nat /\ UintMax + 1 \in Nat /\ (UintMax + 1) % Wrap = 0
      /\ previous \in Nat /\ base \in Nat /\ base <= UintMax /\ Now \in 0..Wrap - 1
  BY Numbers DEF IndInv
<1>2. base % Wrap = 0 /\ previous < Wrap
  BY DEF IndInv, Turns
<1>3. previous' = Now /\ seen' = native
  BY DEF Observe
<1>4. base' \in Nat /\ base' <= UintMax /\ base' % Wrap = 0
  <2>1. CASE Wrapped
    <3>1. base' = base + Wrap /\ base <= UintMax - Wrap
      BY <1>1, <2>1 DEF Observe, BaseOverflows
    <3>2. (base + Wrap) % Wrap = 0
      BY <1>1, <1>2, AddTurn
    <3> QED BY <1>1, <3>1, <3>2
  <2>2. CASE ~Wrapped
    BY <1>1, <1>2, <2>2 DEF Observe
  <2> QED BY <2>1, <2>2
<1>5. base' + Wrap <= UintMax + 1
  <2>1. base' < UintMax + 1
    BY <1>1, <1>4
  <2> QED BY <1>1, <1>4, <2>1, NextTurn, Zenon
<1>6. base' + Now >= base + previous
  <2>1. CASE Wrapped
    BY <1>1, <1>2, <2>1 DEF Observe
  <2>2. CASE ~Wrapped
    BY <1>1, <2>2 DEF Observe, Wrapped
  <2> QED BY <2>1, <2>2
<1>7. base' \in 0..UintMax /\ base' + Now \in 0..UintMax
  <2>1. PICK b \in Nat : b = base'
    BY <1>4
  <2>2. Wrap \in Nat /\ UintMax \in Nat /\ Now \in Nat /\ Now < Wrap /\ b + Wrap <= UintMax + 1
    <3>1. b + Wrap <= UintMax + 1
      BY <1>5, <2>1
    <3>2. Wrap \in Nat /\ UintMax \in Nat /\ Now \in Nat /\ Now < Wrap
      BY <1>1
    <3> QED BY <3>1, <3>2
  <2>3. b \in 0..UintMax /\ b + Now \in 0..UintMax
    BY <2>2
  <2> QED BY <2>1, <2>3
<1> QED BY <1>3, <1>4, <1>6, <1>7

\* The wide count stays the number of events, or this number does not fit any more.
LEMMA ObserveWidens ==
  ASSUME IndInv, phase = "open", "events" \in metrics, Observe, ~BaseOverflows
  PROVE  /\ offset <= native
         /\ \/ base' + Now = native - offset
            \/ base' > UintMax - Wrap /\ native - offset > UintMax
<1>1. /\ Wrap \in Nat \ {0} /\ UintMax \in Nat
      /\ native \in Nat /\ seen \in Nat /\ offset \in Nat
      /\ previous \in Nat /\ base \in Nat /\ base <= UintMax /\ Now \in 0..Wrap - 1
  BY Numbers DEF IndInv
<1>2. /\ previous = seen % Wrap /\ offset <= seen /\ seen <= native
      /\ \/ base + previous = seen - offset
         \/ base > UintMax - Wrap /\ seen - offset > UintMax
  BY DEF IndInv, Widened, Widening, Turns
<1>3. base <= UintMax - Wrap => native - seen < Wrap
  BY DEF IndInv, AtMostOneTurn
<1>4. /\ Now < previous => native - seen = Now - previous + Wrap \/ native - seen >= Wrap
      /\ Now >= previous => native - seen = Now - previous \/ native - seen >= Now - previous + Wrap
  BY <1>1, <1>2, Rounds DEF Now
<1>5. CASE Wrapped
  <2>1. base' = base + Wrap /\ base <= UintMax - Wrap /\ Now < previous
    BY <1>1, <1>5 DEF Observe, BaseOverflows, Wrapped
  <2>2. native - seen = Now - previous + Wrap
    BY <1>1, <1>3, <1>4, <2>1
  <2> QED BY <1>1, <1>2, <2>1, <2>2
<1>6. CASE ~Wrapped
  <2>1. base' = base /\ Now >= previous
    BY <1>1, <1>6 DEF Observe, Wrapped
  <2>2. CASE native - seen = Now - previous
    BY <1>1, <1>2, <2>1, <2>2
  <2>3. CASE native - seen >= Now - previous + Wrap
    <3>1. base > UintMax - Wrap
      BY <1>1, <1>3, <2>1, <2>3
    <3> QED BY <1>1, <1>2, <2>1, <2>3, <3>1
  <2> QED BY <1>4, <2>1, <2>2, <2>3
<1> QED BY <1>5, <1>6

-----------------------------------------------------------------------------
(* The invariant is inductive. *)

\* Nothing has been opened.
LEMMA InitIndInv == Init => IndInv
<1> SUFFICES ASSUME Init PROVE IndInv
  OBVIOUS
<1>1. Wrap \in Nat \ {0} /\ UintMax \in Nat
  BY WideningAssumption
<1>2. 0 % Wrap = 0
  BY <1>1, Z3
<1>3. TypeOK
  BY <1>1 DEF Init, TypeOK, Metrics, Empty
<1> QED BY <1>1, <1>2, <1>3 DEF Init, IndInv, Turns, Fresh, Widened, Widening, AtMostOneTurn,
                               HandedOut, OnlyRequested, Empty

\* An event happens, at most a turn after the last look.
LEMMA HappenIndInv ==
  ASSUME IndInv, Happen
  PROVE  IndInv'
<1>1. /\ native' = native + 1
      /\ UNCHANGED <<phase, scope, metrics, previous, base, snapshot, result, seen, offset>>
      /\ (phase = "open" /\ "events" \in metrics /\ base <= UintMax - Wrap) => native + 1 - seen < Wrap
  BY DEF Happen
<1>2. TypeOK'
  BY <1>1 DEF IndInv, TypeOK
<1>3. native \in Nat /\ seen \in Nat
  BY DEF IndInv, TypeOK
<1>4. Turns' /\ AtMostOneTurn'
  <2>1. seen' <= native'
    BY <1>1, <1>3 DEF IndInv, Turns
  <2>2. AtMostOneTurn'
    BY <1>1, <1>3, WideningAssumption DEF AtMostOneTurn
  <2>3. Turns'
    BY <1>1, <2>1 DEF IndInv, Turns
  <2> QED BY <2>2, <2>3
<1>5. Fresh' /\ Widened' /\ HandedOut' /\ OnlyRequested'
  BY <1>1 DEF IndInv, Fresh, Widened, Widening, HandedOut, OnlyRequested
<1> QED BY <1>2, <1>4, <1>5 DEF IndInv

\* A new sampler.
LEMMA OpenIndInv ==
  ASSUME IndInv, NEW s \in {"process", "thread"}, NEW ms \in SUBSET Metrics, Open(s, ms)
  PROVE  IndInv'
<1>1. Wrap \in Nat \ {0} /\ UintMax \in Nat
  BY WideningAssumption
<1>2. 0 % Wrap = 0
  BY <1>1, Z3
<1>3. TypeOK'
  BY <1>1 DEF Open, IndInv, TypeOK, Empty
<1>4. Turns'
  <2>1. native \in Nat
    BY DEF IndInv, TypeOK
  <2>2. seen' <= native' /\ previous' < Wrap
    BY <1>1, <2>1 DEF Open
  <2> QED BY <1>2, <2>2 DEF Open, Turns
<1>5. Fresh' /\ Widened' /\ AtMostOneTurn' /\ HandedOut' /\ OnlyRequested'
  BY DEF Open, Fresh, Widened, Widening, AtMostOneTurn, HandedOut, OnlyRequested, Empty
<1> QED BY <1>3, <1>4, <1>5 DEF IndInv

\* A sampler is closed.
LEMMA CloseIndInv ==
  ASSUME IndInv, Close
  PROVE  IndInv'
<1>1. phase = "open" /\ phase' = "closed" /\ UNCHANGED <<native, scope, metrics, counter, snapshot, result, offset>>
  BY DEF Close
<1>2. TypeOK'
  BY <1>1 DEF IndInv, TypeOK, counter
<1> QED BY <1>1, <1>2 DEF IndInv, Turns, Fresh, Widened, Widening, AtMostOneTurn, HandedOut,
                          OnlyRequested, counter

\* A read that fails before it takes the counter over.
LEMMA FailsIndInv ==
  ASSUME IndInv, NEW error \in {"error", "overflow"}, Fails(error), UNCHANGED counter
  PROVE  IndInv'
<1>1. /\ phase \in {"opening", "open"} /\ phase' = (IF phase = "opening" THEN "closed" ELSE "open")
      /\ result' = error
      /\ UNCHANGED <<native, scope, metrics, snapshot, offset, previous, base, seen>>
  BY DEF Fails, counter
<1>2. TypeOK'
  BY <1>1 DEF IndInv, TypeOK
<1> QED BY <1>1, <1>2 DEF IndInv, Turns, Fresh, Widened, Widening, AtMostOneTurn, HandedOut,
                          OnlyRequested

\* QueryProcessCycleTime() fails after the counter was taken over.
LEMMA ReadCyclesFailsIndInv ==
  ASSUME IndInv, ReadCyclesFails
  PROVE  IndInv'
<1>1. CASE "events" \notin metrics
  BY <1>1, FailsIndInv DEF ReadCyclesFails
<1>2. CASE "events" \in metrics
  <2>1. /\ phase \in {"opening", "open"} /\ phase' = (IF phase = "opening" THEN "closed" ELSE "open")
        /\ result' = "error"
        /\ UNCHANGED <<native, scope, metrics, snapshot, offset>>
        /\ Observe /\ ~BaseOverflows
    BY <1>2 DEF ReadCyclesFails, Fails
  <2>2. /\ base' \in 0..UintMax /\ base' % Wrap = 0
        /\ base' + Now \in 0..UintMax /\ base' + Now >= base + previous
        /\ previous' = Now /\ seen' = native
    BY <2>1, ObserveFits
  <2>3. /\ Wrap \in Nat /\ native \in Nat /\ Now \in 0..Wrap - 1 /\ base \in Nat /\ previous \in Nat
        /\ snapshot.events \in Nat
    BY Numbers DEF IndInv
  <2>4. TypeOK'
    BY <2>1, <2>2, <2>3 DEF IndInv, TypeOK
  <2>5. Turns'
    <3>1. seen' <= native' /\ previous' < Wrap
      BY <2>1, <2>2, <2>3
    <3> QED BY <2>2, <3>1 DEF Turns
  <2>6. Fresh' /\ OnlyRequested'
    BY <2>1 DEF IndInv, Fresh, OnlyRequested
  <2>7. AtMostOneTurn'
    <3>1. native' - seen' < Wrap
      BY <2>1, <2>2, <2>3
    <3> QED BY <3>1 DEF AtMostOneTurn
  <2>8. HandedOut'
    <3>1. phase = "open" => snapshot.events <= base + previous
      BY <1>2 DEF IndInv, HandedOut
    <3>2. phase = "open" => snapshot.events <= base' + previous'
      <4>1. base' + Now \in Int /\ base' + Now >= base + previous /\ previous' = Now
        BY <2>2
      <4> QED BY <2>3, <3>1, <4>1
    <3> QED BY <2>1, <3>2 DEF HandedOut
  <2>9. Widened'
    <3>1. CASE phase = "open"
      <4>1. /\ offset <= native
            /\ \/ base' + Now = native - offset
               \/ base' > UintMax - Wrap /\ native - offset > UintMax
        BY <1>2, <2>1, <3>1, ObserveWidens
      <4> QED BY <2>1, <2>2, <4>1 DEF Widened, Now
    <3>2. CASE phase = "opening"
      BY <2>1, <3>2 DEF Widened, Widening
    <3> QED BY <2>1, <3>1, <3>2
  <2> QED BY <2>4, <2>5, <2>6, <2>7, <2>8, <2>9 DEF IndInv
<1> QED BY <1>1, <1>2

\* A read that succeeds.
LEMMA ReadSucceedsIndInv ==
  ASSUME IndInv, NEW kernel \in Times, NEW user \in Times, ReadSucceeds(kernel, user)
  PROVE  IndInv'
<1>1. /\ phase \in {"opening", "open"} /\ phase' = "open" /\ result' = "ok"
      /\ UNCHANGED <<native, scope, metrics>>
      /\ snapshot' = [cpuTime |-> IF "cpuTime" \in metrics THEN (kernel + user) * Unit ELSE 0,
                      events  |-> IF "events" \in metrics THEN base' + Now ELSE 0]
      /\ offset' = IF phase = "opening" THEN native - snapshot'.events ELSE offset
      /\ IF "events" \in metrics THEN Observe ELSE UNCHANGED counter
      /\ "events" \in metrics => ~BaseOverflows
  BY DEF ReadSucceeds
<1>2. /\ Wrap \in Nat \ {0} /\ Unit \in Nat \ {0} /\ UintMax \in Nat
      /\ native \in Nat /\ Now \in 0..Wrap - 1 /\ base \in Nat /\ previous \in Nat
      /\ snapshot.events \in Nat /\ offset \in Nat
  BY Numbers DEF IndInv
<1>3. "cpuTime" \in metrics => (kernel + user) * Unit \in 0..UintMax
  <2>1. kernel + user \in Nat
    BY WideningAssumption
  <2>2. "cpuTime" \in metrics => kernel + user <= UintMax \div Unit
    BY DEF ReadSucceeds, CpuFits
  <2>3. "cpuTime" \in metrics => (kernel + user) * Unit \in Nat /\ (kernel + user) * Unit <= UintMax
    BY <1>2, <2>1, <2>2, ProductFits, Zenon
  <2> DEFINE time == (kernel + user) * Unit
  <2> HIDE DEF time
  <2>4. "cpuTime" \in metrics => time \in Nat /\ time <= UintMax
    BY <2>3 DEF time
  <2>5. "cpuTime" \in metrics => time \in 0..UintMax
    BY <1>2, <2>4
  <2> QED BY <2>5 DEF time
<1>4. CASE "events" \notin metrics
  <2>1. UNCHANGED counter /\ snapshot'.events = 0
    BY <1>1, <1>4
  <2>2. offset' \in Nat
    BY <1>1, <1>2, <2>1
  <2>3. snapshot' \in [cpuTime : 0..UintMax, events : 0..UintMax]
    BY <1>1, <1>2, <1>3, <1>4
  <2>4. TypeOK'
    BY <1>1, <2>1, <2>2, <2>3 DEF IndInv, TypeOK, counter
  <2>5. Turns' /\ Fresh' /\ Widened' /\ AtMostOneTurn' /\ HandedOut' /\ OnlyRequested'
    BY <1>1, <1>4, <2>1 DEF IndInv, Turns, Fresh, Widened, Widening, AtMostOneTurn, HandedOut,
                            OnlyRequested, counter
  <2> QED BY <2>4, <2>5 DEF IndInv
<1>5. CASE "events" \in metrics
  <2>1. Observe /\ ~BaseOverflows /\ snapshot'.events = base' + Now
    BY <1>1, <1>5
  <2>2. /\ base' \in 0..UintMax /\ base' % Wrap = 0
        /\ base' + Now \in 0..UintMax
        /\ previous' = Now /\ seen' = native
    BY <2>1, ObserveFits
  <2>3. phase = "opening" => base' = 0 /\ Now <= native
    <3>1. phase = "opening" => previous = 0 /\ base = 0
      BY DEF IndInv, Fresh
    <3>2. phase = "opening" => base' = 0
      BY <1>2, <2>1, <3>1 DEF Observe, Wrapped
    <3>3. Now <= native
      <4>1. /\ native \div Wrap \in Nat
            /\ native = Wrap * (native \div Wrap) + Now
        BY <1>2, DivMod DEF Now
      <4> DEFINE turns == native \div Wrap
      <4>2. turns \in Nat /\ native = Wrap * turns + Now
        BY <4>1
      <4> HIDE DEF turns
      <4>3. Wrap * turns \in Nat
        BY <1>2, <4>2, Z3
      <4> QED BY <1>2, <4>2, <4>3
    <3> QED BY <3>2, <3>3
  <2>4. offset' \in Nat
    <3>1. phase = "opening" => offset' = native - Now
      <4>1. phase = "opening" => snapshot'.events = Now
        BY <1>2, <2>1, <2>3
      <4> QED BY <1>1, <4>1
    <3> QED BY <1>1, <1>2, <2>3, <3>1
  <2>5. snapshot' \in [cpuTime : 0..UintMax, events : 0..UintMax]
    <3>1. PICK n \in 0..UintMax : n = base' + Now
      BY <2>2
    <3>2. PICK c \in 0..UintMax : c = IF "cpuTime" \in metrics THEN (kernel + user) * Unit ELSE 0
      <4>1. 0 \in 0..UintMax
        BY <1>2
      <4> QED BY <1>3, <4>1
    <3>3. snapshot' = [cpuTime |-> c, events |-> n]
      BY <1>1, <1>5, <3>1, <3>2
    <3> QED BY <3>3
  <2>6. TypeOK'
    <3>1. seen' \in Nat /\ previous' \in 0..Wrap - 1
      BY <1>2, <2>2
    <3> QED BY <1>1, <2>2, <2>4, <2>5, <3>1 DEF IndInv, TypeOK
  <2>7. Turns' /\ AtMostOneTurn'
    <3>1. native - native < Wrap /\ native <= native /\ Now < Wrap
      BY <1>2
    <3> QED BY <1>1, <2>2, <3>1 DEF Turns, AtMostOneTurn
  <2>8. Fresh' /\ OnlyRequested'
    BY <1>1, <1>5 DEF Fresh, OnlyRequested
  <2>9. HandedOut'
    <3>1. snapshot'.events = base' + previous' /\ snapshot'.events <= base' + previous'
      <4>1. PICK n \in Nat : n = base' + Now
        BY <2>2
      <4>2. n <= n
        OBVIOUS
      <4> QED BY <2>1, <2>2, <4>1, <4>2
    <3> QED BY <3>1 DEF HandedOut
  <2>10. Widened'
    <3>1. CASE phase = "open"
      <4>1. /\ offset <= native
            /\ \/ base' + Now = native - offset
               \/ base' > UintMax - Wrap /\ native - offset > UintMax
        BY <1>5, <2>1, <3>1, ObserveWidens
      <4>2. offset' = offset
        BY <1>1, <3>1
      <4> QED BY <1>1, <2>2, <4>1, <4>2 DEF Widened, Now
    <3>2. CASE phase = "opening"
      <4>1. base' = 0 /\ Now <= native /\ offset' = native - (base' + Now)
        BY <1>1, <2>1, <2>3, <3>2
      <4>2. native - (0 + Now) <= native /\ 0 + Now = native - (native - (0 + Now))
        BY <1>2
      <4>3. base' + previous' = seen' - offset' /\ offset' <= seen'
        BY <2>2, <4>1, <4>2
      <4> QED BY <1>1, <2>2, <4>3 DEF Widened, Now
    <3> QED BY <1>1, <3>1, <3>2
  <2> QED BY <2>6, <2>7, <2>8, <2>9, <2>10 DEF IndInv
<1> QED BY <1>4, <1>5

\* Every step keeps the invariant.
LEMMA NextIndInv == IndInv /\ [Next]_vars => IndInv'
<1> SUFFICES ASSUME IndInv, [Next]_vars PROVE IndInv'
  OBVIOUS
<1>1. CASE Happen
  BY <1>1, HappenIndInv
<1>2. CASE \E s \in {"process", "thread"}, ms \in SUBSET Metrics : Open(s, ms)
  BY <1>2, OpenIndInv
<1>3. CASE Close
  BY <1>3, CloseIndInv
<1>4. CASE ReadFailsEarly \/ ReadCountOverflows \/ \E kernel, user \in Times : ReadCpuOverflows(kernel, user)
  BY <1>4, FailsIndInv DEF ReadFailsEarly, ReadCountOverflows, ReadCpuOverflows, ObserveOverflow
<1>5. CASE ReadCyclesFails
  BY <1>5, ReadCyclesFailsIndInv
<1>6. CASE \E kernel, user \in Times : ReadSucceeds(kernel, user)
  BY <1>6, ReadSucceedsIndInv
<1>7. CASE UNCHANGED vars
  BY <1>7 DEF vars, IndInv, TypeOK, Turns, Fresh, Widened, Widening, AtMostOneTurn, HandedOut,
              OnlyRequested
<1> QED BY <1>1, <1>2, <1>3, <1>4, <1>5, <1>6, <1>7 DEF Next

\* The invariant holds in every reachable state.
LEMMA Invariance == Spec => []IndInv
  BY InitIndInv, NextIndInv, PTL DEF Spec

-----------------------------------------------------------------------------
(* The safety properties. *)

\* Type correctness, the 64 bits of every snapshot among it.
THEOREM TypeCorrect == Spec => []TypeOK
  BY Invariance, PTL DEF IndInv

\* Widened counts are the events that happened, over any number of turns and failed
\* reads, as long as they fit.
THEOREM WidenedExactAlways == Spec => []WidenedExact
<1>1. IndInv => WidenedExact
  <2> SUFFICES ASSUME IndInv, result = "ok", "events" \in metrics, seen - offset <= UintMax
               PROVE  snapshot.events = seen - offset
    BY DEF WidenedExact
  <2>1. seen \in Nat /\ offset \in Nat /\ UintMax \in Nat
    BY Numbers DEF IndInv
  <2>2. snapshot.events = base + previous
    BY DEF IndInv, HandedOut
  <2>3. base + previous = seen - offset \/ seen - offset > UintMax
    BY DEF IndInv, Widened, Widening
  <2> QED BY <2>1, <2>2, <2>3
<1> QED BY <1>1, Invariance, PTL

-----------------------------------------------------------------------------
(* The sampler is a counter backend. *)

\* A step of the sampler is a step of the backend or leaves it alone.
LEMMA BackendStep == IndInv /\ [Next]_vars => [Backend!Next]_Backend!vars
<1> SUFFICES ASSUME IndInv, [Next]_vars PROVE Backend!Next \/ UNCHANGED Backend!vars
  OBVIOUS
<1>0. /\ DOMAIN Empty = {"cpuTime", "events"}
      /\ Empty = Backend!Zeros
  BY DEF Empty, Backend!Zeros
<1>1. CASE Happen \/ UNCHANGED vars
  BY <1>1 DEF Happen, vars, Backend!vars
<1>2. CASE \E s \in {"process", "thread"}, ms \in SUBSET Metrics : Open(s, ms)
  <2>1. Backend!Open
    BY <1>0, <1>2 DEF Open, Backend!Open
  <2> QED BY <2>1 DEF Backend!Next
<1>3. CASE Close
  <2>1. Backend!Close
    BY <1>0, <1>3 DEF Close, Backend!Close
  <2> QED BY <2>1 DEF Backend!Next
<1>4. CASE \/ ReadFailsEarly \/ ReadCountOverflows \/ ReadCyclesFails
           \/ \E kernel, user \in Times : ReadCpuOverflows(kernel, user)
  <2>1. /\ phase \in {"opening", "open"} /\ phase' = (IF phase = "opening" THEN "closed" ELSE "open")
        /\ UNCHANGED <<metrics, snapshot>>
    BY <1>4 DEF ReadFailsEarly, ReadCountOverflows, ReadCyclesFails, ReadCpuOverflows, Fails
  <2>2. CASE phase = "opening"
    <3>1. Backend!Close
      BY <1>0, <2>1, <2>2 DEF Backend!Close
    <3> QED BY <3>1 DEF Backend!Next
  <2>3. CASE phase = "open"
    BY <2>1, <2>3 DEF Backend!vars
  <2> QED BY <2>1, <2>2, <2>3
<1>5. ASSUME NEW kernel \in Times, NEW user \in Times, ReadSucceeds(kernel, user)
      PROVE  Backend!FirstRead \/ Backend!Read
  <2>1. IndInv'
    BY <1>5, ReadSucceedsIndInv
  <2>2. phase \in {"opening", "open"} /\ phase' = "open" /\ metrics' = metrics
    BY <1>5 DEF ReadSucceeds
  <2>3. /\ snapshot' \in [cpuTime : 0..UintMax, events : 0..UintMax]
        /\ "cpuTime" \notin metrics => snapshot'.cpuTime = 0
        /\ "events" \notin metrics => snapshot'.events = 0
    BY <2>1, <2>2 DEF IndInv, TypeOK, OnlyRequested
  <2>4. Backend!Snapshot(snapshot', metrics \cap DOMAIN Empty)
    BY <1>0, <2>3 DEF Backend!Snapshot
  <2>5. CASE phase = "opening"
    BY <2>2, <2>4, <2>5 DEF Backend!FirstRead
  <2>6. CASE phase = "open"
    <3>1. snapshot'.cpuTime >= snapshot.cpuTime
      <4>1. CASE "cpuTime" \in metrics
        BY <1>5, <2>6, <4>1 DEF ReadSucceeds, CpuAdvances
      <4>2. CASE "cpuTime" \notin metrics
        <5>1. snapshot'.cpuTime = 0 /\ snapshot.cpuTime = 0
          BY <2>3, <4>2 DEF IndInv, OnlyRequested
        <5> QED BY <5>1
      <4> QED BY <4>1, <4>2
    <3>2. snapshot'.events >= snapshot.events
      <4>1. CASE "events" \in metrics
        <5>1. Observe /\ ~BaseOverflows /\ snapshot'.events = base' + Now
          BY <1>5, <4>1 DEF ReadSucceeds
        <5>2. base' + Now \in 0..UintMax /\ base' + Now >= base + previous
          BY <5>1, ObserveFits
        <5>3. snapshot.events <= base + previous
          BY <2>6, <4>1 DEF IndInv, HandedOut
        <5>4. base \in Nat /\ previous \in Nat /\ snapshot.events \in Nat /\ UintMax \in Nat
          BY Numbers DEF IndInv
        <5>5. PICK n \in Nat : n = base' + Now
          BY <5>2, <5>4
        <5>6. n >= snapshot.events
          BY <5>2, <5>3, <5>4, <5>5
        <5> QED BY <5>1, <5>5, <5>6
      <4>2. CASE "events" \notin metrics
        <5>1. snapshot'.events = 0 /\ snapshot.events = 0
          BY <2>3, <4>2 DEF IndInv, OnlyRequested
        <5> QED BY <5>1
      <4> QED BY <4>1, <4>2
    <3>3. \A m \in DOMAIN Empty : snapshot'[m] >= snapshot[m]
      BY <1>0, <3>1, <3>2
    <3> QED BY <2>2, <2>4, <2>6, <3>3 DEF Backend!Read
  <2> QED BY <2>2, <2>5, <2>6
<1> QED BY <1>1, <1>2, <1>3, <1>4, <1>5 DEF Next, Backend!Next

\* The Windows sampler keeps the contract sampler.c is written against.
THEOREM WindowsIsBackend == Spec => ImplementsBackend
<1>1. Init => Backend!Init
  BY DEF Init, Backend!Init, Backend!Zeros, Empty
<1> QED BY <1>1, Invariance, BackendStep, PTL DEF Spec, ImplementsBackend, Backend!Spec
=============================================================================
