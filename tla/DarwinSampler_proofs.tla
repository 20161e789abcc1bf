------------------------ MODULE DarwinSampler_proofs ------------------------
(***************************************************************************)
(* Proofs about DarwinSampler for every word size, ratio of a timebase and *)
(* number of threads: every CPU time handed out is exact, every            *)
(* OverflowException is justified, cycles that are offered count, and the  *)
(* sampler keeps the contract of a CounterBackend.                         *)
(***************************************************************************)
EXTENDS DarwinSampler, TLAPS

-----------------------------------------------------------------------------
(* The inductive invariant. *)

\* Whom a time is about, and what a sampler is.
Whose == Thread \cup {Process}
Samplers == [phase : {"opening", "open"}, who : Whose, metrics : SUBSET Metrics,
             cpuTime : 0..UintMax, cycles : 0..MaxCycles]

\* Every variable keeps its type; a timebase that is known is the machine's; outcome is
\* observed and only compared.
TypeOK ==
  /\ cpu \in [Whose -> [user : Nat, system : Nat]]
  /\ cycles \in 0..MaxCycles
  /\ machine \in Timebases /\ timebase \in {machine, NoTimebase}
  /\ selfcounts \in BOOLEAN /\ answers \in BOOLEAN
  /\ selfcounts => timebase # NoTimebase
  /\ sampler = None \/ sampler \in Samplers

\* What a sampler has handed out is not ahead of the kernel, and what it was not opened
\* for is 0.  Cycles offered were counted by then.
NotAhead ==
  sampler # None =>
    /\ IF Has("cpuTime")
       THEN sampler.cpuTime <= ExactTime(sampler.who, cpu[sampler.who].user)
                                 + ExactTime(sampler.who, cpu[sampler.who].system)
       ELSE sampler.cpuTime = 0
    /\ IF Has("cycles") THEN cycles > 0 /\ sampler.cycles <= cycles ELSE sampler.cycles = 0

IndInv == TypeOK /\ NotAhead /\ CyclesCounted /\ CpuTimeExact /\ OverflowReal

-----------------------------------------------------------------------------
(* Arithmetic. *)

\* Division with remainder.
LEMMA Division ==
  ASSUME NEW a \in Int, NEW b \in Nat \ {0}
  PROVE  /\ a \div b \in Int /\ a % b \in 0..b - 1
         /\ a = b * (a \div b) + (a % b)
         /\ a \in Nat => a \div b \in Nat
  BY SMT

\* The same of natural numbers.
LEMMA NatDivision ==
  ASSUME NEW a \in Nat, NEW b \in Nat \ {0}
  PROVE  /\ a \div b \in Nat /\ a % b \in 0..b - 1 /\ a % b \in Nat
         /\ a = b * (a \div b) + (a % b)
  BY SMT

\* A product of natural numbers is one, in either order.
LEMMA NatProduct ==
  ASSUME NEW a \in Nat, NEW b \in Nat
  PROVE  a * b \in Nat /\ a * b = b * a
  BY Z3

\* Products keep the order of their factors.
LEMMA ProductOrder ==
  ASSUME NEW b \in Nat, NEW x \in Int, NEW y \in Int, x <= y
  PROVE  b * x <= b * y /\ b * x \in Int /\ b * y \in Int
<1>1. PICK z \in Nat : y = x + z
  <2>1. y - x \in Nat /\ y = x + (y - x)
    OBVIOUS
  <2> QED BY <2>1
<1>2. b * y = b * x + b * z
  BY <1>1, Z3
<1>3. b * z \in Nat /\ b * x \in Int /\ b * y \in Int
  BY <1>1, Z3
<1> QED BY <1>2, <1>3

\* There is only one quotient.
LEMMA OneQuotient ==
  ASSUME NEW a \in Int, NEW b \in Nat \ {0}, NEW q \in Int, NEW r \in 0..b - 1, a = b * q + r
  PROVE  a \div b = q /\ a % b = r
<1> DEFINE p == a \div b
           s == a % b
<1>1. p \in Int /\ s \in 0..b - 1 /\ a = b * p + s
  BY Division
<1> HIDE DEF p, s
<1>2. CASE p < q
  <2>1. b * (p + 1) <= b * q /\ b * (p + 1) \in Int /\ b * q \in Int
    BY <1>1, <1>2, ProductOrder
  <2>2. b * (p + 1) = b * p + b /\ b * p \in Int
    BY <1>1, Z3
  <2> QED BY <1>1, <2>1, <2>2
<1>3. CASE q < p
  <2>1. b * (q + 1) <= b * p /\ b * (q + 1) \in Int /\ b * p \in Int
    BY <1>1, <1>3, ProductOrder
  <2>2. b * (q + 1) = b * q + b /\ b * q \in Int
    BY <1>1, Z3
  <2> QED BY <1>1, <2>1, <2>2
<1>4. CASE p = q
  <2>1. b * p \in Int /\ b * q = b * p
    BY <1>1, <1>4, Z3
  <2>2. s = r
    BY <1>1, <2>1
  <2> QED BY <1>4, <2>2 DEF p, s
<1> QED BY <1>1, <1>2, <1>3, <1>4

\* A whole number of divisors taken out of a dividend.
LEMMA DivisionShift ==
  ASSUME NEW b \in Nat \ {0}, NEW k \in Int, NEW a \in Int
  PROVE  (b * k + a) \div b = k + (a \div b)
<1> DEFINE q == a \div b
           r == a % b
<1>1. q \in Int /\ r \in 0..b - 1 /\ a = b * q + r
  BY Division
<1> HIDE DEF q, r
<1>2. b * k + a = b * (k + q) + r /\ b * k + a \in Int
  BY <1>1, Z3
<1>3. (b * k + a) \div b = k + q
  BY <1>1, <1>2, OneQuotient
<1> QED BY <1>3 DEF q

\* A number is at most a quotient exactly when the product is at most the dividend.
LEMMA QuotientBound ==
  ASSUME NEW a \in Int, NEW b \in Nat \ {0}, NEW x \in Int
  PROVE  x <= a \div b <=> b * x <= a
<1> DEFINE q == a \div b
           r == a % b
<1>1. q \in Int /\ r \in 0..b - 1 /\ a = b * q + r
  BY Division
<1> HIDE DEF q, r
<1>2. b * q \in Int /\ b * x \in Int
  BY <1>1, Z3
<1>3. CASE x <= q
  <2>1. b * x <= b * q
    BY <1>1, <1>3, ProductOrder
  <2>2. b * x <= a
    BY <1>1, <1>2, <2>1
  <2> QED BY <1>3, <2>2 DEF q
<1>4. CASE q < x
  <2>1. b * (q + 1) <= b * x
    BY <1>1, <1>4, ProductOrder
  <2>2. b * (q + 1) = b * q + b
    BY <1>1, Z3
  <2>3. ~(b * x <= a)
    BY <1>1, <1>2, <2>1, <2>2
  <2>4. ~(x <= q)
    BY <1>1, <1>4
  <2> QED BY <2>3, <2>4 DEF q
<1> QED BY <1>1, <1>3, <1>4

\* Quotients keep the order of their dividends.
LEMMA QuotientOrder ==
  ASSUME NEW a \in Int, NEW c \in Int, NEW b \in Nat \ {0}, a <= c
  PROVE  a \div b <= c \div b
<1>1. a \div b \in Int /\ a \div b <= a \div b
  BY Division
<1>2. b * (a \div b) <= a /\ b * (a \div b) \in Int
  <2> DEFINE q == a \div b
  <2>1. q \in Int /\ q <= a \div b
    BY <1>1
  <2> HIDE DEF q
  <2>2. b * q <= a /\ b * q \in Int
    BY <2>1, QuotientBound, Z3
  <2> QED BY <2>2 DEF q
<1>3. b * (a \div b) <= c
  BY <1>2
<1> DEFINE q == a \div b
<1>4. q \in Int /\ b * q <= c
  BY <1>1, <1>3
<1> HIDE DEF q
<1>5. q <= c \div b
  BY <1>4, QuotientBound
<1> QED BY <1>5 DEF q

\* A number below the modulus is its own remainder.
LEMMA Remainder ==
  ASSUME NEW w \in Nat \ {0}, NEW x \in Nat
  PROVE  x % w \in Nat /\ (x < w => x % w = x)
  BY SMT

-----------------------------------------------------------------------------
(* The two conversions. *)

\* What the assumptions say of the machine words.
LEMMA Words64 ==
  /\ Half \in Nat /\ Word \in Nat /\ UintMax \in Int /\ UintMax < Word
  /\ LongMax \in Int /\ MaxCycles \in 0..UintMax /\ Word > 0 /\ LongMax <= UintMax
<1>1. Half \in Nat /\ Word \in Nat /\ MaxCycles \in Nat /\ MaxCycles < Word
  BY TimeAssumption
<1>2. UintMax = Word - 1 /\ LongMax = (Word \div 2) - 1
  BY DEF UintMax, LongMax
<1>3. Word \div 2 \in Int /\ Word \div 2 <= Word
  BY <1>1, SMT
<1> QED BY <1>1, <1>2, <1>3

\* The remainder of a division times a numerator stays below the word: neither has more
\* than half of its bits.
LEMMA ProductFits ==
  ASSUME NEW n \in 1..Half - 1, NEW r \in 0..Half - 1
  PROVE  r * n \in Nat /\ r * n < Word
<1>1. Half \in Nat /\ Word \in Nat /\ Half * Half <= Word /\ Half * Half \in Int
  <2>1. Half \in Nat /\ Word \in Nat /\ Half * Half <= Word
    BY TimeAssumption
  <2>2. Half * Half \in Int
    BY <2>1, Z3
  <2> QED BY <2>1, <2>2
<1>2. n \in Nat /\ n >= 1 /\ r \in Nat /\ n <= Half /\ r <= Half - 1 /\ Half - 1 \in Int
  BY <1>1
<1>3. n * r <= n * (Half - 1) /\ n * r \in Int
  BY <1>2, ProductOrder
<1>4. Half * n <= Half * Half /\ Half * n \in Int
  BY <1>1, <1>2, ProductOrder
<1>5. n * (Half - 1) = Half * n - n /\ r * n = n * r /\ r * n \in Nat
  BY <1>1, <1>2, Z3
<1> QED BY <1>1, <1>2, <1>3, <1>4, <1>5

\* mach_time_to_ns() for a ratio n / d, and its guards.
ScaleFits(v, n, d) ==
  /\ v \div d <= UintMax \div n
  /\ ((v \div d) * n) % Word <= UintMax - ((((v % d) * n) % Word) \div d)
Scale(v, n, d) == ((((v \div d) * n) % Word) + ((((v % d) * n) % Word) \div d)) % Word

\* Scaling by a ratio in two parts, the quotient and the remainder: when the guards of
\* mach_time_to_ns() hold, nothing wraps and the result is exact; when one does not,
\* the exact time is too large.
LEMMA ScaleExact ==
  ASSUME NEW n \in 1..Half - 1, NEW d \in 1..Half - 1, NEW v \in Nat
  PROVE  /\ ScaleFits(v, n, d) => Scale(v, n, d) = (v * n) \div d /\ (v * n) \div d <= UintMax
         /\ ~ScaleFits(v, n, d) => (v * n) \div d > UintMax
<1>0. PICK q, w, f, exact : /\ q = v \div d
                            /\ w = (q * n) % Word
                            /\ f = (((v % d) * n) % Word) \div d
                            /\ exact = (v * n) \div d
  OBVIOUS
<1>1. /\ n \in Nat \ {0} /\ d \in Nat \ {0}
      /\ Word \in Nat \ {0} /\ UintMax \in Int /\ UintMax = Word - 1
  BY Words64 DEF UintMax
<1>2. PICK r : r = v % d
  OBVIOUS
<1>3. q \in Nat /\ r \in 0..d - 1 /\ v = d * q + r
  <2>1. /\ v \div d \in Nat /\ v % d \in 0..d - 1
        /\ v = d * (v \div d) + (v % d)
    BY <1>1, NatDivision, Zenon
  <2> QED BY <1>0, <1>2, <2>1, Zenon
<1>4. r \in 0..Half - 1
  BY <1>1, <1>3, Words64
<1>5. PICK p : p = r * n
  OBVIOUS
<1>6. p \in Nat /\ p < Word
  BY <1>4, <1>5, ProductFits
<1>7. p % Word = p
  BY <1>1, <1>6, Remainder
<1>8. f = p \div d /\ f \in Nat
  <2>1. f = p \div d
    BY <1>0, <1>2, <1>5, <1>7
  <2>2. p \div d \in Nat
    BY <1>1, <1>6, NatDivision, Zenon
  <2> QED BY <2>1, <2>2
<1>9. PICK k : k = n * q
  OBVIOUS
<1>10. k \in Nat /\ k = q * n /\ v * n = d * k + p /\ w = k % Word
  <2>1. k \in Nat /\ k = q * n
    <3>1. n \in Nat
      BY <1>1
    <3> QED BY <1>3, <1>9, <3>1, NatProduct, Zenon
  <2>2. v * n = d * k + p
    BY <1>1, <1>3, <1>5, <1>9, Z3
  <2> QED BY <1>0, <2>1, <2>2
<1>11. exact = k + f
  BY <1>0, <1>1, <1>6, <1>8, <1>10, DivisionShift
<1>12. q <= UintMax \div n <=> k <= UintMax
  <2>1. q \in Int
    BY <1>3
  <2> QED BY <1>1, <1>9, <2>1, QuotientBound, Zenon
<1>13. k <= UintMax => w = k
  BY <1>1, <1>10, Remainder
<1>14. k + f <= UintMax => (k + f) % Word = k + f
  BY <1>1, <1>8, <1>10, Remainder
<1>15. ASSUME k <= UintMax
       PROVE  /\ (q <= UintMax \div n /\ w <= UintMax - f) => (w + f) % Word = exact /\ exact <= UintMax
              /\ ~(q <= UintMax \div n /\ w <= UintMax - f) => exact > UintMax
  <2>1. w = k /\ (w <= UintMax - f <=> k + f <= UintMax)
    BY <1>1, <1>8, <1>10, <1>13, <1>15
  <2> QED BY <1>1, <1>8, <1>10, <1>11, <1>12, <1>14, <1>15, <2>1
<1>16. ASSUME ~(k <= UintMax)
       PROVE  exact > UintMax /\ ~(q <= UintMax \div n)
  BY <1>1, <1>8, <1>10, <1>11, <1>12, <1>16
<1>17. /\ (q <= UintMax \div n /\ w <= UintMax - f) => (w + f) % Word = exact /\ exact <= UintMax
       /\ ~(q <= UintMax \div n /\ w <= UintMax - f) => exact > UintMax
  BY <1>15, <1>16
<1>18. /\ ScaleFits(v, n, d) <=> (q <= UintMax \div n /\ w <= UintMax - f)
       /\ Scale(v, n, d) = (w + f) % Word
  BY <1>0 DEF ScaleFits, Scale
<1> QED BY <1>0, <1>17, <1>18

\* Seconds and microseconds put together are the time to the microsecond, and the guard
\* of time_value_to_ns() is that it fits.
LEMMA TimeValueExact ==
  ASSUME NEW x \in Nat, NEW tv,
         tv = [seconds |-> (x \div NsPerMicro) \div PerSecond,
               microseconds |-> (x \div NsPerMicro) % PerSecond],
         NEW exact, exact = x - (x % NsPerMicro)
  PROVE  /\ exact \in Nat
         /\ TimeValueFits(tv) => TimeValueToNs(tv) = exact /\ exact <= UintMax
         /\ ~TimeValueFits(tv) => exact > UintMax
<1>1. PICK m : m = x \div NsPerMicro
  OBVIOUS
<1>2. PICK s, u : s = m \div PerSecond /\ u = m % PerSecond
  OBVIOUS
<1>3. /\ NsPerMicro \in Nat \ {0} /\ PerSecond \in Nat \ {0} /\ UintMax \in Int
      /\ UintMax = Word - 1 /\ Word \in Nat \ {0}
  BY Words64, TimeAssumption DEF UintMax
<1>4. m \in Nat /\ x % NsPerMicro \in Nat /\ x = NsPerMicro * m + (x % NsPerMicro)
  BY <1>1, <1>3, NatDivision, Zenon
<1>5. s \in Nat /\ u \in Nat /\ m = PerSecond * s + u
  BY <1>2, <1>3, <1>4, NatDivision, Zenon
<1>6. exact = NsPerMicro * m /\ exact \in Nat
  <2>1. NsPerMicro * m \in Nat
    BY <1>3, <1>4, Z3
  <2> QED BY <1>4, <2>1
<1>7. NsPerSecond \in Nat \ {0} /\ exact = NsPerSecond * s + u * NsPerMicro
      /\ NsPerSecond * s \in Nat /\ u * NsPerMicro \in Nat /\ s * NsPerSecond = NsPerSecond * s
  <2>1. NsPerSecond \in Nat \ {0}
    BY <1>3, Z3 DEF NsPerSecond
  <2>2. NsPerMicro * m = (PerSecond * NsPerMicro) * s + u * NsPerMicro
    BY <1>3, <1>5, Z3
  <2>3. NsPerSecond * s \in Nat /\ u * NsPerMicro \in Nat /\ s * NsPerSecond = NsPerSecond * s
    BY <1>3, <1>5, <2>1, Z3
  <2> QED BY <1>6, <2>1, <2>2, <2>3 DEF NsPerSecond
<1>8. tv.seconds = s /\ tv.microseconds = u
  BY <1>1, <1>2
<1>9. PICK rest : rest = u * NsPerMicro
  OBVIOUS
<1>10. s <= (UintMax - rest) \div NsPerSecond <=> NsPerSecond * s <= UintMax - rest
  <2>1. UintMax - rest \in Int
    BY <1>3, <1>7, <1>9
  <2> QED BY <1>5, <1>7, <2>1, QuotientBound
<1>11. TimeValueFits(tv) <=> exact <= UintMax
  <2>1. NsPerSecond * s <= UintMax - rest <=> exact <= UintMax
    <3>1. PICK a \in Nat : a = NsPerSecond * s
      BY <1>7
    <3>2. rest \in Nat /\ exact = a + rest
      BY <1>7, <1>9, <3>1, Zenon
    <3>3. a <= UintMax - rest <=> a + rest <= UintMax
      BY <1>3, <3>2
    <3> QED BY <3>1, <3>2, <3>3, Zenon
  <2> QED BY <1>8, <1>9, <1>10, <2>1 DEF TimeValueFits
<1>12. TimeValueToNs(tv) = exact % Word
  BY <1>7, <1>8 DEF TimeValueToNs
<1>13. exact <= UintMax => exact % Word = exact
  BY <1>3, <1>6, Remainder
<1> QED BY <1>3, <1>6, <1>11, <1>12, <1>13

-----------------------------------------------------------------------------
(* The times of a thread or of the process. *)

UserTime(who)   == ExactTime(who, cpu[who].user)
SystemTime(who) == ExactTime(who, cpu[who].system)

\* The ratio of the machine is one.
LEMMA MachineRatio ==
  ASSUME TypeOK
  PROVE  machine.numer \in 1..Half - 1 /\ machine.denom \in 1..Half - 1
  BY TimeAssumption DEF TypeOK, Ratio

\* The exact time is a number ...
LEMMA ExactNat ==
  ASSUME TypeOK, NEW who, NEW v \in Nat
  PROVE  ExactTime(who, v) \in Nat /\ Nanoseconds(v) \in Nat
<1>1. PICK n, d : n = machine.numer /\ d = machine.denom
  OBVIOUS
<1>2. n \in Nat /\ d \in Nat \ {0} /\ NsPerMicro \in Nat \ {0}
  BY <1>1, MachineRatio, TimeAssumption
<1>3. PICK x : x = (v * n) \div d
  OBVIOUS
<1>4. x \in Nat
  <2>1. v * n \in Nat
    BY <1>2, NatProduct, Zenon
  <2> QED BY <1>2, <1>3, <2>1, NatDivision, Zenon
<1>5. x - (x % NsPerMicro) \in Nat
  BY <1>2, <1>4, SMT
<1>6. Nanoseconds(v) = x
  BY <1>1, <1>3 DEF Nanoseconds
<1> QED BY <1>4, <1>5, <1>6 DEF ExactTime

\* ... and does not go back when more units are run.
LEMMA ExactOrder ==
  ASSUME TypeOK, NEW who, NEW v \in Nat, NEW w \in Nat, v <= w
  PROVE  ExactTime(who, v) <= ExactTime(who, w)
<1>1. PICK n, d : n = machine.numer /\ d = machine.denom
  OBVIOUS
<1>2. n \in Nat /\ d \in Nat \ {0} /\ NsPerMicro \in Nat \ {0}
  BY <1>1, MachineRatio, TimeAssumption
<1>3. PICK x, y : x = (v * n) \div d /\ y = (w * n) \div d
  OBVIOUS
<1>4. Nanoseconds(v) = x /\ Nanoseconds(w) = y
  BY <1>1, <1>3 DEF Nanoseconds
<1>5. x \in Nat /\ y \in Nat
  BY <1>4, ExactNat
<1>6. x <= y
  <2>1. PICK a, b : a = v * n /\ b = w * n
    OBVIOUS
  <2>2. n * v = a /\ n * w = b
    BY <1>2, <2>1, NatProduct, Zenon
  <2>3. v \in Int /\ w \in Int
    OBVIOUS
  <2>4. a <= b /\ a \in Int /\ b \in Int
    BY <1>2, <2>2, <2>3, ProductOrder
  <2> QED BY <1>2, <1>3, <2>1, <2>4, QuotientOrder
<1>7. x - (x % NsPerMicro) <= y - (y % NsPerMicro)
  <2>1. PICK a, b, p, q : /\ a = x \div NsPerMicro /\ b = y \div NsPerMicro
                          /\ p = x % NsPerMicro /\ q = y % NsPerMicro
    OBVIOUS
  <2>2. /\ a \in Nat /\ p \in Nat /\ x = NsPerMicro * a + p
        /\ b \in Nat /\ q \in Nat /\ y = NsPerMicro * b + q
    BY <1>2, <1>5, <2>1, NatDivision, Zenon
  <2>3. x \in Int /\ y \in Int /\ a \in Int /\ b \in Int /\ NsPerMicro \in Nat
    BY <1>2, <1>5, <2>2
  <2>4. a <= b
    BY <1>2, <1>6, <2>1, <2>3, QuotientOrder
  <2>5. NsPerMicro * a <= NsPerMicro * b /\ NsPerMicro * a \in Int /\ NsPerMicro * b \in Int
    BY <2>3, <2>4, ProductOrder
  <2>6. x - p <= y - q
    BY <2>2, <2>5
  <2> QED BY <2>1, <2>6
<1> QED BY <1>4, <1>6, <1>7 DEF ExactTime

\* mach_time_to_ns() and time_value_to_ns(), whichever the source calls for.
LEMMA ToNsExact ==
  ASSUME TypeOK, NEW who, Convertible(who), NEW v \in Nat
  PROVE  /\ ToNsFits(who, v) => ToNs(who, v) = ExactTime(who, v) /\ ExactTime(who, v) <= UintMax
         /\ ~ToNsFits(who, v) => ExactTime(who, v) > UintMax
<1>1. PICK n, d : n = machine.numer /\ d = machine.denom
  OBVIOUS
<1>2. n \in 1..Half - 1 /\ d \in 1..Half - 1
  BY <1>1, MachineRatio
<1>3. CASE InMachUnits(who)
  <2>1. timebase.numer = n /\ timebase.denom = d
    BY <1>1, <1>3 DEF Convertible, TypeOK
  <2>2. /\ ScaleFits(v, n, d) => Scale(v, n, d) = (v * n) \div d /\ (v * n) \div d <= UintMax
        /\ ~ScaleFits(v, n, d) => (v * n) \div d > UintMax
    BY <1>2, ScaleExact
  <2>3. ExactTime(who, v) = (v * n) \div d
    BY <1>1, <1>3 DEF ExactTime, Nanoseconds
  <2>4. ToNs(who, v) = Scale(v, n, d)
    BY <1>3, <2>1 DEF ToNs, MachTimeToNs, Scale, Whole, Fraction, Quotient
  <2>5. ToNsFits(who, v) <=> ScaleFits(v, n, d)
    BY <1>3, <2>1 DEF ToNsFits, MachTimeFits, ScaleFits, Whole, Fraction, Quotient
  <2> QED BY <2>2, <2>3, <2>4, <2>5, Zenon
<1>4. CASE ~InMachUnits(who)
  <2>1. PICK x : x = Nanoseconds(v)
    OBVIOUS
  <2>2. x \in Nat
    BY <2>1, ExactNat
  <2>3. PICK tv, exact : tv = TimeValue(v) /\ exact = x - (x % NsPerMicro)
    OBVIOUS
  <2>4. tv = [seconds |-> (x \div NsPerMicro) \div PerSecond,
              microseconds |-> (x \div NsPerMicro) % PerSecond]
    BY <2>1, <2>3 DEF TimeValue
  <2>5. /\ TimeValueFits(tv) => TimeValueToNs(tv) = exact /\ exact <= UintMax
        /\ ~TimeValueFits(tv) => exact > UintMax
    BY <2>2, <2>3, <2>4, TimeValueExact
  <2>6. /\ ExactTime(who, v) = exact /\ ToNs(who, v) = TimeValueToNs(tv)
        /\ ToNsFits(who, v) <=> TimeValueFits(tv)
    BY <1>4, <2>1, <2>3 DEF ExactTime, ToNs, ToNsFits
  <2> QED BY <2>5, <2>6
<1> QED BY <1>3, <1>4

\* Both times of a resource usage.
LEMMA UsageRight ==
  ASSUME TypeOK, NEW who \in Whose
  PROVE  /\ cpu[who].user \in Nat /\ cpu[who].system \in Nat
         /\ UserTime(who) \in Nat /\ SystemTime(who) \in Nat
         /\ Convertible(who) /\ UsageFits(who) =>
              /\ UserNs(who) = UserTime(who) /\ SystemNs(who) = SystemTime(who)
              /\ UserTime(who) <= UintMax /\ SystemTime(who) <= UintMax
         /\ Convertible(who) /\ ~UsageFits(who) =>
              UserTime(who) > UintMax \/ SystemTime(who) > UintMax
<1>1. PICK u, s : u = cpu[who].user /\ s = cpu[who].system
  OBVIOUS
<1>2. u \in Nat /\ s \in Nat
  BY <1>1 DEF TypeOK
<1>3. ExactTime(who, u) \in Nat /\ ExactTime(who, s) \in Nat
  BY <1>2, ExactNat
<1>4. UserTime(who) = ExactTime(who, u) /\ SystemTime(who) = ExactTime(who, s)
  BY <1>1 DEF UserTime, SystemTime
<1>5. /\ UserNs(who) = ToNs(who, u) /\ SystemNs(who) = ToNs(who, s)
      /\ UsageFits(who) <=> ToNsFits(who, u) /\ ToNsFits(who, s)
  BY <1>1 DEF UserNs, SystemNs, UsageFits
<1>6. ASSUME Convertible(who), NEW v \in {u, s}
      PROVE  /\ ToNsFits(who, v) => ToNs(who, v) = ExactTime(who, v) /\ ExactTime(who, v) <= UintMax
             /\ ~ToNsFits(who, v) => ExactTime(who, v) > UintMax
  BY <1>2, <1>6, ToNsExact
<1> QED BY <1>1, <1>2, <1>3, <1>4, <1>5, <1>6

\* What store_cpu_time() adds up.
LEMMA CpuTimeRight ==
  ASSUME TypeOK, NEW who \in Whose, Convertible(who)
  PROVE  /\ CpuTimeFits(who) =>
              /\ (UserNs(who) + SystemNs(who)) % Word = UserTime(who) + SystemTime(who)
              /\ UserTime(who) + SystemTime(who) \in 0..UintMax
         /\ ~CpuTimeFits(who) => UserTime(who) + SystemTime(who) > UintMax
<1>1. PICK u, s : u = UserTime(who) /\ s = SystemTime(who)
  OBVIOUS
<1>2. u \in Nat /\ s \in Nat
  BY <1>1, UsageRight
<1>3. Word \in Nat \ {0} /\ UintMax \in Int /\ UintMax = Word - 1
  BY Words64 DEF UintMax
<1>4. CASE UsageFits(who)
  <2>1. UserNs(who) = u /\ SystemNs(who) = s
    BY <1>1, <1>4, UsageRight
  <2>2. CpuTimeFits(who) <=> u + s <= UintMax
    BY <1>2, <1>3, <1>4, <2>1 DEF CpuTimeFits
  <2>3. u + s <= UintMax => (u + s) % Word = u + s
    BY <1>2, <1>3, Remainder
  <2> QED BY <1>1, <1>2, <1>3, <2>1, <2>2, <2>3
<1>5. CASE ~UsageFits(who)
  <2>1. u > UintMax \/ s > UintMax
    BY <1>1, <1>5, UsageRight
  <2>2. u + s > UintMax
    BY <1>2, <1>3, <2>1
  <2> QED BY <1>1, <1>5, <2>2 DEF CpuTimeFits
<1> QED BY <1>4, <1>5

\* What uint64_to_zend_long() can hand to PHP.
LEMMA FitsLongRight ==
  ASSUME TypeOK, NEW who \in Whose, Convertible(who)
  PROVE  /\ FitsLong(who) => UserNs(who) = UserTime(who) /\ SystemNs(who) = SystemTime(who)
         /\ ~FitsLong(who) => UserTime(who) > LongMax \/ SystemTime(who) > LongMax
<1>1. PICK u, s : u = UserTime(who) /\ s = SystemTime(who)
  OBVIOUS
<1>2. u \in Nat /\ s \in Nat /\ UintMax \in Int /\ LongMax \in Int /\ LongMax <= UintMax
  BY <1>1, UsageRight, Words64
<1>3. CASE UsageFits(who)
  <2>1. UserNs(who) = u /\ SystemNs(who) = s
    BY <1>1, <1>3, UsageRight
  <2> QED BY <1>1, <1>2, <1>3, <2>1 DEF FitsLong
<1>4. CASE ~UsageFits(who)
  <2>1. u > UintMax \/ s > UintMax
    BY <1>1, <1>4, UsageRight
  <2> QED BY <1>1, <1>2, <1>4, <2>1 DEF FitsLong
<1> QED BY <1>3, <1>4

-----------------------------------------------------------------------------
(* The invariant is inductive. *)

\* Both properties of a result, of one result in the present state.
Right(o) ==
  /\ (o # None /\ o.values # <<>>) =>
        o.values = IF o.call = "read" THEN <<UserTime(o.who) + SystemTime(o.who)>>
                                      ELSE <<UserTime(o.who), SystemTime(o.who)>>
  /\ (o # None /\ o.error = "OverflowException") =>
        IF o.call = "read" THEN UserTime(o.who) + SystemTime(o.who) > UintMax
                           ELSE UserTime(o.who) > LongMax \/ SystemTime(o.who) > LongMax

\* A call takes no time, so its result may be judged before it.
LEMMA RightAfter ==
  ASSUME UNCHANGED <<usage, module>>, NEW o, o = outcome', Right(o)
  PROVE  CpuTimeExact' /\ OverflowReal'
<1>1. cpu' = cpu /\ machine' = machine /\ selfcounts' = selfcounts /\ answers' = answers
  BY DEF usage, module
<1>2. ExactUser' = UserTime(o.who) /\ ExactSystem' = SystemTime(o.who)
  BY <1>1 DEF ExactUser, ExactSystem, UserTime, SystemTime, ExactTime, InMachUnits, Nanoseconds
<1> QED BY <1>2 DEF Right, CpuTimeExact, OverflowReal

\* Nothing returned, and no overflow.
LEMMA NothingRight ==
  ASSUME NEW o, o = None \/ (o.values = <<>> /\ o.error # "OverflowException")
  PROVE  Right(o)
  BY DEF Right

\* At first nothing has been run, and no sampler is open.
LEMMA InitIndInv == Init => IndInv
<1> SUFFICES ASSUME Init PROVE IndInv
  OBVIOUS
<1>1. cpu \in [Whose -> [user : Nat, system : Nat]] /\ cycles \in 0..MaxCycles
  BY Words64 DEF Init, Whose
<1>2. /\ machine \in Timebases /\ timebase \in {machine, NoTimebase}
      /\ selfcounts \in BOOLEAN /\ answers \in BOOLEAN
      /\ selfcounts => timebase # NoTimebase
  BY Zenon DEF Init, Minit
<1>3. sampler = None /\ outcome = None
  BY DEF Init
<1> QED BY <1>1, <1>2, <1>3 DEF IndInv, TypeOK, NotAhead, CyclesCounted, CpuTimeExact, OverflowReal

\* A thread runs: the exact times only grow.
LEMMA RunIndInv ==
  ASSUME IndInv, NEW t \in Thread, NEW user \in Steps \cup {0}, NEW system \in Steps \cup {0},
         NEW c \in 0..1, Run(t, user, system, c)
  PROVE  IndInv'
<1>1. /\ user \in Nat /\ system \in Nat /\ MaxCycles \in Nat
  BY TimeAssumption
<1>2. /\ cycles + c <= MaxCycles /\ cycles' = cycles + c /\ outcome' = None
      /\ UNCHANGED <<module, sampler>>
      /\ cpu' = [who \in DOMAIN cpu |->
               IF who \in {t, Process}
               THEN [user |-> cpu[who].user + user, system |-> cpu[who].system + system]
               ELSE cpu[who]]
  BY DEF Run
<1>3. cpu \in [Whose -> [user : Nat, system : Nat]]
  BY DEF IndInv, TypeOK
<1>4. ASSUME NEW who \in Whose
      PROVE  /\ cpu'[who] \in [user : Nat, system : Nat]
             /\ cpu[who].user \in Nat /\ cpu[who].system \in Nat
             /\ cpu'[who].user \in Nat /\ cpu'[who].system \in Nat
             /\ cpu'[who].user >= cpu[who].user /\ cpu'[who].system >= cpu[who].system
  <2>1. cpu[who] \in [user : Nat, system : Nat] /\ who \in DOMAIN cpu
    BY <1>3
  <2>2. CASE who \in {t, Process}
    <3>1. cpu'[who] = [user |-> cpu[who].user + user, system |-> cpu[who].system + system]
      BY <1>2, <2>1, <2>2
    <3> QED BY <1>1, <2>1, <3>1
  <2>3. CASE who \notin {t, Process}
    BY <1>2, <2>1, <2>3
  <2> QED BY <2>2, <2>3
<1>5. TypeOK'
  <2>1. cpu' \in [Whose -> [user : Nat, system : Nat]]
    BY <1>2, <1>3, <1>4
  <2>2. cycles' \in 0..MaxCycles
    BY <1>1, <1>2 DEF IndInv, TypeOK
  <2> QED BY <1>2, <2>1, <2>2 DEF IndInv, TypeOK, module
<1>6. NotAhead'
  <2> SUFFICES ASSUME sampler # None
      PROVE  /\ IF Has("cpuTime")
                THEN sampler.cpuTime <= ExactTime(sampler.who, cpu'[sampler.who].user)
                                          + ExactTime(sampler.who, cpu'[sampler.who].system)
                ELSE sampler.cpuTime = 0
             /\ IF Has("cycles") THEN cycles' > 0 /\ sampler.cycles <= cycles' ELSE sampler.cycles = 0
    BY <1>2 DEF NotAhead, Has, ExactTime, InMachUnits, Nanoseconds, module
  <2>1. sampler \in Samplers
    BY DEF IndInv, TypeOK
  <2>2. PICK who, old, new : who = sampler.who /\ old = cpu[who] /\ new = cpu'[who]
    OBVIOUS
  <2>3. who \in Whose /\ sampler.cpuTime \in 0..UintMax /\ sampler.cycles \in 0..MaxCycles
    BY <2>1, <2>2 DEF Samplers
  <2>4. /\ old.user \in Nat /\ old.system \in Nat /\ new.user \in Nat /\ new.system \in Nat
        /\ old.user <= new.user /\ old.system <= new.system
    BY <1>4, <2>2, <2>3
  <2>5. /\ ExactTime(who, old.user) <= ExactTime(who, new.user)
        /\ ExactTime(who, old.system) <= ExactTime(who, new.system)
    BY <2>4, ExactOrder DEF IndInv
  <2>6. /\ ExactTime(who, old.user) \in Nat /\ ExactTime(who, new.user) \in Nat
        /\ ExactTime(who, old.system) \in Nat /\ ExactTime(who, new.system) \in Nat
    BY <2>4, ExactNat DEF IndInv
  <2>7. Has("cpuTime") => sampler.cpuTime <= ExactTime(who, new.user) + ExactTime(who, new.system)
    <3>1. Has("cpuTime") => sampler.cpuTime <= ExactTime(who, old.user) + ExactTime(who, old.system)
      BY <2>2 DEF IndInv, NotAhead
    <3>2. sampler.cpuTime \in Int
      BY <2>3, Words64
    <3> QED BY <2>5, <2>6, <3>1, <3>2
  <2>8. Has("cycles") => cycles' > 0 /\ sampler.cycles <= cycles'
    BY <1>1, <1>2, <2>3 DEF IndInv, NotAhead, TypeOK
  <2>9. /\ ~Has("cpuTime") => sampler.cpuTime = 0
        /\ ~Has("cycles") => sampler.cycles = 0
    BY DEF IndInv, NotAhead
  <2> QED BY <2>2, <2>7, <2>8, <2>9
<1>7. CyclesCounted'
  BY <1>2 DEF IndInv, CyclesCounted, Has
<1>8. CpuTimeExact' /\ OverflowReal'
  BY <1>2 DEF CpuTimeExact, OverflowReal
<1> QED BY <1>5, <1>6, <1>7, <1>8 DEF IndInv

\* A sampler that is left alone, or dropped.
LEMMA SamplerKept ==
  ASSUME IndInv, sampler' = sampler \/ sampler' = None, UNCHANGED <<usage, module>>
  PROVE  TypeOK' /\ NotAhead' /\ CyclesCounted'
<1>1. cpu' = cpu /\ cycles' = cycles /\ UNCHANGED module
  BY DEF usage
<1>2. TypeOK'
  BY <1>1 DEF IndInv, TypeOK, module
<1>3. NotAhead'
  BY <1>1 DEF IndInv, NotAhead, Has, ExactTime, InMachUnits, Nanoseconds, module
<1>4. CyclesCounted'
  BY DEF IndInv, CyclesCounted, Has
<1> QED BY <1>2, <1>3, <1>4

\* The same of a sampler that a call has changed.
LEMMA NotAheadAfter ==
  ASSUME UNCHANGED <<usage, module>>, NEW new, new = sampler',
         IF "cpuTime" \in new.metrics
         THEN new.cpuTime <= UserTime(new.who) + SystemTime(new.who)
         ELSE new.cpuTime = 0,
         IF "cycles" \in new.metrics THEN cycles > 0 /\ new.cycles <= cycles ELSE new.cycles = 0
  PROVE  NotAhead'
<1>1. /\ cpu' = cpu /\ cycles' = cycles
      /\ machine' = machine /\ selfcounts' = selfcounts /\ answers' = answers
  BY DEF usage, module
<1> QED BY <1>1 DEF NotAhead, Has, UserTime, SystemTime, ExactTime, InMachUnits, Nanoseconds

\* The resource usage functions.
LEMMA GetUsageIndInv ==
  ASSUME IndInv, NEW who \in Whose,
         GetUsage(who) \/ GetUsageOverflows(who) \/ GetUsageFails(who) \/ OpenFails(who)
  PROVE  IndInv'
<1>1. UNCHANGED <<usage, module>> /\ sampler' = sampler
  BY DEF GetUsage, GetUsageOverflows, GetUsageFails, OpenFails
<1>2. PICK o : o = outcome'
  OBVIOUS
<1>3. TypeOK
  BY DEF IndInv
<1>4. Right(o)
  <2>1. CASE GetUsage(who)
    <3>1. /\ o = [who |-> who, call |-> "usage", error |-> "none", values |-> <<UserNs(who), SystemNs(who)>>]
          /\ Convertible(who) /\ FitsLong(who)
      BY <1>2, <2>1 DEF GetUsage, Return
    <3>2. UserNs(who) = UserTime(who) /\ SystemNs(who) = SystemTime(who)
      BY <1>3, <3>1, FitsLongRight
    <3> QED BY <3>1, <3>2 DEF Right
  <2>2. CASE GetUsageOverflows(who)
    <3>1. /\ o = [who |-> who, call |-> "usage", error |-> "OverflowException", values |-> <<>>]
          /\ Convertible(who) /\ ~FitsLong(who)
      BY <1>2, <2>2 DEF GetUsageOverflows, Return
    <3>2. UserTime(who) > LongMax \/ SystemTime(who) > LongMax
      BY <1>3, <3>1, FitsLongRight
    <3> QED BY <3>1, <3>2 DEF Right
  <2>3. CASE GetUsageFails(who) \/ OpenFails(who)
    BY <1>2, <2>3, NothingRight DEF GetUsageFails, OpenFails, Return
  <2> QED BY <2>1, <2>2, <2>3
<1> QED BY <1>1, <1>2, <1>4, RightAfter, SamplerKept DEF IndInv

\* A sampler is opened; a metric it cannot have is refused.
LEMMA OpenIndInv ==
  ASSUME IndInv, NEW who \in Whose, NEW metrics \in SUBSET Metrics, Open(who, metrics)
  PROVE  IndInv'
<1>1. /\ UNCHANGED <<usage, module>> /\ outcome' = None /\ metrics \subseteq Supported(who)
      /\ sampler' = [phase |-> "opening", who |-> who, metrics |-> metrics,
                     cpuTime |-> 0, cycles |-> 0]
  BY DEF Open
<1>2. CpuTimeExact' /\ OverflowReal'
  BY <1>1 DEF CpuTimeExact, OverflowReal
<1>3. TypeOK'
  <2>1. 0 \in 0..UintMax /\ 0 \in 0..MaxCycles
    BY Words64
  <2>2. sampler' \in Samplers
    BY <1>1, <2>1 DEF Samplers
  <2> QED BY <1>1, <2>2 DEF IndInv, TypeOK, usage, module
<1>4. NotAhead'
  <2>1. "cycles" \in metrics => cycles > 0
    BY <1>1, TimeAssumption DEF Supported, IndInv, TypeOK
  <2>2. UserTime(who) + SystemTime(who) >= 0
    BY UsageRight DEF IndInv
  <2>3. cycles \in Nat
    BY Words64 DEF IndInv, TypeOK
  <2>4. PICK new : new = sampler'
    OBVIOUS
  <2>5. /\ 0 <= UserTime(new.who) + SystemTime(new.who) /\ new.cpuTime = 0 /\ new.cycles = 0
        /\ "cycles" \in new.metrics => cycles > 0 /\ new.cycles <= cycles
    BY <1>1, <2>1, <2>2, <2>3, <2>4
  <2> QED BY <1>1, <2>4, <2>5, NotAheadAfter
<1>5. CyclesCounted'
  BY <1>1 DEF CyclesCounted
<1> QED BY <1>2, <1>3, <1>4, <1>5 DEF IndInv

\* What a successful read stores, and that it is exact.
LEMMA ReadStores ==
  ASSUME IndInv, NEW t \in Thread, Read(t), NEW who, who = sampler.who
  PROVE  /\ sampler \in Samplers /\ who \in Whose
         /\ sampler' \in Samplers /\ sampler'.phase = "open"
         /\ sampler'.who = who /\ sampler'.metrics = sampler.metrics
         /\ Has("cpuTime") => sampler'.cpuTime = UserTime(who) + SystemTime(who)
         /\ ~Has("cpuTime") => sampler'.cpuTime = 0
         /\ Has("cycles") => sampler'.cycles = cycles
         /\ ~Has("cycles") => sampler'.cycles = 0
         /\ outcome' = [who |-> who, call |-> "read", error |-> "none",
                        values |-> IF Has("cpuTime") THEN <<sampler'.cpuTime>> ELSE <<>>]
<1>1. sampler \in Samplers /\ sampler # None
  BY DEF Read, Calls, IndInv, TypeOK
<1>2. who \in Whose /\ Source(t) = who
  BY <1>1 DEF Samplers, Read, OwnThread, Source
<1>3. PICK total, counted :
         /\ total = IF Has("cpuTime") THEN (UserNs(who) + SystemNs(who)) % Word ELSE 0
         /\ counted = IF Has("cycles") THEN cycles ELSE 0
  OBVIOUS
<1>4. /\ sampler' = [sampler EXCEPT !.phase = "open", !.cpuTime = total, !.cycles = counted]
      /\ outcome' = [who |-> who, call |-> "read", error |-> "none",
                     values |-> IF Has("cpuTime") THEN <<total>> ELSE <<>>]
      /\ Has("cpuTime") => Convertible(who) /\ CpuTimeFits(who)
  BY <1>2, <1>3 DEF Read, Return
<1>5. Has("cpuTime") => total = UserTime(who) + SystemTime(who) /\ total \in 0..UintMax
  BY <1>2, <1>3, <1>4, CpuTimeRight DEF IndInv
<1>6. total \in 0..UintMax /\ counted \in 0..MaxCycles
  BY <1>3, <1>5, Words64 DEF IndInv, TypeOK
<1>7. /\ sampler' \in Samplers /\ sampler'.phase = "open" /\ sampler'.cpuTime = total
      /\ sampler'.cycles = counted /\ sampler'.who = who /\ sampler'.metrics = sampler.metrics
  BY <1>1, <1>4, <1>6 DEF Samplers
<1> QED BY <1>1, <1>2, <1>3, <1>4, <1>5, <1>7

\* A read.
LEMMA ReadIndInv ==
  ASSUME IndInv, NEW t \in Thread, Read(t)
  PROVE  IndInv'
<1>1. UNCHANGED <<usage, module>> /\ sampler # None
  BY DEF Read, Calls
<1>2. PICK who, o, new : who = sampler.who /\ o = outcome' /\ new = sampler'
  OBVIOUS
<1>3. /\ who \in Whose /\ sampler \in Samplers
      /\ new \in Samplers /\ new.phase = "open"
      /\ new.who = who /\ new.metrics = sampler.metrics
      /\ Has("cpuTime") => new.cpuTime = UserTime(who) + SystemTime(who)
      /\ ~Has("cpuTime") => new.cpuTime = 0
      /\ Has("cycles") => new.cycles = cycles
      /\ ~Has("cycles") => new.cycles = 0
      /\ o = [who |-> who, call |-> "read", error |-> "none",
              values |-> IF Has("cpuTime") THEN <<new.cpuTime>> ELSE <<>>]
  BY <1>2, ReadStores
<1>4. Right(o)
  BY <1>3 DEF Right
<1>5. TypeOK'
  BY <1>1, <1>2, <1>3 DEF IndInv, TypeOK, usage, module
<1>6. Has("cycles") => cycles > 0
  BY <1>1 DEF IndInv, NotAhead
<1>7. Has("cpuTime")' = Has("cpuTime") /\ Has("cycles")' = Has("cycles")
  BY <1>2, <1>3 DEF Has
<1>8. NotAhead'
  <2>1. UserTime(who) \in Nat /\ SystemTime(who) \in Nat /\ cycles \in Int
    BY <1>3, UsageRight, Words64 DEF IndInv, TypeOK
  <2>2. /\ IF "cpuTime" \in new.metrics
           THEN new.cpuTime <= UserTime(new.who) + SystemTime(new.who)
           ELSE new.cpuTime = 0
        /\ IF "cycles" \in new.metrics THEN cycles > 0 /\ new.cycles <= cycles ELSE new.cycles = 0
    BY <1>3, <1>6, <2>1 DEF Has
  <2> QED BY <1>1, <1>2, <2>2, NotAheadAfter
<1>9. CyclesCounted'
  BY <1>1, <1>2, <1>3, <1>6, <1>7 DEF CyclesCounted
<1> QED BY <1>1, <1>2, <1>4, <1>5, <1>8, <1>9, RightAfter DEF IndInv

\* A read that fails: the exception of an overflow is justified.
LEMMA ReadFailsIndInv ==
  ASSUME IndInv, NEW t \in Thread, ReadOverflows(t) \/ ReadWrongThread(t) \/ ReadFails(t)
  PROVE  IndInv'
<1>1. /\ UNCHANGED <<usage, module>> /\ (sampler' = sampler \/ sampler' = None)
      /\ sampler \in Samplers
  BY DEF ReadOverflows, ReadWrongThread, ReadFails, Survive, Calls, IndInv, TypeOK
<1>2. PICK who, o : who = sampler.who /\ o = outcome'
  OBVIOUS
<1>3. who \in Whose
  BY <1>1, <1>2 DEF Samplers
<1>4. Right(o)
  <2>1. CASE ReadOverflows(t)
    <3>1. /\ o = [who |-> who, call |-> "read", error |-> "OverflowException", values |-> <<>>]
          /\ Source(t) = who
      BY <1>2, <2>1 DEF ReadOverflows, Return, Source, OwnThread
    <3>2. Convertible(who) /\ ~CpuTimeFits(who)
      BY <2>1, <3>1 DEF ReadOverflows
    <3>3. UserTime(who) + SystemTime(who) > UintMax
      BY <1>3, <3>2, CpuTimeRight DEF IndInv
    <3> QED BY <3>1, <3>3 DEF Right
  <2>2. CASE ReadWrongThread(t) \/ ReadFails(t)
    BY <1>2, <2>2, NothingRight DEF ReadWrongThread, ReadFails, Return
  <2> QED BY <2>1, <2>2
<1> QED BY <1>1, <1>2, <1>4, RightAfter, SamplerKept DEF IndInv

\* The invariant holds in every reachable state.
LEMMA Invariance == Spec => []IndInv
<1>1. IndInv /\ [Next]_vars => IndInv'
  <2> SUFFICES ASSUME IndInv, [Next]_vars PROVE IndInv'
    OBVIOUS
  <2>1. ASSUME NEW t \in Thread, NEW user \in Steps \cup {0}, NEW system \in Steps \cup {0},
               NEW c \in 0..1, Run(t, user, system, c)
        PROVE  IndInv'
    BY <2>1, RunIndInv
  <2>2. ASSUME NEW t \in Thread,
               Read(t) \/ ReadOverflows(t) \/ ReadWrongThread(t) \/ ReadFails(t)
        PROVE  IndInv'
    BY <2>2, ReadIndInv, ReadFailsIndInv
  <2>3. ASSUME NEW who \in Whose,
               GetUsage(who) \/ GetUsageOverflows(who) \/ GetUsageFails(who) \/ OpenFails(who)
        PROVE  IndInv'
    BY <2>3, GetUsageIndInv
  <2>4. ASSUME NEW who \in Whose, NEW metrics \in SUBSET Metrics, Open(who, metrics)
        PROVE  IndInv'
    BY <2>4, OpenIndInv
  <2>5. CASE Close
    <3>1. UNCHANGED <<usage, module>> /\ sampler' = None /\ outcome' = None
      BY <2>5 DEF Close
    <3> QED BY <3>1, SamplerKept DEF IndInv, CpuTimeExact, OverflowReal
  <2>6. CASE UNCHANGED vars
    <3>1. UNCHANGED <<usage, module>> /\ sampler' = sampler /\ outcome' = outcome
      BY <2>6 DEF vars, usage, module
    <3>2. CpuTimeExact' /\ OverflowReal'
      BY <2>6 DEF vars, IndInv, CpuTimeExact, OverflowReal, ExactUser, ExactSystem, ExactTime,
                  InMachUnits, Nanoseconds
    <3> QED BY <3>1, <3>2, SamplerKept DEF IndInv
  <2> QED BY <2>1, <2>2, <2>3, <2>4, <2>5, <2>6 DEF Next, Whose
<1> QED BY <1>1, InitIndInv, PTL DEF Spec

-----------------------------------------------------------------------------
(* The safety properties. *)

\* A CPU time handed out by read() or by a resource usage function is exactly that of the
\* process or thread it is about, for every ratio of 32-bit numbers: the two products of
\* mach_time_to_ns() are guarded by what makes them exact.
THEOREM CpuTimeExactAlways == Spec => []CpuTimeExact
  BY Invariance, PTL DEF IndInv

\* An OverflowException of the Darwin code is thrown only when the time does not fit.
THEOREM OverflowRealAlways == Spec => []OverflowReal
  BY Invariance, PTL DEF IndInv

\* An open sampler that offers cycles never reports 0 of them.
THEOREM CyclesCountedAlways == Spec => []CyclesCounted
  BY Invariance, PTL DEF IndInv

-----------------------------------------------------------------------------
(* The contract of the backend. *)

\* Seen through the contract, a step opens, reads or closes, or nothing happens.
LEMMA BackendStep == IndInv /\ [Next]_vars => [Backend!Next]_Backend!vars
<1> SUFFICES ASSUME IndInv, [Next]_vars PROVE Backend!Next \/ UNCHANGED Backend!vars
  OBVIOUS
<1> DEFINE M == {"cpuTime", "cycles"}
           State(s) == IF s = None THEN "closed" ELSE s.phase
           Asked(s) == IF s = None THEN {} ELSE s.metrics \cap M
           Values(s) == [m \in M |-> IF s = None THEN 0 ELSE s[m]]
           Zeros == [m \in M |-> 0]
<1>1. PICK old, new : old = sampler /\ new = sampler'
  OBVIOUS
<1>2. Zeros = Backend!Zeros /\ Values(None) = Zeros
  BY DEF Backend!Zeros
<1>3. \A s \in Samplers : s # None
  BY DEF Samplers, None
<1>4. old = None \/ old \in Samplers
  BY <1>1 DEF IndInv, TypeOK
<1>5. CASE new = old
  BY <1>1, <1>5 DEF Backend!vars
<1>6. CASE new = None /\ old # None
  <2>1. State(old) # "closed" /\ State(new) = "closed" /\ Asked(new) = {} /\ Values(new) = Zeros
    BY <1>4, <1>6 DEF Samplers
  <2>2. Backend!Close
    BY <1>1, <1>2, <2>1 DEF Backend!Close
  <2> QED BY <2>2 DEF Backend!Next
<1>7. ASSUME NEW who \in Whose, NEW metrics \in SUBSET Metrics, Open(who, metrics)
      PROVE  Backend!Next
  <2>1. /\ old = None
        /\ new = [phase |-> "opening", who |-> who, metrics |-> metrics, cpuTime |-> 0, cycles |-> 0]
    BY <1>1, <1>7 DEF Open
  <2>2. new # None
    BY <2>1 DEF None
  <2>3. State(old) = "closed" /\ State(new) = "opening" /\ Asked(new) \subseteq M /\ Values(new) = Zeros
    BY <2>1, <2>2
  <2>4. Backend!Open
    BY <1>1, <1>2, <2>3 DEF Backend!Open
  <2> QED BY <2>4 DEF Backend!Next
<1>8. ASSUME NEW t \in Thread, Read(t)
      PROVE  Backend!Next
  <2>1. PICK who : who = sampler.who
    OBVIOUS
  <2>2. /\ old \in Samplers /\ who \in Whose
        /\ new \in Samplers /\ new.phase = "open"
        /\ new.metrics = old.metrics
        /\ "cpuTime" \in old.metrics => new.cpuTime = UserTime(who) + SystemTime(who)
        /\ "cpuTime" \notin old.metrics => new.cpuTime = 0
        /\ "cycles" \in old.metrics => new.cycles = cycles
        /\ "cycles" \notin old.metrics => new.cycles = 0
    BY <1>1, <1>8, <2>1, ReadStores DEF Has
  <2>3. old # None /\ new # None
    BY <1>3, <2>2
  <2>4. new.cpuTime \in 0..UintMax /\ new.cycles \in 0..UintMax
    BY <2>2, Words64 DEF Samplers
  <2>5. new.cpuTime >= old.cpuTime /\ new.cycles >= old.cycles
    <3>1. /\ "cpuTime" \in old.metrics => old.cpuTime <= UserTime(who) + SystemTime(who)
          /\ "cpuTime" \notin old.metrics => old.cpuTime = 0
          /\ "cycles" \in old.metrics => old.cycles <= cycles
          /\ "cycles" \notin old.metrics => old.cycles = 0
      BY <1>1, <2>1, <2>3 DEF IndInv, NotAhead, Has, UserTime, SystemTime
    <3>2. UserTime(who) \in Nat /\ SystemTime(who) \in Nat /\ cycles \in Int
      BY <2>2, UsageRight, Words64 DEF IndInv, TypeOK
    <3>3. old.cpuTime \in Int /\ old.cycles \in Int
      BY <2>2, Words64 DEF Samplers
    <3> QED BY <2>2, <3>1, <3>2, <3>3
  <2>6. /\ State(new) = "open" /\ State(old) = old.phase /\ old.phase \in {"opening", "open"}
        /\ Asked(new) = Asked(old) /\ Asked(old) = old.metrics \cap M
        /\ Values(old) = [m \in M |-> old[m]] /\ Values(new) = [m \in M |-> new[m]]
    BY <2>2, <2>3 DEF Samplers
  <2>7. Backend!Snapshot(Values(new), Asked(old))
    <3>1. Values(new) \in [M -> 0..UintMax]
      BY <2>4, <2>6
    <3>2. \A m \in M \ Asked(old) : Values(new)[m] = 0
      BY <2>2, <2>6
    <3> QED BY <3>1, <3>2 DEF Backend!Snapshot
  <2>8. \A m \in M : Values(new)[m] >= Values(old)[m]
    BY <2>5, <2>6
  <2> HIDE DEF State, Asked, Values
  <2>9. CASE old.phase = "opening"
    <3>1. Backend!FirstRead
      BY <1>1, <2>6, <2>7, <2>9 DEF Backend!FirstRead, State, Asked, Values
    <3> QED BY <3>1 DEF Backend!Next
  <2>10. CASE old.phase = "open"
    <3>1. Backend!Read
      BY <1>1, <2>6, <2>7, <2>8, <2>10 DEF Backend!Read, State, Asked, Values
    <3> QED BY <3>1 DEF Backend!Next
  <2> QED BY <2>6, <2>9, <2>10
<1>9. CASE new = old \/ (new = None /\ old # None)
  BY <1>5, <1>6, <1>9
<1>10. \/ new = old \/ (new = None /\ old # None)
       \/ \E t \in Thread : Read(t)
       \/ \E who \in Whose, metrics \in SUBSET Metrics : Open(who, metrics)
  BY <1>1 DEF Next, vars, Whose, Run, ReadOverflows, ReadWrongThread, ReadFails, Survive, Calls,
              GetUsage, GetUsageOverflows, GetUsageFails, OpenFails, Close
<1> QED BY <1>7, <1>8, <1>9, <1>10

\* The Darwin backend keeps the contract sampler.c is written against: the totals of an
\* open sampler never go back, because the exact times they are do not.
THEOREM DarwinIsBackend == Spec => ImplementsBackend
<1>1. Init => Backend!Init
  BY DEF Init, Backend!Init, Backend!Zeros
<1> QED BY <1>1, Invariance, BackendStep, PTL DEF Spec, ImplementsBackend, Backend!Spec
=============================================================================
