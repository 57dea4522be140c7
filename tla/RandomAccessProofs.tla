------------------------- MODULE RandomAccessProofs -------------------------
(***************************************************************************)
(* Proofs about RandomAccess, for every width of a word, every argument of *)
(* starts, every number of PEs and every size of table.                    *)
(*                                                                         *)
(* What a recursive function computes is found by inductions carried out   *)
(* on sets of numbers: a definition has a solution, and every solution     *)
(* satisfies its equation.                                                 *)
(***************************************************************************)
EXTENDS RandomAccess, FiniteSetTheorems, WellFoundedInduction, TLAPS

----------------------------------------------------------------------------
(* Induction and recursion on numbers *)

\* A set of numbers has a least one.
LEMMA LeastNumber ==
    ASSUME NEW T \in SUBSET Nat, T # {}
    PROVE  \E x \in T : \A y \in T : x <= y
<1>1. PICK x \in T : \A y \in T : ~(<<y, x>> \in OpToRel(<, Nat))
  BY NatLessThanWellFounded, WFMin
<1>2. \A y \in T : ~(y < x)
  BY <1>1 DEF OpToRel
<1> QED
  BY <1>2

\* A property of numbers is given as the set T of those that have it.
LEMMA Induction ==
    ASSUME NEW T, 0 \in T, \A k \in Nat : k \in T => k + 1 \in T
    PROVE  \A k \in Nat : k \in T
<1> DEFINE Others == Nat \ T
<1> SUFFICES ASSUME Others # {} PROVE FALSE
  OBVIOUS
<1>1. PICK x \in Others : \A y \in Others : x <= y
  BY LeastNumber
<1>2. x # 0 /\ x - 1 \in Nat
  OBVIOUS
<1>3. x - 1 \in Others
  OBVIOUS
<1> QED
  BY <1>1, <1>2, <1>3

\* h starts with a and follows the steps of F up to m.
IsPrefix(a, F, m, h) == h[0] = a /\ \A k \in 1 .. m : h[k] = F[k - 1][h[k - 1]]

\* A start and a step in the values V.
IsStep(V, a, F) == a \in V /\ F \in [Nat -> [V -> V]]

\* The form in which the functions of RandomAccess are defined.
Solves(V, a, F, g) ==
    /\ g \in [Nat -> V]
    /\ g = [k \in Nat |-> IF k = 0 THEN a ELSE F[k - 1][g[k - 1]]]

\* A start and a step determine a sequence.
LEMMA Recursion ==
    ASSUME NEW V, NEW a, NEW F, IsStep(V, a, F)
    PROVE  \E g : Solves(V, a, F, g)
<1>0. a \in V /\ F \in [Nat -> [V -> V]]
  BY DEF IsStep
<1> DEFINE Good == {m \in Nat : \E h \in [0 .. m -> V] : IsPrefix(a, F, m, h)}
<1>1. 0 \in Good
  <2>1. [k \in 0 .. 0 |-> a] \in [0 .. 0 -> V] /\ IsPrefix(a, F, 0, [k \in 0 .. 0 |-> a])
    BY <1>0 DEF IsPrefix
  <2> QED
    BY <2>1
<1>2. ASSUME NEW m \in Nat, m \in Good PROVE m + 1 \in Good
  <2>1. PICK h \in [0 .. m -> V] : IsPrefix(a, F, m, h)
    BY <1>2
  <2> DEFINE next == F[m][h[m]]
             h1 == [k \in 0 .. m + 1 |-> IF k = m + 1 THEN next ELSE h[k]]
  <2>2. h[m] \in V /\ F[m] \in [V -> V] /\ next \in V
    BY <1>0
  <2>3. h1 \in [0 .. m + 1 -> V]
    BY <2>2
  <2>4. h1[0] = a
    BY <2>1 DEF IsPrefix
  <2>5. ASSUME NEW k \in 1 .. m + 1 PROVE h1[k] = F[k - 1][h1[k - 1]]
    <3>1. CASE k = m + 1
      BY <3>1
    <3>2. CASE k \in 1 .. m
      BY <2>1, <3>2 DEF IsPrefix
    <3> QED
      BY <3>1, <3>2
  <2>6. IsPrefix(a, F, m + 1, h1)
    BY <2>4, <2>5 DEF IsPrefix
  <2> QED
    BY <2>3, <2>6
<1>3. \A m \in Nat : m \in Good
  <2> HIDE DEF Good
  <2> QED
    BY <1>1, <1>2, Induction
<1> DEFINE part(m) == CHOOSE h \in [0 .. m -> V] : IsPrefix(a, F, m, h)
<1>4. \A m \in Nat : part(m) \in [0 .. m -> V] /\ IsPrefix(a, F, m, part(m))
  BY <1>3
<1> HIDE DEF part, Good
\* A prefix is the beginning of every longer one.
<1>5. ASSUME NEW m \in Nat, NEW l \in Nat, m <= l
      PROVE  \A k \in 0 .. m : part(m)[k] = part(l)[k]
  <2> DEFINE T == {k \in Nat : k <= m => part(m)[k] = part(l)[k]}
  <2>1. 0 \in T
    BY <1>4 DEF IsPrefix
  <2>2. ASSUME NEW k \in Nat, k \in T PROVE k + 1 \in T
    <3> SUFFICES ASSUME k + 1 <= m PROVE part(m)[k + 1] = part(l)[k + 1]
      OBVIOUS
    <3>1. part(m)[k] = part(l)[k]
      BY <2>2
    <3>2. k + 1 \in 1 .. m /\ k + 1 \in 1 .. l /\ (k + 1) - 1 = k
      BY <1>5
    <3>3. part(m)[k + 1] = F[k][part(m)[k]]
      BY <1>4, <3>2 DEF IsPrefix
    <3>4. part(l)[k + 1] = F[k][part(l)[k]]
      BY <1>4, <3>2 DEF IsPrefix
    <3> QED
      BY <3>1, <3>3, <3>4
  <2>3. \A k \in Nat : k \in T
    <3> HIDE DEF T
    <3> QED
      BY <2>1, <2>2, Induction
  <2> QED
    BY <2>3
<1> DEFINE g == [m \in Nat |-> part(m)[m]]
<1>6. g \in [Nat -> V]
  BY <1>4
<1>7. g[0] = a
  BY <1>4 DEF IsPrefix
<1>8. ASSUME NEW k \in Nat PROVE g[k + 1] = F[k][g[k]]
  <2>1. k + 1 \in Nat /\ k + 1 \in 1 .. k + 1 /\ (k + 1) - 1 = k /\ k <= k + 1 /\ k \in 0 .. k
    OBVIOUS
  <2>2. part(k + 1)[k + 1] = F[k][part(k + 1)[k]]
    BY <1>4, <2>1 DEF IsPrefix
  <2>3. part(k + 1)[k] = part(k)[k]
    BY <1>5, <2>1
  <2> QED
    BY <2>2, <2>3
<1>9. ASSUME NEW k \in Nat PROVE g[k] = IF k = 0 THEN a ELSE F[k - 1][g[k - 1]]
  <2>1. CASE k = 0
    BY <1>7, <2>1
  <2>2. CASE k # 0
    <3>1. k - 1 \in Nat /\ (k - 1) + 1 = k
      BY <2>2
    <3> HIDE DEF g
    <3> QED
      BY <1>8, <2>2, <3>1
  <2> QED
    BY <2>1, <2>2
<1>10. g = [k \in Nat |-> IF k = 0 THEN a ELSE F[k - 1][g[k - 1]]]
  BY <1>6, <1>9
<1> QED
  BY <1>6, <1>10 DEF Solves

----------------------------------------------------------------------------
(* Powers of two *)

\* 2^k is the number of sets of k elements.
LEMMA PowerSets == \A k \in Nat : 2 ^ k = Cardinality(SUBSET (1 .. k)) /\ IsFiniteSet(SUBSET (1 .. k))
<1> SUFFICES ASSUME NEW k \in Nat PROVE 2 ^ k = Cardinality(SUBSET (1 .. k)) /\ IsFiniteSet(SUBSET (1 .. k))
  OBVIOUS
<1>1. IsFiniteSet(1 .. k) /\ Cardinality(1 .. k) = k
  BY FS_Interval
<1>2. Cardinality(SUBSET (1 .. k)) = 2 ^ Cardinality(1 .. k) /\ IsFiniteSet(SUBSET (1 .. k))
  BY <1>1, FS_SUBSET
<1> QED
  BY <1>1, <1>2

\* So it doubles with k.
LEMMA PowerDoubles ==
    /\ 2 ^ 0 = 1
    /\ \A k \in Nat : 2 ^ (k + 1) = 2 * 2 ^ k /\ 2 ^ k \in Nat
<1>1. 2 ^ 0 = 1
  <2>1. 1 .. 0 = {} /\ SUBSET {} = {{}} /\ 0 \in Nat
    OBVIOUS
  <2> QED
    BY <2>1, PowerSets, FS_Singleton
<1>2. ASSUME NEW k \in Nat PROVE 2 ^ (k + 1) = 2 * 2 ^ k /\ 2 ^ k \in Nat
  <2> DEFINE S == 1 .. k
             A == SUBSET S
             B == {s \cup {k + 1} : s \in A}
             f == [s \in A |-> s \cup {k + 1}]
  <2>1. IsFiniteSet(A) /\ Cardinality(A) \in Nat /\ 2 ^ k = Cardinality(A)
    BY PowerSets, FS_CardinalityType
  <2>2. f \in Bijection(A, B)
    <3>1. f \in [A -> B] /\ \A t \in B : \E s \in A : f[s] = t
      OBVIOUS
    <3>2. ASSUME NEW s \in A, NEW t \in A, f[s] = f[t] PROVE s = t
      <4>1. k + 1 \notin s /\ k + 1 \notin t
        OBVIOUS
      <4>2. s \cup {k + 1} = t \cup {k + 1}
        BY <3>2
      <4> QED
        BY <4>1, <4>2
    <3> QED
      BY <3>1, <3>2 DEF Bijection, Injection, Surjection, IsInjective
  <2>3. IsFiniteSet(B) /\ Cardinality(B) = Cardinality(A)
    BY <2>1, <2>2, FS_Bijection DEF ExistsBijection
  <2>4. A \cap B = {} /\ SUBSET (1 .. k + 1) = A \cup B
    <3>1. A \cap B = {}
      <4>1. \A s \in A : k + 1 \notin s
        OBVIOUS
      <4>2. \A s \in B : k + 1 \in s
        OBVIOUS
      <4> QED
        BY <4>1, <4>2
    <3>2. 1 .. k + 1 = S \cup {k + 1}
      OBVIOUS
    <3>3. A \cup B \subseteq SUBSET (1 .. k + 1)
      BY <3>2
    <3>4. ASSUME NEW s \in SUBSET (1 .. k + 1) PROVE s \in A \cup B
      <4>1. CASE k + 1 \notin s
        BY <3>2, <4>1
      <4>2. CASE k + 1 \in s
        <5>1. s \ {k + 1} \in A /\ s = (s \ {k + 1}) \cup {k + 1}
          BY <3>2, <4>2
        <5> QED
          BY <5>1
      <4> QED
        BY <4>1, <4>2
    <3> QED
      BY <3>1, <3>3, <3>4
  <2> HIDE DEF A, B, f
  <2>5. Cardinality(A \cup B) = Cardinality(A) + Cardinality(B) - 0
    BY <2>1, <2>3, <2>4, FS_Union, FS_EmptySet
  <2>6. k + 1 \in Nat
    OBVIOUS
  <2>7. 2 ^ (k + 1) = Cardinality(A \cup B)
    BY <2>4, <2>6, PowerSets
  <2> QED
    BY <2>1, <2>3, <2>5, <2>7
<1> QED
  BY <1>1, <1>2

LEMMA PowersOfTwo ==
    /\ 2 ^ 0 = 1
    /\ \A k \in Nat : 2 ^ (k + 1) = 2 * 2 ^ k /\ 2 ^ k \in Nat /\ 2 ^ k >= 1
<1> DEFINE T == {k \in Nat : 2 ^ k >= 1}
<1>1. 0 \in T
  BY PowerDoubles
<1>2. ASSUME NEW k \in Nat, k \in T PROVE k + 1 \in T
  <2>1. 2 ^ (k + 1) = 2 * 2 ^ k /\ 2 ^ k \in Nat /\ 2 ^ k >= 1
    BY <1>2, PowerDoubles
  <2> QED
    BY <2>1
<1>3. \A k \in Nat : k \in T
  <2> HIDE DEF T
  <2> QED
    BY <1>1, <1>2, Induction
<1> QED
  BY <1>3, PowerDoubles

\* Division by a number, and by a power of two, digit by digit.
LEMMA Quotient ==
    ASSUME NEW m \in Nat, NEW d \in Nat, d > 0
    PROVE  /\ m \div d \in Nat /\ m % d \in 0 .. d - 1
           /\ m = d * (m \div d) + (m % d)
OBVIOUS

LEMMA QuotientIs ==
    ASSUME NEW m \in Nat, NEW d \in Nat, d > 0, NEW q \in Nat, NEW r \in Nat, r < d, m = d * q + r
    PROVE  m \div d = q
<1> DEFINE q1 == m \div d
           r1 == m % d
<1>1. q1 \in Nat /\ r1 \in Nat /\ r1 < d /\ m = d * q1 + r1
  BY Quotient
<1> HIDE DEF q1, r1
<1>2. d * (q - q1) = r1 - r
  BY <1>1
<1>3. ~(q >= q1 + 1)
  <2> SUFFICES ASSUME q >= q1 + 1 PROVE FALSE
    OBVIOUS
  <2>1. PICK e \in Nat : q - q1 = 1 + e
    BY <1>1
  <2>2. d * (1 + e) = d + d * e /\ d * e >= 0
    OBVIOUS
  <2> QED
    BY <1>1, <1>2, <2>1, <2>2
<1>4. ~(q1 >= q + 1)
  <2> SUFFICES ASSUME q1 >= q + 1 PROVE FALSE
    OBVIOUS
  <2>1. PICK e \in Nat : q1 - q = 1 + e
    BY <1>1
  <2>2. d * (1 + e) = d + d * e /\ d * e >= 0
    OBVIOUS
  <2>3. d * (q1 - q) = r - r1
    BY <1>1
  <2> QED
    BY <1>1, <2>1, <2>2, <2>3
<1> QED
  BY <1>1, <1>3, <1>4 DEF q1

LEMMA Digit ==
    ASSUME NEW m \in Nat, NEW k \in Nat
    PROVE  /\ m \div 2 ^ k \in Nat /\ m \div 2 ^ (k + 1) \in Nat
           /\ m \div 2 ^ k = 2 * (m \div 2 ^ (k + 1)) + IF Bit(k, m) THEN 1 ELSE 0
<1> DEFINE d == 2 ^ k
           q == m \div d
           r == m % d
           b == q % 2
           h == q \div 2
<1>1. d \in Nat /\ d > 0 /\ 2 ^ (k + 1) = 2 * d
  BY PowersOfTwo
<1>2. q \in Nat /\ r \in 0 .. d - 1 /\ m = d * q + r
  BY <1>1, Quotient
<1> HIDE DEF d
<1>3. h \in Nat /\ b \in 0 .. 1 /\ q = 2 * h + b
  BY <1>2
<1>4. Bit(k, m) <=> b = 1
  BY DEF Bit, d
<1> HIDE DEF q, r, b, h
<1>5. d * b + r \in Nat /\ d * b + r < 2 * d
  <2>1. b = 0 \/ b = 1
    BY <1>3
  <2> QED
    BY <1>1, <1>2, <2>1
<1>6. m = (2 * d) * h + (d * b + r)
  <2>1. d * q = d * (2 * h + b)
    BY <1>3
  <2>2. d * (2 * h + b) = (2 * d) * h + d * b
    BY <1>1, <1>3
  <2> QED
    BY <1>1, <1>2, <1>3, <2>1, <2>2
<1> DEFINE e == 2 * d
           s == d * b + r
<1>7. e \in Nat /\ e > 0 /\ s \in Nat /\ s < e /\ m = e * h + s
  BY <1>1, <1>5, <1>6
<1> HIDE DEF e, s
<1>8. m \div 2 ^ (k + 1) = h
  <2>1. m \div e = h
    BY <1>3, <1>7, QuotientIs
  <2> QED
    BY <1>1, <2>1 DEF e
<1>9. b = IF Bit(k, m) THEN 1 ELSE 0
  BY <1>3, <1>4
<1> QED
  BY <1>2, <1>3, <1>8, <1>9 DEF q, d

----------------------------------------------------------------------------
(* Words and the step *)

LEMMA BitsFacts ==
    /\ W \in Nat /\ W > 3
    /\ POLY \subseteq Bits /\ 0 \in Bits /\ W - 1 \in Bits /\ {} \in Word
    /\ \A k \in Bits : k \in Nat /\ {k} \in Word
BY SizesAssumption DEF Bits, POLY, Word

LEMMA BitIsNat == \A k \in Bits : k \in Nat /\ k < W
BY SizesAssumption DEF Bits

LEMMA XorBit ==
    ASSUME NEW a, NEW b, NEW k
    PROVE  k \in Xor(a, b) <=> ~(k \in a <=> k \in b)
BY DEF Xor

LEMMA XorWord == ASSUME NEW a \in Word, NEW b \in Word PROVE Xor(a, b) \in Word
BY DEF Xor, Word

\* A bit of the next word.
LEMMA StepBit ==
    ASSUME NEW w \in Word, NEW k \in Bits
    PROVE  k \in Step(w) <=> ~(k - 1 \in w <=> W - 1 \in w /\ k \in POLY)
<1> DEFINE shifted == {j + 1 : j \in w} \cap Bits
<1>1. k \in shifted <=> k - 1 \in w
  <2>1. w \subseteq Bits /\ Bits \subseteq Int
    BY BitsFacts DEF Word
  <2>2. ASSUME k - 1 \in w PROVE k \in shifted
    <3>1. k \in Int
      BY <2>1
    <3>2. (k - 1) + 1 = k
      BY <3>1
    <3> QED
      BY <2>2, <3>2
  <2>3. ASSUME k \in shifted PROVE k - 1 \in w
    <3>1. PICK j \in w : k = j + 1
      BY <2>3
    <3>2. j = k - 1
      BY <2>1, <3>1
    <3> QED
      BY <3>2
  <2> QED
    BY <2>2, <2>3
<1>2. CASE W - 1 \in w
  BY <1>1, <1>2, XorBit DEF Step
<1>3. CASE W - 1 \notin w
  BY <1>1, <1>3 DEF Step
<1> QED
  BY <1>2, <1>3

LEMMA StepWord == ASSUME NEW w \in Word PROVE Step(w) \in Word
BY BitsFacts DEF Step, Xor, Word

\* Two words with the same bits.
LEMMA SameBits ==
    ASSUME NEW a \in Word, NEW b \in Word, \A k \in Bits : k \in a <=> k \in b
    PROVE  a = b
BY DEF Word

\* The step adds.
LEMMA StepXor ==
    ASSUME NEW a \in Word, NEW b \in Word
    PROVE  Step(Xor(a, b)) = Xor(Step(a), Step(b))
<1>1. Xor(a, b) \in Word /\ Step(Xor(a, b)) \in Word /\ Xor(Step(a), Step(b)) \in Word
  BY XorWord, StepWord
<1>2. ASSUME NEW k \in Bits PROVE k \in Step(Xor(a, b)) <=> k \in Xor(Step(a), Step(b))
  <2>1. k \in Step(Xor(a, b)) <=> ~(k - 1 \in Xor(a, b) <=> W - 1 \in Xor(a, b) /\ k \in POLY)
    BY <1>1, StepBit
  <2>2. k \in Step(a) <=> ~(k - 1 \in a <=> W - 1 \in a /\ k \in POLY)
    BY StepBit
  <2>3. k \in Step(b) <=> ~(k - 1 \in b <=> W - 1 \in b /\ k \in POLY)
    BY StepBit
  <2>4. /\ k - 1 \in Xor(a, b) <=> ~(k - 1 \in a <=> k - 1 \in b)
        /\ W - 1 \in Xor(a, b) <=> ~(W - 1 \in a <=> W - 1 \in b)
        /\ k \in Xor(Step(a), Step(b)) <=> ~(k \in Step(a) <=> k \in Step(b))
    BY XorBit
  <2> QED
    BY <2>1, <2>2, <2>3, <2>4
<1> QED
  BY <1>1, <1>2, SameBits

\* The step of a single bit.
LEMMA StepOfBit ==
    /\ Step({}) = {}
    /\ \A k \in Bits : Step({k}) = IF k = W - 1 THEN POLY ELSE {k + 1}
<1>1. Step({}) = {}
  BY DEF Step
<1>2. ASSUME NEW k \in Bits, k = W - 1 PROVE Step({k}) = POLY
  <2>1. {j + 1 : j \in {k}} \cap Bits = {}
    BY <1>2, BitsFacts DEF Bits
  <2> QED
    BY <1>2, <2>1 DEF Step, Xor
<1>3. ASSUME NEW k \in Bits, k # W - 1 PROVE Step({k}) = {k + 1}
  <2>1. {j + 1 : j \in {k}} \cap Bits = {k + 1}
    BY <1>3, BitsFacts DEF Bits
  <2> QED
    BY <1>3, <2>1 DEF Step
<1> QED
  BY <1>1, <1>2, <1>3

\* Only 0 is followed by 0.
LEMMA StepNotZero ==
    ASSUME NEW w \in Word, w # {}
    PROVE  Step(w) # {}
<1>1. CASE W - 1 \in w
  <2>1. 0 - 1 \notin w
    BY BitsFacts DEF Word, Bits
  <2>2. 0 \in Step(w)
    BY <1>1, <2>1, StepBit, BitsFacts DEF POLY
  <2> QED
    BY <2>2
<1>2. CASE W - 1 \notin w
  <2>1. PICK k \in w : TRUE
    OBVIOUS
  <2>2. k \in Nat /\ k + 1 \in Bits /\ (k + 1) - 1 = k
    BY <1>2, BitsFacts DEF Word, Bits
  <2>3. k + 1 \in Step(w)
    BY <1>2, <2>2, StepBit
  <2> QED
    BY <2>3
<1> QED
  BY <1>1, <1>2

----------------------------------------------------------------------------
(* The sequence *)

LEMMA PowerDef == Power = [m \in Nat |-> IF m = 0 THEN {0} ELSE Step(Power[m - 1])]
<1> DEFINE F == [k \in Nat |-> [w \in Word |-> Step(w)]]
           IsPower(g) == g = [m \in Nat |-> IF m = 0 THEN {0} ELSE Step(g[m - 1])]
<1>1. PICK g : Solves(Word, {0}, F, g)
  <2>1. IsStep(Word, {0}, F)
    BY BitsFacts, StepWord DEF IsStep
  <2> HIDE DEF F
  <2> QED
    BY <2>1, Recursion
<1>2. ASSUME NEW k \in Nat, k # 0 PROVE F[k - 1][g[k - 1]] = Step(g[k - 1])
  <2>1. g \in [Nat -> Word]
    <3> HIDE DEF F
    <3> QED
      BY <1>1 DEF Solves
  <2>2. k - 1 \in Nat
    BY <1>2
  <2> HIDE DEF IsPower
  <2> QED
    BY <2>1, <2>2
<1>3. IsPower(g)
  <2> HIDE DEF F
  <2> QED
    BY <1>1, <1>2 DEF Solves
<1>4. Power = CHOOSE h : IsPower(h)
  BY DEF Power
<1> HIDE DEF IsPower
<1>5. IsPower(Power)
  BY <1>3, <1>4
<1> QED
  BY <1>5 DEF IsPower

LEMMA PowerNext ==
    /\ Power[0] = {0}
    /\ \A m \in Nat : Power[m + 1] = Step(Power[m]) /\ Power[m] \in Word /\ Power[m] # {}
<1> DEFINE T == {m \in Nat : Power[m] \in Word /\ Power[m] # {}}
<1>1. Power[0] = {0}
  BY PowerDef
<1>2. ASSUME NEW m \in Nat PROVE Power[m + 1] = Step(Power[m])
  <2>1. m + 1 \in Nat /\ m + 1 # 0 /\ (m + 1) - 1 = m
    OBVIOUS
  <2> QED
    BY <2>1, PowerDef
<1>3. \A m \in Nat : m \in T
  <2>1. 0 \in T
    BY <1>1, BitsFacts
  <2>2. ASSUME NEW m \in Nat, m \in T PROVE m + 1 \in T
    BY <1>2, <2>2, StepWord, StepNotZero
  <2> HIDE DEF T
  <2> QED
    BY <2>1, <2>2, Induction
<1> QED
  BY <1>1, <1>2, <1>3

\* The sequence repeats.
LEMMA PowerPeriod == \A m \in Nat : Power[m + PERIOD] = Power[m]
<1> DEFINE T == {m \in Nat : Power[m + PERIOD] = Power[m]}
<1>1. PERIOD \in Nat /\ Power[PERIOD] = {0}
  BY PeriodAssumption, PowersOfTwo, SizesAssumption
<1>2. 0 \in T
  <2>1. 0 + PERIOD = PERIOD /\ Power[0] = {0}
    BY <1>1, PowerNext
  <2> QED
    BY <1>1, <2>1
<1>3. ASSUME NEW m \in Nat, m \in T PROVE m + 1 \in T
  <2>1. (m + 1) + PERIOD = (m + PERIOD) + 1 /\ m + PERIOD \in Nat
    BY <1>1
  <2>2. Power[(m + PERIOD) + 1] = Step(Power[m + PERIOD])
    BY <2>1, PowerNext
  <2> QED
    BY <1>3, <2>1, <2>2, PowerNext
<1> HIDE DEF T
<1>4. \A m \in Nat : m \in T
  BY <1>2, <1>3, Induction
<1> QED
  BY <1>4 DEF T

\* Until a bit leaves the word, there is one.
LEMMA PowerLow == \A k \in Bits : Power[k] = {k}
<1> DEFINE T == {k \in Nat : k \in Bits => Power[k] = {k}}
<1>1. 0 \in T
  BY PowerNext
<1>2. ASSUME NEW k \in Nat, k \in T PROVE k + 1 \in T
  <2> SUFFICES ASSUME k + 1 \in Bits PROVE Power[k + 1] = {k + 1}
    OBVIOUS
  <2>1. k \in Bits /\ k # W - 1
    BY BitsFacts DEF Bits
  <2>2. Power[k] = {k}
    BY <1>2, <2>1
  <2> QED
    BY <2>1, <2>2, PowerNext, StepOfBit
<1> HIDE DEF T
<1>3. \A k \in Nat : k \in T
  BY <1>1, <1>2, Induction
<1> QED
  BY <1>3, BitsFacts DEF T

\* What a bit that leaves the word is replaced by, for every word.
LEMMA PowerFold ==
    \A a \in Nat : Power[a + W] = Xor(Power[a], Xor(Power[a + 1], Power[a + 2]))
<1> DEFINE T == {a \in Nat : Power[a + W] = Xor(Power[a], Xor(Power[a + 1], Power[a + 2]))}
<1>1. 0 \in T
  <2>1. /\ W \in Nat /\ W - 1 \in Nat /\ (W - 1) + 1 = W /\ 0 + W = W
        /\ 0 \in Bits /\ 1 \in Bits /\ 2 \in Bits /\ W - 1 \in Bits
    BY SizesAssumption DEF Bits
  <2>2. Power[W] = POLY
    BY <2>1, PowerNext, PowerLow, StepOfBit
  <2>3. Power[0] = {0} /\ Power[0 + 1] = {1} /\ Power[0 + 2] = {2}
    BY <2>1, PowerLow
  <2>4. Xor({0}, Xor({1}, {2})) = POLY
    BY DEF Xor, POLY
  <2> QED
    BY <2>1, <2>2, <2>3, <2>4
<1>2. ASSUME NEW a \in Nat, a \in T PROVE a + 1 \in T
  <2> DEFINE p == Power[a]
             q == Power[a + 1]
             r == Power[a + 2]
  <2>1. /\ (a + 1) + W = (a + W) + 1 /\ (a + 1) + 1 = a + 2 /\ (a + 1) + 2 = (a + 2) + 1
        /\ a + W \in Nat /\ a + 1 \in Nat /\ a + 2 \in Nat
    BY SizesAssumption
  <2>2. p \in Word /\ q \in Word /\ r \in Word /\ Xor(q, r) \in Word
    BY <2>1, PowerNext, XorWord
  <2>3. Power[(a + 1) + W] = Step(Xor(p, Xor(q, r)))
    BY <1>2, <2>1, PowerNext
  <2>4. Step(Xor(p, Xor(q, r))) = Xor(Step(p), Xor(Step(q), Step(r)))
    BY <2>2, StepXor
  <2>5. Step(p) = Power[a + 1] /\ Step(q) = Power[(a + 1) + 1] /\ Step(r) = Power[(a + 1) + 2]
    BY <2>1, PowerNext
  <2> QED
    BY <2>3, <2>4, <2>5
<1> HIDE DEF T
<1>3. \A a \in Nat : a \in T
  BY <1>1, <1>2, Induction
<1> QED
  BY <1>3 DEF T

LEMMA PowerDouble == Power[2 * W] = Xor(Power[0], Xor(Power[2], Power[4]))
<1>1. W \in Nat /\ 2 * W = W + W /\ W = 0 + W /\ W + 1 = 1 + W /\ W + 2 = 2 + W
  BY SizesAssumption
<1> DEFINE p0 == Power[0]
           p1 == Power[1]
           p2 == Power[2]
           p3 == Power[3]
           p4 == Power[4]
<1>2. p0 \in Word /\ p1 \in Word /\ p2 \in Word /\ p3 \in Word /\ p4 \in Word
  BY PowerNext
<1>3. Power[2 * W] = Xor(Power[W], Xor(Power[W + 1], Power[W + 2]))
  BY <1>1, PowerFold
<1>4. /\ Power[W] = Xor(p0, Xor(p1, p2))
      /\ Power[W + 1] = Xor(p1, Xor(p2, p3))
      /\ Power[W + 2] = Xor(p2, Xor(p3, p4))
  <2>1. /\ 0 + 1 = 1 /\ 0 + 2 = 2 /\ 1 + 1 = 2 /\ 1 + 2 = 3 /\ 2 + 1 = 3 /\ 2 + 2 = 4
        /\ 0 \in Nat /\ 1 \in Nat /\ 2 \in Nat
    OBVIOUS
  <2> QED
    BY <1>1, <2>1, PowerFold
<1> HIDE DEF p0, p1, p2, p3, p4
<1>5. Xor(Xor(p0, Xor(p1, p2)), Xor(Xor(p1, Xor(p2, p3)), Xor(p2, Xor(p3, p4)))) = Xor(p0, Xor(p2, p4))
  BY DEF Xor
<1> QED
  BY <1>3, <1>4, <1>5 DEF p0, p2, p4

----------------------------------------------------------------------------
(* Squaring *)

\* m2[k] is two steps from m2[k - 1]: x to the power of 2k.
LEMMA M2Power == \A k \in Bits : m2[k] = Power[2 * k]
<1> DEFINE IsM2(g) == g = [k \in Bits |-> IF k = 0 THEN {0} ELSE Step(Step(g[k - 1]))]
           sol == [k \in Bits |-> Power[2 * k]]
<1>1. ASSUME NEW k \in Nat PROVE Power[2 * (k + 1)] = Step(Step(Power[2 * k]))
  <2>1. 2 * (k + 1) = (2 * k + 1) + 1 /\ 2 * k \in Nat /\ 2 * k + 1 \in Nat
    OBVIOUS
  <2> QED
    BY <2>1, PowerNext
<1>2. IsM2(sol)
  <2>1. ASSUME NEW k \in Bits PROVE Power[2 * k] = IF k = 0 THEN {0} ELSE Step(Step(sol[k - 1]))
    <3>1. CASE k = 0
      BY <3>1, PowerNext
    <3>2. CASE k # 0
      <4>1. k - 1 \in Nat /\ k - 1 \in Bits /\ (k - 1) + 1 = k
        BY <3>2, SizesAssumption DEF Bits
      <4>2. sol[k - 1] = Power[2 * (k - 1)]
        BY <4>1
      <4> QED
        BY <1>1, <3>2, <4>1, <4>2
    <3> QED
      BY <3>1, <3>2
  <2> QED
    BY <2>1
<1>3. m2 = CHOOSE g : IsM2(g)
  BY DEF m2
<1> HIDE DEF IsM2, sol
<1>4. IsM2(m2)
  BY <1>2, <1>3
<1> DEFINE T == {k \in Nat : k \in Bits => m2[k] = Power[2 * k]}
<1>5. 0 \in T
  BY <1>4, BitsFacts, PowerNext DEF IsM2
<1>6. ASSUME NEW k \in Nat, k \in T PROVE k + 1 \in T
  <2> SUFFICES ASSUME k + 1 \in Bits PROVE m2[k + 1] = Power[2 * (k + 1)]
    OBVIOUS
  <2>1. k \in Bits /\ k + 1 # 0 /\ (k + 1) - 1 = k
    BY BitsFacts DEF Bits
  <2>2. m2[k] = Power[2 * k]
    BY <1>6, <2>1
  <2>3. m2[k + 1] = Step(Step(m2[k]))
    BY <1>4, <2>1 DEF IsM2
  <2> QED
    BY <1>1, <2>2, <2>3
<1> HIDE DEF T
<1>7. \A k \in Nat : k \in T
  BY <1>5, <1>6, Induction
<1> QED
  BY <1>7, BitsFacts DEF T

Odd(S) == Cardinality(S) % 2 = 1

\* A bit that is in both of two finite sets is counted twice.
LEMMA OddXor ==
    ASSUME NEW A, NEW B, IsFiniteSet(A), IsFiniteSet(B)
    PROVE  IsFiniteSet(Xor(A, B)) /\ (Odd(Xor(A, B)) <=> ~(Odd(A) <=> Odd(B)))
<1> DEFINE a == Cardinality(A)
           b == Cardinality(B)
           c == Cardinality(A \cap B)
<1>1. IsFiniteSet(A \ B) /\ IsFiniteSet(B \ A) /\ IsFiniteSet(A \cap B)
  BY FS_Subset
<1>2. a \in Nat /\ b \in Nat /\ c \in Nat
  BY <1>1, FS_CardinalityType
<1>3. Cardinality(A \ B) = a - c
  BY FS_Difference
<1>4. Cardinality(B \ A) = b - c
  <2>1. B \cap A = A \cap B
    OBVIOUS
  <2> QED
    BY <2>1, FS_Difference
<1>5. (A \ B) \cap (B \ A) = {} /\ Cardinality({}) = 0
  BY FS_EmptySet
<1>6. IsFiniteSet(Xor(A, B)) /\ Cardinality(Xor(A, B)) = (a - c) + (b - c) - 0
  BY <1>1, <1>3, <1>4, <1>5, FS_Union DEF Xor
<1> HIDE DEF a, b, c
<1>7. (((a - c) + (b - c) - 0) % 2 = 1) <=> ~(a % 2 = 1 <=> b % 2 = 1)
  BY <1>2
<1> QED
  BY <1>6, <1>7 DEF Odd, a, b

LEMMA WordFinite == ASSUME NEW w \in Word PROVE IsFiniteSet(w)
<1>1. IsFiniteSet(Bits)
  BY BitsFacts, FS_Interval DEF Bits
<1> QED
  BY <1>1, FS_Subset DEF Word

LEMMA SquareWord == ASSUME NEW w \in Word PROVE Square(w) \in Word
BY DEF Square, Word

\* Squaring adds.
LEMMA SquareXor ==
    ASSUME NEW v \in Word, NEW w \in Word
    PROVE  Square(Xor(v, w)) = Xor(Square(v), Square(w))
<1> DEFINE Hits(s, k) == {j \in s : k \in m2[j]}
<1>1. Xor(v, w) \in Word /\ Square(Xor(v, w)) \in Word /\ Xor(Square(v), Square(w)) \in Word
  BY XorWord, SquareWord
<1>2. ASSUME NEW k \in Bits PROVE k \in Square(Xor(v, w)) <=> k \in Xor(Square(v), Square(w))
  <2>1. \A s \in Word : k \in Square(s) <=> Odd(Hits(s, k))
    BY DEF Square, Odd
  <2>2. IsFiniteSet(Hits(v, k)) /\ IsFiniteSet(Hits(w, k))
    BY WordFinite, FS_Subset
  <2>3. Hits(Xor(v, w), k) = Xor(Hits(v, k), Hits(w, k))
    BY DEF Xor
  <2> HIDE DEF Hits
  <2>4. Odd(Hits(Xor(v, w), k)) <=> ~(Odd(Hits(v, k)) <=> Odd(Hits(w, k)))
    BY <2>2, <2>3, OddXor
  <2>5. k \in Xor(Square(v), Square(w)) <=> ~(k \in Square(v) <=> k \in Square(w))
    BY XorBit
  <2> QED
    BY <1>1, <2>1, <2>4, <2>5
<1> QED
  BY <1>1, <1>2, SameBits

\* The square of a single bit.
LEMMA SquareOfBit ==
    /\ Square({}) = {}
    /\ \A j \in Bits : Square({j}) = Power[2 * j]
<1>1. Square({}) = {}
  <2>1. \A k \in Bits : {j \in {} : k \in m2[j]} = {}
    OBVIOUS
  <2>2. Cardinality({}) = 0
    BY FS_EmptySet
  <2> QED
    BY <2>1, <2>2 DEF Square
<1>2. ASSUME NEW j \in Bits PROVE Square({j}) = Power[2 * j]
  <2>1. m2[j] = Power[2 * j] /\ m2[j] \in Word
    <3>1. 2 * j \in Nat
      BY BitIsNat
    <3> QED
      BY <3>1, M2Power, PowerNext
  <2>2. Cardinality({}) = 0 /\ Cardinality({j}) = 1
    BY FS_EmptySet, FS_Singleton
  <2>3. {j} \in Word /\ Square({j}) \in Word
    BY BitsFacts, SquareWord
  <2>4. ASSUME NEW k \in Bits PROVE k \in Square({j}) <=> k \in m2[j]
    <3>1. CASE k \in m2[j]
      <4>1. {l \in {j} : k \in m2[l]} = {j}
        BY <3>1
      <4> QED
        BY <2>2, <3>1, <4>1 DEF Square
    <3>2. CASE k \notin m2[j]
      <4>1. {l \in {j} : k \in m2[l]} = {}
        BY <3>2
      <4> QED
        BY <2>2, <3>2, <4>1 DEF Square
    <3> QED
      BY <3>1, <3>2
  <2> QED
    BY <2>1, <2>3, <2>4, SameBits
<1> QED
  BY <1>1, <1>2

\* Squaring a word after a step is two steps after squaring it.
LEMMA SquareStepOfBit == \A j \in Bits : Square(Step({j})) = Step(Step(Square({j})))
<1> SUFFICES ASSUME NEW j \in Bits PROVE Square(Step({j})) = Step(Step(Square({j})))
  OBVIOUS
<1>1. j \in Nat /\ 2 * j \in Nat /\ 2 * j + 1 \in Nat /\ 2 * (j + 1) = (2 * j + 1) + 1
  BY BitIsNat
<1>2. Step(Step(Square({j}))) = Power[2 * (j + 1)]
  BY <1>1, SquareOfBit, PowerNext
<1>3. CASE j # W - 1
  <2>1. j + 1 \in Bits
    BY <1>3, BitsFacts DEF Bits
  <2>2. Step({j}) = {j + 1}
    BY <1>3, StepOfBit
  <2> QED
    BY <1>2, <2>1, <2>2, SquareOfBit
<1>4. CASE j = W - 1
  <2>1. 0 \in Bits /\ 1 \in Bits /\ 2 \in Bits
    BY SizesAssumption DEF Bits
  <2>2. /\ {0} \in Word /\ {1} \in Word /\ {2} \in Word /\ Xor({1}, {2}) \in Word
    BY <2>1, BitsFacts, XorWord
  <2>3. POLY = Xor({0}, Xor({1}, {2}))
    BY DEF Xor, POLY
  <2>4. Square(POLY) = Xor(Square({0}), Xor(Square({1}), Square({2})))
    BY <2>2, <2>3, SquareXor
  <2>5. Square({0}) = Power[0] /\ Square({1}) = Power[2] /\ Square({2}) = Power[4]
    <3>1. 2 * 0 = 0 /\ 2 * 1 = 2 /\ 2 * 2 = 4
      OBVIOUS
    <3> QED
      BY <2>1, <3>1, SquareOfBit
  <2>6. j + 1 = W
    BY <1>4, BitsFacts
  <2> QED
    BY <1>2, <1>4, <2>4, <2>5, <2>6, StepOfBit, PowerDouble
<1> QED
  BY <1>3, <1>4

LEMMA SquareStep ==
    ASSUME NEW w \in Word
    PROVE  Square(Step(w)) = Step(Step(Square(w)))
<1> DEFINE low(k) == {j \in w : j < k}
           Good(v) == v \in Word /\ Square(Step(v)) = Step(Step(Square(v)))
           T == {k \in Nat : Good(low(k))}
<1>1. \A j \in w : j \in Bits /\ j \in Nat /\ j < W
  BY BitsFacts DEF Word, Bits
<1>2. 0 \in T
  <2>1. low(0) = {}
    BY <1>1
  <2>2. Good({})
    BY BitsFacts, StepOfBit, SquareOfBit
  <2> QED
    BY <2>1, <2>2
<1>3. ASSUME NEW k \in Nat, k \in T PROVE k + 1 \in T
  <2>1. CASE k \notin w
    <3>1. low(k + 1) = low(k)
      BY <1>1, <2>1
    <3> QED
      BY <1>3, <3>1
  <2>2. CASE k \in w
    <3> DEFINE v == low(k)
    <3>1. low(k + 1) = Xor(v, {k})
      <4>1. \A j \in w : j < k + 1 <=> j < k \/ j = k
        BY <1>1
      <4>2. k \notin v
        OBVIOUS
      <4>3. low(k + 1) = v \cup {k}
        <5>1. {j \in w : j < k \/ j = k} = {j \in w : j < k} \cup {k}
          BY <2>2
        <5>2. low(k + 1) = {j \in w : j < k \/ j = k}
          BY <4>1
        <5> QED
          BY <5>1, <5>2
      <4> QED
        BY <4>2, <4>3 DEF Xor
    <3>2. Good(v)
      BY <1>3
    <3> HIDE DEF v, low
    <3>3. k \in Bits /\ {k} \in Word
      BY <1>1, <2>2, BitsFacts
    <3>4. /\ Step(v) \in Word /\ Step({k}) \in Word /\ Xor(v, {k}) \in Word
          /\ Square(v) \in Word /\ Square({k}) \in Word
          /\ Step(Square(v)) \in Word /\ Step(Square({k})) \in Word
      BY <3>2, <3>3, StepWord, SquareWord, XorWord
    <3>5. Square(Step(Xor(v, {k}))) = Xor(Square(Step(v)), Square(Step({k})))
      BY <3>2, <3>3, <3>4, StepXor, SquareXor
    <3>6. Step(Step(Square(Xor(v, {k})))) = Xor(Step(Step(Square(v))), Step(Step(Square({k}))))
      BY <3>2, <3>3, <3>4, StepXor, SquareXor
    <3>7. Good(Xor(v, {k}))
      BY <3>2, <3>3, <3>4, <3>5, <3>6, SquareStepOfBit
    <3> QED
      BY <3>1, <3>7
  <2> QED
    BY <2>1, <2>2
<1> HIDE DEF T
<1>4. \A k \in Nat : k \in T
  BY <1>2, <1>3, Induction
<1>5. low(W) = w
  BY <1>1
<1>6. Good(low(W))
  BY <1>4, BitsFacts DEF T
<1> QED
  BY <1>5, <1>6

\* The square of the m-th word is the 2m-th.
LEMMA SquarePower == \A m \in Nat : Square(Power[m]) = Power[2 * m]
<1> DEFINE T == {m \in Nat : Square(Power[m]) = Power[2 * m]}
<1>1. 0 \in T
  <2>1. 2 * 0 = 0
    OBVIOUS
  <2> QED
    BY <2>1, BitsFacts, SquareOfBit, PowerNext
<1>2. ASSUME NEW m \in Nat, m \in T PROVE m + 1 \in T
  <2>1. 2 * m \in Nat /\ 2 * m + 1 \in Nat /\ 2 * (m + 1) = (2 * m + 1) + 1
    OBVIOUS
  <2>2. Power[m] \in Word /\ Power[m + 1] = Step(Power[m])
    BY PowerNext
  <2>3. Power[2 * (m + 1)] = Step(Step(Power[2 * m]))
    BY <2>1, PowerNext
  <2>4. Square(Power[m]) = Power[2 * m]
    BY <1>2
  <2> QED
    BY <2>2, <2>3, <2>4, SquareStep
<1> HIDE DEF T
<1>3. \A m \in Nat : m \in T
  BY <1>1, <1>2, Induction
<1> QED
  BY <1>3 DEF T

----------------------------------------------------------------------------
(* The highest bit *)

LEMMA TopBitIs ==
    ASSUME NEW m \in Nat, m # 0, m < 2 ^ (W - 1)
    PROVE  TopBit(m) \in 0 .. W - 2 /\ m \div 2 ^ (TopBit(m)) = 1
<1> DEFINE K == {k \in 0 .. W - 2 : Bit(k, m)}
           Above == {l \in Nat : \A k \in 0 .. W - 1 :
                        (k >= W - 1 - l /\ \A j \in K : j < k) => m \div 2 ^ k = 0}
<1>1. W - 1 \in Nat /\ W - 2 \in Nat
  BY SizesAssumption
<1>2. \A k \in Nat : 2 ^ k \in Nat /\ 2 ^ k > 0
  BY PowersOfTwo
<1>3. 0 \in Above
  <2>1. m = 2 ^ (W - 1) * 0 + m /\ 2 ^ (W - 1) \in Nat
    BY <1>1, <1>2
  <2>2. m \div 2 ^ (W - 1) = 0
    BY <1>1, <1>2, <2>1, QuotientIs
  <2> QED
    BY <1>1, <2>2
<1>4. ASSUME NEW l \in Nat, l \in Above PROVE l + 1 \in Above
  <2> SUFFICES ASSUME NEW k \in 0 .. W - 1, k >= W - 1 - (l + 1), \A j \in K : j < k
               PROVE  m \div 2 ^ k = 0
    OBVIOUS
  <2>1. CASE k >= W - 1 - l
    BY <1>4, <2>1
  <2>2. CASE ~(k >= W - 1 - l)
    <3>1. k + 1 \in 0 .. W - 1 /\ k + 1 >= W - 1 - l /\ k \in 0 .. W - 2 /\ k \in Nat
      <4> HIDE DEF K, Above
      <4> QED
        BY <1>1, <2>2, SizesAssumption
    <3>2. \A j \in K : j < k + 1
      BY <3>1
    <3>3. m \div 2 ^ (k + 1) = 0
      BY <1>4, <3>1, <3>2
    <3>4. ~Bit(k, m)
      <4> SUFFICES ASSUME Bit(k, m) PROVE FALSE
        OBVIOUS
      <4>1. k \in K
        BY <3>1
      <4> QED
        BY <3>1, <4>1
    <3> QED
      BY <3>1, <3>3, <3>4, Digit
  <2> QED
    BY <2>1, <2>2
<1>5. \A l \in Nat : l \in Above
  <2> HIDE DEF Above
  <2> QED
    BY <1>3, <1>4, Induction
\* Above every bit of K nothing is left.
<1>6. ASSUME NEW k \in 0 .. W - 1, \A j \in K : j < k PROVE m \div 2 ^ k = 0
  <2>1. W - 1 \in Above
    BY <1>1, <1>5
  <2> QED
    BY <1>1, <1>6, <2>1
<1> HIDE DEF Above
<1>7. K # {}
  <2> SUFFICES ASSUME K = {} PROVE FALSE
    OBVIOUS
  <2>1. PICK k \in 0 .. W - 1 : k = 0
    BY SizesAssumption
  <2>2. m \div 2 ^ k = 0
    BY <1>6
  <2>3. 2 ^ k = 1
    BY <2>1, PowersOfTwo
  <2> QED
    BY <2>2, <2>3
<1>8. \E t \in K : \A j \in K : t >= j
  <2> DEFINE D == {W - 2 - k : k \in K}
  <2>1. D \in SUBSET Nat /\ D # {}
    BY <1>1, <1>7
  <2>2. PICK x \in D : \A y \in D : x <= y
    <3> HIDE DEF D
    <3> QED
      BY <2>1, LeastNumber
  <2>3. PICK t \in K : x = W - 2 - t
    OBVIOUS
  <2>4. ASSUME NEW j \in K PROVE t >= j
    <3>1. W - 2 - t <= W - 2 - j
      BY <2>2, <2>3
    <3> QED
      BY <1>1, <3>1
  <2> QED
    BY <2>4
<1> DEFINE t == TopBit(m)
<1>9. t \in K /\ \A j \in K : t >= j
  <2>1. t = CHOOSE x \in K : \A y \in K : x >= y
    BY DEF TopBit, Max
  <2> HIDE DEF t, K
  <2> QED
    BY <1>8, <2>1
<1> HIDE DEF t
<1>10. t \in Nat /\ t + 1 \in 0 .. W - 1 /\ Bit(t, m)
  <2>1. t \in 0 .. W - 2 /\ Bit(t, m)
    BY <1>9
  <2> QED
    BY <2>1, SizesAssumption
<1>11. m \div 2 ^ (t + 1) = 0
  <2>1. \A j \in K : j < t + 1
    BY <1>9, <1>10
  <2> HIDE DEF K
  <2> QED
    BY <1>6, <1>10, <2>1
<1>12. m \div 2 ^ t = 1
  BY <1>10, <1>11, Digit
<1> QED
  BY <1>9, <1>12 DEF t

----------------------------------------------------------------------------
(* The number a word stands for *)

\* s adds up the powers of two of the bits of w, from the lowest on.
IsSum(w, s) ==
    /\ s \in [Nat -> Nat]
    /\ s[0] = 0
    /\ \A k \in Nat : s[k + 1] = s[k] + IF k \in w THEN 2 ^ k ELSE 0

LEMMA ValueIsSum ==
    ASSUME NEW w
    PROVE  \E s : IsSum(w, s) /\ Value(w) = s[W]
<1> DEFINE F == [k \in Nat |-> [v \in Nat |-> v + IF k \in w THEN 2 ^ k ELSE 0]]
           IsLow(g) == g = [k \in Nat |-> IF k = 0 THEN 0
                                          ELSE g[k - 1] + (IF k - 1 \in w THEN 2 ^ (k - 1) ELSE 0)]
           low == CHOOSE g : IsLow(g)
<1>1. PICK g : Solves(Nat, 0, F, g)
  <2>1. \A k \in Nat : 2 ^ k \in Nat
    BY PowersOfTwo
  <2>2. IsStep(Nat, 0, F)
    BY <2>1 DEF IsStep
  <2> HIDE DEF F
  <2> QED
    BY <2>2, Recursion
<1>2. g \in [Nat -> Nat]
  <2> HIDE DEF F
  <2> QED
    BY <1>1 DEF Solves
<1>3. ASSUME NEW k \in Nat, k # 0
      PROVE  F[k - 1][g[k - 1]] = g[k - 1] + (IF k - 1 \in w THEN 2 ^ (k - 1) ELSE 0)
  <2>1. k - 1 \in Nat
    BY <1>3
  <2> HIDE DEF IsLow, low
  <2> QED
    BY <1>2, <2>1
<1>4. IsLow(g)
  <2> HIDE DEF F
  <2> QED
    BY <1>1, <1>3 DEF Solves
<1>5. Value(w) = low[W]
  BY DEF Value
<1> HIDE DEF F, IsLow
<1>6. IsLow(low)
  BY <1>4
<1> HIDE DEF low
<1> DEFINE T == {k \in Nat : low[k] = g[k]}
<1>7. 0 \in T
  BY <1>4, <1>6 DEF IsLow
<1>8. ASSUME NEW k \in Nat PROVE low[k + 1] = low[k] + IF k \in w THEN 2 ^ k ELSE 0
  <2>1. k + 1 \in Nat /\ k + 1 # 0 /\ (k + 1) - 1 = k
    OBVIOUS
  <2> QED
    BY <1>6, <2>1 DEF IsLow
<1>9. ASSUME NEW k \in Nat PROVE g[k + 1] = g[k] + IF k \in w THEN 2 ^ k ELSE 0
  <2>1. k + 1 \in Nat /\ k + 1 # 0 /\ (k + 1) - 1 = k
    OBVIOUS
  <2> QED
    BY <1>4, <2>1 DEF IsLow
<1>10. \A k \in Nat : k \in T
  <2>1. \A k \in Nat : k \in T => k + 1 \in T
    BY <1>8, <1>9
  <2> HIDE DEF T
  <2> QED
    BY <1>7, <2>1, Induction
<1>11. g[0] = 0
  BY <1>4 DEF IsLow
<1>12. IsSum(w, g)
  BY <1>2, <1>9, <1>11 DEF IsSum
<1>13. low[W] = g[W]
  BY <1>10, SizesAssumption
<1> QED
  BY <1>5, <1>12, <1>13

\* What a mask leaves is at most the mask.
LEMMA MaskBounds ==
    ASSUME NEW m \in Nat, NEW w \in SUBSET BitsOf(m)
    PROVE  Value(w) \in 0 .. m
<1>1. PICK s : IsSum(w, s) /\ Value(w) = s[W]
  BY ValueIsSum
<1>2. s \in [Nat -> Nat]
  BY <1>1 DEF IsSum
<1> DEFINE T == {k \in Nat : s[k] + 2 ^ k * (m \div 2 ^ k) <= m}
<1>3. 0 \in T
  <2>1. s[0] = 0 /\ 2 ^ 0 = 1
    BY <1>1, PowersOfTwo DEF IsSum
  <2>2. 0 + 1 * (m \div 1) <= m
    OBVIOUS
  <2> QED
    BY <2>1, <2>2
<1>4. ASSUME NEW k \in Nat, k \in T PROVE k + 1 \in T
  <2> DEFINE d == 2 ^ k
             q == m \div 2 ^ k
             h == m \div 2 ^ (k + 1)
             b == IF Bit(k, m) THEN 1 ELSE 0
             v == IF k \in w THEN d ELSE 0
  <2>1. d \in Nat /\ 2 ^ (k + 1) = 2 * d
    BY PowersOfTwo
  <2>2. q \in Nat /\ h \in Nat /\ b \in 0 .. 1 /\ q = 2 * h + b
    BY Digit
  <2>3. v \in Nat /\ v <= d * b
    <3>1. k \in w => b = 1
      BY DEF BitsOf
    <3>2. d * 1 = d /\ d * 0 = 0
      BY <2>1
    <3> HIDE DEF b, d
    <3> QED
      BY <2>1, <2>2, <3>1, <3>2
  <2>4. s[k] \in Nat /\ s[k] + d * q <= m /\ s[k + 1] = s[k] + v
    BY <1>1, <1>2, <1>4 DEF IsSum
  <2> HIDE DEF d, q, h, b, v
  <2>5. d * q = (2 * d) * h + d * b
    <3>1. d * q = d * (2 * h + b)
      BY <2>2
    <3>2. d * (2 * h + b) = (2 * d) * h + d * b
      BY <2>1, <2>2
    <3> QED
      BY <3>1, <3>2
  <2>6. (2 * d) * h \in Nat /\ d * b \in Nat
    BY <2>1, <2>2
  <2>7. s[k + 1] + (2 * d) * h <= m
    <3> DEFINE x == (2 * d) * h
               y == d * b
               z == d * q
    <3>1. z = x + y /\ x \in Nat /\ y \in Nat /\ v <= y /\ s[k] + z <= m /\ s[k + 1] = s[k] + v
      BY <2>3, <2>4, <2>5, <2>6
    <3> HIDE DEF x, y, z
    <3>2. s[k + 1] + x <= m
      BY <2>3, <2>4, <3>1
    <3> QED
      BY <3>2 DEF x
  <2> QED
    BY <2>1, <2>7 DEF h
<1>5. \A k \in Nat : k \in T
  <2> HIDE DEF T
  <2> QED
    BY <1>3, <1>4, Induction
<1>6. W \in Nat /\ s[W] \in Nat /\ s[W] + 2 ^ W * (m \div 2 ^ W) <= m
  BY <1>2, <1>5, SizesAssumption
<1>7. 2 ^ W * (m \div 2 ^ W) \in Nat
  <2>1. 2 ^ W \in Nat /\ m \div 2 ^ W \in Nat
    BY <1>6, PowersOfTwo, Digit
  <2> QED
    BY <2>1
<1> DEFINE x == 2 ^ W * (m \div 2 ^ W)
<1>8. x \in Nat /\ s[W] + x <= m
  BY <1>6, <1>7
<1> HIDE DEF x
<1> QED
  BY <1>1, <1>6, <1>8

----------------------------------------------------------------------------
(* Jobs and their tables *)

LEMMA JobFacts ==
    ASSUME job \in Jobs
    PROVE  /\ job.prog \in {"starts", "pool", "flat", "gups"}
           /\ job.prog = "starts" => job.arg \in Nat
           /\ job.prog \in {"pool", "flat"} =>
                /\ job.procs \in Procs /\ job.mem \in MemWords
                /\ job.procs \in Nat /\ job.procs >= 1 /\ job.mem \in Nat /\ job.mem >= 2
           /\ job.prog = "gups" =>
                job.procs \in Nat /\ job.procs >= 1 /\ job.size \in Nat /\ job.size >= 1
<1>1. CASE job \in [prog : {"starts"}, arg : Args]
  BY <1>1, SizesAssumption
<1>2. CASE job \in [prog : {"pool", "flat"}, procs : Procs, mem : MemWords]
  <2>1. job.procs \in Procs /\ job.mem \in MemWords /\ job.prog \in {"pool", "flat"}
    BY <1>2
  <2>2. \A k \in Procs : k \in Nat /\ k >= 1
    BY SizesAssumption
  <2>3. \A k \in MemWords : k \in Nat /\ k >= 2
    BY SizesAssumption
  <2> QED
    BY <2>1, <2>2, <2>3
<1>3. CASE job \in [prog : {"gups"}, procs : Procs, size : Tables]
  <2>1. job.procs \in Procs /\ job.size \in Tables /\ job.prog = "gups"
    BY <1>3
  <2>2. \A k \in Procs : k \in Nat /\ k >= 1
    BY SizesAssumption
  <2>3. \A k \in Tables : k \in Nat /\ k >= 1
    BY SizesAssumption
  <2> QED
    BY <2>1, <2>2, <2>3
<1> QED
  BY <1>1, <1>2, <1>3 DEF Jobs

Tabled == job.prog \in {"pool", "flat"}

\* There is a largest power of two, and every PE has a part of it.
LEMMA TableFacts ==
    ASSUME job \in Jobs, Tabled
    PROVE  /\ LocalTableSize \in Nat /\ LocalTableSize >= 1
           /\ ProcNumUpdates \in Nat /\ Allocated \in Nat
<1> DEFINE words == job.procs * job.mem
           Large == {k \in Nat : words < 2 * 2 ^ k}
           t == TableSize
<1>1. /\ job.procs \in Procs /\ job.mem \in MemWords
      /\ job.procs \in Nat /\ job.procs >= 1 /\ job.mem \in Nat /\ job.mem >= 2
  BY JobFacts DEF Tabled
<1>2. words \in Nat /\ words >= 2 * job.procs /\ words < 2 ^ W
  <2>1. words < 2 ^ W
    BY <1>1, SizesAssumption
  <2>2. PICK e \in Nat : job.mem = 2 + e
    <3>1. job.mem - 2 \in Nat /\ job.mem = 2 + (job.mem - 2)
      BY <1>1
    <3> QED
      BY <3>1
  <2>3. words = 2 * job.procs + job.procs * e /\ job.procs * e \in Nat
    BY <1>1, <2>2
  <2> QED
    BY <1>1, <2>1, <2>3
<1> HIDE DEF words
<1>3. W - 1 \in Nat /\ (W - 1) + 1 = W
  BY SizesAssumption
<1>4. W - 1 \in Large
  BY <1>2, <1>3, PowersOfTwo
<1>5. PICK k \in Large : \A j \in Large : k <= j
  BY <1>4, LeastNumber
<1>6. k \in 0 .. W - 1 /\ 2 ^ k \in Nat /\ words < 2 * 2 ^ k
  BY <1>3, <1>4, <1>5, PowersOfTwo
<1>7. 2 ^ k <= words
  <2>1. CASE k = 0
    BY <1>1, <1>2, <2>1, PowersOfTwo
  <2>2. CASE k # 0
    <3>1. k - 1 \in Nat /\ (k - 1) + 1 = k
      BY <2>2
    <3>2. k - 1 \notin Large
      BY <1>5, <3>1
    <3>3. ~(words < 2 * 2 ^ (k - 1)) /\ 2 ^ k = 2 * 2 ^ (k - 1)
      BY <3>1, <3>2, PowersOfTwo
    <3> QED
      BY <1>2, <1>6, <3>3
  <2> QED
    BY <2>1, <2>2
<1>8. t \in {2 ^ j : j \in 0 .. W - 1} /\ t <= words /\ words < 2 * t
  BY <1>6, <1>7 DEF TableSize, words
<1>9. t \in Nat
  BY <1>8, PowersOfTwo
<1>10. t >= job.procs
  BY <1>1, <1>2, <1>8, <1>9
<1>11. LocalTableSize \in Nat /\ LocalTableSize >= 1
  <2> DEFINE d == job.procs
             q == t \div d
             r == t % d
  <2>1. q \in Nat /\ r \in 0 .. d - 1 /\ t = d * q + r
    <3>1. d \in Nat /\ d > 0
      BY <1>1
    <3> HIDE DEF t, d
    <3> QED
      BY <1>9, <3>1, Quotient
  <2>2. q # 0
    <3> SUFFICES ASSUME q = 0 PROVE FALSE
      OBVIOUS
    <3> HIDE DEF t, q, r
    <3>1. job.procs * q = 0
      BY <1>1
    <3> QED
      BY <1>1, <1>9, <1>10, <2>1, <3>1
  <2> QED
    BY <2>1, <2>2 DEF LocalTableSize
<1>12. ProcNumUpdates \in Nat
  BY <1>11 DEF ProcNumUpdates
<1>13. Allocated \in Nat
  BY <1>1, <1>11 DEF Allocated
<1> QED
  BY <1>11, <1>12, <1>13

\* The index of an update, in the part of the table that belongs to pe.
LEMMA IndexFacts ==
    ASSUME job \in Jobs, Tabled, NEW w
    PROVE  \E v \in 0 .. LocalTableSize - 1 : TableIndex(w) = pe * ProcNumUpdates + v
<1>1. LocalTableSize - 1 \in Nat
  BY TableFacts
<1>2. w \cap BitsOf(LocalTableSize - 1) \in SUBSET BitsOf(LocalTableSize - 1)
  OBVIOUS
<1>3. Value(w \cap BitsOf(LocalTableSize - 1)) \in 0 .. LocalTableSize - 1
  BY <1>1, <1>2, MaskBounds
<1> QED
  BY <1>3 DEF TableIndex

\* The PE the mask selects is a PE, whether or not their number is a power of two.
LEMMA SelectedFacts ==
    ASSUME job \in Jobs, Tabled, NEW w, NEW shift
    PROVE  Selected(w, shift) \in 0 .. job.procs - 1
<1> DEFINE sign == IF W - 1 \in w THEN W - shift .. W - 1 ELSE {}
           shifted == ({k - shift : k \in w} \cap Bits) \cup sign
           s == shifted \cap BitsOf(job.procs - 1)
<1>1. job.procs - 1 \in Nat
  BY JobFacts DEF Tabled
<1>2. s \in SUBSET BitsOf(job.procs - 1) /\ s \in Word
  BY DEF BitsOf, Word
<1>3. Selected(w, shift) = Value(s)
  BY DEF Selected
<1> HIDE DEF s
<1>4. Value(s) \in 0 .. job.procs - 1
  BY <1>1, <1>2, MaskBounds
<1> QED
  BY <1>3, <1>4

\* Where the update goes, as RemoteForced says.
LEMMA TargetFacts ==
    ASSUME job \in Jobs, Tabled, NEW p \in 0 .. job.procs - 1
    PROVE  /\ Target(p) \in Nat
           /\ job.prog = "pool" => Target(p) < job.procs /\ (Target(p) = 0 <=> job.procs = 1)
<1>1. job.procs \in Nat /\ job.procs >= 1 /\ p \in Nat
  BY JobFacts DEF Tabled
<1>2. CASE p # 0
  BY <1>1, <1>2 DEF Target
<1>3. CASE p = 0 /\ job.procs = 1
  <2>1. (p + 1) % job.procs = 0 /\ (p + 1) \div job.procs = 1
    BY <1>3
  <2> QED
    BY <1>3, <2>1 DEF Target, Tabled
<1>4. CASE p = 0 /\ job.procs # 1
  <2>1. 1 = job.procs * 0 + 1 /\ 1 < job.procs
    BY <1>1, <1>4
  <2>2. 1 \div job.procs = 0
    BY <1>1, <2>1, QuotientIs
  <2>3. 1 % job.procs = 1
    <3> DEFINE d == job.procs
    <3>1. d \in Nat /\ d > 0 /\ 1 \in Nat
      BY <1>1
    <3>2. 1 \div d = 0
      BY <2>2
    <3> HIDE DEF d
    <3>3. 1 = d * (1 \div d) + (1 % d) /\ 1 % d \in 0 .. d - 1
      BY <3>1, Quotient
    <3>4. 1 % d = 1
      BY <3>1, <3>2, <3>3
    <3> QED
      BY <3>4 DEF d
  <2>4. p + 1 = 1
    BY <1>4
  <2> QED
    BY <1>4, <2>1, <2>2, <2>3, <2>4 DEF Target, Tabled
<1> QED
  BY <1>2, <1>3, <1>4

----------------------------------------------------------------------------
(* The invariant *)

\* Which job is where; the update loops call starts with 0.
Place ==
    /\ at \in {"starts", "loop"} => job.prog # "gups"
    /\ at = "loop" => job.prog = "starts"
    /\ at \in {"pe", "update"} => Tabled
    /\ at = "draw" => job.prog = "gups"
    /\ at = "starts" /\ Tabled => n = 0
    /\ at = "update" => pe < Streams

\* What is left of n names the same word; the loop has the word for the bits it
\* has looked at; the updates of PE 0 go on from the word of 0.
Sequence ==
    /\ at \in {"starts", "loop"} /\ job.prog = "starts" => Power[n] = Power[job.arg]
    /\ at = "loop" => ran = Power[n \div 2 ^ i]
    /\ at = "done" /\ job.prog = "starts" => ran = Power[job.arg]
    /\ at = "pe" /\ pe = 0 => ran = Power[0]
    /\ at = "update" /\ pe = 0 => ran = Power[iterate]

\* The latest index is in the part that begins pe * niterate words on.
InPart ==
    at = "update" /\ iterate > 0 =>
        \E v \in 0 .. LocalTableSize - 1 : index = pe * ProcNumUpdates + v

AccessInv ==
    /\ TypeOK
    /\ Place
    /\ Sequence
    /\ InPart
    /\ RemoteForced
    /\ RefusesRemainder

LEMMA AccessInvInit == Init => AccessInv
<1> SUFFICES ASSUME Init PROVE AccessInv
  OBVIOUS
<1>1. job \in Jobs /\ W - 1 \in Nat
  BY SizesAssumption DEF Init
<1>2. at \in {"draw", "starts"} /\ (at = "draw" <=> job.prog = "gups")
  BY DEF Init
<1>3. n \in Nat /\ (Tabled => n = 0) /\ (job.prog = "starts" => n = job.arg)
  BY <1>1, JobFacts DEF Init, Tabled
<1>4. TypeOK
  BY <1>1, <1>2, <1>3, BitsFacts DEF Init, TypeOK
<1>5. Place /\ Sequence /\ InPart /\ RemoteForced /\ RefusesRemainder
  BY <1>2, <1>3 DEF Place, Sequence, InPart, RemoteForced, RefusesRemainder
<1> QED
  BY <1>4, <1>5 DEF AccessInv

\* What an operator says of the job does not change.
LEMMA JobKept ==
    ASSUME [Next]_vars
    PROVE  /\ job' = job /\ (Tabled' <=> Tabled) /\ Streams' = Streams
           /\ LocalTableSize' = LocalTableSize /\ ProcNumUpdates' = ProcNumUpdates
           /\ Allocated' = Allocated
<1>1. job' = job
  BY DEF Next, vars, Reduce, Prepare, Multiply, LeaveStarts, BeginPE, Update, EndPE, EndLoop, Draw
<1> QED
  BY <1>1 DEF Tabled, Streams, LocalTableSize, ProcNumUpdates, Allocated, TableSize

\* Dropping the period.
LEMMA ReduceKeeps == AccessInv /\ Reduce => AccessInv'
<1> SUFFICES ASSUME AccessInv, Reduce PROVE AccessInv'
  OBVIOUS
<1> USE DEF AccessInv
<1>1. PERIOD \in Nat /\ n \in Nat /\ n' = n - PERIOD /\ n' \in Nat
  BY PeriodAssumption, PowersOfTwo, SizesAssumption DEF Reduce, TypeOK
<1>2. at = "starts" /\ at' = "starts" /\ job' = job /\ n > PERIOD
  BY DEF Reduce
<1>3. (Tabled' <=> Tabled) /\ ~Tabled
  BY <1>1, <1>2 DEF Tabled, Place
<1>4. TypeOK'
  BY <1>1, <1>2 DEF TypeOK, Reduce
<1>5. Place'
  BY <1>2, <1>3 DEF Place
<1>6. Power[n'] = Power[n]
  <2>1. n' + PERIOD = n
    BY <1>1
  <2> QED
    BY <1>1, <2>1, PowerPeriod
<1>7. Sequence'
  BY <1>2, <1>6 DEF Sequence
<1> QED
  BY <1>2, <1>4, <1>5, <1>7 DEF InPart, RemoteForced, RefusesRemainder

\* The highest bit of n gives the word x.
LEMMA PrepareKeeps == AccessInv /\ Prepare => AccessInv'
<1> SUFFICES ASSUME AccessInv, Prepare PROVE AccessInv'
  OBVIOUS
<1> USE DEF AccessInv
<1>1. /\ at = "starts" /\ n <= PERIOD /\ n \in Nat /\ job' = job /\ n' = n
      /\ pe' = pe /\ iterate' = iterate /\ index' = index /\ remote' = remote
  BY DEF Prepare, TypeOK
<1>2. (Tabled' <=> Tabled) /\ job \in Jobs /\ job.prog \in {"starts", "pool", "flat"}
  BY <1>1, JobFacts DEF Tabled, TypeOK, Place
<1>3. CASE n = 0
  <2>1. ran' = {0} /\ at' = Return /\ i' = i
    BY <1>3 DEF Prepare
  <2>2. at' = IF job.prog = "starts" THEN "done" ELSE "pe"
    BY <2>1 DEF Return
  <2>3. ran' = Power[0] /\ {0} \in Word
    BY <2>1, PowerNext, BitsFacts
  <2>4. TypeOK'
    BY <1>1, <1>2, <2>1, <2>2, <2>3 DEF TypeOK
  <2>5. Place'
    BY <1>1, <1>2, <2>2 DEF Place, Tabled
  <2>6. job.prog = "starts" => Power[0] = Power[job.arg]
    BY <1>1, <1>3 DEF Sequence
  <2>7. Sequence'
    BY <1>1, <1>2, <2>2, <2>3, <2>6 DEF Sequence
  <2> QED
    BY <1>1, <1>2, <2>2, <2>4, <2>5, <2>7 DEF InPart, RemoteForced, RefusesRemainder
<1>4. CASE n # 0
  <2>1. ran' = {1} /\ at' = "loop" /\ i' = TopBit(n)
    BY <1>4 DEF Prepare
  <2>2. n < 2 ^ (W - 1)
    <3>1. PERIOD \in Nat /\ 2 ^ (W - 1) \in Nat /\ PERIOD <= 2 ^ (W - 1) - 1
      BY PeriodAssumption, PowersOfTwo, SizesAssumption
    <3> QED
      BY <1>1, <3>1
  <2>3. i' \in 0 .. W - 2 /\ n \div 2 ^ i' = 1
    BY <1>1, <1>4, <2>1, <2>2, TopBitIs
  <2>4. i' \in 0 .. W - 1
    BY <2>3, SizesAssumption
  <2>5. ran' = Power[n' \div 2 ^ i'] /\ ran' \in Word
    <3>1. 1 \in Bits
      BY SizesAssumption DEF Bits
    <3>2. Power[1] = {1} /\ {1} \in Word
      BY <3>1, PowerLow, BitsFacts
    <3> QED
      BY <1>1, <2>1, <2>3, <3>2
  <2>6. ~Tabled
    BY <1>1, <1>4 DEF Place
  <2>7. TypeOK'
    BY <1>1, <2>1, <2>4, <2>5 DEF TypeOK
  <2>8. Place'
    BY <1>1, <1>2, <2>1, <2>6 DEF Place, Tabled
  <2>9. Sequence'
    BY <1>1, <2>1, <2>5 DEF Sequence
  <2> QED
    BY <2>1, <2>7, <2>8, <2>9 DEF InPart, RemoteForced, RefusesRemainder
<1> QED
  BY <1>3, <1>4

\* The next bit of n.
LEMMA MultiplyKeeps == AccessInv /\ Multiply => AccessInv'
<1> SUFFICES ASSUME AccessInv, Multiply PROVE AccessInv'
  OBVIOUS
<1> USE DEF AccessInv
<1>1. /\ at = "loop" /\ at' = "loop" /\ job' = job /\ n' = n /\ i > 0 /\ i' = i - 1
      /\ pe' = pe /\ iterate' = iterate /\ index' = index /\ remote' = remote
      /\ n \in Nat /\ i \in 0 .. W - 1
  BY DEF Multiply, TypeOK
<1>2. i - 1 \in Nat /\ (i - 1) + 1 = i /\ i' \in 0 .. W - 1
  BY <1>1, SizesAssumption
<1> DEFINE h == n \div 2 ^ i
<1>3. /\ h \in Nat /\ 2 * h \in Nat
      /\ n \div 2 ^ (i - 1) = 2 * h + IF Bit(i - 1, n) THEN 1 ELSE 0
  <2> DEFINE k == i - 1
  <2>1. k \in Nat /\ k + 1 = i
    BY <1>2
  <2> HIDE DEF k
  <2>2. /\ n \div 2 ^ (k + 1) \in Nat
        /\ n \div 2 ^ k = 2 * (n \div 2 ^ (k + 1)) + IF Bit(k, n) THEN 1 ELSE 0
    BY <1>1, <2>1, Digit
  <2>3. n \div 2 ^ (k + 1) = h
    BY <2>1
  <2> HIDE DEF h
  <2> QED
    BY <2>2, <2>3 DEF k
<1>4. ran = Power[h]
  BY <1>1 DEF Sequence
<1> HIDE DEF h
<1>5. Square(ran) = Power[2 * h] /\ Step(Power[2 * h]) = Power[2 * h + 1]
  BY <1>3, <1>4, SquarePower, PowerNext
<1>6. ran' = Power[n' \div 2 ^ i']
  <2>1. CASE Bit(i - 1, n)
    BY <1>1, <1>3, <1>5, <2>1 DEF Multiply
  <2>2. CASE ~Bit(i - 1, n)
    <3>1. n \div 2 ^ (i - 1) = 2 * h
      BY <1>3, <2>2
    <3> QED
      BY <1>1, <1>5, <2>2, <3>1 DEF Multiply
  <2> QED
    BY <2>1, <2>2
<1>7. ran' \in Word
  <2>1. n' \div 2 ^ i' \in Nat
    BY <1>1, <1>2, Digit
  <2> QED
    BY <1>6, <2>1, PowerNext
<1>8. TypeOK'
  BY <1>1, <1>2, <1>7 DEF TypeOK
<1>9. Place'
  BY <1>1 DEF Place, Tabled
<1>10. Sequence'
  BY <1>1, <1>6 DEF Sequence
<1> QED
  BY <1>1, <1>8, <1>9, <1>10 DEF InPart, RemoteForced, RefusesRemainder

\* All bits of n have been looked at.
LEMMA LeaveStartsKeeps == AccessInv /\ LeaveStarts => AccessInv'
<1> SUFFICES ASSUME AccessInv, LeaveStarts PROVE AccessInv'
  OBVIOUS
<1> USE DEF AccessInv
<1>1. /\ at = "loop" /\ job.prog = "starts" /\ at' = "done" /\ job' = job /\ n' = n /\ i' = i /\ i = 0
      /\ ran' = ran /\ pe' = pe /\ iterate' = iterate /\ index' = index /\ remote' = remote
      /\ n \in Nat
  BY DEF LeaveStarts, TypeOK, Place, Return
<1>2. n \div 2 ^ i = n
  <2>1. 2 ^ 0 = 1 /\ n \div 1 = n
    BY <1>1, PowersOfTwo
  <2> QED
    BY <1>1, <2>1
<1>3. ran = Power[job.arg]
  BY <1>1, <1>2 DEF Sequence
<1>4. TypeOK' /\ Place' /\ Sequence'
  BY <1>1, <1>3 DEF TypeOK, Place, Sequence
<1> QED
  BY <1>1, <1>4 DEF InPart, RemoteForced, RefusesRemainder

\* The loop of the next PE.
LEMMA BeginPEKeeps == AccessInv /\ BeginPE => AccessInv'
<1> SUFFICES ASSUME AccessInv, BeginPE PROVE AccessInv'
  OBVIOUS
<1> USE DEF AccessInv
<1>1. /\ at = "pe" /\ pe < Streams /\ at' = "update" /\ job' = job /\ n' = n /\ i' = i
      /\ iterate' = 0 /\ pe' = pe /\ index' = index /\ remote' = remote
      /\ ran' \in IF pe = 0 THEN {ran} ELSE Word
  BY DEF BeginPE
<1>2. (Tabled' <=> Tabled) /\ Streams' = Streams /\ ran' \in Word
  BY <1>1 DEF Tabled, Streams, TypeOK
<1>3. TypeOK'
  BY <1>1, <1>2 DEF TypeOK
<1>4. Place'
  BY <1>1, <1>2 DEF Place
<1>5. Sequence'
  BY <1>1 DEF Sequence
<1> QED
  BY <1>1, <1>3, <1>4, <1>5 DEF InPart, RemoteForced, RefusesRemainder

\* The next word, its index and its target.
LEMMA UpdateKeeps == AccessInv /\ Update => AccessInv'
<1> SUFFICES ASSUME AccessInv, Update PROVE AccessInv'
  OBVIOUS
<1> USE DEF AccessInv
<1>1. /\ at = "update" /\ at' = "update" /\ job' = job /\ n' = n /\ i' = i
      /\ iterate' = iterate + 1 /\ pe' = pe /\ ran' = Step(ran)
      /\ index' = TableIndex(ran')
  BY DEF Update
<1>2. PICK shift \in Bits : remote' = Target(Selected(ran', shift))
  BY DEF Update
<1>3. job \in Jobs /\ Tabled /\ iterate \in Nat /\ pe \in Nat /\ ran \in Word
  BY <1>1 DEF TypeOK, Place
<1>4. [Next]_vars
  BY DEF Next
<1>5. /\ (Tabled' <=> Tabled) /\ Streams' = Streams
      /\ LocalTableSize' = LocalTableSize /\ ProcNumUpdates' = ProcNumUpdates
  BY <1>4, JobKept
<1> DEFINE p == Selected(ran', shift)
<1>6. p \in 0 .. job.procs - 1
  BY <1>3, SelectedFacts
<1> HIDE DEF p
<1>7. /\ remote' \in Nat
      /\ job.prog = "pool" => remote' < job.procs /\ (remote' = 0 <=> job.procs = 1)
  <2>1. remote' = Target(p)
    BY <1>2 DEF p
  <2> QED
    BY <1>3, <1>6, <2>1, TargetFacts
<1>8. PICK v \in 0 .. LocalTableSize - 1 : index' = pe * ProcNumUpdates + v
  BY <1>1, <1>3, IndexFacts
<1>9. index' \in Nat
  <2>1. v \in Nat /\ pe * ProcNumUpdates \in Nat
    BY <1>3, <1>8, TableFacts
  <2> QED
    BY <1>8, <2>1
<1>10. ran' \in Word /\ iterate' \in Nat
  BY <1>1, <1>3, StepWord
<1>11. TypeOK'
  BY <1>1, <1>3, <1>7, <1>9, <1>10 DEF TypeOK
<1>12. Place'
  BY <1>1, <1>5 DEF Place
<1>13. Sequence'
  BY <1>1, <1>3, PowerNext DEF Sequence
<1>14. InPart'
  BY <1>1, <1>5, <1>8 DEF InPart
<1>15. RemoteForced'
  BY <1>1, <1>7 DEF RemoteForced
<1> QED
  BY <1>1, <1>11, <1>12, <1>13, <1>14, <1>15 DEF RefusesRemainder

LEMMA EndPEKeeps == AccessInv /\ EndPE => AccessInv'
<1> SUFFICES ASSUME AccessInv, EndPE PROVE AccessInv'
  OBVIOUS
<1> USE DEF AccessInv
<1>1. /\ at = "update" /\ at' = "pe" /\ job' = job /\ n' = n /\ i' = i /\ ran' = ran
      /\ pe' = pe + 1 /\ iterate' = iterate /\ index' = index /\ remote' = remote
      /\ pe \in Nat
  BY DEF EndPE, TypeOK
<1>2. pe' \in Nat /\ pe' # 0
  BY <1>1
<1>3. TypeOK' /\ Place' /\ Sequence'
  BY <1>1, <1>2 DEF TypeOK, Place, Sequence, Tabled
<1> QED
  BY <1>1, <1>3 DEF InPart, RemoteForced, RefusesRemainder

LEMMA EndLoopKeeps == AccessInv /\ EndLoop => AccessInv'
<1> SUFFICES ASSUME AccessInv, EndLoop PROVE AccessInv'
  OBVIOUS
<1> USE DEF AccessInv
<1>1. /\ at = "pe" /\ at' = "done" /\ job' = job /\ n' = n /\ i' = i /\ ran' = ran
      /\ pe' = pe /\ iterate' = iterate /\ index' = index /\ remote' = remote
  BY DEF EndLoop
<1>2. job.prog \in {"pool", "flat"}
  BY <1>1 DEF Place, Tabled
<1>3. TypeOK' /\ Place' /\ Sequence'
  BY <1>1, <1>2 DEF TypeOK, Place, Sequence, Tabled
<1> QED
  BY <1>1, <1>2, <1>3 DEF InPart, RemoteForced, RefusesRemainder

\* The bounds check compares quotients.
LEMMA DrawKeeps == AccessInv /\ Draw => AccessInv'
<1> SUFFICES ASSUME AccessInv, Draw PROVE AccessInv'
  OBVIOUS
<1> USE DEF AccessInv
<1>1. /\ at = "draw" /\ at' = "done" /\ job' = job /\ i' = i /\ ran' = ran
      /\ pe' = pe /\ iterate' = iterate
  BY DEF Draw
<1>2. PICK drawn \in 0 .. job.size - 1 :
        /\ n' = drawn
        /\ remote' = drawn % job.procs
        /\ index' = IF Refused(drawn \div job.procs) THEN None ELSE drawn \div job.procs
  BY DEF Draw
<1>3. /\ job.prog = "gups" /\ job.procs \in Nat /\ job.procs > 0
      /\ job.size \in Nat /\ drawn \in Nat
  BY <1>1, JobFacts DEF TypeOK, Place
<1> DEFINE d == job.procs
           q == drawn \div d
           r == drawn % d
           part == job.size \div d
<1>4. q \in Nat /\ r \in 0 .. d - 1 /\ drawn = d * q + r /\ part \in Nat
  <2>1. d \in Nat /\ d > 0
    BY <1>3
  <2> HIDE DEF d
  <2> QED
    BY <1>3, <2>1, Quotient
<1>5. n' = drawn /\ remote' = r /\ index' = IF q >= part THEN None ELSE q
  BY <1>2 DEF Refused
<1>6. d \in Nat /\ d > 0
  BY <1>3
<1>7. q >= part <=> drawn >= part * d
  <2> HIDE DEF d, q, r, part
  <2>1. ASSUME q >= part PROVE drawn >= part * d
    <3>1. PICK e \in Nat : q = part + e
      <4>1. q - part \in Nat /\ q = part + (q - part)
        BY <1>4, <2>1
      <4> QED
        BY <4>1
    <3>2. d * (part + e) = part * d + d * e /\ d * e \in Nat /\ part * d \in Nat
      BY <1>4, <1>6
    <3> QED
      BY <1>4, <3>1, <3>2
  <2>2. ASSUME q < part PROVE drawn < part * d
    <3>1. PICK e \in Nat : part = q + 1 + e
      <4>1. part - q - 1 \in Nat /\ part = q + 1 + (part - q - 1)
        BY <1>4, <2>2
      <4> QED
        BY <4>1
    <3>2. (q + 1 + e) * d = d * q + d + d * e /\ d * e \in Nat /\ d * q \in Nat
      BY <1>4, <1>6
    <3> QED
      BY <1>4, <1>6, <3>1, <3>2
  <2>3. part * d \in Nat
    BY <1>4, <1>6
  <2> QED
    BY <1>3, <1>4, <2>1, <2>2, <2>3
<1>8. None \notin Int
  BY NoneAssumption
<1>9. index' = None <=> drawn >= part * d
  BY <1>4, <1>5, <1>7, <1>8
<1>10. remote' \in Nat /\ index' \in Nat \cup {None} /\ n' \in Nat
  BY <1>3, <1>4, <1>5
<1>11. RefusesRemainder'
  BY <1>1, <1>5, <1>9 DEF RefusesRemainder
<1>12. TypeOK'
  BY <1>1, <1>10 DEF TypeOK
<1>13. Place' /\ Sequence'
  BY <1>1, <1>3 DEF Place, Sequence, Tabled
<1> QED
  BY <1>1, <1>11, <1>12, <1>13 DEF InPart, RemoteForced

LEMMA AccessInvStep == AccessInv /\ [Next]_vars => AccessInv'
<1>1. ASSUME AccessInv, UNCHANGED vars PROVE AccessInv'
  <2> USE DEF AccessInv, vars
  <2>1. TypeOK' /\ Place'
    BY <1>1, JobKept DEF TypeOK, Place
  <2>2. Sequence' /\ InPart'
    BY <1>1, JobKept DEF Sequence, InPart
  <2>3. RemoteForced' /\ RefusesRemainder'
    BY <1>1 DEF RemoteForced, RefusesRemainder
  <2> QED
    BY <2>1, <2>2, <2>3
<1>2. ASSUME AccessInv, Next PROVE AccessInv'
  BY <1>2, ReduceKeeps, PrepareKeeps, MultiplyKeeps, LeaveStartsKeeps, BeginPEKeeps,
     UpdateKeeps, EndPEKeeps, EndLoopKeeps, DrawKeeps DEF Next
<1> QED
  BY <1>1, <1>2

\* Whatever the sizes, the words, the indices and the targets are what AccessInv says.
THEOREM AccessInvariant == Spec => []AccessInv
BY AccessInvInit, AccessInvStep, PTL DEF Spec

\* What starts returns, and what the updates of PE 0 draw, is the sequence, for every n
\* and every width of a word: the square-and-multiply loop computes n single steps.
THEOREM SpecSequenceCorrect == Spec => []SequenceCorrect
<1>1. AccessInv => SequenceCorrect
  <2> SUFFICES ASSUME AccessInv PROVE SequenceCorrect
    OBVIOUS
  <2>1. iterate \in Nat
    BY DEF AccessInv, TypeOK
  <2>2. Power[iterate] # {}
    BY <2>1, PowerNext
  <2> QED
    BY <2>2 DEF AccessInv, Sequence, SequenceCorrect
<1> QED
  BY <1>1, AccessInvariant, PTL

\* Where an index lies is decided by the PE alone: with four updates per word, part
\* number pe begins 4 * pe parts into the table.
LEMMA InPartDecides == AccessInv => OutsideExplained
<1> SUFFICES ASSUME AccessInv, at = "update", iterate > 0
             PROVE  index >= Allocated <=> 4 * pe >= job.procs
  BY DEF OutsideExplained
<1> DEFINE L == LocalTableSize
           P == job.procs
<1>1. job \in Jobs /\ Tabled /\ pe \in Nat /\ pe < Streams
  BY DEF AccessInv, TypeOK, Place
<1>2. L \in Nat /\ L >= 1 /\ P \in Nat /\ P >= 1
  BY <1>1, TableFacts, JobFacts DEF Tabled
<1>3. PICK v \in 0 .. L - 1 : index = pe * ProcNumUpdates + v
  BY DEF AccessInv, InPart
<1>4. ProcNumUpdates = 4 * L
  BY DEF ProcNumUpdates
<1>5. CASE job.prog = "pool"
  <2>1. Allocated = P * L
    BY <1>5 DEF Allocated
  <2> HIDE DEF L, P
  <2>2. index = (4 * pe) * L + v
    BY <1>1, <1>2, <1>3, <1>4
  <2>3. ASSUME 4 * pe >= P PROVE index >= P * L
    <3>1. PICK e \in Nat : 4 * pe = P + e
      <4>1. 4 * pe - P \in Nat /\ 4 * pe = P + (4 * pe - P)
        BY <1>1, <1>2, <2>3
      <4> QED
        BY <4>1
    <3>2. (P + e) * L = P * L + e * L /\ e * L \in Nat /\ P * L \in Nat
      BY <1>2
    <3> QED
      BY <1>2, <2>2, <3>1, <3>2
  <2>4. ASSUME 4 * pe < P PROVE index < P * L
    <3>1. PICK e \in Nat : P = 4 * pe + 1 + e
      <4>1. P - 4 * pe - 1 \in Nat /\ P = 4 * pe + 1 + (P - 4 * pe - 1)
        BY <1>1, <1>2, <2>4
      <4> QED
        BY <4>1
    <3>2. (4 * pe + 1 + e) * L = (4 * pe) * L + L + e * L /\ e * L \in Nat /\ (4 * pe) * L \in Nat
      BY <1>1, <1>2
    <3> QED
      BY <1>2, <2>2, <3>1, <3>2
  <2>5. index \in Nat /\ P * L \in Nat
    <3>1. v \in Nat /\ (4 * pe) * L \in Nat /\ P * L \in Nat
      BY <1>1, <1>2
    <3> QED
      BY <2>2, <3>1
  <2>6. 4 * pe >= P \/ 4 * pe < P
    BY <1>1, <1>2
  <2>7. index >= P * L <=> 4 * pe >= P
    BY <1>1, <1>2, <2>3, <2>4, <2>5, <2>6
  <2> QED
    BY <2>1, <2>7 DEF P
<1>6. CASE job.prog = "flat"
  <2>1. Allocated = L /\ pe < 1
    BY <1>1, <1>6 DEF Allocated, Streams
  <2>2. pe = 0
    BY <1>1, <2>1
  <2> HIDE DEF L, P
  <2>3. index = v /\ v < L /\ ~(4 * pe >= P)
    BY <1>2, <1>3, <1>4, <2>2
  <2> QED
    BY <1>2, <2>1, <2>3 DEF P
<1> QED
  BY <1>1, <1>5, <1>6 DEF Tabled

\* The pool's loop leaves the table for the PEs from a quarter of the PEs on and for no
\* others, whatever the number of PEs and the memory.
THEOREM SpecOutsideExplained == Spec => []OutsideExplained
BY InPartDecides, AccessInvariant, PTL

\* The pool's loop forces its updates to another PE, for every number of PEs above
\* one, a power of two or not.
THEOREM SpecRemoteForced == Spec => []RemoteForced
<1>1. AccessInv => RemoteForced
  BY DEF AccessInv
<1> QED
  BY <1>1, AccessInvariant, PTL

\* The bounds check of GUPS refuses exactly the indices behind npes equal parts.
THEOREM SpecRefusesRemainder == Spec => []RefusesRemainder
<1>1. AccessInv => RefusesRemainder
  BY DEF AccessInv
<1> QED
  BY <1>1, AccessInvariant, PTL
=============================================================================
