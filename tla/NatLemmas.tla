----------------------------- MODULE NatLemmas -----------------------------
(***************************************************************************)
(* Facts about natural numbers that the proofs of several modules use.     *)
(***************************************************************************)
EXTENDS Naturals, FiniteSetTheorems, WellFoundedInduction, TLAPS

(* A nonempty set of natural numbers has a least element.  The             *)
(* first fits of phys_malloc and find_best_free_space rest on it           *)
(* (physmem.c:118, kalloc.c:97).                                           *)
LEMMA LeastElement ==
    ASSUME NEW S \in SUBSET Nat, S # {}
    PROVE  \E x \in S : \A y \in S : x <= y
<1>1. IsWellFoundedOn(OpToRel(<, Nat), Nat)
  BY NatLessThanWellFounded, Zenon
<1>2. PICK x \in S : \A y \in S : ~ (<<y, x>> \in OpToRel(<, Nat))
  BY <1>1, WFMin, Zenon
<1>3. ASSUME NEW y \in S PROVE x <= y
  <2>1. ~ (<<y, x>> \in {ss \in Nat \X Nat : ss[1] < ss[2]})
    BY <1>2 DEF OpToRel
  <2>2. QED BY <2>1, <1>3
<1>4. QED BY <1>3

(* Distinct natural numbers from s to e are at most e - s + 1; it bounds   *)
(* the run that phys_malloc counts (physmem.c:122).                        *)
LEMMA BoundedRun ==
    ASSUME NEW s \in Nat, NEW e \in Nat, s <= e, NEW R \in SUBSET (s .. e)
    PROVE  Cardinality(R) \in 0 .. e - s + 1
<1>1. IsFiniteSet(s .. e) /\ Cardinality(s .. e) = e - s + 1
  BY FS_Interval
<1>2. IsFiniteSet(R) /\ Cardinality(R) <= Cardinality(s .. e)
  BY <1>1, FS_Subset
<1>3. Cardinality(R) \in Nat
  BY <1>2, FS_CardinalityType
<1>4. QED BY <1>1, <1>2, <1>3

(* The product that bounds the pages of the bitmap is monotone             *)
(* (physmem.c:74, 111).                                                    *)
LEMMA WordsMonotone ==
    ASSUME NEW a \in Nat, NEW b \in Nat, NEW w \in Nat, a <= b
    PROVE  a * w <= b * w /\ a * w \in Nat
  OBVIOUS

(* Division by a page or word size rounds down (physmem.c:30-33, 74).      *)
LEMMA DivMod ==
    ASSUME NEW a \in Nat, NEW w \in Nat \ {0}
    PROVE  /\ a % w \in 0 .. w - 1
           /\ a \div w \in Nat
           /\ a < w => a % w = a
           /\ (a \div w) * w <= a
          /\ a = (a \div w) * w + (a % w)
  OBVIOUS

(* f[i] is what a loop over 1 .. n has computed from a after i rounds.     *)
IsLoop(f, R, a, n, step) ==
    /\ f \in [0 .. n -> R]
    /\ f[0] = a
    /\ \A i \in 1 .. n : f[i] = step[<<i, f[i - 1]>>]

(* There is such a function, so that one that is defined by recursion has  *)
(* the values of its definition.                                           *)
LEMMA LoopExists ==
    ASSUME NEW R, NEW a \in R, NEW n \in Nat,
           NEW step \in [(1 .. n) \X R -> R]
    PROVE  \E f : IsLoop(f, R, a, n, step)
<1> DEFINE Upto(k) == \E f \in [0 .. k -> R] :
                f[0] = a /\ \A i \in 1 .. k : f[i] = step[<<i, f[i - 1]>>]
           without == {k \in 0 .. n : ~ Upto(k)}
<1>1. SUFFICES ASSUME without # {} PROVE FALSE
  <2>1. n \in 0 .. n
    OBVIOUS
  <2>2. Upto(n) => \E f : IsLoop(f, R, a, n, step)
    BY DEF IsLoop
  <2>3. QED BY <2>1, <2>2
<1>2. PICK k \in without : \A j \in without : k <= j
  <2>1. without \in SUBSET Nat
    OBVIOUS
  <2> HIDE DEF without
  <2>2. QED BY <1>1, <2>1, LeastElement
<1>3. Upto(0)
  <2> DEFINE one == [i \in 0 .. 0 |-> a]
  <2>1. one \in [0 .. 0 -> R] /\ one[0] = a
    OBVIOUS
  <2>2. \A i \in 1 .. 0 : FALSE
    OBVIOUS
  <2> HIDE DEF one
  <2>3. QED BY <2>1, <2>2
<1>4. k # 0
  BY <1>2, <1>3
<1>5. Upto(k - 1)
  BY <1>2, <1>4
<1>6. PICK f \in [0 .. k - 1 -> R] :
            f[0] = a /\ \A i \in 1 .. k - 1 : f[i] = step[<<i, f[i - 1]>>]
  BY <1>5
<1> DEFINE g == [i \in 0 .. k |-> IF i = k THEN step[<<k, f[k - 1]>>] ELSE f[i]]
<1>7. g \in [0 .. k -> R]
  <2>1. \A i \in 0 .. k : i # k => i \in 0 .. k - 1
    BY <1>2
  <2>2. k \in 1 .. n /\ f[k - 1] \in R
    BY <1>2, <1>4
  <2>3. QED BY <2>1, <2>2
<1>8. g[0] = a /\ \A i \in 1 .. k : g[i] = step[<<i, g[i - 1]>>]
  <2>1. k \in Nat \ {0}
    BY <1>2, <1>4
  <2>2. \A i \in 1 .. k : /\ g[i - 1] = f[i - 1]
                          /\ g[i] = IF i = k THEN step[<<k, f[k - 1]>>] ELSE f[i]
    BY <2>1
  <2>3. g[0] = a
    BY <1>6, <2>1
  <2> HIDE DEF g
  <2>4. ASSUME NEW i \in 1 .. k
        PROVE  g[i] = step[<<i, g[i - 1]>>]
    <3>1. CASE i = k
      BY <2>2, <3>1
    <3>2. CASE i # k
      <4>1. i \in 1 .. k - 1
        BY <2>1, <3>2
      <4>2. QED BY <1>6, <2>2, <3>2, <4>1
    <3>3. QED BY <3>1, <3>2
  <2>5. QED BY <2>3, <2>4
<1>9. QED BY <1>2, <1>7, <1>8

(* Quotient and remainder are unique: a page is in one word of the bitmap  *)
(* (physmem.c:20-22).                                                      *)
LEMMA DivModUnique ==
    ASSUME NEW w \in Nat \ {0}, NEW d \in Nat, NEW r \in 0 .. w - 1
    PROVE  (d * w + r) % w = r /\ (d * w + r) \div w = d
<1> DEFINE a == d * w + r
<1>1. a \in Nat /\ d * w \in Nat
  BY WordsMonotone
<1>2. PICK e \in Nat, m \in 0 .. w - 1 :
            a \div w = e /\ a % w = m /\ a = e * w + m
  <2>1. /\ a \div w \in Nat /\ a % w \in 0 .. w - 1
        /\ a = (a \div w) * w + (a % w)
    <3> HIDE DEF a
    <3>1. a \div w \in Nat /\ a % w \in 0 .. w - 1
      BY <1>1, DivMod
    <3>2. a = (a \div w) * w + (a % w)
      BY <1>1
    <3>3. QED BY <3>1, <3>2
  <2>2. QED BY <2>1
<1> HIDE DEF a
<1>3. a = d * w + r
  BY DEF a
<1>4. ASSUME NEW x \in Nat, NEW y \in Nat, NEW i \in 0 .. w - 1,
             NEW j \in 0 .. w - 1, x < y, x * w + i = y * w + j
      PROVE  FALSE
  <2>1. (x + 1) * w <= y * w
    <3>1. x + 1 \in Nat /\ x + 1 <= y
      BY <1>4
    <3>2. QED BY <3>1, WordsMonotone
  <2>2. (x + 1) * w = x * w + w /\ x * w \in Nat /\ y * w \in Nat
    OBVIOUS
  <2>3. QED BY <1>4, <2>1, <2>2
<1>5. e = d
  <2>1. d * w + r = e * w + m
    BY <1>2, <1>3
  <2>2. ~ (e < d) /\ ~ (d < e)
    BY <1>2, <1>4, <2>1
  <2>3. QED BY <1>2, <2>2
<1>6. m = r
  BY <1>1, <1>2, <1>3, <1>5
<1>7. QED BY <1>2, <1>5, <1>6 DEF a

(* A bounded nonempty set of natural numbers has a greatest element: the   *)
(* last write that reaches a bit (physmem.c:75-91).                        *)
LEMMA GreatestElement ==
    ASSUME NEW S \in SUBSET Nat, S # {}, NEW b \in Nat, \A x \in S : x <= b
    PROVE  \E x \in S : \A y \in S : y <= x
<1> DEFINE above == {d \in Nat : b - d \in S}
<1>1. above \in SUBSET Nat /\ above # {}
  <2>1. PICK x \in S : TRUE
    OBVIOUS
  <2>2. b - x \in Nat /\ b - (b - x) = x
    OBVIOUS
  <2>3. QED BY <2>1, <2>2
<1>2. PICK d \in above : \A e \in above : d <= e
  <2> HIDE DEF above
  <2>1. QED BY <1>1, LeastElement
<1>3. \A y \in S : b - y \in above /\ y <= b - d
  <2>1. ASSUME NEW y \in S PROVE b - y \in above /\ y <= b - d
    <3>1. b - y \in Nat /\ b - (b - y) = y
      OBVIOUS
    <3>2. b - y \in above
      BY <3>1
    <3>3. d <= b - y
      BY <1>2, <3>2
    <3>4. QED BY <3>1, <3>2, <3>3
  <2>2. QED BY <2>1
<1>4. QED BY <1>2, <1>3

(* A page behind another is in the same word, or in a later one            *)
(* (physmem.c:20-22).                                                      *)
LEMMA DivMonotone ==
    ASSUME NEW a \in Nat, NEW b \in Nat, a <= b, NEW w \in Nat \ {0}
    PROVE  a \div w <= b \div w
<1>1. PICK x \in Nat, i \in 0 .. w - 1 : x = a \div w /\ a = x * w + i
  <2>1. a \div w \in Nat /\ a % w \in 0 .. w - 1 /\ a = (a \div w) * w + (a % w)
    BY DivMod
  <2>2. QED BY <2>1
<1>2. PICK y \in Nat, j \in 0 .. w - 1 : y = b \div w /\ b = y * w + j
  <2>1. b \div w \in Nat /\ b % w \in 0 .. w - 1 /\ b = (b \div w) * w + (b % w)
    BY DivMod
  <2>2. QED BY <2>1
<1>3. SUFFICES ASSUME y + 1 <= x PROVE FALSE
  BY <1>1, <1>2
<1>4. (y + 1) * w <= x * w /\ (y + 1) * w = y * w + w
      /\ x * w \in Nat /\ y * w \in Nat
  BY <1>3, WordsMonotone
<1>5. QED BY <1>1, <1>2, <1>4

(* What holds before a loop and is kept by each round holds after all of   *)
(* them; S are the numbers of rounds after which it does.                  *)
LEMMA AllRounds ==
    ASSUME NEW n \in Nat, NEW S \in SUBSET (0 .. n), 0 \in S,
           \A k \in 1 .. n : k - 1 \in S => k \in S
    PROVE  n \in S
<1> DEFINE bad == (0 .. n) \ S
<1>1. SUFFICES ASSUME bad # {} PROVE FALSE
  OBVIOUS
<1>2. PICK k \in bad : \A j \in bad : k <= j
  <2>1. bad \in SUBSET Nat
    OBVIOUS
  <2> HIDE DEF bad
  <2>2. QED BY <1>1, <2>1, LeastElement
<1>3. k \in 1 .. n /\ k - 1 \in 0 .. n /\ k - 1 \notin bad
  BY <1>2
<1>4. QED BY <1>2, <1>3
=============================================================================
