-------------------------- MODULE FiniteInduction --------------------------
(***************************************************************************)
(* Inductions with no operator as a parameter. Over the natural numbers,   *)
(* for sets: the proofs about recursive functions and about the first or   *)
(* the last place of a sequence go by it. Over the size of a finite set:   *)
(* what the orders and the sums of Orders give, and the lists that Ranks   *)
(* makes of them.                                                          *)
(***************************************************************************)
EXTENDS Ranks, TLAPS, SequenceTheorems, WellFoundedInduction, NaturalsInduction, FiniteSetTheorems

Before == OpToRel(<, Nat)

LEMMA BeforeIsWellFounded == IsWellFoundedOn(Before, Nat)
  BY NatLessThanWellFounded DEF Before

LEMMA BeforeIsLess == \A x, y \in Nat : x < y => <<x, y>> \in Before
  BY DEF Before, OpToRel

\* Every set of numbers that is not empty has a least one.
LEMMA LeastNumber ==
  ASSUME NEW T \in SUBSET Nat, T # {}
  PROVE  \E m \in T : \A k \in T : m <= k
<1>1. PICK m \in T : \A k \in T : ~ (<<k, m>> \in Before)
  BY BeforeIsWellFounded, WFMin
<1>2. ASSUME NEW k \in T PROVE m <= k
  <2>1. k \in Nat /\ m \in Nat
    OBVIOUS
  <2>2. ~ (<<k, m>> \in Before)
    BY <1>1
  <2>3. ~ (k < m)
    BY <2>1, <2>2, BeforeIsLess
  <2>. QED BY <2>1, <2>3
<1>. QED BY <1>2

\* Every bounded one has a greatest.
LEMMA GreatestNumber ==
  ASSUME NEW n \in Nat, NEW T \in SUBSET (0..n), T # {}
  PROVE  Max(T) \in T /\ \A k \in T : k <= Max(T)
<1>. DEFINE Rest == {m \in Nat : \E k \in T : m = n - k}
<1>1. PICK k \in T : TRUE
  OBVIOUS
<1>2. k \in 0..n /\ n - k \in Nat
  OBVIOUS
<1>3. n - k \in Rest
  BY <1>2
<1>4. Rest # {} /\ Rest \in SUBSET Nat
  BY <1>3
<1>5. PICK m \in Rest : \A i \in Rest : m <= i
  BY <1>4, LeastNumber
<1>6. PICK top \in T : m = n - top
  OBVIOUS
<1>7. ASSUME NEW i \in T PROVE i <= top
  <2>1. i \in 0..n /\ top \in 0..n
    OBVIOUS
  <2>2. n - i \in Rest
    BY <2>1
  <2>3. n - top <= n - i
    BY <1>5, <1>6, <2>2
  <2>. QED BY <2>1, <2>3
<1>8. \A i \in T : top >= i
  <2>. SUFFICES ASSUME NEW i \in T PROVE top >= i
    OBVIOUS
  <2>1. i <= top
    BY <1>7
  <2>. QED BY <2>1
<1>9. Max(T) \in T /\ \A i \in T : Max(T) >= i
  BY <1>8 DEF Max
<1>10. ASSUME NEW i \in T PROVE i <= Max(T)
  <2>. DEFINE greatest == Max(T)
  <2>1. greatest \in T /\ greatest >= i
    BY <1>9
  <2>. HIDE DEF greatest
  <2>2. i \in Nat /\ greatest \in Nat
    BY <2>1
  <2>3. i <= greatest
    BY <2>1, <2>2
  <2>. QED BY <2>3 DEF greatest
<1>. QED BY <1>9, <1>10

\* A set that holds 0 and with every number the next one, up to n, holds them
\* all up to n.
LEMMA Climbing ==
  ASSUME NEW n \in Nat, NEW T, 0 \in T, \A k \in 1..n : k - 1 \in T => k \in T
  PROVE  \A k \in 0..n : k \in T
<1>. DEFINE Missing == (0..n) \ T
<1>. SUFFICES ASSUME Missing # {} PROVE FALSE
  OBVIOUS
<1>1. Missing \in SUBSET Nat
  OBVIOUS
<1>2. PICK m \in Missing : \A k \in Missing : m <= k
  BY <1>1, LeastNumber
<1>3. m \in 0..n /\ m \notin T
  OBVIOUS
<1>4. m # 0
  BY <1>3
<1>5. m \in 1..n /\ m - 1 \in 0..n /\ ~ (m <= m - 1)
  BY <1>3, <1>4
<1>6. m - 1 \in T
  BY <1>2, <1>5
<1>. QED BY <1>3, <1>5, <1>6

\* f starts at z and takes a step at every number from 1 to n.
Walks(f, n, z, step) == f[0] = z /\ \A k \in 1..n : f[k] = step[<<k, f[k - 1]>>]

\* What starts somewhere in a set and takes a step of the set at every number
\* is a function.
LEMMA StepByStep ==
  ASSUME NEW n \in Nat, NEW S, NEW z \in S, NEW step \in [(1..n) \X S -> S]
  PROVE  \E f \in [0..n -> S] : Walks(f, n, z, step)
<1>. DEFINE Follows(f, m) == f[0] = z /\ \A k \in 1..m : f[k] = step[<<k, f[k - 1]>>]
            Reached == {m \in 0..n : \E f \in [0..m -> S] : Follows(f, m)}
<1>1. 0 \in Reached
  <2>. DEFINE f == [k \in 0..0 |-> z]
  <2>1. f \in [0..0 -> S] /\ Follows(f, 0)
    OBVIOUS
  <2>2. 0 \in 0..n
    OBVIOUS
  <2>. HIDE DEF f, Follows
  <2>. QED BY <2>1, <2>2
<1>2. ASSUME NEW m \in 1..n, m - 1 \in Reached PROVE m \in Reached
  <2>1. PICK f \in [0..(m - 1) -> S] : Follows(f, m - 1)
    BY <1>2
  <2>2. m \in Nat /\ m - 1 \in Nat /\ m - 1 \in 0..(m - 1) /\ m \in 0..n
    OBVIOUS
  <2>3. f[m - 1] \in S
    BY <2>2
  <2>4. step[<<m, f[m - 1]>>] \in S
    BY <2>3
  <2>. DEFINE g == [k \in 0..m |-> IF k = m THEN step[<<m, f[m - 1]>>] ELSE f[k]]
  <2>5. \A k \in 0..m : k # m => k \in 0..(m - 1)
    BY <2>2
  <2>6. g \in [0..m -> S]
    BY <2>4, <2>5
  <2>7. g[0] = z
    BY <2>1, <2>2
  <2>8. ASSUME NEW k \in 1..m PROVE g[k] = step[<<k, g[k - 1]>>]
    <3>1. k \in 0..m /\ k - 1 \in 0..m /\ k - 1 # m
      BY <2>2
    <3>2. g[k - 1] = f[k - 1]
      BY <3>1
    <3>3. CASE k = m
      BY <3>1, <3>2, <3>3
    <3>4. CASE k # m
      <4>1. k \in 1..(m - 1)
        BY <2>2, <3>4
      <4>2. g[k] = f[k]
        BY <3>1, <3>4
      <4>. QED BY <2>1, <3>2, <4>1, <4>2
    <3>. QED BY <3>3, <3>4
  <2>9. Follows(g, m)
    BY <2>7, <2>8
  <2>. QED BY <2>2, <2>6, <2>9
<1>. HIDE DEF Reached
<1>3. n \in Reached
  <2>1. \A k \in 0..n : k \in Reached
    BY <1>1, <1>2, Climbing
  <2>. QED BY <2>1
<1>. QED BY <1>3 DEF Reached, Walks

LEMMA LeastIsMin ==
  ASSUME NEW T \in SUBSET Nat, T # {}
  PROVE  Min(T) \in T /\ \A k \in T : Min(T) <= k
<1>1. PICK m \in T : \A k \in T : m <= k
  BY LeastNumber
<1>2. m \in T /\ \A k \in T : m =< k
  BY <1>1
<1>. QED BY <1>2 DEF Min

\* The lesser and the greater of two numbers.
LEMMA OfTwo ==
  ASSUME NEW a \in Int, NEW b \in Int
  PROVE  /\ Min({a, b}) = (IF a <= b THEN a ELSE b)
         /\ Max({a, b}) = (IF a >= b THEN a ELSE b)
<1>. DEFINE low == IF a <= b THEN a ELSE b
            high == IF a >= b THEN a ELSE b
<1>1. \A x : (x \in {a, b} /\ \A y \in {a, b} : x =< y) <=> x = low
  OBVIOUS
<1>2. \A x : (x \in {a, b} /\ \A y \in {a, b} : x >= y) <=> x = high
  OBVIOUS
<1>3. Min({a, b}) = low
  <2>1. Min({a, b}) = CHOOSE x \in {a, b} : \A y \in {a, b} : x =< y
    BY DEF Min
  <2>. HIDE DEF low
  <2>. QED BY <1>1, <2>1
<1>4. Max({a, b}) = high
  <2>1. Max({a, b}) = CHOOSE x \in {a, b} : \A y \in {a, b} : x >= y
    BY DEF Max
  <2>. HIDE DEF high
  <2>. QED BY <1>2, <2>1
<1>. QED BY <1>3, <1>4

-----------------------------------------------------------------------------
\* What is the order of a finite set.
TotalOrder(S, before) ==
  /\ \A x \in S : <<x, x>> \notin before
  /\ \A x, y, z \in S : <<x, y>> \in before /\ <<y, z>> \in before => <<x, z>> \in before
  /\ \A x, y \in S : x # y => <<x, y>> \in before \/ <<y, x>> \in before

\* A place is how many come before, from 0.
PlaceOf(x, S, before) == Cardinality(Preceding(x, S, before))

LEMMA PlacesAreNumbers ==
  ASSUME NEW S, IsFiniteSet(S), NEW before, TotalOrder(S, before), NEW x \in S
  PROVE  /\ IsFiniteSet(Preceding(x, S, before))
         /\ PlaceOf(x, S, before) \in 0..(Cardinality(S) - 1)
<1>1. Preceding(x, S, before) \in SUBSET (S \ {x})
  BY DEF Preceding, TotalOrder
<1>2. IsFiniteSet(S \ {x}) /\ Cardinality(S \ {x}) = Cardinality(S) - 1
  BY FS_RemoveElement
<1>3. /\ IsFiniteSet(Preceding(x, S, before))
      /\ Cardinality(Preceding(x, S, before)) <= Cardinality(S \ {x})
  BY <1>1, <1>2, FS_Subset
<1>4. Cardinality(Preceding(x, S, before)) \in Nat /\ Cardinality(S) \in Nat
  BY <1>3, FS_CardinalityType
<1>. QED BY <1>2, <1>3, <1>4 DEF PlaceOf

\* What comes before has fewer before it.
LEMMA PlacesGrow ==
  ASSUME NEW S, IsFiniteSet(S), NEW before, TotalOrder(S, before),
         NEW x \in S, NEW y \in S, <<x, y>> \in before
  PROVE  PlaceOf(x, S, before) < PlaceOf(y, S, before)
<1>. DEFINE low == Preceding(x, S, before)
            high == Preceding(y, S, before)
<1>1. low \in SUBSET high /\ x \in high /\ x \notin low
  BY DEF Preceding, TotalOrder
<1>2. IsFiniteSet(low) /\ IsFiniteSet(high)
  BY PlacesAreNumbers
<1>. HIDE DEF low, high
<1>3. Cardinality(low) <= Cardinality(high) /\ Cardinality(low) # Cardinality(high)
  BY <1>1, <1>2, FS_Subset
<1>4. Cardinality(low) \in Nat /\ Cardinality(high) \in Nat
  BY <1>2, FS_CardinalityType
<1>5. Cardinality(low) < Cardinality(high)
  BY <1>3, <1>4
<1>. QED BY <1>5 DEF PlaceOf, low, high

LEMMA PlacesDiffer ==
  ASSUME NEW S, IsFiniteSet(S), NEW before, TotalOrder(S, before),
         NEW x \in S, NEW y \in S, PlaceOf(x, S, before) = PlaceOf(y, S, before)
  PROVE  x = y
<1>. SUFFICES ASSUME x # y PROVE FALSE
  OBVIOUS
<1>1. <<x, y>> \in before \/ <<y, x>> \in before
  BY DEF TotalOrder
<1>2. PlaceOf(x, S, before) < PlaceOf(y, S, before) \/ PlaceOf(y, S, before) < PlaceOf(x, S, before)
  BY <1>1, PlacesGrow
<1>3. PlaceOf(x, S, before) \in 0..(Cardinality(S) - 1)
  BY PlacesAreNumbers
<1>4. PlaceOf(x, S, before) \in Int /\ PlaceOf(y, S, before) \in Int
  BY <1>3
<1>. QED BY <1>2, <1>4

\* Every place is taken.
LEMMA PlacesAreTaken ==
  ASSUME NEW S, IsFiniteSet(S), NEW before, TotalOrder(S, before),
         NEW k \in 0..(Cardinality(S) - 1)
  PROVE  \E x \in S : PlaceOf(x, S, before) = k
<1>. DEFINE n == Cardinality(S)
            place == [x \in S |-> PlaceOf(x, S, before)]
<1>1. n \in Nat
  BY FS_CardinalityType
<1>2. IsFiniteSet(0..(n - 1)) /\ Cardinality(0..(n - 1)) = n
  <2>1. 0 \in Int /\ n - 1 \in Int /\ (IF 0 > n - 1 THEN 0 ELSE n - 1 - 0 + 1) = n
    BY <1>1
  <2>. HIDE DEF n
  <2>. QED BY <2>1, FS_Interval
<1>3. place \in [S -> 0..(n - 1)]
  BY PlacesAreNumbers
<1>4. IsInjective(place)
  BY PlacesDiffer DEF IsInjective
<1>5. place \in Injection(S, 0..(n - 1))
  BY <1>3, <1>4 DEF Injection
<1>6. place \in Surjection(S, 0..(n - 1))
  BY <1>2, <1>5, FS_Injection
<1>. QED BY <1>6 DEF Surjection

\* A finite set put in order: all of it, each element once, what comes before first.
LEMMA OrderIsComplete ==
  ASSUME NEW S, IsFiniteSet(S), NEW before, TotalOrder(S, before)
  PROVE  /\ Cardinality(S) \in Nat
         /\ InOrder(S, before) \in [1..Cardinality(S) -> S]
         /\ \A x \in S : \E k \in 1..Cardinality(S) : InOrder(S, before)[k] = x
         /\ \A i, j \in 1..Cardinality(S) :
              i < j => <<InOrder(S, before)[i], InOrder(S, before)[j]>> \in before
<1>. DEFINE n == Cardinality(S)
            order == InOrder(S, before)
<1>1. n \in Nat
  BY FS_CardinalityType
<1>2. ASSUME NEW k \in 1..n
      PROVE  order[k] \in S /\ PlaceOf(order[k], S, before) = k - 1
  <2>1. k - 1 \in 0..(n - 1)
    BY <1>1
  <2>2. \E x \in S : PlaceOf(x, S, before) = k - 1
    BY <2>1, PlacesAreTaken
  <2>3. order[k] = CHOOSE x \in S : PlaceOf(x, S, before) = k - 1
    BY DEF InOrder, PlaceOf
  <2>. QED BY <2>2, <2>3
<1>3. order = [k \in 1..n |-> order[k]]
  BY DEF InOrder
<1>. HIDE DEF order
<1>4. order \in [1..n -> S]
  BY <1>2, <1>3
<1>5. ASSUME NEW x \in S PROVE \E k \in 1..n : order[k] = x
  <2>1. PlaceOf(x, S, before) \in 0..(n - 1)
    BY PlacesAreNumbers
  <2>2. PICK k \in 1..n : k - 1 = PlaceOf(x, S, before)
    <3>. DEFINE k == PlaceOf(x, S, before) + 1
    <3>1. k \in 1..n /\ k - 1 = PlaceOf(x, S, before)
      BY <1>1, <2>1
    <3>. HIDE DEF k
    <3>. QED BY <3>1
  <2>3. order[k] = x
    BY <1>2, <2>2, PlacesDiffer
  <2>. QED BY <2>3
<1>6. ASSUME NEW i \in 1..n, NEW j \in 1..n, i < j
      PROVE  <<order[i], order[j]>> \in before
  <2>1. /\ order[i] \in S /\ PlaceOf(order[i], S, before) = i - 1
        /\ order[j] \in S /\ PlaceOf(order[j], S, before) = j - 1
    BY <1>2
  <2>2. i - 1 # j - 1 /\ ~ (j - 1 < i - 1)
    BY <1>6, <1>1
  <2>3. order[i] # order[j]
    BY <2>1, <2>2
  <2>4. <<order[i], order[j]>> \in before \/ <<order[j], order[i]>> \in before
    BY <2>1, <2>3 DEF TotalOrder
  <2>5. ~ (<<order[j], order[i]>> \in before)
    BY <2>1, <2>2, PlacesGrow
  <2>. QED BY <2>4, <2>5
<1>. QED BY <1>1, <1>4, <1>5, <1>6 DEF order

\* A finite set of numbers put in order.
LEMMA AscendingRises ==
  ASSUME NEW S \in SUBSET Int, IsFiniteSet(S)
  PROVE  /\ Cardinality(S) \in Nat
         /\ Ascending(S) \in [1..Cardinality(S) -> S]
         /\ \A x \in S : \E k \in 1..Cardinality(S) : Ascending(S)[k] = x
         /\ \A i, j \in 1..Cardinality(S) : i < j => Ascending(S)[i] < Ascending(S)[j]
<1>. DEFINE before == {e \in S \X S : e[1] < e[2]}
            n == Cardinality(S)
            order == Ascending(S)
<1>1. \A x, y \in S : <<x, y>> \in before <=> x < y
  OBVIOUS
<1>. HIDE DEF before
<1>2. \A x, y, z \in S : ~ (x < x) /\ (x < y /\ y < z => x < z) /\ (x # y => x < y \/ y < x)
  OBVIOUS
<1>3. TotalOrder(S, before)
  BY <1>1, <1>2 DEF TotalOrder
<1>4. order = InOrder(S, before)
  BY DEF Ascending, before
<1>. HIDE DEF order
<1>5. /\ n \in Nat /\ order \in [1..n -> S]
      /\ \A x \in S : \E k \in 1..n : order[k] = x
      /\ \A i, j \in 1..n : i < j => <<order[i], order[j]>> \in before
  BY <1>3, <1>4, OrderIsComplete
<1>6. \A i, j \in 1..n : i < j => order[i] < order[j]
  BY <1>1, <1>5
<1>. QED BY <1>5, <1>6 DEF order

-----------------------------------------------------------------------------
\* A family of parts of a finite set that holds a part as soon as it holds the part
\* less any one of its elements holds them all.
LEMMA PartByPart ==
  ASSUME NEW D, IsFiniteSet(D), NEW T,
         \A S \in SUBSET D : (\A x \in S : S \ {x} \in T) => S \in T
  PROVE  \A S \in SUBSET D : S \in T
<1>. DEFINE n == Cardinality(D)
            Sized == {m \in 0..n : \A S \in SUBSET D : Cardinality(S) <= m => S \in T}
<1>1. n \in Nat
  BY FS_CardinalityType
<1>2. ASSUME NEW S \in SUBSET D
      PROVE  IsFiniteSet(S) /\ Cardinality(S) \in 0..n
  <2>1. IsFiniteSet(S) /\ Cardinality(S) <= n
    BY FS_Subset
  <2>2. Cardinality(S) \in Nat
    BY <2>1, FS_CardinalityType
  <2>. QED BY <1>1, <2>1, <2>2
<1>. HIDE DEF n
<1>3. ASSUME NEW S \in SUBSET D, NEW x \in S
      PROVE  Cardinality(S \ {x}) = Cardinality(S) - 1
  <2>1. IsFiniteSet(S)
    BY <1>2
  <2>. QED BY <2>1, FS_RemoveElement
<1>4. 0 \in Sized
  <2>1. ASSUME NEW S \in SUBSET D, Cardinality(S) <= 0 PROVE S \in T
    <3>1. IsFiniteSet(S) /\ Cardinality(S) = 0
      <4>1. IsFiniteSet(S) /\ Cardinality(S) \in 0..n
        BY <1>2
      <4>. QED BY <2>1, <4>1
    <3>2. S = {}
      BY <3>1, FS_EmptySet
    <3>. QED BY <3>2
  <2>2. 0 \in 0..n
    BY <1>1
  <2>. QED BY <2>1, <2>2
<1>5. ASSUME NEW m \in 1..n, m - 1 \in Sized PROVE m \in Sized
  <2>1. ASSUME NEW S \in SUBSET D, Cardinality(S) <= m PROVE S \in T
    <3>1. ASSUME NEW x \in S PROVE S \ {x} \in T
      <4>1. Cardinality(S \ {x}) = Cardinality(S) - 1 /\ Cardinality(S) \in 0..n
        BY <1>2, <1>3
      <4>2. Cardinality(S \ {x}) <= m - 1
        BY <2>1, <4>1
      <4>3. S \ {x} \in SUBSET D
        OBVIOUS
      <4>. QED BY <1>5, <4>2, <4>3
    <3>. QED BY <3>1
  <2>2. m \in 0..n
    OBVIOUS
  <2>. QED BY <2>1, <2>2
<1>. HIDE DEF Sized
<1>6. n \in Sized
  <2>1. \A k \in 0..n : k \in Sized
    BY <1>1, <1>4, <1>5, Climbing
  <2>. QED BY <1>1, <2>1
<1>7. ASSUME NEW S \in SUBSET D PROVE S \in T
  <2>1. Cardinality(S) <= n
    BY <1>1, <1>2
  <2>. QED BY <1>6, <2>1 DEF Sized
<1>. QED BY <1>7

\* Sums over the parts of a function's domain, as SumOf adds them up.
Some(S) == CHOOSE x \in S : TRUE
Adds(f, sum, S) == sum[S] = IF S = {} THEN 0 ELSE f[Some(S)] + sum[S \ {Some(S)}]
Partial(f) == CHOOSE sum : sum = [S \in SUBSET DOMAIN f |->
                IF S = {} THEN 0 ELSE LET x == CHOOSE x \in S : TRUE IN f[x] + sum[S \ {x}]]

LEMMA SomeIsIn == \A S : S # {} => Some(S) \in S
  BY DEF Some

LEMMA SumIsPartial ==
  ASSUME NEW f
  PROVE  SumOf(f) = Partial(f)[DOMAIN f]
  BY DEF SumOf, MapThenSumSet, MapThenFoldSet, Partial

\* There are such sums for the parts of at most m elements, whatever m is.
SumsTo(f, m, sum) ==
  /\ sum \in [{S \in SUBSET DOMAIN f : Cardinality(S) <= m} -> Int]
  /\ \A S \in SUBSET DOMAIN f : Cardinality(S) <= m => Adds(f, sum, S)

LEMMA SumsExist ==
  ASSUME NEW f, IsFiniteSet(DOMAIN f), \A x \in DOMAIN f : f[x] \in Int
  PROVE  \E sum : SumsTo(f, Cardinality(DOMAIN f), sum)
<1>. DEFINE D == DOMAIN f
            n == Cardinality(D)
            Sized == {m \in 0..n : \E sum : SumsTo(f, m, sum)}
<1>1. n \in Nat
  BY FS_CardinalityType
<1>2. ASSUME NEW S \in SUBSET D
      PROVE  IsFiniteSet(S) /\ Cardinality(S) \in Nat
  BY FS_Subset, FS_CardinalityType
<1>3. ASSUME NEW S \in SUBSET D, NEW x \in S
      PROVE  Cardinality(S \ {x}) = Cardinality(S) - 1
  BY <1>2, FS_RemoveElement
<1>. HIDE DEF D
<1>4. 0 \in Sized
  <2>. DEFINE sum == [S \in {S \in SUBSET D : Cardinality(S) <= 0} |-> 0]
  <2>1. ASSUME NEW S \in SUBSET D, Cardinality(S) <= 0 PROVE Adds(f, sum, S)
    <3>1. Cardinality(S) = 0 /\ IsFiniteSet(S)
      BY <1>2, <2>1
    <3>2. S = {}
      BY <3>1, FS_EmptySet
    <3>. QED BY <2>1, <3>2 DEF Adds
  <2>2. sum \in [{S \in SUBSET D : Cardinality(S) <= 0} -> Int]
    OBVIOUS
  <2>3. SumsTo(f, 0, sum)
    BY <2>1, <2>2 DEF SumsTo, D
  <2>4. 0 \in 0..n
    BY <1>1
  <2>. HIDE DEF sum, n
  <2>. QED BY <2>3, <2>4
<1>5. ASSUME NEW m \in 1..n, m - 1 \in Sized PROVE m \in Sized
  <2>. HIDE DEF n
  <2>1. PICK sum : SumsTo(f, m - 1, sum)
    BY <1>5
  <2>. DEFINE Small == {S \in SUBSET D : Cardinality(S) <= m}
              more == [S \in Small |-> IF S = {} THEN 0 ELSE f[Some(S)] + sum[S \ {Some(S)}]]
  <2>2. ASSUME NEW S \in Small, S # {}
        PROVE  /\ Some(S) \in D /\ S \ {Some(S)} \in Small
               /\ Cardinality(S \ {Some(S)}) <= m - 1
    <3>1. Some(S) \in S
      BY <2>2, SomeIsIn
    <3>2. S \in SUBSET D /\ S \ {Some(S)} \in SUBSET D
      OBVIOUS
    <3>3. Cardinality(S \ {Some(S)}) = Cardinality(S) - 1 /\ Cardinality(S) \in Nat
      BY <1>2, <1>3, <3>1, <3>2
    <3>4. Cardinality(S) <= m
      OBVIOUS
    <3>5. Cardinality(S \ {Some(S)}) <= m - 1 /\ Cardinality(S \ {Some(S)}) <= m
      BY <3>3, <3>4
    <3>. QED BY <3>1, <3>2, <3>5
  <2>3. \A S \in SUBSET D : Cardinality(S) <= m - 1 => sum[S] \in Int /\ Adds(f, sum, S)
    BY <2>1 DEF SumsTo, D
  <2>4. more \in [Small -> Int]
    <3>1. ASSUME NEW S \in Small
          PROVE  (IF S = {} THEN 0 ELSE f[Some(S)] + sum[S \ {Some(S)}]) \in Int
      <4>1. CASE S = {}
        BY <4>1
      <4>2. CASE S # {}
        <5>1. f[Some(S)] \in Int /\ sum[S \ {Some(S)}] \in Int
          BY <2>2, <2>3, <4>2 DEF D
        <5>. QED BY <4>2, <5>1
      <4>. QED BY <4>1, <4>2
    <3>. QED BY <3>1
  <2>5. ASSUME NEW S \in Small PROVE Adds(f, more, S)
    <3>1. CASE S = {}
      BY <3>1 DEF Adds
    <3>2. CASE S # {}
      <4>. DEFINE R == S \ {Some(S)}
      <4>1. R \in Small /\ Cardinality(R) <= m - 1 /\ R \in SUBSET D
        BY <2>2, <3>2
      <4>2. Adds(f, sum, R)
        BY <2>3, <4>1
      <4>3. sum[R] = more[R]
        BY <4>1, <4>2 DEF Adds
      <4>. HIDE DEF R
      <4>4. more[S] = f[Some(S)] + sum[R]
        BY <3>2 DEF R
      <4>. QED BY <3>2, <4>3, <4>4 DEF Adds, R
    <3>. QED BY <3>1, <3>2
  <2>6. SumsTo(f, m, more)
    <3>. HIDE DEF more
    <3>. QED BY <2>4, <2>5 DEF SumsTo, D
  <2>7. m \in 0..n
    OBVIOUS
  <2>. HIDE DEF more
  <2>. QED BY <2>6, <2>7
<1>. HIDE DEF Sized, n
<1>6. n \in Sized
  <2>1. \A k \in 0..n : k \in Sized
    BY <1>1, <1>4, <1>5, Climbing
  <2>. QED BY <1>1, <2>1
<1>. QED BY <1>6 DEF Sized, n, D

LEMMA PartialSums ==
  ASSUME NEW f, IsFiniteSet(DOMAIN f), \A x \in DOMAIN f : f[x] \in Int
  PROVE  \A S \in SUBSET DOMAIN f : Partial(f)[S] \in Int /\ Adds(f, Partial(f), S)
<1>. DEFINE D == DOMAIN f
<1>1. PICK sum : SumsTo(f, Cardinality(D), sum)
  BY SumsExist
<1>2. \A S \in SUBSET D : Cardinality(S) <= Cardinality(D)
  BY FS_Subset
<1>3. sum \in [SUBSET D -> Int] /\ \A S \in SUBSET D : Adds(f, sum, S)
  <2>1. {S \in SUBSET D : Cardinality(S) <= Cardinality(D)} = SUBSET D
    BY <1>2
  <2>. QED BY <1>1, <1>2, <2>1 DEF SumsTo
<1>4. sum = [S \in SUBSET D |->
                IF S = {} THEN 0 ELSE LET x == CHOOSE x \in S : TRUE IN f[x] + sum[S \ {x}]]
  BY <1>3 DEF Adds, Some
<1>5. Partial(f) = [S \in SUBSET D |->
         IF S = {} THEN 0 ELSE LET x == CHOOSE x \in S : TRUE IN f[x] + Partial(f)[S \ {x}]]
  BY <1>4 DEF Partial
<1>6. \A S \in SUBSET D : Adds(f, Partial(f), S)
  BY <1>5 DEF Adds, Some
<1>. DEFINE Good == {S \in SUBSET D : Partial(f)[S] \in Int}
<1>7. ASSUME NEW S \in SUBSET D, \A x \in S : S \ {x} \in Good PROVE S \in Good
  <2>1. CASE S = {}
    <3>1. Adds(f, Partial(f), S)
      BY <1>6
    <3>2. Partial(f)[S] = 0
      BY <2>1, <3>1 DEF Adds
    <3>. QED BY <3>2
  <2>2. CASE S # {}
    <3>1. Some(S) \in S
      BY <2>2, SomeIsIn
    <3>2. f[Some(S)] \in Int /\ Partial(f)[S \ {Some(S)}] \in Int
      BY <1>7, <3>1
    <3>3. Partial(f)[S] = f[Some(S)] + Partial(f)[S \ {Some(S)}]
      BY <1>6, <2>2 DEF Adds
    <3>. QED BY <3>2, <3>3
  <2>. QED BY <2>1, <2>2
<1>. HIDE DEF Good
<1>8. \A S \in SUBSET D : S \in Good
  BY <1>7, PartByPart
<1>. QED BY <1>6, <1>8 DEF Good

\* A partial sum is that of the part less any of its elements, and the element.
LEMMA PartialSplits ==
  ASSUME NEW f, IsFiniteSet(DOMAIN f), \A x \in DOMAIN f : f[x] \in Int
  PROVE  \A S \in SUBSET DOMAIN f : \A x \in S : Partial(f)[S] = f[x] + Partial(f)[S \ {x}]
<1>. DEFINE D == DOMAIN f
            sum == Partial(f)
            Splits(S) == \A x \in S : sum[S] = f[x] + sum[S \ {x}]
            Good == {S \in SUBSET D : Splits(S)}
<1>1. \A S \in SUBSET D : sum[S] \in Int /\ Adds(f, sum, S)
  BY PartialSums
<1>2. \A x \in D : f[x] \in Int
  OBVIOUS
<1>. HIDE DEF sum, D
<1>3. ASSUME NEW S \in SUBSET D, \A x \in S : S \ {x} \in Good PROVE S \in Good
  <2>1. ASSUME NEW x \in S PROVE sum[S] = f[x] + sum[S \ {x}]
    <3>. DEFINE y == Some(S)
    <3>1. y \in S
      BY SomeIsIn
    <3>2. sum[S] = f[y] + sum[S \ {y}]
      BY <1>1 DEF Adds
    <3>. HIDE DEF y
    <3>3. CASE x = y
      BY <3>2, <3>3
    <3>4. CASE x # y
      <4>1. x \in S \ {y} /\ y \in S \ {x}
        BY <3>1, <3>4
      <4>2. sum[S \ {y}] = f[x] + sum[(S \ {y}) \ {x}]
        BY <1>3, <3>1, <4>1
      <4>3. sum[S \ {x}] = f[y] + sum[(S \ {x}) \ {y}]
        BY <1>3, <4>1
      <4>4. (S \ {y}) \ {x} = (S \ {x}) \ {y}
        OBVIOUS
      <4>. DEFINE R == (S \ {x}) \ {y}
      <4>5. R \in SUBSET D /\ x \in D /\ y \in D
        BY <3>1
      <4>6. sum[R] \in Int /\ f[x] \in Int /\ f[y] \in Int
        BY <1>1, <1>2, <4>5
      <4>7. sum[S \ {y}] = f[x] + sum[R] /\ sum[S \ {x}] = f[y] + sum[R]
        BY <4>2, <4>3, <4>4
      <4>. HIDE DEF R
      <4>. QED BY <3>2, <4>6, <4>7
    <3>. QED BY <3>3, <3>4
  <2>. QED BY <2>1
<1>. HIDE DEF Good
<1>4. IsFiniteSet(D)
  BY DEF D
<1>5. \A S \in SUBSET D : S \in Good
  BY <1>3, <1>4, PartByPart
<1>. QED BY <1>5 DEF Good, D, sum

\* A function and what is left of it on a part of its domain.
On(f, S) == [x \in S |-> f[x]]

LEMMA PartialOn ==
  ASSUME NEW f, IsFiniteSet(DOMAIN f), \A x \in DOMAIN f : f[x] \in Int,
         NEW S \in SUBSET DOMAIN f
  PROVE  SumOf(On(f, S)) = Partial(f)[S]
<1>. DEFINE g == On(f, S)
            Good == {R \in SUBSET S : Partial(g)[R] = Partial(f)[R]}
<1>1. DOMAIN g = S /\ IsFiniteSet(S) /\ \A x \in S : g[x] = f[x] /\ g[x] \in Int
  BY FS_Subset DEF On
<1>. HIDE DEF g
<1>2. \A R \in SUBSET S : Adds(g, Partial(g), R)
  BY <1>1, PartialSums
<1>3. \A R \in SUBSET S : Adds(f, Partial(f), R)
  BY PartialSums
<1>4. ASSUME NEW R \in SUBSET S, \A x \in R : R \ {x} \in Good PROVE R \in Good
  <2>1. Adds(g, Partial(g), R) /\ Adds(f, Partial(f), R)
    BY <1>2, <1>3
  <2>2. CASE R = {}
    BY <2>1, <2>2 DEF Adds
  <2>3. CASE R # {}
    <3>1. Some(R) \in R
      BY <2>3, SomeIsIn
    <3>2. g[Some(R)] = f[Some(R)] /\ Partial(g)[R \ {Some(R)}] = Partial(f)[R \ {Some(R)}]
      BY <1>1, <1>4, <3>1
    <3>. QED BY <2>1, <2>3, <3>2 DEF Adds
  <2>. QED BY <2>2, <2>3
<1>. HIDE DEF Good
<1>5. \A R \in SUBSET S : R \in Good
  BY <1>1, <1>4, PartByPart
<1>6. Partial(g)[S] = Partial(f)[S]
  BY <1>5 DEF Good
<1>. QED BY <1>1, <1>6, SumIsPartial DEF g

\* What a sum is: a number, nothing for nothing, and one value with the sum of the rest.
LEMMA SumType ==
  ASSUME NEW f, IsFiniteSet(DOMAIN f), \A x \in DOMAIN f : f[x] \in Int
  PROVE  SumOf(f) \in Int
  BY SumIsPartial, PartialSums

LEMMA SumEmpty ==
  ASSUME NEW f, DOMAIN f = {}
  PROVE  SumOf(f) = 0
<1>1. IsFiniteSet(DOMAIN f) /\ \A x \in DOMAIN f : f[x] \in Int
  BY FS_EmptySet
<1>2. Adds(f, Partial(f), DOMAIN f)
  BY <1>1, PartialSums
<1>3. Partial(f)[DOMAIN f] = 0
  BY <1>2 DEF Adds
<1>. QED BY <1>3, SumIsPartial

LEMMA SumSplits ==
  ASSUME NEW f, IsFiniteSet(DOMAIN f), \A x \in DOMAIN f : f[x] \in Int, NEW x \in DOMAIN f
  PROVE  /\ SumOf(On(f, DOMAIN f \ {x})) \in Int
         /\ SumOf(f) = f[x] + SumOf(On(f, DOMAIN f \ {x}))
<1>. DEFINE rest == DOMAIN f \ {x}
<1>1. rest \in SUBSET DOMAIN f
  OBVIOUS
<1>2. SumOf(On(f, rest)) = Partial(f)[rest] /\ Partial(f)[rest] \in Int
  BY <1>1, PartialOn, PartialSums
<1>3. Partial(f)[DOMAIN f] = f[x] + Partial(f)[rest]
  BY PartialSplits
<1>. QED BY <1>2, <1>3, SumIsPartial

LEMMA SumOfOne ==
  ASSUME NEW f, NEW x, DOMAIN f = {x}, f[x] \in Int
  PROVE  SumOf(f) = f[x]
<1>1. IsFiniteSet(DOMAIN f) /\ \A y \in DOMAIN f : f[y] \in Int
  BY FS_Singleton
<1>. DEFINE rest == On(f, DOMAIN f \ {x})
<1>2. SumOf(f) = f[x] + SumOf(rest)
  BY <1>1, SumSplits
<1>3. DOMAIN rest = {}
  BY DEF On
<1>. HIDE DEF rest
<1>4. SumOf(rest) = 0
  BY <1>3, SumEmpty
<1>. QED BY <1>2, <1>4

\* A sum of what is not negative is no less than any of it.
LEMMA SumNat ==
  ASSUME NEW f, IsFiniteSet(DOMAIN f), \A x \in DOMAIN f : f[x] \in Nat
  PROVE  SumOf(f) \in Nat
<1>. DEFINE D == DOMAIN f
            sum == Partial(f)
            Good == {S \in SUBSET D : sum[S] \in Nat}
<1>1. \A S \in SUBSET D : Adds(f, sum, S)
  BY PartialSums
<1>. HIDE DEF sum
<1>2. ASSUME NEW S \in SUBSET D, \A x \in S : S \ {x} \in Good PROVE S \in Good
  <2>1. Adds(f, sum, S)
    BY <1>1
  <2>2. CASE S = {}
    <3>1. sum[S] = 0
      BY <2>1, <2>2 DEF Adds
    <3>. QED BY <3>1
  <2>3. CASE S # {}
    <3>1. Some(S) \in S
      BY <2>3, SomeIsIn
    <3>2. f[Some(S)] \in Nat /\ sum[S \ {Some(S)}] \in Nat
      BY <1>2, <3>1
    <3>3. sum[S] = f[Some(S)] + sum[S \ {Some(S)}]
      BY <2>1, <2>3 DEF Adds
    <3>. QED BY <3>2, <3>3
  <2>. QED BY <2>2, <2>3
<1>. HIDE DEF Good
<1>3. \A S \in SUBSET D : S \in Good
  BY <1>2, PartByPart
<1>. QED BY <1>3, SumIsPartial DEF Good, sum

LEMMA SumAtLeast ==
  ASSUME NEW f, IsFiniteSet(DOMAIN f), \A x \in DOMAIN f : f[x] \in Nat, NEW x \in DOMAIN f
  PROVE  SumOf(f) >= f[x]
<1>. DEFINE rest == On(f, DOMAIN f \ {x})
<1>1. SumOf(f) = f[x] + SumOf(rest)
  BY SumSplits
<1>2. IsFiniteSet(DOMAIN rest) /\ \A y \in DOMAIN rest : rest[y] \in Nat
  BY FS_RemoveElement DEF On
<1>3. SumOf(rest) \in Nat
  BY <1>2, SumNat
<1>. QED BY <1>1, <1>3

\* A part of what is not negative sums up to no more than all of it.
LEMMA SumOfPart ==
  ASSUME NEW f, IsFiniteSet(DOMAIN f), \A x \in DOMAIN f : f[x] \in Nat, NEW S \in SUBSET DOMAIN f
  PROVE  SumOf(On(f, S)) <= SumOf(f)
<1>. DEFINE D == DOMAIN f
            sum == Partial(f)
            Good == {R \in SUBSET D : \A T \in SUBSET R : sum[T] <= sum[R]}
<1>1. \A x \in D : f[x] \in Int
  OBVIOUS
<1>2. \A R \in SUBSET D : sum[R] \in Int /\ \A x \in R : sum[R] = f[x] + sum[R \ {x}]
  BY <1>1, PartialSums, PartialSplits
<1>3. SumOf(f) = sum[D] /\ SumOf(On(f, S)) = sum[S]
  BY <1>1, SumIsPartial, PartialOn
<1>. HIDE DEF sum
<1>4. ASSUME NEW R \in SUBSET D, \A x \in R : R \ {x} \in Good PROVE R \in Good
  <2>1. ASSUME NEW T \in SUBSET R PROVE sum[T] <= sum[R]
    <3>1. CASE T = R
      BY <1>2, <3>1
    <3>2. CASE T # R
      <4>1. PICK x \in R : x \notin T
        BY <3>2
      <4>2. T \in SUBSET (R \ {x}) /\ R \ {x} \in Good
        BY <1>4, <4>1
      <4>3. sum[T] <= sum[R \ {x}]
        BY <4>2
      <4>4. sum[R] = f[x] + sum[R \ {x}] /\ f[x] \in Nat /\ sum[T] \in Int /\ sum[R \ {x}] \in Int
        BY <1>2, <4>1
      <4>. HIDE DEF Good
      <4>. QED BY <4>3, <4>4
    <3>. QED BY <3>1, <3>2
  <2>. QED BY <2>1
<1>5. \A R \in SUBSET D : R \in Good
  <2>. HIDE DEF Good
  <2>. QED BY <1>4, PartByPart
<1>6. D \in Good
  BY <1>5
<1>. QED BY <1>3, <1>6

-----------------------------------------------------------------------------
\* Ranked lists: a ranking of S is a sequence of entries of S that holds nothing twice.
Entries(S) == [p : S, score : Int]
Rankings(S) == {r \in Seq(Entries(S)) : \A i, j \in 1 .. Len(r) : r[i].p = r[j].p => i = j}

\* What a function maps a finite set to is finite.
LEMMA ValuesAreFinite ==
  ASSUME NEW S, IsFiniteSet(S), NEW f, NEW T, T = {f[x] : x \in S}
  PROVE  IsFiniteSet(T) /\ Cardinality(T) <= Cardinality(S)
<1>. DEFINE g == [x \in S |-> f[x]]
<1>1. g \in Surjection(S, T)
  BY DEF Surjection
<1>. QED BY <1>1, FS_Surjection

LEMMA GreatestOfFinite ==
  ASSUME NEW T \in SUBSET Int, IsFiniteSet(T), T # {}
  PROVE  Max(T) \in T /\ \A k \in T : k <= Max(T)
<1>. DEFINE n == Cardinality(T)
<1>1. /\ n \in Nat /\ Ascending(T) \in [1 .. n -> T]
      /\ \A x \in T : \E k \in 1 .. n : Ascending(T)[k] = x
      /\ \A i, j \in 1 .. n : i < j => Ascending(T)[i] < Ascending(T)[j]
  BY AscendingRises
<1>2. n \in Nat /\ n # 0
  BY <1>1, FS_EmptySet
<1>. HIDE DEF n
<1>. DEFINE top == Ascending(T)[n]
<1>3. n \in 1 .. n /\ top \in T
  BY <1>1, <1>2
<1>4. ASSUME NEW x \in T PROVE x <= top
  <2>1. PICK k \in 1 .. n : Ascending(T)[k] = x
    BY <1>1
  <2>2. k = n \/ k < n
    BY <1>2
  <2>3. x \in Int /\ top \in Int
    BY <1>3
  <2>. QED BY <1>1, <1>3, <2>1, <2>2, <2>3
<1>. HIDE DEF top
<1>. QED BY <1>3, <1>4 DEF Max

LEMMA LeastOfFinite ==
  ASSUME NEW T \in SUBSET Int, IsFiniteSet(T), T # {}
  PROVE  Min(T) \in T /\ \A k \in T : Min(T) <= k
<1>. DEFINE n == Cardinality(T)
<1>1. /\ n \in Nat /\ Ascending(T) \in [1 .. n -> T]
      /\ \A x \in T : \E k \in 1 .. n : Ascending(T)[k] = x
      /\ \A i, j \in 1 .. n : i < j => Ascending(T)[i] < Ascending(T)[j]
  BY AscendingRises
<1>2. n \in Nat /\ n # 0
  BY <1>1, FS_EmptySet
<1>. HIDE DEF n
<1>. DEFINE low == Ascending(T)[1]
<1>3. 1 \in 1 .. n /\ low \in T
  BY <1>1, <1>2
<1>4. ASSUME NEW x \in T PROVE low <= x
  <2>1. PICK k \in 1 .. n : Ascending(T)[k] = x
    BY <1>1
  <2>2. k = 1 \/ 1 < k
    BY <1>2
  <2>3. x \in Int /\ low \in Int
    BY <1>3
  <2>. QED BY <1>1, <1>3, <2>1, <2>2, <2>3
<1>. HIDE DEF low
<1>. QED BY <1>3, <1>4 DEF Min

\* Numbers 1 .. n that go to different places among m are no more than m.
LEMMA NoMoreThanPlaces ==
  ASSUME NEW n \in Nat, NEW T, IsFiniteSet(T), NEW f \in [1 .. n -> T],
         \A i, j \in 1 .. n : f[i] = f[j] => i = j
  PROVE  n <= Cardinality(T)
<1>1. f \in Injection(1 .. n, T)
  BY DEF Injection, IsInjective
<1>2. Cardinality(1 .. n) = n
  BY FS_Interval
<1>. QED BY <1>1, <1>2, FS_Injection

LEMMA FiniteLists ==
  ASSUME NEW E, NEW s \in Seq(E)
  PROVE  /\ Len(s) \in Nat /\ DOMAIN s = 1 .. Len(s) /\ IsFiniteSet(DOMAIN s)
         /\ \A i \in 1 .. Len(s) : s[i] \in E
         /\ IsFiniteSet(ToSet(s)) /\ ToSet(s) \subseteq E
<1>1. Len(s) \in Nat /\ DOMAIN s = 1 .. Len(s) /\ \A i \in 1 .. Len(s) : s[i] \in E
  OBVIOUS
<1>2. IsFiniteSet(DOMAIN s)
  BY <1>1, FS_Interval
<1>3. ToSet(s) = {s[i] : i \in DOMAIN s}
  BY DEF ToSet
<1>4. IsFiniteSet(ToSet(s))
  BY <1>2, <1>3, ValuesAreFinite
<1>. QED BY <1>1, <1>2, <1>3, <1>4

LEMMA TakeIs ==
  ASSUME NEW E, NEW s \in Seq(E), NEW n \in Nat
  PROVE  /\ Take(s, n) \in Seq(E)
         /\ Len(Take(s, n)) = (IF n <= Len(s) THEN n ELSE Len(s))
         /\ \A i \in 1 .. Len(Take(s, n)) : Take(s, n)[i] = s[i]
<1>. DEFINE m == Min({n, Len(s)})
<1>1. Len(s) \in Nat
  OBVIOUS
<1>2. m = (IF n <= Len(s) THEN n ELSE Len(s))
  BY <1>1, OfTwo
<1>. HIDE DEF m
<1>3. m \in Nat /\ m <= Len(s) /\ Take(s, n) = SubSeq(s, 1, m)
  BY <1>1, <1>2 DEF Take, m
<1>4. SubSeq(s, 1, m) \in Seq(E) /\ Len(SubSeq(s, 1, m)) = m
      /\ \A i \in 1 .. m : SubSeq(s, 1, m)[i] = s[i]
  BY <1>1, <1>3
<1>. QED BY <1>2, <1>3, <1>4

\* Ranked puts all of S in order of score, equal scores in the order of their keys.
RankedBy(r, S, score, key) ==
  /\ r \in Rankings(S)
  /\ \A i \in 1 .. Len(r) : r[i].score = score[r[i].p]
  /\ \A x \in S : \E i \in 1 .. Len(r) : r[i].p = x
  /\ \A i, j \in 1 .. Len(r) : i < j =>
       \/ score[r[i].p] > score[r[j].p]
       \/ score[r[i].p] = score[r[j].p] /\ key[r[i].p] < key[r[j].p]
LEMMA RankedIs ==
  ASSUME NEW S, IsFiniteSet(S), NEW score, \A x \in S : score[x] \in Int,
         NEW key, \A x \in S : key[x] \in Int, \A x, y \in S : key[x] = key[y] => x = y
  PROVE  RankedBy(Ranked(S, score, key), S, score, key)
<1>. DEFINE better == {e \in S \X S : \/ score[e[1]] > score[e[2]]
                                      \/ score[e[1]] = score[e[2]] /\ key[e[1]] < key[e[2]]}
            order == InOrder(S, better)
            n == Cardinality(S)
            r == Ranked(S, score, key)
<1>1. \A x, y \in S : <<x, y>> \in better <=> \/ score[x] > score[y]
                                              \/ score[x] = score[y] /\ key[x] < key[y]
  OBVIOUS
<1>. HIDE DEF better
<1>2. TotalOrder(S, better)
  BY <1>1 DEF TotalOrder
<1>3. /\ n \in Nat /\ order \in [1 .. n -> S]
      /\ \A x \in S : \E k \in 1 .. n : order[k] = x
      /\ \A i, j \in 1 .. n : i < j => <<order[i], order[j]>> \in better
  BY <1>2, OrderIsComplete
<1>4. r = [k \in DOMAIN order |-> [p |-> order[k], score |-> score[order[k]]]]
  BY DEF Ranked, better
<1>. HIDE DEF order, n, r
<1>5. r = [k \in 1 .. n |-> [p |-> order[k], score |-> score[order[k]]]]
  BY <1>3, <1>4
<1>6. \A k \in 1 .. n : order[k] \in S /\ score[order[k]] \in Int
  BY <1>3
<1>7. r \in [1 .. n -> Entries(S)]
  BY <1>5, <1>6 DEF Entries
<1>8. r \in Seq(Entries(S)) /\ Len(r) = n
  BY <1>3, <1>7
<1>9. \A i \in 1 .. n : r[i].p = order[i] /\ r[i].score = score[order[i]]
  BY <1>5
<1>10. ASSUME NEW i \in 1 .. n, NEW j \in 1 .. n, i < j
       PROVE  /\ \/ score[order[i]] > score[order[j]]
                 \/ score[order[i]] = score[order[j]] /\ key[order[i]] < key[order[j]]
              /\ order[i] # order[j]
  <2>1. order[i] \in S /\ order[j] \in S /\ <<order[i], order[j]>> \in better
    BY <1>3, <1>10
  <2>. QED BY <1>1, <2>1
<1>11. ASSUME NEW i \in 1 .. n, NEW j \in 1 .. n, order[i] = order[j] PROVE i = j
  <2>1. i \in Int /\ j \in Int /\ (i = j \/ i < j \/ j < i)
    BY <1>3
  <2>. QED BY <1>10, <1>11, <2>1
<1>12. r \in Rankings(S)
  BY <1>8, <1>9, <1>11 DEF Rankings
<1>. QED BY <1>3, <1>8, <1>9, <1>10, <1>12 DEF RankedBy, r

LEMMA RankingFacts ==
  ASSUME NEW S, NEW r \in Rankings(S)
  PROVE  /\ r \in Seq(Entries(S)) /\ Len(r) \in Nat /\ DOMAIN r = 1 .. Len(r)
         /\ \A i \in 1 .. Len(r) : r[i] \in Entries(S) /\ r[i].p \in S /\ r[i].score \in Int
         /\ \A i, j \in 1 .. Len(r) : r[i].p = r[j].p => i = j
         /\ \A x \in Members(r) : x \in S /\ \E i \in 1 .. Len(r) : r[i].p = x
         /\ \A i \in 1 .. Len(r) : r[i].p \in Members(r)
<1>1. r \in Seq(Entries(S)) /\ \A i, j \in 1 .. Len(r) : r[i].p = r[j].p => i = j
  BY DEF Rankings
<1>2. Len(r) \in Nat /\ DOMAIN r = 1 .. Len(r) /\ \A i \in 1 .. Len(r) : r[i] \in Entries(S)
  BY <1>1, FiniteLists
<1>3. \A i \in 1 .. Len(r) : r[i].p \in S /\ r[i].score \in Int
  BY <1>2 DEF Entries
<1>. QED BY <1>1, <1>2, <1>3 DEF Members

LEMMA RankingsGrow ==
  ASSUME NEW T, NEW S \in SUBSET T, NEW r \in Rankings(S)
  PROVE  r \in Rankings(T)
<1>1. Entries(S) \subseteq Entries(T)
  BY DEF Entries
<1>2. r \in Seq(Entries(S)) /\ \A i, j \in 1 .. Len(r) : r[i].p = r[j].p => i = j
  BY DEF Rankings
<1>3. r \in Seq(Entries(T))
  BY <1>1, <1>2
<1>. QED BY <1>2, <1>3 DEF Rankings

LEMMA TakeKeepsRankings ==
  ASSUME NEW S, NEW r \in Rankings(S), NEW n \in Nat
  PROVE  /\ Take(r, n) \in Rankings(S)
         /\ Len(Take(r, n)) = (IF n <= Len(r) THEN n ELSE Len(r))
         /\ \A i \in 1 .. Len(Take(r, n)) : i \in 1 .. Len(r) /\ Take(r, n)[i] = r[i]
<1>1. r \in Seq(Entries(S)) /\ Len(r) \in Nat /\ \A i, j \in 1 .. Len(r) : r[i].p = r[j].p => i = j
  BY RankingFacts
<1>2. /\ Take(r, n) \in Seq(Entries(S))
      /\ Len(Take(r, n)) = (IF n <= Len(r) THEN n ELSE Len(r))
      /\ \A i \in 1 .. Len(Take(r, n)) : Take(r, n)[i] = r[i]
  BY <1>1, TakeIs
<1>3. \A i \in 1 .. Len(Take(r, n)) : i \in 1 .. Len(r)
  BY <1>1, <1>2
<1>. QED BY <1>1, <1>2, <1>3 DEF Rankings

LEMMA TakenMembers ==
  ASSUME NEW S, NEW r \in Rankings(S), NEW n \in Nat
  PROVE  /\ Members(Take(r, n)) \subseteq S
         /\ Len(r) <= n => Members(r) \subseteq Members(Take(r, n))
         /\ r # << >> /\ n >= 1 => r[1].p \in Members(Take(r, n))
<1>. DEFINE t == Take(r, n)
            m == Len(r)
<1>1. /\ t \in Rankings(S) /\ Len(t) = (IF n <= m THEN n ELSE m)
      /\ \A i \in 1 .. Len(t) : i \in 1 .. m /\ t[i] = r[i]
  BY TakeKeepsRankings
<1>2. /\ r \in Seq(Entries(S)) /\ m \in Nat /\ \A x \in Members(r) : \E i \in 1 .. m : r[i].p = x
  BY RankingFacts
<1>. HIDE DEF t
<1>3. /\ \A i \in 1 .. Len(t) : t[i].p \in Members(t)
      /\ \A x \in Members(t) : x \in S
  BY <1>1, RankingFacts
<1>4. r # << >> => m # 0
  BY <1>2, EmptySeq
<1>. HIDE DEF m
<1>5. ASSUME m <= n, NEW x \in Members(r) PROVE x \in Members(t)
  <2>1. PICK i \in 1 .. m : r[i].p = x
    BY <1>2
  <2>2. i \in 1 .. Len(t)
    BY <1>1, <1>2, <1>5
  <2>. QED BY <1>1, <1>3, <2>1, <2>2
<1>6. ASSUME m # 0, n >= 1 PROVE r[1].p \in Members(t)
  <2>1. 1 \in 1 .. Len(t)
    BY <1>1, <1>2, <1>6
  <2>. QED BY <1>1, <1>3, <2>1
<1>. QED BY <1>3, <1>4, <1>5, <1>6 DEF m, t
=============================================================================
