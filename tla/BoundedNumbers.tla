--------------------------- MODULE BoundedNumbers ---------------------------
(***************************************************************************)
(* Facts about numbers up to a bound.  That a nonempty set of them has a   *)
(* least element is proved through initial segments, because the           *)
(* least-number principle of the library takes an operator.                *)
(***************************************************************************)
EXTENDS Integers, FiniteSetTheorems, WellFoundedInduction, TLAPS

\* The least element of a set of numbers up to n.
LEMMA LeastNatural ==
  ASSUME NEW n \in Nat, NEW T \in SUBSET (0 .. n), T # {}
  PROVE  \E x \in T : \A y \in T : x <= y
<1> DEFINE R == StrictSubsetOrdering(0 .. n)
           Segments == {0 .. x : x \in T}
<1>1. IsFiniteSet(0 .. n)
  BY FS_Interval
<1>2. IsWellFoundedOn(R, SUBSET (0 .. n))
  BY <1>1, FS_StrictSubsetOrderingWellFounded, FS_FiniteSubsetsOfFinite
<1>3. Segments \subseteq SUBSET (0 .. n) /\ Segments # {}
  <2>1. \A x \in T : x \in 0 .. n
    OBVIOUS
  <2>2. \A x \in 0 .. n : 0 .. x \subseteq 0 .. n
    OBVIOUS
  <2>3. \A x \in T : 0 .. x \subseteq 0 .. n
    BY <2>1, <2>2
  <2>4. PICK x \in T : TRUE
    OBVIOUS
  <2>5. 0 .. x \in Segments
    OBVIOUS
  <2>6. QED BY <2>3, <2>5
<1>4. \E X \in Segments : \A Y \in Segments : ~ (<<Y, X>> \in R)
  <2> HIDE DEF R, Segments
  <2>1. QED BY <1>2, <1>3, WFMin
<1>5. PICK x \in T : \A Y \in Segments : ~ (<<Y, 0 .. x>> \in R)
  BY <1>4
<1>6. ASSUME NEW y \in T, ~(x <= y) PROVE FALSE
  <2>1. y \in 0 .. n /\ x \in 0 .. n /\ y < x
    BY <1>6
  <2>2. 0 .. y \subseteq 0 .. x /\ x \in 0 .. x /\ x \notin 0 .. y
    BY <2>1
  <2>3. 0 .. y \in SUBSET (0 .. n) /\ 0 .. x \in SUBSET (0 .. n)
    BY <2>1
  <2>4. <<0 .. y, 0 .. x>> \in R
    BY <2>2, <2>3 DEF StrictSubsetOrdering
  <2>5. QED BY <1>5, <1>6, <2>4
<1>7. QED BY <1>6

\* The greatest element of a set of numbers up to n.
LEMMA GreatestNatural ==
  ASSUME NEW n \in Nat, NEW T \in SUBSET (0 .. n), T # {}
  PROVE  \E x \in T : \A y \in T : x >= y
<1> DEFINE Mirror == {n - x : x \in T}
<1>1. \A x \in T : x \in 0 .. n /\ n - x \in 0 .. n
  OBVIOUS
<1>2. Mirror \in SUBSET (0 .. n) /\ Mirror # {}
  BY <1>1
<1>3. \E m \in Mirror : \A k \in Mirror : m <= k
  <2> HIDE DEF Mirror
  <2>1. QED BY <1>2, LeastNatural
<1>4. PICK x \in T : \A k \in Mirror : n - x <= k
  BY <1>3
<1>5. \A y \in T : n - x <= n - y
  BY <1>4
<1>6. \A y \in T : x >= y
  BY <1>1, <1>5
<1>7. QED BY <1>6

\* A strictly increasing map of an initial segment into itself moves nothing.
LEMMA IncreasingIsIdentity ==
  ASSUME NEW n \in Nat, NEW f \in [1 .. n -> 1 .. n],
         \A i, j \in 1 .. n : i < j => f[i] < f[j]
  PROVE  \A i \in 1 .. n : f[i] = i
<1> DEFINE Below == {i \in 1 .. n : f[i] < i}
           Above == {i \in 1 .. n : f[i] > i}
<1>1. \A i \in 1 .. n : f[i] \in 1 .. n
  OBVIOUS
<1>2. Below = {}
  <2>1. SUFFICES ASSUME Below # {} PROVE FALSE
    OBVIOUS
  <2>2. Below \in SUBSET (0 .. n)
    OBVIOUS
  <2>3. PICK m \in Below : \A y \in Below : m <= y
    <3> HIDE DEF Below
    <3>1. QED BY <2>1, <2>2, LeastNatural
  <2>4. m \in 1 .. n /\ f[m] \in 1 .. n /\ f[m] < m
    BY <1>1
  <2>5. f[f[m]] < f[m]
    BY <2>4
  <2>6. f[m] \in Below
    BY <2>4, <2>5
  <2>7. m <= f[m]
    BY <2>3, <2>6
  <2>8. QED BY <2>4, <2>7
<1>3. Above = {}
  <2>1. SUFFICES ASSUME Above # {} PROVE FALSE
    OBVIOUS
  <2>2. Above \in SUBSET (0 .. n)
    OBVIOUS
  <2>3. PICK m \in Above : \A y \in Above : m >= y
    <3> HIDE DEF Above
    <3>1. QED BY <2>1, <2>2, GreatestNatural
  <2>4. m \in 1 .. n /\ f[m] \in 1 .. n /\ f[m] > m
    BY <1>1
  <2>5. f[f[m]] > f[m]
    BY <2>4
  <2>6. f[m] \in Above
    BY <2>4, <2>5
  <2>7. m >= f[m]
    BY <2>3, <2>6
  <2>8. QED BY <2>4, <2>7
<1>4. QED
  <2>1. TAKE i \in 1 .. n
  <2>2. ~(f[i] < i) /\ ~(f[i] > i)
    BY <1>2, <1>3
  <2>3. QED BY <1>1, <2>2
=============================================================================
