------------------------------ MODULE Counting ------------------------------
(***************************************************************************)
(* Finite sets: the smallest and the largest number of one, induction, and *)
(* sums, as Min, Max and MapThenSumSet of FiniteSetsExt define them.       *)
(***************************************************************************)
EXTENDS Integers, FiniteSetsExt, FiniteSetTheorems, WellFoundedInduction, TLAPS

-----------------------------------------------------------------------------
(* Extremes *)

Less == {pair \in Nat \X Nat : pair[1] < pair[2]}
LEMMA LessIsWellFounded == IsWellFoundedOn(Less, Nat)
  BY NatLessThanWellFounded, Zenon DEF OpToRel, Less

LEMMA Smallest ==
    ASSUME NEW S, S \subseteq Nat, S # {}
    PROVE  \E x \in S : \A y \in S : x <= y
<1>1. PICK x \in S : \A y \in S : <<y, x>> \notin Less
  BY LessIsWellFounded, WFMin
<1>2. \A y \in S : y < x => <<y, x>> \in Less
  BY DEF Less
<1>3. \A y \in S : y \in Nat /\ x \in Nat /\ ~(y < x)
  BY <1>1, <1>2
<1> QED
  BY <1>3

LEMMA MinIsIn ==
    ASSUME NEW S, S \subseteq Nat, S # {}
    PROVE  Min(S) \in S /\ \A y \in S : Min(S) <= y
  BY Smallest DEF Min

LEMMA MaxIsIn ==
    ASSUME NEW n \in Nat, NEW S \in SUBSET (0 .. n), S # {}
    PROVE  Max(S) \in S /\ \A y \in S : y <= Max(S)
<1> DEFINE T == {n - y : y \in S}
<1>1. \A y \in S : y \in Nat /\ n - y \in Nat
  OBVIOUS
<1>2. T \subseteq Nat /\ T # {}
  BY <1>1
<1>3. PICK t \in T : \A u \in T : t <= u
  <2> HIDE DEF T
  <2> QED
    BY <1>2, Smallest
<1>4. PICK x \in S : t = n - x
  OBVIOUS
<1>5. \A y \in S : n - y \in T
  OBVIOUS
<1>6. \A y \in S : x >= y
  BY <1>1, <1>3, <1>4, <1>5
<1>7. \E z \in S : \A y \in S : z >= y
  BY <1>6
<1>8. Max(S) \in S /\ \A y \in S : Max(S) >= y
  BY <1>7 DEF Max
<1> QED
  BY <1>1, <1>8

-----------------------------------------------------------------------------
(* Induction, with the set of those that have the property for a parameter *)

LEMMA UpwardInduction ==
    ASSUME NEW G, 0 \in G, \A n \in Nat : n \in G => n + 1 \in G
    PROVE  Nat \subseteq G
<1> SUFFICES ASSUME Nat \ G # {} PROVE FALSE
  OBVIOUS
<1>1. PICK n \in Nat \ G : \A k \in Nat \ G : n <= k
  <2> DEFINE B == Nat \ G
  <2>1. B \subseteq Nat /\ B # {}
    OBVIOUS
  <2> HIDE DEF B
  <2>2. \E x \in B : \A y \in B : x <= y
    BY <2>1, Smallest
  <2> QED
    BY <2>2 DEF B
<1>2. n - 1 \in Nat
  BY <1>1
<1>3. n - 1 \in G
  BY <1>1, <1>2
<1>4. n - 1 + 1 \in G /\ n - 1 + 1 = n
  BY <1>2, <1>3
<1> QED
  BY <1>1, <1>4

LEMMA SetInduction ==
    ASSUME NEW S, IsFiniteSet(S), NEW G, {} \in G,
           \A T \in SUBSET S : T # {} /\ (\A x \in T : T \ {x} \in G) => T \in G
    PROVE  SUBSET S \subseteq G
<1> DEFINE N == {n \in Nat : \A T \in SUBSET S : Cardinality(T) = n => T \in G}
<1>1. \A T \in SUBSET S : IsFiniteSet(T) /\ Cardinality(T) \in Nat
  BY FS_Subset, FS_CardinalityType
<1>2. 0 \in N
  BY <1>1, FS_EmptySet
<1>3. ASSUME NEW n \in Nat, n \in N PROVE n + 1 \in N
  <2> SUFFICES ASSUME NEW T \in SUBSET S, Cardinality(T) = n + 1 PROVE T \in G
    OBVIOUS
  <2>1. T # {}
    BY <1>1, FS_EmptySet
  <2>2. ASSUME NEW x \in T PROVE T \ {x} \in G
    <3>1. Cardinality(T \ {x}) = n + 1 - 1
      BY <1>1, FS_RemoveElement
    <3> QED
      BY <1>3, <3>1
  <2> QED
    BY <2>1, <2>2
<1>4. Nat \subseteq N
  <2> HIDE DEF N
  <2> QED
    BY <1>2, <1>3, UpwardInduction
<1> QED
  BY <1>1, <1>4

LEMMA ProductOrder ==
    ASSUME NEW q \in Nat, NEW a \in Int, NEW b \in Int, a <= b
    PROVE  /\ q * a \in Int /\ q * b \in Int /\ q * a <= q * b
           /\ q * (a + 1) = q * a + q
  OBVIOUS

-----------------------------------------------------------------------------
(* Sums *)

Pick(s) == CHOOSE x \in s : TRUE

(* The function that MapThenSumSet defines recursively.                    *)
Adds(f, S, g) ==
    g = [s \in SUBSET S |-> IF s = {} THEN 0 ELSE f[Pick(s)] + g[s \ {Pick(s)}]]
Sum(f, S) == MapThenSumSet(LAMBDA x : f[x], S)

LEMMA SumIsChosen == ASSUME NEW f, NEW S PROVE Sum(f, S) = (CHOOSE g : Adds(f, S, g))[S]
  BY DEF Sum, MapThenSumSet, MapThenFoldSet, Adds, Pick

LEMMA PickIsIn == \A s : s # {} => Pick(s) \in s
  BY DEF Pick

LEMMA AddsExists ==
    ASSUME NEW f, NEW S, IsFiniteSet(S)
    PROVE  \E g : Adds(f, S, g)
<1> DEFINE Small(n) == {s \in SUBSET S : Cardinality(s) <= n}
           Partial(g, n) ==
              g = [s \in Small(n) |-> IF s = {} THEN 0 ELSE f[Pick(s)] + g[s \ {Pick(s)}]]
           N == {n \in Nat : \E g : Partial(g, n)}
<1>1. \A s \in SUBSET S : IsFiniteSet(s) /\ Cardinality(s) \in Nat
  BY FS_Subset, FS_CardinalityType
<1>2. \A s \in SUBSET S : \A n \in Nat :
          Cardinality(s) <= n + 1 /\ s # {} => s \ {Pick(s)} \in Small(n)
  <2> SUFFICES ASSUME NEW s \in SUBSET S, NEW n \in Nat, Cardinality(s) <= n + 1, s # {}
               PROVE  s \ {Pick(s)} \in Small(n)
    OBVIOUS
  <2>1. Cardinality(s \ {Pick(s)}) = Cardinality(s) - 1
    BY <1>1, PickIsIn, FS_RemoveElement
  <2> QED
    BY <1>1, <2>1
<1>3. 0 \in N
  <2> DEFINE g == [s \in Small(0) |-> 0]
  <2>1. \A s \in Small(0) : s = {}
    BY <1>1, FS_EmptySet
  <2>2. Partial(g, 0)
    BY <2>1
  <2> QED
    BY <2>2
<1>4. ASSUME NEW n \in Nat, n \in N PROVE n + 1 \in N
  <2>1. PICK g : Partial(g, n)
    BY <1>4
  <2> DEFINE g1 == [s \in Small(n + 1) |->
                      IF s = {} THEN 0 ELSE f[Pick(s)] + g[s \ {Pick(s)}]]
  <2>2. ASSUME NEW s \in Small(n) PROVE g1[s] = g[s]
    <3>1. s \in Small(n + 1)
      BY <1>1
    <3>2. g[s] = IF s = {} THEN 0 ELSE f[Pick(s)] + g[s \ {Pick(s)}]
      BY <2>1
    <3> QED
      BY <3>1, <3>2
  <2>3. \A s \in Small(n + 1) : s # {} => g1[s \ {Pick(s)}] = g[s \ {Pick(s)}]
    BY <1>2, <2>2
  <2>4. Partial(g1, n + 1)
    <3>1. \A s \in Small(n + 1) :
             (IF s = {} THEN 0 ELSE f[Pick(s)] + g[s \ {Pick(s)}])
               = (IF s = {} THEN 0 ELSE f[Pick(s)] + g1[s \ {Pick(s)}])
      BY <2>3
    <3> QED
      BY <3>1
  <2> HIDE DEF g1, Partial
  <2> QED
    BY <2>4
<1>5. Nat \subseteq N
  <2> HIDE DEF N
  <2> QED
    BY <1>3, <1>4, UpwardInduction
<1>6. PICK g : Partial(g, Cardinality(S))
  BY <1>1, <1>5
<1>7. Small(Cardinality(S)) = SUBSET S
  BY <1>1, FS_Subset
<1>8. Adds(f, S, g)
  BY <1>6, <1>7 DEF Adds
<1> QED
  BY <1>8

(* A sum depends only on what is summed.                                   *)
LEMMA AddsUnique ==
    ASSUME NEW S, IsFiniteSet(S), NEW f, NEW f1, NEW g, NEW g1, NEW T, NEW T1,
           Adds(f, T, g), Adds(f1, T1, g1), S \subseteq T, S \subseteq T1,
           \A x \in S : f[x] = f1[x]
    PROVE  g[S] = g1[S]
<1> DEFINE G == {s \in SUBSET S : g[s] = g1[s]}
<1>1. \A s \in SUBSET S :
          /\ g[s] = IF s = {} THEN 0 ELSE f[Pick(s)] + g[s \ {Pick(s)}]
          /\ g1[s] = IF s = {} THEN 0 ELSE f1[Pick(s)] + g1[s \ {Pick(s)}]
  <2>1. \A s \in SUBSET S : s \in SUBSET T /\ s \in SUBSET T1
    OBVIOUS
  <2> QED
    BY <2>1 DEF Adds
<1>2. {} \in G
  BY <1>1
<1>3. ASSUME NEW s \in SUBSET S, s # {}, \A x \in s : s \ {x} \in G PROVE s \in G
  <2>1. Pick(s) \in s /\ Pick(s) \in S
    BY <1>3, PickIsIn
  <2>2. g[s \ {Pick(s)}] = g1[s \ {Pick(s)}]
    BY <1>3, <2>1
  <2> QED
    BY <1>1, <1>3, <2>1, <2>2
<1> HIDE DEF G
<1>4. S \in G
  BY <1>2, <1>3, SetInduction
<1> QED
  BY <1>4 DEF G

LEMMA SumStep ==
    ASSUME NEW S, IsFiniteSet(S), NEW f
    PROVE  Sum(f, S) = IF S = {} THEN 0 ELSE f[Pick(S)] + Sum(f, S \ {Pick(S)})
<1>1. PICK g : Adds(f, S, g) /\ Sum(f, S) = g[S]
  BY AddsExists, SumIsChosen
<1>2. g[S] = IF S = {} THEN 0 ELSE f[Pick(S)] + g[S \ {Pick(S)}]
  BY <1>1 DEF Adds
<1> DEFINE R == S \ {Pick(S)}
<1>3. R \subseteq S /\ IsFiniteSet(R)
  BY FS_Subset
<1> HIDE DEF R
<1>4. PICK g1 : Adds(f, R, g1) /\ Sum(f, R) = g1[R]
  BY <1>3, AddsExists, SumIsChosen
<1>5. g[R] = g1[R]
  BY <1>1, <1>3, <1>4, AddsUnique
<1> QED
  BY <1>1, <1>2, <1>4, <1>5 DEF R

LEMMA SumEqual ==
    ASSUME NEW S, IsFiniteSet(S), NEW f, NEW g, \A x \in S : f[x] = g[x]
    PROVE  Sum(f, S) = Sum(g, S)
<1>1. PICK h : Adds(f, S, h) /\ Sum(f, S) = h[S]
  BY AddsExists, SumIsChosen
<1>2. PICK h1 : Adds(g, S, h1) /\ Sum(g, S) = h1[S]
  BY AddsExists, SumIsChosen
<1> QED
  BY <1>1, <1>2, AddsUnique

(* Any element may be taken first.                                         *)
LEMMA SumRemove ==
    ASSUME NEW S, IsFiniteSet(S), NEW f, \A x \in S : f[x] \in Int
    PROVE  /\ Sum(f, S) \in Int
           /\ S = {} => Sum(f, S) = 0
           /\ \A x \in S : Sum(f, S) = f[x] + Sum(f, S \ {x}) /\ Sum(f, S \ {x}) \in Int
<1> DEFINE G == {s \in SUBSET S : /\ Sum(f, s) \in Int
                                 /\ \A x \in s : /\ Sum(f, s) = f[x] + Sum(f, s \ {x})
                                                  /\ Sum(f, s \ {x}) \in Int}
<1>1. \A s \in SUBSET S :
        IsFiniteSet(s) /\ Sum(f, s) = IF s = {} THEN 0 ELSE f[Pick(s)] + Sum(f, s \ {Pick(s)})
  BY FS_Subset, SumStep
<1>2. {} \in G
  <2>1. Sum(f, {}) = 0
    BY <1>1
  <2> QED
    BY <2>1
<1>3. ASSUME NEW s \in SUBSET S, s # {}, \A x \in s : s \ {x} \in G PROVE s \in G
  <2> DEFINE p == Pick(s)
             Part(x) == Sum(f, s \ {x})
  <2>1. p \in s
    BY <1>3, PickIsIn
  <2>2. \A x \in s : f[x] \in Int /\ Part(x) \in Int
    BY <1>3
  <2>3. Sum(f, s) = f[p] + Part(p)
    BY <1>1, <1>3
  <2>4. ASSUME NEW x \in s PROVE Sum(f, s) = f[x] + Part(x)
    <3>1. CASE x = p
      BY <2>3, <3>1
    <3>2. CASE x # p
      <4> DEFINE rest == Sum(f, (s \ {x}) \ {p})
      <4>1. (s \ {x}) \ {p} = (s \ {p}) \ {x}
        OBVIOUS
      <4>2. Part(x) = f[p] + rest
        <5>1. s \ {x} \in G /\ p \in s \ {x}
          BY <1>3, <2>1, <3>2
        <5> QED
          BY <5>1
      <4>3. Part(p) = f[x] + rest
        <5>1. s \ {p} \in G /\ x \in s \ {p}
          BY <1>3, <2>1, <3>2
        <5> QED
          BY <4>1, <5>1
      <4>4. rest \in Int
        <5>1. s \ {x} \in G /\ p \in s \ {x}
          BY <1>3, <2>1, <3>2
        <5> QED
          BY <5>1
      <4> QED
        BY <2>1, <2>2, <2>3, <4>2, <4>3, <4>4
    <3> QED
      BY <3>1, <3>2
  <2> QED
    BY <2>1, <2>2, <2>3, <2>4
<1> HIDE DEF G
<1>4. SUBSET S \subseteq G
  BY <1>2, <1>3, SetInduction
<1>5. \A x \in S : S \ {x} \in SUBSET S
  OBVIOUS
<1> QED
  BY <1>1, <1>4, <1>5 DEF G

LEMMA SumMonotonic ==
    ASSUME NEW S, IsFiniteSet(S), NEW f, NEW g,
           \A x \in S : f[x] \in Int /\ g[x] \in Int /\ f[x] <= g[x]
    PROVE  Sum(f, S) <= Sum(g, S)
<1> DEFINE G == {s \in SUBSET S : Sum(f, s) <= Sum(g, s)}
<1>1. \A s \in SUBSET S :
        /\ Sum(f, s) \in Int /\ Sum(g, s) \in Int
        /\ s = {} => Sum(f, s) = 0 /\ Sum(g, s) = 0
        /\ \A x \in s : /\ Sum(f, s) = f[x] + Sum(f, s \ {x}) /\ Sum(f, s \ {x}) \in Int
                        /\ Sum(g, s) = g[x] + Sum(g, s \ {x}) /\ Sum(g, s \ {x}) \in Int
  <2> SUFFICES ASSUME NEW s \in SUBSET S
               PROVE  /\ Sum(f, s) \in Int /\ Sum(g, s) \in Int
                      /\ s = {} => Sum(f, s) = 0 /\ Sum(g, s) = 0
                      /\ \A x \in s :
                            /\ Sum(f, s) = f[x] + Sum(f, s \ {x}) /\ Sum(f, s \ {x}) \in Int
                            /\ Sum(g, s) = g[x] + Sum(g, s \ {x}) /\ Sum(g, s \ {x}) \in Int
    OBVIOUS
  <2>1. IsFiniteSet(s) /\ \A x \in s : f[x] \in Int /\ g[x] \in Int
    BY FS_Subset
  <2> QED
    BY <2>1, SumRemove
<1>2. {} \in G
  BY <1>1
<1>3. ASSUME NEW s \in SUBSET S, s # {}, \A x \in s : s \ {x} \in G PROVE s \in G
  <2>1. PICK x \in s : TRUE
    BY <1>3
  <2>2. Sum(f, s \ {x}) <= Sum(g, s \ {x}) /\ f[x] \in Int /\ g[x] \in Int /\ f[x] <= g[x]
    BY <1>3, <2>1
  <2> QED
    BY <1>1, <2>1, <2>2
<1> HIDE DEF G
<1>4. S \in G
  BY <1>2, <1>3, SetInduction
<1> QED
  BY <1>4 DEF G

LEMMA SumOfZeros ==
    ASSUME NEW S, IsFiniteSet(S), NEW f, \A x \in S : f[x] = 0
    PROVE  Sum(f, S) = 0
<1> DEFINE G == {s \in SUBSET S : Sum(f, s) = 0}
<1>1. ASSUME NEW s \in SUBSET S
      PROVE  s = {} => Sum(f, s) = 0
  BY <1>1, FS_Subset, SumStep
<1>2. ASSUME NEW s \in SUBSET S, s # {}, \A x \in s : s \ {x} \in G PROVE s \in G
  <2>1. Pick(s) \in s /\ Pick(s) \in S
    BY <1>2, PickIsIn
  <2>2. Sum(f, s) = f[Pick(s)] + Sum(f, s \ {Pick(s)})
    BY <1>2, FS_Subset, SumStep
  <2> QED
    BY <1>2, <2>1, <2>2
<1>3. {} \in G
  BY <1>1
<1> HIDE DEF G
<1>4. S \in G
  BY <1>2, <1>3, SetInduction
<1> QED
  BY <1>4 DEF G

LEMMA SumOfNaturals ==
    ASSUME NEW S, IsFiniteSet(S), NEW f, \A x \in S : f[x] \in Nat
    PROVE  Sum(f, S) \in Nat /\ \A x \in S : f[x] <= Sum(f, S)
<1> DEFINE zero == [x \in S |-> 0]
<1>1. ASSUME NEW s \in SUBSET S PROVE Sum(f, s) \in Nat
  <2>1. IsFiniteSet(s) /\ \A x \in s : f[x] \in Int /\ zero[x] \in Int /\ zero[x] <= f[x]
                                       /\ zero[x] = 0
    BY FS_Subset
  <2> HIDE DEF zero
  <2>2. Sum(zero, s) <= Sum(f, s)
    BY <2>1, SumMonotonic
  <2>3. Sum(zero, s) = 0 /\ Sum(f, s) \in Int
    BY <2>1, SumOfZeros, SumRemove
  <2> QED
    BY <2>2, <2>3
<1>2. \A x \in S : Sum(f, S) = f[x] + Sum(f, S \ {x})
  BY SumRemove
<1>3. ASSUME NEW x \in S PROVE f[x] <= Sum(f, S)
  <2>1. S \ {x} \in SUBSET S
    OBVIOUS
  <2>2. Sum(f, S \ {x}) \in Nat /\ f[x] \in Nat
    BY <1>1, <2>1
  <2> QED
    BY <1>2, <2>2
<1>4. S \in SUBSET S
  OBVIOUS
<1> QED
  BY <1>1, <1>3, <1>4

LEMMA SumSplit ==
    ASSUME NEW S, IsFiniteSet(S), NEW f, NEW g, NEW h,
           \A x \in S : f[x] \in Int /\ g[x] \in Int /\ h[x] = f[x] + g[x]
    PROVE  Sum(h, S) = Sum(f, S) + Sum(g, S)
<1> DEFINE G == {s \in SUBSET S : Sum(h, s) = Sum(f, s) + Sum(g, s)}
<1>1. ASSUME NEW s \in SUBSET S
      PROVE  /\ s = {} => Sum(f, s) = 0 /\ Sum(g, s) = 0 /\ Sum(h, s) = 0
             /\ \A x \in s : /\ Sum(f, s) = f[x] + Sum(f, s \ {x}) /\ Sum(f, s \ {x}) \in Int
                             /\ Sum(g, s) = g[x] + Sum(g, s \ {x}) /\ Sum(g, s \ {x}) \in Int
                             /\ Sum(h, s) = h[x] + Sum(h, s \ {x}) /\ Sum(h, s \ {x}) \in Int
  <2>1. IsFiniteSet(s) /\ \A x \in s : f[x] \in Int /\ g[x] \in Int /\ h[x] \in Int
    BY FS_Subset
  <2> QED
    BY <2>1, SumRemove
<1>2. {} \in G
  BY <1>1
<1>3. ASSUME NEW s \in SUBSET S, s # {}, \A x \in s : s \ {x} \in G PROVE s \in G
  <2>1. PICK x \in s : TRUE
    BY <1>3
  <2>2. /\ Sum(h, s \ {x}) = Sum(f, s \ {x}) + Sum(g, s \ {x})
        /\ f[x] \in Int /\ g[x] \in Int /\ h[x] = f[x] + g[x]
    BY <1>3, <2>1
  <2> QED
    BY <1>1, <2>1, <2>2
<1> HIDE DEF G
<1>4. S \in G
  BY <1>2, <1>3, SetInduction
<1> QED
  BY <1>4 DEF G

LEMMA SumOfOnes ==
    ASSUME NEW S, IsFiniteSet(S), NEW f, \A x \in S : f[x] = 1
    PROVE  Sum(f, S) = Cardinality(S)
<1> DEFINE G == {s \in SUBSET S : Sum(f, s) = Cardinality(s)}
<1>1. ASSUME NEW s \in SUBSET S
      PROVE  /\ s = {} => Sum(f, s) = 0
             /\ \A x \in s : Sum(f, s) = 1 + Sum(f, s \ {x})
             /\ s = {} <=> Cardinality(s) = 0
             /\ \A x \in s : Cardinality(s \ {x}) = Cardinality(s) - 1
             /\ Cardinality(s) \in Nat
  <2>1. IsFiniteSet(s) /\ \A x \in s : f[x] = 1
    BY FS_Subset
  <2>2. \A x \in s : f[x] \in Int
    BY <2>1
  <2>3. /\ s = {} => Sum(f, s) = 0
        /\ \A x \in s : Sum(f, s) = f[x] + Sum(f, s \ {x})
    BY <2>1, <2>2, SumRemove
  <2>4. /\ Cardinality(s) \in Nat
        /\ s = {} <=> Cardinality(s) = 0
    BY <2>1, FS_EmptySet, FS_CardinalityType
  <2>5. \A x \in s : Cardinality(s \ {x}) = Cardinality(s) - 1
    BY <2>1, FS_RemoveElement
  <2> QED
    BY <2>1, <2>3, <2>4, <2>5
<1>2. {} \in G
  BY <1>1
<1>3. ASSUME NEW s \in SUBSET S, s # {}, \A x \in s : s \ {x} \in G PROVE s \in G
  <2>1. PICK x \in s : TRUE
    BY <1>3
  <2>2. Sum(f, s \ {x}) = Cardinality(s \ {x})
    BY <1>3, <2>1
  <2> QED
    BY <1>1, <2>1, <2>2
<1> HIDE DEF G
<1>4. S \in G
  BY <1>2, <1>3, SetInduction
<1> QED
  BY <1>4 DEF G

LEMMA SumGrows ==
    ASSUME NEW S, IsFiniteSet(S), NEW f, NEW g, \A x \in S : f[x] \in Int /\ g[x] = f[x] + 1
    PROVE  Sum(g, S) = Sum(f, S) + Cardinality(S)
<1> DEFINE ones == [x \in S |-> 1]
<1>1. \A x \in S : ones[x] = 1 /\ ones[x] \in Int /\ g[x] = f[x] + ones[x]
  OBVIOUS
<1> HIDE DEF ones
<1>2. Sum(g, S) = Sum(f, S) + Sum(ones, S)
  BY <1>1, SumSplit
<1>3. Sum(ones, S) = Cardinality(S)
  BY <1>1, SumOfOnes
<1> QED
  BY <1>2, <1>3

(* As many as one counts with.                                             *)
LEMMA ImageIsCounted ==
    ASSUME NEW S, IsFiniteSet(S), NEW f, \A x, y \in S : f[x] = f[y] => x = y
    PROVE  /\ IsFiniteSet({f[x] : x \in S})
           /\ Cardinality({f[x] : x \in S}) = Cardinality(S)
<1> DEFINE T == {f[x] : x \in S}
           h == [x \in S |-> f[x]]
<1>1. h \in Bijection(S, T)
  BY DEF Bijection, Injection, IsInjective, Surjection
<1> HIDE DEF T, h
<1>2. ExistsBijection(S, T)
  BY <1>1 DEF ExistsBijection
<1> QED
  BY <1>2, FS_Bijection DEF T

(* A set is counted kind by kind.                                          *)
SizeOfKind(S, f, C) == [x \in C |-> Cardinality({i \in S : f[i] = x})]
LEMMA KindsAreCounted ==
    ASSUME NEW S, IsFiniteSet(S), NEW C, IsFiniteSet(C), NEW f, \A i \in S : f[i] \in C
    PROVE  Sum(SizeOfKind(S, f, C), C) = Cardinality(S)
<1> DEFINE size == SizeOfKind(S, f, C)
           Of(D) == {i \in S : f[i] \in D}
           Kind(x) == {i \in S : f[i] = x}
           G == {D \in SUBSET C : Sum(size, D) = Cardinality(Of(D))}
<1>1. \A T \in SUBSET S : IsFiniteSet(T) /\ Cardinality(T) \in Nat
  BY FS_Subset, FS_CardinalityType
<1>2. \A x \in C : size[x] = Cardinality(Kind(x)) /\ size[x] \in Int
  BY <1>1 DEF SizeOfKind
<1> HIDE DEF size
<1>3. ASSUME NEW D \in SUBSET C
      PROVE  /\ D = {} => Sum(size, D) = 0
             /\ \A x \in D : Sum(size, D) = size[x] + Sum(size, D \ {x})
  <2>1. IsFiniteSet(D) /\ \A x \in D : size[x] \in Int
    BY <1>2, FS_Subset
  <2> QED
    BY <2>1, SumRemove
<1>4. {} \in G
  <2>1. Of({}) = {}
    OBVIOUS
  <2> QED
    BY <1>3, <2>1, FS_EmptySet
<1>5. ASSUME NEW D \in SUBSET C, D # {}, \A x \in D : D \ {x} \in G PROVE D \in G
  <2>1. PICK x \in D : TRUE
    BY <1>5
  <2>2. Sum(size, D \ {x}) = Cardinality(Of(D \ {x}))
    BY <1>5, <2>1
  <2>3. Of(D) = Kind(x) \cup Of(D \ {x}) /\ Kind(x) \cap Of(D \ {x}) = {}
    OBVIOUS
  <2>4. Kind(x) \in SUBSET S /\ Of(D \ {x}) \in SUBSET S
    OBVIOUS
  <2>5. /\ IsFiniteSet(Kind(x)) /\ IsFiniteSet(Of(D \ {x}))
        /\ Cardinality(Kind(x)) \in Nat /\ Cardinality(Of(D \ {x})) \in Nat
    BY <1>1, <2>4
  <2> HIDE DEF Of, Kind
  <2>6. Cardinality(Of(D)) = Cardinality(Kind(x)) + Cardinality(Of(D \ {x}))
    <3> DEFINE K == Kind(x)
               O == Of(D \ {x})
    <3>1. IsFiniteSet(K) /\ IsFiniteSet(O) /\ K \cap O = {} /\ Of(D) = K \cup O
      BY <2>3, <2>5
    <3> HIDE DEF K, O
    <3>2. Cardinality(K \cup O) = Cardinality(K) + Cardinality(O) - Cardinality({})
      BY <3>1, FS_Union
    <3>3. Cardinality(K) \in Nat /\ Cardinality(O) \in Nat /\ Cardinality({}) = 0
      BY <2>5, FS_EmptySet DEF K, O
    <3> QED
      BY <3>1, <3>2, <3>3 DEF K, O
  <2> QED
    BY <1>2, <1>3, <2>1, <2>2, <2>6
<1> HIDE DEF G
<1>6. C \in G
  BY <1>4, <1>5, SetInduction
<1>7. Of(C) = S
  OBVIOUS
<1> QED
  BY <1>6, <1>7 DEF G, size

-----------------------------------------------------------------------------
(* Rearrangements *)

Orders(P) == {p \in [P -> P] : \A i, j \in P : p[i] = p[j] => i = j}
InPlace(g, c, P, p) == {i \in P : g[p[i]] = c[i]}
OfKind(g, P, x) == {i \in P : g[i] = x}
InCommon(g, c, P, C) ==
    [x \in C |-> Min({Cardinality(OfKind(g, P, x)), Cardinality(OfKind(c, P, x))})]

LEMMA OrderIsOnto ==
    ASSUME NEW P, IsFiniteSet(P), NEW p \in Orders(P)
    PROVE  \A j \in P : \E i \in P : p[i] = j
<1> DEFINE T == {p[i] : i \in P}
<1>1. \A i, j \in P : p[i] = p[j] => i = j
  BY DEF Orders
<1>2. T \subseteq P
  BY DEF Orders
<1>3. Cardinality(T) = Cardinality(P)
  BY <1>1, ImageIsCounted
<1> HIDE DEF T
<1>4. T = P
  BY <1>2, <1>3, FS_Subset
<1> QED
  BY <1>4 DEF T

(* Two places change places.                                               *)
LEMMA Exchange ==
    ASSUME NEW P, NEW p \in Orders(P), NEW a \in P, NEW b \in P, a # b
    PROVE  \E q \in Orders(P) : /\ q[a] = p[b] /\ q[b] = p[a]
                                /\ \A i \in P \ {a, b} : q[i] = p[i]
<1> DEFINE q == [i \in P |-> IF i = a THEN p[b] ELSE IF i = b THEN p[a] ELSE p[i]]
<1>1. p \in [P -> P] /\ \A i, j \in P : p[i] = p[j] => i = j
  BY DEF Orders
<1>2. q[a] = p[b] /\ q[b] = p[a] /\ \A i \in P \ {a, b} : q[i] = p[i]
  OBVIOUS
<1>3. q \in [P -> P]
  BY <1>1
<1> HIDE DEF q
<1>4. \A i, j \in P : q[i] = q[j] => i = j
  BY <1>1, <1>2
<1> QED
  BY <1>2, <1>3, <1>4 DEF Orders

(* As many elements of g as c has too, kind by kind, and no more can be    *)
(* brought where c has them.                                               *)
LEMMA BestOrder ==
    ASSUME NEW P, IsFiniteSet(P), NEW C, IsFiniteSet(C),
           NEW g \in [P -> C], NEW c \in [P -> C]
    PROVE  /\ \A p \in Orders(P) :
                Cardinality(InPlace(g, c, P, p)) <= Sum(InCommon(g, c, P, C), C)
           /\ \E p \in Orders(P) :
                Cardinality(InPlace(g, c, P, p)) = Sum(InCommon(g, c, P, C), C)
<1> DEFINE common == InCommon(g, c, P, C)
           Right(p) == InPlace(g, c, P, p)
           RightOf(p, x) == {i \in Right(p) : c[i] = x}
           size(p) == SizeOfKind(Right(p), c, C)
<1>1. \A T \in SUBSET P : IsFiniteSet(T) /\ Cardinality(T) \in Nat
  BY FS_Subset, FS_CardinalityType
<1>2. \A x \in C : /\ common[x] \in Nat
                   /\ common[x] <= Cardinality(OfKind(g, P, x))
                   /\ common[x] <= Cardinality(OfKind(c, P, x))
                   /\ \/ common[x] = Cardinality(OfKind(g, P, x))
                      \/ common[x] = Cardinality(OfKind(c, P, x))
  <2> SUFFICES ASSUME NEW x \in C
               PROVE  /\ common[x] \in Nat
                      /\ common[x] <= Cardinality(OfKind(g, P, x))
                      /\ common[x] <= Cardinality(OfKind(c, P, x))
                      /\ \/ common[x] = Cardinality(OfKind(g, P, x))
                         \/ common[x] = Cardinality(OfKind(c, P, x))
    OBVIOUS
  <2> DEFINE S == {Cardinality(OfKind(g, P, x)), Cardinality(OfKind(c, P, x))}
  <2>1. OfKind(g, P, x) \in SUBSET P /\ OfKind(c, P, x) \in SUBSET P
    BY DEF OfKind
  <2>2. S \subseteq Nat /\ S # {}
    BY <1>1, <2>1
  <2>3. common[x] = Min(S)
    BY DEF InCommon
  <2>4. Min(S) \in S /\ \A y \in S : Min(S) <= y
    <3> HIDE DEF S
    <3> QED
      BY <2>2, MinIsIn
  <2> QED
    BY <2>2, <2>3, <2>4
<1> HIDE DEF common
<1>3. ASSUME NEW p \in Orders(P), NEW x \in C
      PROVE  /\ RightOf(p, x) \subseteq OfKind(c, P, x)
             /\ {p[i] : i \in RightOf(p, x)} \subseteq OfKind(g, P, x)
             /\ Cardinality({p[i] : i \in RightOf(p, x)}) = Cardinality(RightOf(p, x))
             /\ size(p)[x] = Cardinality(RightOf(p, x)) /\ size(p)[x] \in Nat
             /\ size(p)[x] <= common[x]
  <2>1. p \in [P -> P] /\ \A i, j \in P : p[i] = p[j] => i = j
    BY DEF Orders
  <2>2. /\ RightOf(p, x) \in SUBSET P /\ OfKind(c, P, x) \in SUBSET P
        /\ OfKind(g, P, x) \in SUBSET P
    BY DEF InPlace, OfKind
  <2>3. RightOf(p, x) \subseteq OfKind(c, P, x)
    BY DEF InPlace, OfKind
  <2>4. {p[i] : i \in RightOf(p, x)} \subseteq OfKind(g, P, x)
    BY <2>1 DEF InPlace, OfKind
  <2>5. size(p)[x] = Cardinality(RightOf(p, x))
    BY DEF SizeOfKind
  <2> DEFINE A == RightOf(p, x)
             B == {p[i] : i \in A}
  <2> HIDE DEF A
  <2>6. Cardinality(B) = Cardinality(A)
    <3>1. IsFiniteSet(A) /\ \A i, j \in A : p[i] = p[j] => i = j
      BY <1>1, <2>1, <2>2 DEF A
    <3> QED
      BY <3>1, ImageIsCounted
  <2> HIDE DEF B
  <2>7. Cardinality(B) <= Cardinality(OfKind(g, P, x))
    BY <1>1, <2>2, <2>4, FS_Subset DEF A, B
  <2>8. Cardinality(A) <= Cardinality(OfKind(c, P, x)) /\ Cardinality(A) \in Nat
    BY <1>1, <2>2, <2>3, FS_Subset DEF A
  <2>9. Cardinality(A) <= common[x]
    BY <1>2, <2>6, <2>7, <2>8
  <2> QED
    BY <2>3, <2>4, <2>5, <2>6, <2>8, <2>9 DEF A, B
<1> HIDE DEF size, RightOf
<1>a. \A p \in Orders(P) : \A x \in C : size(p)[x] \in Nat /\ size(p)[x] <= common[x]
  BY <1>3
<1>4. ASSUME NEW p \in Orders(P)
      PROVE  /\ IsFiniteSet(Right(p)) /\ Cardinality(Right(p)) \in Nat
             /\ Cardinality(Right(p)) <= Cardinality(P)
             /\ Cardinality(Right(p)) = Sum(size(p), C)
             /\ Cardinality(Right(p)) <= Sum(common, C)
  <2>1. Right(p) \in SUBSET P
    BY DEF InPlace
  <2>2. /\ IsFiniteSet(Right(p)) /\ Cardinality(Right(p)) \in Nat
        /\ Cardinality(Right(p)) <= Cardinality(P)
    BY <1>1, <2>1, FS_Subset
  <2> DEFINE s == size(p)
  <2>3. \A i \in Right(p) : c[i] \in C
    BY <2>1
  <2>4. \A x \in C : s[x] \in Int /\ common[x] \in Int /\ s[x] <= common[x]
    BY <1>a, <1>2
  <2> HIDE DEF s
  <2>5. Sum(s, C) = Cardinality(Right(p))
    <3> DEFINE R == Right(p)
    <3>1. IsFiniteSet(R) /\ (\A i \in R : c[i] \in C) /\ s = SizeOfKind(R, c, C)
      BY <2>2, <2>3 DEF s, size
    <3> HIDE DEF R
    <3>2. Sum(SizeOfKind(R, c, C), C) = Cardinality(R)
      BY <3>1, KindsAreCounted, Zenon
    <3> QED
      BY <3>1, <3>2, Zenon DEF R
  <2>6. Sum(s, C) <= Sum(common, C)
    BY <2>4, SumMonotonic
  <2> QED
    BY <2>2, <2>5, <2>6 DEF s
<1>5. PICK p \in Orders(P) :
        \A q \in Orders(P) : Cardinality(Right(q)) <= Cardinality(Right(p))
  <2> DEFINE S == {Cardinality(Right(q)) : q \in Orders(P)}
             identity == [i \in P |-> i]
  <2>1. identity \in Orders(P)
    BY DEF Orders
  <2>2. Cardinality(P) \in Nat
    BY <1>1
  <2>3. S \in SUBSET (0 .. Cardinality(P)) /\ S # {}
    BY <1>4, <2>1, <2>2
  <2>4. Max(S) \in S /\ \A y \in S : y <= Max(S)
    <3> HIDE DEF S
    <3> QED
      BY <2>2, <2>3, MaxIsIn
  <2> QED
    BY <2>4
<1>6. Cardinality(Right(p)) = Sum(common, C)
  <2> SUFFICES ASSUME Cardinality(Right(p)) # Sum(common, C) PROVE FALSE
    OBVIOUS
  <2>1. PICK x \in C : size(p)[x] < common[x]
    <3> SUFFICES ASSUME \A x \in C : ~(size(p)[x] < common[x]) PROVE FALSE
      OBVIOUS
    <3> DEFINE s == size(p)
    <3>1. \A x \in C : s[x] = common[x]
      BY <1>2, <1>a
    <3>2. Sum(s, C) = Cardinality(Right(p))
      BY <1>4
    <3> HIDE DEF s
    <3>3. Sum(s, C) = Sum(common, C)
      BY <3>1, SumEqual
    <3> QED
      BY <3>2, <3>3
  <2> DEFINE A == RightOf(p, x)
             B == {p[i] : i \in A}
  <2>2. /\ A \subseteq OfKind(c, P, x) /\ B \subseteq OfKind(g, P, x)
        /\ Cardinality(B) = Cardinality(A) /\ Cardinality(A) \in Nat
        /\ Cardinality(A) < common[x]
    BY <1>3, <2>1
  <2>3. p \in [P -> P] /\ \A i, j \in P : p[i] = p[j] => i = j
    BY DEF Orders
  <2>4. PICK a \in P : c[a] = x /\ g[p[a]] # x
    <3>1. A # OfKind(c, P, x)
      <4>1. Cardinality(OfKind(c, P, x)) \in Nat
        BY <1>1 DEF OfKind
      <4> HIDE DEF A, B
      <4> QED
        BY <1>2, <2>2, <4>1
    <3>2. PICK a \in OfKind(c, P, x) : a \notin A
      BY <2>2, <3>1
    <3> QED
      BY <3>2 DEF OfKind, InPlace, RightOf
  <2>5. PICK b \in P : g[p[b]] = x /\ c[b] # x
    <3>1. B # OfKind(g, P, x)
      <4>1. Cardinality(OfKind(g, P, x)) \in Nat
        BY <1>1 DEF OfKind
      <4> HIDE DEF A, B
      <4> QED
        BY <1>2, <2>2, <4>1
    <3>2. PICK j \in OfKind(g, P, x) : j \notin B
      BY <2>2, <3>1
    <3>3. PICK b \in P : p[b] = j
      BY <3>2, OrderIsOnto DEF OfKind
    <3>4. b \notin A
      BY <3>2, <3>3
    <3> QED
      BY <3>2, <3>3, <3>4 DEF OfKind, InPlace, RightOf
  <2>6. a # b
    BY <2>4, <2>5
  <2>7. PICK q \in Orders(P) : /\ q[a] = p[b] /\ q[b] = p[a]
                               /\ \A i \in P \ {a, b} : q[i] = p[i]
    BY <2>6, Exchange
  <2>8. a \notin Right(p) /\ Right(p) \cup {a} \subseteq Right(q)
    BY <2>4, <2>5, <2>7 DEF InPlace
  <2>9. Cardinality(Right(p) \cup {a}) = Cardinality(Right(p)) + 1
    BY <1>4, <2>8, FS_AddElement
  <2>10. Cardinality(Right(p) \cup {a}) <= Cardinality(Right(q))
    BY <1>4, <2>8, FS_Subset
  <2> HIDE DEF Right, A, B
  <2> QED
    BY <1>4, <1>5, <2>9, <2>10
<1> QED
  BY <1>4, <1>6 DEF common
=============================================================================
