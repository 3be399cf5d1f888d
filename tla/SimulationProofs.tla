-------------------------- MODULE SimulationProofs --------------------------
(***************************************************************************)
(* The memory of Simulation, for every set of input files, all slices and  *)
(* all sizes of memory: its segments tile it and hold live processes, its  *)
(* counters are right, only the largest process is swapped out, at most    *)
(* one pair of holes is left unjoined, and fcfs needs but one segment.     *)
(***************************************************************************)
EXTENDS Simulation, SchedulerProofs, Counting

-----------------------------------------------------------------------------
(* The order of a finite set of numbers *)

LEMMA RankFacts ==
    ASSUME NEW n \in Nat, NEW K \in SUBSET (1 .. n)
    PROVE  /\ Cardinality(K) \in Nat
           /\ \A k \in K : Rank(K, k) \in 1 .. Cardinality(K)
           /\ \A j, k \in K : j < k => Rank(K, j) < Rank(K, k)
           /\ \A m \in 1 .. Cardinality(K) : \E k \in K : Rank(K, k) = m
<1>1. IsFiniteSet(K) /\ Cardinality(K) \in Nat
  <2>1. IsFiniteSet(1 .. n)
    BY FS_Interval
  <2>2. IsFiniteSet(K)
    BY <2>1, FS_Subset
  <2> QED
    BY <2>2, FS_CardinalityType
<1> DEFINE Upto(k) == {j \in K : j <= k}
<1>2. \A k \in K : IsFiniteSet(Upto(k)) /\ Cardinality(Upto(k)) \in Nat
  BY <1>1, FS_Subset, FS_CardinalityType
<1>3. ASSUME NEW k \in K PROVE Rank(K, k) \in 1 .. Cardinality(K)
  <2>1. Cardinality(Upto(k)) <= Cardinality(K)
    BY <1>1, FS_Subset
  <2>2. Cardinality(Upto(k)) # 0
    <3>1. k \in Upto(k)
      OBVIOUS
    <3>2. Upto(k) # {} /\ IsFiniteSet(Upto(k))
      BY <1>2, <3>1
    <3> HIDE DEF Upto
    <3> QED
      BY <3>2, FS_EmptySet
  <2> QED
    BY <1>1, <1>2, <2>1, <2>2 DEF Rank
<1>4. ASSUME NEW j \in K, NEW k \in K, j < k PROVE Rank(K, j) < Rank(K, k)
  <2>1. Upto(j) \subseteq Upto(k) /\ k \in Upto(k) /\ k \notin Upto(j)
    <3>1. \A l \in K : l \in Nat
      OBVIOUS
    <3>2. j \in Nat /\ k \in Nat /\ \A l \in K : l <= j => l <= k
      BY <1>4, <3>1
    <3>3. ~(k <= j) /\ k <= k
      BY <1>4, <3>2
    <3> QED
      BY <3>2, <3>3
  <2>2. /\ Cardinality(Upto(j)) <= Cardinality(Upto(k))
        /\ Cardinality(Upto(j)) # Cardinality(Upto(k))
    <3> HIDE DEF Upto
    <3> QED
      BY <1>2, <2>1, FS_Subset
  <2> QED
    BY <1>2, <2>2 DEF Rank
<1>5. ASSUME NEW m \in 1 .. Cardinality(K) PROVE \E k \in K : Rank(K, k) = m
  <2> DEFINE rank == [k \in K |-> Rank(K, k)]
             N == 1 .. Cardinality(K)
  <2>1. rank \in Injection(K, N)
    <3>1. rank \in [K -> N]
      BY <1>3
    <3>2. \A j, k \in K : rank[j] = rank[k] => j = k
      <4>1. \A j, k \in K : j \in Nat /\ k \in Nat /\ Rank(K, j) \in Nat
        BY <1>1, <1>3
      <4> QED
        BY <1>4, <4>1
    <3> QED
      BY <3>1, <3>2 DEF Injection, IsInjective
  <2>2. IsFiniteSet(N) /\ Cardinality(N) = Cardinality(K)
    BY <1>1, FS_Interval
  <2>3. rank \in Surjection(K, N)
    <3> HIDE DEF rank, N
    <3> QED
      BY <2>1, <2>2, FS_Injection
  <2> QED
    BY <2>3 DEF Surjection
<1> QED
  BY <1>1, <1>3, <1>4, <1>5

LEMMA NthFacts ==
    ASSUME NEW n \in Nat, NEW K \in SUBSET (1 .. n)
    PROVE  /\ Cardinality(K) \in Nat
           /\ \A m \in 1 .. Cardinality(K) : Nth(K, m) \in K
           /\ \A k \in K : \E m \in 1 .. Cardinality(K) : Nth(K, m) = k
           /\ \A m, p \in 1 .. Cardinality(K) : m < p => Nth(K, m) < Nth(K, p)
<1>0. /\ Cardinality(K) \in Nat
      /\ \A k \in K : k \in Nat /\ Rank(K, k) \in 1 .. Cardinality(K)
      /\ \A j, k \in K : j < k => Rank(K, j) < Rank(K, k)
      /\ \A m \in 1 .. Cardinality(K) : \E k \in K : Rank(K, k) = m
  <2>1. \A k \in K : k \in Nat
    OBVIOUS
  <2> QED
    BY <2>1, RankFacts, Zenon
<1>1. \A m \in 1 .. Cardinality(K) : Nth(K, m) \in K /\ Rank(K, Nth(K, m)) = m
  BY <1>0 DEF Nth
<1>2. \A j, k \in K : Rank(K, j) = Rank(K, k) => j = k
  <2>1. \A j, k \in K : j \in Nat /\ k \in Nat /\ Rank(K, j) \in Nat
    BY <1>0
  <2> QED
    BY <1>0, <2>1
<1>3. ASSUME NEW k \in K PROVE \E m \in 1 .. Cardinality(K) : Nth(K, m) = k
  <2>1. Rank(K, k) \in 1 .. Cardinality(K)
    BY <1>0
  <2>2. Nth(K, Rank(K, k)) = k
    BY <1>1, <1>2, <2>1
  <2> QED
    BY <2>1, <2>2
<1>4. ASSUME NEW m \in 1 .. Cardinality(K), NEW p \in 1 .. Cardinality(K), m < p
      PROVE  Nth(K, m) < Nth(K, p)
  <2>1. /\ Nth(K, m) \in K /\ Nth(K, p) \in K /\ Nth(K, m) \in Nat /\ Nth(K, p) \in Nat
        /\ Rank(K, Nth(K, m)) = m /\ Rank(K, Nth(K, p)) = p
    BY <1>0, <1>1
  <2> m \in Nat /\ p \in Nat
    BY <1>0
  <2>2. Nth(K, p) < Nth(K, m) => p < m
    BY <1>0, <2>1
  <2>3. Nth(K, p) # Nth(K, m)
    BY <1>4, <2>1
  <2> QED
    BY <1>4, <2>1, <2>2, <2>3
<1> QED
  BY <1>0, <1>1, <1>3, <1>4
-----------------------------------------------------------------------------
(* What concat_holes makes of a list of segments *)

(* A hole that is absorbed is right behind a hole that is not.             *)
LEMMA AbsorbedFacts ==
    ASSUME NEW segments, NEW n \in Nat \ {0}, DOMAIN segments = 1 .. n
    PROVE  /\ Absorbed(segments) \subseteq 2 .. n
           /\ \A k \in Absorbed(segments) :
                /\ k - 1 \notin Absorbed(segments)
                /\ IsHole(segments[k]) /\ IsHole(segments[k - 1])
<1> DEFINE Used(k) == {0} \cup {j \in 1 .. k - 1 : ~IsHole(segments[j])}
           u(k) == UsedBefore(segments, k)
<1>1. ASSUME NEW k \in 1 .. n
      PROVE  u(k) \in Used(k) /\ \A j \in Used(k) : j <= u(k)
  <2>1. Used(k) \in SUBSET (0 .. n) /\ Used(k) # {} /\ u(k) = Max(Used(k))
    BY DEF UsedBefore
  <2> HIDE DEF Used, u
  <2> QED
    BY <2>1, MaxIsIn
<1>2. ASSUME NEW k \in Absorbed(segments)
      PROVE  /\ k \in 2 .. n /\ k - 1 \notin Absorbed(segments)
             /\ IsHole(segments[k]) /\ IsHole(segments[k - 1])
  <2>1. k \in 1 .. n /\ IsHole(segments[k]) /\ (k - u(k)) % 2 = 0
    BY DEF Absorbed
  <2>2. u(k) \in 0 .. k - 1 /\ \A j \in Used(k) : j <= u(k)
    BY <1>1, <2>1
  <2>3. k - u(k) >= 2 /\ k >= 2
    <3> HIDE DEF u
    <3> QED
      BY <2>1, <2>2
  <2>4. IsHole(segments[k - 1])
    <3>1. k - 1 \in 1 .. k - 1 /\ ~(k - 1 <= u(k))
      <4> HIDE DEF u
      <4> QED
        BY <2>1, <2>2, <2>3
    <3> QED
      BY <2>2, <3>1
  <2>5. u(k - 1) = u(k)
    <3>1. k - 1 \in 1 .. n /\ k \in Nat /\ u(k) \in Nat
      BY <2>1, <2>2, <2>3
    <3>2. u(k) \in Used(k - 1)
      <4>1. u(k) \in Used(k)
        BY <1>1, <2>1
      <4>2. u(k) <= k - 1 - 1
        <5> HIDE DEF u
        <5> QED
          BY <2>1, <2>2, <2>3
      <4> HIDE DEF u
      <4> QED
        BY <3>1, <4>1, <4>2
    <3>3. u(k - 1) \in Used(k)
      <4>1. u(k - 1) \in Used(k - 1)
        BY <1>1, <3>1
      <4> HIDE DEF u
      <4> QED
        BY <3>1, <4>1
    <3>4. u(k) <= u(k - 1) /\ u(k - 1) <= u(k)
      BY <1>1, <2>1, <3>1, <3>2, <3>3
    <3>5. u(k - 1) \in Nat
      <4> HIDE DEF u
      <4> QED
        BY <3>1, <3>3
    <3> HIDE DEF u, Used
    <3> QED
      BY <3>1, <3>4, <3>5
  <2>6. (k - 1 - u(k)) % 2 # 0
    <3>1. PICK d \in Int : d = k - u(k)
      <4> HIDE DEF u
      <4> QED
        BY <2>1, <2>2
    <3>2. k - 1 - u(k) = d - 1 /\ d % 2 = 0
      <4> HIDE DEF u
      <4> QED
        BY <2>1, <2>2, <3>1
    <3>3. (d - 1) % 2 # 0
      BY <3>2
    <3> HIDE DEF u
    <3> QED
      BY <3>2, <3>3
  <2>7. k - 1 \notin Absorbed(segments)
    BY <2>5, <2>6 DEF Absorbed
  <2> QED
    BY <2>1, <2>3, <2>4, <2>7
<1> QED
  BY <1>2

Kept(segments) == DOMAIN segments \ Absorbed(segments)
At(segments, m) == Nth(Kept(segments), m)

(* The kept segments in order: the first is the first of the list, and     *)
(* from one to the next at most one is left out.                           *)
LEMMA KeptFacts ==
    ASSUME NEW segments, NEW n \in Nat \ {0}, DOMAIN segments = 1 .. n,
           NEW N, N = Cardinality(Kept(segments))
    PROVE  /\ N \in Nat /\ N > 0
           /\ \A m \in 1 .. N : At(segments, m) \in Kept(segments)
           /\ \A k \in Kept(segments) : \E m \in 1 .. N : At(segments, m) = k
           /\ \A m, p \in 1 .. N : m < p => At(segments, m) < At(segments, p)
           /\ At(segments, 1) = 1
           /\ \A m \in 1 .. N - 1 :
                At(segments, m + 1) = IF At(segments, m) + 1 \in Absorbed(segments)
                                      THEN At(segments, m) + 2 ELSE At(segments, m) + 1
           /\ At(segments, N) = IF n \in Absorbed(segments) THEN n - 1 ELSE n
<1> DEFINE K == Kept(segments)
           A == Absorbed(segments)
           at(m) == At(segments, m)
<1>1. /\ A \subseteq 2 .. n
      /\ \A k \in A : k - 1 \notin A
  BY AbsorbedFacts
<1>2. K \in SUBSET (1 .. n) /\ \A k \in 1 .. n : k \in K <=> k \notin A
  BY DEF Kept
<1>3. /\ N \in Nat
      /\ \A m \in 1 .. N : at(m) \in K
      /\ \A k \in K : \E m \in 1 .. N : at(m) = k
      /\ \A m, p \in 1 .. N : m < p => at(m) < at(p)
  <2> HIDE DEF K
  <2>1. n \in Nat
    OBVIOUS
  <2>2. N = Cardinality(K)
    BY DEF K
  <2> QED
    BY <1>2, <2>1, <2>2, NthFacts DEF At, K
<1> HIDE DEF K, A, at
<1>4. \A m \in 1 .. N : at(m) \in 1 .. n
  BY <1>2, <1>3
<1>5. 1 \in K
  BY <1>1, <1>2
<1>6. N > 0 /\ at(1) = 1
  <2>1. PICK q \in 1 .. N : at(q) = 1
    BY <1>3, <1>5
  <2>2. 1 \in 1 .. N /\ (q # 1 => 1 < q)
    BY <1>3, <2>1
  <2>3. q = 1
    BY <1>3, <1>4, <2>1, <2>2
  <2> QED
    BY <1>3, <2>1, <2>2, <2>3
<1>7. ASSUME NEW m \in 1 .. N - 1, NEW k \in K, at(m) < k
      PROVE  at(m + 1) <= k
  <2>1. m \in 1 .. N /\ m + 1 \in 1 .. N
    BY <1>3
  <2>2. PICK q \in 1 .. N : at(q) = k
    BY <1>3
  <2>3. at(m) \in Nat /\ at(m + 1) \in Nat /\ k \in Nat
    BY <1>2, <1>4, <2>1
  <2>4. m < q
    <3>1. q < m => at(q) < at(m)
      BY <1>3, <2>1
    <3>2. q # m
      BY <1>7, <2>2, <2>3
    <3> QED
      BY <1>7, <2>1, <2>2, <2>3, <3>1, <3>2
  <2>5. q = m + 1 \/ m + 1 < q
    BY <1>3, <2>4
  <2>6. m + 1 < q => at(m + 1) < at(q)
    BY <1>3, <2>1
  <2> QED
    BY <2>2, <2>3, <2>5, <2>6
<1>8. ASSUME NEW m \in 1 .. N - 1
      PROVE  at(m + 1) = IF at(m) + 1 \in A THEN at(m) + 2 ELSE at(m) + 1
  <2>1. m \in 1 .. N /\ m + 1 \in 1 .. N /\ m < m + 1
    BY <1>3
  <2>2. /\ at(m) \in 1 .. n /\ at(m + 1) \in 1 .. n /\ at(m) < at(m + 1)
        /\ at(m + 1) \in K /\ at(m + 1) \notin A
    BY <1>2, <1>3, <1>4, <2>1
  <2>3. CASE at(m) + 1 \in A
    <3>1. at(m + 1) # at(m) + 1 /\ at(m) + 2 \in 1 .. n
      BY <2>2, <2>3
    <3>2. at(m) + 2 \notin A
      <4>1. \A k, l : k \in A /\ l = k - 1 => l \notin A
        BY <1>1
      <4>2. at(m) + 1 = (at(m) + 2) - 1
        BY <2>2
      <4> QED
        BY <2>3, <4>1, <4>2
    <3>3. at(m) + 2 \in K /\ at(m) < at(m) + 2
      BY <1>2, <2>2, <3>1, <3>2
    <3>4. at(m + 1) <= at(m) + 2
      BY <1>7, <3>3
    <3> QED
      BY <2>2, <2>3, <3>1, <3>4
  <2>4. CASE at(m) + 1 \notin A
    <3>1. at(m) + 1 \in 1 .. n /\ at(m) < at(m) + 1
      BY <2>2
    <3>2. at(m + 1) <= at(m) + 1
      BY <1>2, <1>7, <2>4, <3>1
    <3> QED
      BY <2>2, <2>4, <3>2
  <2> QED
    BY <2>3, <2>4
<1>9. at(N) = IF n \in A THEN n - 1 ELSE n
  <2>1. N \in 1 .. N /\ at(N) \in 1 .. n /\ at(N) \in K
    BY <1>3, <1>4, <1>6
  <2>2. ASSUME NEW k \in K PROVE k <= at(N)
    <3>1. PICK q \in 1 .. N : at(q) = k
      BY <1>3
    <3>2. q < N => at(q) < at(N)
      BY <1>3, <2>1
    <3>3. q = N \/ q < N
      BY <1>3
    <3> QED
      BY <1>4, <2>1, <3>1, <3>2, <3>3
  <2>3. CASE n \in A
    <3>1. n - 1 \in K /\ n \notin K
      BY <1>1, <1>2, <2>3
    <3> QED
      BY <2>1, <2>2, <2>3, <3>1
  <2>4. CASE n \notin A
    <3>1. n \in K
      BY <1>2, <2>4
    <3> QED
      BY <2>1, <2>2, <2>4, <3>1
  <2> QED
    BY <2>3, <2>4
<1> QED
  BY <1>3, <1>6, <1>8, <1>9 DEF K, A, at

(* A list of segments that tiles 0 .. size, in which no process has two.   *)
SegmentFields == {"process", "memory_size", "start", "end", "time_added"}
IsSegment(s) ==
    /\ DOMAIN s = SegmentFields
    /\ s.start \in Int /\ s.end \in Int /\ s.start <= s.end
    /\ ~IsHole(s) => /\ s.process \in Procs /\ LengthOf(s) = SizeOf(s.process)
                     /\ s.memory_size = SizeOf(s.process) /\ s.time_added \in Int
Tiles(segments, size) ==
    /\ \E S : segments \in Seq(S)
    /\ Len(segments) > 0
    /\ \A k \in 1 .. Len(segments) : IsSegment(segments[k])
    /\ segments[1].start = 0 /\ segments[Len(segments)].end = size
    /\ \A k \in 1 .. Len(segments) - 1 : segments[k + 1].start = segments[k].end + 1

Used(segments) == {k \in DOMAIN segments : ~IsHole(segments[k])}
Occupants(segments) == {segments[k].process : k \in Used(segments)}
Apart(segments) ==
    \A j, k \in Used(segments) : segments[j].process = segments[k].process => j = k

(* The used segments J of s are still in t, as they were.                  *)
Keeps(s, t, J) == \A j \in J : \E m \in Used(t) : t[m] = s[j]

LEMMA ListFacts ==
    ASSUME NEW segments, NEW size, Tiles(segments, size)
    PROVE  /\ Len(segments) \in Nat \ {0}
           /\ DOMAIN segments = 1 .. Len(segments)
  BY DEF Tiles

LEMMA ConcatFacts ==
    ASSUME NEW segments, NEW size, Tiles(segments, size)
    PROVE  /\ Tiles(concat_holes(segments), size)
           /\ Apart(segments) => Apart(concat_holes(segments))
           /\ Occupants(concat_holes(segments)) = Occupants(segments)
           /\ Keeps(segments, concat_holes(segments), Used(segments))
           /\ Len(concat_holes(segments)) = Cardinality(Kept(segments))
           /\ \A m \in 1 .. Cardinality(Kept(segments)) :
                IsHole(concat_holes(segments)[m]) <=> IsHole(segments[At(segments, m)])
<1> DEFINE n == Len(segments)
           A == Absorbed(segments)
           K == Kept(segments)
           N == Cardinality(K)
           at(m) == At(segments, m)
           c == concat_holes(segments)
<1>1. n \in Nat \ {0} /\ DOMAIN segments = 1 .. n
  BY ListFacts
<1>2. /\ A \subseteq 2 .. n
      /\ \A k \in A : IsHole(segments[k]) /\ IsHole(segments[k - 1])
  <2> HIDE DEF n
  <2> QED
    BY <1>1, AbsorbedFacts
<1>3. /\ N \in Nat /\ N > 0
      /\ \A m \in 1 .. N : at(m) \in K
      /\ \A k \in K : \E m \in 1 .. N : at(m) = k
      /\ \A m, p \in 1 .. N : m < p => at(m) < at(p)
      /\ at(1) = 1
      /\ \A m \in 1 .. N - 1 :
            at(m + 1) = IF at(m) + 1 \in A THEN at(m) + 2 ELSE at(m) + 1
      /\ at(N) = IF n \in A THEN n - 1 ELSE n
  <2> HIDE DEF n
  <2> QED
    BY <1>1, KeptFacts
<1>4. K \subseteq 1 .. n /\ K = (1 .. n) \ A
  BY <1>1 DEF Kept
<1>5. c = [m \in 1 .. N |-> Joined(segments, at(m))]
  BY DEF concat_holes, Kept, At
<1> HIDE DEF n, A, K, N, at, c
<1>6. /\ DOMAIN c = 1 .. N
      /\ \A m \in 1 .. N : c[m] = Joined(segments, at(m)) /\ at(m) \in 1 .. n
  BY <1>3, <1>4, <1>5
<1>7. \A k \in 1 .. n : IsSegment(segments[k])
  BY DEF Tiles, n
<1>8. \A k \in 1 .. n - 1 : segments[k + 1].start = segments[k].end + 1
  BY DEF Tiles, n
<1>9. ASSUME NEW m \in 1 .. N
      PROVE  /\ c[m].process = segments[at(m)].process
             /\ c[m].start = segments[at(m)].start
             /\ IsHole(c[m]) <=> IsHole(segments[at(m)])
             /\ c[m].end = IF at(m) + 1 \in A THEN segments[at(m) + 1].end
                                              ELSE segments[at(m)].end
             /\ IsSegment(c[m])
  <2>1. at(m) \in 1 .. n /\ IsSegment(segments[at(m)])
    BY <1>6, <1>7
  <2>2. CASE at(m) + 1 \in A
    <3>1. PICK k \in Int : k = at(m) /\ k + 1 \in A /\ k \in 1 .. n
      BY <2>1, <2>2
    <3>2. k + 1 \in 2 .. n /\ IsHole(segments[k + 1])
      BY <1>2, <3>1
    <3>3. \A j, l : j \in A /\ l = j - 1 => IsHole(segments[l])
      BY <1>2
    <3>4. IsHole(segments[k])
      <4>1. k = (k + 1) - 1
        BY <3>1
      <4> QED
        BY <3>1, <3>3, <4>1
    <3>5. c[m] = [segments[k] EXCEPT !.end = segments[k + 1].end]
      BY <1>6, <3>1 DEF Joined, A
    <3>6. IsSegment(segments[k]) /\ IsSegment(segments[k + 1])
      BY <1>7, <2>1, <3>1, <3>2
    <3>7. segments[k + 1].start = segments[k].end + 1
      BY <1>1, <1>8, <3>1, <3>2
    <3>8. /\ DOMAIN c[m] = SegmentFields
          /\ c[m].process = segments[k].process
          /\ c[m].start = segments[k].start /\ c[m].end = segments[k + 1].end
      BY <3>5, <3>6 DEF IsSegment, SegmentFields
    <3>9. IsHole(c[m])
      BY <3>4, <3>8 DEF IsHole
    <3>10. c[m].start \in Int /\ c[m].end \in Int /\ c[m].start <= c[m].end
      BY <3>6, <3>7, <3>8 DEF IsSegment
    <3> QED
      BY <2>2, <3>1, <3>4, <3>8, <3>9, <3>10 DEF IsSegment
  <2>3. CASE at(m) + 1 \notin A
    <3>1. c[m] = segments[at(m)]
      BY <1>6, <2>3 DEF Joined, A
    <3> QED
      BY <2>1, <2>3, <3>1
  <2> QED
    BY <2>2, <2>3
<1>10. (\E S : c \in Seq(S)) /\ Len(c) = N
  <2>1. PICK S : S = {c[m] : m \in 1 .. N}
    OBVIOUS
  <2>2. c \in [1 .. N -> S]
    BY <1>5, <1>6, <2>1
  <2>3. c \in Seq(S)
    BY <1>3, <2>2
  <2>4. 1 .. N = 1 .. Len(c) /\ Len(c) \in Nat
    BY <1>6, <2>3, LenProperties
  <2> QED
    BY <1>3, <2>3, <2>4
<1>11. c[1].start = 0
  <2>1. 1 \in 1 .. N
    BY <1>3
  <2>2. segments[1].start = 0
    BY DEF Tiles
  <2> QED
    BY <1>3, <1>9, <2>1, <2>2
<1>12. c[N].end = size
  <2>1. N \in 1 .. N /\ at(N) = IF n \in A THEN n - 1 ELSE n
    BY <1>3
  <2>2. segments[n].end = size
    BY DEF Tiles, n
  <2>3. CASE n \in A
    <3>1. at(N) + 1 = n
      BY <1>1, <2>1, <2>3
    <3> QED
      BY <1>9, <2>1, <2>2, <2>3, <3>1
  <2>4. CASE n \notin A
    <3>1. at(N) = n /\ n + 1 \notin A
      BY <1>1, <1>2, <2>1, <2>4
    <3> QED
      BY <1>9, <2>1, <2>2, <3>1
  <2> QED
    BY <2>3, <2>4
<1>13. ASSUME NEW m \in 1 .. N - 1
       PROVE  c[m + 1].start = c[m].end + 1
  <2>1. m \in 1 .. N /\ m + 1 \in 1 .. N
    BY <1>3
  <2>2. at(m + 1) = IF at(m) + 1 \in A THEN at(m) + 2 ELSE at(m) + 1
    BY <1>3
  <2>3. PICK k, l \in 1 .. n : k = at(m) /\ l = at(m + 1)
    BY <1>6, <2>1
  <2>4. CASE k + 1 \in A
    <3>1. l = k + 2 /\ k + 1 \in 1 .. n - 1 /\ (k + 1) + 1 = l
      BY <1>1, <2>2, <2>3, <2>4
    <3>2. segments[l].start = segments[k + 1].end + 1
      BY <1>8, <3>1
    <3> QED
      BY <1>9, <2>1, <2>3, <2>4, <3>2
  <2>5. CASE k + 1 \notin A
    <3>1. l = k + 1 /\ k \in 1 .. n - 1
      BY <1>1, <2>2, <2>3, <2>5
    <3>2. segments[l].start = segments[k].end + 1
      BY <1>8, <3>1
    <3> QED
      BY <1>9, <2>1, <2>3, <2>5, <3>2
  <2> QED
    BY <2>4, <2>5
<1>14. Tiles(c, size)
  BY <1>3, <1>9, <1>10, <1>11, <1>12, <1>13 DEF Tiles
<1>15. Apart(segments) => Apart(c)
  <2> SUFFICES ASSUME Apart(segments), NEW m \in Used(c), NEW p \in Used(c),
                      c[m].process = c[p].process
               PROVE  m = p
    BY DEF Apart
  <2>1. m \in 1 .. N /\ p \in 1 .. N /\ ~IsHole(c[m]) /\ ~IsHole(c[p])
    BY <1>6 DEF Used
  <2>2. at(m) \in Used(segments) /\ at(p) \in Used(segments)
    BY <1>1, <1>6, <1>9, <2>1 DEF Used
  <2>3. at(m) = at(p) /\ at(m) \in Nat
    BY <1>6, <1>9, <2>1, <2>2 DEF Apart
  <2>4. ~(m < p) /\ ~(p < m)
    BY <1>3, <2>1, <2>3
  <2> QED
    BY <1>3, <2>1, <2>4
<1>16. Occupants(c) \subseteq Occupants(segments)
  <2> SUFFICES ASSUME NEW m \in Used(c) PROVE c[m].process \in Occupants(segments)
    BY DEF Occupants
  <2>1. m \in 1 .. N /\ ~IsHole(c[m])
    BY <1>6 DEF Used
  <2>2. at(m) \in Used(segments) /\ c[m].process = segments[at(m)].process
    BY <1>1, <1>6, <1>9, <2>1 DEF Used
  <2> QED
    BY <2>2 DEF Occupants
<1>17. Keeps(segments, c, Used(segments))
  <2> SUFFICES ASSUME NEW k \in Used(segments) PROVE \E m \in Used(c) : c[m] = segments[k]
    BY DEF Keeps
  <2>1. k \in 1 .. n /\ ~IsHole(segments[k])
    BY <1>1 DEF Used
  <2>2. k \in K
    BY <1>2, <1>4, <2>1
  <2>3. PICK m \in 1 .. N : at(m) = k
    BY <1>3, <2>2
  <2>4. k + 1 \notin A
    <3>1. (k + 1) - 1 = k
      BY <1>1, <2>1
    <3> QED
      BY <1>2, <2>1, <3>1
  <2>5. c[m] = segments[k]
    BY <1>6, <2>3, <2>4 DEF Joined, A
  <2> QED
    BY <1>6, <2>1, <2>5 DEF Used
<1>18. Occupants(segments) \subseteq Occupants(c)
  BY <1>17 DEF Keeps, Occupants
<1> QED
  BY <1>9, <1>10, <1>14, <1>15, <1>16, <1>17, <1>18 DEF c, N, K, at

-----------------------------------------------------------------------------
(* What a segment becomes when its process leaves or another one enters *)

(* t is s with a hole in place of the k-th segment.                        *)
FreedAt(s, t, k) ==
    /\ DOMAIN t = DOMAIN s /\ \E S : t \in Seq(S)
    /\ \A j \in DOMAIN s : j # k => t[j] = s[j]
    /\ k \in DOMAIN s =>
         /\ DOMAIN t[k] = SegmentFields /\ t[k].process = HOLE
         /\ t[k].start = s[k].start /\ t[k].end = s[k].end

LEMMA FreedFacts ==
    ASSUME NEW segments, NEW size, Tiles(segments, size),
           NEW freed, NEW k, FreedAt(segments, freed, k)
    PROVE  /\ Tiles(freed, size)
           /\ Apart(segments) => Apart(freed)
           /\ Occupants(freed) \subseteq Occupants(segments)
           /\ k \in Used(segments) /\ Apart(segments) =>
                Occupants(freed) = Occupants(segments) \ {segments[k].process}
           /\ Keeps(segments, freed, Used(segments) \ {k})
<1> DEFINE n == Len(segments)
<1>1. /\ n \in Nat \ {0} /\ DOMAIN segments = 1 .. n
      /\ DOMAIN freed = 1 .. n /\ Len(freed) = n
  <2>1. n \in Nat \ {0} /\ DOMAIN segments = 1 .. n
    BY ListFacts
  <2>2. PICK S : freed \in Seq(S)
    BY DEF FreedAt
  <2>3. Len(freed) \in Nat /\ 1 .. Len(freed) = 1 .. n
    BY <2>1, <2>2, LenProperties DEF FreedAt
  <2> HIDE DEF n
  <2> QED
    BY <2>1, <2>3 DEF FreedAt
<1> HIDE DEF n
<1>2. ASSUME NEW j \in 1 .. n
      PROVE  /\ freed[j].start = segments[j].start /\ freed[j].end = segments[j].end
             /\ j = k => IsHole(freed[j])
             /\ j # k => freed[j] = segments[j]
             /\ IsSegment(freed[j])
  <2>1. IsSegment(segments[j])
    BY DEF Tiles, n
  <2>2. CASE j = k
    <3>1. /\ DOMAIN freed[j] = SegmentFields /\ freed[j].process = HOLE
          /\ freed[j].start = segments[j].start /\ freed[j].end = segments[j].end
      BY <1>1, <2>2 DEF FreedAt
    <3> QED
      BY <2>1, <2>2, <3>1 DEF IsSegment, IsHole
  <2>3. CASE j # k
    BY <1>1, <2>1, <2>3 DEF FreedAt
  <2> QED
    BY <2>2, <2>3
<1>3. Tiles(freed, size)
  <2>1. 1 \in 1 .. n /\ n \in 1 .. n
    BY <1>1
  <2>2. \A j \in 1 .. n - 1 : j \in 1 .. n /\ j + 1 \in 1 .. n
    BY <1>1
  <2>3. /\ segments[1].start = 0 /\ segments[n].end = size
        /\ \A j \in 1 .. n - 1 : segments[j + 1].start = segments[j].end + 1
    BY DEF Tiles, n
  <2>4. freed[1].start = 0 /\ freed[n].end = size
    BY <1>2, <2>1, <2>3
  <2>5. \A j \in 1 .. n - 1 : freed[j + 1].start = freed[j].end + 1
    BY <1>2, <2>2, <2>3
  <2> QED
    BY <1>1, <1>2, <2>4, <2>5 DEF Tiles, FreedAt
<1>4. Used(freed) = Used(segments) \ {k}
  BY <1>1, <1>2 DEF Used
<1>5. \A j \in Used(freed) : freed[j] = segments[j]
  BY <1>1, <1>2, <1>4 DEF Used
<1> QED
  BY <1>3, <1>4, <1>5 DEF Apart, Occupants, Keeps

(* mid takes the place of the k-th element.                                *)
Spliced(s, k, mid) == SubSeq(s, 1, k - 1) \o mid \o SubSeq(s, k + 1, Len(s))

LEMMA SpliceFacts ==
    ASSUME NEW T, NEW s \in Seq(T), NEW k \in 1 .. Len(s), NEW mid \in Seq(T),
           NEW r, r = Spliced(s, k, mid)
    PROVE  /\ r \in Seq(T) /\ Len(r) = Len(s) - 1 + Len(mid)
           /\ \A j \in 1 .. k - 1 : r[j] = s[j]
           /\ \A j \in 1 .. Len(mid) : r[k - 1 + j] = mid[j]
           /\ \A j \in k + Len(mid) .. Len(r) : r[j] = s[j - Len(mid) + 1]
<1> DEFINE a == SubSeq(s, 1, k - 1)
           b == SubSeq(s, k + 1, Len(s))
<1>1. Len(s) \in Nat /\ Len(mid) \in Nat
  BY LenProperties
<1>2. a \in Seq(T) /\ Len(a) = k - 1 /\ \A j \in 1 .. k - 1 : a[j] = s[j]
  <2>1. \A j \in 1 .. k - 1 : s[j] \in T
    BY <1>1
  <2> QED
    BY <1>1, <2>1, SubSeqProperties
<1>3. b \in Seq(T) /\ Len(b) = Len(s) - k /\ \A j \in 1 .. Len(s) - k : b[j] = s[k + j]
  BY <1>1
<1> HIDE DEF a, b
<1>4. r = (a \o mid) \o b
  BY DEF a, b, Spliced
<1>5. /\ a \o mid \in Seq(T) /\ Len(a \o mid) = k - 1 + Len(mid)
      /\ \A j \in 1 .. k - 1 : (a \o mid)[j] = a[j]
      /\ \A j \in 1 .. Len(mid) : (a \o mid)[k - 1 + j] = mid[j]
  <2>1. a \o mid \in Seq(T) /\ Len(a \o mid) = k - 1 + Len(mid)
    BY <1>2, ConcatProperties
  <2>2. ASSUME NEW j \in 1 .. k - 1 PROVE (a \o mid)[j] = a[j]
    BY <1>1, <1>2
  <2>3. ASSUME NEW j \in 1 .. Len(mid) PROVE (a \o mid)[k - 1 + j] = mid[j]
    BY <1>1, <1>2
  <2> QED
    BY <2>1, <2>2, <2>3
<1>6. PICK p, N, M : p = a \o mid /\ N = Len(s) /\ M = Len(mid)
  OBVIOUS
<1>7. N \in Nat /\ M \in Nat /\ k \in 1 .. N /\ Len(p) = k - 1 + M /\ p \in Seq(T)
  BY <1>1, <1>5, <1>6
<1>8. /\ r \in Seq(T) /\ Len(r) = Len(p) + Len(b)
      /\ \A j \in 1 .. Len(p) + Len(b) : r[j] = IF j <= Len(p) THEN p[j] ELSE b[j - Len(p)]
  <2>1. r = p \o b
    BY <1>4, <1>6
  <2>2. b \in Seq(T) /\ p \in Seq(T)
    BY <1>3, <1>7
  <2>3. /\ p \o b \in Seq(T) /\ Len(p \o b) = Len(p) + Len(b)
        /\ \A j \in 1 .. Len(p) + Len(b) :
                (p \o b)[j] = IF j <= Len(p) THEN p[j] ELSE b[j - Len(p)]
    BY <2>2, ConcatProperties, Zenon
  <2> QED
    BY <2>1, <2>3
<1>9. Len(b) = N - k /\ Len(r) = N - 1 + M
  <2>1. Len(b) = N - k
    BY <1>3, <1>6
  <2>2. Len(r) = k - 1 + M + (N - k)
    BY <1>7, <1>8, <2>1
  <2>3. k - 1 + M + (N - k) = N - 1 + M
    BY <1>7
  <2> QED
    BY <2>1, <2>2, <2>3
<1>10. ASSUME NEW j \in 1 .. k - 1 PROVE r[j] = s[j]
  <2>1. j \in 1 .. Len(p) + Len(b) /\ j <= Len(p)
    BY <1>7, <1>9
  <2> QED
    BY <1>2, <1>5, <1>6, <1>8, <2>1
<1>11. ASSUME NEW j \in 1 .. M PROVE r[k - 1 + j] = mid[j]
  <2>1. k - 1 + j \in 1 .. Len(p) + Len(b) /\ k - 1 + j <= Len(p)
    <3>1. /\ k - 1 + j \in 1 .. (k - 1 + M) + (N - k) /\ k - 1 + j <= k - 1 + M
      BY <1>7
    <3> QED
      BY <1>7, <1>9, <3>1
  <2>2. r[k - 1 + j] = p[k - 1 + j]
    BY <1>8, <2>1
  <2> QED
    BY <1>5, <1>6, <2>2
<1>12. ASSUME NEW j \in k + M .. Len(r) PROVE r[j] = s[j - M + 1]
  <2>1. j \in 1 .. Len(p) + Len(b) /\ ~(j <= Len(p)) /\ j - Len(p) \in 1 .. N - k
    <3>1. j \in k + M .. N - 1 + M
      BY <1>9
    <3>2. /\ j \in 1 .. (k - 1 + M) + (N - k) /\ ~(j <= k - 1 + M)
          /\ j - (k - 1 + M) \in 1 .. N - k
      BY <1>7, <3>1
    <3> QED
      BY <1>7, <1>9, <3>2
  <2>2. r[j] = b[j - Len(p)]
    BY <1>8, <2>1
  <2>3. b[j - Len(p)] = s[k + (j - Len(p))]
    BY <1>3, <1>6, <2>1
  <2>4. k + (j - Len(p)) = j - M + 1
    BY <1>7
  <2> QED
    BY <2>2, <2>3, <2>4
<1> QED
  BY <1>6, <1>8, <1>9, <1>10, <1>11, <1>12

(* t is s with the k-th segment split in one or two, the first one used.   *)
SplitAt(s, t, k) ==
    \E M \in {1, 2} :
        /\ Len(t) = Len(s) - 1 + M
        /\ ~IsHole(t[k]) /\ (M = 2 => IsHole(t[k + 1]))
        /\ \A j \in 1 .. Len(t) : j < k => t[j] = s[j]
        /\ \A j \in 1 .. Len(t) : j >= k + M => t[j] = s[j - M + 1]

LEMMA SplitFacts ==
    ASSUME NEW segments, NEW size, Tiles(segments, size),
           NEW k \in DOMAIN segments, IsHole(segments[k]),
           NEW p \in Procs, p # HOLE, NEW s \in Nat, s = SizeOf(p),
           s <= LengthOf(segments[k]), NEW now \in Int
    PROVE  /\ Tiles(Split(segments, k, p, s, now), size)
           /\ Apart(segments) /\ p \notin Occupants(segments) =>
                Apart(Split(segments, k, p, s, now))
           /\ Occupants(Split(segments, k, p, s, now)) = Occupants(segments) \cup {p}
           /\ SplitAt(segments, Split(segments, k, p, s, now), k)
<1> DEFINE n == Len(segments)
           hole == segments[k]
           used == [process |-> p, memory_size |-> s, start |-> hole.start,
                    end |-> hole.start + s, time_added |-> now]
           rest == [hole EXCEPT !.start = NextAddress(used)]
           mid == IF hole.end > used.end THEN <<used, rest>> ELSE <<used>>
           t == Split(segments, k, p, s, now)
<1>1. n \in Nat \ {0} /\ DOMAIN segments = 1 .. n /\ k \in 1 .. n
  BY ListFacts
<1>2. PICK S : segments \in Seq(S)
  BY DEF Tiles
<1>3. PICK T : T = S \cup {used, rest}
  OBVIOUS
<1>4. segments \in Seq(T) /\ mid \in Seq(T)
  <2>1. S \subseteq T /\ used \in T /\ rest \in T
    BY <1>3
  <2> HIDE DEF used, rest
  <2>2. segments \in Seq(T)
    BY <1>2, <2>1
  <2>3. <<used>> \in Seq(T) /\ <<used, rest>> \in Seq(T)
    BY <2>1
  <2> QED
    BY <2>2, <2>3
<1>5. PICK M : M = Len(mid)
  OBVIOUS
<1>6. /\ M = IF hole.end > used.end THEN 2 ELSE 1
      /\ mid[1] = used /\ (M = 2 => mid[2] = rest)
  <2> HIDE DEF used, rest, hole
  <2> QED
    BY <1>5
<1>7. /\ t \in Seq(T) /\ Len(t) = n - 1 + M
      /\ \A j \in 1 .. k - 1 : t[j] = segments[j]
      /\ \A j \in 1 .. M : t[k - 1 + j] = mid[j]
      /\ \A j \in k + M .. Len(t) : t[j] = segments[j - M + 1]
  <2>1. t = Spliced(segments, k, mid)
    BY DEF Split, Spliced
  <2> HIDE DEF t, mid
  <2>2. k \in 1 .. Len(segments) /\ segments \in Seq(T) /\ mid \in Seq(T)
    BY <1>1, <1>4
  <2>3. /\ t \in Seq(T) /\ Len(t) = Len(segments) - 1 + Len(mid)
        /\ \A j \in 1 .. k - 1 : t[j] = segments[j]
        /\ \A j \in 1 .. Len(mid) : t[k - 1 + j] = mid[j]
        /\ \A j \in k + Len(mid) .. Len(t) : t[j] = segments[j - Len(mid) + 1]
    BY <2>1, <2>2, SpliceFacts, SMTT(30)
  <2> QED
    BY <1>5, <2>3
<1>8. /\ \A j \in 1 .. n : IsSegment(segments[j])
      /\ segments[1].start = 0 /\ segments[n].end = size
      /\ \A j \in 1 .. n - 1 : segments[j + 1].start = segments[j].end + 1
  BY DEF Tiles
<1>9. /\ DOMAIN hole = SegmentFields /\ hole.process = HOLE
      /\ hole.start \in Int /\ hole.end \in Int /\ hole.start + s <= hole.end
  BY <1>1, <1>8 DEF IsSegment, IsHole, LengthOf
<1>10. /\ used.start = hole.start /\ used.end = hole.start + s /\ used.process = p
       /\ ~IsHole(used) /\ IsSegment(used)
  <2>1. DOMAIN used = SegmentFields
    BY DEF SegmentFields
  <2>2. /\ used.start = hole.start /\ used.end = hole.start + s /\ used.process = p
        /\ used.memory_size = s /\ used.time_added = now
    OBVIOUS
  <2>3. ~IsHole(used)
    BY <2>2 DEF IsHole
  <2>4. used.end - used.start = s /\ used.start <= used.end
    BY <1>9, <2>2
  <2> HIDE DEF used
  <2> QED
    BY <1>9, <2>1, <2>2, <2>3, <2>4 DEF IsSegment, LengthOf
<1>11. /\ rest.start = used.end + 1 /\ rest.end = hole.end /\ IsHole(rest)
       /\ M = 2 => IsSegment(rest)
  <2>1. /\ DOMAIN rest = SegmentFields /\ rest.start = used.end + 1
        /\ rest.end = hole.end /\ rest.process = HOLE
    <3> HIDE DEF hole, used
    <3> QED
      BY <1>9 DEF SegmentFields, NextAddress
  <2>2. M = 2 => rest.start <= rest.end /\ rest.start \in Int /\ rest.end \in Int
    <3> HIDE DEF used, rest, hole
    <3> QED
      BY <1>6, <1>9, <1>10, <2>1
  <2> HIDE DEF used, rest, hole
  <2> QED
    BY <2>1, <2>2 DEF IsSegment, IsHole
<1>12. /\ M \in {1, 2} /\ t[k] = used /\ (M = 2 => t[k + 1] = rest)
       /\ M = 1 => used.end = hole.end
  <2> HIDE DEF used, rest, hole, t, mid
  <2>1. M \in {1, 2}
    BY <1>6
  <2>2. 1 \in 1 .. M /\ k - 1 + 1 = k /\ (M = 2 => 2 \in 1 .. M /\ k - 1 + 2 = k + 1)
    BY <1>1, <2>1
  <2>3. t[k - 1 + 1] = mid[1] /\ (M = 2 => t[k - 1 + 2] = mid[2])
    BY <1>7, <2>2
  <2>4. M = 1 => used.end = hole.end
    BY <1>6, <1>9, <1>10
  <2> QED
    BY <1>6, <2>1, <2>2, <2>3, <2>4
<1>13. hole = segments[k]
  OBVIOUS
<1> HIDE DEF n, hole, used, rest, mid, t
<1>14. PICK N \in Nat : N = n - 1 + M /\ N > 0 /\ Len(t) = N /\ DOMAIN t = 1 .. N
  BY <1>1, <1>7, <1>12
<1> DEFINE from(j) == IF j < k THEN j ELSE j - M + 1
<1>15. ASSUME NEW j \in 1 .. N
       PROVE  \/ j = k
              \/ j = k + 1 /\ M = 2
              \/ /\ j < k \/ j >= k + M
                 /\ t[j] = segments[from(j)] /\ from(j) \in 1 .. n /\ from(j) # k
  <2>1. CASE j < k
    <3>1. j \in 1 .. k - 1 /\ j \in 1 .. n
      BY <1>1, <2>1
    <3> QED
      BY <1>1, <1>7, <2>1, <3>1
  <2>2. CASE j >= k + M
    <3>1. j \in k + M .. N /\ j - M + 1 \in 1 .. n /\ j - M + 1 # k /\ ~(j < k)
      BY <1>1, <1>12, <1>14, <2>2
    <3> QED
      BY <1>7, <1>14, <2>2, <3>1
  <2> QED
    BY <1>1, <1>12, <2>1, <2>2
<1>16. ASSUME NEW j \in 1 .. N PROVE IsSegment(t[j])
  BY <1>8, <1>10, <1>11, <1>12, <1>15
<1>17. t[1].start = 0 /\ t[N].end = size
  <2>1. t[1].start = 0
    <3>1. CASE k = 1
      BY <1>8, <1>10, <1>12, <1>13, <3>1
    <3>2. CASE k # 1
      <4>1. 1 \in 1 .. k - 1
        BY <1>1, <3>2
      <4> QED
        BY <1>7, <1>8, <4>1
    <3> QED
      BY <3>1, <3>2
  <2>2. t[N].end = size
    <3>1. CASE k = n
      <4>1. M = 1 => N = k
        BY <1>1, <1>14, <3>1
      <4>2. M = 2 => N = k + 1
        BY <1>1, <1>14, <3>1
      <4> QED
        BY <1>8, <1>11, <1>12, <1>13, <3>1, <4>1, <4>2
    <3>2. CASE k # n
      <4>1. N \in k + M .. N /\ N - M + 1 = n
        BY <1>1, <1>12, <1>14, <3>2
      <4> QED
        BY <1>7, <1>8, <1>14, <4>1
    <3> QED
      BY <3>1, <3>2
  <2> QED
    BY <2>1, <2>2
<1>18. ASSUME NEW j \in 1 .. N - 1 PROVE t[j + 1].start = t[j].end + 1
  <2>0. j \in Nat /\ k \in Nat /\ n \in Nat
    BY <1>1, <1>14
  <2>1. CASE j + 1 < k
    <3>1. j \in 1 .. k - 1 /\ j + 1 \in 1 .. k - 1 /\ j \in 1 .. n - 1
      BY <1>1, <2>1
    <3> QED
      BY <1>7, <1>8, <3>1
  <2>2. CASE j + 1 = k
    <3>1. j \in 1 .. k - 1 /\ j \in 1 .. n - 1
      BY <1>1, <2>2
    <3>2. segments[j + 1].start = segments[j].end + 1
      BY <1>8, <3>1
    <3>3. t[j] = segments[j]
      BY <1>7, <3>1
    <3> QED
      BY <1>10, <1>12, <1>13, <2>2, <3>2, <3>3
  <2>3. CASE j = k /\ M = 2
    BY <1>10, <1>11, <1>12, <2>3
  <2>4. CASE j = k + M - 1
    <3>1. j + 1 \in k + M .. N /\ (j + 1) - M + 1 = k + 1 /\ k \in 1 .. n - 1
      BY <1>1, <1>12, <1>14, <2>4, SMTT(30)
    <3>2. t[j + 1] = segments[k + 1]
      BY <1>7, <1>14, <3>1
    <3>3. segments[k + 1].start = segments[k].end + 1
      BY <1>8, <3>1
    <3>4. t[j].end = hole.end
      <4>1. M = 1 => j = k
        BY <1>1, <2>4
      <4>2. M = 2 => j = k + 1
        BY <1>1, <2>4
      <4> QED
        BY <1>11, <1>12, <4>1, <4>2
    <3> QED
      BY <1>13, <3>2, <3>3, <3>4
  <2>5. CASE j >= k + M
    <3>1. /\ j \in k + M .. N /\ j + 1 \in k + M .. N
          /\ (j + 1) - M + 1 = (j - M + 1) + 1 /\ j - M + 1 \in 1 .. n - 1
      BY <1>1, <1>12, <1>14, <2>5
    <3>2. segments[(j - M + 1) + 1].start = segments[j - M + 1].end + 1
      BY <1>8, <3>1
    <3>3. t[j + 1] = segments[(j + 1) - M + 1] /\ t[j] = segments[j - M + 1]
      BY <1>7, <1>14, <3>1
    <3> QED
      BY <3>1, <3>2, <3>3
  <2> QED
    BY <1>12, <2>0, <2>1, <2>2, <2>3, <2>4, <2>5
<1>19. Tiles(t, size)
  BY <1>7, <1>14, <1>16, <1>17, <1>18 DEF Tiles
<1>20. ASSUME NEW j \in Used(t)
       PROVE  \/ j = k /\ t[j].process = p
              \/ /\ from(j) \in Used(segments) /\ t[j] = segments[from(j)]
                 /\ j \in Nat /\ (j < k \/ j >= k + M)
  <2>1. j \in 1 .. N /\ ~IsHole(t[j])
    BY <1>14 DEF Used
  <2>2. j # k \/ t[j].process = p
    BY <1>10, <1>12
  <2>3. ~(j = k + 1 /\ M = 2)
    BY <1>11, <1>12, <2>1
  <2> HIDE DEF from
  <2> QED
    BY <1>1, <1>15, <2>1, <2>2, <2>3 DEF Used
<1>21. ASSUME Apart(segments), p \notin Occupants(segments) PROVE Apart(t)
  <2> SUFFICES ASSUME NEW j \in Used(t), NEW l \in Used(t), t[j].process = t[l].process
               PROVE  j = l
    BY DEF Apart
  <2>1. \A m \in Used(segments) : segments[m].process # p
    BY <1>21 DEF Occupants
  <2>2. j = k <=> l = k
    <3>1. k \notin Used(segments)
      BY <1>9, <1>13 DEF Used, IsHole
    <3>2. t[k].process = p
      BY <1>10, <1>12
    <3> HIDE DEF from
    <3> QED
      BY <1>20, <2>1, <3>2
  <2>3. CASE j # k /\ l # k
    <3>1. from(j) = from(l)
      <4> HIDE DEF from
      <4> QED
        BY <1>20, <1>21, <2>3 DEF Apart
    <3>2. j \in Nat /\ l \in Nat /\ (j < k \/ j >= k + M) /\ (l < k \/ l >= k + M)
      <4> HIDE DEF from
      <4> QED
        BY <1>20, <2>3
    <3> QED
      BY <1>1, <1>12, <3>1, <3>2
  <2> QED
    BY <2>2, <2>3
<1>22. Occupants(t) \subseteq Occupants(segments) \cup {p}
  <2> HIDE DEF from
  <2> QED
    BY <1>20 DEF Occupants
<1>23. p \in Occupants(t)
  <2>1. k \in Used(t)
    <3>1. k \in 1 .. N
      BY <1>1, <1>12, <1>14
    <3> QED
      BY <1>10, <1>12, <1>14, <3>1 DEF Used
  <2>2. t[k].process = p
    BY <1>10, <1>12
  <2> QED
    BY <2>1, <2>2 DEF Occupants
<1>24. ASSUME NEW m \in Used(segments) PROVE segments[m].process \in Occupants(t)
  <2>1. m \in 1 .. n /\ ~IsHole(segments[m]) /\ m # k
    BY <1>1, <1>9, <1>13 DEF Used, IsHole
  <2>2. PICK j \in 1 .. N : t[j] = segments[m]
    <3>1. CASE m < k
      <4>1. m \in 1 .. k - 1 /\ m \in 1 .. N
        BY <1>1, <1>12, <1>14, <2>1, <3>1
      <4> QED
        BY <1>7, <4>1
    <3>2. CASE m > k
      <4>1. m + M - 1 \in k + M .. N /\ m + M - 1 \in 1 .. N /\ (m + M - 1) - M + 1 = m
        BY <1>1, <1>12, <1>14, <2>1, <3>2
      <4> QED
        BY <1>7, <1>14, <4>1
    <3> QED
      BY <1>1, <2>1, <3>1, <3>2
  <2>3. j \in Used(t)
    BY <1>14, <2>1, <2>2 DEF Used
  <2> QED
    BY <2>2, <2>3 DEF Occupants
<1>25. Occupants(t) = Occupants(segments) \cup {p}
  <2>1. Occupants(segments) \subseteq Occupants(t)
    BY <1>24 DEF Occupants
  <2> QED
    BY <1>22, <1>23, <2>1
<1>26. SplitAt(segments, t, k)
  <2>1. \A j \in 1 .. N : j < k => t[j] = segments[j]
    BY <1>1, <1>15
  <2>2. \A j \in 1 .. N : j >= k + M => t[j] = segments[j - M + 1]
    BY <1>1, <1>12, <1>15
  <2> QED
    BY <1>10, <1>11, <1>12, <1>14, <2>1, <2>2 DEF SplitAt, n
<1> QED
  BY <1>19, <1>21, <1>25, <1>26 DEF t

-----------------------------------------------------------------------------
(* The functions of memory.c *)

MemoryFields == {"segments", "num_processes", "num_holes", "usage", "size"}
IsMemory(m) ==
    /\ DOMAIN m = MemoryFields
    /\ Tiles(m.segments, m.size) /\ Apart(m.segments)

LEMMA ResidentsAreUsed == ASSUME NEW m PROVE Residents(m) = Used(m.segments)
  BY DEF Residents, Holes, Used

LEMMA UpdateFacts ==
    ASSUME NEW m, IsMemory(m)
    PROVE  /\ IsMemory(update_memory(m))
           /\ Occupants(update_memory(m).segments) = Occupants(m.segments)
           /\ Keeps(m.segments, update_memory(m).segments, Used(m.segments))
           /\ update_memory(m).segments = concat_holes(m.segments)
<1> DEFINE c == concat_holes(m.segments)
           joined == [m EXCEPT !.segments = c]
           u == update_memory(m)
<1>1. DOMAIN joined = MemoryFields /\ joined.segments = c /\ joined.size = m.size
  BY DEF IsMemory, MemoryFields
<1>2. PICK holes, usage : u = [joined EXCEPT !.num_holes = holes, !.usage = usage]
  BY DEF update_memory
<1> HIDE DEF c, joined, u
<1>3. DOMAIN u = MemoryFields /\ u.segments = c /\ u.size = m.size
  BY <1>1, <1>2 DEF MemoryFields
<1>4. /\ Tiles(c, m.size) /\ Apart(c) /\ Occupants(c) = Occupants(m.segments)
      /\ Keeps(m.segments, c, Used(m.segments))
  BY ConcatFacts DEF IsMemory, c
<1> QED
  BY <1>3, <1>4 DEF IsMemory, u, c

(* The memory before update_memory, in free_segment and in add_to_memory.  *)
Freed(m, k) ==
    [m EXCEPT !.segments[k].process = HOLE,
              !.segments[k].memory_size = 0,
              !.segments[k].time_added = 0,
              !.num_processes = @ - 1]
Added(m, p, size, now) ==
    [m EXCEPT !.segments = Split(m.segments, Min(Fitting(m, size)), p, size, now),
              !.num_processes = @ + 1]

LEMMA FreeFacts ==
    ASSUME NEW m, IsMemory(m), NEW k
    PROVE  /\ IsMemory(free_segment(m, k))
           /\ Occupants(free_segment(m, k).segments) \subseteq Occupants(m.segments)
           /\ k \in Residents(m) =>
                Occupants(free_segment(m, k).segments)
                    = Occupants(m.segments) \ {m.segments[k].process}
           /\ Keeps(m.segments, free_segment(m, k).segments, Used(m.segments) \ {k})
           /\ \E t : /\ Tiles(t, m.size) /\ FreedAt(m.segments, t, k)
                     /\ free_segment(m, k).segments = concat_holes(t)
           /\ IsMemory(Freed(m, k))
           /\ k \in Residents(m) =>
                Occupants(Freed(m, k).segments) = Occupants(m.segments) \ {m.segments[k].process}
<1> DEFINE s == m.segments
           g == Freed(m, k)
<1>1. DOMAIN g = MemoryFields /\ g.size = m.size
  BY DEF IsMemory, MemoryFields, Freed
<1>2. /\ DOMAIN g.segments = DOMAIN s
      /\ \A j \in DOMAIN s : j # k => g.segments[j] = s[j]
  BY DEF IsMemory, MemoryFields, Freed
<1>3. ASSUME k \in DOMAIN s
      PROVE  /\ DOMAIN g.segments[k] = SegmentFields /\ g.segments[k].process = HOLE
             /\ g.segments[k].start = s[k].start /\ g.segments[k].end = s[k].end
  <2>1. DOMAIN s[k] = SegmentFields
    <3>1. DOMAIN s = 1 .. Len(s)
      BY ListFacts DEF IsMemory
    <3> QED
      BY <1>3, <3>1 DEF IsMemory, Tiles, IsSegment
  <2> QED
    BY <1>3, <2>1 DEF IsMemory, MemoryFields, SegmentFields, Freed
<1>4. \E S : g.segments \in Seq(S)
  <2>1. PICK f : f = g.segments /\ DOMAIN f = DOMAIN s
    BY <1>2
  <2>2. f = [j \in DOMAIN s |-> f[j]]
    <3>1. PICK h1, h2, h3 : f = [[[s EXCEPT ![k] = h1] EXCEPT ![k] = h2] EXCEPT ![k] = h3]
      BY <2>1 DEF IsMemory, MemoryFields, Freed
    <3> QED
      BY <3>1
  <2>3. Len(s) \in Nat /\ DOMAIN s = 1 .. Len(s)
    BY ListFacts DEF IsMemory
  <2>4. PICK S : S = {f[j] : j \in DOMAIN s}
    OBVIOUS
  <2>5. f \in [1 .. Len(s) -> S]
    BY <2>2, <2>3, <2>4
  <2>6. f \in Seq(S)
    BY <2>3, <2>5
  <2> QED
    BY <2>1, <2>6
<1>5. free_segment(m, k) = update_memory(g)
  BY DEF free_segment, Freed
<1> HIDE DEF s, g
<1>6. Tiles(s, m.size) /\ Apart(s)
  BY DEF IsMemory, s
<1>7. FreedAt(s, g.segments, k)
  BY <1>2, <1>3, <1>4 DEF FreedAt
<1>8. /\ Tiles(g.segments, m.size) /\ Apart(g.segments)
      /\ Occupants(g.segments) \subseteq Occupants(s)
      /\ k \in Used(s) => Occupants(g.segments) = Occupants(s) \ {s[k].process}
      /\ Keeps(s, g.segments, Used(s) \ {k})
  BY <1>6, <1>7, FreedFacts
<1>9. IsMemory(g)
  BY <1>1, <1>8 DEF IsMemory
<1>10. Keeps(s, update_memory(g).segments, Used(s) \ {k})
  BY <1>8, <1>9, UpdateFacts DEF Keeps
<1> QED
  BY <1>1, <1>5, <1>7, <1>8, <1>9, <1>10, UpdateFacts, ResidentsAreUsed DEF s, g

LEMMA SizeFacts ==
    ASSUME TypeOK, NEW p \in Procs
    PROVE  SizeOf(p) \in Nat
<1> DEFINE P == [time_created : Nat, memory_size : Nat, job_time : Nat]
<1>1. processes \in Seq(P)
  BY WorkloadsAssumption DEF TypeOK
<1>2. \A P1 : processes \in Seq(P1) => processes[p] \in P1
  BY LenProperties DEF Procs
<1>3. processes[p] \in P
  BY <1>1, <1>2
<1> QED
  BY <1>3 DEF SizeOf

LEMMA AddFacts ==
    ASSUME TypeOK, NEW m, IsMemory(m), NEW p \in Procs, NEW now \in Int,
           find_segment(m, p) = {}, Fitting(m, SizeOf(p)) # {}
    PROVE  /\ IsMemory(add_to_memory(m, p, SizeOf(p), now))
           /\ Occupants(add_to_memory(m, p, SizeOf(p), now).segments)
                = Occupants(m.segments) \cup {p}
           /\ \E t : \E k \in Holes(m) :
                /\ Tiles(t, m.size) /\ SplitAt(m.segments, t, k)
                /\ add_to_memory(m, p, SizeOf(p), now).segments = concat_holes(t)
           /\ IsMemory(Added(m, p, SizeOf(p), now))
           /\ Occupants(Added(m, p, SizeOf(p), now).segments) = Occupants(m.segments) \cup {p}
<1> DEFINE s == m.segments
           k == Min(Fitting(m, SizeOf(p)))
           t == Split(s, k, p, SizeOf(p), now)
           g == Added(m, p, SizeOf(p), now)
<1>1. DOMAIN s = 1 .. Len(s) /\ Tiles(s, m.size) /\ Apart(s)
  BY ListFacts DEF IsMemory
<1>2. k \in DOMAIN s /\ IsHole(s[k]) /\ SizeOf(p) <= LengthOf(s[k])
  <2>1. Fitting(m, SizeOf(p)) \subseteq Nat
    BY <1>1 DEF Fitting, Holes
  <2>2. k \in Fitting(m, SizeOf(p))
    BY <2>1, MinIsIn
  <2> HIDE DEF k
  <2> QED
    BY <2>2 DEF Fitting, Holes
<1>3. p \notin Occupants(s)
  BY ResidentsAreUsed DEF find_segment, Occupants
<1>4. p # HOLE /\ SizeOf(p) \in Nat
  BY ProcessFacts, SizeFacts DEF NULL, HOLE
<1>5. DOMAIN g = MemoryFields /\ g.size = m.size /\ g.segments = t
  BY DEF IsMemory, MemoryFields, Added
<1>6. add_to_memory(m, p, SizeOf(p), now) = update_memory(g)
  BY DEF add_to_memory, Added
<1> HIDE DEF s, k, g
<1>7. /\ Tiles(t, m.size) /\ Apart(t) /\ Occupants(t) = Occupants(s) \cup {p}
      /\ SplitAt(s, t, k)
  BY <1>1, <1>2, <1>3, <1>4, SplitFacts
<1> HIDE DEF t
<1>8. IsMemory(g)
  BY <1>5, <1>7 DEF IsMemory
<1>9. k \in Holes(m)
  BY <1>2 DEF Holes, s
<1> QED
  BY <1>5, <1>6, <1>7, <1>8, <1>9, UpdateFacts DEF s, g

-----------------------------------------------------------------------------
(* The invariant *)

Occupancy ==
    /\ \A p \in Occupants(memory.segments) : Live(p)
    /\ ~aborted /\ cpu # NULL => cpu \in Occupants(memory.segments)
MemoryInv == IsMemory(memory) /\ Occupancy

LEMMA InitialMemory == SimInit => MemoryInv
<1> SUFFICES ASSUME SimInit PROVE MemoryInv
  OBVIOUS
<1>1. PICK size \in MemSizes : memory = memory_init(size)
  BY DEF SimInit
<1>2. size \in Nat /\ size > 0
  BY MemSizesAssumption
<1> DEFINE hole == [process |-> HOLE, memory_size |-> 0,
                    start |-> 0, end |-> size, time_added |-> 0]
<1>3. DOMAIN memory = MemoryFields /\ memory.segments = <<hole>> /\ memory.size = size
  BY <1>1 DEF memory_init, MemoryFields
<1>4. /\ DOMAIN hole = SegmentFields /\ hole.process = HOLE
      /\ hole.start = 0 /\ hole.end = size
  BY DEF SegmentFields
<1> HIDE DEF hole
<1>5. IsHole(hole) /\ IsSegment(hole)
  BY <1>2, <1>4 DEF IsHole, IsSegment
<1>6. /\ <<hole>> \in Seq({hole}) /\ Len(<<hole>>) = 1 /\ <<hole>>[1] = hole
      /\ DOMAIN <<hole>> = {1}
  OBVIOUS
<1>7. Tiles(<<hole>>, size)
  <2>1. \A j \in 1 .. 1 : j = 1
    OBVIOUS
  <2>2. 1 .. 1 - 1 = {}
    OBVIOUS
  <2>3. Len(<<hole>>) > 0
    BY <1>6
  <2> QED
    BY <1>4, <1>5, <1>6, <2>1, <2>2, <2>3 DEF Tiles
<1>8. Used(<<hole>>) = {}
  BY <1>5, <1>6 DEF Used
<1>9. cpu = NULL
  BY DEF SimInit, Init
<1> QED
  BY <1>3, <1>7, <1>8, <1>9 DEF MemoryInv, IsMemory, Occupancy, Apart, Occupants

(* The input never changes, so that a memory stays one in the next state.  *)
LEMMA NextMemory ==
    ASSUME processes' = processes, IsMemory(memory')
    PROVE  IsMemory(memory)'
  BY DEF IsMemory, Tiles, IsSegment, SizeOf, Procs

LEMMA DispatchedFacts ==
    ASSUME IInv, Dispatch
    PROVE  /\ temp' \in Procs /\ Live(temp') /\ cpu' = temp'
           /\ processes' = processes /\ remaining' = remaining
<1>1. /\ cpu' = temp' /\ processes' = processes /\ remaining' = remaining
  BY DEF Dispatch, input, nodes
<1>2. TypeOK' /\ EveryNodeInOnePlace'
  BY DispatchInv DEF IInv
<1>3. temp' \in Procs
  <2>1. PICK l \in Levels : queues[l] # <<>> /\ temp' = Head(queues[l])
    BY DEF Dispatch, FirstNonEmpty
  <2>2. queues[l] \in Seq(Procs)
    BY QueueFacts DEF IInv
  <2> QED
    BY <2>1, <2>2
<1>4. Live(temp')
  <2>1. \A p \in Procs : cpu' = p => remaining'[p] > 0
    BY <1>1, <1>2 DEF EveryNodeInOnePlace, LiveIsPlaced, Procs, Live
  <2> QED
    BY <1>1, <1>3, <2>1 DEF Live
<1> QED
  BY <1>1, <1>3, <1>4

(* What happens to the nodes of live processes in a tick.                  *)
LEMMA TickFacts ==
    ASSUME IInv, Consume
    PROVE  /\ cpu = temp /\ cpu \in Procs /\ DOMAIN remaining = Procs
           /\ remaining[temp] \in Nat /\ remaining[temp] > 0
           /\ remaining' = [remaining EXCEPT ![temp] = remaining[temp] - 1]
<1>1. cpu = temp /\ temp \in Procs
  BY DEF IInv, TempIsOnCpu, Consume, TypeOK
<1>2. Live(temp) /\ DOMAIN remaining = Procs /\ remaining[temp] \in Nat \cup {NoNode}
  BY <1>1 DEF IInv, EveryNodeInOnePlace, LiveIsPlaced, TypeOK
<1> QED
  BY <1>1, <1>2 DEF Live, NoNode, Consume

LEMMA OccupantsAreProcs == ASSUME IsMemory(memory) PROVE Occupants(memory.segments) \subseteq Procs
<1>1. DOMAIN memory.segments = 1 .. Len(memory.segments)
  BY ListFacts DEF IsMemory
<1> QED
  BY <1>1 DEF IsMemory, Tiles, IsSegment, Occupants, Used

LEMMA RunResidentKeepsMemory ==
    ASSUME IInv, MemoryInv, RunResident PROVE MemoryInv'
<1>1. memory' = memory /\ aborted' = aborted
  BY DEF RunResident
<1>2. temp' \in Occupants(memory.segments)
  <2>1. PICK k \in Residents(memory) : memory.segments[k].process = temp'
    BY DEF RunResident, find_segment
  <2> QED
    BY <2>1, ResidentsAreUsed DEF Occupants
<1>3. cpu' = temp' /\ processes' = processes /\ remaining' = remaining
  BY DispatchedFacts DEF RunResident
<1>4. IsMemory(memory)'
  BY <1>1, <1>3, NextMemory DEF MemoryInv
<1> QED
  BY <1>1, <1>2, <1>3, <1>4 DEF MemoryInv, Occupancy, Live, Occupants, Used

LEMMA BringInKeepsMemory ==
    ASSUME IInv, MemoryInv, BringIn PROVE MemoryInv'
<1>1. /\ temp' \in Procs /\ Live(temp') /\ cpu' = temp'
      /\ processes' = processes /\ remaining' = remaining
  BY DispatchedFacts DEF BringIn
<1>2. /\ find_segment(memory, temp') = {} /\ Fitting(memory, SizeOf(temp')) # {}
      /\ memory' = add_to_memory(memory, temp', SizeOf(temp'), time)
  BY DEF BringIn
<1>3. /\ IsMemory(memory')
      /\ Occupants(memory'.segments) = Occupants(memory.segments) \cup {temp'}
  <2>1. TypeOK /\ time \in Int /\ IsMemory(memory)
    BY DEF IInv, TypeOK, MemoryInv
  <2> QED
    BY <1>1, <1>2, <2>1, AddFacts
<1>4. IsMemory(memory)'
  BY <1>1, <1>3, NextMemory
<1>5. \A p \in Occupants(memory'.segments) : remaining'[p] > 0
  BY <1>1, <1>3 DEF MemoryInv, Occupancy, Live
<1>6. cpu' \in Occupants(memory'.segments)
  BY <1>1, <1>3
<1> QED
  BY <1>4, <1>5, <1>6 DEF MemoryInv, Occupancy, Live, Occupants, Used

LEMMA SwapOutKeepsMemory ==
    ASSUME MemoryInv, SwapOut PROVE MemoryInv'
<1>1. /\ memory' = update_memory(swap_out_process(memory))
      /\ processes' = processes /\ remaining' = remaining /\ cpu' = NULL
  BY DEF SwapOut, vars, input, nodes, onCpu
<1>2. /\ IsMemory(memory')
      /\ Occupants(memory'.segments) \subseteq Occupants(memory.segments)
  BY <1>1, FreeFacts, UpdateFacts DEF MemoryInv, swap_out_process
<1>3. IsMemory(memory)'
  BY <1>1, <1>2, NextMemory
<1>4. \A p \in Occupants(memory'.segments) : remaining'[p] > 0
  BY <1>1, <1>2 DEF MemoryInv, Occupancy, Live
<1> QED
  BY <1>1, <1>3, <1>4 DEF MemoryInv, Occupancy, Live, Occupants, Used

LEMMA CompleteKeepsMemory ==
    ASSUME IInv, MemoryInv, Complete PROVE MemoryInv'
<1>1. Consume /\ cpu' = NULL /\ processes' = processes
  BY DEF Complete, Finish, input
<1>2. PICK k \in Residents(memory) :
        memory.segments[k].process = cpu /\ memory' = free_segment(memory, k)
  BY DEF Complete, find_segment
<1>3. /\ IsMemory(memory')
      /\ Occupants(memory'.segments) = Occupants(memory.segments) \ {cpu}
  BY <1>2, FreeFacts DEF MemoryInv
<1>4. IsMemory(memory)'
  BY <1>1, <1>3, NextMemory
<1>5. \A p \in Occupants(memory'.segments) : remaining'[p] > 0
  <2>1. \A p \in Procs \ {cpu} : remaining'[p] = remaining[p]
    BY <1>1, TickFacts
  <2>2. \A p \in Occupants(memory'.segments) : p \in Procs \ {cpu} /\ remaining[p] > 0
    BY <1>3, OccupantsAreProcs DEF MemoryInv, Occupancy, Live
  <2> QED
    BY <2>1, <2>2
<1> QED
  BY <1>1, <1>4, <1>5 DEF MemoryInv, Occupancy, Live, Occupants, Used

(* The steps that leave memory alone leave the processes in it alive.      *)
LEMMA OthersKeepMemory ==
    ASSUME IInv, MemoryInv, NoMemoryStep PROVE MemoryInv'
<1>1. memory' = memory /\ aborted' = aborted
  BY DEF NoMemoryStep
<1> DEFINE Safe == /\ processes' = processes /\ cpu' \in {cpu, NULL}
                   /\ \A p \in Procs : remaining[p] > 0 => remaining'[p] > 0
<1>2. ASSUME LoopTest \/ NothingReady \/ KeepRunning \/ Idle PROVE Safe
  BY <1>2 DEF LoopTest, NothingReady, KeepRunning, Idle, input, nodes, onCpu
<1>3. ASSUME Admit PROVE Safe
  <2>1. processes' = processes /\ cpu' = cpu
    BY <1>3 DEF Admit, input, onCpu
  <2>2. CASE CreatedNow(i)
    <3>1. remaining' = [remaining EXCEPT ![i] = processes[i].job_time]
      BY <1>3, <2>2 DEF Admit, fcfs_add_process
    <3>2. DOMAIN remaining = Procs /\ \A p \in Procs : processes[p].job_time > 0
      BY ProcessFacts DEF IInv, TypeOK
    <3> QED
      BY <2>1, <3>1, <3>2
  <2>3. CASE ~CreatedNow(i)
    BY <1>3, <2>1, <2>3 DEF Admit, nodes
  <2> QED
    BY <2>2, <2>3
<1>4. ASSUME Execute \/ Preempt PROVE Safe
  <2>1. /\ Consume /\ remaining[temp] # 1
        /\ processes' = processes /\ cpu' \in {cpu, NULL}
    BY <1>4 DEF Execute, Preempt, input
  <2>2. /\ DOMAIN remaining = Procs /\ remaining[temp] \in Nat /\ remaining[temp] > 0
        /\ remaining' = [remaining EXCEPT ![temp] = remaining[temp] - 1]
    BY <2>1, TickFacts
  <2>3. remaining[temp] - 1 > 0
    BY <2>1, <2>2
  <2> QED
    BY <2>1, <2>2, <2>3
<1>5. Safe
  BY <1>2, <1>3, <1>4 DEF NoMemoryStep
<1>6. IsMemory(memory)'
  BY <1>1, <1>5, NextMemory DEF MemoryInv
<1>7. \A p \in Occupants(memory'.segments) : remaining'[p] > 0
  BY <1>1, <1>5, OccupantsAreProcs DEF MemoryInv, Occupancy, Live
<1>8. ~aborted' /\ cpu' # NULL => cpu' \in Occupants(memory'.segments)
  BY <1>1, <1>5 DEF MemoryInv, Occupancy
<1> QED
  BY <1>6, <1>7, <1>8 DEF MemoryInv, Occupancy, Live, Occupants, Used

LEMMA GiveUpKeepsMemory ==
    ASSUME IInv, MemoryInv, GiveUp PROVE MemoryInv'
<1>1. memory' = memory /\ aborted'
  BY DEF GiveUp
<1>2. processes' = processes /\ remaining' = remaining
  BY DispatchedFacts DEF GiveUp
<1>3. IsMemory(memory)'
  BY <1>1, <1>2, NextMemory DEF MemoryInv
<1> QED
  BY <1>1, <1>2, <1>3 DEF MemoryInv, Occupancy, Live, Occupants, Used

LEMMA MemoryStep == IInv /\ MemoryInv /\ [SimNext]_simVars => MemoryInv'
<1> SUFFICES ASSUME IInv, MemoryInv, [SimNext]_simVars PROVE MemoryInv'
  OBVIOUS
<1>1. CASE UNCHANGED simVars
  BY <1>1 DEF simVars, vars, input, nodes, onCpu, MemoryInv, IsMemory, Tiles, IsSegment,
              SizeOf, Procs, Occupancy, Live, Occupants, Used
<1> QED
  BY <1>1, RunResidentKeepsMemory, BringInKeepsMemory, SwapOutKeepsMemory, GiveUpKeepsMemory,
     CompleteKeepsMemory, OthersKeepMemory DEF SimNext

LEMMA SimulationSchedules == SimSpec => Spec
<1>1. SimInit => Init
  BY DEF SimInit
<1>2. [SimNext]_simVars => [Next]_vars
  BY DEF SimNext, RunResident, BringIn, SwapOut, GiveUp, Complete, NoMemoryStep, Next, Run,
         simVars
<1> QED
  BY <1>1, <1>2, PTL DEF SimSpec, Spec

LEMMA MemoryAlways == SimSpec => [](IInv /\ MemoryInv)
<1>1. SimSpec => []IInv
  BY SimulationSchedules, Invariance, PTL
<1> QED
  BY <1>1, InitialMemory, MemoryStep, PTL DEF SimSpec

-----------------------------------------------------------------------------
(* The counters of a memory *)

UsageOf(segments) ==
    Sum([k \in Used(segments) |-> segments[k].memory_size], Used(segments))
AddsSizes(m, g) ==
    g = [s \in SUBSET Residents(m) |->
            IF s = {} THEN 0 ELSE m.segments[Pick(s)].memory_size + g[s \ {Pick(s)}]]

LEMMA UsageIsSum ==
    ASSUME NEW m, IsFiniteSet(Residents(m))
    PROVE  update_usage(m) = UsageOf(m.segments)
<1> DEFINE R == Residents(m)
           f == [k \in R |-> m.segments[k].memory_size]
<1>1. update_usage(m) = (CHOOSE g : AddsSizes(m, g))[R]
  BY DEF update_usage, MapThenSumSet, MapThenFoldSet, AddsSizes, Pick
<1>2. ASSUME NEW g PROVE AddsSizes(m, g) <=> Adds(f, R, g)
  <2>1. \A s \in SUBSET R : s # {} => f[Pick(s)] = m.segments[Pick(s)].memory_size
    BY PickIsIn
  <2> HIDE DEF f
  <2> QED
    BY <2>1 DEF AddsSizes, Adds
<1> HIDE DEF R, f
<1>3. \E g : AddsSizes(m, g)
  BY <1>2, AddsExists DEF R
<1>4. PICK g : Adds(f, R, g) /\ update_usage(m) = g[R]
  BY <1>1, <1>2, <1>3
<1>5. PICK h : Adds(f, R, h) /\ Sum(f, R) = h[R]
  BY AddsExists, SumIsChosen DEF R
<1>6. g[R] = h[R]
  BY <1>4, <1>5, AddsUnique DEF R
<1> QED
  BY <1>4, <1>5, <1>6, ResidentsAreUsed DEF UsageOf, R, f

(* The used segments up to the k-th take no more than the addresses up to  *)
(* its end.                                                                *)
LEMMA UsageIsBounded ==
    ASSUME NEW segments, NEW size, Tiles(segments, size), TypeOK
    PROVE  UsageOf(segments) \in Nat /\ UsageOf(segments) <= size
<1> DEFINE n == Len(segments)
           U(k) == Used(segments) \cap (1 .. k)
           f == [k \in Used(segments) |-> segments[k].memory_size]
           G == {k \in Nat : k + 1 \in 1 .. n =>
                    Sum(f, U(k + 1)) \in Nat /\ Sum(f, U(k + 1)) <= segments[k + 1].end}
<1>1. n \in Nat \ {0} /\ DOMAIN segments = 1 .. n
  BY ListFacts
<1>2. \A k \in 1 .. n : IsSegment(segments[k])
  BY DEF Tiles
<1>3. ASSUME NEW k \in Used(segments)
      PROVE  f[k] \in Nat /\ f[k] = segments[k].end - segments[k].start
  <2>1. k \in 1 .. n /\ ~IsHole(segments[k])
    BY <1>1 DEF Used
  <2>2. segments[k].memory_size = LengthOf(segments[k]) /\ segments[k].process \in Procs
    BY <1>2, <2>1 DEF IsSegment
  <2> QED
    BY <1>2, <2>1, <2>2 DEF IsSegment, LengthOf
<1>4. ASSUME NEW k \in 1 .. n
      PROVE  /\ IsFiniteSet(U(k)) /\ \A j \in U(k) : f[j] \in Int
             /\ Sum(f, U(k)) = IF k \in Used(segments) THEN f[k] + Sum(f, U(k - 1))
                                                       ELSE Sum(f, U(k - 1))
  <2>1. IsFiniteSet(U(k)) /\ \A j \in U(k) : f[j] \in Int
    <3>1. IsFiniteSet(1 .. k)
      BY FS_Interval
    <3> QED
      BY <1>3, <3>1, FS_Subset
  <2>2. U(k - 1) = U(k) \ {k}
    BY <1>1 DEF Used
  <2>3. k \notin Used(segments) => U(k - 1) = U(k)
    BY <2>2
  <2> HIDE DEF f, U
  <2>4. \A j \in U(k) : Sum(f, U(k)) = f[j] + Sum(f, U(k) \ {j})
    BY <2>1, SumRemove
  <2>5. k \in Used(segments) => k \in U(k)
    BY <1>1 DEF U
  <2> QED
    BY <2>1, <2>2, <2>3, <2>4, <2>5
<1>5. U(0) = {} /\ Sum(f, {}) = 0
  <2> HIDE DEF f
  <2> QED
    BY SumRemove, FS_EmptySet
<1>6. U(n) = Used(segments)
  BY <1>1 DEF Used
<1> HIDE DEF f, U
<1>7. 0 \in G
  <2>1. 1 \in 1 .. n /\ 1 - 1 = 0 /\ segments[1].start = 0
    BY <1>1 DEF Tiles
  <2>2. IsSegment(segments[1])
    BY <1>2, <2>1
  <2>3. Sum(f, U(1)) = IF 1 \in Used(segments) THEN f[1] + 0 ELSE 0
    BY <1>4, <1>5, <2>1
  <2>4. 1 \in Used(segments) => f[1] \in Nat /\ f[1] = segments[1].end
    BY <1>3, <2>1, <2>2 DEF IsSegment
  <2> QED
    BY <2>1, <2>2, <2>3, <2>4 DEF IsSegment
<1>8. ASSUME NEW k \in Nat, k \in G PROVE k + 1 \in G
  <2> SUFFICES ASSUME k + 2 \in 1 .. n
               PROVE  Sum(f, U(k + 2)) \in Nat /\ Sum(f, U(k + 2)) <= segments[k + 2].end
    OBVIOUS
  <2>1. k + 1 \in 1 .. n - 1 /\ k + 1 \in 1 .. n /\ k + 2 = (k + 1) + 1 /\ (k + 2) - 1 = k + 1
    BY <1>1
  <2>2. Sum(f, U(k + 1)) \in Nat /\ Sum(f, U(k + 1)) <= segments[k + 1].end
    BY <1>8, <2>1
  <2>3. segments[k + 2].start = segments[k + 1].end + 1
    BY <2>1 DEF Tiles, n
  <2>4. IsSegment(segments[k + 1]) /\ IsSegment(segments[k + 2])
    BY <1>2, <2>1
  <2>5. Sum(f, U(k + 2)) = IF k + 2 \in Used(segments) THEN f[k + 2] + Sum(f, U(k + 1))
                                                      ELSE Sum(f, U(k + 1))
    BY <1>4, <2>1
  <2>6. k + 2 \in Used(segments) =>
            f[k + 2] \in Nat /\ f[k + 2] = segments[k + 2].end - segments[k + 2].start
    BY <1>3
  <2> HIDE DEF n, G
  <2> QED
    BY <2>2, <2>3, <2>4, <2>5, <2>6 DEF IsSegment
<1>9. n - 1 \in G
  <2>1. n - 1 \in Nat
    BY <1>1
  <2> HIDE DEF n, G
  <2> QED
    BY <1>7, <1>8, <2>1, UpwardInduction
<1>10. Sum(f, U(n)) \in Nat /\ Sum(f, U(n)) <= segments[n].end
  <2>1. (n - 1) + 1 = n /\ n \in 1 .. n
    BY <1>1
  <2> QED
    BY <1>9, <2>1
<1>11. segments[n].end = size
  BY DEF Tiles, n
<1> QED
  BY <1>6, <1>10, <1>11 DEF UsageOf, f

LEMMA OccupantsAreCounted ==
    ASSUME NEW m, IsMemory(m)
    PROVE  /\ IsFiniteSet(Residents(m)) /\ IsFiniteSet(Occupants(m.segments))
           /\ Cardinality(Residents(m)) = Cardinality(Occupants(m.segments))
           /\ Cardinality(Occupants(m.segments)) \in Nat
<1> DEFINE s == m.segments
           f == [k \in Used(s) |-> s[k].process]
<1>1. IsFiniteSet(Used(s))
  <2>1. DOMAIN s = 1 .. Len(s) /\ Len(s) \in Nat
    BY ListFacts DEF IsMemory
  <2>2. IsFiniteSet(1 .. Len(s))
    BY <2>1, FS_Interval
  <2> QED
    BY <2>1, <2>2, FS_Subset DEF Used
<1>2. \A j, k \in Used(s) : f[j] = f[k] => j = k
  BY DEF IsMemory, Apart
<1>3. Occupants(s) = {f[k] : k \in Used(s)}
  BY DEF Occupants
<1> HIDE DEF f, s
<1>4. IsFiniteSet(Occupants(s)) /\ Cardinality(Occupants(s)) = Cardinality(Used(s))
  BY <1>1, <1>2, <1>3, ImageIsCounted
<1> QED
  BY <1>1, <1>4, ResidentsAreUsed, FS_CardinalityType DEF s

(* What the counters of a memory are to say.                               *)
Counted(m) ==
    /\ m.size \in Nat \ {0}
    /\ m.num_processes = Cardinality(Occupants(m.segments))
    /\ m.num_holes = Cardinality(Holes(m))
    /\ m.usage = UsageOf(m.segments)

LEMMA UpdateCounts ==
    ASSUME NEW m, IsMemory(m), m.size \in Nat \ {0},
           m.num_processes = Cardinality(Occupants(m.segments))
    PROVE  Counted(update_memory(m))
<1> DEFINE c == concat_holes(m.segments)
           joined == [m EXCEPT !.segments = c]
           u == update_memory(m)
<1>1. joined.segments = c /\ DOMAIN joined = MemoryFields
  BY DEF IsMemory, MemoryFields
<1>2. u = [joined EXCEPT !.num_holes = count_holes(joined), !.usage = update_usage(joined)]
  BY DEF update_memory
<1>3. joined.num_processes = m.num_processes /\ joined.size = m.size
  BY DEF IsMemory, MemoryFields
<1> HIDE DEF joined
<1>4. /\ u.segments = c /\ u.num_processes = m.num_processes /\ u.size = m.size
      /\ u.num_holes = count_holes(joined) /\ u.usage = update_usage(joined)
  <2> HIDE DEF u
  <2> QED
    BY <1>1, <1>2, <1>3 DEF MemoryFields
<1> HIDE DEF u, c
<1>5. Holes(u) = Holes(joined) /\ Residents(u) = Residents(joined)
  BY <1>1, <1>4 DEF Holes, Residents
<1>6. IsMemory(u) /\ Occupants(u.segments) = Occupants(m.segments)
  BY UpdateFacts DEF u
<1>7. update_usage(joined) = UsageOf(u.segments)
  BY <1>1, <1>4, <1>5, <1>6, OccupantsAreCounted, UsageIsSum
<1> QED
  BY <1>4, <1>5, <1>6, <1>7 DEF Counted, count_holes, u

LEMMA FreeCounts ==
    ASSUME NEW m, IsMemory(m), Counted(m), NEW k \in Residents(m)
    PROVE  Counted(free_segment(m, k))
<1> DEFINE g == Freed(m, k)
<1>1. free_segment(m, k) = update_memory(g)
  BY DEF free_segment, Freed
<1>2. IsMemory(g) /\ Occupants(g.segments) = Occupants(m.segments) \ {m.segments[k].process}
  BY FreeFacts
<1>3. g.size = m.size /\ g.num_processes = m.num_processes - 1
  BY DEF IsMemory, MemoryFields, Freed
<1>4. m.segments[k].process \in Occupants(m.segments)
  BY ResidentsAreUsed DEF Occupants
<1> HIDE DEF g
<1>5. Cardinality(Occupants(g.segments)) = Cardinality(Occupants(m.segments)) - 1
  <2> DEFINE S == Occupants(m.segments)
             x == m.segments[k].process
  <2>1. IsFiniteSet(S) /\ x \in S
    BY <1>4, OccupantsAreCounted
  <2> HIDE DEF S, x
  <2>2. Cardinality(S \ {x}) = Cardinality(S) - 1
    BY <2>1, FS_RemoveElement
  <2> QED
    BY <1>2, <2>2, Zenon DEF S, x
<1> QED
  BY <1>1, <1>2, <1>3, <1>5, UpdateCounts DEF Counted

LEMMA AddCounts ==
    ASSUME TypeOK, NEW m, IsMemory(m), Counted(m), NEW p \in Procs, NEW now \in Int,
           find_segment(m, p) = {}, Fitting(m, SizeOf(p)) # {}
    PROVE  Counted(add_to_memory(m, p, SizeOf(p), now))
<1> DEFINE g == Added(m, p, SizeOf(p), now)
<1>1. add_to_memory(m, p, SizeOf(p), now) = update_memory(g)
  BY DEF add_to_memory, Added
<1>2. IsMemory(g) /\ Occupants(g.segments) = Occupants(m.segments) \cup {p}
  BY AddFacts
<1>3. g.size = m.size /\ g.num_processes = m.num_processes + 1
  BY DEF IsMemory, MemoryFields, Added
<1>4. p \notin Occupants(m.segments)
  BY ResidentsAreUsed DEF find_segment, Occupants
<1> HIDE DEF g
<1>5. Cardinality(Occupants(g.segments)) = Cardinality(Occupants(m.segments)) + 1
  <2> DEFINE S == Occupants(m.segments)
  <2>1. IsFiniteSet(S)
    BY OccupantsAreCounted
  <2> HIDE DEF S
  <2>2. p \notin S => Cardinality(S \cup {p}) = Cardinality(S) + 1
    BY <2>1, FS_AddElement
  <2> QED
    BY <1>2, <1>4, <2>2, Zenon DEF S
<1> QED
  BY <1>1, <1>2, <1>3, <1>5, UpdateCounts DEF Counted

-----------------------------------------------------------------------------
(* Who is swapped out *)

LEMMA VictimFacts ==
    ASSUME TypeOK, NEW m, IsMemory(m), Residents(m) # {}
    PROVE  /\ Victim(m) \in Residents(m)
           /\ \A k \in Residents(m) \ {Victim(m)} : Ahead(m, Victim(m), k)
<1> DEFINE R == Residents(m)
           First(T) == \E j \in T : \A k \in T \ {j} : Ahead(m, j, k)
           G == {T \in SUBSET R : T # {} => First(T)}
<1>1. ASSUME NEW k \in R
      PROVE  /\ k \in Int /\ m.segments[k].memory_size \in Int
             /\ m.segments[k].time_added \in Int
  <2>1. /\ k \in 1 .. Len(m.segments) /\ Len(m.segments) \in Nat
        /\ IsSegment(m.segments[k]) /\ ~IsHole(m.segments[k])
    BY ListFacts, ResidentsAreUsed DEF Used, IsMemory, Tiles
  <2> QED
    BY <2>1, SizeFacts DEF IsSegment
<1>2. \A j, k \in R : j # k => Ahead(m, j, k) \/ Ahead(m, k, j)
  BY <1>1 DEF Ahead
<1>3. \A h, j, k \in R : Ahead(m, h, j) /\ Ahead(m, j, k) => Ahead(m, h, k)
  BY <1>1 DEF Ahead
<1>4. ASSUME NEW T \in SUBSET R, T # {}, \A x \in T : T \ {x} \in G PROVE First(T)
  <2>1. PICK x \in T : TRUE
    BY <1>4
  <2>2. CASE T \ {x} = {}
    BY <2>1, <2>2
  <2>3. CASE T \ {x} # {}
    <3>1. PICK j \in T \ {x} : \A k \in (T \ {x}) \ {j} : Ahead(m, j, k)
      BY <1>4, <2>1, <2>3
    <3>2. CASE Ahead(m, j, x)
      BY <3>1, <3>2
    <3>3. CASE Ahead(m, x, j)
      BY <1>3, <2>1, <3>1, <3>3
    <3> QED
      BY <1>2, <2>1, <3>1, <3>2, <3>3
  <2> QED
    BY <2>2, <2>3
<1>5. R \in G
  <2>1. \A T \in SUBSET R : T # {} /\ (\A x \in T : T \ {x} \in G) => T \in G
    BY <1>4
  <2>2. {} \in G
    OBVIOUS
  <2>3. IsFiniteSet(R)
    BY OccupantsAreCounted
  <2> HIDE DEF G, R
  <2> QED
    BY <2>1, <2>2, <2>3, SetInduction
<1> QED
  BY <1>5 DEF Victim

(* One round of find_free_memory.                                          *)
LEMMA RoundFacts ==
    ASSUME TypeOK, NEW m, IsMemory(m), Residents(m) # {},
           NEW r, r = update_memory(swap_out_process(m))
    PROVE  /\ IsMemory(r)
           /\ Occupants(r.segments) = Occupants(m.segments) \ {m.segments[Victim(m)].process}
           /\ Keeps(m.segments, r.segments, Residents(m) \ {Victim(m)})
           /\ Cardinality(Residents(r)) = Cardinality(Residents(m)) - 1
<1> DEFINE v == Victim(m)
           f == free_segment(m, v)
<1>1. v \in Residents(m)
  BY VictimFacts
<1>2. /\ IsMemory(f)
      /\ Occupants(f.segments) = Occupants(m.segments) \ {m.segments[v].process}
      /\ Keeps(m.segments, f.segments, Residents(m) \ {v})
  BY <1>1, FreeFacts, ResidentsAreUsed
<1>3. r = update_memory(f)
  BY DEF swap_out_process
<1> HIDE DEF f, v
<1>4. /\ IsMemory(r) /\ Occupants(r.segments) = Occupants(f.segments)
      /\ Keeps(f.segments, r.segments, Used(f.segments))
  BY <1>2, <1>3, UpdateFacts
<1>5. Keeps(m.segments, r.segments, Residents(m) \ {v})
  BY <1>2, <1>4 DEF Keeps
<1>6. m.segments[v].process \in Occupants(m.segments)
  BY <1>1, ResidentsAreUsed DEF Occupants
<1>7. Cardinality(Occupants(r.segments)) = Cardinality(Occupants(m.segments)) - 1
  <2> DEFINE S == Occupants(m.segments)
             x == m.segments[v].process
  <2>1. IsFiniteSet(S) /\ x \in S
    BY <1>6, OccupantsAreCounted
  <2> HIDE DEF S, x
  <2>2. Cardinality(S \ {x}) = Cardinality(S) - 1
    BY <2>1, FS_RemoveElement
  <2> QED
    BY <1>2, <1>4, <2>2, Zenon DEF S, x
<1> QED
  BY <1>2, <1>4, <1>5, <1>7, OccupantsAreCounted DEF v

LEMMA WhoLeft ==
    ASSUME TypeOK, IsMemory(memory)
    PROVE  Left = {k \in Residents(memory) :
                      memory.segments[k].process \notin Occupants(memory'.segments)}
<1>1. Residents(memory') = Used(memory'.segments)
  BY ResidentsAreUsed
<1> QED
  BY <1>1 DEF Left, Segment, Occupants, Residents, Holes, Used

LEMMA CountersStep == IInv /\ MemoryInv /\ Counted(memory) /\ [SimNext]_simVars => Counted(memory')
<1> SUFFICES ASSUME IInv, MemoryInv, Counted(memory), [SimNext]_simVars PROVE Counted(memory')
  OBVIOUS
<1>1. TypeOK /\ IsMemory(memory) /\ time \in Int
  BY DEF IInv, MemoryInv, TypeOK
<1>2. CASE memory' = memory
  BY <1>2
<1>3. CASE BringIn
  <2>1. /\ temp' \in Procs /\ find_segment(memory, temp') = {}
        /\ Fitting(memory, SizeOf(temp')) # {}
        /\ memory' = add_to_memory(memory, temp', SizeOf(temp'), time)
    BY <1>3, DispatchedFacts DEF BringIn
  <2> QED
    BY <1>1, <2>1, AddCounts
<1>4. CASE SwapOut
  <2>1. Residents(memory) # {} /\ memory' = update_memory(free_segment(memory, Victim(memory)))
    BY <1>4 DEF SwapOut, swap_out_process
  <2> DEFINE f == free_segment(memory, Victim(memory))
  <2>2. IsMemory(f) /\ Counted(f)
    BY <1>1, <2>1, VictimFacts, FreeFacts, FreeCounts
  <2> HIDE DEF f
  <2>3. Counted(update_memory(f))
    BY <2>2, UpdateCounts DEF Counted
  <2> QED
    BY <2>1, <2>3 DEF f
<1>5. CASE Complete
  <2>1. PICK k \in Residents(memory) : memory' = free_segment(memory, k)
    BY <1>5 DEF Complete, find_segment
  <2> QED
    BY <1>1, <2>1, FreeCounts
<1> QED
  BY <1>2, <1>3, <1>4, <1>5 DEF SimNext, RunResident, GiveUp, NoMemoryStep, simVars

LEMMA InitialCounters == SimInit => Counted(memory)
<1> SUFFICES ASSUME SimInit PROVE Counted(memory)
  OBVIOUS
<1>1. PICK size \in Nat \ {0} : memory = memory_init(size)
  BY MemSizesAssumption DEF SimInit
<1> DEFINE hole == [process |-> HOLE, memory_size |-> 0,
                    start |-> 0, end |-> size, time_added |-> 0]
<1>2. /\ memory.segments = <<hole>> /\ memory.size = size
      /\ memory.num_processes = 0 /\ memory.num_holes = 1 /\ memory.usage = 0
  BY <1>1 DEF memory_init
<1>3. IsHole(hole)
  BY DEF IsHole
<1> HIDE DEF hole
<1>4. DOMAIN <<hole>> = {1} /\ <<hole>>[1] = hole
  OBVIOUS
<1>5. Used(memory.segments) = {} /\ Holes(memory) = {1}
  BY <1>2, <1>3, <1>4 DEF Used, Holes
<1>6. Occupants(memory.segments) = {}
  BY <1>5 DEF Occupants
<1>7. Cardinality({1}) = 1 /\ Cardinality({}) = 0
  BY FS_Singleton, FS_EmptySet
<1>8. UsageOf(memory.segments) = 0
  BY <1>5, FS_EmptySet, SumRemove DEF UsageOf
<1> QED
  BY <1>1, <1>2, <1>5, <1>6, <1>7, <1>8 DEF Counted

(* The percentage is a rounded quotient.                                   *)
LEMMA PercentageIsRounded ==
    ASSUME NEW m, m.size \in Nat \ {0}, m.usage \in Nat
    PROVE  LET error == get_usage(m) * m.size - 100 * m.usage
           IN  2 * error <= m.size /\ 2 * error >= -m.size
<1> DEFINE p == m.usage * 100
           s == m.size
           q == p \div s
           r == p % s
           h == s \div 2
<1>1. s \in Nat /\ s > 0 /\ p \in Nat
  OBVIOUS
<1>2. q \in Int /\ r \in 0 .. s - 1 /\ p = s * q + r
  <2> HIDE DEF p, s
  <2> QED
    BY <1>1
<1>3. h \in Int /\ (s = 2 * h \/ s = 2 * h + 1)
  <2> HIDE DEF p, s
  <2> QED
    BY <1>1
<1>4. get_usage(m) = IF r > h THEN q + 1 ELSE q
  <2>1. get_usage(m) = q + (IF r > h THEN 1 ELSE 0)
    BY DEF get_usage
  <2> HIDE DEF q, r, h
  <2> QED
    BY <1>2, <2>1
<1>5. get_usage(m) * s - p = IF r > h THEN s - r ELSE -r
  <2> HIDE DEF p, s, q, r, h
  <2>1. (q + 1) * s = s * q + s /\ q * s = s * q /\ s * q \in Int
    BY <1>1, <1>2
  <2> QED
    BY <1>1, <1>2, <1>4, <2>1
<1>6. 100 * m.usage = p
  OBVIOUS
<1> DEFINE error == get_usage(m) * s - p
<1>7. 2 * error <= s /\ 2 * error >= -s
  <2> HIDE DEF p, s, q, r, h
  <2> QED
    BY <1>1, <1>2, <1>3, <1>5
<1> QED
  BY <1>6, <1>7

LEMMA CountersAlways == SimSpec => [](IInv /\ MemoryInv /\ Counted(memory))
<1>1. MemoryInv /\ IInv /\ Counted(memory) /\ [SimNext]_simVars => Counted(memory)'
  BY CountersStep
<1> QED
  BY <1>1, InitialCounters, MemoryAlways, PTL DEF SimSpec

-----------------------------------------------------------------------------
(* Where two holes touch *)

Seams(segments) == {k \in 1 .. Len(segments) - 1 : IsHole(segments[k]) /\ IsHole(segments[k + 1])}
Single(segments) == \A j, k \in Seams(segments) : j = k

(* What concat_holes leaves is the end of a run of at least three holes.   *)
LEMMA SeamFacts ==
    ASSUME NEW t, NEW size, Tiles(t, size)
    PROVE  /\ \A m \in Seams(concat_holes(t)) :
                /\ At(t, m) \in Seams(t) /\ At(t, m) + 1 \in Seams(t)
                /\ At(t, m) + 1 \in Absorbed(t)
           /\ \A m, p \in Seams(concat_holes(t)) : At(t, m) = At(t, p) => m = p
<1> DEFINE n == Len(t)
           A == Absorbed(t)
           N == Cardinality(Kept(t))
           c == concat_holes(t)
<1>1. n \in Nat \ {0} /\ DOMAIN t = 1 .. n
  BY ListFacts
<1>2. /\ N \in Nat /\ N > 0
      /\ \A m \in 1 .. N : At(t, m) \in Kept(t)
      /\ \A m, p \in 1 .. N : m < p => At(t, m) < At(t, p)
      /\ \A m \in 1 .. N - 1 :
            At(t, m + 1) = IF At(t, m) + 1 \in A THEN At(t, m) + 2 ELSE At(t, m) + 1
  <2> HIDE DEF n
  <2> QED
    BY <1>1, KeptFacts
<1>3. Len(c) = N /\ \A m \in 1 .. N : IsHole(c[m]) <=> IsHole(t[At(t, m)])
  BY ConcatFacts
<1>4. Kept(t) = (1 .. n) \ A
  BY <1>1 DEF Kept
<1> HIDE DEF n, A, N, c
<1>5. ASSUME NEW m \in Seams(c)
      PROVE  /\ m \in 1 .. N /\ At(t, m) \in Seams(t) /\ At(t, m) + 1 \in Seams(t)
             /\ At(t, m) + 1 \in A
  <2>1. /\ m \in 1 .. N - 1 /\ m \in 1 .. N /\ m + 1 \in 1 .. N
        /\ IsHole(c[m]) /\ IsHole(c[m + 1])
    BY <1>2, <1>3, <1>5 DEF Seams
  <2>2. PICK a, b \in 1 .. n : a = At(t, m) /\ b = At(t, m + 1)
    BY <1>2, <1>4, <2>1
  <2>3. IsHole(t[a]) /\ IsHole(t[b]) /\ a \notin A /\ b \notin A
    BY <1>2, <1>3, <1>4, <2>1, <2>2
  <2>4. b = IF a + 1 \in A THEN a + 2 ELSE a + 1
    BY <1>2, <2>1, <2>2
  <2>5. a + 1 \in A
    <3> SUFFICES ASSUME b = a + 1 PROVE b \in A
      BY <2>4
    <3>1. \A j \in 1 .. b - 1 : j \in 1 .. a - 1 \/ j = a
      OBVIOUS
    <3>2. {j \in 1 .. b - 1 : ~IsHole(t[j])} = {j \in 1 .. a - 1 : ~IsHole(t[j])}
      BY <2>3, <3>1
    <3>3. UsedBefore(t, b) = UsedBefore(t, a)
      BY <3>2 DEF UsedBefore
    <3>4. UsedBefore(t, a) \in Int
      <4> DEFINE S == {0} \cup {j \in 1 .. a - 1 : ~IsHole(t[j])}
      <4>1. S \in SUBSET (0 .. n) /\ S # {} /\ n \in Nat
        BY <1>1
      <4> HIDE DEF S
      <4>2. Max(S) \in S
        BY <4>1, MaxIsIn
      <4> QED
        BY <4>1, <4>2 DEF UsedBefore, S
    <3>5. PICK u \in Int : u = UsedBefore(t, a)
      BY <3>4
    <3>6. (a - u) % 2 # 0
      BY <1>1, <2>3, <3>5 DEF Absorbed, A
    <3>7. (b - u) % 2 = 0
      BY <3>6
    <3> QED
      BY <1>1, <2>3, <3>3, <3>5, <3>7 DEF Absorbed, A
  <2>6. b = a + 2 /\ IsHole(t[a + 1]) /\ a + 1 \in 1 .. n
    <3>1. b = a + 2
      BY <2>4, <2>5
    <3>2. a + 1 \in DOMAIN t /\ IsHole(t[a + 1])
      BY <2>5 DEF A, Absorbed
    <3> QED
      BY <1>1, <3>1, <3>2
  <2>7. a \in Seams(t) /\ a + 1 \in Seams(t)
    <3>1. a \in 1 .. n - 1 /\ a + 1 \in 1 .. n - 1 /\ (a + 1) + 1 = b
      BY <1>1, <2>6
    <3> QED
      BY <2>3, <2>6, <3>1 DEF Seams, n
  <2> QED
    BY <2>1, <2>2, <2>5, <2>7
<1>6. ASSUME NEW m \in Seams(c), NEW p \in Seams(c), At(t, m) = At(t, p) PROVE m = p
  <2>1. m \in 1 .. N /\ p \in 1 .. N /\ At(t, m) \in 1 .. n
    BY <1>2, <1>4, <1>5
  <2>2. ~(m < p) /\ ~(p < m)
    BY <1>2, <1>6, <2>1
  <2> QED
    BY <2>1, <2>2
<1> QED
  BY <1>5, <1>6 DEF c, A

LEMMA NoSeamLeft ==
    ASSUME NEW t, NEW size, Tiles(t, size), Single(t)
    PROVE  Seams(concat_holes(t)) = {}
<1> SUFFICES ASSUME NEW m \in Seams(concat_holes(t)) PROVE FALSE
  OBVIOUS
<1>1. At(t, m) \in Seams(t) /\ At(t, m) + 1 \in Seams(t)
  BY SeamFacts
<1>2. At(t, m) \in Int /\ At(t, m) = At(t, m) + 1
  BY <1>1 DEF Single, Seams
<1> QED
  BY <1>2

(* Where a segment is freed, at most three seams meet, and so at most one  *)
(* run of three holes that one pass does not join.                         *)
LEMMA FreedSeams ==
    ASSUME NEW s, NEW size, Tiles(s, size), Single(s),
           NEW t, NEW k, FreedAt(s, t, k), Tiles(t, size)
    PROVE  Single(concat_holes(t))
<1> SUFFICES ASSUME NEW m \in Seams(concat_holes(t)), NEW p \in Seams(concat_holes(t))
             PROVE  m = p
  BY DEF Single
<1>1. /\ DOMAIN s = 1 .. Len(s) /\ DOMAIN t = 1 .. Len(t)
      /\ Len(s) \in Nat \ {0} /\ Len(t) \in Nat \ {0}
  BY ListFacts
<1>2. Len(t) = Len(s) /\ \A j \in 1 .. Len(s) : j # k => t[j] = s[j]
  BY <1>1 DEF FreedAt
<1>3. ASSUME NEW j \in Seams(t) PROVE j \in Int /\ (j \in Seams(s) \/ j = k \/ j + 1 = k)
  <2>1. /\ j \in 1 .. Len(s) - 1 /\ j \in 1 .. Len(s) /\ j + 1 \in 1 .. Len(s)
        /\ IsHole(t[j]) /\ IsHole(t[j + 1])
    BY <1>1, <1>2, <1>3 DEF Seams
  <2> QED
    BY <1>2, <2>1 DEF Seams
<1>4. PICK a, b \in Int : a = At(t, m) /\ b = At(t, p)
  BY <1>3, SeamFacts
<1>5. /\ a \in Seams(t) /\ a + 1 \in Seams(t) /\ b \in Seams(t) /\ b + 1 \in Seams(t)
      /\ a + 1 \in Absorbed(t) /\ b + 1 \in Absorbed(t)
  BY <1>4, SeamFacts
<1>6. b # a + 1 /\ a # b + 1
  <2>1. \A j \in Absorbed(t) : j - 1 \notin Absorbed(t)
    BY <1>1, AbsorbedFacts
  <2>2. (b + 1) - 1 = b /\ (a + 1) - 1 = a
    OBVIOUS
  <2> QED
    BY <1>5, <2>1, <2>2
<1>7. a = b
  <2>1. \A i1, i2 \in Seams(s) : i1 = i2
    BY DEF Single
  <2>2. /\ a \in Seams(s) \/ a = k \/ a + 1 = k
        /\ a + 1 \in Seams(s) \/ a + 1 = k \/ a + 2 = k
        /\ b \in Seams(s) \/ b = k \/ b + 1 = k
        /\ b + 1 \in Seams(s) \/ b + 1 = k \/ b + 2 = k
    <3>1. (a + 1) + 1 = a + 2 /\ (b + 1) + 1 = b + 2
      OBVIOUS
    <3> QED
      BY <1>3, <1>5, <3>1
  <2> QED
    BY <1>6, <2>1, <2>2
<1> QED
  BY <1>4, <1>7, SeamFacts

(* A hole that is split or filled leaves no seam that was not there.       *)
LEMMA SplitSeams ==
    ASSUME NEW s, NEW size, Tiles(s, size), Single(s),
           NEW t, NEW k \in DOMAIN s, IsHole(s[k]), SplitAt(s, t, k), Tiles(t, size)
    PROVE  Single(t)
<1>1. /\ DOMAIN s = 1 .. Len(s) /\ Len(s) \in Nat \ {0} /\ Len(t) \in Nat \ {0}
      /\ k \in 1 .. Len(s)
  BY ListFacts
<1>2. PICK M \in {1, 2} :
        /\ Len(t) = Len(s) - 1 + M
        /\ ~IsHole(t[k])
        /\ \A j \in 1 .. Len(t) : j < k => t[j] = s[j]
        /\ \A j \in 1 .. Len(t) : j >= k + M => t[j] = s[j - M + 1]
  BY DEF SplitAt
<1> DEFINE from(j) == IF j < k THEN j ELSE j - M + 1
<1>3. ASSUME NEW j \in Seams(t)
      PROVE  j \in Int /\ j # k /\ j + 1 # k /\ from(j) \in Seams(s)
  <2>1. /\ j \in 1 .. Len(t) - 1 /\ j \in 1 .. Len(t) /\ j + 1 \in 1 .. Len(t)
        /\ IsHole(t[j]) /\ IsHole(t[j + 1])
    BY <1>1, <1>3 DEF Seams
  <2>2. j # k /\ j + 1 # k
    BY <1>2, <2>1
  <2>3. CASE j < k
    <3>1. /\ j + 1 < k /\ j \in 1 .. Len(s) - 1
          /\ t[j] = s[j] /\ t[j + 1] = s[j + 1]
      BY <1>1, <1>2, <2>1, <2>2, <2>3
    <3> QED
      BY <2>1, <2>2, <2>3, <3>1 DEF Seams
  <2>4. CASE j >= k + M
    <3>1. /\ j - M + 1 \in 1 .. Len(s) - 1 /\ ~(j < k)
          /\ t[j] = s[j - M + 1] /\ t[j + 1] = s[(j - M + 1) + 1]
      <4>1. (j + 1) - M + 1 = (j - M + 1) + 1 /\ j + 1 >= k + M
        BY <1>1, <2>1, <2>4
      <4> QED
        BY <1>1, <1>2, <2>1, <2>4, <4>1
    <3> QED
      BY <2>1, <2>2, <3>1 DEF Seams
  <2>5. CASE j > k /\ j < k + M
    <3>1. /\ M = 2 /\ j = k + 1 /\ ~(j < k) /\ j - M + 1 = k /\ k \in 1 .. Len(s) - 1
          /\ t[j + 1] = s[k + 1]
      BY <1>1, <1>2, <2>1, <2>5
    <3> QED
      BY <2>1, <2>2, <3>1 DEF Seams
  <2> QED
    BY <1>1, <2>1, <2>2, <2>3, <2>4, <2>5
<1> SUFFICES ASSUME NEW j \in Seams(t), NEW l \in Seams(t) PROVE j = l
  BY DEF Single
<1>4. from(j) = from(l) /\ j \in Int /\ l \in Int
  BY <1>3 DEF Single
<1>5. j # k /\ j + 1 # k /\ l # k /\ l + 1 # k
  BY <1>3
<1> QED
  BY <1>1, <1>2, <1>4, <1>5

SingleSeam == Single(memory.segments)

LEMMA SeamStep == IInv /\ MemoryInv /\ SingleSeam /\ [SimNext]_simVars => SingleSeam'
<1> SUFFICES ASSUME IInv, MemoryInv, SingleSeam, [SimNext]_simVars
             PROVE  Single(memory'.segments)
  BY DEF SingleSeam
<1>1. TypeOK /\ IsMemory(memory) /\ time \in Int /\ Tiles(memory.segments, memory.size)
  BY DEF IInv, MemoryInv, TypeOK, IsMemory
<1>2. CASE memory' = memory
  BY <1>2 DEF SingleSeam
<1>3. CASE BringIn
  <2>1. /\ temp' \in Procs /\ find_segment(memory, temp') = {}
        /\ Fitting(memory, SizeOf(temp')) # {}
        /\ memory' = add_to_memory(memory, temp', SizeOf(temp'), time)
    BY <1>3, DispatchedFacts DEF BringIn
  <2>2. PICK t : \E k \in Holes(memory) :
            /\ Tiles(t, memory.size) /\ SplitAt(memory.segments, t, k)
            /\ memory'.segments = concat_holes(t)
    BY <1>1, <2>1, AddFacts
  <2>3. Single(t)
    BY <1>1, <2>2, SplitSeams DEF SingleSeam, Holes
  <2> QED
    BY <2>2, <2>3, NoSeamLeft DEF Single
<1>4. ASSUME NEW k
      PROVE  Single(free_segment(memory, k).segments)
  <2>1. PICK t : /\ Tiles(t, memory.size) /\ FreedAt(memory.segments, t, k)
                 /\ free_segment(memory, k).segments = concat_holes(t)
    BY <1>1, FreeFacts
  <2> QED
    BY <1>1, <2>1, FreedSeams DEF SingleSeam
<1>5. CASE SwapOut
  <2> DEFINE f == free_segment(memory, Victim(memory))
  <2>1. Single(f.segments) /\ IsMemory(f)
    BY <1>1, <1>4, FreeFacts
  <2>2. memory' = update_memory(f)
    BY <1>5 DEF SwapOut, swap_out_process
  <2> HIDE DEF f
  <2>3. memory'.segments = concat_holes(f.segments) /\ Tiles(f.segments, f.size)
    BY <2>1, <2>2, UpdateFacts DEF IsMemory
  <2> QED
    BY <2>1, <2>3, NoSeamLeft DEF Single
<1>6. CASE Complete
  BY <1>4, <1>6 DEF Complete
<1> QED
  BY <1>2, <1>3, <1>5, <1>6 DEF SimNext, RunResident, GiveUp, NoMemoryStep, simVars

LEMMA InitialSeams == SimInit => SingleSeam
<1> SUFFICES ASSUME SimInit PROVE SingleSeam
  OBVIOUS
<1>1. PICK size, hole : memory.segments = <<hole>>
  BY DEF SimInit, memory_init
<1>2. Len(<<hole>>) = 1 /\ 1 .. 1 - 1 = {}
  OBVIOUS
<1> QED
  BY <1>1, <1>2 DEF SingleSeam, Single, Seams

-----------------------------------------------------------------------------
(* The memory under fcfs *)

(* Nothing but one segment, and the hole that follows it.                  *)
Small(segments) ==
    \/ Len(segments) = 1
    \/ Len(segments) = 2 /\ ~IsHole(segments[1]) /\ IsHole(segments[2])
Footprint ==
    algorithm = FCFS =>
        /\ Small(memory.segments)
        /\ Occupants(memory.segments) = IF cpu = NULL \/ aborted THEN {} ELSE {cpu}
        /\ aborted => SizeOf(temp) > memory.size

LEMMA SmallStays ==
    ASSUME NEW t, NEW size, Tiles(t, size), Len(t) \in {1, 2},
           Len(t) = 2 => IsHole(t[2])
    PROVE  Small(concat_holes(t))
<1> DEFINE n == Len(t)
           A == Absorbed(t)
           N == Cardinality(Kept(t))
           c == concat_holes(t)
<1>1. n \in Nat \ {0} /\ DOMAIN t = 1 .. n
  BY ListFacts
<1>2. A \subseteq 2 .. n /\ \A k \in A : IsHole(t[k - 1])
  <2> HIDE DEF n
  <2> QED
    BY <1>1, AbsorbedFacts
<1>3. /\ N \in Nat /\ N > 0
      /\ At(t, 1) = 1
      /\ \A m \in 1 .. N - 1 :
            At(t, m + 1) = IF At(t, m) + 1 \in A THEN At(t, m) + 2 ELSE At(t, m) + 1
  <2> HIDE DEF n
  <2> QED
    BY <1>1, KeptFacts
<1>4. Len(c) = N /\ \A m \in 1 .. N : IsHole(c[m]) <=> IsHole(t[At(t, m)])
  BY ConcatFacts
<1>5. Kept(t) = (1 .. n) \ A
  BY <1>1 DEF Kept
<1> HIDE DEF A, N, c
<1>6. Cardinality({1}) = 1 /\ Cardinality({1, 2}) = 2
  <2>1. Cardinality({1}) = 1 /\ IsFiniteSet({1})
    BY FS_Singleton
  <2>2. Cardinality({1} \cup {2}) = Cardinality({1}) + 1
    BY <2>1, FS_AddElement
  <2>3. {1} \cup {2} = {1, 2}
    OBVIOUS
  <2> QED
    BY <2>1, <2>2, <2>3
<1>7. CASE n = 1
  <2>1. Kept(t) = {1}
    BY <1>2, <1>5, <1>7
  <2> QED
    BY <1>4, <1>6, <2>1 DEF Small, N, c
<1>8. CASE n = 2 /\ 2 \in A
  <2>1. Kept(t) = {1}
    BY <1>2, <1>5, <1>8
  <2> QED
    BY <1>4, <1>6, <2>1 DEF Small, N, c
<1>9. CASE n = 2 /\ 2 \notin A
  <2>1. Kept(t) = {1, 2} /\ A = {}
    BY <1>2, <1>5, <1>9
  <2>2. N = 2
    BY <1>6, <2>1 DEF N
  <2>3. At(t, 2) = 2
    <3>1. 1 \in 1 .. N - 1
      BY <2>2
    <3>2. At(t, 1 + 1) = At(t, 1) + 1
      BY <1>3, <2>1, <3>1
    <3> QED
      BY <1>3, <3>2
  <2>4. ~IsHole(t[1])
    <3> SUFFICES ASSUME IsHole(t[1]) PROVE 2 \in A
      BY <1>9
    <3>1. \A j \in 1 .. 2 - 1 : j = 1
      OBVIOUS
    <3>2. {0} \cup {j \in 1 .. 2 - 1 : ~IsHole(t[j])} = {0}
      BY <3>1
    <3>3. {0} \in SUBSET (0 .. 0) /\ {0} # {}
      OBVIOUS
    <3>4. Max({0}) \in {0}
      BY <3>3, MaxIsIn
    <3>5. UsedBefore(t, 2) = 0
      BY <3>2, <3>4 DEF UsedBefore
    <3>6. 2 \in DOMAIN t /\ IsHole(t[2])
      BY <1>1, <1>9
    <3> QED
      BY <3>5, <3>6 DEF A, Absorbed
  <2> QED
    BY <1>3, <1>4, <1>9, <2>2, <2>3, <2>4 DEF Small, c
<1> QED
  BY <1>7, <1>8, <1>9

LEMMA SmallFacts ==
    ASSUME NEW s, NEW size, Tiles(s, size), Small(s)
    PROVE  /\ \A k \in Used(s) : k = 1
           /\ Used(s) = {} => /\ Len(s) = 1 /\ IsHole(s[1]) /\ DOMAIN s = {1}
                              /\ LengthOf(s[1]) = size /\ size \in Int
<1>1. DOMAIN s = 1 .. Len(s) /\ Len(s) \in Nat \ {0}
  BY ListFacts
<1>2. \A k \in Used(s) : k = 1
  BY <1>1 DEF Small, Used
<1>3. ASSUME Used(s) = {}
      PROVE  /\ Len(s) = 1 /\ IsHole(s[1]) /\ DOMAIN s = {1}
             /\ LengthOf(s[1]) = size /\ size \in Int
  <2>1. 1 \in DOMAIN s /\ IsHole(s[1])
    BY <1>1, <1>3 DEF Used
  <2>2. Len(s) = 1
    BY <2>1 DEF Small
  <2>3. s[1].start = 0 /\ s[1].end = size /\ IsSegment(s[1])
    BY <1>1, <2>1, <2>2 DEF Tiles
  <2> QED
    BY <1>1, <2>1, <2>2, <2>3 DEF IsSegment, LengthOf
<1> QED
  BY <1>2, <1>3

LEMMA SimulationKeepsInput == SimNext => processes' = processes /\ algorithm' = algorithm
  BY DEF SimNext, RunResident, BringIn, SwapOut, GiveUp, Complete, NoMemoryStep,
         LoopTest, Admit, Dispatch, NothingReady, KeepRunning, Idle, Execute, Finish, Preempt,
         vars, input

LEMMA InitialFootprint == SimInit => Footprint
<1> SUFFICES ASSUME SimInit PROVE Footprint
  OBVIOUS
<1>1. PICK size, hole : memory.segments = <<hole>> /\ hole.process = HOLE
  BY DEF SimInit, memory_init
<1>2. Len(<<hole>>) = 1 /\ DOMAIN <<hole>> = {1} /\ <<hole>>[1] = hole
  OBVIOUS
<1>3. Occupants(memory.segments) = {}
  BY <1>1, <1>2 DEF Occupants, Used, IsHole
<1>4. cpu = NULL /\ aborted = FALSE
  BY DEF SimInit, Init
<1> QED
  BY <1>1, <1>2, <1>3, <1>4 DEF Footprint, Small

LEMMA FootprintStep ==
    ASSUME IInv, MemoryInv, Footprint, SimNext PROVE Footprint'
<1> SUFFICES ASSUME algorithm = FCFS, algorithm' = FCFS PROVE Footprint'
  <2>1. algorithm' = algorithm
    BY SimulationKeepsInput
  <2> QED
    BY <2>1 DEF Footprint
<1> DEFINE s == memory.segments
<1>1. /\ TypeOK /\ IsMemory(memory) /\ time \in Int /\ Tiles(s, memory.size)
      /\ ~aborted /\ Small(s)
      /\ Occupants(s) = IF cpu = NULL THEN {} ELSE {cpu}
  BY DEF IInv, MemoryInv, TypeOK, IsMemory, Footprint, SimNext
<1>2. ASSUME cpu = NULL
      PROVE  /\ Used(s) = {} /\ Residents(memory) = {} /\ Occupants(s) = {}
             /\ Len(s) = 1 /\ IsHole(s[1]) /\ DOMAIN s = {1}
             /\ LengthOf(s[1]) = memory.size /\ memory.size \in Int
  <2>1. Used(s) = {}
    BY <1>1, <1>2 DEF Occupants
  <2> QED
    BY <1>1, <1>2, <2>1, SmallFacts, ResidentsAreUsed
<1>3. CASE RunResident
  <2>1. cpu = NULL /\ Residents(memory) # {}
    BY <1>3 DEF RunResident, Dispatch, find_segment
  <2> QED
    BY <1>2, <2>1
<1>4. CASE BringIn
  <2>1. /\ temp' \in Procs /\ cpu' = temp' /\ find_segment(memory, temp') = {}
        /\ Fitting(memory, SizeOf(temp')) # {}
        /\ memory' = add_to_memory(memory, temp', SizeOf(temp'), time)
        /\ aborted' = aborted /\ cpu = NULL
    BY <1>4, DispatchedFacts DEF BringIn, Dispatch
  <2>2. Occupants(memory'.segments) = Occupants(s) \cup {temp'}
    BY <1>1, <2>1, AddFacts
  <2>3. PICK t : \E k \in Holes(memory) :
            /\ Tiles(t, memory.size) /\ SplitAt(s, t, k)
            /\ memory'.segments = concat_holes(t)
    BY <1>1, <2>1, AddFacts
  <2>4. PICK k \in Holes(memory) : SplitAt(s, t, k)
    BY <2>3
  <2>5. k = 1
    BY <1>2, <2>1, <2>4 DEF Holes
  <2>6. Len(t) \in {1, 2} /\ (Len(t) = 2 => IsHole(t[2]))
    <3>1. PICK M \in {1, 2} : Len(t) = Len(s) - 1 + M /\ (M = 2 => IsHole(t[k + 1]))
      BY <2>4 DEF SplitAt
    <3>2. Len(s) = 1
      BY <1>2, <2>1
    <3>3. Len(t) = 1 - 1 + M
      BY <3>1, <3>2
    <3> QED
      BY <2>5, <3>1, <3>3
  <2>7. Small(memory'.segments)
    BY <2>3, <2>6, SmallStays
  <2>8. cpu' # NULL /\ Occupants(memory'.segments) = {cpu'}
    BY <1>1, <1>2, <2>1, <2>2, ProcessFacts
  <2> QED
    BY <1>1, <2>1, <2>7, <2>8 DEF Footprint, Small, Occupants, Used
<1>5. CASE SwapOut
  <2>1. cpu = NULL /\ Residents(memory) # {}
    BY <1>5 DEF SwapOut
  <2> QED
    BY <1>2, <2>1
<1>6. CASE GiveUp
  <2>1. /\ cpu = NULL /\ memory' = memory /\ aborted' = TRUE /\ processes' = processes
        /\ Fitting(memory, SizeOf(temp')) = {} /\ temp' \in Procs
    BY <1>6, DispatchedFacts DEF GiveUp, Dispatch
  <2>2. 1 \in Holes(memory)
    BY <1>2, <2>1 DEF Holes
  <2>3. ~(SizeOf(temp') <= memory.size)
    BY <1>2, <2>1, <2>2 DEF Fitting
  <2>4. SizeOf(temp') \in Nat
    BY <1>1, <2>1, SizeFacts
  <2>5. SizeOf(temp)' > memory'.size
    BY <1>2, <2>1, <2>3, <2>4 DEF SizeOf
  <2> QED
    BY <1>1, <1>2, <2>1, <2>5 DEF Footprint, Small, Occupants, Used
<1>7. CASE Complete
  <2>1. cpu' = NULL /\ aborted' = aborted
    BY <1>7 DEF Complete, Finish
  <2>2. PICK k \in Residents(memory) :
          memory.segments[k].process = cpu /\ memory' = free_segment(memory, k)
    BY <1>7 DEF Complete, find_segment
  <2>3. Occupants(memory'.segments) = Occupants(s) \ {cpu}
    BY <1>1, <2>2, FreeFacts
  <2>4. Occupants(memory'.segments) = {}
    BY <1>1, <2>3
  <2>5. PICK t : /\ Tiles(t, memory.size) /\ FreedAt(s, t, k)
                 /\ memory'.segments = concat_holes(t)
    BY <1>1, <2>2, FreeFacts
  <2>6. k = 1
    BY <1>1, <2>2, SmallFacts, ResidentsAreUsed
  <2>7. Len(t) = Len(s) /\ Len(s) \in Nat /\ DOMAIN s = 1 .. Len(s)
    <3>1. /\ DOMAIN s = 1 .. Len(s) /\ DOMAIN t = 1 .. Len(t)
          /\ Len(s) \in Nat \ {0} /\ Len(t) \in Nat \ {0}
      BY <1>1, <2>5, ListFacts
    <3>2. DOMAIN t = DOMAIN s
      BY <2>5 DEF FreedAt
    <3> QED
      BY <3>1, <3>2
  <2>8. Len(t) = 2 => IsHole(t[2])
    BY <1>1, <2>5, <2>6, <2>7 DEF FreedAt, Small
  <2>9. Small(memory'.segments)
    BY <1>1, <2>5, <2>7, <2>8, SmallStays DEF Small
  <2> QED
    BY <1>1, <2>1, <2>4, <2>9 DEF Footprint, Small, Occupants, Used
<1>8. CASE NoMemoryStep
  <2>1. memory' = memory /\ aborted' = aborted
    BY <1>8 DEF NoMemoryStep
  <2>2. ~Preempt
    BY <1>1 DEF IInv, TempIsOnCpu, BooksAreRight, Preempt, Consume
  <2>3. cpu' = cpu
    BY <1>8, <2>2 DEF NoMemoryStep, LoopTest, Admit, NothingReady, KeepRunning, Idle, Execute,
                      onCpu
  <2> QED
    BY <1>1, <2>1, <2>3 DEF Footprint, Small, Occupants, Used
<1> QED
  BY <1>3, <1>4, <1>5, <1>6, <1>7, <1>8 DEF SimNext

-----------------------------------------------------------------------------
(* The theorems *)

(* For every memory, every input file and all slices, the segments tile    *)
(* the addresses 0 .. size through splits, swaps and concatenations        *)
(* (memory.c:131-150, 206-212, 224-249, 271-283).                          *)
THEOREM MemoryIsTiled == SimSpec => []SegmentsTileMemory
<1>1. MemoryInv => SegmentsTileMemory
  <2> SUFFICES ASSUME MemoryInv PROVE SegmentsTileMemory
    OBVIOUS
  <2>1. \A k \in 1 .. Last :
            /\ Segment(k).start <= Segment(k).end
            /\ ~IsHole(Segment(k)) => LengthOf(Segment(k)) = SizeOf(Segment(k).process)
    BY DEF MemoryInv, IsMemory, Tiles, IsSegment, Segment, Last
  <2>2. Last \in Nat /\ \A k \in 1 .. Last : k < Last => k \in 1 .. Last - 1
    BY ListFacts DEF MemoryInv, IsMemory, Last
  <2>3. /\ Segment(1).start = 0 /\ Segment(Last).end = memory.size
        /\ \A k \in 1 .. Last - 1 : Segment(k + 1).start = Segment(k).end + 1
    BY DEF MemoryInv, IsMemory, Tiles, Segment, Last
  <2>4. \A k \in 1 .. Last : k < Last => Segment(k + 1).start = Segment(k).end + 1
    BY <2>2, <2>3
  <2> QED
    BY <2>1, <2>3, <2>4 DEF SegmentsTileMemory
<1> QED
  BY <1>1, MemoryAlways, PTL

(* A segment never outlives its process, and the running process is in     *)
(* memory when its job ends, so that main.c:148 frees what the pointer     *)
(* kept since dispatch points to.                                          *)
THEOREM OnlyTheLivingReside == SimSpec => []ResidentsAreLive
<1>1. MemoryInv => ResidentsAreLive
  <2>1. ResidentProcs = Occupants(memory.segments)
    BY ResidentsAreUsed DEF ResidentProcs, Occupants, Segment
  <2> QED
    BY <2>1 DEF MemoryInv, Occupancy, ResidentsAreLive
<1> QED
  BY <1>1, MemoryAlways, PTL

(* The counters of a memory are what one counts in its list, through every *)
(* split, swap and concatenation, the usage never passes its size, and the *)
(* percentage printed is the nearest (memory.c:142-154, 206-212, 326-371). *)
THEOREM CountersNeverDrift == SimSpec => []CountersAgree
<1>1. IInv /\ MemoryInv /\ Counted(memory) => CountersAgree
  <2> SUFFICES ASSUME IInv, MemoryInv, Counted(memory) PROVE CountersAgree
    OBVIOUS
  <2>1. TypeOK /\ IsMemory(memory) /\ Tiles(memory.segments, memory.size)
    BY DEF IInv, MemoryInv, IsMemory
  <2>2. memory.usage \in Nat /\ memory.usage <= memory.size
    BY <2>1, UsageIsBounded DEF Counted
  <2>3. memory.size \in Nat \ {0}
    BY DEF Counted
  <2>4. ResidentProcs = Occupants(memory.segments)
    BY ResidentsAreUsed DEF ResidentProcs, Occupants, Segment
  <2>5. /\ memory.num_processes = Cardinality(Residents(memory))
        /\ memory.num_processes = Cardinality(ResidentProcs)
        /\ memory.num_holes = Cardinality(Holes(memory))
    BY <2>1, <2>4, OccupantsAreCounted DEF Counted
  <2> DEFINE error == get_usage(memory) * memory.size - 100 * memory.usage
  <2>6. 2 * error <= memory.size /\ 2 * error >= -memory.size
    BY <2>2, <2>3, PercentageIsRounded
  <2>7. memory.usage \in 0 .. memory.size
    BY <2>2, <2>3
  <2> HIDE DEF error
  <2> QED
    BY <2>5, <2>6, <2>7 DEF CountersAgree, error
<1> QED
  BY <1>1, CountersAlways, PTL

(* When the search for a hole evicts somebody, it is the largest resident, *)
(* the longest in memory of its size; nobody else moves; and every round   *)
(* leaves one resident less, so that the search ends (memory.c:183-191,    *)
(* 215-249).                                                               *)
THEOREM OnlyTheLargestGoes == SimSpec => SwapsOutTheLargest
<1> DEFINE Spared(k, j) ==
               /\ \/ Segment(k).memory_size > Segment(j).memory_size
                  \/ /\ Segment(k).memory_size = Segment(j).memory_size
                     /\ Segment(k).time_added <= Segment(j).time_added
               /\ \E n \in Residents(memory') : memory'.segments[n] = Segment(j)
           Fair == \A k \in Left : remaining'[Segment(k).process] > 0 =>
                      \A j \in Residents(memory) \ Left : Spared(k, j)
<1>1. IInv /\ MemoryInv => RoundFreesOne
  BY RoundFacts DEF IInv, MemoryInv, RoundFreesOne
<1>2. IInv /\ MemoryInv /\ [SimNext]_simVars => Fair
  <2> SUFFICES ASSUME IInv, MemoryInv, [SimNext]_simVars PROVE Fair
    OBVIOUS
  <2>1. TypeOK /\ IsMemory(memory) /\ time \in Int
    BY DEF IInv, MemoryInv, TypeOK
  <2>2. CASE Occupants(memory.segments) \subseteq Occupants(memory'.segments)
    <3>1. \A k \in Residents(memory) :
              memory.segments[k].process \in Occupants(memory.segments)
      BY ResidentsAreUsed DEF Occupants
    <3>2. Left = {}
      BY <2>1, <2>2, <3>1, WhoLeft
    <3> QED
      BY <3>2
  <2>3. CASE BringIn
    <3>1. /\ temp' \in Procs /\ find_segment(memory, temp') = {}
          /\ Fitting(memory, SizeOf(temp')) # {}
          /\ memory' = add_to_memory(memory, temp', SizeOf(temp'), time)
      BY <2>3, DispatchedFacts DEF BringIn
    <3>2. Occupants(memory'.segments) = Occupants(memory.segments) \cup {temp'}
      BY <2>1, <3>1, AddFacts
    <3> QED
      BY <2>2, <3>2
  <2>4. CASE SwapOut
    <3> DEFINE v == Victim(memory)
    <3>1. /\ Residents(memory) # {}
          /\ memory' = update_memory(swap_out_process(memory))
      BY <2>4 DEF SwapOut
    <3>2. /\ Occupants(memory'.segments) =
                 Occupants(memory.segments) \ {memory.segments[v].process}
          /\ Keeps(memory.segments, memory'.segments, Residents(memory) \ {v})
      BY <2>1, <3>1, RoundFacts
    <3>3. v \in Residents(memory) /\ \A j \in Residents(memory) \ {v} : Ahead(memory, v, j)
      BY <2>1, <3>1, VictimFacts
    <3> HIDE DEF v
    <3>4. Left = {v}
      <4>1. \A k \in Residents(memory) :
                memory.segments[k].process = memory.segments[v].process => k = v
        BY <2>1, <3>3, ResidentsAreUsed DEF IsMemory, Apart
      <4>2. \A k \in Residents(memory) :
                memory.segments[k].process \in Occupants(memory.segments)
        BY ResidentsAreUsed DEF Occupants
      <4> QED
        BY <2>1, <3>2, <3>3, <4>1, <4>2, WhoLeft
    <3>5. ASSUME NEW j \in Residents(memory) \ {v} PROVE Spared(v, j)
      <4>1. Ahead(memory, v, j)
        BY <3>3
      <4>2. Segment(v).time_added \in Int /\ Segment(j).time_added \in Int
        <5>1. \A k \in Residents(memory) : IsSegment(memory.segments[k])
                                           /\ ~IsHole(memory.segments[k])
          BY <2>1, ListFacts, ResidentsAreUsed DEF Used, IsMemory, Tiles
        <5> QED
          BY <3>3, <5>1 DEF IsSegment, Segment
      <4>3. \E n \in Used(memory'.segments) : memory'.segments[n] = memory.segments[j]
        BY <3>2 DEF Keeps
      <4>4. Residents(memory') = Used(memory'.segments)
        BY ResidentsAreUsed
      <4> QED
        BY <4>1, <4>2, <4>3, <4>4 DEF Ahead, Segment
    <3> QED
      BY <3>4, <3>5
  <2>5. CASE Complete
    <3>1. PICK h \in Residents(memory) :
            memory.segments[h].process = cpu /\ memory' = free_segment(memory, h)
      BY <2>5 DEF Complete, find_segment
    <3>2. Occupants(memory'.segments) = Occupants(memory.segments) \ {cpu}
      BY <2>1, <3>1, FreeFacts
    <3>3. \A k \in Left : Segment(k).process = cpu
      <4>1. \A k \in Residents(memory) :
                memory.segments[k].process \in Occupants(memory.segments)
        BY ResidentsAreUsed DEF Occupants
      <4> QED
        BY <2>1, <3>2, <4>1, WhoLeft DEF Segment
    <3>4. remaining'[cpu] = 0
      <4>1. Consume /\ remaining[temp] = 1
        BY <2>5 DEF Complete, Finish
      <4> QED
        BY <4>1, TickFacts
    <3> QED
      BY <3>3, <3>4
  <2>6. CASE memory' = memory
    BY <2>2, <2>6
  <2> QED
    BY <2>3, <2>4, <2>5, <2>6
    DEF SimNext, RunResident, GiveUp, NoMemoryStep, simVars
<1>3. IInv /\ MemoryInv /\ [SimNext]_simVars =>
        [RoundFreesOne /\ Fair]_simVars
  BY <1>1, <1>2
<1>4. SimSpec => [][RoundFreesOne /\ Fair]_simVars
  BY <1>3, MemoryAlways, PTL DEF SimSpec
<1> QED
  BY <1>4 DEF SwapsOutTheLargest

(* Joining holes in pairs once per change never leaves more than one place *)
(* where two holes touch, however long the simulation runs                 *)
(* (memory.c:252-284).                                                     *)
THEOREM SeamsNeverPileUp == SimSpec => []AtMostOneSeam
<1>1. MemoryInv /\ SingleSeam => AtMostOneSeam
  <2> SUFFICES ASSUME MemoryInv, SingleSeam PROVE AtMostOneSeam
    OBVIOUS
  <2> DEFINE S == {k \in 1 .. Last - 1 : {k, k + 1} \subseteq Holes(memory)}
  <2>1. S \subseteq Seams(memory.segments)
    BY DEF Seams, Holes, Last
  <2>2. \A j, k \in S : j = k
    BY <2>1 DEF SingleSeam, Single
  <2> HIDE DEF S
  <2>3. S = {} \/ \E x \in S : S = {x}
    BY <2>2
  <2>4. Cardinality({}) = 0 /\ \A x : Cardinality({x}) = 1
    BY FS_EmptySet, FS_Singleton
  <2>5. Cardinality(S) <= 1
    <3>1. Cardinality(S) \in {0, 1}
      BY <2>3, <2>4
    <3> QED
      BY <3>1
  <2> QED
    BY <2>5 DEF AtMostOneSeam, S
<1>2. MemoryInv /\ IInv /\ SingleSeam /\ [SimNext]_simVars => SingleSeam'
  BY SeamStep
<1>3. SimSpec => []SingleSeam
  BY <1>2, InitialSeams, MemoryAlways, PTL DEF SimSpec
<1> QED
  BY <1>1, <1>3, MemoryAlways, PTL

(* report.txt:29-30, for every input file and size of memory: under fcfs   *)
(* there is never more than one process in memory nor more than one hole,  *)
(* and the program gives up only on a process larger than the memory.      *)
THEOREM FcfsNeedsOneSegment == SimSpec => []FcfsFootprint
<1>1. MemoryInv /\ Counted(memory) /\ Footprint => FcfsFootprint
  <2> SUFFICES ASSUME MemoryInv, Counted(memory), Footprint, algorithm = FCFS
               PROVE  /\ memory.num_processes \in {0, 1} /\ memory.num_holes \in {0, 1}
                      /\ aborted => SizeOf(temp) > memory.size
    BY DEF FcfsFootprint
  <2>1. Cardinality({}) = 0 /\ \A x : Cardinality({x}) = 1
    BY FS_EmptySet, FS_Singleton
  <2>2. memory.num_processes \in {0, 1}
    <3>1. Occupants(memory.segments) = {} \/ Occupants(memory.segments) = {cpu}
      BY DEF Footprint
    <3> QED
      BY <2>1, <3>1 DEF Counted
  <2>3. memory.num_holes \in {0, 1}
    <3>1. DOMAIN memory.segments = 1 .. Len(memory.segments)
      BY ListFacts DEF MemoryInv, IsMemory
    <3>2. 1 .. 1 = {1} /\ 1 .. 2 = {1, 2}
      OBVIOUS
    <3>3. Small(memory.segments)
      BY DEF Footprint
    <3>4. Holes(memory) = {} \/ \E x : Holes(memory) = {x}
      <4>1. CASE Len(memory.segments) = 1
        BY <3>1, <3>2, <4>1 DEF Holes
      <4>2. CASE /\ Len(memory.segments) = 2
                 /\ ~IsHole(memory.segments[1]) /\ IsHole(memory.segments[2])
        <5>1. Holes(memory) = {2}
          BY <3>1, <3>2, <4>2 DEF Holes
        <5> QED
          BY <5>1
      <4> QED
        BY <3>3, <4>1, <4>2 DEF Small
    <3> QED
      BY <2>1, <3>4 DEF Counted
  <2> QED
    BY <2>2, <2>3 DEF Footprint
<1>2. MemoryInv /\ IInv /\ Footprint /\ [SimNext]_simVars => Footprint'
  <2> SUFFICES ASSUME MemoryInv, IInv, Footprint, [SimNext]_simVars PROVE Footprint'
    OBVIOUS
  <2>1. CASE UNCHANGED simVars
    BY <2>1 DEF simVars, vars, input, onCpu, Footprint, Small, Occupants, Used, SizeOf
  <2> QED
    BY <2>1, FootprintStep
<1>3. SimSpec => []Footprint
  BY <1>2, InitialFootprint, MemoryAlways, PTL DEF SimSpec
<1> QED
  BY <1>1, <1>3, CountersAlways, PTL
=============================================================================
