------------------------------ MODULE AVLProofs ------------------------------
(***************************************************************************)
(* The trees of both programs stay balanced and know their own heights,    *)
(* for files of any length, whatever the keys.                             *)
(***************************************************************************)
EXTENDS Imdb, Counting

N0    == Nodes \cup {NULL}
Sides == {"left", "right"}

(* Left and right are mirror images of each other.                         *)
LEMMA SideFacts ==
    /\ DOMAIN Mirror = Sides
    /\ \A s \in Sides : /\ Mirror[s] \in Sides /\ Mirror[s] # s /\ Mirror[Mirror[s]] = s
                        /\ \A u \in Sides : u = s \/ u = Mirror[s]
    /\ Mirror["left"] = "right" /\ Mirror["right"] = "left"
  BY DEF Mirror, Sides

LEMMA NodeFacts == NULL \notin Nodes /\ NULL \in N0 /\ \A n \in N0 : n # NULL => n \in Nodes
  BY AVLAssumption DEF NULL, Nodes, N0

Trees ==
    [root : N0, link : [Sides -> [Nodes -> N0]], parent : [Nodes -> N0],
     height : [Nodes -> Int], counter : [Nodes -> Int],
     key : [Nodes -> Int], infos : [Nodes -> Seq(Nodes)]]

(* The pointers make trees: parents and links agree, and ranks go down.    *)
Linked(t) ==
    /\ \A m \in Nodes, s \in Sides : t.link[s][m] # NULL => t.parent[t.link[s][m]] = m
    /\ \A m \in Nodes : t.parent[m] # NULL => \E s \in Sides : t.link[s][t.parent[m]] = m
    /\ \A m \in Nodes, s \in Sides :
            t.link[s][m] = t.link[Mirror[s]][m] => t.link[s][m] = NULL
Ranks(t, rank) ==
    /\ rank \in [Nodes -> Nat]
    /\ \A m \in Nodes, s \in Sides : t.link[s][m] # NULL => rank[t.link[s][m]] < rank[m]
Acyclic(t) == \E rank : Ranks(t, rank)
Sound(t) == t \in Trees /\ Linked(t) /\ Acyclic(t)

(* What a node says of itself is true, if what its children say is.        *)
Highest(a, b) == IF a > b THEN a ELSE b
Of(h, c) == IF c = NULL THEN -1 ELSE h[c]
Above(t, h, m) ==       \* the height that m should have, if those of all are h
    1 + Highest(Of(h, t.link["left"][m]), Of(h, t.link["right"][m]))
TrueAt(t, m) == t.counter[m] = heightDiff(t, m) /\ t.height[m] = Above(t, t.height, m)
TrueBut(t, S) == \A m \in Nodes \ S : TrueAt(t, m)
Good(t) == Sound(t) /\ TrueBut(t, {})

LEMMA HeightFacts ==
    ASSUME NEW t \in Trees
    PROVE  /\ \A c \in N0 : height(t, c) \in Int
           /\ \A m \in Nodes : /\ heightDiff(t, m) \in Int
                               /\ \A s \in Sides : t.link[s][m] \in N0
                               /\ t.parent[m] \in N0
           /\ t.root \in N0
<1>1. \A c \in N0 : height(t, c) \in Int
  BY NodeFacts DEF height, Trees
<1>2. \A m \in Nodes : \A s \in Sides : t.link[s][m] \in N0
  BY DEF Trees
<1>3. \A m \in Nodes : heightDiff(t, m) \in Int
  BY <1>1, <1>2 DEF heightDiff, Sides
<1> QED
  BY <1>1, <1>2, <1>3 DEF Trees

LEMMA PointerFacts ==
    ASSUME NEW t \in Trees, NEW m \in Nodes
    PROVE  t.parent[m] \in N0 /\ \A s \in Sides : t.link[s][m] \in N0
  BY HeightFacts, Zenon

(* Only the height and the counter of the node are set.                    *)
SameButHeights(t, t1) ==
    /\ t1.root = t.root /\ t1.link = t.link /\ t1.parent = t.parent
    /\ t1.key = t.key /\ t1.infos = t.infos

LEMMA SameIsSound ==
    ASSUME NEW t, NEW t1, Sound(t), t1 \in Trees, SameButHeights(t, t1)
    PROVE  Sound(t1)
  BY DEF Sound, SameButHeights, Linked, Acyclic, Ranks

LEMMA RefreshFacts ==
    ASSUME NEW t \in Trees, NEW n \in Nodes
    PROVE  /\ Refresh(t, n) \in Trees /\ SameButHeights(t, Refresh(t, n))
           /\ Refresh(t, n).counter = [t.counter EXCEPT ![n] = heightDiff(t, n)]
           /\ Refresh(t, n).height = [t.height EXCEPT ![n] = Above(t, t.height, n)]
<1> DEFINE l == height(t, t.link["left"][n])
           r == height(t, t.link["right"][n])
           taller == IF heightDiff(t, n) >= 1 THEN "left" ELSE "right"
           top == height(t, t.link[taller][n]) + 1
<1>1. l \in Int /\ r \in Int /\ heightDiff(t, n) = l - r /\ heightDiff(t, n) \in Int
  BY HeightFacts DEF heightDiff, Sides
<1>2. top = Above(t, t.height, n) /\ top \in Int
  <2>1. Above(t, t.height, n) = 1 + Highest(l, r)
    BY DEF Above, height, Of
  <2>2. heightDiff(t, n) >= 1 => top = l + 1
    BY DEF heightDiff
  <2>3. ~(heightDiff(t, n) >= 1) => top = r + 1
    BY DEF heightDiff
  <2> HIDE DEF l, r, top
  <2> QED
    BY <1>1, <2>1, <2>2, <2>3 DEF Highest
<1>3. Refresh(t, n) = [t EXCEPT !.counter[n] = heightDiff(t, n), !.height[n] = top]
  BY DEF Refresh
<1> HIDE DEF top
<1>4. /\ Refresh(t, n).counter = [t.counter EXCEPT ![n] = heightDiff(t, n)]
      /\ Refresh(t, n).height = [t.height EXCEPT ![n] = top]
      /\ SameButHeights(t, Refresh(t, n))
  BY <1>3 DEF Trees, SameButHeights
<1>5. Refresh(t, n) \in Trees
  <2> DEFINE c1 == [t.counter EXCEPT ![n] = heightDiff(t, n)]
             h1 == [t.height EXCEPT ![n] = top]
  <2>1. c1 \in [Nodes -> Int] /\ h1 \in [Nodes -> Int]
    BY <1>1, <1>2 DEF Trees
  <2>2. Refresh(t, n) = [t EXCEPT !.counter = c1, !.height = h1]
    BY <1>3
  <2> HIDE DEF c1, h1
  <2> QED
    BY <2>1, <2>2 DEF Trees
<1> QED
  BY <1>2, <1>4, <1>5
LEMMA RefreshTruth ==
    ASSUME NEW t, Sound(t), NEW n \in Nodes, NEW S, TrueBut(t, S)
    PROVE  Sound(Refresh(t, n)) /\ TrueBut(Refresh(t, n), (S \ {n}) \cup {t.parent[n]})
<1> DEFINE t1 == Refresh(t, n)
<1>1. t \in Trees /\ Linked(t)
  BY DEF Sound
<1>2. /\ t1 \in Trees /\ SameButHeights(t, t1)
      /\ t1.counter = [t.counter EXCEPT ![n] = heightDiff(t, n)]
      /\ t1.height = [t.height EXCEPT ![n] = Above(t, t.height, n)]
  BY <1>1, RefreshFacts
<1> HIDE DEF t1
<1>3. Sound(t1)
  BY <1>2, SameIsSound
<1>4. ASSUME NEW m \in Nodes, m # t.parent[n], m = n \/ m \notin S PROVE TrueAt(t1, m)
  <2>1. \A s \in Sides : t.link[s][m] # n
    BY <1>1, <1>4, NodeFacts DEF Linked
  <2>2. \A c \in N0 : c # n => height(t1, c) = height(t, c)
    BY <1>1, <1>2, NodeFacts DEF height, Trees
  <2>3. /\ t1.link["left"][m] = t.link["left"][m] /\ t1.link["right"][m] = t.link["right"][m]
        /\ t.link["left"][m] \in N0 /\ t.link["right"][m] \in N0
        /\ t.link["left"][m] # n /\ t.link["right"][m] # n
    BY <1>1, <1>2, <2>1, HeightFacts DEF SameButHeights, Sides
  <2>4. heightDiff(t1, m) = heightDiff(t, m)
    BY <2>2, <2>3 DEF heightDiff
  <2>5. Above(t1, t1.height, m) = Above(t, t.height, m)
    BY <2>2, <2>3 DEF Above, height, Of
  <2>6. CASE m = n
    BY <1>1, <1>2, <2>4, <2>5, <2>6 DEF TrueAt, Trees
  <2>7. CASE m # n
    <3>1. TrueAt(t, m)
      BY <1>4, <2>7 DEF TrueBut
    <3> QED
      BY <1>1, <1>2, <2>4, <2>5, <2>7, <3>1 DEF TrueAt, Trees
  <2> QED
    BY <2>6, <2>7
<1>5. TrueBut(t1, (S \ {n}) \cup {t.parent[n]})
  BY <1>4 DEF TrueBut
<1> QED
  BY <1>3, <1>5 DEF t1

(* A fold along a sequence is a run: one step after the other.             *)
Act(kind, t, m) == IF kind = "refresh" THEN Refresh(t, m) ELSE balanceTree(t, m)
FoldStep(kind, t, a, it, S) ==
    IF S = {} THEN t ELSE Act(kind, it[S \ {Max(S)}], a[Max(S)])
IsFold(kind, t, a, it) == it = [S \in SUBSET DOMAIN a |-> FoldStep(kind, t, a, it, S)]
IsRun(kind, t, a, run) ==
    /\ run[0] = t
    /\ \A k \in 1 .. Len(a) : run[k] = Act(kind, run[k - 1], a[k])

LEMMA FoldExists ==
    ASSUME NEW kind, NEW t, NEW a \in Seq(Nodes)
    PROVE  \E it : IsFold(kind, t, a, it)
<1> DEFINE X == SUBSET DOMAIN a
           L == Len(a)
           Upto(k) == \E it : \A S \in X : S \subseteq 1 .. k => it[S] = FoldStep(kind, t, a, it, S)
           G == {k \in Nat : Upto(k)}
<1>1. L \in Nat /\ DOMAIN a = 1 .. L
  OBVIOUS
<1>2. \A S \in X : S # {} => Max(S) \in S /\ \A y \in S : y <= Max(S)
  <2> SUFFICES ASSUME NEW S \in X, S # {} PROVE Max(S) \in S /\ \A y \in S : y <= Max(S)
    OBVIOUS
  <2>1. S \in SUBSET (0 .. L)
    BY <1>1
  <2> QED
    BY <1>1, <2>1, MaxIsIn
<1>3. 0 \in G
  <2>1. \A S \in X : S \subseteq 1 .. 0 =>
            [S1 \in X |-> t][S] = FoldStep(kind, t, a, [S1 \in X |-> t], S)
    BY DEF FoldStep
  <2> QED
    BY <2>1
<1>4. ASSUME NEW k \in Nat, k \in G PROVE k + 1 \in G
  <2>1. PICK it : \A S \in X : S \subseteq 1 .. k => it[S] = FoldStep(kind, t, a, it, S)
    BY <1>4
  <2> DEFINE it1 == [S \in X |-> FoldStep(kind, t, a, it, S)]
  <2>2. ASSUME NEW S \in X, S \subseteq 1 .. k + 1 PROVE it1[S] = FoldStep(kind, t, a, it1, S)
    <3>1. CASE S = {}
      BY <3>1 DEF FoldStep
    <3>2. CASE S # {}
      <4> DEFINE R == S \ {Max(S)}
      <4>1. R \in X /\ R \subseteq 1 .. k
        BY <1>1, <1>2, <2>2, <3>2
      <4>2. it1[R] = it[R]
        BY <2>1, <4>1
      <4> QED
        BY <3>2, <4>2 DEF FoldStep
    <3> QED
      BY <3>1, <3>2
  <2> HIDE DEF it1
  <2>3. Upto(k + 1)
    BY <2>2
  <2>4. k + 1 \in Nat
    OBVIOUS
  <2> HIDE DEF Upto
  <2> QED
    BY <2>3, <2>4
<1>5. Nat \subseteq G
  <2> HIDE DEF G
  <2> QED
    BY <1>3, <1>4, UpwardInduction
<1>6. \E it : it = [S \in X |-> FoldStep(kind, t, a, it, S)]
  <2>1. PICK it : \A S \in X : S \subseteq 1 .. L => it[S] = FoldStep(kind, t, a, it, S)
    BY <1>1, <1>5
  <2> DEFINE it1 == [S \in X |-> it[S]]
  <2>2. ASSUME NEW S \in X PROVE it1[S] = FoldStep(kind, t, a, it1, S)
    BY <1>1, <2>1 DEF FoldStep
  <2>3. it1 = [S \in X |-> FoldStep(kind, t, a, it1, S)]
    BY <2>2
  <2> QED
    BY <2>3
<1> QED
  BY <1>6 DEF IsFold

LEMMA FoldIsRun ==
    ASSUME NEW kind, NEW t, NEW a \in Seq(Nodes),
           NEW it, IsFold(kind, t, a, it)
    PROVE  \E run : IsRun(kind, t, a, run) /\ run[Len(a)] = it[DOMAIN a]
<1> DEFINE X == SUBSET DOMAIN a
           L == Len(a)
<1>1. L \in Nat /\ DOMAIN a = 1 .. L
  OBVIOUS
<1>2. \A S \in X : S # {} => Max(S) \in S /\ \A y \in S : y <= Max(S)
  <2> SUFFICES ASSUME NEW S \in X, S # {} PROVE Max(S) \in S /\ \A y \in S : y <= Max(S)
    OBVIOUS
  <2>1. S \in SUBSET (0 .. L)
    BY <1>1
  <2> QED
    BY <1>1, <2>1, MaxIsIn
<1> DEFINE run == [k \in 0 .. L |-> it[1 .. k]]
<1>3. it = [S \in X |-> FoldStep(kind, t, a, it, S)]
  BY DEF IsFold
<1>4. run[0] = t
  BY <1>1, <1>3 DEF FoldStep
<1>5. ASSUME NEW k \in 1 .. L PROVE run[k] = Act(kind, run[k - 1], a[k])
  <2>1. k \in 1 .. k /\ 1 .. k - 1 = (1 .. k) \ {k} /\ k - 1 \in 0 .. L /\ k \in 0 .. L
    OBVIOUS
  <2>2. 1 .. k \in X /\ 1 .. k # {}
    <3>1. 1 .. k \subseteq 1 .. L
      OBVIOUS
    <3> QED
      BY <1>1, <2>1, <3>1
  <2>4. Max(1 .. k) = k
    <3>1. Max(1 .. k) \in 1 .. k /\ k <= Max(1 .. k)
      BY <1>2, <2>1, <2>2
    <3> QED
      BY <3>1
  <2>3. it[1 .. k] = FoldStep(kind, t, a, it, 1 .. k)
    BY <1>3, <2>1, <2>2
  <2> QED
    BY <2>1, <2>2, <2>3, <2>4 DEF FoldStep
<1>6. run[Len(a)] = it[DOMAIN a]
  BY <1>1
<1> HIDE DEF run
<1> QED
  BY <1>4, <1>5, <1>6 DEF IsRun

RefreshStep(t, a, it, S) ==
    IF S = {} THEN t ELSE Refresh(it[S \ {Max(S)}], a[Max(S)])

LEMMA RefreshRuns ==
    ASSUME NEW t, NEW a \in Seq(Nodes)
    PROVE  \E run : IsRun("refresh", t, a, run) /\ run[Len(a)] = FoldLeft(Refresh, t, a)
<1> DEFINE X == SUBSET DOMAIN a
<1>1. \A it : \A S \in X : FoldStep("refresh", t, a, it, S) = RefreshStep(t, a, it, S)
  BY DEF FoldStep, RefreshStep, Act
<1>2. \E it : it = [S \in X |-> RefreshStep(t, a, it, S)]
  <2>1. PICK it : it = [S \in X |-> FoldStep("refresh", t, a, it, S)]
    BY FoldExists DEF IsFold
  <2>2. it = [S \in X |-> RefreshStep(t, a, it, S)]
    BY <1>1, <2>1
  <2> QED
    BY <2>2
<1>3. FoldLeft(Refresh, t, a) = (CHOOSE it : it = [S \in X |-> RefreshStep(t, a, it, S)])[DOMAIN a]
  BY DEF FoldLeft, MapThenFoldSet, RefreshStep
<1>4. PICK it : /\ it = [S \in X |-> RefreshStep(t, a, it, S)]
                /\ FoldLeft(Refresh, t, a) = it[DOMAIN a]
  BY <1>2, <1>3
<1>5. IsFold("refresh", t, a, it)
  BY <1>1, <1>4 DEF IsFold
<1> QED
  BY <1>4, <1>5, FoldIsRun

BalanceStep(t, a, it, S) ==
    IF S = {} THEN t ELSE balanceTree(it[S \ {Max(S)}], a[Max(S)])

LEMMA BalanceRuns ==
    ASSUME NEW t, NEW a \in Seq(Nodes)
    PROVE  \E run : IsRun("balance", t, a, run) /\ run[Len(a)] = FoldLeft(balanceTree, t, a)
<1> DEFINE X == SUBSET DOMAIN a
<1>1. \A it : \A S \in X : FoldStep("balance", t, a, it, S) = BalanceStep(t, a, it, S)
  BY DEF FoldStep, BalanceStep, Act
<1>2. \E it : it = [S \in X |-> BalanceStep(t, a, it, S)]
  <2>1. PICK it : it = [S \in X |-> FoldStep("balance", t, a, it, S)]
    BY FoldExists DEF IsFold
  <2>2. it = [S \in X |-> BalanceStep(t, a, it, S)]
    BY <1>1, <2>1
  <2> QED
    BY <2>2
<1>3. FoldLeft(balanceTree, t, a) = (CHOOSE it : it = [S \in X |-> BalanceStep(t, a, it, S)])[DOMAIN a]
  BY DEF FoldLeft, MapThenFoldSet, BalanceStep
<1>4. PICK it : /\ it = [S \in X |-> BalanceStep(t, a, it, S)]
                /\ FoldLeft(balanceTree, t, a) = it[DOMAIN a]
  BY <1>2, <1>3
<1>5. IsFold("balance", t, a, it)
  BY <1>1, <1>4 DEF IsFold
<1> QED
  BY <1>4, <1>5, FoldIsRun

-----------------------------------------------------------------------------
(* updateHeight *)

LEMMA Bounded ==
    ASSUME NEW f \in [Nodes -> Nat]
    PROVE  \E K \in Nat : \A m \in Nodes : f[m] < K
<1> DEFINE G == {k \in Nat : \E K \in Nat : \A m \in Nodes : m <= k => f[m] < K}
<1>1. MaxLines \in Nat /\ \A m \in Nodes : m \in Nat /\ m > 0 /\ m <= MaxLines
  BY AVLAssumption DEF Nodes
<1>2. 0 \in G
  BY <1>1
<1>3. ASSUME NEW k \in Nat, k \in G PROVE k + 1 \in G
  <2>1. PICK K \in Nat : \A m \in Nodes : m <= k => f[m] < K
    BY <1>3
  <2>2. CASE k + 1 \in Nodes
    <3> DEFINE K1 == IF f[k + 1] < K THEN K ELSE f[k + 1] + 1
    <3>1. K1 \in Nat /\ \A m \in Nodes : m <= k + 1 => f[m] < K1
      <4>1. \A m \in Nodes : m <= k + 1 => m <= k \/ m = k + 1
        BY <1>1
      <4>2. f[k + 1] \in Nat /\ \A m \in Nodes : f[m] \in Nat
        BY <2>2
      <4> QED
        BY <2>1, <4>1, <4>2
    <3> HIDE DEF K1
    <3> QED
      BY <3>1
  <2>3. CASE k + 1 \notin Nodes
    <3>1. \A m \in Nodes : m <= k + 1 => m <= k
      BY <1>1, <2>3
    <3> QED
      BY <2>1, <3>1
  <2> QED
    BY <2>2, <2>3
<1>4. Nat \subseteq G
  <2> HIDE DEF G
  <2> QED
    BY <1>2, <1>3, UpwardInduction
<1>5. MaxLines \in G
  BY <1>1, <1>4
<1> QED
  BY <1>1, <1>5

(* The rank of a node counted from the top: it goes down towards the root. *)
FromTop(t, d) ==
    /\ d \in [N0 -> Nat] /\ d[NULL] = 0
    /\ \A m \in Nodes : d[t.parent[m]] < d[m]

LEMMA FromTopExists ==
    ASSUME NEW t, Sound(t)
    PROVE  \E d : FromTop(t, d)
<1>1. PICK rank : Ranks(t, rank)
  BY DEF Sound, Acyclic
<1>2. rank \in [Nodes -> Nat]
  BY <1>1 DEF Ranks
<1>3. PICK K \in Nat : \A m \in Nodes : rank[m] < K
  BY <1>2, Bounded
<1> DEFINE d == [m \in N0 |-> IF m = NULL THEN 0 ELSE K - rank[m]]
<1>4. \A m \in Nodes : K - rank[m] \in Nat /\ K - rank[m] > 0
  BY <1>2, <1>3
<1>5. d \in [N0 -> Nat] /\ d[NULL] = 0
  BY <1>4, NodeFacts
<1>6. ASSUME NEW m \in Nodes PROVE d[t.parent[m]] < d[m]
  <2>1. m \in N0 /\ m # NULL /\ d[m] = K - rank[m]
    BY NodeFacts DEF N0
  <2>2. CASE t.parent[m] = NULL
    BY <1>4, <1>5, <2>1, <2>2
  <2>3. CASE t.parent[m] # NULL
    <3>1. t.parent[m] \in Nodes
      BY <2>3, HeightFacts, NodeFacts DEF Sound
    <3>2. PICK s \in Sides : t.link[s][t.parent[m]] = m
      BY <2>3 DEF Sound, Linked
    <3>3. rank[m] < rank[t.parent[m]]
      BY <1>1, <2>1, <3>1, <3>2 DEF Ranks
    <3>4. d[t.parent[m]] = K - rank[t.parent[m]]
      BY <2>3, <3>1 DEF N0
    <3> QED
      BY <1>2, <2>1, <3>1, <3>3, <3>4
  <2> QED
    BY <2>2, <2>3
<1> HIDE DEF d
<1> QED
  BY <1>5, <1>6 DEF FromTop

UpStep(t, up, m) == IF m = NULL THEN <<>> ELSE <<m>> \o up[t.parent[m]]
IsChain(t, m, a) ==
    /\ a \in Seq(Nodes)
    /\ m = NULL => a = <<>>
    /\ m # NULL => /\ Len(a) > 0 /\ a[1] = m
                   /\ \A i \in 1 .. Len(a) - 1 : a[i + 1] = t.parent[a[i]]
                   /\ t.parent[a[Len(a)]] = NULL

LEMMA AncestorsUp ==
    ASSUME NEW t, Sound(t)
    PROVE  \E up : /\ \A m \in N0 : up[m] = UpStep(t, up, m)
                   /\ \A n \in N0 : Ancestors(t, n) = up[n]
<1>1. PICK d : FromTop(t, d)
  BY FromTopExists
<1> DEFINE Upto(k) == \E up : \A m \in N0 : d[m] <= k => up[m] = UpStep(t, up, m)
           G == {k \in Nat : Upto(k)}
<1>2. /\ \A m \in N0 : d[m] \in Nat
      /\ \A m \in N0 : m # NULL => m \in Nodes /\ t.parent[m] \in N0 /\ d[t.parent[m]] < d[m]
  BY <1>1, NodeFacts, HeightFacts DEF FromTop, Sound
<1>3. 0 \in G
  <2> DEFINE up == [m \in N0 |-> <<>>]
  <2>1. \A m \in N0 : d[m] <= 0 => up[m] = UpStep(t, up, m)
    BY <1>2 DEF UpStep
  <2> HIDE DEF up
  <2> QED
    BY <2>1
<1>4. ASSUME NEW k \in Nat, k \in G PROVE k + 1 \in G
  <2>1. PICK up : \A m \in N0 : d[m] <= k => up[m] = UpStep(t, up, m)
    BY <1>4
  <2> DEFINE up1 == [m \in N0 |-> UpStep(t, up, m)]
  <2>5. \A m \in N0 : up1[m] = UpStep(t, up, m)
    OBVIOUS
  <2> HIDE DEF up1
  <2>2. ASSUME NEW m \in N0, d[m] <= k + 1 PROVE up1[m] = UpStep(t, up1, m)
    <3>1. CASE m = NULL
      BY <2>5, <3>1 DEF UpStep
    <3>2. CASE m # NULL
      <4>1. t.parent[m] \in N0 /\ d[t.parent[m]] <= k
        BY <1>2, <2>2, <3>2
      <4>2. up1[t.parent[m]] = up[t.parent[m]]
        BY <2>1, <2>5, <4>1
      <4> QED
        BY <2>5, <3>2, <4>2 DEF UpStep
    <3> QED
      BY <3>1, <3>2
  <2>3. Upto(k + 1)
    BY <2>2
  <2>4. k + 1 \in Nat
    OBVIOUS
  <2> HIDE DEF Upto
  <2> QED
    BY <2>3, <2>4
<1>5. Nat \subseteq G
  <2> HIDE DEF G
  <2> QED
    BY <1>3, <1>4, UpwardInduction
<1>6. \E up : up = [m \in N0 |-> UpStep(t, up, m)]
  <2>1. PICK K \in Nat : \A m \in Nodes : d[m] < K
    <3>1. [m \in Nodes |-> d[m]] \in [Nodes -> Nat]
      BY <1>2 DEF N0
    <3> QED
      BY <3>1, Bounded
  <2>2. PICK up : \A m \in N0 : d[m] <= K => up[m] = UpStep(t, up, m)
    BY <1>5
  <2>3. \A m \in N0 : d[m] <= K
    BY <1>1, <1>2, <2>1 DEF FromTop
  <2> DEFINE up1 == [m \in N0 |-> up[m]]
  <2>4. \A m \in N0 : up1[m] = UpStep(t, up1, m)
    BY <1>2, <2>2, <2>3 DEF UpStep
  <2>5. up1 = [m \in N0 |-> UpStep(t, up1, m)]
    BY <2>4
  <2> QED
    BY <2>5
<1> DEFINE chosen == CHOOSE up : up = [m \in N0 |-> UpStep(t, up, m)]
<1>7. \A n \in N0 : Ancestors(t, n) = chosen[n]
  BY DEF Ancestors, UpStep, N0
<1>8. chosen = [m \in N0 |-> UpStep(t, chosen, m)]
  BY <1>6
<1> HIDE DEF chosen
<1> QED
  BY <1>7, <1>8
LEMMA LongerChain ==
    ASSUME NEW t, NEW m \in Nodes, t.parent[m] \in N0,
           NEW b, IsChain(t, t.parent[m], b)
    PROVE  IsChain(t, m, <<m>> \o b)
<1> DEFINE a == <<m>> \o b
           p == t.parent[m]
<1>1. b \in Seq(Nodes) /\ Len(b) \in Nat
  BY DEF IsChain
<1>2. /\ a \in Seq(Nodes) /\ Len(a) = Len(b) + 1 /\ a[1] = m
      /\ \A i \in 1 .. Len(b) : a[i + 1] = b[i]
  BY <1>1
<1> HIDE DEF a
<1>3. \A i \in 1 .. Len(a) - 1 : a[i + 1] = t.parent[a[i]]
  <2> SUFFICES ASSUME NEW i \in 1 .. Len(b) PROVE a[i + 1] = t.parent[a[i]]
    BY <1>1, <1>2
  <2>1. Len(b) > 0 /\ a[i + 1] = b[i]
    BY <1>1, <1>2
  <2>2. p # NULL
    BY <2>1 DEF IsChain
  <2>3. CASE i = 1
    BY <1>2, <2>1, <2>2, <2>3 DEF IsChain
  <2>4. CASE i # 1
    <3>1. i - 1 \in 1 .. Len(b) - 1 /\ i - 1 \in 1 .. Len(b) /\ i - 1 + 1 = i
      BY <1>1, <2>4
    <3>2. b[i] = t.parent[b[i - 1]]
      <4>1. b[i - 1 + 1] = t.parent[b[i - 1]]
        BY <2>2, <3>1 DEF IsChain
      <4> QED
        BY <3>1, <4>1
    <3>3. a[i] = b[i - 1]
      <4>1. a[i - 1 + 1] = b[i - 1]
        BY <1>2, <3>1
      <4> QED
        BY <3>1, <4>1
    <3> QED
      BY <2>1, <3>2, <3>3
  <2> QED
    BY <2>3, <2>4
<1>4. t.parent[a[Len(a)]] = NULL
  <2>1. CASE p = NULL
    BY <1>1, <1>2, <2>1 DEF IsChain
  <2>2. CASE p # NULL
    <3>1. Len(b) \in 1 .. Len(b) /\ t.parent[b[Len(b)]] = NULL
      BY <1>1, <2>2 DEF IsChain
    <3> QED
      BY <1>2, <3>1
  <2> QED
    BY <2>1, <2>2
<1>5. Len(a) > 0
  BY <1>1, <1>2
<1> QED
  BY <1>2, <1>3, <1>4, <1>5, NodeFacts DEF IsChain, a

LEMMA AncestorChain ==
    ASSUME NEW t, Sound(t), NEW n \in N0
    PROVE  IsChain(t, n, Ancestors(t, n))
<1>1. PICK d : FromTop(t, d)
  BY FromTopExists
<1>2. PICK up : /\ \A m \in N0 : up[m] = UpStep(t, up, m)
                /\ \A m \in N0 : Ancestors(t, m) = up[m]
  BY AncestorsUp
<1> DEFINE Chains(k) == \A m \in N0 : d[m] <= k => IsChain(t, m, up[m])
           G == {k \in Nat : Chains(k)}
<1>3. /\ \A m \in N0 : d[m] \in Nat
      /\ \A m \in N0 : m # NULL => m \in Nodes /\ t.parent[m] \in N0 /\ d[t.parent[m]] < d[m]
  BY <1>1, NodeFacts, HeightFacts DEF FromTop, Sound
<1>4. IsChain(t, NULL, up[NULL])
  <2>1. up[NULL] = <<>>
    BY <1>2, NodeFacts DEF UpStep
  <2> QED
    BY <2>1 DEF IsChain
<1>5. 0 \in G
  <2>1. \A m \in N0 : d[m] <= 0 => m = NULL
    BY <1>3
  <2> QED
    BY <1>4, <2>1
<1>6. ASSUME NEW k \in Nat, k \in G PROVE k + 1 \in G
  <2>1. ASSUME NEW m \in N0, d[m] <= k + 1 PROVE IsChain(t, m, up[m])
    <3>1. CASE m = NULL
      BY <1>4, <3>1
    <3>2. CASE m # NULL
      <4>1. m \in Nodes /\ t.parent[m] \in N0 /\ d[t.parent[m]] <= k
        BY <1>3, <2>1, <3>2
      <4>2. IsChain(t, t.parent[m], up[t.parent[m]])
        BY <1>6, <4>1
      <4>3. up[m] = <<m>> \o up[t.parent[m]]
        BY <1>2, <3>2 DEF UpStep
      <4> QED
        BY <4>1, <4>2, <4>3, LongerChain
    <3> QED
      BY <3>1, <3>2
  <2>2. Chains(k + 1) /\ k + 1 \in Nat
    BY <2>1
  <2> HIDE DEF Chains
  <2> QED
    BY <2>2
<1>7. Nat \subseteq G
  <2> HIDE DEF G
  <2> QED
    BY <1>5, <1>6, UpwardInduction
<1>8. d[n] \in Nat
  BY <1>3
<1> QED
  BY <1>2, <1>7, <1>8

(* If the heights are wrong at most on the way from n to the root, then    *)
(* updateHeight sets them right, and changes nothing else.                 *)
Wrong(t, n) ==
    {n} \cup IF n \in Nodes /\ t.parent[n] \in Nodes
             THEN {t.parent[n], t.parent[t.parent[n]]} ELSE {}

LEMMA UpdateFacts ==
    ASSUME NEW t, Sound(t), NEW n \in Nodes, TrueBut(t, Wrong(t, n))
    PROVE  Good(updateHeight(t, n)) /\ SameButHeights(t, updateHeight(t, n))
<1> DEFINE a == Ancestors(t, n)
           Rest(k) == {a[i] : i \in k + 1 .. Len(a)} \cup {NULL}
<1>1. IsChain(t, n, a)
  BY AncestorChain DEF N0
<1>2. /\ a \in Seq(Nodes) /\ Len(a) \in Nat /\ Len(a) > 0 /\ a[1] = n
      /\ \A i \in 1 .. Len(a) - 1 : a[i + 1] = t.parent[a[i]]
      /\ t.parent[a[Len(a)]] = NULL
  BY <1>1, NodeFacts DEF IsChain
<1>3. PICK run : IsRun("refresh", t, a, run) /\ run[Len(a)] = FoldLeft(Refresh, t, a)
  BY <1>2, RefreshRuns
<1> HIDE DEF a
<1> DEFINE Holds(k) == Sound(run[k]) /\ SameButHeights(t, run[k]) /\ TrueBut(run[k], Rest(k))
           G == {k \in Nat : k <= Len(a) => Holds(k)}
<1>4. 0 \in G
  <2>1. n \in Rest(0)
    BY <1>2
  <2>2. t.parent[n] \in Rest(0)
    <3>1. CASE Len(a) = 1
      BY <1>2, <3>1
    <3>2. CASE Len(a) > 1
      <4>1. a[1 + 1] = t.parent[a[1]] /\ 2 \in 0 + 1 .. Len(a)
        BY <1>2, <3>2
      <4> QED
        BY <1>2, <4>1
    <3> QED
      BY <1>2, <3>1, <3>2
  <2>3. t.parent[n] \in Nodes => t.parent[t.parent[n]] \in Rest(0)
    <3> SUFFICES ASSUME t.parent[n] \in Nodes PROVE t.parent[t.parent[n]] \in Rest(0)
      OBVIOUS
    <3>1. Len(a) > 1
      BY <1>2, NodeFacts
    <3>2. a[1 + 1] = t.parent[a[1]]
      BY <1>2, <3>1
    <3>3. CASE Len(a) = 2
      BY <1>2, <3>2, <3>3
    <3>4. CASE Len(a) > 2
      <4>1. a[2 + 1] = t.parent[a[2]] /\ 3 \in 0 + 1 .. Len(a)
        BY <1>2, <3>4
      <4> QED
        BY <1>2, <3>2, <4>1
    <3> QED
      BY <1>2, <3>1, <3>3, <3>4
  <2>4. Wrong(t, n) \subseteq Rest(0)
    BY <2>1, <2>2, <2>3 DEF Wrong
  <2>5. TrueBut(t, Rest(0))
    BY <2>4 DEF TrueBut
  <2>6. run[0] = t /\ SameButHeights(t, t)
    BY <1>3 DEF IsRun, SameButHeights
  <2>7. Holds(0)
    BY <2>5, <2>6
  <2> HIDE DEF Holds
  <2> QED
    BY <2>7
<1>5. ASSUME NEW k \in Nat, k \in G PROVE k + 1 \in G
  <2> SUFFICES ASSUME k + 1 <= Len(a) PROVE Holds(k + 1)
    OBVIOUS
  <2>1. Holds(k) /\ k + 1 \in 1 .. Len(a) /\ a[k + 1] \in Nodes
    BY <1>2, <1>5
  <2>2. run[k + 1] = Refresh(run[k], a[k + 1])
    <3>1. run[k + 1] = Refresh(run[k + 1 - 1], a[k + 1]) /\ k + 1 - 1 = k
      BY <1>3, <2>1 DEF IsRun, Act
    <3> QED
      BY <3>1
  <2>3. run[k].parent = t.parent
    BY <2>1 DEF SameButHeights
  <2>4. /\ Sound(run[k + 1])
        /\ TrueBut(run[k + 1], (Rest(k) \ {a[k + 1]}) \cup {t.parent[a[k + 1]]})
    <3> HIDE DEF Rest
    <3> QED
      BY <2>1, <2>2, <2>3, RefreshTruth
  <2>5. (Rest(k) \ {a[k + 1]}) \cup {t.parent[a[k + 1]]} \subseteq Rest(k + 1)
    <3>1. ASSUME NEW i \in k + 1 .. Len(a), a[i] # a[k + 1] PROVE a[i] \in Rest(k + 1)
      <4>1. i # k + 1
        BY <3>1
      <4>2. i \in k + 1 + 1 .. Len(a)
        BY <1>2, <4>1
      <4> QED
        BY <4>2
    <3>2. t.parent[a[k + 1]] \in Rest(k + 1)
      <4>1. CASE k + 1 = Len(a)
        BY <1>2, <4>1
      <4>2. CASE k + 1 # Len(a)
        <5>1. k + 1 \in 1 .. Len(a) - 1 /\ k + 1 + 1 \in k + 1 + 1 .. Len(a)
          BY <1>2, <2>1, <4>2
        <5>2. a[k + 1 + 1] = t.parent[a[k + 1]]
          BY <1>2, <5>1
        <5> QED
          BY <5>1, <5>2
      <4> QED
        BY <4>1, <4>2
    <3> QED
      BY <3>1, <3>2
  <2>6. TrueBut(run[k + 1], Rest(k + 1))
    <3> HIDE DEF Rest
    <3> QED
      BY <2>4, <2>5 DEF TrueBut
  <2>7. SameButHeights(run[k], run[k + 1])
    <3>1. run[k] \in Trees
      BY <2>1 DEF Sound
    <3>2. SameButHeights(run[k], Refresh(run[k], a[k + 1]))
      BY <2>1, <3>1, RefreshFacts
    <3> QED
      BY <2>2, <3>2
  <2>8. SameButHeights(t, run[k + 1])
    BY <2>1, <2>7 DEF SameButHeights
  <2> QED
    BY <2>4, <2>6, <2>8
<1>6. Holds(Len(a))
  <2>1. Nat \subseteq G
    <3> HIDE DEF G
    <3> QED
      BY <1>4, <1>5, UpwardInduction
  <2> HIDE DEF Holds
  <2> QED
    BY <1>2, <2>1
<1>7. updateHeight(t, n) = run[Len(a)]
  BY <1>3 DEF updateHeight, a
<1>8. TrueBut(run[Len(a)], {})
  <2>1. \A m \in Nodes : m \notin Rest(Len(a))
    <3>1. \A i \in Len(a) + 1 .. Len(a) : FALSE
      BY <1>2
    <3> QED
      BY <3>1, NodeFacts, Zenon
  <2> HIDE DEF Rest
  <2> QED
    BY <1>6, <2>1 DEF TrueBut
<1> QED
  BY <1>6, <1>7, <1>8 DEF Good
-----------------------------------------------------------------------------
(* Rotate *)

(* What a rotation of n does to the pointers.                              *)
TurnedTo(t, n, to, links, parents) ==
    LET from  == Mirror[to]
        child == t.link[from][n]
        inner == t.link[to][child]
    IN  /\ links[to][child] = n /\ links[from][child] = t.link[from][child]
        /\ links[from][n] = inner /\ links[to][n] = t.link[to][n]
        /\ \A m \in Nodes, s \in Sides :
                m # n /\ m # child =>
                    links[s][m] = IF t.link[s][m] = n THEN child ELSE t.link[s][m]
        /\ parents[child] = t.parent[n] /\ parents[n] = child
        /\ \A m \in Nodes :
                m # n /\ m # child => parents[m] = IF m = inner THEN n ELSE t.parent[m]
Turned(t, n, to, u) == TurnedTo(t, n, to, u.link, u.parent)

Around(t, n, child, inner, outer, other) ==
    /\ child \in Nodes /\ child # n /\ t.parent[child] = n
    /\ inner \in N0 /\ inner # n /\ inner # child
    /\ inner # NULL => inner \in Nodes /\ t.parent[inner] = child
    /\ outer \in N0 /\ outer # n /\ outer # child
    /\ outer # NULL => outer \in Nodes /\ t.parent[outer] = child /\ outer # inner
    /\ other \in N0 /\ other # n /\ other # child
    /\ other # NULL => /\ other \in Nodes /\ t.parent[other] = n
                       /\ other # inner /\ other # outer
    /\ t.parent[n] \in N0 /\ t.parent[n] # n /\ t.parent[n] # child

LEMMA Neighbours ==
    ASSUME NEW t, Sound(t), NEW n \in Nodes, NEW to \in Sides,
           t.link[Mirror[to]][n] # NULL
    PROVE  LET from  == Mirror[to]
               child == t.link[from][n]
           IN  /\ from \in Sides
               /\ Around(t, n, child, t.link[to][child], t.link[from][child], t.link[to][n])
<1> DEFINE from  == Mirror[to]
           child == t.link[from][n]
           inner == t.link[to][child]
           outer == t.link[from][child]
           other == t.link[to][n]
<1>1. from \in Sides /\ Mirror[from] = to
  BY SideFacts
<1>2. t \in Trees /\ Linked(t) /\ \A m \in Nodes, s \in Sides : t.link[s][m] \in N0
  BY HeightFacts DEF Sound
<1>3. PICK rank : Ranks(t, rank)
  BY DEF Sound, Acyclic
<1>4. \A m \in Nodes : rank[m] \in Nat
  BY <1>3 DEF Ranks
<1>5. \A m \in Nodes, s \in Sides :
        t.link[s][m] # NULL => /\ t.link[s][m] \in Nodes /\ t.parent[t.link[s][m]] = m
                               /\ rank[t.link[s][m]] < rank[m]
  BY <1>2, <1>3, NodeFacts DEF Linked, Ranks
<1>6. \A m \in Nodes, s \in Sides :
        t.link[s][m] = t.link[Mirror[s]][m] => t.link[s][m] = NULL
  BY <1>2 DEF Linked
<1>7. child \in Nodes /\ t.parent[child] = n /\ rank[child] < rank[n]
  BY <1>1, <1>5
<1>8. inner \in N0 /\ outer \in N0 /\ other \in N0 /\ t.parent[n] \in N0
  <2>1. t.parent[n] \in N0
    BY <1>2, PointerFacts, SMTT(30)
  <2> QED
    BY <1>1, <1>2, <1>7, <2>1
<1>9. /\ inner # NULL => inner \in Nodes /\ t.parent[inner] = child /\ rank[inner] < rank[child]
      /\ outer # NULL => outer \in Nodes /\ t.parent[outer] = child /\ rank[outer] < rank[child]
      /\ other # NULL => other \in Nodes /\ t.parent[other] = n /\ rank[other] < rank[n]
  BY <1>1, <1>5, <1>7
<1>10. /\ outer # NULL => outer # inner
       /\ other # NULL => other # child
  BY <1>1, <1>6, <1>7
<1>11. t.parent[n] # n /\ t.parent[n] # child
  <2>1. ASSUME NEW m \in Nodes, t.parent[n] = m PROVE rank[n] < rank[m]
    <3>1. PICK s \in Sides : t.link[s][m] = n
      BY <1>2, <2>1, NodeFacts DEF Linked
    <3> QED
      BY <1>5, <3>1, NodeFacts
  <2> QED
    BY <1>4, <1>7, <2>1
<1> HIDE DEF from, child, inner, outer, other
<1>12. child # NULL /\ n # NULL /\ child # n
  BY <1>4, <1>7, NodeFacts
<1>13. inner # n /\ inner # child /\ outer # n /\ outer # child /\ other # n /\ other # child
  BY <1>4, <1>7, <1>9, <1>10, <1>12
<1>14. other # NULL => other # inner /\ other # outer
  BY <1>9, <1>12
<1> QED
  BY <1>1, <1>7, <1>8, <1>9, <1>10, <1>11, <1>12, <1>13, <1>14, Zenon
  DEF Around, from, child, inner, outer, other
(* The pointers are set before the heights.                                *)
NewLinks(t, n, to) ==
    LET from  == Mirror[to]
        child == t.link[from][n]
        inner == t.link[to][child]
        Redirected(links) == [m \in Nodes |-> IF m = t.parent[n] /\ links[m] = n
                                              THEN child ELSE links[m]]
        redirected == [side \in DOMAIN Mirror |-> Redirected(t.link[side])]
    IN  [redirected EXCEPT ![to][child] = n, ![from][n] = inner]
NewParents(t, n, to) ==
    LET child == t.link[Mirror[to]][n]
        inner == t.link[to][child]
    IN  [m \in Nodes |-> CASE m = child -> t.parent[n]
                           [] m = n -> child
                           [] m = inner -> n
                           [] OTHER -> t.parent[m]]
Pivot(t, n, to) == [t EXCEPT !.link = NewLinks(t, n, to), !.parent = NewParents(t, n, to)]

LEMMA PivotFacts ==
    ASSUME NEW t, Sound(t), NEW n \in Nodes, NEW to \in Sides,
           t.link[Mirror[to]][n] # NULL
    PROVE  LET u == Pivot(t, n, to)
           IN  /\ u \in Trees /\ Turned(t, n, to, u)
               /\ u.root = t.root /\ u.key = t.key /\ u.infos = t.infos
               /\ u.height = t.height /\ u.counter = t.counter
               /\ Rotate(t, n, to) = updateHeight(u, n)
<1> DEFINE from  == Mirror[to]
           child == t.link[from][n]
           inner == t.link[to][child]
           outer == t.link[from][child]
           other == t.link[to][n]
           links == NewLinks(t, n, to)
           parents == NewParents(t, n, to)
           u == Pivot(t, n, to)
<1>1. /\ from \in Sides /\ child \in Nodes /\ child # n /\ from # to
      /\ inner \in N0 /\ inner # n /\ inner # child /\ outer \in N0 /\ outer # n
      /\ other \in N0 /\ other # n
      /\ t.parent[n] \in N0 /\ t.parent[n] # n /\ t.parent[n] # child
      /\ \A s \in Sides : s = to \/ s = from
  <2>1. from \in Sides /\ Around(t, n, child, inner, outer, other)
    BY Neighbours
  <2> HIDE DEF from, child, inner, outer, other
  <2>2. from \in Sides /\ from # to /\ \A s \in Sides : s = to \/ s = from
    BY SideFacts DEF from
  <2> QED
    BY <2>1, <2>2 DEF Around
<1>2. t \in Trees /\ Linked(t)
  BY DEF Sound
<1>3. /\ links \in [Sides -> [Nodes -> N0]]
      /\ links[to][child] = n /\ links[from][child] = outer
      /\ links[from][n] = inner /\ links[to][n] = other
      /\ \A m \in Nodes, s \in Sides :
            m # n /\ m # child =>
                links[s][m] = IF t.link[s][m] = n THEN child ELSE t.link[s][m]
  <2> DEFINE red(s) == [m \in Nodes |-> IF m = t.parent[n] /\ t.link[s][m] = n
                                        THEN child ELSE t.link[s][m]]
             reds == [s \in Sides |-> red(s)]
  <2>1. links = [reds EXCEPT ![to][child] = n, ![from][n] = inner]
    BY SideFacts DEF NewLinks
  <2>2. \A m \in Nodes, s \in Sides : t.link[s][m] = n => m = t.parent[n]
    BY <1>2, NodeFacts DEF Linked
  <2>3. \A s \in Sides : red(s) \in [Nodes -> N0]
    <3> SUFFICES ASSUME NEW s \in Sides PROVE red(s) \in [Nodes -> N0]
      OBVIOUS
    <3>1. \A m \in Nodes : t.link[s][m] \in N0
      BY <1>2, HeightFacts
    <3>2. child \in N0
      BY <1>1 DEF N0
    <3> HIDE DEF child
    <3> QED
      BY <3>1, <3>2
  <2>4. \A m \in Nodes, s \in Sides :
            reds[s][m] = IF t.link[s][m] = n THEN child ELSE t.link[s][m]
    BY <2>2
  <2>5. reds \in [Sides -> [Nodes -> N0]]
    BY <2>3
  <2> HIDE DEF reds, child, inner, outer, other, from, links
  <2>6. n \in N0
    BY DEF N0
  <2>7. links \in [Sides -> [Nodes -> N0]]
    BY <1>1, <2>1, <2>5, <2>6
  <2>8. \A m \in Nodes, s \in Sides :
            links[s][m] = IF s = to /\ m = child THEN n
                          ELSE IF s = from /\ m = n THEN inner ELSE reds[s][m]
    BY <1>1, <2>1, <2>5
  <2>9. reds[from][child] = outer /\ reds[to][n] = other
    BY <1>1, <2>4 DEF outer, other
  <2> QED
    BY <1>1, <2>4, <2>7, <2>8, <2>9
<1>4. /\ parents \in [Nodes -> N0] /\ parents[child] = t.parent[n] /\ parents[n] = child
      /\ \A m \in Nodes :
            m # n /\ m # child => parents[m] = IF m = inner THEN n ELSE t.parent[m]
  <2> DEFINE of(m) == CASE m = child -> t.parent[n] [] m = n -> child
                        [] m = inner -> n [] OTHER -> t.parent[m]
  <2>1. parents = [m \in Nodes |-> of(m)]
    BY DEF NewParents
  <2>2. \A m \in Nodes : of(m) = IF m = child THEN t.parent[n] ELSE IF m = n THEN child
                                 ELSE IF m = inner THEN n ELSE t.parent[m]
    <3> HIDE DEF child, inner
    <3> QED
      BY <1>1
  <2>3. \A m \in Nodes : of(m) \in N0
    <3>1. \A m \in Nodes : t.parent[m] \in N0
      BY <1>2, PointerFacts, SMTT(30)
    <3> HIDE DEF of, child, inner
    <3> QED
      BY <1>1, <2>2, <3>1 DEF N0
  <2> HIDE DEF of, parents, child, inner
  <2> QED
    BY <1>1, <2>1, <2>2, <2>3
<1> HIDE DEF links, parents
<1>5. /\ u.link = links /\ u.parent = parents /\ u \in Trees
      /\ u.root = t.root /\ u.key = t.key /\ u.infos = t.infos
      /\ u.height = t.height /\ u.counter = t.counter
  BY <1>2, <1>3, <1>4 DEF Trees, Pivot, links, parents
<1>6. Turned(t, n, to, u)
  BY <1>3, <1>4, <1>5, Zenon DEF Turned, TurnedTo
<1>7. Rotate(t, n, to) = updateHeight(u, n)
  BY DEF Rotate, Pivot, NewLinks, NewParents
<1> QED
  BY <1>5, <1>6, <1>7

(* A rotation leaves a tree: the pointers that rotateR and rotateL of      *)
(* bst_ll.c set, in both directions, agree, and no node comes to lie below *)
(* itself.                                                                 *)
LEMMA TurnedIsSound ==
    ASSUME NEW t, Sound(t), NEW n \in Nodes, NEW to \in Sides,
           t.link[Mirror[to]][n] # NULL,
           NEW u \in Trees, Turned(t, n, to, u)
    PROVE  Sound(u)
<1> DEFINE from  == Mirror[to]
           child == t.link[from][n]
           inner == t.link[to][child]
           outer == t.link[from][child]
           other == t.link[to][n]
<1>1. /\ from \in Sides /\ child \in Nodes /\ child # n /\ t.parent[child] = n
      /\ inner \in N0 /\ inner # n /\ inner # child
      /\ inner # NULL => inner \in Nodes /\ t.parent[inner] = child
      /\ outer \in N0 /\ outer # n /\ outer # child
      /\ outer # NULL => outer \in Nodes /\ t.parent[outer] = child /\ outer # inner
      /\ other \in N0 /\ other # n /\ other # child
      /\ other # NULL => other \in Nodes /\ t.parent[other] = n
                         /\ other # inner /\ other # outer
      /\ t.parent[n] \in N0 /\ t.parent[n] # n /\ t.parent[n] # child
  <2>1. from \in Sides /\ Around(t, n, child, inner, outer, other)
    BY Neighbours
  <2> HIDE DEF from, child, inner, outer, other
  <2> QED
    BY <2>1 DEF Around
<1>2. (\A s \in Sides : s = to \/ s = from) /\ from # to /\ Mirror[from] = to
  <2> HIDE DEF child, inner, outer, other, from
  <2> QED
    BY SideFacts DEF from
<1>3. /\ u.link[to][child] = n /\ u.link[from][child] = outer
      /\ u.link[from][n] = inner /\ u.link[to][n] = other
      /\ \A m \in Nodes, s \in Sides :
            m # n /\ m # child =>
                u.link[s][m] = IF t.link[s][m] = n THEN child ELSE t.link[s][m]
      /\ u.parent[child] = t.parent[n] /\ u.parent[n] = child
      /\ \A m \in Nodes :
            m # n /\ m # child => u.parent[m] = IF m = inner THEN n ELSE t.parent[m]
  BY Zenon DEF Turned, TurnedTo
<1>4. /\ \A m \in Nodes, s \in Sides :
            t.link[s][m] # NULL => t.link[s][m] \in Nodes /\ t.parent[t.link[s][m]] = m
      /\ \A m \in Nodes :
            t.parent[m] # NULL => t.parent[m] \in Nodes /\ \E s \in Sides : t.link[s][t.parent[m]] = m
      /\ \A m \in Nodes, s \in Sides :
            t.link[s][m] = t.link[Mirror[s]][m] => t.link[s][m] = NULL
  <2>1. t \in Trees /\ Linked(t)
    BY DEF Sound
  <2>2. \A m \in Nodes, s \in Sides : t.link[s][m] \in N0 /\ t.parent[m] \in N0
    BY <2>1, PointerFacts, SMTT(30)
  <2> HIDE DEF from, child, inner, outer, other
  <2> QED
    BY <2>1, <2>2, NodeFacts DEF Linked
<1>5. t.link[from][n] = child /\ t.link[to][child] = inner /\ t.link[from][child] = outer
      /\ t.link[to][n] = other /\ child # NULL /\ n # NULL
  BY <1>1, NodeFacts
<1>6. Acyclic(u)
  <2>1. PICK rank : Ranks(t, rank)
    BY DEF Sound, Acyclic
  <2>2. /\ \A m \in Nodes : rank[m] \in Nat
        /\ \A m \in Nodes, s \in Sides : t.link[s][m] # NULL => rank[t.link[s][m]] < rank[m]
    BY <2>1 DEF Ranks
  <2> DEFINE rank1 == [m \in Nodes |-> IF m = child THEN 3 * rank[n] + 1 ELSE 3 * rank[m]]
  <2>3. rank1 \in [Nodes -> Nat] /\ \A m \in Nodes : rank1[m] \in Nat
    BY <2>2
  <2> HIDE DEF from, child, inner, outer, other
  <2>4. rank1[child] = 3 * rank[n] + 1 /\ \A m \in Nodes : m # child => rank1[m] = 3 * rank[m]
    BY <1>1
  <2> HIDE DEF rank1
  <2>5. /\ rank[child] < rank[n]
        /\ inner # NULL => rank[inner] < rank[child]
        /\ outer # NULL => rank[outer] < rank[child]
        /\ other # NULL => rank[other] < rank[n]
    BY <1>1, <1>5, <2>2
  <2>6. ASSUME NEW m \in Nodes, NEW s \in Sides, u.link[s][m] # NULL
        PROVE  rank1[u.link[s][m]] < rank1[m]
    <3>1. CASE m = child
      <4>1. CASE s = to
        BY <1>1, <1>3, <2>2, <2>4, <3>1, <4>1
      <4>2. CASE s = from
        <5>1. u.link[s][m] = outer /\ outer # NULL /\ outer \in Nodes /\ outer # child
          BY <1>1, <1>3, <2>6, <3>1, <4>2
        <5>2. rank1[outer] = 3 * rank[outer] /\ rank[outer] < rank[child]
              /\ rank[child] < rank[n] /\ rank1[m] = 3 * rank[n] + 1
          BY <2>4, <2>5, <3>1, <5>1
        <5>3. rank[outer] \in Nat /\ rank[child] \in Nat /\ rank[n] \in Nat
          BY <1>1, <2>2, <5>1
        <5> QED
          BY <5>1, <5>2, <5>3
      <4> QED
        BY <1>2, <4>1, <4>2
    <3>2. CASE m = n
      <4>1. u.link[s][m] = inner \/ u.link[s][m] = other
        BY <1>2, <1>3, <3>2
      <4> DEFINE c == u.link[s][m]
      <4>2. c \in Nodes /\ c # child /\ rank[c] < rank[n]
        <5>1. \A x, y, z \in Nat : x < y /\ y < z => x < z
          OBVIOUS
        <5> QED
          BY <1>1, <2>2, <2>5, <2>6, <4>1, <5>1
      <4>3. rank1[c] = 3 * rank[c] /\ rank1[n] = 3 * rank[n] /\ rank[c] \in Nat /\ rank[n] \in Nat
        BY <1>1, <2>2, <2>4, <4>2
      <4> QED
        BY <3>2, <4>2, <4>3
    <3>3. CASE m # child /\ m # n
      <4> DEFINE c == t.link[s][m]
      <4>1. u.link[s][m] = IF c = n THEN child ELSE c
        BY <1>3, <3>3
      <4>2. c # NULL
        BY <1>5, <2>6, <4>1
      <4>3. c \in Nodes /\ rank[c] < rank[m] /\ rank[c] \in Nat /\ rank[m] \in Nat
            /\ rank1[m] = 3 * rank[m] /\ c # child
        BY <1>1, <1>4, <2>2, <2>4, <3>3, <4>2
      <4> HIDE DEF c
      <4>4. CASE c = n
        BY <2>4, <4>1, <4>3, <4>4
      <4>5. CASE c # n
        BY <2>4, <4>1, <4>3, <4>5
      <4> QED
        BY <4>4, <4>5
    <3> QED
      BY <3>1, <3>2, <3>3
  <2> QED
    BY <2>3, <2>6 DEF Acyclic, Ranks
<1> HIDE DEF from, child, inner, outer, other
<1>7. ASSUME NEW m \in Nodes, NEW s \in Sides, u.link[s][m] # NULL
      PROVE  u.parent[u.link[s][m]] = m
  <2>1. CASE m = child /\ s = to
    BY <1>3, <2>1
  <2>2. CASE m = child /\ s = from
    BY <1>1, <1>3, <1>7, <2>2
  <2>3. CASE m = n /\ s = from
    BY <1>1, <1>3, <1>7, <2>3
  <2>4. CASE m = n /\ s = to
    BY <1>1, <1>3, <1>7, <2>4
  <2>5. CASE m # n /\ m # child
    <3>1. CASE t.link[s][m] = n
      <4>1. u.link[s][m] = child /\ t.parent[n] = m
        BY <1>3, <1>4, <1>5, <2>5, <3>1
      <4> QED
        BY <1>3, <4>1
    <3>2. CASE t.link[s][m] # n
      <4>1. u.link[s][m] = t.link[s][m]
        BY <1>3, <2>5, <3>2
      <4>2. t.link[s][m] \in Nodes /\ t.parent[t.link[s][m]] = m
        BY <1>4, <1>7, <4>1
      <4>3. t.link[s][m] # child
        BY <1>1, <2>5, <4>2
      <4>4. t.link[s][m] # inner
        BY <1>1, <2>5, <4>2, NodeFacts
      <4> QED
        BY <1>3, <3>2, <4>1, <4>2, <4>3, <4>4
    <3> QED
      BY <3>1, <3>2
  <2> QED
    BY <1>2, <2>1, <2>2, <2>3, <2>4, <2>5
<1>8. ASSUME NEW m \in Nodes, u.parent[m] # NULL
      PROVE  \E s \in Sides : u.link[s][u.parent[m]] = m
  <2>1. CASE m = child
    <3>1. u.parent[m] = t.parent[n] /\ t.parent[n] \in Nodes /\ t.parent[n] # n /\ t.parent[n] # child
      BY <1>1, <1>3, <1>4, <1>8, <2>1
    <3>2. PICK s \in Sides : t.link[s][t.parent[n]] = n
      BY <1>4, <1>8, <3>1
    <3>3. u.link[s][t.parent[n]] = child
      BY <1>3, <3>1, <3>2
    <3> QED
      BY <2>1, <3>1, <3>3
  <2>2. CASE m = n
    BY <1>3, <2>2
  <2>3. CASE m # n /\ m # child /\ m = inner
    BY <1>1, <1>3, <2>3
  <2>4. CASE m # n /\ m # child /\ m # inner
    <3>1. u.parent[m] = t.parent[m] /\ t.parent[m] \in Nodes
      BY <1>3, <1>4, <1>8, <2>4
    <3>2. PICK s \in Sides : t.link[s][t.parent[m]] = m
      BY <1>4, <1>8, <3>1
    <3>3. CASE t.parent[m] = n
      <4>1. s = to
        BY <1>2, <1>5, <2>4, <3>2, <3>3
      <4> QED
        BY <1>3, <1>5, <3>1, <3>2, <3>3, <4>1
    <3>4. CASE t.parent[m] = child
      <4>1. s = from
        BY <1>2, <1>5, <2>4, <3>2, <3>4
      <4> QED
        BY <1>1, <1>3, <1>5, <3>1, <3>2, <3>4, <4>1
    <3>5. CASE t.parent[m] # n /\ t.parent[m] # child
      <4>1. u.link[s][t.parent[m]] = m
        BY <1>3, <2>4, <3>1, <3>2, <3>5
      <4> QED
        BY <3>1, <4>1
    <3> QED
      BY <3>3, <3>4, <3>5
  <2> QED
    BY <2>1, <2>2, <2>3, <2>4
<1>9. ASSUME NEW m \in Nodes, NEW s \in Sides, u.link[s][m] = u.link[Mirror[s]][m]
      PROVE  u.link[s][m] = NULL
  <2>1. Mirror[s] \in Sides /\ \/ s = to /\ Mirror[s] = from
                               \/ s = from /\ Mirror[s] = to
    BY <1>2, SideFacts DEF from
  <2>2. CASE m = child
    BY <1>1, <1>3, <1>9, <2>1, <2>2
  <2>3. CASE m = n
    <3>1. inner = other
      BY <1>3, <1>9, <2>1, <2>3
    <3>2. other = NULL
      BY <1>1, <3>1
    <3> QED
      BY <1>3, <2>1, <2>3, <3>1, <3>2
  <2>4. CASE m # n /\ m # child
    <3> DEFINE c == t.link[s][m]
               d == t.link[Mirror[s]][m]
    <3>1. /\ u.link[s][m] = IF c = n THEN child ELSE c
          /\ u.link[Mirror[s]][m] = IF d = n THEN child ELSE d
      BY <1>3, <2>1, <2>4
    <3>2. c # child /\ d # child
      BY <1>1, <1>4, <1>5, <2>1, <2>4
    <3>3. c = d
      BY <1>9, <3>1, <3>2
    <3>4. c = NULL
      BY <1>4, <3>3
    <3> QED
      BY <1>5, <3>1, <3>4
  <2> QED
    BY <2>2, <2>3, <2>4
<1> QED
  BY <1>6, <1>7, <1>8, <1>9 DEF Sound, Linked

(* A rotation does that to the pointers, and its updateHeight leaves every *)
(* node true.                                                              *)
LEMMA RotateFacts ==
    ASSUME NEW t, Good(t), NEW n \in Nodes, NEW to \in Sides,
           t.link[Mirror[to]][n] # NULL
    PROVE  LET u == Rotate(t, n, to)
           IN  /\ Good(u) /\ Turned(t, n, to, u)
               /\ u.root = t.root /\ u.key = t.key /\ u.infos = t.infos
<1> DEFINE child == t.link[Mirror[to]][n]
           u == Pivot(t, n, to)
           v == updateHeight(u, n)
<1>1. Sound(t) /\ t \in Trees /\ Linked(t) /\ \A m \in Nodes : TrueAt(t, m)
  BY DEF Good, TrueBut, Sound
<1>2. /\ u \in Trees /\ Turned(t, n, to, u)
      /\ u.root = t.root /\ u.key = t.key /\ u.infos = t.infos
      /\ u.height = t.height /\ u.counter = t.counter
      /\ Rotate(t, n, to) = v
  BY <1>1, PivotFacts
<1> HIDE DEF u
<1>3. Sound(u)
  <2>1. u \in Trees /\ Turned(t, n, to, u)
    BY <1>2
  <2> QED
    BY <1>1, <2>1, TurnedIsSound
<1>4. child \in Nodes /\ u.parent[n] = child /\ u.parent[child] = t.parent[n]
      /\ \A m \in Nodes, s \in Sides :
            m # n /\ m # child =>
                u.link[s][m] = IF t.link[s][m] = n THEN child ELSE t.link[s][m]
  <2>1. child \in Nodes
    BY <1>1, Neighbours DEF Around
  <2> QED
    <3>1. TurnedTo(t, n, to, u.link, u.parent)
      BY <1>2, SMTT(30) DEF Turned
    <3> QED
      BY <2>1, <3>1, Zenon DEF TurnedTo
<1> HIDE DEF child
<1>5. TrueBut(u, Wrong(u, n))
  <2> SUFFICES ASSUME NEW m \in Nodes, m # n, m # child, m # t.parent[n] PROVE TrueAt(u, m)
    BY <1>4 DEF TrueBut, Wrong
  <2>1. \A s \in Sides : t.link[s][m] # n
    BY <1>1, NodeFacts DEF Linked
  <2>2. u.link["left"][m] = t.link["left"][m] /\ u.link["right"][m] = t.link["right"][m]
    BY <1>4, <2>1 DEF Sides
  <2>3. TrueAt(t, m)
    BY <1>1
  <2> QED
    BY <1>2, <2>2, <2>3 DEF TrueAt, Above, heightDiff, height
<1>6. Good(v) /\ SameButHeights(u, v)
  BY <1>3, <1>5, UpdateFacts
<1> HIDE DEF v
<1>7. Turned(t, n, to, v)
  <2>1. v.link = u.link /\ v.parent = u.parent
    BY <1>6 DEF SameButHeights
  <2>2. Turned(t, n, to, u)
    BY <1>2
  <2> QED
    BY <2>1, <2>2 DEF Turned
<1> QED
  BY <1>2, <1>6, <1>7 DEF SameButHeights
-----------------------------------------------------------------------------
(* Heights *)

(* What holds of a node whenever it holds of its children holds of all.    *)
LEMMA RankInduction ==
    ASSUME NEW t, Sound(t), NEW G,
           \A m \in Nodes :
                (\A s \in Sides : t.link[s][m] # NULL => t.link[s][m] \in G) => m \in G
    PROVE  Nodes \subseteq G
<1>1. PICK rank : Ranks(t, rank)
  BY DEF Sound, Acyclic
<1>2. /\ \A m \in Nodes : rank[m] \in Nat
      /\ \A m \in Nodes, s \in Sides :
            t.link[s][m] # NULL => t.link[s][m] \in Nodes /\ rank[t.link[s][m]] < rank[m]
  BY <1>1, NodeFacts, HeightFacts DEF Ranks, Sound
<1> DEFINE H == {k \in Nat : \A m \in Nodes : rank[m] < k => m \in G}
<1>3. 0 \in H
  BY <1>2
<1>4. ASSUME NEW k \in Nat, k \in H PROVE k + 1 \in H
  <2> SUFFICES ASSUME NEW m \in Nodes, rank[m] < k + 1 PROVE m \in G
    OBVIOUS
  <2>1. ASSUME NEW s \in Sides, t.link[s][m] # NULL PROVE t.link[s][m] \in G
    <3>1. t.link[s][m] \in Nodes /\ rank[t.link[s][m]] < k
      <4>1. t.link[s][m] \in Nodes /\ rank[t.link[s][m]] < rank[m]
        BY <1>2, <2>1
      <4> QED
        BY <1>2, <4>1
    <3> QED
      BY <1>4, <3>1
  <2> QED
    BY <2>1
<1>5. Nat \subseteq H
  <2> HIDE DEF H
  <2> QED
    BY <1>3, <1>4, UpwardInduction
<1>6. ASSUME NEW m \in Nodes PROVE m \in G
  <2>1. rank[m] + 1 \in Nat /\ rank[m] < rank[m] + 1
    BY <1>2
  <2> QED
    BY <1>5, <2>1
<1> QED
  BY <1>6

(* By how much one side of a node is higher than the other.                *)
Lean(t, h, s, m) == Of(h, t.link[s][m]) - Of(h, t.link[Mirror[s]][m])

LEMMA SideOfNode ==
    ASSUME NEW t \in Trees, NEW h \in [Nodes -> Int], NEW m \in Nodes, NEW s \in Sides
    PROVE  /\ Of(h, t.link[s][m]) \in Int /\ Of(h, t.link[Mirror[s]][m]) \in Int
           /\ Lean(t, h, s, m) \in Int
           /\ Above(t, h, m)
                = 1 + Highest(Of(h, t.link[s][m]), Of(h, t.link[Mirror[s]][m]))
           /\ Lean(t, h, Mirror[s], m) = - Lean(t, h, s, m)
<1>1. \A c \in N0 : Of(h, c) \in Int
  BY NodeFacts DEF Of
<1>2. \A u \in Sides : Of(h, t.link[u][m]) \in Int
  BY <1>1, HeightFacts
<1>3. Mirror[s] \in Sides /\ Mirror[Mirror[s]] = s
  BY SideFacts
<1>4. Above(t, h, m) = 1 + Highest(Of(h, t.link[s][m]), Of(h, t.link[Mirror[s]][m]))
  <2>1. CASE s = "left"
    BY <2>1, SideFacts DEF Above
  <2>2. CASE s = "right"
    <3>1. \A a, b \in Int : Highest(a, b) = Highest(b, a)
      BY DEF Highest
    <3> QED
      BY <1>2, <2>2, <3>1, SideFacts DEF Above
  <2> QED
    BY <2>1, <2>2 DEF Sides
<1> QED
  BY <1>2, <1>3, <1>4 DEF Lean

LEMMA TrueLean ==
    ASSUME NEW t, Good(t), NEW m \in Nodes
    PROVE  /\ t.height[m] = Above(t, t.height, m)
           /\ t.counter[m] = Lean(t, t.height, "left", m)
           /\ t.counter[m] \in Int /\ t.height[m] \in Int /\ t.height \in [Nodes -> Int]
           /\ \A s \in Sides : t.counter[m] \in -1 .. 1 <=> Lean(t, t.height, s, m) \in -1 .. 1
<1>1. t \in Trees /\ TrueAt(t, m)
  BY DEF Good, Sound, TrueBut
<1>2. t.height \in [Nodes -> Int] /\ t.counter \in [Nodes -> Int]
  BY <1>1 DEF Trees
<1>3. t.counter[m] = Lean(t, t.height, "left", m)
  BY <1>1, SideFacts DEF TrueAt, heightDiff, height, Lean, Of
<1>4. ASSUME NEW s \in Sides
      PROVE  t.counter[m] \in -1 .. 1 <=> Lean(t, t.height, s, m) \in -1 .. 1
  <2>1. Lean(t, t.height, "left", m) \in Int
        /\ Lean(t, t.height, Mirror["left"], m) = - Lean(t, t.height, "left", m)
    BY <1>1, <1>2, SideOfNode DEF Sides
  <2>2. s = "left" \/ s = Mirror["left"]
    BY SideFacts DEF Sides
  <2> QED
    BY <1>3, <2>1, <2>2
<1> QED
  BY <1>1, <1>2, <1>3, <1>4 DEF TrueAt

LEMMA TwoSides ==
    ASSUME NEW t, Good(t), NEW m \in Nodes, NEW s \in Sides
    PROVE  /\ Of(t.height, t.link[s][m]) \in Int
           /\ Of(t.height, t.link[Mirror[s]][m]) \in Int
           /\ t.height[m]
                = 1 + Highest(Of(t.height, t.link[s][m]), Of(t.height, t.link[Mirror[s]][m]))
<1>1. t \in Trees /\ t.height \in [Nodes -> Int] /\ t.height[m] = Above(t, t.height, m)
  BY TrueLean DEF Good, Sound
<1> QED
  BY <1>1, SideOfNode

(* There is one way to give the nodes their heights.                       *)
LEMMA HeightsAreUnique ==
    ASSUME NEW t, Good(t), NEW H \in [Nodes -> Int], \A m \in Nodes : H[m] = Above(t, H, m)
    PROVE  t.height = H
<1> DEFINE G == {m \in Nodes : t.height[m] = H[m]}
<1>1. Sound(t) /\ t.height \in [Nodes -> Int]
  BY DEF Good, Sound, Trees
<1>2. ASSUME NEW m \in Nodes,
             \A s \in Sides : t.link[s][m] # NULL => t.link[s][m] \in G
      PROVE  m \in G
  <2>1. \A s \in Sides : Of(t.height, t.link[s][m]) = Of(H, t.link[s][m])
    BY <1>2 DEF Of
  <2>2. Above(t, t.height, m) = Above(t, H, m)
    BY <2>1 DEF Above, Sides
  <2> QED
    BY <2>2, TrueLean
<1>3. Nodes \subseteq G
  <2> HIDE DEF G
  <2> QED
    BY <1>1, <1>2, RankInduction
<1> QED
  BY <1>1, <1>3

LEMMA HeightsAreNatural ==
    ASSUME NEW t, Good(t)
    PROVE  \A m \in Nodes, s \in Sides : Of(t.height, t.link[s][m]) >= -1
<1> DEFINE G == {m \in Nodes : t.height[m] >= 0}
<1>1. Sound(t) /\ t \in Trees /\ t.height \in [Nodes -> Int]
  BY DEF Good, Sound, Trees
<1>2. ASSUME NEW m \in Nodes,
             \A s \in Sides : t.link[s][m] # NULL => t.link[s][m] \in G
      PROVE  m \in G
  <2>1. \A s \in Sides : Of(t.height, t.link[s][m]) \in Int /\ Of(t.height, t.link[s][m]) >= -1
    BY <1>1, <1>2, SideOfNode DEF Of
  <2>2. \A c, d \in Int : c >= -1 /\ d >= -1 => 1 + Highest(c, d) >= 0
    BY DEF Highest
  <2>3. t.height[m] >= 0
    BY <2>1, <2>2, TrueLean DEF Above, Sides
  <2> QED
    BY <2>3
<1>3. Nodes \subseteq G
  <2> HIDE DEF G
  <2> QED
    BY <1>1, <1>2, RankInduction
<1>4. ASSUME NEW m \in Nodes, NEW s \in Sides PROVE Of(t.height, t.link[s][m]) >= -1
  <2>1. t.link[s][m] \in N0
    BY <1>1, HeightFacts
  <2>2. CASE t.link[s][m] = NULL
    BY <2>2 DEF Of
  <2>3. CASE t.link[s][m] # NULL
    <3>1. t.link[s][m] \in Nodes
      BY <2>1, <2>3, NodeFacts
    <3>2. t.height[t.link[s][m]] \in Int /\ t.height[t.link[s][m]] >= 0
      BY <1>1, <1>3, <3>1
    <3> QED
      BY <2>3, <3>2 DEF Of
  <2> QED
    BY <2>2, <2>3
<1> QED
  BY <1>4
-----------------------------------------------------------------------------
(* balanceTree *)

Level(t) == \A w \in Nodes : t.counter[w] \in -1 .. 1

LEMMA LevelTree ==
    ASSUME NEW t, Good(t), NEW H \in [Nodes -> Int],
           \A w \in Nodes : H[w] = Above(t, H, w) /\ Lean(t, H, "left", w) \in -1 .. 1
    PROVE  Level(t)
<1>1. t.height = H
  BY HeightsAreUnique
<1> QED
  BY <1>1, TrueLean DEF Level

(* The heights that all nodes had before the subtree at m became higher.   *)
Fits(t, H, m) ==
    /\ H \in [Nodes -> Int]
    /\ \A w \in Nodes \ {m} : H[w] = Above(t, H, w) /\ Lean(t, H, "left", w) \in -1 .. 1

(* What balanceTree leaves: a level tree, with another node for m on top.  *)
Straightened(t, m, u) ==
    /\ Good(u) /\ Level(u)
    /\ u.root = t.root /\ u.key = t.key /\ u.infos = t.infos
    /\ u.parent[m] \in Nodes /\ u.parent[u.parent[m]] = t.parent[m]
    /\ \A w \in Nodes : w # m /\ t.parent[w] = NULL =>
            /\ u.parent[w] = NULL
            /\ \A s \in Sides : t.link[s][w] = NULL => u.link[s][w] = NULL

LEMMA EitherSide ==
    ASSUME NEW t \in Trees, NEW h \in [Nodes -> Int], NEW m \in Nodes, NEW s \in Sides,
           NEW e \in Int, Of(h, t.link[s][m]) <= e, Of(h, t.link[Mirror[s]][m]) <= e,
           Of(h, t.link[s][m]) = e \/ Of(h, t.link[Mirror[s]][m]) = e,
           Of(h, t.link[s][m]) >= e - 1, Of(h, t.link[Mirror[s]][m]) >= e - 1
    PROVE  Above(t, h, m) = e + 1 /\ Lean(t, h, "left", m) \in -1 .. 1
<1> DEFINE a == Of(h, t.link[s][m])
           b == Of(h, t.link[Mirror[s]][m])
<1>1. /\ a \in Int /\ b \in Int /\ Above(t, h, m) = 1 + Highest(a, b)
      /\ Lean(t, h, s, m) = a - b /\ Lean(t, h, Mirror[s], m) = - Lean(t, h, s, m)
  BY SideOfNode DEF Lean
<1>2. s = "left" \/ Mirror[s] = "left"
  BY SideFacts DEF Sides
<1> HIDE DEF a, b
<1>3. Highest(a, b) = e /\ a - b \in -1 .. 1
  BY <1>1 DEF Highest, a, b
<1> QED
  BY <1>1, <1>2, <1>3

LEMMA SameSides ==
    ASSUME NEW t, NEW u, NEW h, NEW g, NEW m,
           \A s \in Sides : Of(g, u.link[s][m]) = Of(h, t.link[s][m])
    PROVE  Above(u, g, m) = Above(t, h, m) /\ Lean(u, g, "left", m) = Lean(t, h, "left", m)
  BY SideFacts DEF Above, Lean, Sides

LEMMA SingleTurn ==
    ASSUME NEW t, Good(t), NEW m \in Nodes, NEW to \in Sides,
           t.link[Mirror[to]][m] # NULL,
           NEW H, Fits(t, H, m), H[m] = H[t.link[Mirror[to]][m]],
           Lean(t, H, Mirror[to], t.link[Mirror[to]][m]) = 1,
           Of(H, t.link[to][m]) = H[m] - 2
    PROVE  Straightened(t, m, Rotate(t, m, to))
<1> DEFINE from == Mirror[to]
           x == t.link[from][m]
           inner == t.link[to][x]
           outer == t.link[from][x]
           other == t.link[to][m]
           u == Rotate(t, m, to)
           H1 == [H EXCEPT ![m] = H[x] - 1]
<1>1. /\ Good(u) /\ Turned(t, m, to, u)
      /\ u.root = t.root /\ u.key = t.key /\ u.infos = t.infos
  BY RotateFacts
<1> HIDE DEF u
<1>2. from \in Sides /\ Around(t, m, x, inner, outer, other)
  <2>1. Sound(t)
    BY DEF Good
  <2> QED
    BY <2>1, Neighbours
<1>3. /\ u.link[to][x] = m /\ u.link[from][x] = outer
      /\ u.link[from][m] = inner /\ u.link[to][m] = other
      /\ \A w \in Nodes, s \in Sides :
            w # m /\ w # x => u.link[s][w] = IF t.link[s][w] = m THEN x ELSE t.link[s][w]
      /\ u.parent[x] = t.parent[m] /\ u.parent[m] = x
      /\ \A w \in Nodes :
            w # m /\ w # x => u.parent[w] = IF w = inner THEN m ELSE t.parent[w]
  BY <1>1, Zenon DEF Turned, TurnedTo
<1>4. t \in Trees /\ u \in Trees /\ Mirror[from] = to /\ H \in [Nodes -> Int]
  BY <1>1, SideFacts DEF Good, Sound, Fits
<1>5. x \in Nodes /\ x # m /\ m # NULL /\ x # NULL
  BY <1>2, NodeFacts DEF Around
<1>6. H[x] \in Int /\ H[m] = H[x] /\ H[x] = Above(t, H, x)
  BY <1>4, <1>5 DEF Fits
<1>7. /\ t.link[from][x] = outer /\ t.link[to][x] = inner /\ Lean(t, H, from, x) = 1
      /\ Of(H, other) = H[x] - 2
  BY <1>6
<1>8. H1 \in [Nodes -> Int] /\ H1[m] = H[x] - 1 /\ \A c \in N0 : c # m => Of(H1, c) = Of(H, c)
  BY <1>4, <1>6, NodeFacts DEF Of
<1> HIDE DEF from, x, inner, outer, other, H1
<1>9. Of(H, outer) = H[x] - 1 /\ Of(H, inner) = H[x] - 2
  <2>1. /\ Of(H, outer) \in Int /\ Of(H, inner) \in Int
        /\ H[x] = 1 + Highest(Of(H, outer), Of(H, inner))
    BY <1>2, <1>4, <1>5, <1>6, <1>7, SideOfNode
  <2>2. Of(H, outer) - Of(H, inner) = 1
    BY <1>4, <1>7 DEF Lean
  <2> QED
    BY <1>6, <2>1, <2>2 DEF Highest
<1>10. ASSUME NEW w \in Nodes
      PROVE  H1[w] = Above(u, H1, w) /\ Lean(u, H1, "left", w) \in -1 .. 1
  <2>1. CASE w = m
    <3>1. Of(H1, inner) = H[x] - 2 /\ Of(H1, other) = H[x] - 2
      BY <1>2, <1>7, <1>8, <1>9 DEF Around
    <3>2. Above(u, H1, m) = H[x] - 2 + 1 /\ Lean(u, H1, "left", m) \in -1 .. 1
      BY <1>2, <1>3, <1>4, <1>6, <1>8, <3>1, EitherSide
    <3> QED
      BY <1>6, <1>8, <2>1, <3>2
  <2>2. CASE w = x
    <3>1. Of(H1, outer) = H[x] - 1 /\ Of(H1, m) = H[x] - 1 /\ H1[x] = H[x]
      BY <1>2, <1>5, <1>6, <1>8, <1>9 DEF Around, Of, N0
    <3>2. Above(u, H1, x) = H[x] - 1 + 1 /\ Lean(u, H1, "left", x) \in -1 .. 1
      BY <1>2, <1>3, <1>4, <1>5, <1>6, <1>8, <3>1, EitherSide
    <3> QED
      BY <1>6, <2>2, <3>1, <3>2
  <2>3. CASE w # m /\ w # x
    <3>1. \A s \in Sides : Of(H1, u.link[s][w]) = Of(H, t.link[s][w])
      BY <1>3, <1>4, <1>5, <1>6, <1>8, <2>3, HeightFacts DEF Of, N0
    <3>2. Above(u, H1, w) = Above(t, H, w) /\ Lean(u, H1, "left", w) = Lean(t, H, "left", w)
      BY <3>1, SameSides
    <3> QED
      BY <1>4, <1>8, <2>3, <3>2 DEF Fits, Of, N0, H1
  <2> QED
    BY <2>1, <2>2, <2>3
<1>11. Level(u)
  BY <1>1, <1>8, <1>10, LevelTree
<1>12. ASSUME NEW w \in Nodes, w # m, t.parent[w] = NULL
       PROVE  /\ u.parent[w] = NULL
              /\ \A s \in Sides : t.link[s][w] = NULL => u.link[s][w] = NULL
  <2>1. w # x /\ w # inner
    BY <1>2, <1>5, <1>12, NodeFacts DEF Around
  <2> QED
    BY <1>3, <1>5, <1>12, <2>1
<1> QED
  BY <1>1, <1>3, <1>5, <1>11, <1>12 DEF Straightened, u
LEMMA DoubleTurn ==
    ASSUME NEW t, Good(t), NEW m \in Nodes, NEW to \in Sides,
           t.link[Mirror[to]][m] # NULL, t.link[to][t.link[Mirror[to]][m]] # NULL,
           NEW H, Fits(t, H, m), H[m] = H[t.link[Mirror[to]][m]],
           Lean(t, H, Mirror[to], t.link[Mirror[to]][m]) = -1,
           Of(H, t.link[to][m]) = H[m] - 2
    PROVE  Straightened(t, m, Rotate(Rotate(t, t.link[Mirror[to]][m], Mirror[to]), m, to))
<1> DEFINE from == Mirror[to]
           x == t.link[from][m]
           z == t.link[to][x]
           near == t.link[from][z]
           far == t.link[to][z]
           outer == t.link[from][x]
           other == t.link[to][m]
           v == Rotate(t, x, from)
           u == Rotate(v, m, to)
           H1 == [w \in Nodes |-> IF w = m \/ w = x THEN H[x] - 1
                                  ELSE IF w = z THEN H[x] ELSE H[w]]
<1>1. from \in Sides /\ Around(t, m, x, z, outer, other)
  <2>1. Sound(t)
    BY DEF Good
  <2> QED
    BY <2>1, Neighbours
<1>2. /\ t.link[from][m] = x /\ t.link[to][m] = other
      /\ t.link[to][x] = z /\ t.link[from][x] = outer
      /\ t.link[from][z] = near /\ t.link[to][z] = far
      /\ Lean(t, H, from, x) = -1 /\ Of(H, other) = H[m] - 2 /\ H[m] = H[x]
  OBVIOUS
<1>3. t \in Trees /\ Mirror[from] = to /\ Mirror[to] = from /\ H \in [Nodes -> Int]
  BY SideFacts DEF Good, Sound, Fits
<1>4. z # NULL
  OBVIOUS
<1> HIDE DEF from, x, z, near, far, outer, other
<1>5. x \in Nodes /\ x # m /\ m # NULL /\ x # NULL /\ z # m /\ z # x /\ t.parent[x] = m
  BY <1>1, NodeFacts DEF Around
<1>6. H[x] \in Int /\ H[m] = H[x] /\ H[x] = Above(t, H, x)
  BY <1>2, <1>3, <1>5 DEF Fits
<1>7. /\ z \in Nodes /\ H[z] = H[x] - 1 /\ Of(H, outer) = H[x] - 2
      /\ outer # z /\ other # z /\ outer # m /\ outer # x /\ other # m /\ other # x
      /\ t.parent[z] = x /\ outer \in N0 /\ other \in N0
  <2>1. /\ Of(H, outer) \in Int /\ Of(H, z) \in Int
        /\ H[x] = 1 + Highest(Of(H, outer), Of(H, z))
    BY <1>1, <1>2, <1>3, <1>5, <1>6, SideOfNode
  <2>2. Of(H, outer) - Of(H, z) = -1
    BY <1>2, <1>3 DEF Lean
  <2>3. z \in Nodes /\ Of(H, z) = H[z]
    BY <1>1, <1>4 DEF Around, Of
  <2>4. H[z] = H[x] - 1 /\ Of(H, outer) = H[x] - 2
    BY <1>6, <2>1, <2>2, <2>3 DEF Highest
  <2> QED
    BY <1>1, <1>4, <2>3, <2>4 DEF Around
<1>8. Around(t, x, z, near, far, outer)
  BY <1>2, <1>3, <1>4, <1>5, Neighbours DEF Good
<1>9. /\ near \in N0 /\ far \in N0 /\ near # x /\ near # z /\ far # x /\ far # z
      /\ near # m /\ far # m
  <2>1. PICK rank : Ranks(t, rank)
    BY DEF Good, Sound, Acyclic
  <2>2. /\ \A w \in Nodes : rank[w] \in Nat
        /\ rank[x] < rank[m] /\ rank[z] < rank[x]
        /\ near # NULL => rank[near] < rank[z]
        /\ far # NULL => rank[far] < rank[z]
    BY <1>1, <1>2, <1>4, <1>5, <1>7, <2>1 DEF Ranks
  <2>3. near # m /\ far # m
    BY <1>5, <1>7, <2>2
  <2> QED
    BY <1>8, <2>3 DEF Around
<1>10. /\ H[z] = Above(t, H, z)
       /\ Of(H, near) <= H[x] - 2 /\ Of(H, far) <= H[x] - 2
       /\ Of(H, near) >= H[x] - 3 /\ Of(H, far) >= H[x] - 3
       /\ Of(H, near) = H[x] - 2 \/ Of(H, far) = H[x] - 2
  <2>1. H[z] = Above(t, H, z) /\ Lean(t, H, "left", z) \in -1 .. 1
    BY <1>5, <1>7 DEF Fits
  <2>2. /\ Of(H, near) \in Int /\ Of(H, far) \in Int
        /\ Above(t, H, z) = 1 + Highest(Of(H, near), Of(H, far))
        /\ Lean(t, H, from, z) = Of(H, near) - Of(H, far)
        /\ Lean(t, H, to, z) = Of(H, far) - Of(H, near)
    BY <1>1, <1>2, <1>3, <1>7, SideOfNode DEF Lean
  <2>3. from = "left" \/ to = "left"
    BY SideFacts DEF from, Sides
  <2>4. Of(H, near) - Of(H, far) \in -1 .. 1
    BY <2>1, <2>2, <2>3
  <2> QED
    BY <1>6, <1>7, <2>1, <2>2, <2>4 DEF Highest
(* The first rotation. *)
<1>11. /\ Good(v) /\ Turned(t, x, from, v)
       /\ v.root = t.root /\ v.key = t.key /\ v.infos = t.infos
  BY <1>1, <1>2, <1>3, <1>4, <1>5, RotateFacts
<1>12. /\ v.link[from][z] = x /\ v.link[to][z] = far
       /\ v.link[to][x] = near /\ v.link[from][x] = outer
       /\ \A w \in Nodes, s \in Sides :
            w # x /\ w # z => v.link[s][w] = IF t.link[s][w] = x THEN z ELSE t.link[s][w]
       /\ v.parent[z] = m /\ v.parent[x] = z
       /\ \A w \in Nodes :
            w # x /\ w # z => v.parent[w] = IF w = near THEN x ELSE t.parent[w]
  BY <1>2, <1>3, <1>5, <1>11 DEF Turned, TurnedTo
<1> HIDE DEF v
<1>13. v.link[from][m] = z /\ v.link[to][m] = other /\ v.parent[m] = t.parent[m]
  BY <1>1, <1>2, <1>5, <1>7, <1>9, <1>12
(* The second. *)
<1>14. /\ Good(u) /\ Turned(v, m, to, u)
       /\ u.root = v.root /\ u.key = v.key /\ u.infos = v.infos
  BY <1>3, <1>4, <1>11, <1>13, RotateFacts
<1>15. /\ u.link[to][z] = m /\ u.link[from][z] = x
       /\ u.link[from][m] = far /\ u.link[to][m] = other
       /\ \A w \in Nodes, s \in Sides :
            w # m /\ w # z => u.link[s][w] = IF v.link[s][w] = m THEN z ELSE v.link[s][w]
       /\ u.parent[z] = t.parent[m] /\ u.parent[m] = z
       /\ \A w \in Nodes :
            w # m /\ w # z => u.parent[w] = IF w = far THEN m ELSE v.parent[w]
  BY <1>3, <1>12, <1>13, <1>14 DEF Turned, TurnedTo
<1> HIDE DEF u
<1>16. /\ u.link[to][x] = near /\ u.link[from][x] = outer
       /\ \A w \in Nodes, s \in Sides :
            w # m /\ w # x /\ w # z =>
                /\ u.link[s][w] = IF t.link[s][w] = m THEN z ELSE t.link[s][w]
                /\ t.link[s][w] # x /\ t.link[s][w] # z
  <2>1. u.link[to][x] = near /\ u.link[from][x] = outer
    BY <1>1, <1>5, <1>7, <1>9, <1>12, <1>15
  <2>2. ASSUME NEW w \in Nodes, NEW s \in Sides, w # m, w # x, w # z
        PROVE  /\ u.link[s][w] = IF t.link[s][w] = m THEN z ELSE t.link[s][w]
               /\ t.link[s][w] # x /\ t.link[s][w] # z
    <3>1. t.link[s][w] # x /\ t.link[s][w] # z
      BY <1>4, <1>5, <1>7, <2>2 DEF Good, Sound, Linked
    <3> QED
      BY <1>12, <1>15, <2>2, <3>1
  <2> QED
    BY <2>1, <2>2
<1>17. /\ H1 \in [Nodes -> Int] /\ H1[m] = H[x] - 1 /\ H1[x] = H[x] - 1 /\ H1[z] = H[x]
       /\ \A c \in N0 : c # m /\ c # x /\ c # z => Of(H1, c) = Of(H, c)
       /\ \A w \in Nodes : w # m /\ w # x /\ w # z => H1[w] = H[w]
  BY <1>3, <1>5, <1>6, <1>7, NodeFacts DEF Of
<1> HIDE DEF H1
<1>18. u \in Trees
  BY <1>14 DEF Good, Sound
<1>19. ASSUME NEW w \in Nodes
       PROVE  H1[w] = Above(u, H1, w) /\ Lean(u, H1, "left", w) \in -1 .. 1
  <2>1. CASE w = m
    <3>1. Of(H1, far) = Of(H, far) /\ Of(H1, other) = H[x] - 2
      BY <1>2, <1>6, <1>7, <1>9, <1>17
    <3>2. Above(u, H1, m) = H[x] - 2 + 1 /\ Lean(u, H1, "left", m) \in -1 .. 1
      BY <1>1, <1>3, <1>6, <1>10, <1>15, <1>17, <1>18, <3>1, EitherSide
    <3> QED
      BY <1>6, <1>17, <2>1, <3>2
  <2>2. CASE w = x
    <3>1. Of(H1, near) = Of(H, near) /\ Of(H1, outer) = H[x] - 2
      BY <1>7, <1>9, <1>17
    <3>2. Above(u, H1, x) = H[x] - 2 + 1 /\ Lean(u, H1, "left", x) \in -1 .. 1
      BY <1>1, <1>3, <1>5, <1>6, <1>10, <1>16, <1>17, <1>18, <3>1, EitherSide
    <3> QED
      BY <1>6, <1>17, <2>2, <3>2
  <2>3. CASE w = z
    <3>1. Of(H1, m) = H[x] - 1 /\ Of(H1, x) = H[x] - 1
      BY <1>5, <1>17 DEF Of
    <3>2. Above(u, H1, z) = H[x] - 1 + 1 /\ Lean(u, H1, "left", z) \in -1 .. 1
      <4>1. /\ Of(H1, u.link[from][z]) = H[x] - 1 /\ Of(H1, u.link[Mirror[from]][z]) = H[x] - 1
            /\ H[x] - 1 \in Int
        BY <1>3, <1>6, <1>15, <3>1
      <4> QED
        BY <1>1, <1>7, <1>17, <1>18, <4>1, EitherSide
    <3> QED
      BY <1>6, <1>17, <2>3, <3>2
  <2>4. CASE w # m /\ w # x /\ w # z
    <3>1. ASSUME NEW s \in Sides PROVE Of(H1, u.link[s][w]) = Of(H, t.link[s][w])
      <4>1. CASE t.link[s][w] = m
        <5>1. u.link[s][w] = z
          BY <1>16, <2>4, <4>1
        <5> QED
          BY <1>4, <1>5, <1>6, <1>17, <4>1, <5>1 DEF Of
      <4>2. CASE t.link[s][w] # m
        <5>1. u.link[s][w] = t.link[s][w] /\ t.link[s][w] # x /\ t.link[s][w] # z
              /\ t.link[s][w] \in N0
          BY <1>3, <1>16, <2>4, <4>2, HeightFacts
        <5> QED
          BY <1>17, <4>2, <5>1
      <4> QED
        BY <4>1, <4>2
    <3>2. Above(u, H1, w) = Above(t, H, w) /\ Lean(u, H1, "left", w) = Lean(t, H, "left", w)
      BY <3>1, SameSides
    <3> QED
      BY <1>17, <2>4, <3>2 DEF Fits
  <2> QED
    BY <2>1, <2>2, <2>3, <2>4
<1>20. Level(u)
  BY <1>14, <1>17, <1>19, LevelTree
<1>21. ASSUME NEW w \in Nodes, w # m, t.parent[w] = NULL
       PROVE  /\ u.parent[w] = NULL
              /\ \A s \in Sides : t.link[s][w] = NULL => u.link[s][w] = NULL
  <2>1. w # x /\ w # z /\ w # near /\ w # far
    BY <1>5, <1>7, <1>8, <1>21, NodeFacts DEF Around
  <2> QED
    BY <1>5, <1>12, <1>15, <1>16, <1>21, <2>1
<1>22. Straightened(t, m, u)
  BY <1>7, <1>11, <1>14, <1>15, <1>20, <1>21 DEF Straightened
<1> QED
  BY <1>22 DEF u, v, from, x
(* The side s of m is too high, and so is one side of the child there.     *)
Lopsided(t, H, m, s) ==
    /\ t.link[s][m] # NULL /\ H[m] = H[t.link[s][m]]
    /\ Of(H, t.link[Mirror[s]][m]) = H[m] - 2
    /\ Lean(t, t.height, s, m) > 0
    /\ Lean(t, H, s, t.link[s][m]) = Lean(t, t.height, s, t.link[s][m])
    /\ \/ Lean(t, H, s, t.link[s][m]) = 1
       \/ Lean(t, H, s, t.link[s][m]) = -1 /\ t.link[Mirror[s]][t.link[s][m]] # NULL

LEMMA RebalancedFacts ==
    ASSUME NEW t, Good(t), NEW m \in Nodes, NEW H, Fits(t, H, m),
           NEW s \in Sides, Lopsided(t, H, m, s)
    PROVE  Straightened(t, m, Rebalanced(t, m))
<1> DEFINE x == t.link[s][m]
           to == Mirror[s]
<1>1. to \in Sides /\ Mirror[to] = s
  BY SideFacts
<1>2. x \in Nodes
  BY NodeFacts, HeightFacts DEF Good, Sound, Lopsided
<1>3. /\ t.counter[m] = Lean(t, t.height, "left", m)
      /\ t.counter[x] = Lean(t, t.height, "left", x)
      /\ t.counter[m] \in Int /\ t.counter[x] \in Int
      /\ t \in Trees /\ t.height \in [Nodes -> Int]
  BY <1>2, TrueLean DEF Good, Sound
<1>4. CASE Lean(t, H, s, x) = 1
  <2>1. Straightened(t, m, Rotate(t, m, to))
    BY <1>1, <1>4, SingleTurn DEF Lopsided
  <2>2. Rebalanced(t, m) = Rotate(t, m, to)
    <3>1. Lean(t, t.height, s, x) = 1 /\ Lean(t, t.height, s, m) > 0
      BY <1>4 DEF Lopsided
    <3>2. CASE s = "left"
      BY <1>3, <3>1, <3>2, SideFacts DEF Rebalanced, rotateR
    <3>3. CASE s = "right"
      <4>1. t.counter[m] = - Lean(t, t.height, s, m) /\ t.counter[x] = -1
            /\ Lean(t, t.height, s, m) \in Int
        BY <1>2, <1>3, <3>1, <3>3, SideOfNode, SideFacts DEF Sides
      <4> QED
        BY <1>3, <3>1, <3>3, <4>1, SideFacts DEF Rebalanced, rotateL
    <3> QED
      BY <3>2, <3>3 DEF Sides
  <2> QED
    BY <2>1, <2>2
<1>5. CASE Lean(t, H, s, x) = -1 /\ t.link[to][x] # NULL
  <2>1. Straightened(t, m, Rotate(Rotate(t, x, s), m, to))
    BY <1>1, <1>5, DoubleTurn DEF Lopsided
  <2>2. Rebalanced(t, m) = Rotate(Rotate(t, x, s), m, to)
    <3>1. Lean(t, t.height, s, x) = -1 /\ Lean(t, t.height, s, m) > 0
      BY <1>5 DEF Lopsided
    <3>2. CASE s = "left"
      BY <1>3, <3>1, <3>2, SideFacts DEF Rebalanced, rotateLR, rotateR, rotateL
    <3>3. CASE s = "right"
      <4>1. t.counter[m] = - Lean(t, t.height, s, m) /\ t.counter[x] = 1
            /\ Lean(t, t.height, s, m) \in Int
        BY <1>2, <1>3, <3>1, <3>3, SideOfNode, SideFacts DEF Sides
      <4> QED
        BY <1>3, <3>1, <3>3, <4>1, SideFacts DEF Rebalanced, rotateRL, rotateR, rotateL
    <3> QED
      BY <3>2, <3>3 DEF Sides
  <2> QED
    BY <2>1, <2>2, Zenon
<1> QED
  BY <1>4, <1>5 DEF Lopsided

(* Nodes are made in the order of the lines; those of later lines are not  *)
(* in the tree yet.                                                        *)
Unused(t, w) == w # t.root /\ t.parent[w] = NULL /\ \A s \in Sides : t.link[s][w] = NULL
Ready(t, l) ==
    /\ Good(t)
    /\ t.root # NULL => t.parent[t.root] = NULL
    /\ \A w \in Nodes : w > l => Unused(t, w)

(* balanceTree at the lowest node that leans too far makes the whole tree  *)
(* level again, as the heights above it are those before the insertion.    *)
LEMMA BalanceFacts ==
    ASSUME NEW t, NEW l, Ready(t, l), NEW m \in Nodes, ~(m > l), NEW H, Fits(t, H, m),
           NEW s \in Sides, Lopsided(t, H, m, s), t.counter[m] \notin -1 .. 1
    PROVE  Ready(balanceTree(t, m), l) /\ Level(balanceTree(t, m))
<1> DEFINE u == Rebalanced(t, m)
           top == u.parent[m]
           v == balanceTree(t, m)
<1>1. Straightened(t, m, u) /\ Good(t)
  BY RebalancedFacts DEF Ready
<1>2. v = [u EXCEPT !.root = IF u.root = m THEN top ELSE u.root]
  BY DEF balanceTree
<1> HIDE DEF v, u
<1>3. /\ u \in Trees /\ Sound(u) /\ u.root = t.root /\ top \in Nodes
      /\ u.parent[top] = t.parent[m] /\ Level(u) /\ Good(u)
      /\ \A w \in Nodes : w # m /\ t.parent[w] = NULL =>
            /\ u.parent[w] = NULL
            /\ \A side \in Sides : t.link[side][w] = NULL => u.link[side][w] = NULL
  BY <1>1 DEF Straightened, Good, Sound
<1>4. PICK side \in Sides : u.link[side][top] = m
  BY <1>3, NodeFacts DEF Sound, Linked
<1> HIDE DEF top
<1>5. /\ v.root = IF t.root = m THEN top ELSE t.root
      /\ v.link = u.link /\ v.parent = u.parent /\ v.height = u.height
      /\ v.counter = u.counter /\ v \in Trees
  BY <1>2, <1>3 DEF Trees, N0
<1>6. Good(v) /\ Level(v)
  <2>1. Sound(v)
    BY <1>3, <1>5 DEF Sound, Linked, Acyclic, Ranks
  <2> QED
    BY <1>3, <1>5, <2>1 DEF Good, TrueBut, TrueAt, heightDiff, height, Above, Level
<1>7. v.root # NULL => v.parent[v.root] = NULL
  <2>1. CASE t.root = m
    BY <1>3, <1>5, <2>1, NodeFacts DEF Ready
  <2>2. CASE t.root # m /\ t.root # NULL
    <3>1. t.root \in Nodes /\ t.parent[t.root] = NULL
      BY <1>1, <2>2, NodeFacts, HeightFacts DEF Ready, Good, Sound
    <3> QED
      BY <1>3, <1>5, <2>2, <3>1
  <2> QED
    BY <1>5, <2>1, <2>2
<1>8. ASSUME NEW w \in Nodes, w > l PROVE Unused(v, w)
  <2>1. Unused(t, w) /\ w # m
    BY <1>8 DEF Ready
  <2>2. u.parent[w] = NULL /\ \A side1 \in Sides : u.link[side1][w] = NULL
    BY <1>3, <2>1 DEF Unused
  <2>3. w # top
    BY <1>4, <2>2, NodeFacts
  <2> QED
    BY <1>5, <2>1, <2>2, <2>3 DEF Unused
<1> QED
  BY <1>6, <1>7, <1>8 DEF Ready, v
-----------------------------------------------------------------------------
(* A new leaf *)

On(a) == {a[i] : i \in 1 .. Len(a)}

LEMMA ChainIsSimple ==
    ASSUME NEW t, Sound(t), NEW n \in Nodes, NEW a, IsChain(t, n, a)
    PROVE  /\ \A i, j \in 1 .. Len(a) : a[i] = a[j] => i = j
           /\ \A w \in Nodes, s \in Sides, i \in 1 .. Len(a) :
                t.link[s][w] = a[i] => i < Len(a) /\ w = a[i + 1]
<1>1. PICK d : FromTop(t, d)
  BY FromTopExists
<1>2. /\ a \in Seq(Nodes) /\ Len(a) \in Nat /\ a[1] = n
      /\ \A i \in 1 .. Len(a) - 1 : a[i + 1] = t.parent[a[i]]
      /\ t.parent[a[Len(a)]] = NULL /\ \A i \in 1 .. Len(a) : a[i] \in Nodes
  BY NodeFacts DEF IsChain
<1>3. \A m \in Nodes : d[m] \in Nat /\ d[t.parent[m]] < d[m]
  BY <1>1 DEF FromTop, N0
<1> DEFINE G == {k \in Nat : \A i \in 1 .. Len(a) :
                    i + k + 1 <= Len(a) => d[a[i + k + 1]] < d[a[i]]}
<1>4. \A i \in 1 .. Len(a) - 1 : d[a[i + 1]] < d[a[i]]
  BY <1>2, <1>3
<1>5. 0 \in G
  BY <1>2, <1>4
<1>6. ASSUME NEW k \in Nat, k \in G PROVE k + 1 \in G
  <2> SUFFICES ASSUME NEW i \in 1 .. Len(a), i + (k + 1) + 1 <= Len(a)
               PROVE  d[a[i + (k + 1) + 1]] < d[a[i]]
    OBVIOUS
  <2> DEFINE j == i + k + 1
  <2>1. j \in 1 .. Len(a) - 1 /\ j \in 1 .. Len(a) /\ i + (k + 1) + 1 = j + 1 /\ j + 1 \in 1 .. Len(a)
    BY <1>2
  <2>5. \A o \in 1 .. Len(a) : o + k + 1 <= Len(a) => d[a[o + k + 1]] < d[a[o]]
    BY <1>6
  <2>2. d[a[j]] < d[a[i]]
    BY <2>1, <2>5
  <2> HIDE DEF j
  <2>3. d[a[j + 1]] < d[a[j]]
    BY <1>4, <2>1
  <2>4. d[a[j]] \in Nat /\ d[a[i]] \in Nat /\ d[a[j + 1]] \in Nat
    BY <1>2, <1>3, <2>1
  <2> QED
    BY <2>1, <2>2, <2>3, <2>4
<1>7. Nat \subseteq G
  <2> HIDE DEF G
  <2> QED
    BY <1>5, <1>6, UpwardInduction
<1>8. ASSUME NEW i \in 1 .. Len(a), NEW j \in 1 .. Len(a), i < j PROVE a[i] # a[j]
  <2> DEFINE k == j - i - 1
  <2>1. k \in Nat /\ i + k + 1 = j
    BY <1>2, <1>8
  <2> HIDE DEF k
  <2>2. k \in G
    BY <1>7, <2>1
  <2>3. d[a[j]] < d[a[i]]
    BY <1>2, <2>1, <2>2
  <2> QED
    BY <1>2, <1>3, <2>3
<1>9. ASSUME NEW i \in 1 .. Len(a), NEW j \in 1 .. Len(a), a[i] = a[j] PROVE i = j
  <2>1. i < j \/ j < i \/ i = j
    OBVIOUS
  <2> QED
    BY <1>8, <1>9, <2>1
<1>10. ASSUME NEW w \in Nodes, NEW s \in Sides, NEW i \in 1 .. Len(a), t.link[s][w] = a[i]
       PROVE  i < Len(a) /\ w = a[i + 1]
  <2>1. t.parent[a[i]] = w /\ w # NULL
    BY <1>2, <1>10, NodeFacts DEF Sound, Linked
  <2>2. i # Len(a)
    BY <1>2, <2>1
  <2> QED
    BY <1>2, <2>1, <2>2
<1> QED
  BY <1>9, <1>10

(* The tree t1 is t with the leaf n on the side s of p.                    *)
Hooked(t, t1, n, p, s) ==
    /\ \A w \in Nodes, side \in Sides :
            t1.link[side][w] = IF w = p /\ side = s THEN n ELSE t.link[side][w]
    /\ p # NULL => t.link[s][p] = NULL
    /\ t1.parent[n] = p
    /\ \A side \in Sides : t.link[side][n] = NULL

GrowsBy(t, t1, w, side, d) ==
    Of(t1.height, t1.link[side][w]) = Of(t.height, t.link[side][w]) + d

LEMMA Growth ==
    ASSUME NEW t, Good(t), NEW t1, Good(t1), NEW n \in Nodes, NEW p \in N0, NEW s \in Sides,
           Hooked(t, t1, n, p, s), NEW a, IsChain(t1, n, a)
    PROVE  /\ t1.height[n] = 0
           /\ \A w \in Nodes, side \in Sides :
                /\ GrowsBy(t, t1, w, side, 0) \/ GrowsBy(t, t1, w, side, 1)
                /\ t1.link[side][w] \notin On(a) => GrowsBy(t, t1, w, side, 0)
                /\ t1.link[side][w] \notin On(a) => t1.link[side][w] = t.link[side][w]
                /\ t1.link[side][w] # n => t1.link[side][w] = t.link[side][w]
           /\ \A w \in Nodes : w \notin On(a) => t1.height[w] = t.height[w]
<1>1. /\ Sound(t) /\ Sound(t1) /\ t \in Trees /\ t1 \in Trees
      /\ t.height \in [Nodes -> Int] /\ t1.height \in [Nodes -> Int]
  BY DEF Good, Sound, Trees
<1>2. n \in On(a)
  BY NodeFacts DEF IsChain, On
<1>3. \A w \in Nodes, side \in Sides : t1.link[side][w] # n => t1.link[side][w] = t.link[side][w]
  BY DEF Hooked
<1>4. \A w \in Nodes, side \in Sides : t1.link[side][w] = n => t.link[side][w] = NULL
  <2> SUFFICES ASSUME NEW w \in Nodes, NEW side \in Sides, t1.link[side][w] = n
               PROVE  t.link[side][w] = NULL
    OBVIOUS
  <2>1. CASE w = p /\ side = s
    BY <2>1, NodeFacts DEF Hooked
  <2>2. CASE ~(w = p /\ side = s)
    <3>1. t.link[side][w] = n
      BY <2>2 DEF Hooked
    <3>2. t1.parent[n] = w /\ p = w
      BY <1>1, NodeFacts DEF Hooked, Sound, Linked
    <3>3. t.link[s][p] = NULL /\ side # s /\ t1.link[s][w] = n
      BY <2>2, <3>2, NodeFacts DEF Hooked
    <3>4. side = Mirror[s]
      BY <3>3, SideFacts
    <3> QED
      BY <1>1, <3>3, <3>4, NodeFacts DEF Sound, Linked
  <2> QED
    BY <2>1, <2>2
<1>5. \A side \in Sides : t1.link[side][n] = NULL /\ t.link[side][n] = NULL
  <2>1. n # p
    <3> SUFFICES ASSUME n = p PROVE FALSE
      OBVIOUS
    <3>1. t1.link[s][n] = n
      BY DEF Hooked
    <3>2. PICK rank : Ranks(t1, rank)
      BY <1>1 DEF Sound, Acyclic
    <3> QED
      BY <3>1, <3>2, NodeFacts DEF Ranks
  <2> QED
    BY <2>1 DEF Hooked
<1>6. t1.height[n] = 0
  <2>1. Above(t1, t1.height, n) = 0
    BY <1>5 DEF Above, Of, Highest, Sides
  <2> QED
    BY <2>1, TrueLean
<1> DEFINE Grows(w) ==
              /\ w = n \/ t1.height[w] = t.height[w] \/ t1.height[w] = t.height[w] + 1
              /\ w \notin On(a) => t1.height[w] = t.height[w]
           G == {w \in Nodes : Grows(w)}
<1>7. ASSUME NEW w \in Nodes, NEW side \in Sides,
             t1.link[side][w] # NULL => t1.link[side][w] \in G
      PROVE  /\ GrowsBy(t, t1, w, side, 0) \/ GrowsBy(t, t1, w, side, 1)
             /\ t1.link[side][w] \notin On(a) => GrowsBy(t, t1, w, side, 0)
  <2> DEFINE c == t1.link[side][w]
  <2>1. c \in N0
    BY <1>1, HeightFacts
  <2>2. CASE c = NULL
    BY <1>3, <2>2, NodeFacts DEF GrowsBy, Of
  <2>3. CASE c = n
    BY <1>2, <1>4, <1>6, <2>3, NodeFacts DEF GrowsBy, Of
  <2>4. CASE c # n /\ c # NULL
    <3>1. t.link[side][w] = c /\ c \in Nodes /\ Grows(c)
      BY <1>3, <1>7, <2>1, <2>4
    <3>2. t.height[c] \in Int
      BY <1>1, <3>1
    <3> HIDE DEF c
    <3>3. /\ Of(t1.height, c) = Of(t.height, c) \/ Of(t1.height, c) = Of(t.height, c) + 1
          /\ c \notin On(a) => Of(t1.height, c) = Of(t.height, c)
      BY <2>4, <3>1 DEF Of
    <3>4. Of(t.height, c) \in Int
      BY <2>4, <3>2 DEF Of
    <3>5. t1.link[side][w] = c
      BY DEF c
    <3> QED
      BY <3>1, <3>3, <3>4, <3>5 DEF GrowsBy
  <2> QED
    BY <2>2, <2>3, <2>4
<1>8. ASSUME NEW w \in Nodes,
             \A side \in Sides : t1.link[side][w] # NULL => t1.link[side][w] \in G
      PROVE  w \in G
  <2> DEFINE l0 == Of(t.height, t.link["left"][w])
             r0 == Of(t.height, t.link["right"][w])
             l1 == Of(t1.height, t1.link["left"][w])
             r1 == Of(t1.height, t1.link["right"][w])
  <2>1. /\ "left" \in Sides /\ "right" \in Sides /\ Mirror["left"] = "right"
    BY SideFacts DEF Sides
  <2>2. /\ l0 \in Int /\ r0 \in Int /\ l1 \in Int /\ r1 \in Int
        /\ t.height[w] = 1 + Highest(l0, r0) /\ t1.height[w] = 1 + Highest(l1, r1)
    BY <2>1, TwoSides
  <2>3. l1 = l0 + 0 \/ l1 = l0 + 1
    BY <1>7, <1>8, <2>1 DEF GrowsBy
  <2>4. r1 = r0 + 0 \/ r1 = r0 + 1
    BY <1>7, <1>8, <2>1 DEF GrowsBy
  <2>5. w \notin On(a) => t1.link["left"][w] \notin On(a) /\ t1.link["right"][w] \notin On(a)
    <3>1. ASSUME NEW side \in Sides, t1.link[side][w] \in On(a) PROVE w \in On(a)
      <4>1. PICK i \in 1 .. Len(a) : t1.link[side][w] = a[i]
        BY <3>1 DEF On
      <4>2. i < Len(a) /\ w = a[i + 1]
        BY <1>1, <4>1, ChainIsSimple
      <4>3. i + 1 \in 1 .. Len(a)
        BY <4>2 DEF IsChain
      <4> QED
        BY <4>2, <4>3 DEF On
    <3> QED
      BY <2>1, <3>1
  <2>6. w \notin On(a) => l1 = l0 + 0 /\ r1 = r0 + 0
    BY <1>7, <1>8, <2>1, <2>5 DEF GrowsBy
  <2> HIDE DEF l0, r0, l1, r1
  <2>7. /\ t1.height[w] = t.height[w] \/ t1.height[w] = t.height[w] + 1
        /\ w \notin On(a) => t1.height[w] = t.height[w]
    BY <2>2, <2>3, <2>4, <2>6 DEF Highest
  <2> QED
    BY <2>7
<1>9. Nodes \subseteq G
  <2> HIDE DEF G
  <2> QED
    BY <1>1, <1>8, RankInduction
<1>10. ASSUME NEW w \in Nodes, NEW side \in Sides
       PROVE  /\ GrowsBy(t, t1, w, side, 0) \/ GrowsBy(t, t1, w, side, 1)
              /\ t1.link[side][w] \notin On(a) => GrowsBy(t, t1, w, side, 0)
  <2>1. t1.link[side][w] # NULL => t1.link[side][w] \in G
    BY <1>1, <1>9, HeightFacts, NodeFacts
  <2> HIDE DEF G
  <2> QED
    BY <1>7, <2>1
<1>11. \A w \in Nodes : w \notin On(a) => t1.height[w] = t.height[w]
  BY <1>9
<1> QED
  BY <1>2, <1>3, <1>6, <1>10, <1>11
LEMMA ChainStep ==
    ASSUME NEW t, Sound(t), NEW n \in Nodes, NEW a, IsChain(t, n, a),
           NEW i \in 2 .. Len(a)
    PROVE  \E r \in Sides : /\ t.link[r][a[i]] = a[i - 1]
                            /\ t.link[Mirror[r]][a[i]] \notin On(a)
<1>1. /\ a \in Seq(Nodes) /\ i - 1 \in 1 .. Len(a) - 1 /\ i - 1 \in 1 .. Len(a) /\ i \in 1 .. Len(a)
  BY DEF IsChain
<1>2. a[i] \in Nodes /\ a[i - 1] \in Nodes /\ a[i - 1] # NULL /\ a[i] # NULL
  BY <1>1, NodeFacts
<1>3. a[i] = t.parent[a[i - 1]]
  <2>1. a[i - 1 + 1] = t.parent[a[i - 1]] /\ i - 1 + 1 = i
    BY <1>1, NodeFacts DEF IsChain
  <2> QED
    BY <2>1
<1>4. PICK r \in Sides : t.link[r][a[i]] = a[i - 1]
  BY <1>2, <1>3 DEF Sound, Linked
<1>5. ASSUME t.link[Mirror[r]][a[i]] \in On(a) PROVE FALSE
  <2>1. PICK k \in 1 .. Len(a) : t.link[Mirror[r]][a[i]] = a[k]
    BY <1>5 DEF On
  <2>2. k < Len(a) /\ a[i] = a[k + 1]
    BY <1>2, <2>1, SideFacts, ChainIsSimple
  <2>3. k + 1 \in 1 .. Len(a)
    BY <1>1, <2>2
  <2>4. k + 1 = i
    BY <1>1, <2>2, <2>3, ChainIsSimple
  <2>5. k = i - 1
    BY <1>1, <2>4
  <2>6. t.link[r][a[i]] = t.link[Mirror[r]][a[i]]
    BY <1>4, <2>1, <2>5
  <2> QED
    BY <1>2, <1>4, <2>6 DEF Sound, Linked
<1> QED
  BY <1>4, <1>5

LEMMA OffChain ==
    ASSUME NEW t, Good(t), Level(t), NEW t1, Good(t1),
           NEW n \in Nodes, NEW p \in N0, NEW s \in Sides, Hooked(t, t1, n, p, s),
           NEW a, IsChain(t1, n, a), NEW w \in Nodes, w \notin On(a)
    PROVE  t1.counter[w] \in -1 .. 1
<1>1. Sound(t1) /\ a \in Seq(Nodes)
  BY DEF Good, IsChain
<1>2. ASSUME NEW side \in Sides
      PROVE  Of(t1.height, t1.link[side][w]) = Of(t.height, t.link[side][w])
  <2>1. t1.link[side][w] \notin On(a)
    <3> SUFFICES ASSUME t1.link[side][w] \in On(a) PROVE FALSE
      OBVIOUS
    <3>1. PICK i \in 1 .. Len(a) : t1.link[side][w] = a[i]
      BY DEF On
    <3>2. i < Len(a) /\ w = a[i + 1]
      BY <1>1, <3>1, ChainIsSimple
    <3>3. i + 1 \in 1 .. Len(a)
      BY <1>1, <3>2
    <3> QED
      BY <3>2, <3>3 DEF On
  <2>2. Of(t.height, t.link[side][w]) \in Int
    BY TwoSides
  <2>3. GrowsBy(t, t1, w, side, 0)
    BY <2>1, Growth
  <2> QED
    BY <2>2, <2>3 DEF GrowsBy
<1>3. Lean(t1, t1.height, "left", w) = Lean(t, t.height, "left", w)
  <2>1. \A side \in Sides : Of(t1.height, t1.link[side][w]) = Of(t.height, t.link[side][w])
    BY <1>2
  <2>2. /\ Above(t1, t1.height, w) = Above(t, t.height, w)
        /\ Lean(t1, t1.height, "left", w) = Lean(t, t.height, "left", w)
    BY <2>1, SameSides
  <2> QED
    BY <2>2
<1> QED
  BY <1>3, TrueLean DEF Level

(* A node that leans too far after an insertion is on the way from the new *)
(* leaf to the root, and so is the child on its high side, which leans to  *)
(* one side, too: the cases that balanceTree tells apart are all there     *)
(* are.                                                                    *)
LEMMA Unbalanced ==
    ASSUME NEW t, Good(t), Level(t), NEW t1, Good(t1),
           NEW n \in Nodes, NEW p \in N0, NEW s \in Sides, Hooked(t, t1, n, p, s),
           NEW a, IsChain(t1, n, a), NEW j \in 1 .. Len(a),
           t1.counter[a[j]] \notin -1 .. 1,
           \A i \in 1 .. j - 1 : t1.counter[a[i]] \in -1 .. 1
    PROVE  \E H : \E r \in Sides : Fits(t1, H, a[j]) /\ Lopsided(t1, H, a[j], r)
<1> DEFINE Q == {a[i] : i \in j .. Len(a)}
           h0 == t.height
           h1 == t1.height
           H == [w \in Nodes |-> IF w \in Q THEN h0[w] ELSE h1[w]]
           m == a[j]
<1>1. /\ Sound(t1) /\ t \in Trees /\ t1 \in Trees
      /\ h0 \in [Nodes -> Int] /\ h1 \in [Nodes -> Int]
  BY DEF Good, Sound, Trees
<1>2. /\ a \in Seq(Nodes) /\ Len(a) \in Nat /\ a[1] = n /\ Len(a) > 0
      /\ \A i \in 1 .. Len(a) : a[i] \in Nodes /\ a[i] \in On(a)
  BY NodeFacts DEF IsChain, On
<1>3. /\ t1.height[n] = 0
      /\ \A w \in Nodes, side \in Sides :
           /\ GrowsBy(t, t1, w, side, 0) \/ GrowsBy(t, t1, w, side, 1)
           /\ t1.link[side][w] \notin On(a) => GrowsBy(t, t1, w, side, 0)
           /\ t1.link[side][w] \notin On(a) => t1.link[side][w] = t.link[side][w]
           /\ t1.link[side][w] # n => t1.link[side][w] = t.link[side][w]
      /\ \A w \in Nodes : w \notin On(a) => t1.height[w] = t.height[w]
  BY Growth
<1>4. /\ \A i, k \in 1 .. Len(a) : a[i] = a[k] => i = k
      /\ \A w \in Nodes, side \in Sides, i \in 1 .. Len(a) :
           t1.link[side][w] = a[i] => i < Len(a) /\ w = a[i + 1]
  BY <1>1, ChainIsSimple
<1>5. j # 1
  <2> SUFFICES ASSUME j = 1 PROVE FALSE
    OBVIOUS
  <2>1. \A side \in Sides : t1.link[side][n] = NULL
    <3> SUFFICES ASSUME NEW side \in Sides PROVE t1.link[side][n] = NULL
      OBVIOUS
    <3>1. CASE n = p
      <4>1. t1.link[s][n] = a[1]
        BY <1>2, <3>1 DEF Hooked
      <4>2. 1 < Len(a) /\ n = a[1 + 1] /\ 1 \in 1 .. Len(a) /\ 2 \in 1 .. Len(a)
        BY <1>2, <1>4, <4>1
      <4> QED
        BY <1>2, <1>4, <4>2
    <3>2. CASE n # p
      BY <3>2 DEF Hooked
    <3> QED
      BY <3>1, <3>2
  <2>2. Lean(t1, h1, "left", n) = 0
    BY <2>1, SideFacts DEF Lean, Of, Sides
  <2> QED
    BY <1>2, <2>2, TrueLean
<1>6. j \in 2 .. Len(a) /\ j - 1 \in 1 .. Len(a) /\ m \in Nodes /\ m \in Q
  BY <1>2, <1>5
<1>7. PICK r \in Sides : t1.link[r][m] = a[j - 1] /\ t1.link[Mirror[r]][m] \notin On(a)
  BY <1>1, <1>6, ChainStep
<1>8. Q \subseteq On(a) /\ n \notin Q /\ a[j - 1] \notin Q
  <2>1. Q \subseteq On(a)
    BY <1>2 DEF On
  <2>2. \A i \in j .. Len(a) : i \in 1 .. Len(a) /\ i # 1 /\ i # j - 1
    BY <1>2, <1>6
  <2>3. 1 \in 1 .. Len(a)
    BY <1>2
  <2> QED
    BY <1>2, <1>4, <1>6, <2>1, <2>2, <2>3
(* Only a node of Q has a child in Q. *)
<1>9. ASSUME NEW w \in Nodes, NEW side \in Sides, t1.link[side][w] \in Q PROVE w \in Q
  <2>1. PICK i \in j .. Len(a) : t1.link[side][w] = a[i]
    BY <1>9
  <2>2. i \in 1 .. Len(a)
    BY <1>2, <2>1
  <2>3. i < Len(a) /\ w = a[i + 1]
    BY <1>4, <2>1, <2>2
  <2>4. i + 1 \in j .. Len(a)
    BY <1>2, <2>2, <2>3
  <2> QED
    BY <2>3, <2>4
<1>10. ASSUME NEW w \in Q, w # m, NEW side \in Sides, t1.link[side][w] \in On(a)
       PROVE  t1.link[side][w] \in Q
  <2>1. PICK i \in j .. Len(a) : w = a[i]
    OBVIOUS
  <2>2. PICK k \in 1 .. Len(a) : t1.link[side][w] = a[k]
    BY <1>10 DEF On
  <2>3. i \in 1 .. Len(a) /\ w \in Nodes
    BY <1>2, <2>1
  <2>4. k < Len(a) /\ w = a[k + 1]
    BY <1>4, <2>2, <2>3
  <2>5. k + 1 \in 1 .. Len(a)
    BY <1>2, <2>4
  <2>6. k + 1 = i /\ i # j
    BY <1>4, <1>10, <2>1, <2>3, <2>4, <2>5
  <2>7. k \in j .. Len(a)
    BY <1>2, <2>6
  <2> QED
    BY <2>2, <2>7
<1>11. H \in [Nodes -> Int] /\ \A w \in Nodes : H[w] = IF w \in Q THEN h0[w] ELSE h1[w]
  <2> HIDE DEF Q
  <2> QED
    BY <1>1
<1>12. ASSUME NEW w \in Nodes, NEW side \in Sides, t1.link[side][w] \notin Q
       PROVE  Of(H, t1.link[side][w]) = Of(h1, t1.link[side][w])
  <2>1. t1.link[side][w] \in N0
    BY <1>1, HeightFacts
  <2> HIDE DEF H, Q
  <2> QED
    BY <1>11, <1>12, <2>1, NodeFacts DEF Of
<1>13. ASSUME NEW w \in Q, w # m, NEW side \in Sides
       PROVE  Of(H, t1.link[side][w]) = Of(h0, t.link[side][w])
  <2>1. w \in Nodes
    BY <1>2
  <2>2. CASE t1.link[side][w] \in Q
    <3>1. t1.link[side][w] # n /\ t1.link[side][w] \in Nodes
      BY <1>2, <1>8, <2>2
    <3>2. t.link[side][w] = t1.link[side][w]
      BY <1>3, <2>1, <3>1
    <3> HIDE DEF H, Q
    <3> QED
      BY <1>11, <2>2, <3>1, <3>2, NodeFacts DEF Of
  <2>3. CASE t1.link[side][w] \notin Q
    <3>1. t1.link[side][w] \notin On(a)
      BY <1>10, <1>13, <2>3
    <3>2. GrowsBy(t, t1, w, side, 0) /\ Of(h0, t.link[side][w]) \in Int
      <4>1. Of(h0, t.link[side][w]) \in Int
        BY <1>1, <2>1, SideOfNode
      <4> QED
        BY <1>3, <2>1, <3>1, <4>1
    <3>3. Of(H, t1.link[side][w]) = Of(h1, t1.link[side][w])
      BY <1>12, <2>1, <2>3
    <3> QED
      BY <3>2, <3>3 DEF GrowsBy
  <2> QED
    BY <2>2, <2>3
<1> HIDE DEF H
<1>14. ASSUME NEW w \in Nodes \ {m}
       PROVE  H[w] = Above(t1, H, w) /\ Lean(t1, H, "left", w) \in -1 .. 1
  <2>1. CASE w \in Q
    <3>1. Above(t1, H, w) = Above(t, h0, w) /\ Lean(t1, H, "left", w) = Lean(t, h0, "left", w)
      <4>1. \A side \in Sides : Of(H, t1.link[side][w]) = Of(h0, t.link[side][w])
        BY <1>13, <2>1
      <4> QED
        BY <4>1, SameSides
    <3>2. h0[w] = Above(t, h0, w) /\ Lean(t, h0, "left", w) \in -1 .. 1
      BY TrueLean DEF Level
    <3> QED
      BY <1>11, <2>1, <3>1, <3>2
  <2>2. CASE w \notin Q
    <3>1. \A side \in Sides : Of(H, t1.link[side][w]) = Of(h1, t1.link[side][w])
      BY <1>9, <1>12, <2>2
    <3>2. Above(t1, H, w) = Above(t1, h1, w) /\ Lean(t1, H, "left", w) = Lean(t1, h1, "left", w)
      BY <3>1, SameSides
    <3>3. h1[w] = Above(t1, h1, w)
      BY TrueLean
    <3>4. Lean(t1, h1, "left", w) \in -1 .. 1
      <4>1. CASE w \in On(a)
        <5>1. PICK i \in 1 .. Len(a) : w = a[i]
          BY <4>1 DEF On
        <5>2. i \in 1 .. j - 1
          BY <1>2, <2>2, <5>1
        <5> QED
          BY <5>1, <5>2, TrueLean
      <4>2. CASE w \notin On(a)
        BY <4>2, OffChain, TrueLean
      <4> QED
        BY <4>1, <4>2
    <3> QED
      BY <1>11, <2>2, <3>2, <3>3, <3>4
  <2> QED
    BY <2>1, <2>2
<1>15. Fits(t1, H, m)
  BY <1>11, <1>14 DEF Fits
(* The child in the chain is the higher one, and has grown. *)
<1> DEFINE x == a[j - 1]
           old == Of(h0, t.link[r][m])
           rest == Of(h1, t1.link[Mirror[r]][m])
<1>16. x \in Nodes /\ x # NULL /\ x \in On(a) /\ t1.link[r][m] = x
       /\ Mirror[r] \in Sides /\ Mirror[Mirror[r]] = r
  BY <1>2, <1>6, <1>7, NodeFacts, SideFacts
<1>17. /\ old \in Int /\ rest \in Int /\ h1[x] \in Int /\ rest >= -1
       /\ h0[m] = 1 + Highest(old, rest)
       /\ h1[x] = old \/ h1[x] = old + 1
       /\ old - rest \in -1 .. 1 /\ h1[x] - rest \notin -1 .. 1
       /\ h1[x] - rest = Lean(t1, h1, r, m)
  <2>1. /\ old \in Int /\ Of(h0, t.link[Mirror[r]][m]) \in Int /\ rest \in Int
        /\ h0[m] = 1 + Highest(old, Of(h0, t.link[Mirror[r]][m]))
    BY <1>6, TwoSides
  <2>2. Of(h0, t.link[Mirror[r]][m]) = rest
    <3>1. GrowsBy(t, t1, m, Mirror[r], 0)
      BY <1>3, <1>6, <1>7, <1>16
    <3> QED
      BY <2>1, <3>1 DEF GrowsBy
  <2>3. Of(h1, t1.link[r][m]) = h1[x] /\ h1[x] \in Int
    BY <1>1, <1>16 DEF Of
  <2>4. h1[x] = old + 0 \/ h1[x] = old + 1
    BY <1>3, <1>6, <2>3 DEF GrowsBy
  <2>5. Lean(t, h0, r, m) \in -1 .. 1 /\ Lean(t1, h1, r, m) \notin -1 .. 1
    BY <1>6, TrueLean DEF Level
  <2>6. Lean(t, h0, r, m) = old - rest /\ Lean(t1, h1, r, m) = h1[x] - rest
    BY <2>2, <2>3 DEF Lean
  <2>7. rest >= -1
    BY <1>1, <1>6, <1>16, HeightsAreNatural
  <2> QED
    BY <2>1, <2>2, <2>3, <2>4, <2>5, <2>6, <2>7
<1> HIDE DEF old, rest
<1>18. h1[x] = old + 1 /\ h1[x] = rest + 2 /\ h0[m] = h1[x] /\ h1[x] > 0
  <2>1. \A o, e, b, m0 \in Int :
            e >= -1 /\ m0 = 1 + Highest(o, e) /\ (b = o \/ b = o + 1)
            /\ o - e \in -1 .. 1 /\ b - e \notin -1 .. 1
                => b = o + 1 /\ b = e + 2 /\ m0 = b /\ b > 0
    BY DEF Highest
  <2>2. h0[m] \in Int
    BY <1>1, <1>6
  <2> QED
    BY <1>17, <2>1, <2>2
<1>19. x # n /\ t.link[r][m] = x /\ old = h0[x]
  <2>1. x # n
    BY <1>3, <1>18
  <2>2. t.link[r][m] = x
    BY <1>3, <1>6, <1>16, <2>1
  <2> QED
    BY <1>16, <2>1, <2>2 DEF old, Of
<1>20. H[m] = h0[m] /\ H[x] = h1[x] /\ Of(H, t1.link[Mirror[r]][m]) = rest
  <2>1. t1.link[Mirror[r]][m] \notin Q
    BY <1>7, <1>8
  <2>2. Of(H, t1.link[Mirror[r]][m]) = Of(h1, t1.link[Mirror[r]][m])
    BY <1>6, <1>12, <1>16, <2>1
  <2> QED
    BY <1>6, <1>8, <1>11, <1>16, <2>2 DEF rest
<1>21. \A side \in Sides : t1.link[side][x] \notin Q
  BY <1>8, <1>9, <1>16
<1>22. Lean(t1, H, r, x) = Lean(t1, h1, r, x)
  BY <1>12, <1>16, <1>21 DEF Lean
<1>23. j - 1 \in 2 .. Len(a)
  BY <1>2, <1>4, <1>6, <1>19
<1>24. PICK q \in Sides : t1.link[q][x] = a[j - 1 - 1] /\ t1.link[Mirror[q]][x] \notin On(a)
  BY <1>1, <1>23, ChainStep
<1>25. t1.link[q][x] # NULL /\ Mirror[q] \in Sides
  BY <1>2, <1>23, <1>24, NodeFacts, SideFacts
<1>26. Lean(t1, h1, q, x) = 1
  <2> DEFINE z0 == Of(h0, t.link[q][x])
             z1 == Of(h1, t1.link[q][x])
             w0 == Of(h0, t.link[Mirror[q]][x])
             w1 == Of(h1, t1.link[Mirror[q]][x])
  <2> HIDE DEF x
  <2>1. /\ z0 \in Int /\ w0 \in Int /\ z1 \in Int /\ w1 \in Int
        /\ h0[x] = 1 + Highest(z0, w0) /\ h1[x] = 1 + Highest(z1, w1)
    <3>1. x \in Nodes
      BY <1>16
    <3> QED
      BY <3>1, TwoSides
  <2>2. (z1 = z0 + 0 \/ z1 = z0 + 1) /\ w1 = w0 + 0
    BY <1>3, <1>16, <1>24, <1>25 DEF GrowsBy
  <2>3. z1 - w1 \in -1 .. 1
    <3>1. j - 1 \in 1 .. j - 1 /\ t1.counter[x] \in -1 .. 1
      BY <1>6 DEF x
    <3>2. Lean(t1, h1, q, x) \in -1 .. 1
      BY <1>16, <3>1, TrueLean
    <3> QED
      BY <3>2 DEF Lean
  <2>4. Lean(t1, h1, q, x) = z1 - w1
    BY DEF Lean
  <2> HIDE DEF z0, z1, w0, w1
  <2> QED
    BY <1>18, <1>19, <2>1, <2>2, <2>3, <2>4 DEF Highest
<1>27. \/ Lean(t1, h1, r, x) = 1
       \/ Lean(t1, h1, r, x) = -1 /\ t1.link[Mirror[r]][x] # NULL
  <2>1. CASE q = r
    BY <1>26, <2>1
  <2>2. CASE q = Mirror[r]
    <3>1. Lean(t1, h1, Mirror[q], x) = - Lean(t1, h1, q, x)
      <4>1. x \in Nodes
        BY <1>16
      <4> HIDE DEF x
      <4> QED
        BY <1>1, <4>1, SideOfNode
    <3> QED
      BY <1>16, <1>25, <1>26, <2>2, <3>1
  <2> QED
    BY <2>1, <2>2, SideFacts
<1>28. Lopsided(t1, H, m, r)
  BY <1>16, <1>17, <1>18, <1>20, <1>22, <1>27 DEF Lopsided
<1> QED
  BY <1>15, <1>28
-----------------------------------------------------------------------------
(* Ways down *)

DownStep(t, k, stops, f, m) ==
    IF m = NULL THEN <<>>
    ELSE IF stops /\ t.key[m] = k THEN <<m>>
    ELSE <<m>> \o f[t.link[Towards(t, m, k)][m]]
BelowStep(t, f, m) ==
    IF m = NULL THEN {} ELSE {m} \cup f[t.link["left"][m]] \cup f[t.link["right"][m]]
VisitStep(t, k, f, m) ==
    IF m = NULL THEN <<>>
    ELSE <<m>> \o (IF t.key[m] >= k THEN f[t.link["left"][m]] ELSE <<>>)
               \o (IF t.key[m] <= k THEN f[t.link["right"][m]] ELSE <<>>)
GoesDown(kind, t, k, stops, f, m) ==
    IF kind = "below" THEN BelowStep(t, f, m)
    ELSE IF kind = "visit" THEN VisitStep(t, k, f, m)
    ELSE DownStep(t, k, stops, f, m)
IsWayDown(kind, t, k, stops, f) == f = [m \in N0 |-> GoesDown(kind, t, k, stops, f, m)]

LEMMA WayDownExists ==
    ASSUME NEW t, Sound(t), NEW kind, NEW k, NEW stops
    PROVE  \E f : IsWayDown(kind, t, k, stops, f)
<1>1. PICK rank : Ranks(t, rank)
  BY DEF Sound, Acyclic
<1> DEFINE d == [m \in N0 |-> IF m = NULL THEN 0 ELSE rank[m] + 1]
<1>2. /\ \A m \in N0 : d[m] \in Nat /\ (d[m] <= 0 => m = NULL)
      /\ \A m \in Nodes, s \in Sides : t.link[s][m] \in N0 /\ d[t.link[s][m]] < d[m]
  <2>1. \A m \in Nodes : rank[m] \in Nat
    BY <1>1 DEF Ranks
  <2>2. \A m \in N0 : d[m] \in Nat /\ (d[m] <= 0 => m = NULL)
    BY <2>1, NodeFacts
  <2>3. ASSUME NEW m \in Nodes, NEW s \in Sides
        PROVE  t.link[s][m] \in N0 /\ d[t.link[s][m]] < d[m]
    <3>1. t.link[s][m] \in N0
      BY HeightFacts DEF Sound
    <3>2. d[m] = rank[m] + 1 /\ rank[m] \in Nat
      BY <2>1, NodeFacts DEF N0
    <3>3. CASE t.link[s][m] = NULL
      BY <3>1, <3>2, <3>3
    <3>4. CASE t.link[s][m] # NULL
      <4>1. t.link[s][m] \in Nodes /\ rank[t.link[s][m]] < rank[m]
        BY <1>1, <3>1, <3>4, NodeFacts DEF Ranks
      <4>2. d[t.link[s][m]] = rank[t.link[s][m]] + 1 /\ rank[t.link[s][m]] \in Nat
        BY <2>1, <3>1, <3>4, <4>1
      <4> HIDE DEF d
      <4> QED
        BY <3>1, <3>2, <4>1, <4>2
    <3> QED
      BY <3>3, <3>4
  <2> QED
    BY <2>2, <2>3
<1> HIDE DEF d
<1>3. ASSUME NEW f, NEW g, NEW m \in N0, \A c \in N0 : d[c] < d[m] => f[c] = g[c]
      PROVE  GoesDown(kind, t, k, stops, f, m) = GoesDown(kind, t, k, stops, g, m)
  <2>1. CASE m = NULL
    BY <2>1 DEF GoesDown, DownStep, BelowStep, VisitStep
  <2>2. CASE m # NULL
    <3>1. m \in Nodes
      BY <2>2, NodeFacts
    <3>2. \A s \in Sides : f[t.link[s][m]] = g[t.link[s][m]]
      BY <1>2, <1>3, <3>1
    <3>3. Towards(t, m, k) \in Sides /\ "left" \in Sides /\ "right" \in Sides
      BY DEF Towards, Sides
    <3>4. BelowStep(t, f, m) = BelowStep(t, g, m)
      BY <3>2, <3>3 DEF BelowStep
    <3>5. DownStep(t, k, stops, f, m) = DownStep(t, k, stops, g, m)
      BY <3>2, <3>3 DEF DownStep
    <3>6. VisitStep(t, k, f, m) = VisitStep(t, k, g, m)
      BY <3>2, <3>3 DEF VisitStep
    <3> QED
      BY <3>4, <3>5, <3>6 DEF GoesDown
  <2> QED
    BY <2>1, <2>2
<1> DEFINE Upto(i) == \E f : \A m \in N0 : d[m] <= i => f[m] = GoesDown(kind, t, k, stops, f, m)
           G == {i \in Nat : Upto(i)}
<1>4. 0 \in G
  <2> DEFINE f == [m \in N0 |-> GoesDown(kind, t, k, stops, <<>>, m)]
  <2>1. ASSUME NEW m \in N0, d[m] <= 0 PROVE f[m] = GoesDown(kind, t, k, stops, f, m)
    <3>1. \A c \in N0 : d[c] < d[m] => f[c] = <<>>[c]
      BY <1>2, <2>1
    <3> HIDE DEF f
    <3>2. GoesDown(kind, t, k, stops, f, m) = GoesDown(kind, t, k, stops, <<>>, m)
      BY <1>3, <3>1
    <3> QED
      BY <3>2 DEF f
  <2> HIDE DEF f
  <2>2. Upto(0)
    BY <2>1
  <2> HIDE DEF Upto
  <2> QED
    BY <2>2
<1>5. ASSUME NEW i \in Nat, i \in G PROVE i + 1 \in G
  <2>1. PICK f : \A m \in N0 : d[m] <= i => f[m] = GoesDown(kind, t, k, stops, f, m)
    BY <1>5
  <2> DEFINE g == [m \in N0 |-> GoesDown(kind, t, k, stops, f, m)]
  <2>2. ASSUME NEW m \in N0, d[m] <= i + 1 PROVE g[m] = GoesDown(kind, t, k, stops, g, m)
    <3>1. \A c \in N0 : d[c] < d[m] => f[c] = g[c]
      BY <1>2, <2>1, <2>2
    <3>2. g[m] = GoesDown(kind, t, k, stops, f, m)
      OBVIOUS
    <3> HIDE DEF g
    <3> QED
      BY <1>3, <3>1, <3>2
  <2> HIDE DEF g
  <2>3. Upto(i + 1)
    BY <2>2
  <2>4. i + 1 \in Nat
    OBVIOUS
  <2> HIDE DEF Upto
  <2> QED
    BY <2>3, <2>4
<1>6. Nat \subseteq G
  <2> HIDE DEF G
  <2> QED
    BY <1>4, <1>5, UpwardInduction
<1>7. PICK K \in Nat : \A m \in Nodes : d[m] < K
  <2>1. [m \in Nodes |-> d[m]] \in [Nodes -> Nat]
    BY <1>2 DEF N0
  <2> QED
    BY <2>1, Bounded
<1>8. PICK f : \A m \in N0 : d[m] <= K => f[m] = GoesDown(kind, t, k, stops, f, m)
  BY <1>6
<1>9. \A m \in N0 : d[m] <= K
  <2>1. d[NULL] = 0
    BY NodeFacts DEF d
  <2> QED
    BY <1>2, <1>7, <2>1, NodeFacts
<1> DEFINE g == [m \in N0 |-> f[m]]
<1>10. ASSUME NEW m \in N0 PROVE g[m] = GoesDown(kind, t, k, stops, g, m)
  <2>1. g[m] = GoesDown(kind, t, k, stops, f, m) /\ \A c \in N0 : f[c] = g[c]
    BY <1>8, <1>9
  <2> HIDE DEF g
  <2> QED
    BY <1>3, <2>1
<1>11. IsWayDown(kind, t, k, stops, g)
  BY <1>10 DEF IsWayDown
<1> QED
  BY <1>11

(* The path that insert takes, from m to where the search ends.            *)
IsPath(t, k, stops, m, b) ==
    /\ b \in Seq(Nodes)
    /\ m = NULL => b = <<>>
    /\ m # NULL => /\ Len(b) > 0 /\ b[1] = m
                   /\ \A i \in 1 .. Len(b) - 1 :
                        /\ t.parent[b[i + 1]] = b[i]
                        /\ t.link[Towards(t, b[i], k)][b[i]] = b[i + 1]
                        /\ ~(stops /\ t.key[b[i]] = k)
                   /\ \/ t.link[Towards(t, b[Len(b)], k)][b[Len(b)]] = NULL
                      \/ stops /\ t.key[b[Len(b)]] = k

LEMMA LongerPath ==
    ASSUME NEW t, NEW k, NEW stops, NEW m \in Nodes, NEW c, NEW b,
           IsPath(t, k, stops, c, b), c # NULL => t.parent[c] = m,
           t.link[Towards(t, m, k)][m] = c, ~(stops /\ t.key[m] = k)
    PROVE  IsPath(t, k, stops, m, <<m>> \o b)
<1> DEFINE a == <<m>> \o b
<1>1. b \in Seq(Nodes) /\ Len(b) \in Nat
  BY DEF IsPath
<1>2. /\ a \in Seq(Nodes) /\ Len(a) = Len(b) + 1 /\ a[1] = m
      /\ \A i \in 1 .. Len(b) : a[i + 1] = b[i]
  BY <1>1
<1> HIDE DEF a
<1>3. ASSUME NEW i \in 1 .. Len(a) - 1
      PROVE  /\ t.parent[a[i + 1]] = a[i]
             /\ t.link[Towards(t, a[i], k)][a[i]] = a[i + 1]
             /\ ~(stops /\ t.key[a[i]] = k)
  <2>1. i \in 1 .. Len(b) /\ Len(b) > 0 /\ a[i + 1] = b[i]
    BY <1>1, <1>2
  <2>2. c # NULL
    BY <2>1 DEF IsPath
  <2>3. CASE i = 1
    BY <1>2, <2>1, <2>2, <2>3 DEF IsPath
  <2>4. CASE i # 1
    <3>1. i - 1 \in 1 .. Len(b) - 1 /\ i - 1 \in 1 .. Len(b) /\ i - 1 + 1 = i
      BY <1>1, <2>1, <2>4
    <3>2. /\ t.parent[b[i - 1 + 1]] = b[i - 1]
          /\ t.link[Towards(t, b[i - 1], k)][b[i - 1]] = b[i - 1 + 1]
          /\ ~(stops /\ t.key[b[i - 1]] = k)
      BY <2>2, <3>1 DEF IsPath
    <3>3. a[i - 1 + 1] = b[i - 1]
      BY <1>2, <3>1
    <3> QED
      BY <2>1, <3>1, <3>2, <3>3
  <2> QED
    BY <2>3, <2>4
<1>4. \/ t.link[Towards(t, a[Len(a)], k)][a[Len(a)]] = NULL
      \/ stops /\ t.key[a[Len(a)]] = k
  <2>1. CASE c = NULL
    BY <1>1, <1>2, <2>1 DEF IsPath
  <2>2. CASE c # NULL
    <3>1. Len(b) \in 1 .. Len(b)
      BY <1>1, <2>2 DEF IsPath
    <3>2. a[Len(a)] = b[Len(b)]
      BY <1>2, <3>1
    <3> QED
      BY <2>2, <3>2 DEF IsPath
  <2> QED
    BY <2>1, <2>2
<1>5. Len(a) > 0
  BY <1>1, <1>2
<1> QED
  BY <1>2, <1>3, <1>4, <1>5, NodeFacts DEF IsPath, a

LEMMA DescentPath ==
    ASSUME NEW t, Sound(t), NEW k, NEW stops
    PROVE  IsPath(t, k, stops, t.root, Descent(t, k, stops))
<1>1. PICK f : IsWayDown("down", t, k, stops, f)
  BY WayDownExists
<1>2. f = [m \in N0 |-> DownStep(t, k, stops, f, m)]
  BY <1>1 DEF GoesDown, IsWayDown
<1> DEFINE chosen == CHOOSE g : g = [m \in N0 |-> DownStep(t, k, stops, g, m)]
<1>3. chosen = [m \in N0 |-> DownStep(t, k, stops, chosen, m)]
  BY <1>2
<1>4. Descent(t, k, stops) = chosen[t.root]
  BY DEF Descent, DownStep, N0
<1> HIDE DEF chosen
<1>5. /\ t \in Trees /\ t.root \in N0
      /\ \A m \in Nodes, s \in Sides :
            t.link[s][m] \in N0 /\ (t.link[s][m] # NULL => t.parent[t.link[s][m]] = m)
  BY HeightFacts DEF Sound, Linked
<1>6. \A m \in N0 : chosen[m] = DownStep(t, k, stops, chosen, m)
  BY <1>3
<1>7. IsPath(t, k, stops, NULL, chosen[NULL])
  <2>1. chosen[NULL] = <<>>
    BY <1>6, NodeFacts DEF DownStep
  <2> QED
    BY <2>1 DEF IsPath
<1> DEFINE G == {m \in Nodes : IsPath(t, k, stops, m, chosen[m])}
<1>8. ASSUME NEW m \in Nodes,
             \A s \in Sides : t.link[s][m] # NULL => t.link[s][m] \in G
      PROVE  m \in G
  <2> DEFINE c == t.link[Towards(t, m, k)][m]
  <2>1. Towards(t, m, k) \in Sides
    BY DEF Towards, Sides
  <2>2. c \in N0 /\ (c # NULL => t.parent[c] = m) /\ IsPath(t, k, stops, c, chosen[c])
    BY <1>5, <1>7, <1>8, <2>1
  <2>3. chosen[m] = DownStep(t, k, stops, chosen, m) /\ m # NULL
    BY <1>6, NodeFacts DEF N0
  <2>4. CASE stops /\ t.key[m] = k
    <3>1. chosen[m] = <<m>>
      BY <2>3, <2>4 DEF DownStep
    <3>2. chosen[m] \in Seq(Nodes) /\ Len(chosen[m]) = 1 /\ chosen[m][1] = m
      BY <3>1
    <3>3. chosen[m][Len(chosen[m])] = m /\ Len(chosen[m]) > 0 /\ 1 .. Len(chosen[m]) - 1 = {}
      BY <3>2
    <3>4. IsPath(t, k, stops, m, chosen[m])
      BY <2>3, <2>4, <3>2, <3>3 DEF IsPath
    <3> QED
      BY <3>4
  <2>5. CASE ~(stops /\ t.key[m] = k)
    <3>1. chosen[m] = <<m>> \o chosen[c]
      BY <2>3, <2>5 DEF DownStep
    <3>2. IsPath(t, k, stops, m, <<m>> \o chosen[c])
      BY <2>2, <2>5, LongerPath
    <3> QED
      BY <3>1, <3>2
  <2> QED
    BY <2>4, <2>5
<1>9. Nodes \subseteq G
  <2> HIDE DEF G
  <2> QED
    BY <1>8, RankInduction
<1> QED
  BY <1>4, <1>5, <1>7, <1>9, NodeFacts
-----------------------------------------------------------------------------
(* insert *)

LEMMA UnusedFacts ==
    ASSUME NEW t, NEW l, Ready(t, l), NEW n \in Nodes, n > l
    PROVE  /\ n # t.root /\ t.parent[n] = NULL /\ \A s \in Sides : t.link[s][n] = NULL
           /\ \A w \in Nodes, s \in Sides : t.link[s][w] # n
  BY NodeFacts DEF Ready, Unused, Good, Sound, Linked

(* The new leaf before updateHeight.                                       *)
Leaf(t, n, k, p, s, u) ==
    /\ u \in Trees
    /\ u.root = IF p = NULL THEN n ELSE t.root
    /\ \A w \in Nodes, side \in Sides :
            u.link[side][w] = IF w = p /\ side = s THEN n ELSE t.link[side][w]
    /\ u.parent[n] = p /\ \A w \in Nodes : w # n => u.parent[w] = t.parent[w]
    /\ u.height = t.height /\ u.counter = t.counter
    /\ u.key = [t.key EXCEPT ![n] = k] /\ u.infos = [t.infos EXCEPT ![n] = <<n>>]
(* insert puts it where the path ends.                                     *)
Planted(t, t1, n, k, p, s, path) ==
    /\ p = IF path = <<>> THEN NULL ELSE path[Len(path)]
    /\ s = Towards(t, p, k)
    /\ t1.root = IF p = NULL THEN n ELSE t.root
    /\ \A w \in Nodes : w # n => t1.parent[w] = t.parent[w]
    /\ t1.key = [t.key EXCEPT ![n] = k] /\ t1.infos = [t.infos EXCEPT ![n] = <<n>>]

LEMMA LeafIsSound ==
    ASSUME NEW t, NEW l, Ready(t, l), NEW n \in Nodes, n > l, NEW k,
           NEW p \in N0, NEW s \in Sides, p # n, p # NULL => t.link[s][p] = NULL,
           NEW u, Leaf(t, n, k, p, s, u)
    PROVE  Sound(u) /\ TrueBut(u, Wrong(u, n)) /\ Hooked(t, u, n, p, s)
<1>1. /\ \A w \in Nodes, side \in Sides :
            u.link[side][w] = IF w = p /\ side = s THEN n ELSE t.link[side][w]
      /\ u.parent[n] = p /\ \A w \in Nodes : w # n => u.parent[w] = t.parent[w]
      /\ u \in Trees /\ u.height = t.height /\ u.counter = t.counter
  BY DEF Leaf
<1>2. /\ n # t.root /\ t.parent[n] = NULL /\ \A side \in Sides : t.link[side][n] = NULL
      /\ \A w \in Nodes, side \in Sides : t.link[side][w] # n
  BY UnusedFacts
<1>3. /\ Good(t) /\ t \in Trees
      /\ \A w \in Nodes, side \in Sides :
            t.link[side][w] # NULL => t.link[side][w] \in Nodes /\ t.parent[t.link[side][w]] = w
      /\ \A w \in Nodes :
            t.parent[w] # NULL => /\ t.parent[w] \in Nodes
                                  /\ \E side \in Sides : t.link[side][t.parent[w]] = w
      /\ \A w \in Nodes, side \in Sides :
            t.link[side][w] = t.link[Mirror[side]][w] => t.link[side][w] = NULL
  BY NodeFacts, HeightFacts DEF Ready, Good, Sound, Linked
<1>4. ASSUME NEW w \in Nodes, NEW side \in Sides, u.link[side][w] # NULL
      PROVE  u.parent[u.link[side][w]] = w
  BY <1>1, <1>2, <1>3, <1>4
<1>5. ASSUME NEW w \in Nodes, u.parent[w] # NULL
      PROVE  \E side \in Sides : u.link[side][u.parent[w]] = w
  <2>1. CASE w = n
    BY <1>1, <1>5, <2>1, NodeFacts
  <2>2. CASE w # n
    <3>1. u.parent[w] = t.parent[w] /\ t.parent[w] \in Nodes
      BY <1>1, <1>3, <1>5, <2>2
    <3>2. PICK side \in Sides : t.link[side][t.parent[w]] = w
      BY <1>3, <1>5, <3>1
    <3>3. ~(t.parent[w] = p /\ side = s)
      BY <3>1, <3>2, NodeFacts
    <3> QED
      BY <1>1, <3>1, <3>2, <3>3
  <2> QED
    BY <2>1, <2>2
<1>6. ASSUME NEW w \in Nodes, NEW side \in Sides, u.link[side][w] = u.link[Mirror[side]][w]
      PROVE  u.link[side][w] = NULL
  <2>1. Mirror[side] \in Sides /\ Mirror[side] # side
    BY SideFacts
  <2> QED
    BY <1>1, <1>2, <1>3, <1>6, <2>1
<1>7. Acyclic(u)
  <2>1. PICK rank : Ranks(t, rank)
    BY <1>3 DEF Good, Sound, Acyclic
  <2> DEFINE rank1 == [w \in Nodes |-> IF w = n THEN 0 ELSE rank[w] + 1]
  <2>2. /\ \A w \in Nodes : rank[w] \in Nat
        /\ \A w \in Nodes, side \in Sides :
             t.link[side][w] # NULL => rank[t.link[side][w]] < rank[w]
    BY <2>1 DEF Ranks
  <2>3. rank1 \in [Nodes -> Nat] /\ rank1[n] = 0 /\ \A w \in Nodes : w # n => rank1[w] = rank[w] + 1
    BY <2>2
  <2> HIDE DEF rank1
  <2>4. ASSUME NEW w \in Nodes, NEW side \in Sides, u.link[side][w] # NULL
        PROVE  rank1[u.link[side][w]] < rank1[w]
    <3>1. CASE w = p /\ side = s
      BY <1>1, <2>2, <2>3, <3>1
    <3>2. CASE ~(w = p /\ side = s)
      <4> DEFINE c == t.link[side][w]
      <4>1. u.link[side][w] = c /\ c # NULL /\ c # n /\ w # n
        BY <1>1, <1>2, <2>4, <3>2
      <4>2. c \in Nodes /\ rank[c] < rank[w] /\ rank[c] \in Nat /\ rank[w] \in Nat
        BY <1>3, <2>2, <4>1
      <4>3. rank1[c] = rank[c] + 1 /\ rank1[w] = rank[w] + 1
        BY <2>3, <4>1, <4>2
      <4> QED
        BY <4>1, <4>2, <4>3
    <3> QED
      BY <3>1, <3>2
  <2> QED
    BY <2>3, <2>4 DEF Acyclic, Ranks
<1>8. Sound(u)
  BY <1>1, <1>4, <1>5, <1>6, <1>7 DEF Sound, Linked
<1>9. ASSUME NEW w \in Nodes, w \notin Wrong(u, n) PROVE TrueAt(u, w)
  <2>1. w # p
    BY <1>1, <1>9, NodeFacts DEF Wrong
  <2>2. u.link["left"][w] = t.link["left"][w] /\ u.link["right"][w] = t.link["right"][w]
    BY <1>1, <2>1 DEF Sides
  <2>3. TrueAt(t, w)
    BY <1>3 DEF Good, TrueBut
  <2> QED
    BY <1>1, <2>2, <2>3 DEF TrueAt, Above, heightDiff, height
<1>10. Hooked(t, u, n, p, s)
  BY <1>1, <1>2 DEF Hooked
<1> QED
  BY <1>8, <1>9, <1>10 DEF TrueBut
LEMMA AttachFacts ==
    ASSUME NEW t, NEW l \in Nat, Ready(t, l), l + 1 \in Nodes, NEW k \in Int,
           NEW stops, NEW path, IsPath(t, k, stops, t.root, path),
           path # <<>> => ~(stops /\ t.key[path[Len(path)]] = k)
    PROVE  LET n  == l + 1
               t1 == Attached(t, n, k, path)
           IN  /\ Ready(t1, n) /\ IsChain(t1, n, Reverse(Append(path, n)))
               /\ \E p \in N0 : \E s \in Sides :
                    Hooked(t, t1, n, p, s) /\ Planted(t, t1, n, k, p, s, path)
<1> DEFINE n == l + 1
           p == IF path = <<>> THEN NULL ELSE Last(path)
           s == Towards(t, p, k)
           leaf == [t EXCEPT !.key[n] = k, !.infos[n] = <<n>>]
           u == IF path = <<>> THEN [leaf EXCEPT !.root = n]
                ELSE [leaf EXCEPT !.link[s][p] = n, !.parent[n] = p]
           t1 == Attached(t, n, k, path)
<1>1. n \in Nodes /\ n > l /\ s \in Sides /\ Good(t) /\ t \in Trees /\ t.root \in N0
  BY HeightFacts DEF Towards, Sides, Ready, Good, Sound
<1>2. t1 = updateHeight(u, n)
  BY DEF Attached
<1> HIDE DEF n
<1>3. /\ n # t.root /\ t.parent[n] = NULL /\ \A side \in Sides : t.link[side][n] = NULL
      /\ \A w \in Nodes, side \in Sides : t.link[side][w] # n
  BY <1>1, UnusedFacts
<1>4. /\ path \in Seq(Nodes) /\ Len(path) \in Nat
      /\ path = <<>> <=> t.root = NULL
      /\ path = <<>> <=> Len(path) = 0
      /\ path # <<>> =>
            /\ path[1] = t.root /\ p = path[Len(path)] /\ p \in Nodes /\ p # NULL
            /\ \A i \in 1 .. Len(path) - 1 : t.parent[path[i + 1]] = path[i]
            /\ t.link[s][p] = NULL
      /\ path = <<>> => p = NULL
      /\ \A i \in 1 .. Len(path) : path[i] \in Nodes
  <2>1. path \in Seq(Nodes) /\ Len(path) \in Nat /\ (path = <<>> <=> Len(path) = 0)
    BY DEF IsPath
  <2>2. path = <<>> <=> t.root = NULL
    BY <2>1 DEF IsPath
  <2>3. path # <<>> => p = path[Len(path)] /\ Len(path) \in 1 .. Len(path)
    BY <2>1 DEF Last
  <2>4. \A i \in 1 .. Len(path) : path[i] \in Nodes
    BY <2>1
  <2>5. path # <<>> => p \in Nodes /\ p # NULL
    BY <2>3, <2>4, NodeFacts
  <2>6. path # <<>> =>
            /\ path[1] = t.root
            /\ \A i \in 1 .. Len(path) - 1 : t.parent[path[i + 1]] = path[i]
            /\ t.link[s][p] = NULL
    BY <2>2, <2>3 DEF IsPath
  <2> QED
    BY <2>1, <2>2, <2>3, <2>4, <2>5, <2>6
<1> HIDE DEF p, s
<1>5. \A i \in 1 .. Len(path) : path[i] # n
  <2> SUFFICES ASSUME NEW i \in 1 .. Len(path), path[i] = n PROVE FALSE
    OBVIOUS
  <2>1. path # <<>>
    BY <1>4
  <2>2. CASE i = 1
    BY <1>3, <1>4, <2>1, <2>2
  <2>3. CASE i # 1
    <3>1. i - 1 \in 1 .. Len(path) - 1 /\ i - 1 + 1 = i /\ i - 1 \in 1 .. Len(path)
      BY <1>4, <2>3
    <3>2. t.parent[path[i - 1 + 1]] = path[i - 1] /\ path[i - 1] \in Nodes
      BY <1>4, <2>1, <3>1
    <3> QED
      BY <1>3, <3>1, <3>2, NodeFacts
  <2> QED
    BY <2>2, <2>3
<1>6. p \in N0 /\ p # n /\ (p # NULL => t.link[s][p] = NULL)
  <2>1. path # <<>> => Len(path) \in 1 .. Len(path)
    BY <1>4
  <2> QED
    BY <1>1, <1>4, <1>5, <2>1, NodeFacts DEF N0
<1>7. Leaf(t, n, k, p, s, u)
  <2>1. /\ leaf \in Trees /\ leaf.root = t.root /\ leaf.link = t.link /\ leaf.parent = t.parent
        /\ leaf.height = t.height /\ leaf.counter = t.counter
        /\ leaf.key = [t.key EXCEPT ![n] = k] /\ leaf.infos = [t.infos EXCEPT ![n] = <<n>>]
    <3> DEFINE key1 == [t.key EXCEPT ![n] = k]
               infos1 == [t.infos EXCEPT ![n] = <<n>>]
    <3>1. key1 \in [Nodes -> Int] /\ infos1 \in [Nodes -> Seq(Nodes)]
      BY <1>1 DEF Trees
    <3>2. leaf = [t EXCEPT !.key = key1, !.infos = infos1]
      OBVIOUS
    <3> HIDE DEF key1, infos1
    <3> QED
      BY <1>1, <3>1, <3>2 DEF Trees
  <2> HIDE DEF leaf
  <2>2. CASE path = <<>>
    <3>1. u = [leaf EXCEPT !.root = n] /\ p = NULL
      BY <1>4, <2>2
    <3> HIDE DEF u
    <3>2. /\ u \in Trees /\ u.root = n /\ u.link = t.link /\ u.parent = t.parent
          /\ u.height = t.height /\ u.counter = t.counter
          /\ u.key = leaf.key /\ u.infos = leaf.infos
      BY <1>1, <2>1, <3>1 DEF Trees, N0
    <3> QED
      BY <1>3, <2>1, <3>1, <3>2, NodeFacts DEF Leaf
  <2>3. CASE path # <<>>
    <3> DEFINE link1 == [t.link EXCEPT ![s][p] = n]
               parent1 == [t.parent EXCEPT ![n] = p]
    <3>1. u = [leaf EXCEPT !.link = link1, !.parent = parent1] /\ p \in Nodes /\ p # NULL
      BY <1>4, <2>1, <2>3
    <3> HIDE DEF u
    <3>2. /\ link1 \in [Sides -> [Nodes -> N0]] /\ parent1 \in [Nodes -> N0]
      BY <1>1, <1>6 DEF Trees, N0
    <3>3. /\ \A w \in Nodes, side \in Sides :
                link1[side][w] = IF w = p /\ side = s THEN n ELSE t.link[side][w]
          /\ parent1[n] = p /\ \A w \in Nodes : w # n => parent1[w] = t.parent[w]
      BY <1>1, <3>1 DEF Trees
    <3> HIDE DEF link1, parent1
    <3>4. /\ u \in Trees /\ u.root = t.root /\ u.link = link1 /\ u.parent = parent1
          /\ u.height = t.height /\ u.counter = t.counter
          /\ u.key = leaf.key /\ u.infos = leaf.infos
      BY <2>1, <3>1, <3>2 DEF Trees
    <3> QED
      BY <2>1, <3>1, <3>3, <3>4 DEF Leaf
  <2> QED
    BY <2>2, <2>3
<1> HIDE DEF u, t1
<1>8. Sound(u) /\ TrueBut(u, Wrong(u, n)) /\ Hooked(t, u, n, p, s)
  BY <1>1, <1>6, <1>7, LeafIsSound
<1>9. Good(t1) /\ SameButHeights(u, t1)
  BY <1>1, <1>2, <1>8, UpdateFacts
<1>10. /\ t1.root = IF p = NULL THEN n ELSE t.root
       /\ \A w \in Nodes, side \in Sides :
            t1.link[side][w] = IF w = p /\ side = s THEN n ELSE t.link[side][w]
       /\ t1.parent[n] = p /\ \A w \in Nodes : w # n => t1.parent[w] = t.parent[w]
       /\ t1.key = [t.key EXCEPT ![n] = k] /\ t1.infos = [t.infos EXCEPT ![n] = <<n>>]
  BY <1>7, <1>9 DEF Leaf, SameButHeights
<1>11. Hooked(t, t1, n, p, s)
  BY <1>3, <1>6, <1>10 DEF Hooked
<1>12. Ready(t1, n)
  <2>1. t1.root # NULL => t1.parent[t1.root] = NULL
    <3>1. CASE p = NULL
      BY <1>10, <3>1
    <3>2. CASE p # NULL
      <4>1. t.root # NULL => t.root \in Nodes /\ t.root # n /\ t.parent[t.root] = NULL
        BY <1>1, <1>3, NodeFacts DEF Ready
      <4> QED
        BY <1>10, <3>2, <4>1
    <3> QED
      BY <3>1, <3>2
  <2>2. ASSUME NEW w \in Nodes, w > n PROVE Unused(t1, w)
    <3>1. w > l /\ w # n
      BY <1>1, <2>2 DEF n, Nodes
    <3>2. w # t.root /\ t.parent[w] = NULL /\ \A side \in Sides : t.link[side][w] = NULL
      BY <3>1, UnusedFacts
    <3>3. w # p
      <4> SUFFICES ASSUME w = p PROVE FALSE
        OBVIOUS
      <4>1. path # <<>> /\ p = path[Len(path)] /\ Len(path) > 0
        BY <1>4, NodeFacts
      <4>2. CASE Len(path) = 1
        BY <1>4, <3>2, <4>1, <4>2
      <4>3. CASE Len(path) # 1
        <5>1. /\ Len(path) - 1 \in 1 .. Len(path) - 1 /\ Len(path) - 1 + 1 = Len(path)
              /\ Len(path) - 1 \in 1 .. Len(path)
          <6>1. \A x \in Nat : x > 0 /\ x # 1 =>
                    x - 1 \in 1 .. x - 1 /\ x - 1 + 1 = x /\ x - 1 \in 1 .. x
            OBVIOUS
          <6>2. Len(path) \in Nat
            BY <1>4
          <6> QED
            BY <4>1, <4>3, <6>1, <6>2
        <5>2. t.parent[path[Len(path) - 1 + 1]] = path[Len(path) - 1]
              /\ path[Len(path) - 1] \in Nodes
          BY <1>4, <4>1, <5>1
        <5> QED
          BY <3>2, <4>1, <5>1, <5>2, NodeFacts
      <4> QED
        BY <4>2, <4>3
    <3> QED
      BY <1>10, <3>1, <3>2, <3>3 DEF Unused
  <2> QED
    BY <1>9, <2>1, <2>2 DEF Ready
<1>13. IsChain(t1, n, Reverse(Append(path, n)))
  <2> DEFINE b == Append(path, n)
             a == Reverse(b)
             L == Len(path)
  <2>1. /\ b \in Seq(Nodes) /\ Len(b) = L + 1 /\ b[L + 1] = n
        /\ \A i \in 1 .. L : b[i] = path[i]
    BY <1>1, <1>4
  <2> HIDE DEF b
  <2>2. /\ a = [i \in 1 .. L + 1 |-> b[L + 1 - i + 1]]
    BY <2>1 DEF Reverse
  <2> HIDE DEF a
  <2>3. \A i \in 1 .. L + 1 : L + 1 - i + 1 \in 1 .. L + 1
    BY <1>4
  <2>4. a \in Seq(Nodes) /\ Len(a) = L + 1
    <3>1. \A i \in 1 .. L + 1 : b[L + 1 - i + 1] \in Nodes
      BY <2>1, <2>3
    <3>2. a \in [1 .. L + 1 -> Nodes]
      BY <2>2, <3>1
    <3> QED
      BY <1>4, <3>2
  <2>5. a[1] = n
    <3>1. 1 \in 1 .. L + 1 /\ L + 1 - 1 + 1 = L + 1
      BY <1>4
    <3> QED
      BY <2>1, <2>2, <3>1
  <2>6. ASSUME NEW i \in 2 .. L + 1
        PROVE  L + 2 - i \in 1 .. L /\ a[i] = path[L + 2 - i]
    <3>1. i \in 1 .. L + 1 /\ L + 1 - i + 1 = L + 2 - i /\ L + 2 - i \in 1 .. L
      BY <1>4
    <3> QED
      BY <2>1, <2>2, <3>1
  <2>7. ASSUME NEW i \in 1 .. Len(a) - 1 PROVE a[i + 1] = t1.parent[a[i]]
    <3>1. i + 1 \in 2 .. L + 1 /\ i \in 1 .. L /\ path # <<>>
      BY <1>4, <2>4
    <3>2. a[i + 1] = path[L + 2 - (i + 1)]
      BY <2>6, <3>1
    <3>3. CASE i = 1
      <4>1. L + 2 - (i + 1) = L
        BY <1>4, <3>3
      <4> QED
        BY <1>4, <1>10, <2>5, <3>1, <3>2, <3>3, <4>1
    <3>4. CASE i # 1
      <4>1. i \in 2 .. L + 1
        BY <1>4, <3>1, <3>4
      <4>2. L + 2 - i \in 1 .. L /\ a[i] = path[L + 2 - i]
        BY <2>6, <4>1
      <4> DEFINE j == L + 2 - (i + 1)
      <4>3. j \in 1 .. L - 1 /\ j + 1 = L + 2 - i
        BY <1>4, <3>1, <4>1
      <4> HIDE DEF j
      <4>4. t.parent[path[j + 1]] = path[j]
        BY <1>4, <3>1, <4>3
      <4>5. path[j + 1] \in Nodes /\ path[j + 1] # n
        BY <1>4, <1>5, <4>2, <4>3
      <4>6. a[i + 1] = path[j]
        BY <3>2 DEF j
      <4> QED
        BY <1>10, <4>2, <4>3, <4>4, <4>5, <4>6
    <3> QED
      BY <3>3, <3>4
  <2>8. t1.parent[a[Len(a)]] = NULL
    <3>1. CASE path = <<>>
      BY <1>4, <1>10, <2>4, <2>5, <3>1
    <3>2. CASE path # <<>>
      <4>1. L + 1 \in 2 .. L + 1 /\ L + 2 - (L + 1) = 1
        BY <1>4, <3>2
      <4>2. a[Len(a)] = path[1]
        BY <2>4, <2>6, <4>1
      <4>3. t.root \in Nodes /\ t.root # n /\ t.parent[t.root] = NULL
        BY <1>1, <1>3, <1>4, <3>2, NodeFacts DEF Ready
      <4> QED
        BY <1>4, <1>10, <3>2, <4>2, <4>3
    <3> QED
      BY <3>1, <3>2
  <2>9. Len(a) > 0
    BY <1>4, <2>4
  <2> QED
    BY <1>1, <2>4, <2>5, <2>7, <2>8, <2>9, NodeFacts DEF IsChain, a, b
<1>14. Planted(t, t1, n, k, p, s, path)
  BY <1>4, <1>10 DEF Planted, s, p
<1> QED
  BY <1>1, <1>6, <1>11, <1>12, <1>13, <1>14 DEF n, t1
LEMMA NothingToBalance ==
    ASSUME NEW t, Level(t), NEW a \in Seq(Nodes)
    PROVE  FoldLeft(balanceTree, t, a) = t
<1>1. PICK run : IsRun("balance", t, a, run) /\ run[Len(a)] = FoldLeft(balanceTree, t, a)
  BY BalanceRuns
<1> DEFINE G == {k \in Nat : k <= Len(a) => run[k] = t}
<1>2. 0 \in G
  BY <1>1 DEF IsRun
<1>3. ASSUME NEW k \in Nat, k \in G PROVE k + 1 \in G
  <2> SUFFICES ASSUME k + 1 <= Len(a) PROVE run[k + 1] = t
    OBVIOUS
  <2>1. run[k] = t /\ k + 1 \in 1 .. Len(a) /\ k + 1 - 1 = k
    BY <1>3
  <2>2. run[k + 1] = Act("balance", run[k + 1 - 1], a[k + 1])
    BY <1>1, <2>1 DEF IsRun
  <2>3. t.counter[a[k + 1]] \in -1 .. 1
    BY <2>1 DEF Level
  <2> QED
    BY <2>1, <2>2, <2>3 DEF Act, balanceTree
<1>4. Nat \subseteq G
  <2> HIDE DEF G
  <2> QED
    BY <1>2, <1>3, UpwardInduction
<1>5. Len(a) \in Nat
  OBVIOUS
<1> QED
  BY <1>1, <1>4, <1>5

(* The calls of balanceTree on the way back from the leaf to the root      *)
(* leave a level tree.                                                     *)
LEMMA PathIsBalanced ==
    ASSUME NEW t, Good(t), Level(t), NEW n \in Nodes, NEW t1, Ready(t1, n),
           NEW p \in N0, NEW s \in Sides, Hooked(t, t1, n, p, s),
           NEW a, IsChain(t1, n, a)
    PROVE  Ready(FoldLeft(balanceTree, t1, a), n) /\ Level(FoldLeft(balanceTree, t1, a))
<1>1. a \in Seq(Nodes) /\ Len(a) \in Nat /\ Good(t1)
  BY DEF IsChain, Ready
<1>2. PICK run : IsRun("balance", t1, a, run) /\ run[Len(a)] = FoldLeft(balanceTree, t1, a)
  BY <1>1, BalanceRuns
<1> DEFINE Before(k) == run[k] = t1 /\ \A i \in 1 .. k : t1.counter[a[i]] \in -1 .. 1
           After(k) == Ready(run[k], n) /\ Level(run[k])
           G == {k \in Nat : k <= Len(a) => Before(k) \/ After(k)}
<1>3. 0 \in G
  BY <1>2 DEF IsRun
<1>4. ASSUME NEW k \in Nat, k \in G PROVE k + 1 \in G
  <2> SUFFICES ASSUME k + 1 <= Len(a) PROVE Before(k + 1) \/ After(k + 1)
    OBVIOUS
  <2> DEFINE m == a[k + 1]
  <2>1. k + 1 \in 1 .. Len(a) /\ k + 1 - 1 = k /\ m \in Nodes
    BY <1>1
  <2>2. run[k + 1] = balanceTree(run[k], m)
    <3>1. run[k + 1] = Act("balance", run[k + 1 - 1], m)
      BY <1>2, <2>1 DEF IsRun
    <3> QED
      BY <2>1, <3>1 DEF Act
  <2>3. CASE After(k)
    <3>1. run[k].counter[m] \in -1 .. 1
      BY <2>1, <2>3 DEF Level
    <3>2. run[k + 1] = run[k]
      BY <2>2, <3>1 DEF balanceTree
    <3> QED
      BY <2>3, <3>2
  <2>4. CASE Before(k) /\ t1.counter[m] \in -1 .. 1
    <3>1. run[k + 1] = t1
      BY <2>2, <2>4 DEF balanceTree
    <3>2. ASSUME NEW i \in 1 .. k + 1 PROVE t1.counter[a[i]] \in -1 .. 1
      <4>1. i \in 1 .. k \/ i = k + 1
        OBVIOUS
      <4> QED
        BY <2>4, <4>1
    <3> QED
      BY <3>1, <3>2
  <2>5. CASE Before(k) /\ t1.counter[m] \notin -1 .. 1
    <3>1. \A i \in 1 .. k + 1 - 1 : t1.counter[a[i]] \in -1 .. 1
      BY <2>1, <2>5
    <3>2. \E H : \E r \in Sides : Fits(t1, H, a[k + 1]) /\ Lopsided(t1, H, a[k + 1], r)
      BY <1>1, <2>1, <2>5, <3>1, Unbalanced
    <3> HIDE DEF m
    <3>6. PICK H : \E r \in Sides : Fits(t1, H, m) /\ Lopsided(t1, H, m, r)
      BY <3>2 DEF m
    <3>3. PICK r \in Sides : Fits(t1, H, m) /\ Lopsided(t1, H, m, r)
      BY <3>6
    <3>4. ~(m > n)
      BY <2>1, <3>3 DEF Lopsided, Ready, Unused
    <3>5. Ready(balanceTree(t1, m), n) /\ Level(balanceTree(t1, m))
      BY <2>1, <2>5, <3>3, <3>4, BalanceFacts
    <3> QED
      BY <2>2, <2>5, <3>5
  <2>6. Before(k) \/ After(k)
    BY <1>4, <2>1
  <2> QED
    BY <2>3, <2>4, <2>5, <2>6
<1>5. Nat \subseteq G
  <2> HIDE DEF G
  <2> QED
    BY <1>3, <1>4, UpwardInduction
<1>6. Before(Len(a)) \/ After(Len(a))
  BY <1>1, <1>5
<1>7. CASE Before(Len(a))
  <2>1. \A w \in Nodes : w \in On(a) => t1.counter[w] \in -1 .. 1
    BY <1>7 DEF On
  <2>2. \A w \in Nodes : w \notin On(a) => t1.counter[w] \in -1 .. 1
    BY <1>1, OffChain
  <2>3. Level(t1)
    BY <2>1, <2>2 DEF Level
  <2> QED
    BY <1>2, <1>7, <2>3
<1> QED
  BY <1>2, <1>6, <1>7

(* An insertion by either program takes a level and true tree to another.  *)
LEMMA InsertFacts ==
    ASSUME NEW t, NEW l \in Nat, Ready(t, l), Level(t), l + 1 \in Nodes, NEW k \in Int
    PROVE  /\ Ready(insert(t, l + 1, k), l + 1) /\ Level(insert(t, l + 1, k))
           /\ Ready(insert_ll(t, l + 1, k), l + 1) /\ Level(insert_ll(t, l + 1, k))
<1>1. Good(t) /\ Sound(t)
  BY DEF Ready, Good
<1> DEFINE Result(path) == FoldLeft(balanceTree, Attached(t, l + 1, k, path),
                                    Reverse(Append(path, l + 1)))
<1>2. ASSUME NEW stops, NEW path, IsPath(t, k, stops, t.root, path),
             path # <<>> => ~(stops /\ t.key[path[Len(path)]] = k)
      PROVE  Ready(Result(path), l + 1) /\ Level(Result(path))
  <2> DEFINE n == l + 1
             t1 == Attached(t, n, k, path)
             a == Reverse(Append(path, n))
  <2>1. /\ Ready(t1, n) /\ IsChain(t1, n, a)
        /\ \E p \in N0 : \E s \in Sides :
                Hooked(t, t1, n, p, s) /\ Planted(t, t1, n, k, p, s, path)
    BY <1>2, AttachFacts
  <2> HIDE DEF t1, a
  <2>2. PICK p \in N0, s \in Sides : Hooked(t, t1, n, p, s)
    BY <2>1
  <2>3. n \in Nodes
    OBVIOUS
  <2> HIDE DEF n
  <2>4. Ready(FoldLeft(balanceTree, t1, a), n) /\ Level(FoldLeft(balanceTree, t1, a))
    BY <1>1, <2>1, <2>2, <2>3, PathIsBalanced
  <2> QED
    BY <2>4 DEF t1, a, n
<1> HIDE DEF Result
<1>3. Ready(insert(t, l + 1, k), l + 1) /\ Level(insert(t, l + 1, k))
  <2> DEFINE path == Descent(t, k, FALSE)
  <2>1. IsPath(t, k, FALSE, t.root, path)
    BY <1>1, DescentPath
  <2> HIDE DEF path
  <2>2. Ready(Result(path), l + 1) /\ Level(Result(path))
    BY <1>2, <2>1
  <2>3. insert(t, l + 1, k) = Result(path)
    BY DEF insert, Result, path
  <2> QED
    BY <2>2, <2>3
<1>4. Ready(insert_ll(t, l + 1, k), l + 1) /\ Level(insert_ll(t, l + 1, k))
  <2> DEFINE path == Descent(t, k, TRUE)
             isKnown == path # <<>> /\ t.key[Last(path)] = k
             t1 == [t EXCEPT !.infos[Last(path)] = Append(@, l + 1)]
  <2>1. IsPath(t, k, TRUE, t.root, path)
    BY <1>1, DescentPath
  <2>2. insert_ll(t, l + 1, k) =
            IF isKnown THEN FoldLeft(balanceTree, t1, Reverse(path)) ELSE Result(path)
    BY DEF insert_ll, Result
  <2> HIDE DEF path
  <2>3. CASE ~isKnown
    <3>1. path # <<>> => ~(TRUE /\ t.key[path[Len(path)]] = k)
      BY <2>3 DEF Last
    <3>2. Ready(Result(path), l + 1) /\ Level(Result(path))
      BY <1>2, <2>1, <3>1
    <3> QED
      BY <2>2, <2>3, <3>2
  <2>4. CASE isKnown
    <3>1. path \in Seq(Nodes) /\ Len(path) \in Nat
      BY <2>1 DEF IsPath
    <3>2. Last(path) \in Nodes
      <4>1. Len(path) \in 1 .. Len(path)
        BY <2>4, <3>1
      <4> QED
        BY <3>1, <4>1 DEF Last
    <3>3. Reverse(path) \in Seq(Nodes)
      <4>1. \A i \in 1 .. Len(path) : Len(path) - i + 1 \in 1 .. Len(path)
        BY <3>1
      <4>2. \A i \in 1 .. Len(path) : path[Len(path) - i + 1] \in Nodes
        BY <3>1, <4>1
      <4>3. Reverse(path) \in [1 .. Len(path) -> Nodes]
        BY <4>2 DEF Reverse
      <4> QED
        BY <3>1, <4>3
    <3>4. /\ t1.root = t.root /\ t1.link = t.link /\ t1.parent = t.parent
          /\ t1.height = t.height /\ t1.counter = t.counter /\ t1 \in Trees
      <4> DEFINE infos1 == [t.infos EXCEPT ![Last(path)] = Append(@, l + 1)]
      <4>1. t \in Trees /\ infos1 \in [Nodes -> Seq(Nodes)]
        BY <1>1, <3>2 DEF Sound, Trees
      <4>2. t1 = [t EXCEPT !.infos = infos1]
        OBVIOUS
      <4> HIDE DEF infos1
      <4> QED
        BY <4>1, <4>2 DEF Trees
    <3> HIDE DEF t1
    <3>5. Sound(t1)
      BY <1>1, <3>4 DEF Sound, Linked, Acyclic, Ranks
    <3>6. Good(t1) /\ Level(t1)
      BY <1>1, <3>4, <3>5 DEF Good, TrueBut, TrueAt, heightDiff, height, Above, Level
    <3>7. \A w \in Nodes : w > l + 1 => w > l
      BY DEF Nodes
    <3>8. Ready(t1, l + 1)
      BY <3>4, <3>6, <3>7 DEF Ready, Unused
    <3>9. insert_ll(t, l + 1, k) = t1
      BY <2>2, <2>4, <3>3, <3>6, NothingToBalance
    <3> QED
      BY <3>6, <3>8, <3>9
  <2> QED
    BY <2>3, <2>4
<1> QED
  BY <1>3, <1>4
-----------------------------------------------------------------------------
(* The nodes that the links lead to *)

LEMMA InTreeFacts ==
    ASSUME Sound(tree)
    PROVE  /\ InTree \subseteq Nodes
           /\ \A w \in InTree : w # tree.root => tree.parent[w] # NULL
           /\ \A w \in InTree, s \in Sides : tree.link[s][w] \in InTree \cup {NULL}
<1> DEFINE chosen == CHOOSE g : g = [m \in N0 |-> BelowStep(tree, g, m)]
<1>1. chosen = [m \in N0 |-> BelowStep(tree, chosen, m)]
  <2>1. PICK f : IsWayDown("below", tree, 0, FALSE, f)
    BY WayDownExists
  <2>2. f = [m \in N0 |-> BelowStep(tree, f, m)]
    BY <2>1 DEF GoesDown, IsWayDown
  <2> QED
    BY <2>2
<1>2. InTree = chosen[tree.root]
  BY DEF InTree, BelowStep, N0
<1> HIDE DEF chosen
<1>3. /\ chosen[NULL] = {}
      /\ \A m \in Nodes : chosen[m] = {m} \cup chosen[tree.link["left"][m]]
                                          \cup chosen[tree.link["right"][m]]
  BY <1>1, NodeFacts DEF BelowStep, N0
<1>4. /\ tree.root \in N0 /\ "left" \in Sides /\ "right" \in Sides
      /\ \A m \in Nodes, s \in Sides :
            tree.link[s][m] \in N0 /\ (tree.link[s][m] # NULL => tree.parent[tree.link[s][m]] = m)
  BY HeightFacts DEF Sound, Linked, Sides
<1> DEFINE Good1(m) ==
              /\ chosen[m] \subseteq Nodes
              /\ \A w \in chosen[m] : w # m => tree.parent[w] # NULL
              /\ \A w \in chosen[m], s \in Sides : tree.link[s][w] \in chosen[m] \cup {NULL}
           G == {m \in Nodes : Good1(m)}
<1>5. ASSUME NEW m \in Nodes,
             \A s \in Sides : tree.link[s][m] # NULL => tree.link[s][m] \in G
      PROVE  m \in G
  <2> DEFINE l == tree.link["left"][m]
             r == tree.link["right"][m]
  <2>1. /\ l \in N0 /\ r \in N0 /\ chosen[m] = {m} \cup chosen[l] \cup chosen[r]
        /\ l # NULL => tree.parent[l] = m
        /\ r # NULL => tree.parent[r] = m
    BY <1>3, <1>4
  <2>2. Good1(l) /\ Good1(r)
    BY <1>3, <1>4, <1>5
  <2>3. (l # NULL => l \in chosen[l]) /\ (r # NULL => r \in chosen[r])
    BY <1>3, <2>1, NodeFacts
  <2>4. chosen[m] \subseteq Nodes
    BY <2>1, <2>2
  <2>5. ASSUME NEW w \in chosen[m], w # m PROVE tree.parent[w] # NULL
    <3>1. CASE w \in chosen[l]
      BY <1>3, <2>1, <2>2, <3>1, NodeFacts
    <3>2. CASE w \in chosen[r]
      BY <1>3, <2>1, <2>2, <3>2, NodeFacts
    <3> QED
      BY <2>1, <2>5, <3>1, <3>2
  <2>6. ASSUME NEW w \in chosen[m], NEW s \in Sides
        PROVE  tree.link[s][w] \in chosen[m] \cup {NULL}
    <3>1. CASE w = m
      BY <2>1, <2>3, <3>1 DEF Sides
    <3>2. CASE w \in chosen[l] \cup chosen[r]
      <4>1. tree.link[s][w] \in chosen[l] \cup chosen[r] \cup {NULL}
        BY <2>2, <3>2
      <4> QED
        BY <2>1, <4>1
    <3> QED
      BY <2>1, <3>1, <3>2
  <2> QED
    BY <2>4, <2>5, <2>6
<1>6. Nodes \subseteq G
  <2> HIDE DEF G
  <2> QED
    BY <1>5, RankInduction
<1>7. Good1(tree.root)
  BY <1>3, <1>4, <1>6, NodeFacts
<1> QED
  BY <1>2, <1>7

(* The heights as the links give them are those that the nodes know.       *)
LEMMA TrueHeightFacts ==
    ASSUME Good(tree)
    PROVE  \A m \in InTree \cup {NULL} : TrueHeight[m] = Of(tree.height, m)
<1> DEFINE Step(g, m) == IF m = NULL THEN -1
                         ELSE LET l == g[tree.link["left"][m]]  r == g[tree.link["right"][m]]
                              IN  1 + IF l > r THEN l ELSE r
           chosen == CHOOSE g : g = [m \in N0 |-> Step(g, m)]
           f == [m \in N0 |-> Of(tree.height, m)]
<1>1. Sound(tree) /\ \A m \in Nodes, s \in Sides : tree.link[s][m] \in N0
  BY HeightFacts DEF Good, Sound
<1>2. ASSUME NEW m \in N0 PROVE f[m] = Step(f, m)
  <2>1. CASE m = NULL
    BY <2>1 DEF Of
  <2>2. CASE m # NULL
    <3>1. m \in Nodes
      BY <2>2, NodeFacts
    <3>2. /\ f[tree.link["left"][m]] = Of(tree.height, tree.link["left"][m])
          /\ f[tree.link["right"][m]] = Of(tree.height, tree.link["right"][m])
      BY <1>1, <3>1 DEF Sides
    <3>3. f[m] = tree.height[m]
      BY <2>2 DEF Of
    <3>4. tree.height[m] = Above(tree, tree.height, m)
      BY <3>1, TrueLean
    <3> HIDE DEF f
    <3> QED
      BY <2>2, <3>2, <3>3, <3>4 DEF Above, Highest
  <2> QED
    BY <2>1, <2>2
<1>3. f = [m \in N0 |-> Step(f, m)]
  <2> HIDE DEF Step
  <2> QED
    BY <1>2
<1>4. chosen = [m \in N0 |-> Step(chosen, m)]
  BY <1>3, Zenon
<1>5. TrueHeight = [m \in InTree \cup {NULL} |-> chosen[m]]
  BY DEF TrueHeight, N0
<1> HIDE DEF chosen, f
<1> DEFINE G == {m \in Nodes : chosen[m] = Of(tree.height, m)}
<1>6. chosen[NULL] = -1
  BY <1>4, NodeFacts
<1>7. ASSUME NEW m \in Nodes,
             \A s \in Sides : tree.link[s][m] # NULL => tree.link[s][m] \in G
      PROVE  m \in G
  <2>1. ASSUME NEW s \in Sides
        PROVE  chosen[tree.link[s][m]] = Of(tree.height, tree.link[s][m])
    <3>1. CASE tree.link[s][m] = NULL
      BY <1>6, <3>1 DEF Of
    <3>2. CASE tree.link[s][m] # NULL
      BY <1>7, <3>2
    <3> QED
      BY <3>1, <3>2
  <2>2. chosen[m] = Step(chosen, m) /\ m # NULL
    <3>1. m \in N0 /\ m # NULL
      BY NodeFacts DEF N0
    <3> QED
      BY <1>4, <3>1, Zenon
  <2>3. tree.height[m] = Above(tree, tree.height, m)
    BY TrueLean
  <2>4. chosen[m] = tree.height[m]
    BY <2>1, <2>2, <2>3 DEF Above, Highest, Sides
  <2> QED
    BY <2>2, <2>4 DEF Of
<1>8. Nodes \subseteq G
  <2> HIDE DEF G
  <2> QED
    BY <1>1, <1>7, RankInduction
<1>9. InTree \subseteq Nodes
  BY <1>1, InTreeFacts
<1> QED
  BY <1>5, <1>6, <1>8, <1>9 DEF Of
-----------------------------------------------------------------------------
(* The programs *)

(* The trees are level and true, and the nodes of the lines to come are    *)
(* not in them.                                                            *)
TreeInv == lines \in 0 .. MaxLines /\ Ready(tree, lines) /\ Level(tree)

LEMMA InitTree == Init => TreeInv
<1> SUFFICES ASSUME Init PROVE TreeInv
  OBVIOUS
<1>1. tree = EmptyTree /\ lines = 0
  BY DEF Init
<1>2. /\ tree.root = NULL /\ \A s \in Sides, m \in Nodes : tree.link[s][m] = NULL
      /\ \A m \in Nodes : tree.parent[m] = NULL /\ tree.height[m] = 0 /\ tree.counter[m] = 0
  BY <1>1, SideFacts DEF EmptyTree
<1>3. tree \in Trees
  BY <1>1, SideFacts, NodeFacts DEF EmptyTree, Trees
<1>4. Acyclic(tree)
  <2>1. Ranks(tree, [m \in Nodes |-> 0])
    BY <1>2 DEF Ranks
  <2> QED
    BY <2>1 DEF Acyclic
<1>5. Sound(tree)
  BY <1>2, <1>3, <1>4, SideFacts DEF Sound, Linked
<1>6. ASSUME NEW m \in Nodes PROVE TrueAt(tree, m)
  BY <1>2 DEF TrueAt, heightDiff, height, Above, Of, Highest, Sides
<1>7. Ready(tree, 0) /\ Level(tree)
  BY <1>2, <1>5, <1>6, NodeFacts DEF Ready, Good, TrueBut, Level, Unused
<1> QED
  BY <1>1, <1>7, AVLAssumption DEF TreeInv

LEMMA NextTree == TreeInv /\ [Next]_imdbVars => TreeInv'
<1> SUFFICES ASSUME TreeInv, [Next]_imdbVars PROVE TreeInv'
  OBVIOUS
<1>1. CASE EndOfFile
  BY <1>1 DEF TreeInv, EndOfFile
<1>2. ASSUME NEW k \in Keys, LookUp(k) PROVE TreeInv'
  BY <1>2 DEF TreeInv, LookUp
<1>3. ASSUME NEW k \in Keys, ReadLine(k) PROVE TreeInv'
  <2>1. /\ lines \in Nat /\ lines + 1 \in Nodes /\ lines + 1 \in 0 .. MaxLines /\ k \in Int
        /\ Ready(tree, lines) /\ Level(tree)
    BY <1>3, AVLAssumption, ImdbAssumption DEF TreeInv, ReadLine, Nodes
  <2>2. /\ Ready(insert(tree, lines + 1, k), lines + 1) /\ Level(insert(tree, lines + 1, k))
        /\ Ready(insert_ll(tree, lines + 1, k), lines + 1)
        /\ Level(insert_ll(tree, lines + 1, k))
    BY <2>1, InsertFacts
  <2>3. /\ lines' = lines + 1
        /\ tree' = insert(tree, lines + 1, k) \/ tree' = insert_ll(tree, lines + 1, k)
    BY <1>3 DEF ReadLine
  <2>4. Ready(tree', lines') /\ Level(tree')
    BY <2>2, <2>3
  <2> QED
    BY <2>1, <2>3, <2>4 DEF TreeInv, Ready, Good, Sound, Linked, Acyclic, Ranks, TrueBut, TrueAt, Unused, Level
<1>4. CASE UNCHANGED imdbVars
  BY <1>4 DEF TreeInv, imdbVars
<1> QED
  BY <1>1, <1>2, <1>3, <1>4 DEF Next

(* Between two lines of the file the tree is a tree, level and true,       *)
(* whatever keys insert of bst.c or of bst_ll.c has been given, and in     *)
(* whatever order.                                                         *)
THEOREM TreeInvariant == Spec => []TreeInv
<1> QED
  BY InitTree, NextTree, PTL DEF Spec

(* In a true tree that is level by its counters the real heights of two    *)
(* sides differ by at most one.                                            *)
LEMMA BalanceFollows == TreeInv => TreeIsBalanced
<1> SUFFICES ASSUME TreeInv, NEW n \in InTree
    PROVE TrueHeight[tree.link["left"][n]] - TrueHeight[tree.link["right"][n]] \in -1 .. 1
  BY DEF TreeIsBalanced
<1>1. Good(tree) /\ Sound(tree) /\ Level(tree)
  BY DEF TreeInv, Ready, Good
<1>2. /\ n \in Nodes /\ tree.link["left"][n] \in InTree \cup {NULL}
      /\ tree.link["right"][n] \in InTree \cup {NULL}
  BY <1>1, InTreeFacts DEF Sides
<1>3. /\ TrueHeight[tree.link["left"][n]] = Of(tree.height, tree.link["left"][n])
      /\ TrueHeight[tree.link["right"][n]] = Of(tree.height, tree.link["right"][n])
  BY <1>1, <1>2, TrueHeightFacts
<1>4. tree.counter[n] = Lean(tree, tree.height, "left", n) /\ tree.counter[n] \in -1 .. 1
  BY <1>1, <1>2, TrueLean DEF Level
<1> QED
  BY <1>3, <1>4, SideFacts DEF Lean

(* The real heights are those that the nodes know.                         *)
LEMMA TruthFollows == TreeInv => NodesAreTrue
<1> SUFFICES ASSUME TreeInv, NEW n \in InTree
    PROVE /\ tree.height[n] = TrueHeight[n]
          /\ tree.counter[n]
              = TrueHeight[tree.link["left"][n]] - TrueHeight[tree.link["right"][n]]
          /\ IF n = tree.root THEN tree.parent[n] = NULL
             ELSE \E side \in DOMAIN Mirror : tree.link[side][tree.parent[n]] = n
  BY DEF NodesAreTrue
<1>1. /\ Good(tree) /\ Sound(tree) /\ Linked(tree)
      /\ tree.root # NULL => tree.parent[tree.root] = NULL
  BY DEF TreeInv, Ready, Good, Sound
<1>2. /\ n \in Nodes /\ n # NULL /\ tree.link["left"][n] \in InTree \cup {NULL}
      /\ tree.link["right"][n] \in InTree \cup {NULL}
      /\ n # tree.root => tree.parent[n] # NULL
  BY <1>1, InTreeFacts, NodeFacts DEF Sides
<1>3. /\ TrueHeight[n] = Of(tree.height, n)
      /\ TrueHeight[tree.link["left"][n]] = Of(tree.height, tree.link["left"][n])
      /\ TrueHeight[tree.link["right"][n]] = Of(tree.height, tree.link["right"][n])
  BY <1>1, <1>2, TrueHeightFacts
<1>4. tree.counter[n] = Lean(tree, tree.height, "left", n)
  BY <1>1, <1>2, TrueLean
<1>5. tree.height[n] = TrueHeight[n]
  BY <1>2, <1>3 DEF Of
<1>6. tree.counter[n] = TrueHeight[tree.link["left"][n]] - TrueHeight[tree.link["right"][n]]
  BY <1>3, <1>4, SideFacts DEF Lean
<1>7. IF n = tree.root THEN tree.parent[n] = NULL
      ELSE \E side \in DOMAIN Mirror : tree.link[side][tree.parent[n]] = n
  BY <1>1, <1>2, SideFacts DEF Linked
<1> QED
  BY <1>5, <1>6, <1>7

(* For files of any length and any keys, equal ones included, each node's  *)
(* sides differ in height by at most one after every insertion: what the   *)
(* single and double rotations of balanceTree (bst.c:121-147, bst_ll.c:     *)
(* 122-148) are for.                                                       *)
THEOREM TreesStayBalanced == Spec => []TreeIsBalanced
<1> QED
  BY TreeInvariant, BalanceFollows, PTL

(* For files of any length the heights and counters that updateHeight      *)
(* (bst_ll.c:38-51) has stored in the nodes, and the parents by which it   *)
(* goes up, are never stale: not after a rotation, and not after one       *)
(* inside another.                                                         *)
THEOREM NodesStayTrue == Spec => []NodesAreTrue
<1> QED
  BY TreeInvariant, TruthFollows, PTL
=============================================================================
