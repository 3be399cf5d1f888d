--------------------------- MODULE DictionaryProofs ---------------------------
(***************************************************************************)
(* Both programs are dictionaries, and answer with few comparisons, for    *)
(* files of any length: the keys are in order, whatever the rotations do.  *)
(***************************************************************************)
EXTENDS AVLProofs

(* a is at least g further than b to the side s.                           *)
Past(s, a, b, g) == IF s = "left" THEN a + g <= b ELSE b + g <= a

(* bound[s][m] is as far as keys below m go to the side s; the keys on one *)
(* side of m differ from that of m, by g at least.                         *)
Bounds == [Sides -> [Nodes -> Int]]
Bounded1(t, g, bound, m, s) ==
    /\ Past(s, bound[s][m], t.key[m], 0)
    /\ t.link[s][m] # NULL => /\ Past(s, bound[s][m], bound[s][t.link[s][m]], 0)
                              /\ Past(s, bound[Mirror[s]][t.link[s][m]], t.key[m], g)
Sorted(t, g, bound) == \A m \in Nodes, s \in Sides : Bounded1(t, g, bound, m, s)
InOrder(t, g) == \E bound \in Bounds : Sorted(t, g, bound)

LEMMA PastFacts ==
    /\ \A s \in Sides, a \in Int, b \in Int, c \in Int, g \in Int, e \in Int :
            Past(s, a, b, g) /\ Past(s, b, c, e) /\ g >= 0 /\ e >= 0 =>
                Past(s, a, c, g) /\ Past(s, a, c, e) /\ Past(s, a, c, 0)
    /\ \A s \in Sides, a \in Int, b \in Int, g \in Int :
            Past(s, a, b, g) <=> Past(Mirror[s], b, a, g)
    /\ \A s \in Sides, a \in Int : Past(s, a, a, 0)
  BY SideFacts DEF Past, Sides

LEMMA TurnKeepsOrder ==
    ASSUME NEW t, Sound(t), NEW n \in Nodes, NEW to \in Sides,
           t.link[Mirror[to]][n] # NULL,
           NEW u \in Trees, Turned(t, n, to, u), u.key = t.key,
           NEW g \in Nat, InOrder(t, g)
    PROVE  InOrder(u, g)
<1> DEFINE from  == Mirror[to]
           child == t.link[from][n]
           inner == t.link[to][child]
           outer == t.link[from][child]
           other == t.link[to][n]
<1>1. /\ from \in Sides /\ from # to /\ Mirror[from] = to /\ Mirror[to] = from
      /\ \A s \in Sides : s = to \/ s = from
  BY SideFacts
<1>2. /\ child \in Nodes /\ child # n
      /\ inner \in N0 /\ inner # n /\ inner # child
      /\ outer \in N0 /\ outer # n /\ outer # child
      /\ other \in N0 /\ other # n /\ other # child
  <2>1. Around(t, n, child, inner, outer, other)
    BY Neighbours, SMTT(30)
  <2> HIDE DEF from, child, inner, outer, other
  <2> QED
    BY <2>1 DEF Around
<1>3. /\ u.link[to][child] = n /\ u.link[from][child] = outer
      /\ u.link[from][n] = inner /\ u.link[to][n] = other
      /\ \A m \in Nodes, s \in Sides :
            m # n /\ m # child =>
                u.link[s][m] = IF t.link[s][m] = n THEN child ELSE t.link[s][m]
  BY DEF Turned, TurnedTo
<1>4. /\ t.link[from][n] = child /\ t.link[to][n] = other
      /\ t.link[to][child] = inner /\ t.link[from][child] = outer
  OBVIOUS
<1>5. /\ t.key \in [Nodes -> Int] /\ child # NULL
      /\ \A m \in Nodes, s \in Sides : t.link[s][m] \in N0
  BY HeightFacts DEF Sound, Trees
<1>6. PICK bound \in Bounds : Sorted(t, g, bound)
  BY DEF InOrder
<1> HIDE DEF from, child, inner, outer, other
<1> DEFINE near == IF to = "right" THEN t.key[child] + g ELSE t.key[child] - g
           bound1 == [s \in Sides |-> [m \in Nodes |->
                        IF m = child THEN bound[s][n]
                        ELSE IF m = n THEN (IF s = to THEN bound[to][n] ELSE near)
                        ELSE bound[s][m]]]
<1>7. near \in Int /\ \A s \in Sides, m \in Nodes : bound[s][m] \in Int /\ t.key[m] \in Int
  BY <1>2, <1>5 DEF Bounds
<1>8. /\ bound1 \in Bounds
      /\ \A s \in Sides : bound1[s][child] = bound[s][n]
      /\ bound1[to][n] = bound[to][n] /\ bound1[from][n] = near
      /\ \A s \in Sides, m \in Nodes : m # n /\ m # child => bound1[s][m] = bound[s][m]
  BY <1>1, <1>2, <1>7 DEF Bounds
<1> HIDE DEF bound1
<1>9. /\ Past(to, near, t.key[child], g)
      /\ \A b \in Int : Past(to, b, t.key[child], g) => Past(to, b, near, 0)
  BY <1>2, <1>7 DEF Past, Sides
<1> HIDE DEF near
<1>10. \A m \in Nodes, s \in Sides :
            /\ Past(s, bound[s][m], t.key[m], 0)
            /\ t.link[s][m] # NULL => /\ Past(s, bound[s][m], bound[s][t.link[s][m]], 0)
                                      /\ Past(s, bound[Mirror[s]][t.link[s][m]], t.key[m], g)
  BY <1>6 DEF Sorted, Bounded1
<1>11. /\ Past(from, bound[from][n], bound[from][child], 0)
       /\ Past(from, bound[to][child], t.key[n], g)
       /\ Past(to, bound[to][child], t.key[child], 0)
       /\ Past(to, bound[to][n], t.key[n], 0)
       /\ Past(from, bound[from][child], t.key[child], 0)
  BY <1>1, <1>2, <1>4, <1>5, <1>10
<1>12. Past(to, t.key[n], t.key[child], g)
  <2>1. Past(to, t.key[n], bound[to][child], g)
    BY <1>1, <1>2, <1>7, <1>11, PastFacts
  <2> QED
    BY <1>2, <1>7, <1>11, <2>1, PastFacts
<1>13. ASSUME NEW s \in Sides PROVE Bounded1(u, g, bound1, child, s)
  <2>1. CASE s = to
    <3>1. Past(to, bound[to][n], t.key[child], 0)
      BY <1>2, <1>7, <1>11, <1>12, PastFacts
    <3>2. Past(to, bound[to][n], bound[to][n], 0)
      BY <1>7, PastFacts
    <3> QED
      BY <1>1, <1>3, <1>8, <1>9, <2>1, <3>1, <3>2 DEF Bounded1
  <2>2. CASE s = from
    <3>1. Past(from, bound[from][n], t.key[child], 0)
      BY <1>1, <1>2, <1>7, <1>11, PastFacts, SMTT(30)
    <3>2. outer # NULL => /\ outer \in Nodes
                          /\ Past(from, bound[from][child], bound[from][outer], 0)
                          /\ Past(from, bound[to][outer], t.key[child], g)
      BY <1>1, <1>2, <1>4, <1>10, NodeFacts
    <3>3. outer # NULL => Past(from, bound[from][n], bound[from][outer], 0)
      BY <1>1, <1>2, <1>7, <1>11, <3>2, PastFacts
    <3> QED
      BY <1>1, <1>2, <1>3, <1>8, <2>2, <3>1, <3>2, <3>3 DEF Bounded1
  <2> QED
    BY <1>1, <2>1, <2>2
<1>14. ASSUME NEW s \in Sides PROVE Bounded1(u, g, bound1, n, s)
  <2>1. CASE s = to
    <3>1. other # NULL => /\ other \in Nodes
                          /\ Past(to, bound[to][n], bound[to][other], 0)
                          /\ Past(to, bound[from][other], t.key[n], g)
      BY <1>1, <1>2, <1>4, <1>10, NodeFacts
    <3> QED
      BY <1>1, <1>2, <1>3, <1>8, <1>11, <2>1, <3>1 DEF Bounded1
  <2>2. CASE s = from
    <3>1. inner # NULL => /\ inner \in Nodes
                          /\ Past(to, bound[to][child], bound[to][inner], 0)
                          /\ Past(to, bound[from][inner], t.key[child], g)
      BY <1>1, <1>2, <1>4, <1>10, NodeFacts
    <3>2. Past(from, near, t.key[n], 0)
      BY <1>1, <1>7, <1>9, <1>12, <1>2, PastFacts
    <3>3. inner # NULL => Past(from, near, bound[from][inner], 0)
      BY <1>1, <1>7, <1>9, <3>1, PastFacts
    <3>4. inner # NULL => Past(from, bound[to][inner], t.key[n], g)
      <4>1. ASSUME inner # NULL
            PROVE  /\ Past(from, bound[to][inner], bound[to][child], 0)
                   /\ Past(from, bound[to][child], t.key[n], g)
        BY <1>1, <1>2, <1>7, <1>11, <3>1, <4>1, PastFacts
      <4> QED
        BY <1>1, <1>2, <1>7, <3>1, <4>1, PastFacts
    <3> QED
      BY <1>1, <1>2, <1>3, <1>8, <2>2, <3>1, <3>2, <3>3, <3>4 DEF Bounded1
  <2> QED
    BY <1>1, <2>1, <2>2
<1>15. ASSUME NEW m \in Nodes, m # n, m # child, NEW s \in Sides
       PROVE  Bounded1(u, g, bound1, m, s)
  <2> DEFINE c == t.link[s][m]
  <2>1. /\ Past(s, bound[s][m], t.key[m], 0) /\ Mirror[s] \in Sides
        /\ c # NULL => /\ c \in Nodes
                       /\ Past(s, bound[s][m], bound[s][c], 0)
                       /\ Past(s, bound[Mirror[s]][c], t.key[m], g)
    BY <1>5, <1>10, NodeFacts, SideFacts
  <2>2. CASE c = n
    <3>1. u.link[s][m] = child /\ n # NULL
      BY <1>3, <1>15, <2>2, NodeFacts
    <3> QED
      BY <1>8, <1>15, <2>1, <2>2, <3>1 DEF Bounded1
  <2>3. CASE c # n
    <3>1. u.link[s][m] = c
      BY <1>3, <1>15, <2>3
    <3>2. c # child
      <4>1. c = child => t.parent[child] = m
        BY <1>5 DEF Sound, Linked
      <4>2. t.parent[child] = n
        BY <1>1, <1>4, <1>5 DEF Sound, Linked
      <4> QED
        BY <1>15, <4>1, <4>2
    <3> QED
      BY <1>8, <1>15, <2>1, <2>3, <3>1, <3>2 DEF Bounded1
  <2> QED
    BY <2>2, <2>3
<1>16. Sorted(u, g, bound1)
  BY <1>13, <1>14, <1>15, SMTT(30) DEF Sorted
<1> QED
  BY <1>8, <1>16 DEF InOrder

-----------------------------------------------------------------------------
(* balanceTree keeps the dictionary *)

(* The nodes that hang under the root, or are it; others have no children. *)
Placed(t) == {w \in Nodes : w = t.root \/ t.parent[w] # NULL}
Whole(t) ==
    /\ t.root # NULL => t.parent[t.root] = NULL
    /\ \A w \in Nodes \ Placed(t), s \in Sides : t.link[s][w] = NULL

(* What is in the tree u is what was in t, in the same order.              *)
Keeps(t, u) ==
    /\ u.key = t.key /\ u.infos = t.infos
    /\ \A g \in Nat : InOrder(t, g) => InOrder(u, g)

(* The node top has taken the place of m, and m is below it now.           *)
Lifted(t, m, u, top) ==
    /\ u.root = t.root /\ top \in Nodes /\ top # m
    /\ t.parent[top] # NULL /\ u.parent[m] # NULL
    /\ u.parent[top] = NULL <=> t.parent[m] = NULL
    /\ \A w \in Nodes : w # m /\ w # top => (u.parent[w] = NULL <=> t.parent[w] = NULL)
    /\ \A w \in Nodes, s \in Sides :
            w # m /\ t.parent[w] = NULL /\ t.link[s][w] = NULL => u.link[s][w] = NULL

LEMMA RotateKeeps ==
    ASSUME NEW t, Good(t), NEW n \in Nodes, NEW to \in Sides,
           t.link[Mirror[to]][n] # NULL
    PROVE  LET u == Rotate(t, n, to)
               child == t.link[Mirror[to]][n]
           IN  /\ Good(u) /\ Keeps(t, u) /\ Lifted(t, n, u, child)
               /\ u.parent[n] = child /\ u.link[to][child] = n
               /\ \A w \in Nodes, s \in Sides :
                    w # n /\ w # child =>
                        u.link[s][w] = IF t.link[s][w] = n THEN child ELSE t.link[s][w]
<1> DEFINE u == Rotate(t, n, to)
           child == t.link[Mirror[to]][n]
           inner == t.link[to][child]
<1>1. /\ Good(u) /\ Turned(t, n, to, u) /\ Sound(t) /\ u \in Trees
      /\ u.root = t.root /\ u.key = t.key /\ u.infos = t.infos
  BY RotateFacts DEF Good, Sound
<1>2. /\ child \in Nodes /\ child # n /\ t.parent[child] = n
      /\ inner # NULL => inner \in Nodes /\ t.parent[inner] = child
  <2>1. Around(t, n, child, inner, t.link[Mirror[to]][child], t.link[to][n])
    BY <1>1, Neighbours, SMTT(30)
  <2> HIDE DEF child, inner
  <2> QED
    BY <2>1 DEF Around
<1> HIDE DEF u
<1>3. /\ u.parent[child] = t.parent[n] /\ u.parent[n] = child /\ u.link[to][child] = n
      /\ \A w \in Nodes :
            w # n /\ w # child => u.parent[w] = IF w = inner THEN n ELSE t.parent[w]
      /\ \A w \in Nodes, s \in Sides :
            w # n /\ w # child =>
                u.link[s][w] = IF t.link[s][w] = n THEN child ELSE t.link[s][w]
  BY <1>1, Zenon DEF Turned, TurnedTo
<1>4. Keeps(t, u)
  BY <1>1, TurnKeepsOrder DEF Keeps
<1> HIDE DEF child, inner
<1>5. Lifted(t, n, u, child)
  BY <1>1, <1>2, <1>3, NodeFacts DEF Lifted
<1> QED
  BY <1>1, <1>3, <1>4, <1>5 DEF u, child

LEMMA KeepsIsTransitive ==
    ASSUME NEW t, NEW u, NEW v, Keeps(t, u), Keeps(u, v)
    PROVE  Keeps(t, v)
  BY DEF Keeps

(* A node that leans to the side s has a child there; and one that does    *)
(* not lean to the other side does if it has a child at all.               *)
LEMMA HighSide ==
    ASSUME NEW t, Good(t), NEW m \in Nodes, NEW s \in Sides
    PROVE  /\ Lean(t, t.height, s, m) > 0 => t.link[s][m] # NULL
           /\ Lean(t, t.height, s, m) > 1 =>
                /\ t.link[s][m] \in Nodes
                /\ Lean(t, t.height, s, t.link[s][m]) <= 0 =>
                        t.link[Mirror[s]][t.link[s][m]] # NULL
<1> DEFINE x == t.link[s][m]
<1>1. /\ Mirror[s] \in Sides /\ t \in Trees /\ t.height \in [Nodes -> Int] /\ x \in N0
      /\ \A w \in Nodes, side \in Sides :
            Of(t.height, t.link[side][w]) \in Int /\ Of(t.height, t.link[side][w]) >= -1
  BY SideFacts, HeightFacts, HeightsAreNatural, TwoSides DEF Good, Sound, Trees
<1>2. Lean(t, t.height, s, m) > 0 => t.link[s][m] # NULL
  BY <1>1 DEF Lean, Of
<1>3. ASSUME Lean(t, t.height, s, m) > 1
      PROVE  /\ x \in Nodes
             /\ Lean(t, t.height, s, x) <= 0 => t.link[Mirror[s]][x] # NULL
  <2>1. x \in Nodes
    BY <1>1, <1>2, <1>3, NodeFacts DEF Lean
  <2>2. t.height[x] > 0
    BY <1>1, <1>3, <2>1, NodeFacts DEF Lean, Of
  <2>3. t.height[x]
            = 1 + Highest(Of(t.height, t.link[s][x]), Of(t.height, t.link[Mirror[s]][x]))
    BY <2>1, TwoSides
  <2> DEFINE a == Of(t.height, t.link[s][x])
             b == Of(t.height, t.link[Mirror[s]][x])
  <2>4. a \in Int /\ b \in Int /\ t.height[x] = 1 + Highest(a, b)
        /\ Lean(t, t.height, s, x) = a - b
    BY <1>1, <2>1, <2>3 DEF Lean
  <2>5. t.link[Mirror[s]][x] = NULL => b = -1
    BY DEF Of
  <2> HIDE DEF a, b, x
  <2> QED
    BY <2>1, <2>2, <2>4, <2>5 DEF Highest
<1> QED
  BY <1>2, <1>3

LEMMA RebalancedKeeps ==
    ASSUME NEW t, Good(t), NEW m \in Nodes, t.counter[m] \notin -1 .. 1
    PROVE  \E top \in Nodes : LET u == Rebalanced(t, m)
                              IN  /\ Good(u) /\ Keeps(t, u) /\ Lifted(t, m, u, top)
                                  /\ u.parent[m] = top
<1>1. /\ t.counter[m] = Lean(t, t.height, "left", m) /\ t.counter[m] \in Int
      /\ t \in Trees /\ t.height \in [Nodes -> Int]
  BY TrueLean DEF Good, Sound
<1>2. \E s \in Sides : Lean(t, t.height, s, m) > 1 /\ (t.counter[m] > 0 <=> s = "left")
  <2>1. CASE t.counter[m] > 0
    BY <1>1, <2>1 DEF Sides
  <2>2. CASE ~(t.counter[m] > 0)
    <3>1. Lean(t, t.height, "right", m) = - Lean(t, t.height, "left", m)
      BY <1>1, SideOfNode, SideFacts DEF Sides
    <3> QED
      BY <1>1, <2>2, <3>1 DEF Sides
  <2> QED
    BY <2>1, <2>2
<1>3. PICK s \in Sides : Lean(t, t.height, s, m) > 1 /\ (t.counter[m] > 0 <=> s = "left")
  BY <1>2
<1> DEFINE x == t.link[s][m]
           to == Mirror[s]
<1>4. to \in Sides /\ Mirror[to] = s /\ to # s
  BY SideFacts
<1>5. x \in Nodes /\ x # NULL /\ (Lean(t, t.height, s, x) <= 0 => t.link[to][x] # NULL)
  BY <1>3, HighSide, NodeFacts
<1>6. /\ t.counter[x] = Lean(t, t.height, "left", x) /\ t.counter[x] \in Int
      /\ Lean(t, t.height, s, x) \in Int
  BY <1>1, <1>5, TrueLean, SideOfNode
<1>7. CASE Lean(t, t.height, s, x) > 0
  <2>1. Rebalanced(t, m) = Rotate(t, m, to)
    <3>1. CASE s = "left"
      BY <1>3, <1>6, <1>7, <3>1, SideFacts DEF Rebalanced, rotateR
    <3>2. CASE s = "right"
      <4>1. t.counter[x] = - Lean(t, t.height, s, x)
        BY <1>1, <1>5, <1>6, <3>2, SideOfNode, SideFacts DEF Sides
      <4> QED
        BY <1>3, <1>6, <1>7, <3>2, <4>1, SideFacts DEF Rebalanced, rotateL
    <3> QED
      BY <3>1, <3>2 DEF Sides
  <2>2. LET u == Rotate(t, m, to)
        IN  Good(u) /\ Keeps(t, u) /\ Lifted(t, m, u, x) /\ u.parent[m] = x
    <3>1. t.link[Mirror[to]][m] = x /\ t.link[Mirror[to]][m] # NULL
      BY <1>4, <1>5
    <3> HIDE DEF x, to
    <3> QED
      BY <1>4, <3>1, RotateKeeps
  <2> QED
    BY <1>5, <2>1, <2>2
<1>8. CASE Lean(t, t.height, s, x) <= 0
  <2> DEFINE z == t.link[to][x]
             v == Rotate(t, x, s)
             u == Rotate(v, m, to)
  <2>1. Rebalanced(t, m) = u
    <3>1. CASE s = "left"
      BY <1>3, <1>6, <1>8, <3>1, SideFacts DEF Rebalanced, rotateLR, rotateR, rotateL
    <3>2. CASE s = "right"
      <4>1. t.counter[x] = - Lean(t, t.height, s, x)
        BY <1>1, <1>5, <1>6, <3>2, SideOfNode, SideFacts DEF Sides
      <4> QED
        BY <1>3, <1>6, <1>8, <3>2, <4>1, SideFacts DEF Rebalanced, rotateRL, rotateR, rotateL
    <3> QED
      BY <3>1, <3>2 DEF Sides
  <2>2. z \in Nodes /\ z # NULL /\ t.parent[z] = x /\ t.parent[x] = m /\ x # m /\ z # m /\ z # x
    <3>1. z # NULL /\ z \in N0 /\ Sound(t) /\ t.link[s][m] = x /\ t.link[Mirror[s]][x] = z
      BY <1>4, <1>5, <1>8, HeightFacts DEF Good, Sound
    <3>2. z \in Nodes
      BY <3>1, NodeFacts
    <3>3. PICK rank : Ranks(t, rank)
      BY <3>1 DEF Sound, Acyclic
    <3>4. rank[z] < rank[x] /\ rank[x] < rank[m]
      BY <1>4, <1>5, <3>1, <3>3, SMTT(30) DEF Ranks
    <3>5. t.parent[z] = x /\ t.parent[x] = m
      BY <1>4, <1>5, <3>1 DEF Sound, Linked
    <3>6. rank[z] \in Nat /\ rank[x] \in Nat /\ rank[m] \in Nat
      BY <1>5, <3>2, <3>3 DEF Ranks
    <3> HIDE DEF z, x
    <3> QED
      BY <3>1, <3>2, <3>4, <3>5, <3>6
  <2>3. /\ Good(v) /\ Keeps(t, v) /\ Lifted(t, x, v, z) /\ v.parent[x] = z /\ v.link[s][z] = x
        /\ v.link[s][m] = z
    <3>1. t.link[Mirror[s]][x] = z /\ t.link[s][m] = x
      BY <1>4
    <3> HIDE DEF z, x, v, to
    <3>2. t.link[Mirror[s]][x] # NULL
      BY <2>2, <3>1
    <3>3. LET w == Rotate(t, x, s)
          IN  /\ Good(w) /\ Keeps(t, w) /\ Lifted(t, x, w, t.link[Mirror[s]][x])
              /\ w.parent[x] = t.link[Mirror[s]][x] /\ w.link[s][t.link[Mirror[s]][x]] = x
              /\ \A y \in Nodes, side \in Sides :
                    y # x /\ y # t.link[Mirror[s]][x] =>
                        w.link[side][y] = IF t.link[side][y] = x THEN t.link[Mirror[s]][x]
                                          ELSE t.link[side][y]
      BY <1>5, <3>2, RotateKeeps, SMTT(30)
    <3> QED
      BY <2>2, <3>1, <3>3 DEF v
  <2> HIDE DEF v
  <2>4. Good(u) /\ Keeps(v, u) /\ Lifted(v, m, u, z) /\ u.parent[m] = z
    <3>1. v.link[Mirror[to]][m] = z
      BY <1>4, <2>3
    <3> HIDE DEF z, to
    <3> QED
      BY <1>4, <2>2, <2>3, <3>1, RotateKeeps, SMTT(30)
  <2> HIDE DEF u, z, x
  <2>5. Lifted(t, m, u, z)
    <3>1. v.parent[m] = NULL <=> t.parent[m] = NULL
      BY <2>2, <2>3 DEF Lifted
    <3>2. /\ u.root = t.root /\ z \in Nodes /\ z # m /\ t.parent[z] # NULL
          /\ u.parent[m] # NULL /\ (u.parent[z] = NULL <=> t.parent[m] = NULL)
      BY <1>5, <2>2, <2>3, <2>4, <3>1, NodeFacts DEF Lifted
    <3>3. ASSUME NEW w \in Nodes, w # m, w # z
          PROVE  u.parent[w] = NULL <=> t.parent[w] = NULL
      <4>1. CASE w = x
        BY <2>2, <2>3, <2>4, <3>3, <4>1, NodeFacts DEF Lifted
      <4>2. CASE w # x
        BY <2>3, <2>4, <3>3, <4>2 DEF Lifted
      <4> QED
        BY <4>1, <4>2
    <3>4. ASSUME NEW w \in Nodes, NEW side \in Sides,
                 w # m, t.parent[w] = NULL, t.link[side][w] = NULL
          PROVE  u.link[side][w] = NULL
      <4>1. w # x /\ w # z
        BY <2>2, <3>4, <1>5, NodeFacts
      <4>2. v.parent[w] = NULL /\ v.link[side][w] = NULL
        BY <2>3, <3>4, <4>1 DEF Lifted
      <4> QED
        BY <2>4, <3>4, <4>2 DEF Lifted
    <3> QED
      BY <3>2, <3>3, <3>4 DEF Lifted
  <2> QED
    BY <2>1, <2>2, <2>3, <2>4, <2>5, KeepsIsTransitive
<1> QED
  BY <1>6, <1>7, <1>8

(* balanceTree neither loses a node nor disturbs the order of the keys.    *)
LEMMA BalanceKeeps ==
    ASSUME NEW t, Good(t), Whole(t), NEW m \in Nodes
    PROVE  LET v == balanceTree(t, m)
           IN  Good(v) /\ Whole(v) /\ Placed(v) = Placed(t) /\ Keeps(t, v)
<1> DEFINE u == Rebalanced(t, m)
           v == balanceTree(t, m)
<1>1. CASE t.counter[m] \in -1 .. 1
  BY <1>1 DEF balanceTree, Keeps
<1>2. CASE t.counter[m] \notin -1 .. 1
  <2>1. PICK top \in Nodes : /\ Good(u) /\ Keeps(t, u) /\ Lifted(t, m, u, top)
                             /\ u.parent[m] = top
    BY <1>2, RebalancedKeeps
  <2>2. v = [u EXCEPT !.root = IF u.root = m THEN u.parent[m] ELSE u.root]
    BY <1>2 DEF balanceTree
  <2> HIDE DEF u, v
  <2>3. /\ v.root = IF t.root = m THEN top ELSE t.root
        /\ v.link = u.link /\ v.parent = u.parent /\ v.height = u.height
        /\ v.counter = u.counter /\ v.key = u.key /\ v.infos = u.infos /\ v \in Trees
    <3>1. u \in Trees /\ u.root = t.root
      BY <2>1 DEF Good, Sound, Lifted
    <3> QED
      BY <2>1, <2>2, <3>1 DEF Trees, N0
  <2>4. Good(v)
    <3>1. Sound(v)
      BY <2>1, <2>3 DEF Good, Sound, Linked, Acyclic, Ranks
    <3> QED
      BY <2>1, <2>3, <3>1 DEF Good, TrueBut, TrueAt, heightDiff, height, Above, Of
  <2>5. Keeps(t, v)
    BY <2>1, <2>3 DEF Keeps, InOrder, Sorted, Bounded1
  <2>6. m \in Placed(t)
    <3> SUFFICES ASSUME m \notin Placed(t) PROVE FALSE
      OBVIOUS
    <3>1. \A s \in Sides : t.link[s][m] = NULL
      BY SMTT(30) DEF Whole
    <3>2. t.counter[m] = 0
      BY <3>1, TrueLean, SideFacts DEF Lean, Of, Sides
    <3> QED
      BY <1>2, <3>2
  <2>7. Placed(v) = Placed(t)
    <3>1. ASSUME NEW w \in Nodes PROVE w \in Placed(v) <=> w \in Placed(t)
      <4>1. CASE w = m
        BY <2>1, <2>3, <2>6, <4>1 DEF Lifted, Placed
      <4>2. CASE w = top
        BY <2>1, <2>3, <2>6, <4>2 DEF Lifted, Placed
      <4>3. CASE w # m /\ w # top
        BY <2>1, <2>3, <4>3 DEF Lifted, Placed
      <4> QED
        BY <4>1, <4>2, <4>3
    <3> QED
      BY <3>1 DEF Placed
  <2>8. v.root # NULL => v.parent[v.root] = NULL
    <3>1. CASE t.root = m
      BY <2>1, <2>3, <3>1, NodeFacts DEF Lifted, Whole
    <3>2. CASE t.root # m /\ t.root # NULL
      <4>1. t.root \in Nodes /\ t.parent[t.root] = NULL
        BY <3>2, HeightFacts, NodeFacts DEF Whole, Good, Sound
      <4> QED
        BY <2>1, <2>3, <3>2, <4>1 DEF Lifted
    <3> QED
      BY <2>3, <3>1, <3>2
  <2>9. ASSUME NEW w \in Nodes \ Placed(v), NEW s \in Sides PROVE v.link[s][w] = NULL
    <3>1. w \notin Placed(t) /\ w # m /\ t.link[s][w] = NULL /\ t.parent[w] = NULL
      BY <2>6, <2>7, <2>9 DEF Whole, Placed
    <3> QED
      BY <2>1, <2>3, <3>1 DEF Lifted
  <2>10. Whole(v)
    BY <2>8, <2>9 DEF Whole
  <2> QED
    BY <2>4, <2>5, <2>7, <2>10 DEF v
<1> QED
  BY <1>1, <1>2

LEMMA PathKeeps ==
    ASSUME NEW t, Good(t), Whole(t), NEW a \in Seq(Nodes)
    PROVE  LET v == FoldLeft(balanceTree, t, a)
           IN  Whole(v) /\ Placed(v) = Placed(t) /\ Keeps(t, v)
<1>1. PICK run : IsRun("balance", t, a, run) /\ run[Len(a)] = FoldLeft(balanceTree, t, a)
  BY BalanceRuns
<1> DEFINE Kept(v) == Good(v) /\ Whole(v) /\ Placed(v) = Placed(t) /\ Keeps(t, v)
           G == {k \in Nat : k <= Len(a) => Kept(run[k])}
<1>2. 0 \in G
  BY <1>1 DEF IsRun, Keeps
<1>3. ASSUME NEW k \in Nat, k \in G PROVE k + 1 \in G
  <2> SUFFICES ASSUME k + 1 <= Len(a) PROVE Kept(run[k + 1])
    OBVIOUS
  <2> DEFINE v == run[k]
             m == a[k + 1]
  <2>1. Kept(v) /\ k + 1 \in 1 .. Len(a) /\ k + 1 - 1 = k /\ m \in Nodes
    BY <1>3
  <2>2. run[k + 1] = balanceTree(v, m)
    <3>1. run[k + 1] = Act("balance", run[k + 1 - 1], m)
      BY <1>1, <2>1 DEF IsRun
    <3> QED
      BY <2>1, <3>1 DEF Act
  <2> HIDE DEF v, m
  <2>3. /\ Good(balanceTree(v, m)) /\ Whole(balanceTree(v, m))
        /\ Placed(balanceTree(v, m)) = Placed(v) /\ Keeps(v, balanceTree(v, m))
    BY <2>1, BalanceKeeps
  <2> QED
    BY <2>1, <2>2, <2>3, KeepsIsTransitive
<1>4. Nat \subseteq G
  <2> HIDE DEF G
  <2> QED
    BY <1>2, <1>3, UpwardInduction
<1>5. Len(a) \in Nat
  OBVIOUS
<1> QED
  BY <1>1, <1>4, <1>5

-----------------------------------------------------------------------------
(* insert keeps the dictionary *)

(* The nodes of the path are in the tree, and a child is on the path only  *)
(* if it is the next one.                                                  *)
LEMMA PathFacts ==
    ASSUME NEW t, Sound(t), Whole(t), NEW k \in Int, NEW stops, NEW path,
           IsPath(t, k, stops, t.root, path)
    PROVE  /\ On(path) \subseteq Placed(t)
           /\ path = <<>> <=> t.root = NULL
           /\ path # <<>> => path[Len(path)] \in On(path)
           /\ \A m \in Nodes, s \in Sides :
                t.link[s][m] \in On(path) => m \in On(path) /\ s = Towards(t, m, k)
<1>1. /\ path \in Seq(Nodes) /\ Len(path) \in Nat /\ t.root \in N0
      /\ \A i \in 1 .. Len(path) : path[i] \in Nodes /\ path[i] # NULL
  BY NodeFacts, HeightFacts DEF IsPath, Sound
<1>2. path = <<>> <=> t.root = NULL
  BY <1>1 DEF IsPath
<1>3. path # <<>> => Len(path) \in 1 .. Len(path)
  BY <1>1
<1>4. ASSUME path # <<>>
      PROVE  /\ path[1] = t.root /\ t.parent[t.root] = NULL
             /\ \A i \in 1 .. Len(path) - 1 :
                  /\ t.parent[path[i + 1]] = path[i]
                  /\ t.link[Towards(t, path[i], k)][path[i]] = path[i + 1]
                  /\ ~(stops /\ t.key[path[i]] = k)
  BY <1>2, <1>4 DEF IsPath, Whole
<1>5. ASSUME NEW i \in 1 .. Len(path), i # 1
      PROVE  i - 1 \in 1 .. Len(path) - 1 /\ i - 1 \in 1 .. Len(path) /\ i - 1 + 1 = i /\ path # <<>>
  BY <1>1, <1>5
<1>6. ASSUME NEW i \in 1 .. Len(path) PROVE path[i] \in Placed(t)
  <2>1. CASE i = 1
    BY <1>1, <1>4, <2>1 DEF Placed
  <2>2. CASE i # 1
    <3>1. t.parent[path[i - 1 + 1]] = path[i - 1] /\ path[i - 1] # NULL
      BY <1>1, <1>4, <1>5, <2>2
    <3> QED
      BY <1>1, <1>5, <2>2, <3>1 DEF Placed
  <2> QED
    BY <2>1, <2>2
<1>7. ASSUME NEW m \in Nodes, NEW s \in Sides, t.link[s][m] \in On(path)
      PROVE  m \in On(path) /\ s = Towards(t, m, k)
  <2>1. PICK i \in 1 .. Len(path) : t.link[s][m] = path[i]
    BY <1>7 DEF On
  <2>2. path[i] # NULL /\ t.parent[path[i]] = m /\ m # NULL
    BY <1>1, <2>1, NodeFacts DEF Sound, Linked
  <2>3. i # 1
    BY <1>4, <2>2
  <2>4. /\ m = path[i - 1] /\ m \in On(path)
        /\ t.link[Towards(t, m, k)][m] = path[i]
    <3>1. /\ t.parent[path[i - 1 + 1]] = path[i - 1]
          /\ t.link[Towards(t, path[i - 1], k)][path[i - 1]] = path[i - 1 + 1]
      BY <1>4, <1>5, <2>3
    <3> QED
      BY <1>5, <2>2, <2>3, <3>1 DEF On
  <2>5. Towards(t, m, k) \in Sides
    BY DEF Towards, Sides
  <2> QED
    BY <2>1, <2>2, <2>4, <2>5, SideFacts DEF Sound, Linked
<1> QED
  BY <1>2, <1>3, <1>6, <1>7 DEF On

LEMMA EndOfPath ==
    ASSUME NEW t, NEW k, NEW stops, NEW path, IsPath(t, k, stops, t.root, path), t.root # NULL,
           NEW i \in 1 .. Len(path), stops, t.key[path[i]] = k
    PROVE  i = Len(path)
  BY DEF IsPath

(* A key that may come only once is not on the path.                       *)
Fresh(t, k, g, path) == g = 1 => \A m \in On(path) : t.key[m] # k

(* The new leaf is where the order wants it, and keys that may not come    *)
(* twice do not.                                                           *)
LEMMA AttachKeepsOrder ==
    ASSUME NEW t, Sound(t), Whole(t), NEW n \in Nodes, n \notin Placed(t), NEW k \in Int,
           NEW stops, NEW path, IsPath(t, k, stops, t.root, path),
           NEW t1, NEW p \in N0, NEW s \in Sides,
           Hooked(t, t1, n, p, s), Planted(t, t1, n, k, p, s, path),
           NEW g \in Nat, g <= 1, Fresh(t, k, g, path), InOrder(t, g)
    PROVE  InOrder(t1, g)
<1>1. /\ On(path) \subseteq Placed(t) /\ On(path) \subseteq Nodes
      /\ path # <<>> => path[Len(path)] \in On(path)
      /\ \A m \in Nodes, r \in Sides :
            t.link[r][m] \in On(path) => m \in On(path) /\ r = Towards(t, m, k)
  <2>1. Placed(t) \subseteq Nodes
    BY DEF Placed
  <2>2. /\ On(path) \subseteq Placed(t)
        /\ path = <<>> <=> t.root = NULL
        /\ path # <<>> => path[Len(path)] \in On(path)
        /\ \A m \in Nodes, r \in Sides :
             t.link[r][m] \in On(path) => m \in On(path) /\ r = Towards(t, m, k)
    BY PathFacts
  <2> QED
    BY <2>1, <2>2
<1>2. /\ t.key \in [Nodes -> Int] /\ \A m \in Nodes : t.key[m] \in Int
      /\ \A m \in Nodes, r \in Sides : t.link[r][m] \in N0
  BY HeightFacts DEF Sound, Trees
<1>3. ASSUME NEW m \in On(path) PROVE Past(Towards(t, m, k), k, t.key[m], g)
  <2>1. t.key[m] \in Int /\ (g = 1 => t.key[m] # k)
    BY <1>1, <1>2 DEF Fresh
  <2> QED
    BY <2>1 DEF Towards, Past
<1>4. PICK bound \in Bounds : Sorted(t, g, bound)
  BY DEF InOrder
<1>5. \A r \in Sides, m \in Nodes : bound[r][m] \in Int
  BY DEF Bounds
<1> DEFINE bound1 == [r \in Sides |-> [m \in Nodes |->
                        IF m = n \/ (m \in On(path) /\ Past(r, k, bound[r][m], 0)) THEN k
                        ELSE bound[r][m]]]
<1>6. bound1 \in Bounds
  BY <1>5 DEF Bounds
<1>7. /\ \A r \in Sides : bound1[r][n] = k
      /\ \A r \in Sides, m \in Nodes : bound1[r][m] \in Int
      /\ \A r \in Sides, m \in Nodes :
            m # n /\ m \notin On(path) => bound1[r][m] = bound[r][m]
      /\ \A r \in Sides, m \in On(path) :
            /\ bound1[r][m] = k \/ bound1[r][m] = bound[r][m]
            /\ Past(r, bound1[r][m], k, 0) /\ Past(r, bound1[r][m], bound[r][m], 0)
  BY <1>1, <1>5 DEF Past
<1> HIDE DEF bound1
<1>8. ASSUME NEW m \in Nodes, NEW r \in Sides
      PROVE  /\ Past(r, bound[r][m], t.key[m], 0) /\ Mirror[r] \in Sides
             /\ t.link[r][m] # NULL =>
                  /\ t.link[r][m] \in Nodes
                  /\ Past(r, bound[r][m], bound[r][t.link[r][m]], 0)
                  /\ Past(r, bound[Mirror[r]][t.link[r][m]], t.key[m], g)
  BY <1>2, <1>4, NodeFacts, SideFacts DEF Sorted, Bounded1
<1>9. /\ \A w \in Nodes, r \in Sides :
            t1.link[r][w] = IF w = p /\ r = s THEN n ELSE t.link[r][w]
      /\ \A r \in Sides : t.link[r][n] = NULL
      /\ t1.key[n] = k /\ \A w \in Nodes : w # n => t1.key[w] = t.key[w]
      /\ p = IF path = <<>> THEN NULL ELSE path[Len(path)]
      /\ s = Towards(t, p, k)
  BY <1>2 DEF Hooked, Planted
<1>10. p # n /\ (p \in Nodes => p \in On(path))
  BY <1>1, <1>9, NodeFacts
<1>11. n \notin On(path)
  BY <1>1
<1>12. ASSUME NEW m \in Nodes, NEW r \in Sides
       PROVE  /\ Past(r, bound1[r][m], bound[r][m], 0) \/ m = n
              /\ Past(r, bound1[r][m], t1.key[m], 0)
  <2>1. CASE m = n
    BY <1>7, <1>9, <2>1, PastFacts
  <2>2. CASE m # n
    <3>1. Past(r, bound1[r][m], bound[r][m], 0)
      BY <1>5, <1>7, <2>2, PastFacts
    <3>2. bound1[r][m] \in Int /\ bound[r][m] \in Int /\ t.key[m] \in Int
      BY <1>2, <1>5, <1>7
    <3>3. Past(r, bound1[r][m], t.key[m], 0)
      BY <1>8, <3>1, <3>2, PastFacts
    <3> QED
      BY <1>9, <2>2, <3>1, <3>3
  <2> QED
    BY <2>1, <2>2
<1>13. ASSUME NEW m \in Nodes, NEW r \in Sides, t1.link[r][m] # NULL
       PROVE  /\ Past(r, bound1[r][m], bound1[r][t1.link[r][m]], 0)
              /\ Past(r, bound1[Mirror[r]][t1.link[r][m]], t1.key[m], g)
  <2>1. m # n /\ t1.key[m] = t.key[m]
    BY <1>9, <1>10, <1>13, SMTT(30)
  <2>2. CASE m = p /\ r = s
    BY <1>3, <1>7, <1>8, <1>9, <1>10, <2>1, <2>2
  <2>3. CASE ~(m = p /\ r = s)
    <3> DEFINE c == t.link[r][m]
    <3>1. t1.link[r][m] = c /\ c # NULL
      BY <1>9, <1>13, <2>3
    <3>2. /\ c \in Nodes /\ Mirror[r] \in Sides
          /\ Past(r, bound[r][m], bound[r][c], 0)
          /\ Past(r, bound[Mirror[r]][c], t.key[m], g)
      BY <1>8, <3>1
    <3>3. c # n
      <4>1. t.parent[c] = m /\ m # NULL
        BY <3>1, NodeFacts DEF Sound, Linked
      <4> QED
        BY <4>1 DEF Placed
    <3>4. Past(r, bound1[r][m], bound[r][c], 0)
      <4>1. Past(r, bound1[r][m], bound[r][m], 0)
        BY <1>12, <2>1
      <4>2. bound1[r][m] \in Int /\ bound[r][m] \in Int /\ bound[r][c] \in Int
        BY <1>5, <1>7, <3>2
      <4> QED
        BY <3>2, <4>1, <4>2, PastFacts
    <3>5. CASE c \notin On(path)
      BY <1>7, <2>1, <3>1, <3>2, <3>3, <3>4, <3>5
    <3>6. CASE c \in On(path)
      <4>1. m \in On(path) /\ r = Towards(t, m, k)
        BY <1>1, <3>6
      <4>2. Past(r, k, t.key[m], g) /\ Past(r, bound1[r][m], k, 0)
        BY <1>3, <1>7, <4>1, SMTT(30)
      <4>3. /\ bound1[r][c] = k \/ bound1[r][c] = bound[r][c]
            /\ bound1[Mirror[r]][c] = k \/ bound1[Mirror[r]][c] = bound[Mirror[r]][c]
        BY <1>7, <3>2, <3>6
      <4> HIDE DEF c
      <4> QED
        BY <2>1, <3>1, <3>2, <3>4, <4>2, <4>3
    <3> QED
      BY <3>5, <3>6
  <2> QED
    BY <2>2, <2>3
<1>14. Sorted(t1, g, bound1)
  BY <1>12, <1>13 DEF Sorted, Bounded1
<1> QED
  BY <1>6, <1>14 DEF InOrder

LEMMA AttachIsWhole ==
    ASSUME NEW t, Sound(t), Whole(t), NEW n \in Nodes, n \notin Placed(t), NEW k \in Int,
           NEW stops, NEW path, IsPath(t, k, stops, t.root, path),
           NEW t1, NEW p \in N0, NEW s \in Sides,
           Hooked(t, t1, n, p, s), Planted(t, t1, n, k, p, s, path)
    PROVE  Whole(t1) /\ Placed(t1) = Placed(t) \cup {n}
<1>1. /\ \A w \in Nodes, r \in Sides :
            t1.link[r][w] = IF w = p /\ r = s THEN n ELSE t.link[r][w]
      /\ t1.parent[n] = p /\ \A w \in Nodes : w # n => t1.parent[w] = t.parent[w]
      /\ t1.root = IF p = NULL THEN n ELSE t.root
      /\ p = IF path = <<>> THEN NULL ELSE path[Len(path)]
  BY DEF Hooked, Planted
<1>2. /\ On(path) \subseteq Placed(t) /\ (path = <<>> <=> t.root = NULL)
      /\ path # <<>> => path[Len(path)] \in On(path)
      /\ t.root \in N0
  BY PathFacts, HeightFacts DEF Sound
<1>3. p = NULL <=> t.root = NULL
  BY <1>1, <1>2, NodeFacts DEF Placed
<1>4. p # NULL => p \in Placed(t)
  BY <1>1, <1>2
<1>5. Placed(t1) = Placed(t) \cup {n}
  <2>1. ASSUME NEW w \in Nodes PROVE w \in Placed(t1) <=> w \in Placed(t) \/ w = n
    BY <1>1, <1>2, <1>3, NodeFacts DEF Placed
  <2> QED
    BY <2>1 DEF Placed
<1>6. t1.root # NULL => t1.parent[t1.root] = NULL
  <2>1. CASE p = NULL
    BY <1>1, <2>1
  <2>2. CASE p # NULL
    BY <1>1, <1>2, <1>3, <2>2, NodeFacts DEF Whole, Placed
  <2> QED
    BY <2>1, <2>2
<1>7. ASSUME NEW w \in Nodes \ Placed(t1), NEW r \in Sides PROVE t1.link[r][w] = NULL
  <2>1. w \in Nodes \ Placed(t) /\ w # p
    BY <1>4, <1>5, <1>7, NodeFacts
  <2> QED
    BY <1>1, <2>1 DEF Whole
<1> QED
  BY <1>5, <1>6, <1>7 DEF Whole

(* The line n has got a node of its own, or has been added to that of w.   *)
OwnNode(t, u, n, k, g) ==
    /\ Whole(u) /\ Placed(u) = Placed(t) \cup {n} /\ InOrder(u, g)
    /\ u.key = [t.key EXCEPT ![n] = k] /\ u.infos = [t.infos EXCEPT ![n] = <<n>>]
MoreInfo(t, u, n, w) ==
    /\ u.root = t.root /\ u.link = t.link /\ u.parent = t.parent /\ u.key = t.key
    /\ u.infos = [t.infos EXCEPT ![w] = Append(@, n)]

LEMMA InsertKeeps ==
    ASSUME NEW t, NEW l \in Nat, Ready(t, l), Level(t), Whole(t), l + 1 \in Nodes, NEW k \in Int
    PROVE  /\ l + 1 \notin Placed(t)
           /\ InOrder(t, 0) => OwnNode(t, insert(t, l + 1, k), l + 1, k, 0)
           /\ InOrder(t, 1) =>
                \/ OwnNode(t, insert_ll(t, l + 1, k), l + 1, k, 1)
                \/ \E w \in Placed(t) : t.key[w] = k /\ MoreInfo(t, insert_ll(t, l + 1, k), l + 1, w)
<1>1. Good(t) /\ Sound(t)
  BY DEF Ready, Good
<1> DEFINE Result(path) == FoldLeft(balanceTree, Attached(t, l + 1, k, path),
                                    Reverse(Append(path, l + 1)))
<1>2. l + 1 \notin Placed(t)
  BY UnusedFacts DEF Placed
<1>3. ASSUME NEW stops, NEW path, IsPath(t, k, stops, t.root, path),
             path # <<>> => ~(stops /\ t.key[path[Len(path)]] = k),
             NEW g \in {0, 1}, g = 1 => stops, InOrder(t, g)
      PROVE  OwnNode(t, Result(path), l + 1, k, g)
  <2> DEFINE n == l + 1
             t1 == Attached(t, n, k, path)
             a == Reverse(Append(path, n))
  <2>1. /\ Ready(t1, n) /\ IsChain(t1, n, a)
        /\ \E p \in N0 : \E s \in Sides :
                Hooked(t, t1, n, p, s) /\ Planted(t, t1, n, k, p, s, path)
    BY <1>3, AttachFacts
  <2> HIDE DEF t1, a
  <2>2. PICK p \in N0, s \in Sides : Hooked(t, t1, n, p, s) /\ Planted(t, t1, n, k, p, s, path)
    BY <2>1
  <2>3. n \in Nodes /\ n \notin Placed(t)
    BY <1>2
  <2> HIDE DEF n
  <2>4. Fresh(t, k, g, path)
    <3> SUFFICES ASSUME g = 1, NEW m \in On(path), t.key[m] = k PROVE FALSE
      BY DEF Fresh
    <3>1. PICK i \in 1 .. Len(path) : m = path[i]
      BY DEF On
    <3>2. path # <<>> /\ t.root # NULL
      BY <1>3, <3>1 DEF IsPath
    <3>3. i = Len(path)
      BY <1>3, <3>1, <3>2, EndOfPath
    <3> QED
      BY <1>3, <3>1, <3>2, <3>3
  <2>5. InOrder(t1, g)
    <3>1. /\ IsPath(t, k, stops, t.root, path) /\ InOrder(t, g) /\ g \in Nat /\ g <= 1
          /\ Sound(t) /\ Whole(t) /\ p \in N0 /\ s \in Sides
          /\ Hooked(t, t1, n, p, s) /\ Planted(t, t1, n, k, p, s, path)
      BY <1>1, <1>3, <2>2
    <3> QED
      BY <2>3, <2>4, <3>1, AttachKeepsOrder
  <2>6. Whole(t1) /\ Placed(t1) = Placed(t) \cup {n}
    BY <1>1, <1>3, <2>2, <2>3, AttachIsWhole
  <2>7. t1.key = [t.key EXCEPT ![n] = k] /\ t1.infos = [t.infos EXCEPT ![n] = <<n>>]
    BY <2>2 DEF Planted
  <2>8. Good(t1) /\ a \in Seq(Nodes)
    BY <2>1 DEF Ready, IsChain
  <2>9. /\ Whole(FoldLeft(balanceTree, t1, a)) /\ Placed(FoldLeft(balanceTree, t1, a)) = Placed(t1)
        /\ Keeps(t1, FoldLeft(balanceTree, t1, a))
    BY <2>6, <2>8, PathKeeps
  <2>10. g \in Nat
    OBVIOUS
  <2>11. OwnNode(t, FoldLeft(balanceTree, t1, a), n, k, g)
    BY <2>5, <2>6, <2>7, <2>9, <2>10 DEF OwnNode, Keeps
  <2> QED
    BY <2>11 DEF t1, a, n
<1> HIDE DEF Result
<1>4. ASSUME InOrder(t, 0) PROVE OwnNode(t, insert(t, l + 1, k), l + 1, k, 0)
  <2> DEFINE path == Descent(t, k, FALSE)
  <2>1. IsPath(t, k, FALSE, t.root, path)
    BY <1>1, DescentPath
  <2> HIDE DEF path
  <2>2. OwnNode(t, Result(path), l + 1, k, 0)
    <3>1. /\ 0 \in {0, 1} /\ ~(0 = 1)
          /\ path # <<>> => ~(FALSE /\ t.key[path[Len(path)]] = k)
      OBVIOUS
    <3> QED
      BY <1>3, <1>4, <2>1, <3>1
  <2>3. insert(t, l + 1, k) = Result(path)
    BY DEF insert, Result, path
  <2> QED
    BY <2>2, <2>3
<1>5. ASSUME InOrder(t, 1)
      PROVE  \/ OwnNode(t, insert_ll(t, l + 1, k), l + 1, k, 1)
             \/ \E w \in Placed(t) :
                    t.key[w] = k /\ MoreInfo(t, insert_ll(t, l + 1, k), l + 1, w)
  <2> DEFINE path == Descent(t, k, TRUE)
             isKnown == path # <<>> /\ t.key[Last(path)] = k
             t1 == [t EXCEPT !.infos[Last(path)] = Append(@, l + 1)]
  <2>1. IsPath(t, k, TRUE, t.root, path)
    BY <1>1, DescentPath
  <2>2. insert_ll(t, l + 1, k) =
            IF isKnown THEN FoldLeft(balanceTree, t1, Reverse(path)) ELSE Result(path)
    BY DEF insert_ll, Result
  <2> HIDE DEF path
  <2>3. CASE ~isKnown
    <3>1. path # <<>> => ~(TRUE /\ t.key[path[Len(path)]] = k)
      BY <2>3 DEF Last
    <3>2. OwnNode(t, Result(path), l + 1, k, 1)
      BY <1>3, <1>5, <2>1, <3>1
    <3> QED
      BY <2>2, <2>3, <3>2
  <2>4. CASE isKnown
    <3>1. path \in Seq(Nodes) /\ Len(path) \in Nat
      BY <2>1 DEF IsPath
    <3>2. Last(path) \in Placed(t) /\ t.key[Last(path)] = k
      <4>1. path[Len(path)] \in On(path) /\ On(path) \subseteq Placed(t)
        BY <1>1, <2>1, <2>4, PathFacts
      <4> QED
        BY <2>4, <4>1 DEF Last
    <3>3. Reverse(path) \in Seq(Nodes)
      <4>1. \A i \in 1 .. Len(path) : Len(path) - i + 1 \in 1 .. Len(path)
        BY <3>1
      <4>2. \A i \in 1 .. Len(path) : path[Len(path) - i + 1] \in Nodes
        BY <3>1, <4>1
      <4>3. Reverse(path) \in [1 .. Len(path) -> Nodes]
        BY <4>2 DEF Reverse
      <4> QED
        BY <3>1, <4>3
    <3>4. t1.counter = t.counter /\ MoreInfo(t, t1, l + 1, Last(path))
      BY <1>1, <3>2 DEF MoreInfo, Sound, Trees
    <3> HIDE DEF t1
    <3>5. insert_ll(t, l + 1, k) = t1
      BY <2>2, <2>4, <3>3, <3>4, NothingToBalance DEF Level
    <3> QED
      BY <3>2, <3>4, <3>5
  <2> QED
    BY <2>3, <2>4
<1> QED
  BY <1>2, <1>4, <1>5

-----------------------------------------------------------------------------
(* The nodes below a node *)

(* below[m] is the set of m and of the nodes that its links lead to.       *)
Belows(t, below) ==
    /\ below[NULL] = {}
    /\ \A m \in Nodes : below[m] = {m} \cup below[t.link["left"][m]] \cup below[t.link["right"][m]]

LEMMA InTreeIsBelow ==
    ASSUME Sound(tree)
    PROVE  \E below : Belows(tree, below) /\ InTree = below[tree.root]
<1> DEFINE chosen == CHOOSE g : g = [m \in N0 |-> BelowStep(tree, g, m)]
<1>1. chosen = [m \in N0 |-> BelowStep(tree, chosen, m)]
  <2>1. PICK f : IsWayDown("below", tree, 0, FALSE, f)
    BY WayDownExists
  <2>2. f = [m \in N0 |-> BelowStep(tree, f, m)]
    BY <2>1 DEF GoesDown, IsWayDown
  <2> QED
    BY <2>2
<1>2. InTree = chosen[tree.root]
  BY DEF InTree, BelowStep, N0
<1> HIDE DEF chosen
<1>3. Belows(tree, chosen)
  BY <1>1, NodeFacts DEF BelowStep, N0, Belows
<1> QED
  BY <1>2, <1>3

LEMMA BelowFacts ==
    ASSUME NEW t, Sound(t), NEW below, Belows(t, below), NEW m \in Nodes
    PROVE  /\ m \in below[m] /\ below[m] \subseteq Nodes
           /\ \A x \in below[m] : x # m => t.parent[x] \in below[m]
           /\ \A x \in below[m], s \in Sides :
                /\ below[t.link[s][x]] \subseteq below[m]
                /\ t.link[s][x] # NULL => t.link[s][x] \in below[m]
<1>1. \A n \in Nodes : below[n] = {n} \cup below[t.link["left"][n]] \cup below[t.link["right"][n]]
  BY DEF Belows
<1>2. /\ \A n \in Nodes, s \in Sides :
            t.link[s][n] \in N0 /\ (t.link[s][n] # NULL => t.parent[t.link[s][n]] = n)
      /\ "left" \in Sides /\ "right" \in Sides /\ Sides = {"left", "right"}
  BY HeightFacts DEF Sound, Linked, Sides
<1> DEFINE Good1(n) ==
              /\ below[n] \subseteq Nodes
              /\ \A x \in below[n] : x # n => t.parent[x] \in below[n]
              /\ \A x \in below[n], s \in Sides :
                    /\ below[t.link[s][x]] \subseteq below[n]
                    /\ t.link[s][x] # NULL => t.link[s][x] \in below[n]
           G == {n \in Nodes : Good1(n)}
<1>3. ASSUME NEW n \in Nodes, \A s \in Sides : t.link[s][n] # NULL => t.link[s][n] \in G
      PROVE  n \in G
  <2>1. ASSUME NEW s \in Sides
        PROVE  /\ below[t.link[s][n]] \subseteq below[n]
               /\ t.link[s][n] # NULL => t.link[s][n] \in below[n]
               /\ \A x \in below[t.link[s][n]] :
                    /\ x \in Nodes /\ t.parent[x] \in below[n]
                    /\ \A side \in Sides :
                         /\ below[t.link[side][x]] \subseteq below[n]
                         /\ t.link[side][x] # NULL => t.link[side][x] \in below[n]
    <3> DEFINE c == t.link[s][n]
    <3>1. below[c] \subseteq below[n] /\ n \in below[n]
      BY <1>1, <1>2
    <3>2. CASE c = NULL
      BY <3>1, <3>2 DEF Belows
    <3>3. CASE c # NULL
      <4>1. c \in Nodes /\ Good1(c) /\ c \in below[c] /\ t.parent[c] = n
        BY <1>1, <1>2, <1>3, <3>3, NodeFacts
      <4> QED
        BY <3>1, <4>1, SMTT(30)
    <3> QED
      BY <3>2, <3>3
  <2>2. \A x \in below[n] : x = n \/ \E s \in Sides : x \in below[t.link[s][n]]
    BY <1>1, <1>2
  <2>3. below[n] \subseteq Nodes /\ \A x \in below[n] : x # n => t.parent[x] \in below[n]
    BY <2>1, <2>2
  <2>4. ASSUME NEW x \in below[n], NEW side \in Sides
        PROVE  /\ below[t.link[side][x]] \subseteq below[n]
               /\ t.link[side][x] # NULL => t.link[side][x] \in below[n]
    BY <2>1, <2>2
  <2> QED
    BY <2>3, <2>4
<1>4. Nodes \subseteq G
  <2> HIDE DEF G
  <2> QED
    BY <1>3, RankInduction
<1> QED
  BY <1>1, <1>4

(* No node is below itself, or on both sides of another.                   *)
LEMMA BelowOnce ==
    ASSUME NEW t, Sound(t), NEW below, Belows(t, below), NEW m \in Nodes
    PROVE  /\ \A s \in Sides : m \notin below[t.link[s][m]]
           /\ below[t.link["left"][m]] \cap below[t.link["right"][m]] = {}
<1>1. PICK rank : Ranks(t, rank)
  BY DEF Sound, Acyclic
<1>2. PICK d : FromTop(t, d)
  BY FromTopExists
<1>3. /\ \A n \in Nodes : rank[n] \in Nat /\ d[n] \in Nat
      /\ \A n \in Nodes, s \in Sides :
            t.link[s][n] # NULL => /\ t.link[s][n] \in Nodes /\ rank[t.link[s][n]] < rank[n]
                                   /\ t.parent[t.link[s][n]] = n
      /\ "left" \in Sides /\ "right" \in Sides /\ Sides = {"left", "right"}
  BY <1>1, <1>2, NodeFacts, HeightFacts DEF Sound, Linked, Ranks, FromTop, N0, Sides
<1> DEFINE Lower(n) == \A x \in below[n] : x \in Nodes /\ rank[x] <= rank[n]
           G == {n \in Nodes : Lower(n)}
<1>4. ASSUME NEW n \in Nodes, \A s \in Sides : t.link[s][n] # NULL => t.link[s][n] \in G
      PROVE  n \in G
  <2> SUFFICES ASSUME NEW x \in below[n] PROVE x \in Nodes /\ rank[x] <= rank[n]
    OBVIOUS
  <2>1. CASE x = n
    BY <1>3, <2>1
  <2>2. CASE x # n
    <3>1. PICK s \in Sides : x \in below[t.link[s][n]]
      BY <1>3, <2>2 DEF Belows
    <3>2. t.link[s][n] # NULL
      BY <3>1 DEF Belows
    <3>3. /\ t.link[s][n] \in Nodes /\ rank[t.link[s][n]] < rank[n]
          /\ x \in Nodes /\ rank[x] <= rank[t.link[s][n]]
      BY <1>3, <1>4, <3>1, <3>2
    <3>4. rank[x] \in Nat /\ rank[n] \in Nat /\ rank[t.link[s][n]] \in Nat
      BY <1>3, <3>3
    <3> QED
      BY <3>3, <3>4
  <2> QED
    BY <2>1, <2>2
<1>5. Nodes \subseteq G
  <2> HIDE DEF G
  <2> QED
    BY <1>4, RankInduction
<1>6. ASSUME NEW s \in Sides PROVE m \notin below[t.link[s][m]]
  <2> SUFFICES ASSUME m \in below[t.link[s][m]] PROVE FALSE
    OBVIOUS
  <2>1. t.link[s][m] # NULL
    BY DEF Belows
  <2>2. t.link[s][m] \in Nodes /\ rank[t.link[s][m]] < rank[m] /\ rank[m] <= rank[t.link[s][m]]
    BY <1>3, <1>5, <2>1
  <2> QED
    BY <1>3, <2>2
<1> DEFINE l == t.link["left"][m]
           r == t.link["right"][m]
           H == {k \in Nat : \A x \in Nodes : d[x] <= k => ~(x \in below[l] /\ x \in below[r])}
<1>7. ASSUME NEW k, NEW x \in Nodes, d[x] <= k, x \in below[l], x \in below[r],
             \A y \in Nodes : d[y] < d[x] => ~(y \in below[l] /\ y \in below[r])
      PROVE  FALSE
  <2>1. l # NULL /\ r # NULL
    BY <1>7 DEF Belows
  <2>2. l \in Nodes /\ r \in Nodes /\ t.parent[l] = m /\ t.parent[r] = m /\ l # r
    BY <1>3, <2>1, SideFacts DEF Sound, Linked
  <2>3. m \notin below[l] /\ m \notin below[r]
    BY <1>3, <1>6
  <2>4. /\ x # l => t.parent[x] \in below[l]
        /\ x # r => t.parent[x] \in below[r]
        /\ below[l] \subseteq Nodes
    BY <1>7, <2>2, BelowFacts
  <2> HIDE DEF l, r
  <2>5. x # l /\ x # r
    BY <2>2, <2>3, <2>4
  <2>6. t.parent[x] \in Nodes /\ d[t.parent[x]] < d[x]
    BY <1>2, <2>4, <2>5 DEF FromTop
  <2> QED
    BY <1>7, <2>4, <2>5, <2>6
<1>8. 0 \in H
  <2>1. ASSUME NEW x \in Nodes, d[x] <= 0, x \in below[l], x \in below[r] PROVE FALSE
    <3>1. \A y \in Nodes : ~(d[y] < d[x])
      BY <1>3, <2>1
    <3> HIDE DEF l, r
    <3> QED
      BY <1>7, <2>1, <3>1
  <2> QED
    BY <2>1
<1>9. ASSUME NEW k \in Nat, k \in H PROVE k + 1 \in H
  <2>1. ASSUME NEW x \in Nodes, d[x] <= k + 1, x \in below[l], x \in below[r] PROVE FALSE
    <3>1. \A y \in Nodes : d[y] < d[x] => ~(y \in below[l] /\ y \in below[r])
      <4>1. \A y \in Nodes : d[y] < d[x] => d[y] <= k
        BY <1>3, <2>1
      <4> HIDE DEF l, r
      <4> QED
        BY <1>9, <4>1
    <3> HIDE DEF l, r
    <3> QED
      BY <1>7, <2>1, <3>1
  <2> QED
    BY <2>1
<1>10. Nat \subseteq H
  <2> HIDE DEF H
  <2> QED
    BY <1>8, <1>9, UpwardInduction
<1>11. \A x \in Nodes : ~(x \in below[l] /\ x \in below[r])
  <2> HIDE DEF l, r
  <2>1. \A x \in Nodes : d[x] \in Nat /\ d[x] <= d[x]
    BY <1>3
  <2> QED
    BY <1>10, <2>1
<1>12. below[l] \subseteq Nodes
  <2>1. l = NULL \/ l \in Nodes
    BY <1>3, SMTT(30)
  <2> QED
    BY <2>1, BelowFacts DEF Belows
<1> QED
  BY <1>6, <1>11, <1>12

LEMMA BelowCount ==
    ASSUME NEW t, Sound(t), NEW below, Belows(t, below), NEW m \in Nodes
    PROVE  /\ IsFiniteSet(below[m]) /\ Cardinality(below[m]) \in Nat
           /\ Cardinality(below[m]) = 1 + Cardinality(below[t.link["left"][m]])
                                        + Cardinality(below[t.link["right"][m]])
<1> DEFINE l == t.link["left"][m]
           r == t.link["right"][m]
<1>1. IsFiniteSet(Nodes)
  BY AVLAssumption, FS_Interval DEF Nodes
<1>2. l \in N0 /\ r \in N0 /\ below[m] = {m} \cup below[l] \cup below[r]
  BY HeightFacts DEF Sound, Sides, Belows
<1>3. /\ below[l] \cap below[r] = {} /\ m \notin below[l] /\ m \notin below[r]
      /\ below[m] \subseteq Nodes
  BY BelowOnce, BelowFacts DEF Sides
<1> HIDE DEF l, r
<1>4. IsFiniteSet(below[m]) /\ IsFiniteSet(below[l]) /\ IsFiniteSet(below[r])
  BY <1>1, <1>2, <1>3, FS_Subset
<1>5. /\ Cardinality(below[l]) \in Nat /\ Cardinality(below[r]) \in Nat
      /\ Cardinality(below[m]) \in Nat
  BY <1>4, FS_CardinalityType
<1>6. /\ IsFiniteSet(below[l] \cup below[r])
      /\ Cardinality(below[l] \cup below[r])
            = Cardinality(below[l]) + Cardinality(below[r]) - Cardinality(below[l] \cap below[r])
  BY <1>4, FS_Union
<1>7. Cardinality(below[l] \cap below[r]) = 0
  BY <1>3, FS_EmptySet
<1>8. Cardinality((below[l] \cup below[r]) \cup {m}) = Cardinality(below[l] \cup below[r]) + 1
  <2>1. m \notin below[l] \cup below[r]
    BY <1>3
  <2> QED
    BY <1>6, <2>1, FS_AddElement
<1>9. below[m] = (below[l] \cup below[r]) \cup {m}
  BY <1>2
<1>10. Cardinality(below[m]) = 1 + Cardinality(below[l]) + Cardinality(below[r])
  <2>1. Cardinality(below[l] \cup below[r]) = Cardinality(below[l]) + Cardinality(below[r])
    BY <1>5, <1>6, <1>7
  <2>2. Cardinality(below[m]) = Cardinality(below[l] \cup below[r]) + 1
    BY <1>8, <1>9
  <2> QED
    BY <1>5, <2>1, <2>2
<1> QED
  BY <1>4, <1>5, <1>10 DEF l, r

(* In a tree without stray links the nodes below the root are those that   *)
(* hang under another, and the root.                                       *)
LEMMA BelowRoot ==
    ASSUME NEW t, Sound(t), Whole(t), NEW below, Belows(t, below)
    PROVE  below[t.root] = Placed(t)
<1>1. PICK d : FromTop(t, d)
  BY FromTopExists
<1>2. t.root \in N0
  BY HeightFacts DEF Sound
<1>3. ASSUME NEW x \in below[t.root] PROVE x \in Placed(t)
  <2>1. t.root \in Nodes
    BY <1>2, <1>3, NodeFacts DEF Belows
  <2>2. x \in Nodes /\ (x # t.root => t.parent[x] \in Nodes)
    BY <1>3, <2>1, BelowFacts
  <2> QED
    BY <2>2, NodeFacts DEF Placed
<1>4. \A x \in Placed(t) : x \in Nodes /\ d[x] \in Nat
  BY <1>1 DEF Placed, FromTop, N0
<1> DEFINE G == {k \in Nat : \A x \in Placed(t) : d[x] <= k => x \in below[t.root]}
<1>5. ASSUME NEW x \in Placed(t),
             \A y \in Placed(t) : d[y] < d[x] => y \in below[t.root]
      PROVE  x \in below[t.root]
  <2>1. CASE x = t.root
    BY <1>4, <2>1, BelowFacts
  <2>2. CASE x # t.root
    <3> DEFINE q == t.parent[x]
    <3>1. x \in Nodes /\ x # NULL /\ q # NULL /\ q \in Nodes
      BY <2>2, HeightFacts, NodeFacts DEF Placed, Sound
    <3>2. PICK s \in Sides : t.link[s][q] = x
      BY <3>1 DEF Sound, Linked
    <3>3. q \in Placed(t)
      BY <3>1, <3>2 DEF Whole
    <3>4. q \in below[t.root]
      BY <1>1, <1>5, <3>1, <3>3 DEF FromTop
    <3> HIDE DEF q
    <3>5. t.root \in Nodes
      BY <1>2, <3>4, NodeFacts DEF Belows
    <3> QED
      BY <3>1, <3>2, <3>4, <3>5, BelowFacts
  <2> QED
    BY <2>1, <2>2
<1>6. 0 \in G
  BY <1>4, <1>5
<1>7. ASSUME NEW k \in Nat, k \in G PROVE k + 1 \in G
  <2>1. ASSUME NEW x \in Placed(t), d[x] <= k + 1 PROVE x \in below[t.root]
    <3>1. \A y \in Placed(t) : d[y] < d[x] => d[y] <= k
      BY <1>4, <2>1
    <3> QED
      BY <1>5, <1>7, <3>1
  <2> QED
    BY <2>1
<1>8. Nat \subseteq G
  <2> HIDE DEF G
  <2> QED
    BY <1>6, <1>7, UpwardInduction
<1>9. \A x \in Placed(t) : x \in below[t.root]
  <2>1. \A x \in Placed(t) : d[x] \in Nat /\ d[x] <= d[x]
    BY <1>4
  <2> QED
    BY <1>8, <2>1
<1> QED
  BY <1>3, <1>9

(* The keys on either side of a node are further to that side.             *)
LEMMA KeysBelow ==
    ASSUME NEW t, Sound(t), NEW below, Belows(t, below), NEW g \in Nat, InOrder(t, g),
           NEW m \in Nodes, NEW s \in Sides, NEW x \in below[t.link[s][m]]
    PROVE  x \in Nodes /\ t.link[s][m] \in Nodes /\ Past(s, t.key[x], t.key[m], g)
<1>1. PICK bound \in Bounds : Sorted(t, g, bound)
  BY DEF InOrder
<1>2. /\ \A n \in Nodes : t.key[n] \in Int
      /\ \A n \in Nodes, side \in Sides : bound[side][n] \in Int /\ Mirror[side] \in Sides
      /\ \A n \in Nodes, side \in Sides :
            t.link[side][n] # NULL => t.link[side][n] \in Nodes
  BY HeightFacts, NodeFacts, SideFacts DEF Sound, Trees, Bounds
<1>3. \A n \in Nodes, side \in Sides :
            /\ Past(side, bound[side][n], t.key[n], 0)
            /\ t.link[side][n] # NULL =>
                  /\ Past(side, bound[side][n], bound[side][t.link[side][n]], 0)
                  /\ Past(side, bound[Mirror[side]][t.link[side][n]], t.key[n], g)
  BY <1>1 DEF Sorted, Bounded1
<1> DEFINE Inside(n) == \A y \in below[n], side \in Sides :
                            y \in Nodes /\ Past(side, bound[side][n], t.key[y], 0)
           G == {n \in Nodes : Inside(n)}
<1>4. ASSUME NEW n \in Nodes, \A side \in Sides : t.link[side][n] # NULL => t.link[side][n] \in G
      PROVE  n \in G
  <2> SUFFICES ASSUME NEW y \in below[n], NEW side \in Sides
               PROVE  y \in Nodes /\ Past(side, bound[side][n], t.key[y], 0)
    OBVIOUS
  <2>1. CASE y = n
    BY <1>3, <2>1
  <2>2. CASE y # n
    <3>1. PICK from \in Sides : y \in below[t.link[from][n]]
      BY <2>2 DEF Belows, Sides
    <3> DEFINE c == t.link[from][n]
    <3>2. c # NULL /\ c \in Nodes
      BY <1>2, <3>1 DEF Belows
    <3>3. y \in Nodes /\ \A to \in Sides : Past(to, bound[to][c], t.key[y], 0)
      BY <1>4, <3>1, <3>2
    <3>4. /\ Past(from, bound[from][n], bound[from][c], 0)
          /\ Past(from, bound[Mirror[from]][c], t.key[n], g)
      BY <1>3, <3>2
    <3>5. Past(side, bound[side][n], t.key[n], 0)
      BY <1>3
    <3>6. bound[from][n] \in Int /\ bound[from][c] \in Int /\ bound[Mirror[from]][c] \in Int
          /\ t.key[y] \in Int /\ t.key[n] \in Int /\ bound[side][n] \in Int
      BY <1>2, <3>2, <3>3
    <3> HIDE DEF c
    <3>7. CASE side = from
      BY <3>3, <3>4, <3>6, <3>7, PastFacts
    <3>8. CASE side # from
      <4>1. side = Mirror[from] /\ Mirror[side] = from /\ Mirror[from] \in Sides
        BY <3>8, SideFacts
      <4>2. Past(from, t.key[y], bound[side][c], 0)
        BY <3>3, <3>6, <4>1, PastFacts
      <4>3. Past(from, t.key[y], t.key[n], 0)
        BY <3>4, <3>6, <4>1, <4>2, PastFacts
      <4>4. Past(side, t.key[n], t.key[y], 0)
        BY <3>6, <4>1, <4>3, PastFacts
      <4> QED
        BY <3>3, <3>5, <3>6, <4>4, PastFacts
    <3> QED
      BY <3>7, <3>8
  <2> QED
    BY <2>1, <2>2
<1>5. Nodes \subseteq G
  <2> HIDE DEF G
  <2> QED
    BY <1>4, RankInduction
<1> DEFINE c == t.link[s][m]
<1>6. c # NULL /\ c \in Nodes /\ Mirror[s] \in Sides /\ Mirror[Mirror[s]] = s
  BY <1>2, SideFacts DEF Belows
<1>7. x \in Nodes /\ Past(Mirror[s], bound[Mirror[s]][c], t.key[x], 0)
  BY <1>5, <1>6
<1>8. Past(s, bound[Mirror[s]][c], t.key[m], g)
  BY <1>3, <1>6
<1>9. bound[Mirror[s]][c] \in Int /\ t.key[x] \in Int /\ t.key[m] \in Int
  BY <1>2, <1>6, <1>7
<1>10. Past(s, t.key[x], bound[Mirror[s]][c], 0)
  BY <1>6, <1>7, <1>9, PastFacts
<1> HIDE DEF c
<1>11. Past(s, t.key[x], t.key[m], g)
  BY <1>8, <1>9, <1>10, PastFacts
<1> QED
  BY <1>6, <1>7, <1>11 DEF c

-----------------------------------------------------------------------------
(* Sequences *)

(* What FlattenSeq has put together of the first i sequences.              *)
IsJoin(ss, h) ==
    /\ h[0] = <<>>
    /\ \A i \in 1 .. Len(ss) : h[i] = h[i - 1] \o ss[i]

LEMMA JoinStep ==
    ASSUME NEW ss, Len(ss) \in Nat, NEW h, IsJoin(ss, h), NEW n \in Nat, n + 1 <= Len(ss)
    PROVE  h[n + 1] = h[n] \o ss[n + 1]
<1> DEFINE Joined(j, i) == h[i] = h[j] \o ss[i]
<1>1. \A i \in 1 .. Len(ss) : Joined(i - 1, i)
  BY DEF IsJoin
<1>2. n + 1 \in 1 .. Len(ss) /\ n + 1 - 1 = n
  OBVIOUS
<1>3. Joined(n, n + 1)
  <2> HIDE DEF Joined
  <2> QED
    BY <1>1, <1>2
<1> QED
  BY <1>3

LEMMA FlattenJoins ==
    ASSUME NEW S, NEW ss \in Seq(Seq(S))
    PROVE  \E h : /\ IsJoin(ss, h) /\ FlattenSeq(ss) = h[Len(ss)]
                  /\ \A i \in 0 .. Len(ss) : h[i] \in Seq(S)
<1> DEFINE L == Len(ss)
<1>1. L \in Nat /\ \A i \in 1 .. L : ss[i] \in Seq(S)
  OBVIOUS
<1> HIDE DEF L
<1> DEFINE Upto(h, n) == /\ h[0] = <<>>
                         /\ \A i \in 1 .. L : i <= n => h[i] = h[i - 1] \o ss[i]
                         /\ \A i \in 0 .. L : i <= n => h[i] \in Seq(S)
           G == {n \in Nat : \E h : Upto(h, n)}
<1>2. 0 \in G
  <2> DEFINE h == [i \in 0 .. L |-> <<>>]
  <2>2. h[0] = <<>> /\ <<>> \in Seq(S)
    BY <1>1
  <2>3. \A i \in 0 .. L : h[i] = <<>>
    OBVIOUS
  <2>4. \A i \in 1 .. L : ~(i <= 0)
    BY <1>1
  <2> HIDE DEF h
  <2>1. Upto(h, 0)
    BY <2>2, <2>3, <2>4
  <2> HIDE DEF Upto
  <2> QED
    BY <2>1
<1>3. ASSUME NEW n \in Nat, n \in G PROVE n + 1 \in G
  <2>1. PICK h : Upto(h, n)
    BY <1>3
  <2>2. CASE n + 1 \in 1 .. L
    <3> DEFINE g == [i \in 0 .. L |-> IF i <= n THEN h[i] ELSE h[n] \o ss[n + 1]]
    <3>0. 0 \in 0 .. L /\ n \in 0 .. L /\ 0 <= n /\ n + 1 \in 0 .. L /\ ~(n + 1 <= n)
      BY <1>1, <2>2
    <3>1. /\ \A i \in 0 .. L : i <= n => g[i] = h[i]
          /\ g[n + 1] = h[n] \o ss[n + 1]
      BY <3>0
    <3> HIDE DEF g
    <3>2. g[0] = <<>> /\ h[n] \in Seq(S) /\ g[n] = h[n] /\ ss[n + 1] \in Seq(S)
      BY <1>1, <2>1, <2>2, <3>0, <3>1
    <3>3. ASSUME NEW i \in 1 .. L, i <= n + 1 PROVE g[i] = g[i - 1] \o ss[i]
      <4>1. CASE i = n + 1
        <5>1. i - 1 = n
          BY <4>1
        <5> QED
          BY <3>1, <3>2, <4>1, <5>1
      <4>2. CASE i # n + 1
        <5>1. i <= n /\ i - 1 <= n /\ i \in 0 .. L /\ i - 1 \in 0 .. L
          BY <1>1, <3>3, <4>2
        <5> QED
          BY <2>1, <3>1, <5>1
      <4> QED
        BY <4>1, <4>2
    <3>4. ASSUME NEW i \in 0 .. L, i <= n + 1 PROVE g[i] \in Seq(S)
      <4>1. CASE i = n + 1
        <5>1. h[n] \o ss[n + 1] \in Seq(S)
          BY <3>2
        <5> QED
          BY <3>1, <4>1, <5>1
      <4>2. CASE i # n + 1
        BY <2>1, <3>1, <3>4, <4>2
      <4> QED
        BY <4>1, <4>2
    <3>5. Upto(g, n + 1)
      BY <3>2, <3>3, <3>4
    <3> HIDE DEF Upto
    <3> QED
      BY <3>5
  <2>3. CASE n + 1 \notin 1 .. L
    <3>1. Upto(h, n + 1)
      <4>1. \A i \in 0 .. L : i <= n + 1 => i <= n
        BY <1>1, <2>3
      <4>2. \A i \in 1 .. L : i <= n + 1 => i <= n
        BY <1>1, <2>3
      <4>3. \A i \in 1 .. L : i <= n + 1 => h[i] = h[i - 1] \o ss[i]
        BY <2>1, <4>2
      <4> QED
        BY <2>1, <4>1, <4>3
    <3> HIDE DEF Upto
    <3> QED
      BY <3>1
  <2> QED
    BY <2>2, <2>3
<1>4. Nat \subseteq G
  <2> HIDE DEF G
  <2> QED
    BY <1>2, <1>3, UpwardInduction
<1>5. PICK h : Upto(h, L)
  BY <1>1, <1>4
<1>6. IsJoin(ss, h) /\ \A i \in 0 .. L : h[i] \in Seq(S)
  <2>1. \A i \in 0 .. L : i <= L
    BY <1>1
  <2>2. \A i \in 1 .. L : i <= L
    BY <1>1
  <2>3. /\ h[0] = <<>> /\ \A i \in 1 .. L : h[i] = h[i - 1] \o ss[i]
        /\ \A i \in 0 .. L : h[i] \in Seq(S)
    BY <1>5, <2>1, <2>2
  <2> QED
    BY <2>3, Zenon DEF IsJoin, L
<1>7. CASE L = 0
  <2>1. FlattenSeq(ss) = <<>>
    BY <1>7 DEF FlattenSeq, L
  <2> QED
    BY <1>6, <1>7, <2>1 DEF IsJoin, L
<1>8. CASE L # 0
  <2> DEFINE Step(f, i) == IF i = 1 THEN ss[i] ELSE f[i - 1] \o ss[i]
             chosen == CHOOSE f : f = [i \in 1 .. L |-> Step(f, i)]
             joined == [i \in 1 .. L |-> h[i]]
  <2>1. FlattenSeq(ss) = chosen[L]
    BY <1>8 DEF FlattenSeq, L
  <2>2. ASSUME NEW i \in 1 .. L PROVE joined[i] = Step(joined, i)
    <3>1. h[i] = h[i - 1] \o ss[i] /\ ss[i] \in Seq(S)
      BY <1>1, <1>6 DEF IsJoin, L
    <3>2. CASE i = 1
      <4>1. h[1 - 1] = h[0] /\ h[0] = <<>>
        BY <1>6 DEF IsJoin
      <4> QED
        BY <3>1, <3>2, <4>1
    <3>3. CASE i # 1
      <4>1. i - 1 \in 1 .. L
        BY <1>1, <3>3
      <4> QED
        BY <3>1, <3>3, <4>1
    <3> QED
      BY <3>2, <3>3
  <2>3. joined = [i \in 1 .. L |-> Step(joined, i)]
    <3> HIDE DEF Step
    <3> QED
      BY <2>2
  <2>4. chosen = [i \in 1 .. L |-> Step(chosen, i)]
    BY <2>3, Zenon
  <2> HIDE DEF chosen
  <2> DEFINE K == {n \in Nat : \A i \in 1 .. L : i <= n => chosen[i] = h[i]}
  <2>5. 0 \in K
    BY <1>1
  <2>6. ASSUME NEW n \in Nat, n \in K PROVE n + 1 \in K
    <3>1. ASSUME NEW i \in 1 .. L, i <= n + 1 PROVE chosen[i] = h[i]
      <4>1. chosen[i] = Step(chosen, i) /\ joined[i] = Step(joined, i) /\ joined[i] = h[i]
        BY <2>2, <2>4
      <4>2. CASE i = 1
        BY <4>1, <4>2
      <4>3. CASE i # 1
        <5>1. i - 1 \in 1 .. L /\ i - 1 <= n
          BY <1>1, <3>1, <4>3
        <5>2. chosen[i - 1] = joined[i - 1]
          BY <2>6, <5>1
        <5> QED
          BY <4>1, <4>3, <5>2
      <4> QED
        BY <4>2, <4>3
    <3> QED
      BY <3>1
  <2>7. Nat \subseteq K
    <3> HIDE DEF K
    <3> QED
      BY <2>5, <2>6, UpwardInduction
  <2>8. chosen[L] = h[L]
    <3>1. L \in 1 .. L /\ L <= L
      BY <1>1, <1>8
    <3> QED
      BY <1>1, <2>7, <3>1
  <2> QED
    BY <1>6, <2>1, <2>8 DEF L
<1> QED
  BY <1>7, <1>8

(* No node comes twice.                                                    *)
Simple(a) == \A i, j \in 1 .. Len(a) : a[i] = a[j] => i = j

LEMMA JoinFacts ==
    ASSUME NEW S, NEW a \in Seq(S), NEW b \in Seq(S)
    PROVE  /\ a \o b \in Seq(S) /\ Len(a \o b) = Len(a) + Len(b)
           /\ On(a \o b) = On(a) \cup On(b)
           /\ Simple(a) /\ Simple(b) /\ On(a) \cap On(b) = {} => Simple(a \o b)
<1> DEFINE c == a \o b
<1>1. /\ Len(a) \in Nat /\ Len(b) \in Nat /\ c \in Seq(S) /\ Len(c) = Len(a) + Len(b)
      /\ \A i \in 1 .. Len(a) : c[i] = a[i]
      /\ \A i \in 1 .. Len(b) : c[Len(a) + i] = b[i]
  OBVIOUS
<1> HIDE DEF c
<1>2. /\ \A i \in 1 .. Len(c) :
            i \in 1 .. Len(a) \/ (i - Len(a) \in 1 .. Len(b) /\ Len(a) + (i - Len(a)) = i)
      /\ \A i \in 1 .. Len(a) : i \in 1 .. Len(c)
      /\ \A i \in 1 .. Len(b) : Len(a) + i \in 1 .. Len(c)
  BY <1>1
<1>3. ASSUME NEW i \in 1 .. Len(c)
      PROVE  \/ i \in 1 .. Len(a) /\ c[i] = a[i]
             \/ i - Len(a) \in 1 .. Len(b) /\ c[i] = b[i - Len(a)]
  BY <1>1, <1>2
<1>4. On(c) \subseteq On(a) \cup On(b)
  BY <1>3 DEF On
<1>5. On(a) \subseteq On(c) /\ On(b) \subseteq On(c)
  <2>1. \A i \in 1 .. Len(a) : i \in 1 .. Len(c) /\ c[i] = a[i]
    BY <1>1, <1>2
  <2>2. \A i \in 1 .. Len(b) : Len(a) + i \in 1 .. Len(c) /\ c[Len(a) + i] = b[i]
    BY <1>1, <1>2
  <2>3. On(b) \subseteq On(c)
    <3> SUFFICES ASSUME NEW i \in 1 .. Len(b) PROVE b[i] \in On(c)
      BY DEF On
    <3> QED
      BY <2>2 DEF On
  <2> QED
    BY <2>1, <2>3 DEF On
<1>6. ASSUME Simple(a), Simple(b), On(a) \cap On(b) = {},
             NEW i \in 1 .. Len(c), NEW j \in 1 .. Len(c), c[i] = c[j]
      PROVE  i = j
  <2>1. CASE i \in 1 .. Len(a) /\ c[i] = a[i]
    <3>1. ~(j - Len(a) \in 1 .. Len(b) /\ c[j] = b[j - Len(a)])
      BY <1>6, <2>1 DEF On
    <3>2. j \in 1 .. Len(a) /\ c[j] = a[j]
      BY <1>3, <3>1
    <3> QED
      BY <1>6, <2>1, <3>2 DEF Simple
  <2>2. CASE i - Len(a) \in 1 .. Len(b) /\ c[i] = b[i - Len(a)]
    <3>1. ~(j \in 1 .. Len(a) /\ c[j] = a[j])
      BY <1>6, <2>2 DEF On
    <3>2. j - Len(a) \in 1 .. Len(b) /\ c[j] = b[j - Len(a)]
      BY <1>3, <3>1
    <3>3. i - Len(a) = j - Len(a)
      BY <1>6, <2>2, <3>2 DEF Simple
    <3> QED
      BY <1>1, <3>3
  <2> QED
    BY <1>3, <2>1, <2>2
<1> QED
  BY <1>1, <1>4, <1>5, <1>6 DEF Simple, c

-----------------------------------------------------------------------------
(* searchTree *)

EndsWith(t, below, k, b) ==
    /\ b \in Seq(Nodes) /\ On(b) \subseteq below[t.root]
    /\ \A i \in 1 .. Len(b) : t.key[b[i]] = k => i = Len(b)
    /\ \A x \in below[t.root] : t.key[x] = k => Len(b) > 0 /\ x = b[Len(b)]

(* The search of bst_ll.c ends at the node with the key, if there is one;  *)
(* none of the nodes that it passes has the key.                           *)
LEMMA DescentFinds ==
    ASSUME NEW t, Sound(t), NEW below, Belows(t, below), InOrder(t, 1), NEW k \in Int,
           NEW b, IsPath(t, k, TRUE, t.root, b)
    PROVE  EndsWith(t, below, k, b)
<1> SUFFICES /\ b \in Seq(Nodes) /\ On(b) \subseteq below[t.root]
             /\ \A i \in 1 .. Len(b) : t.key[b[i]] = k => i = Len(b)
             /\ \A x \in below[t.root] : t.key[x] = k => Len(b) > 0 /\ x = b[Len(b)]
  BY DEF EndsWith
<1>1. /\ t.root \in N0 /\ b \in Seq(Nodes) /\ Len(b) \in Nat
      /\ \A i \in 1 .. Len(b) : b[i] \in Nodes
      /\ \A n \in Nodes : t.key[n] \in Int
  BY HeightFacts DEF Sound, Trees, IsPath
<1>2. CASE t.root = NULL
  BY <1>2 DEF Belows, IsPath, On
<1>3. CASE t.root # NULL
  <2>1. t.root \in Nodes
    BY <1>1, <1>3, NodeFacts
  <2>2. /\ Len(b) > 0 /\ b[1] = t.root
        /\ \A i \in 1 .. Len(b) - 1 : t.link[Towards(t, b[i], k)][b[i]] = b[i + 1] /\ t.key[b[i]] # k
        /\ \/ t.link[Towards(t, b[Len(b)], k)][b[Len(b)]] = NULL
           \/ t.key[b[Len(b)]] = k
    BY <1>3 DEF IsPath
  <2>3. ASSUME NEW i \in 1 .. Len(b), NEW x \in below[b[i]], t.key[x] = k, i # Len(b) \/ x # b[i]
        PROVE  i + 1 \in 1 .. Len(b) /\ x \in below[b[i + 1]]
    <3>1. x # b[i]
      <4>1. i # Len(b) => i \in 1 .. Len(b) - 1
        BY <1>1
      <4> QED
        BY <2>2, <2>3, <4>1
    <3>2. PICK s \in Sides : x \in below[t.link[s][b[i]]]
      BY <1>1, <3>1 DEF Belows, Sides
    <3>3. Past(s, k, t.key[b[i]], 1) /\ t.link[s][b[i]] # NULL
      <4>1. 1 \in Nat
        OBVIOUS
      <4> QED
        BY <1>1, <2>3, <3>2, <4>1, KeysBelow DEF Belows
    <3>4. t.key[b[i]] \in Int
      BY <1>1
    <3>5. s = Towards(t, b[i], k) /\ t.key[b[i]] # k
      BY <3>3, <3>4 DEF Past, Towards, Sides
    <3>6. i # Len(b)
      BY <2>2, <3>3, <3>5
    <3>7. i \in 1 .. Len(b) - 1
      BY <1>1, <3>6
    <3> QED
      BY <1>1, <2>2, <3>2, <3>5, <3>7
  <2> DEFINE G == {j \in Nat : j + 1 <= Len(b) =>
                        /\ b[j + 1] \in below[t.root]
                        /\ \A x \in below[t.root] : t.key[x] = k => x \in below[b[j + 1]]}
  <2>4. 0 \in G
    BY <2>1, <2>2, BelowFacts
  <2>5. ASSUME NEW j \in Nat, j \in G PROVE j + 1 \in G
    <3> SUFFICES ASSUME j + 1 + 1 <= Len(b)
                 PROVE  /\ b[j + 1 + 1] \in below[t.root]
                        /\ \A x \in below[t.root] : t.key[x] = k => x \in below[b[j + 1 + 1]]
      OBVIOUS
    <3>1. j + 1 \in 1 .. Len(b) - 1 /\ j + 1 \in 1 .. Len(b) /\ j + 1 + 1 \in 1 .. Len(b)
          /\ j + 1 # Len(b)
      BY <1>1
    <3>2. /\ b[j + 1] \in below[t.root]
          /\ \A x \in below[t.root] : t.key[x] = k => x \in below[b[j + 1]]
      BY <1>1, <2>5, <3>1
    <3>3. Towards(t, b[j + 1], k) \in Sides
      BY DEF Towards, Sides
    <3>4. t.link[Towards(t, b[j + 1], k)][b[j + 1]] = b[j + 1 + 1] /\ b[j + 1 + 1] # NULL
      BY <1>1, <2>2, <3>1, NodeFacts
    <3>5. b[j + 1 + 1] \in below[t.root]
      BY <2>1, <3>2, <3>3, <3>4, BelowFacts
    <3> QED
      BY <2>3, <3>1, <3>2, <3>5
  <2>6. Nat \subseteq G
    <3> HIDE DEF G
    <3> QED
      BY <2>4, <2>5, UpwardInduction
  <2>7. ASSUME NEW i \in 1 .. Len(b)
        PROVE  /\ b[i] \in below[t.root]
               /\ \A x \in below[t.root] : t.key[x] = k => x \in below[b[i]]
    <3>1. i - 1 \in Nat /\ i - 1 + 1 = i /\ i <= Len(b)
      BY <1>1
    <3>2. i - 1 \in G
      BY <2>6, <3>1
    <3> QED
      BY <3>1, <3>2
  <2>8. Len(b) \in 1 .. Len(b) /\ ~(Len(b) + 1 \in 1 .. Len(b))
    BY <1>1, <2>2
  <2>9. \A x \in below[t.root] : t.key[x] = k => x = b[Len(b)]
    BY <2>3, <2>7, <2>8
  <2>10. \A i \in 1 .. Len(b) : t.key[b[i]] = k => i = Len(b)
    <3>1. \A i \in 1 .. Len(b) : i # Len(b) => i \in 1 .. Len(b) - 1
      BY <1>1
    <3> QED
      BY <2>2, <3>1
  <2> QED
    BY <1>1, <2>2, <2>7, <2>9, <2>10 DEF On
<1> QED
  BY <1>2, <1>3

(* The search of bst.c finds the nodes with the key, all of them, and no   *)
(* node twice.                                                             *)
Visits(t, k, f) == \A m \in N0 : f[m] = VisitStep(t, k, f, m)

LEMMA SearchVisits ==
    ASSUME NEW t, Sound(t), NEW k
    PROVE  \E f : Visits(t, k, f) /\ searchTree(t, k) = f[t.root]
<1> DEFINE chosen == CHOOSE g : g = [m \in N0 |-> VisitStep(t, k, g, m)]
<1>1. chosen = [m \in N0 |-> VisitStep(t, k, chosen, m)]
  <2>1. PICK f : IsWayDown("visit", t, k, FALSE, f)
    BY WayDownExists
  <2>2. f = [m \in N0 |-> VisitStep(t, k, f, m)]
    BY <2>1 DEF GoesDown, IsWayDown
  <2> QED
    BY <2>2
<1>2. searchTree(t, k) = chosen[t.root]
  BY DEF searchTree, VisitStep, N0
<1> HIDE DEF chosen
<1>3. Visits(t, k, chosen)
  BY <1>1 DEF Visits
<1> QED
  BY <1>2, <1>3

LEMMA VisitFinds ==
    ASSUME NEW t, Sound(t), NEW below, Belows(t, below), InOrder(t, 0), NEW k \in Int,
           NEW f, Visits(t, k, f), NEW m \in N0
    PROVE  /\ f[m] \in Seq(Nodes) /\ Simple(f[m]) /\ On(f[m]) \subseteq below[m]
           /\ \A x \in below[m] : t.key[x] = k => x \in On(f[m])
<1> DEFINE Finds(n) == /\ f[n] \in Seq(Nodes) /\ Simple(f[n]) /\ On(f[n]) \subseteq below[n]
                       /\ \A x \in below[n] : t.key[x] = k => x \in On(f[n])
           G == {n \in Nodes : Finds(n)}
<1>1. <<>> \in Seq(Nodes) /\ Simple(<<>>) /\ On(<<>>) = {}
  BY DEF Simple, On
<1>2. Finds(NULL)
  <2>1. f[NULL] = <<>> /\ below[NULL] = {}
    BY NodeFacts DEF Visits, VisitStep, Belows
  <2> QED
    BY <1>1, <2>1
<1>3. \A n \in Nodes : t.key[n] \in Int
  BY DEF Sound, Trees
<1>4. ASSUME NEW n \in Nodes, \A s \in Sides : t.link[s][n] # NULL => t.link[s][n] \in G
      PROVE  n \in G
  <2> DEFINE l == t.link["left"][n]
             r == t.link["right"][n]
             a == IF t.key[n] >= k THEN f[l] ELSE <<>>
             b == IF t.key[n] <= k THEN f[r] ELSE <<>>
  <2>1. n \in N0 /\ n # NULL /\ "left" \in Sides /\ "right" \in Sides
    BY NodeFacts DEF N0, Sides
  <2>2. /\ f[n] = <<n>> \o a \o b /\ below[n] = {n} \cup below[l] \cup below[r]
    BY <2>1 DEF Visits, VisitStep, Belows
  <2>3. Finds(l) /\ Finds(r)
    BY <1>2, <1>4, <2>1
  <2>4. ASSUME NEW x \in below[l], t.key[x] = k PROVE t.key[n] >= k
    <3>1. 0 \in Nat
      OBVIOUS
    <3>2. Past("left", t.key[x], t.key[n], 0)
      BY <2>1, <2>4, <3>1, KeysBelow
    <3> QED
      BY <1>3, <2>4, <3>2 DEF Past
  <2>5. ASSUME NEW x \in below[r], t.key[x] = k PROVE t.key[n] <= k
    <3>1. 0 \in Nat
      OBVIOUS
    <3>2. Past("right", t.key[x], t.key[n], 0)
      BY <2>1, <2>5, <3>1, KeysBelow
    <3> QED
      BY <1>3, <2>5, <3>2 DEF Past
  <2>6. /\ below[l] \cap below[r] = {} /\ n \notin below[l] /\ n \notin below[r]
    BY <2>1, BelowOnce, SMTT(30)
  <2>7. /\ a \in Seq(Nodes) /\ Simple(a) /\ On(a) \subseteq below[l]
        /\ \A x \in below[l] : t.key[x] = k => x \in On(a)
    BY <1>1, <2>3, <2>4, SMTT(30)
  <2>8. /\ b \in Seq(Nodes) /\ Simple(b) /\ On(b) \subseteq below[r]
        /\ \A x \in below[r] : t.key[x] = k => x \in On(b)
    BY <1>1, <2>3, <2>5
  <2> HIDE DEF a, b, l, r
  <2> DEFINE one == <<n>>
             c   == one \o a
  <2>9. one \in Seq(Nodes) /\ Simple(one) /\ On(one) = {n}
    <3>1. one \in Seq(Nodes) /\ Len(one) = 1 /\ one[1] = n
      OBVIOUS
    <3> HIDE DEF one
    <3> QED
      BY <3>1 DEF Simple, On
  <2> HIDE DEF one
  <2>10. c \in Seq(Nodes) /\ On(c) = {n} \cup On(a) /\ Simple(c)
    <3>1. On(one) \cap On(a) = {}
      BY <2>6, <2>7, <2>9
    <3> QED
      BY <2>7, <2>9, <3>1, JoinFacts
  <2> HIDE DEF c
  <2>11. c \o b \in Seq(Nodes) /\ On(c \o b) = On(c) \cup On(b) /\ Simple(c \o b)
    <3>1. On(c) \cap On(b) = {}
      BY <2>6, <2>7, <2>8, <2>10
    <3> QED
      BY <2>8, <2>10, <3>1, JoinFacts
  <2>12. f[n] = c \o b
    BY <2>2 DEF c, one
  <2>13. Finds(n)
    <3>1. On(f[n]) = {n} \cup On(a) \cup On(b)
      BY <2>10, <2>11, <2>12
    <3> QED
      BY <2>2, <2>7, <2>8, <2>11, <2>12, <3>1
  <2> QED
    BY <2>13
<1>5. Nodes \subseteq G
  <2> HIDE DEF G
  <2> QED
    BY <1>4, RankInduction
<1> QED
  BY <1>2, <1>5, NodeFacts

LEMMA SimpleIsCounted ==
    ASSUME NEW S, NEW a \in Seq(S), Simple(a), NEW P
    PROVE  /\ Cardinality({i \in 1 .. Len(a) : a[i] \in P}) = Cardinality(On(a) \cap P)
           /\ IsFiniteSet({i \in 1 .. Len(a) : a[i] \in P})
           /\ Cardinality(On(a)) = Len(a)
<1>1. Len(a) \in Nat
  OBVIOUS
<1>2. /\ IsFiniteSet(1 .. Len(a)) /\ Cardinality(1 .. Len(a)) = Len(a)
  <2>1. 1 \in Int /\ Len(a) \in Int
    BY <1>1
  <2>2. IsFiniteSet(1 .. Len(a)) /\ Cardinality(1 .. Len(a)) = IF 1 > Len(a) THEN 0 ELSE Len(a) - 1 + 1
    BY <2>1, FS_Interval
  <2> QED
    BY <1>1, <2>2
<1>3. Cardinality({a[i] : i \in 1 .. Len(a)}) = Len(a)
  BY <1>2, ImageIsCounted DEF Simple
<1> DEFINE I == {i \in 1 .. Len(a) : a[i] \in P}
<1>4. IsFiniteSet(I)
  <2>1. I \subseteq 1 .. Len(a)
    OBVIOUS
  <2> HIDE DEF I
  <2> QED
    BY <1>2, <2>1, FS_Subset
<1>5. \A i, j \in I : a[i] = a[j] => i = j
  BY DEF Simple
<1>6. On(a) \cap P = {a[i] : i \in I}
  BY DEF On
<1> HIDE DEF I
<1>7. Cardinality({a[i] : i \in I}) = Cardinality(I)
  BY <1>4, <1>5, ImageIsCounted
<1> QED
  BY <1>3, <1>4, <1>6, <1>7, Zenon DEF I, On

(* An answer of which only the last part may not be empty is that part.    *)
LEMMA LastAnswer ==
    ASSUME NEW S, NEW ss \in Seq(Seq(S)), \A i \in 1 .. Len(ss) : i # Len(ss) => ss[i] = <<>>
    PROVE  FlattenSeq(ss) = IF Len(ss) = 0 THEN <<>> ELSE ss[Len(ss)]
<1> DEFINE L == Len(ss)
<1>1. L \in Nat /\ \A i \in 1 .. L : ss[i] \in Seq(S)
  OBVIOUS
<1>2. PICK h : IsJoin(ss, h) /\ FlattenSeq(ss) = h[L]
  BY FlattenJoins
<1>3. h[0] = <<>> /\ \A i \in 1 .. L : h[i] = h[i - 1] \o ss[i]
  BY <1>2 DEF IsJoin
<1>4. \A i \in 1 .. L : i # L => ss[i] = <<>>
  OBVIOUS
<1> HIDE DEF L
<1> DEFINE G == {n \in Nat : n < L => h[n] = <<>>}
<1>5. 0 \in G
  BY <1>3
<1>6. ASSUME NEW n \in Nat, n \in G PROVE n + 1 \in G
  <2> SUFFICES ASSUME n + 1 < L PROVE h[n + 1] = <<>>
    OBVIOUS
  <2>1. n + 1 \in 1 .. L /\ n + 1 # L /\ n + 1 - 1 = n /\ n < L
    BY <1>1
  <2>2. h[n] = <<>> /\ ss[n + 1] = <<>>
    BY <1>4, <1>6, <2>1
  <2>3. h[n + 1] = h[n] \o ss[n + 1]
    <3>1. Len(ss) \in Nat /\ n + 1 <= Len(ss) /\ IsJoin(ss, h)
      BY <1>1, <1>2, <2>1 DEF L
    <3> QED
      BY <3>1, JoinStep
  <2>4. h[n + 1] = <<>> \o <<>>
    BY <2>2, <2>3
  <2> QED
    BY <2>4
<1>7. Nat \subseteq G
  <2> HIDE DEF G
  <2> QED
    BY <1>5, <1>6, UpwardInduction
<1>8. CASE L = 0
  BY <1>2, <1>3, <1>8 DEF L
<1>9. CASE L # 0
  <2>1. L - 1 \in Nat /\ L \in 1 .. L /\ L - 1 < L
    BY <1>1, <1>9
  <2>2. h[L - 1] = <<>> /\ ss[L] \in Seq(S)
    BY <1>1, <1>7, <2>1
  <2>3. h[L] = h[L - 1] \o ss[L]
    BY <1>3, <2>1
  <2>4. h[L] = ss[L]
    BY <2>2, <2>3
  <2> QED
    BY <1>2, <1>9, <2>4 DEF L
<1> QED
  BY <1>8, <1>9

(* An answer put together of one line from each node that has the key.     *)
LEMMA EachAnswer ==
    ASSUME NEW a \in Seq(Nodes), Simple(a), NEW P, NEW ss \in Seq(Seq(Nodes)), Len(ss) = Len(a),
           \A i \in 1 .. Len(a) : ss[i] = IF a[i] \in P THEN <<a[i]>> ELSE <<>>
    PROVE  /\ FlattenSeq(ss) \in Seq(Nodes) /\ Simple(FlattenSeq(ss))
           /\ On(FlattenSeq(ss)) = On(a) \cap P
<1> DEFINE L == Len(a)
<1>1. L \in Nat /\ \A i \in 1 .. L : ss[i] \in Seq(Nodes) /\ a[i] \in Nodes
  OBVIOUS
<1>2. PICK h : IsJoin(ss, h) /\ FlattenSeq(ss) = h[L]
  BY FlattenJoins
<1>3. h[0] = <<>> /\ \A i \in 1 .. L : h[i] = h[i - 1] \o ss[i]
  BY <1>2 DEF IsJoin
<1>4. /\ \A i \in 1 .. L : ss[i] = IF a[i] \in P THEN <<a[i]>> ELSE <<>>
      /\ \A i, j \in 1 .. L : a[i] = a[j] => i = j
      /\ On(a) = {a[i] : i \in 1 .. L}
  BY DEF Simple, On
<1> HIDE DEF L
<1> DEFINE Found(n) == {a[i] : i \in {j \in 1 .. L : j <= n}} \cap P
           Right(n) == h[n] \in Seq(Nodes) /\ Simple(h[n]) /\ On(h[n]) = Found(n)
           G == {n \in Nat : n <= L => Right(n)}
<1>5. 0 \in G
  <2>1. <<>> \in Seq(Nodes) /\ Simple(<<>>) /\ On(<<>>) = {}
    BY DEF Simple, On
  <2>2. Found(0) = {}
    BY <1>1
  <2> QED
    BY <1>3, <2>1, <2>2
<1>6. ASSUME NEW n \in Nat, n \in G PROVE n + 1 \in G
  <2> SUFFICES ASSUME n + 1 <= L PROVE Right(n + 1)
    OBVIOUS
  <2>1. n + 1 \in 1 .. L /\ n + 1 - 1 = n /\ n <= L
    BY <1>1
  <2>2. Right(n) /\ h[n + 1] = h[n] \o ss[n + 1] /\ a[n + 1] \in Nodes
    <3>1. Right(n) /\ a[n + 1] \in Nodes
      BY <1>1, <1>6, <2>1
    <3>2. h[n + 1] = h[n] \o ss[n + 1]
      BY <1>1, <1>2, <2>1, JoinStep DEF L
    <3> HIDE DEF Right
    <3> QED
      BY <2>1, <3>1, <3>2
  <2>3. \A j \in 1 .. L : j <= n + 1 <=> j <= n \/ j = n + 1
    BY <1>1
  <2>4. CASE a[n + 1] \in P
    <3> DEFINE one == <<a[n + 1]>>
    <3>1. ss[n + 1] = one
      BY <1>4, <2>1, <2>4
    <3>2. one \in Seq(Nodes) /\ Len(one) = 1 /\ one[1] = a[n + 1]
      BY <2>2
    <3> HIDE DEF one
    <3>3. Simple(one) /\ On(one) = {a[n + 1]}
      BY <3>2 DEF Simple, On
    <3>4. a[n + 1] \notin Found(n)
      <4>1. \A i \in 1 .. L : i <= n => i # n + 1
        BY <1>1
      <4> QED
        BY <1>4, <2>1, <4>1
    <3>5. Found(n + 1) = Found(n) \cup {a[n + 1]}
      BY <2>1, <2>3, <2>4
    <3> HIDE DEF Found
    <3>6. On(h[n]) \cap On(one) = {}
      BY <2>2, <3>3, <3>4
    <3>7. /\ h[n] \o one \in Seq(Nodes) /\ Simple(h[n] \o one)
          /\ On(h[n] \o one) = On(h[n]) \cup On(one)
      BY <2>2, <3>2, <3>3, <3>6, JoinFacts
    <3> QED
      BY <2>2, <3>1, <3>3, <3>5, <3>7
  <2>5. CASE a[n + 1] \notin P
    <3>1. ss[n + 1] = <<>>
      BY <1>4, <2>1, <2>5
    <3>2. h[n + 1] = h[n] \o <<>> /\ h[n] \in Seq(Nodes)
      BY <2>2, <3>1
    <3>3. h[n + 1] = h[n]
      BY <3>2
    <3>4. Found(n + 1) = Found(n)
      BY <2>1, <2>3, <2>5
    <3> HIDE DEF Found
    <3> QED
      BY <2>2, <3>3, <3>4
  <2> QED
    BY <2>4, <2>5
<1>7. Nat \subseteq G
  <2> HIDE DEF G
  <2> QED
    BY <1>5, <1>6, UpwardInduction
<1>8. Right(L)
  <2>1. L <= L
    BY <1>1
  <2> HIDE DEF Right
  <2> QED
    BY <1>1, <1>7, <2>1
<1>9. Found(L) = On(a) \cap P
  <2>1. \A i \in 1 .. L : i <= L
    BY <1>1
  <2> QED
    BY <1>4, <2>1
<1> QED
  BY <1>2, <1>8, <1>9

-----------------------------------------------------------------------------
(* The length of a search *)

Levels(t, m) == Of(t.height, m) + 1

LEMMA LevelFacts ==
    ASSUME NEW t, Good(t)
    PROVE  /\ Levels(t, NULL) = 0 /\ \A m \in N0 : Levels(t, m) \in Nat
           /\ \A m \in Nodes :
                LET l == Levels(t, t.link["left"][m])  r == Levels(t, t.link["right"][m])
                IN  /\ l < Levels(t, m) /\ r < Levels(t, m)
                    /\ Levels(t, m) = l + 1 \/ Levels(t, m) = r + 1
                    /\ Level(t) => Levels(t, m) <= l + 2 /\ Levels(t, m) <= r + 2
<1>1. Levels(t, NULL) = 0
  BY DEF Levels, Of
<1>2. Sound(t) /\ t.height \in [Nodes -> Int] /\ "left" \in Sides /\ "right" \in Sides
  BY DEF Good, Sound, Trees, Sides
<1>3. ASSUME NEW m \in Nodes
      PROVE  LET l == Levels(t, t.link["left"][m])  r == Levels(t, t.link["right"][m])
             IN  /\ l < Levels(t, m) /\ r < Levels(t, m)
                 /\ Levels(t, m) = l + 1 \/ Levels(t, m) = r + 1
                 /\ Level(t) => Levels(t, m) <= l + 2 /\ Levels(t, m) <= r + 2
                 /\ Levels(t, m) \in Nat
  <2> DEFINE a == Of(t.height, t.link["left"][m])
             b == Of(t.height, t.link["right"][m])
  <2>1. m # NULL
    BY NodeFacts
  <2>2. /\ a \in Int /\ b \in Int /\ a >= -1 /\ t.height[m] = 1 + Highest(a, b)
        /\ t.counter[m] = a - b
    BY <1>2, TwoSides, TrueLean, SideFacts, HeightsAreNatural DEF Lean
  <2>3. Of(t.height, m) = 1 + Highest(a, b)
    BY <2>1, <2>2 DEF Of
  <2>4. Level(t) => a - b \in -1 .. 1
    BY <2>2 DEF Level
  <2> HIDE DEF a, b
  <2>5. LET l == a + 1  r == b + 1  h == Of(t.height, m) + 1
        IN  /\ l < h /\ r < h /\ (h = l + 1 \/ h = r + 1) /\ h \in Nat
            /\ Level(t) => h <= l + 2 /\ h <= r + 2
    BY <2>2, <2>3, <2>4 DEF Highest
  <2> QED
    BY <2>5 DEF Levels, a, b
<1>4. \A m \in N0 : Levels(t, m) \in Nat
  BY <1>1, <1>3, NodeFacts
<1> QED
  BY <1>1, <1>3, <1>4

Having(below, m, P) == Cardinality(below[m] \cap P)

LEMMA EqualBelow ==
    ASSUME NEW t, Sound(t), NEW below, Belows(t, below), NEW m \in Nodes, NEW P
    PROVE  LET l == Having(below, t.link["left"][m], P)
               r == Having(below, t.link["right"][m], P)
           IN  /\ l \in Nat /\ r \in Nat
               /\ Having(below, m, P) = l + r + IF m \in P THEN 1 ELSE 0
<1> DEFINE A == below[t.link["left"][m]] \cap P
           B == below[t.link["right"][m]] \cap P
<1>1. /\ A \cap B = {} /\ m \notin A /\ m \notin B
      /\ below[m] \cap P = (A \cup B) \cup IF m \in P THEN {m} ELSE {}
  BY BelowOnce DEF Sides, Belows
<1>2. IsFiniteSet(A) /\ IsFiniteSet(B)
  <2>1. IsFiniteSet(below[m]) /\ A \subseteq below[m] /\ B \subseteq below[m]
    BY BelowCount DEF Belows
  <2> HIDE DEF A, B
  <2> QED
    BY <2>1, FS_Subset
<1> HIDE DEF A, B
<1>3. Cardinality(A) \in Nat /\ Cardinality(B) \in Nat
  BY <1>2, FS_CardinalityType
<1>4. /\ IsFiniteSet(A \cup B)
      /\ Cardinality(A \cup B) = Cardinality(A) + Cardinality(B) - Cardinality(A \cap B)
  BY <1>2, FS_Union
<1>5. Cardinality(A \cap B) = 0
  BY <1>1, FS_EmptySet
<1> DEFINE both == Cardinality(A \cup B)
           none == Cardinality(A \cap B)
           ca == Cardinality(A)
           cb == Cardinality(B)
<1>8. both = ca + cb
  <2>1. ca \in Nat /\ cb \in Nat /\ both = ca + cb - none /\ none = 0
    BY <1>3, <1>4, <1>5
  <2> HIDE DEF both, none, ca, cb
  <2> QED
    BY <2>1
<1>6. ASSUME m \in P
      PROVE  Cardinality(below[m] \cap P) = ca + cb + 1
  <2>1. Cardinality((A \cup B) \cup {m}) = Cardinality(A \cup B) + 1
    <3>1. m \notin A \cup B
      BY <1>1
    <3> QED
      BY <1>4, <3>1, FS_AddElement
  <2>2. below[m] \cap P = (A \cup B) \cup {m}
    BY <1>1, <1>6
  <2> QED
    BY <1>3, <1>8, <2>1, <2>2
<1>7. ASSUME m \notin P
      PROVE  Cardinality(below[m] \cap P) = ca + cb + 0
  <2>1. below[m] \cap P = A \cup B
    BY <1>1, <1>7
  <2> QED
    <3>1. Cardinality(below[m] \cap P) = both
      BY <2>1, Zenon
    <3>2. ca \in Nat /\ cb \in Nat
      BY <1>3
    <3> HIDE DEF both, ca, cb
    <3> QED
      BY <1>8, <3>1, <3>2
<1> QED
  BY <1>3, <1>6, <1>7 DEF A, B, Having

LEMMA MorePaths ==
    ASSUME NEW e \in Nat, NEW x \in Nat, NEW y \in Nat, NEW h \in Nat,
           NEW hx \in Nat, hx < h, NEW hy \in Nat, hy < h,
           NEW a \in Nat, a <= (1 + x) * hx, NEW b \in Nat, b <= (1 + y) * hy
    PROVE  /\ x <= e => 1 + a <= (1 + e) * h
           /\ y <= e => 1 + b <= (1 + e) * h
           /\ 1 + x + y <= e => 1 + a + b <= (1 + e) * h
<1>1. \A q \in Nat : q * (h - 1) \in Int /\ q * h = q * (h - 1) + q
  OBVIOUS
<1>2. ASSUME NEW q \in Nat, NEW i \in Nat, i <= h - 1 PROVE q * i <= q * (h - 1) /\ q * i \in Int
  <2>1. h - 1 \in Int /\ i \in Int
    BY <1>2
  <2> QED
    BY <1>2, <2>1, ProductOrder
<1>3. ASSUME NEW p \in Nat, NEW q \in Nat, p <= q
      PROVE  p * (h - 1) <= q * (h - 1) /\ p * (h - 1) \in Int /\ q * (h - 1) \in Int
  <2>1. (h - 1) * p <= (h - 1) * q
    <3>1. h - 1 \in Nat /\ p \in Int /\ q \in Int
      OBVIOUS
    <3> QED
      BY <1>3, <3>1, ProductOrder
  <2> QED
    BY <2>1
<1>4. a <= (1 + x) * (h - 1) /\ b <= (1 + y) * (h - 1)
  <2>1. 1 + x \in Nat /\ 1 + y \in Nat /\ hx <= h - 1 /\ hy <= h - 1
    OBVIOUS
  <2>2. (1 + x) * hx <= (1 + x) * (h - 1) /\ (1 + x) * hx \in Int /\ (1 + x) * (h - 1) \in Int
    BY <1>1, <1>2, <2>1
  <2>3. (1 + y) * hy <= (1 + y) * (h - 1) /\ (1 + y) * hy \in Int /\ (1 + y) * (h - 1) \in Int
    BY <1>1, <1>2, <2>1
  <2> QED
    BY <2>2, <2>3
<1>5. (1 + e) * h = (1 + e) * (h - 1) + (1 + e) /\ (1 + e) * (h - 1) \in Int
  <2>1. 1 + e \in Nat
    OBVIOUS
  <2> QED
    BY <1>1, <2>1
<1>6. ASSUME x <= e PROVE 1 + a <= (1 + e) * h
  <2>1. (1 + x) * (h - 1) <= (1 + e) * (h - 1) /\ (1 + x) * (h - 1) \in Int
    <3>1. 1 + x \in Nat /\ 1 + e \in Nat /\ 1 + x <= 1 + e
      BY <1>6
    <3> QED
      BY <1>3, <3>1
  <2> QED
    BY <1>4, <1>5, <2>1
<1>7. ASSUME y <= e PROVE 1 + b <= (1 + e) * h
  <2>1. (1 + y) * (h - 1) <= (1 + e) * (h - 1) /\ (1 + y) * (h - 1) \in Int
    <3>1. 1 + y \in Nat /\ 1 + e \in Nat /\ 1 + y <= 1 + e
      BY <1>7
    <3> QED
      BY <1>3, <3>1
  <2> QED
    BY <1>4, <1>5, <2>1
<1>8. ASSUME 1 + x + y <= e PROVE 1 + a + b <= (1 + e) * h
  <2>1. (1 + x) * (h - 1) + (1 + y) * (h - 1) = (2 + x + y) * (h - 1)
    OBVIOUS
  <2>2. (2 + x + y) * (h - 1) <= (1 + e) * (h - 1) /\ (2 + x + y) * (h - 1) \in Int
    <3>1. 2 + x + y \in Nat /\ 1 + e \in Nat /\ 2 + x + y <= 1 + e
      BY <1>8
    <3> QED
      BY <1>3, <3>1
  <2>3. (1 + x) * (h - 1) \in Int /\ (1 + y) * (h - 1) \in Int
    <3>1. 1 + x \in Nat /\ 1 + y \in Nat
      OBVIOUS
    <3> QED
      BY <1>1, <3>1
  <2> QED
    BY <1>4, <1>5, <2>1, <2>2, <2>3
<1> QED
  BY <1>6, <1>7, <1>8

(* searchTree of bst.c goes down one path, and one more for each node with *)
(* the key.                                                                *)
LEMMA VisitLength ==
    ASSUME NEW t, Good(t), NEW below, Belows(t, below), InOrder(t, 0), NEW k \in Int,
           NEW f, Visits(t, k, f), NEW P,
           \A x \in Nodes : x \in P <=> t.key[x] = k
    PROVE  \A m \in Nodes : Len(f[m]) <= (1 + Having(below, m, P)) * Levels(t, m)
<1> DEFINE E(m) == Having(below, m, P)
           Short(m) == Len(f[m]) <= (1 + E(m)) * Levels(t, m)
           G == {m \in Nodes : Short(m)}
<1>1. Sound(t) /\ \A m \in Nodes : t.key[m] \in Int
  BY DEF Good, Sound, Trees
<1>2. \A m \in N0 : f[m] \in Seq(Nodes) /\ Len(f[m]) \in Nat /\ Levels(t, m) \in Nat
  BY <1>1, VisitFinds, LevelFacts
<1>3. E(NULL) = 0 /\ f[NULL] = <<>>
  <2>1. below[NULL] \cap P = {}
    BY DEF Belows
  <2> QED
    BY <2>1, NodeFacts, FS_EmptySet DEF Visits, VisitStep, Having
<1>4. ASSUME NEW m \in Nodes, \A s \in Sides : t.link[s][m] # NULL => t.link[s][m] \in G
      PROVE  m \in G
  <2> DEFINE l == t.link["left"][m]
             r == t.link["right"][m]
             a == IF t.key[m] >= k THEN f[l] ELSE <<>>
             b == IF t.key[m] <= k THEN f[r] ELSE <<>>
  <2>1. /\ m \in N0 /\ m # NULL /\ l \in N0 /\ r \in N0 /\ t.key[m] \in Int
        /\ l # NULL => l \in G
        /\ r # NULL => r \in G
    BY <1>1, <1>4, NodeFacts, HeightFacts DEF N0, Sides, Sound
  <2>2. f[m] = <<m>> \o a \o b
    BY <2>1 DEF Visits, VisitStep
  <2>3. E(l) \in Nat /\ E(r) \in Nat /\ E(m) = E(l) + E(r) + IF m \in P THEN 1 ELSE 0
    BY <1>1, EqualBelow
  <2>4. /\ Levels(t, l) \in Nat /\ Levels(t, r) \in Nat /\ Levels(t, m) \in Nat
        /\ Levels(t, l) < Levels(t, m) /\ Levels(t, r) < Levels(t, m)
    BY <2>1, LevelFacts
  <2>5. Short(l) /\ Short(r)
    <3>1. Short(NULL)
      <4>1. Levels(t, NULL) = 0 /\ Len(f[NULL]) = 0
        BY <1>3, LevelFacts
      <4>2. (1 + E(NULL)) * Levels(t, NULL) = 0
        BY <1>3, <4>1
      <4> HIDE DEF E
      <4> QED
        BY <4>1, <4>2
    <3> HIDE DEF Short
    <3> QED
      BY <2>1, <3>1
  <2>6. f[l] \in Seq(Nodes) /\ f[r] \in Seq(Nodes) /\ Len(f[l]) \in Nat /\ Len(f[r]) \in Nat
    BY <1>2, <2>1
  <2>7. Len(f[m]) = 1 + Len(a) + Len(b)
    <3>1. a \in Seq(Nodes) /\ b \in Seq(Nodes)
      BY <2>6
    <3> HIDE DEF a, b
    <3> QED
      BY <2>2, <3>1
  <2>8. m \in P <=> t.key[m] = k
    OBVIOUS
  <2> DEFINE x == E(l)
             y == E(r)
             e == E(m)
             h == Levels(t, m)
             hx == Levels(t, l)
             hy == Levels(t, r)
             la == Len(f[l])
             lb == Len(f[r])
  <2>9. /\ e \in Nat /\ x \in Nat /\ y \in Nat /\ h \in Nat /\ hx \in Nat /\ hy \in Nat
        /\ hx < h /\ hy < h /\ la \in Nat /\ lb \in Nat
        /\ la <= (1 + x) * hx /\ lb <= (1 + y) * hy
        /\ x <= e /\ y <= e /\ (t.key[m] = k => 1 + x + y <= e)
    <3>1. /\ x \in Nat /\ y \in Nat /\ e = x + y + IF m \in P THEN 1 ELSE 0
      BY <2>3
    <3> HIDE DEF E
    <3> QED
      BY <2>4, <2>5, <2>6, <2>8, <3>1, SMTT(30)
  <2>10. Len(a) = (IF t.key[m] >= k THEN la ELSE 0) /\ Len(b) = IF t.key[m] <= k THEN lb ELSE 0
    OBVIOUS
  <2> HIDE DEF l, r, a, b, x, y, e, h, hx, hy, la, lb, E
  <2>11. /\ 1 + la <= (1 + e) * h /\ 1 + lb <= (1 + e) * h
         /\ t.key[m] = k => 1 + la + lb <= (1 + e) * h
    BY <2>9, MorePaths
  <2>12. Len(f[m]) <= (1 + e) * h
    BY <2>1, <2>7, <2>9, <2>10, <2>11
  <2> QED
    BY <2>12 DEF e, h
<1>5. Nodes \subseteq G
  <2> HIDE DEF G
  <2> QED
    BY <1>1, <1>4, RankInduction
<1> QED
  BY <1>5

LEMMA PathLength ==
    ASSUME NEW t, Good(t), NEW k, NEW stops, NEW b, IsPath(t, k, stops, t.root, b)
    PROVE  Len(b) <= Levels(t, t.root)
<1>1. /\ Sound(t) /\ t.root \in N0 /\ b \in Seq(Nodes) /\ Len(b) \in Nat
      /\ \A i \in 1 .. Len(b) : b[i] \in Nodes
      /\ \A m \in N0 : Levels(t, m) \in Nat
  BY HeightFacts, LevelFacts DEF Good, Sound, IsPath
<1>2. CASE t.root = NULL
  BY <1>1, <1>2 DEF IsPath
<1>3. CASE t.root # NULL
  <2>1. /\ b[1] = t.root /\ t.root \in Nodes /\ Len(b) > 0
        /\ \A i \in 1 .. Len(b) - 1 : t.link[Towards(t, b[i], k)][b[i]] = b[i + 1]
    BY <1>1, <1>3, NodeFacts DEF IsPath
  <2> DEFINE L == Len(b)
             G == {i \in Nat : i < L => Levels(t, b[i + 1]) + i <= Levels(t, t.root)}
  <2>2. L \in Nat
    BY <1>1
  <2>3. 0 \in G
    BY <1>1, <2>1
  <2>4. ASSUME NEW i \in Nat, i \in G PROVE i + 1 \in G
    <3> SUFFICES ASSUME i + 1 < L PROVE Levels(t, b[i + 1 + 1]) + (i + 1) <= Levels(t, t.root)
      OBVIOUS
    <3>1. i + 1 \in 1 .. Len(b) - 1 /\ i + 1 \in 1 .. Len(b) /\ i + 1 + 1 \in 1 .. Len(b)
      BY <1>1
    <3> DEFINE m == b[i + 1]
               c == b[i + 1 + 1]
    <3>2. t.link[Towards(t, m, k)][m] = c /\ m \in Nodes /\ c \in Nodes
      BY <1>1, <2>1, <3>1
    <3>3. Levels(t, m) + i <= Levels(t, t.root)
      BY <1>1, <2>4, <3>1
    <3> HIDE DEF m, c, L
    <3>4. Levels(t, c) < Levels(t, m)
      BY <3>2, LevelFacts DEF Towards
    <3>5. m \in N0 /\ c \in N0
      BY <3>2 DEF N0
    <3>6. Levels(t, m) \in Nat /\ Levels(t, c) \in Nat /\ Levels(t, t.root) \in Nat
      BY <1>1, <3>5
    <3>7. Levels(t, c) + (i + 1) <= Levels(t, t.root)
      BY <3>3, <3>4, <3>6
    <3> QED
      BY <3>7 DEF c
  <2>5. Nat \subseteq G
    <3> HIDE DEF G
    <3> QED
      BY <2>3, <2>4, UpwardInduction
  <2>6. L - 1 \in Nat /\ L - 1 < L /\ L - 1 + 1 = L /\ L \in 1 .. Len(b)
    BY <1>1, <2>1
  <2>7. Levels(t, b[L - 1 + 1]) + (L - 1) <= Levels(t, t.root)
    BY <2>5, <2>6
  <2>8. b[L - 1 + 1] = b[L] /\ b[L] \in Nodes
    BY <1>1, <2>6
  <2>9. Levels(t, b[L]) > 0 /\ Levels(t, b[L]) \in Nat
    <3>1. b[L] \in N0
      BY <2>8 DEF N0
    <3> HIDE DEF L
    <3>2. /\ Levels(t, t.link["left"][b[L]]) < Levels(t, b[L]) /\ Levels(t, b[L]) \in Nat
          /\ t.link["left"][b[L]] \in N0
      BY <1>1, <2>8, <3>1, LevelFacts, HeightFacts DEF Sound, Sides
    <3>3. Levels(t, t.link["left"][b[L]]) \in Nat
      BY <1>1, <3>2
    <3> QED
      BY <3>2, <3>3
  <2>10. Levels(t, b[L]) + (L - 1) <= Levels(t, t.root)
    BY <2>7, <2>8
  <2>11. Levels(t, t.root) \in Nat
    BY <1>1
  <2> HIDE DEF G
  <2>12. L <= Levels(t, t.root)
    <3> HIDE DEF L
    <3> QED
      BY <2>2, <2>9, <2>10, <2>11
  <2> QED
    BY <2>12
<1> QED
  BY <1>2, <1>3

(* FewestNodes is what its recursive definition says.                      *)
FewestStep(g, l) == IF l <= 1 THEN l ELSE 1 + g[l - 1] + g[l - 2]
FewestUpto(g, n) == \A l \in Nat : l <= n => g[l] = FewestStep(g, l)

LEMMA FewestFacts ==
    /\ \A l \in Nat : FewestNodes[l] = FewestStep(FewestNodes, l)
    /\ \A l \in Nat : FewestNodes[l] \in Nat
<1>1. ASSUME NEW g, NEW h, NEW l \in Nat, \A j \in Nat : j < l => g[j] = h[j]
      PROVE  FewestStep(g, l) = FewestStep(h, l)
  <2>1. CASE l <= 1
    BY <2>1 DEF FewestStep
  <2>2. CASE ~(l <= 1)
    <3>1. l - 1 \in Nat /\ l - 2 \in Nat /\ l - 1 < l /\ l - 2 < l
      BY <2>2
    <3>2. g[l - 1] = h[l - 1] /\ g[l - 2] = h[l - 2]
      BY <1>1, <3>1
    <3> QED
      BY <2>2, <3>2 DEF FewestStep
  <2> QED
    BY <2>1, <2>2
<1> DEFINE G == {n \in Nat : \E g : FewestUpto(g, n)}
<1>2. 0 \in G
  <2>1. FewestUpto([l \in Nat |-> l], 0)
    BY DEF FewestUpto, FewestStep
  <2> QED
    BY <2>1
<1>3. ASSUME NEW n \in Nat, n \in G PROVE n + 1 \in G
  <2>1. PICK g : FewestUpto(g, n)
    BY <1>3
  <2> DEFINE h == [l \in Nat |-> IF l <= n THEN g[l] ELSE FewestStep(g, l)]
  <2>2. ASSUME NEW l \in Nat, l <= n + 1 PROVE h[l] = FewestStep(h, l)
    <3>1. \A j \in Nat : j < l => g[j] = h[j]
      BY <2>2
    <3>2. h[l] = FewestStep(g, l)
      BY <2>1 DEF FewestUpto
    <3> HIDE DEF h
    <3> QED
      BY <1>1, <3>1, <3>2
  <2> HIDE DEF h
  <2>3. FewestUpto(h, n + 1) /\ n + 1 \in Nat
    BY <2>2 DEF FewestUpto
  <2> QED
    BY <2>3
<1>4. Nat \subseteq G
  <2> HIDE DEF G
  <2> QED
    BY <1>2, <1>3, UpwardInduction
(* Two of them agree as far as both go.                                    *)
<1>5. ASSUME NEW n \in Nat, NEW g, FewestUpto(g, n), NEW m \in Nat, NEW h, FewestUpto(h, m)
      PROVE  \A l \in Nat : l <= n /\ l <= m => g[l] = h[l]
  <2> DEFINE H == {i \in Nat : \A l \in Nat : l < i /\ l <= n /\ l <= m => g[l] = h[l]}
  <2>1. 0 \in H
    OBVIOUS
  <2>2. ASSUME NEW i \in Nat, i \in H PROVE i + 1 \in H
    <3> SUFFICES ASSUME NEW l \in Nat, l < i + 1, l <= n, l <= m PROVE g[l] = h[l]
      OBVIOUS
    <3>1. \A j \in Nat : j < l => g[j] = h[j]
      BY <2>2
    <3>2. FewestStep(g, l) = FewestStep(h, l)
      BY <1>1, <3>1
    <3>3. g[l] = FewestStep(g, l) /\ h[l] = FewestStep(h, l)
      BY <1>5 DEF FewestUpto
    <3> QED
      BY <3>2, <3>3
  <2>3. Nat \subseteq H
    <3> HIDE DEF H
    <3> QED
      BY <2>1, <2>2, UpwardInduction
  <2>4. ASSUME NEW l \in Nat, l <= n, l <= m PROVE g[l] = h[l]
    <3>1. l + 1 \in H /\ l < l + 1
      BY <2>3
    <3> QED
      BY <2>4, <3>1
  <2> QED
    BY <2>4
<1> DEFINE upto(n) == CHOOSE g : FewestUpto(g, n)
           F == [n \in Nat |-> upto(n)[n]]
<1>6. \A n \in Nat : FewestUpto(upto(n), n)
  BY <1>4
<1>7. ASSUME NEW n \in Nat PROVE F[n] = FewestStep(F, n)
  <2>1. FewestUpto(upto(n), n)
    BY <1>6
  <2>2. \A j \in Nat : j < n => upto(n)[j] = F[j]
    <3> SUFFICES ASSUME NEW j \in Nat, j < n PROVE upto(n)[j] = F[j]
      OBVIOUS
    <3>1. FewestUpto(upto(j), j) /\ F[j] = upto(j)[j]
      BY <1>6
    <3> HIDE DEF upto, F
    <3> QED
      BY <1>5, <2>1, <3>1
  <2>3. F[n] = upto(n)[n]
    OBVIOUS
  <2> HIDE DEF upto, F
  <2>4. upto(n)[n] = FewestStep(upto(n), n)
    BY <2>1 DEF FewestUpto
  <2> QED
    BY <1>1, <2>2, <2>3, <2>4
<1> HIDE DEF F
<1> DEFINE IsFewest(g) == g = [l \in Nat |-> FewestStep(g, l)]
<1>8. IsFewest([l \in Nat |-> F[l]])
  <2> DEFINE F1 == [l \in Nat |-> F[l]]
  <2>1. ASSUME NEW l \in Nat PROVE F1[l] = FewestStep(F1, l)
    <3>1. \A j \in Nat : j < l => F[j] = F1[j]
      OBVIOUS
    <3>2. F1[l] = FewestStep(F, l)
      BY <1>7
    <3> HIDE DEF F1
    <3> QED
      BY <1>1, <3>1, <3>2
  <2> QED
    BY <2>1
<1>9. FewestNodes = CHOOSE g : IsFewest(g)
  BY DEF FewestNodes, FewestStep
<1>10. IsFewest(FewestNodes)
  <2> HIDE DEF IsFewest
  <2> QED
    BY <1>8, <1>9
<1>11. \A l \in Nat : FewestNodes[l] = FewestStep(FewestNodes, l)
  BY <1>10
<1> DEFINE N == {n \in Nat : \A l \in Nat : l <= n => FewestNodes[l] \in Nat}
<1>12. 0 \in N
  BY <1>11 DEF FewestStep
<1>13. ASSUME NEW n \in Nat, n \in N PROVE n + 1 \in N
  <2> SUFFICES ASSUME NEW l \in Nat, l <= n + 1 PROVE FewestNodes[l] \in Nat
    OBVIOUS
  <2>1. CASE l <= 1
    BY <1>11, <2>1 DEF FewestStep
  <2>2. CASE ~(l <= 1)
    <3>1. l - 1 \in Nat /\ l - 2 \in Nat /\ l - 1 <= n /\ l - 2 <= n
      BY <2>2
    <3>2. FewestNodes[l - 1] \in Nat /\ FewestNodes[l - 2] \in Nat
      BY <1>13, <3>1
    <3>3. FewestNodes[l] = 1 + FewestNodes[l - 1] + FewestNodes[l - 2]
      BY <1>11, <2>2 DEF FewestStep
    <3> QED
      BY <3>2, <3>3
  <2> QED
    BY <2>1, <2>2
<1>14. Nat \subseteq N
  <2> HIDE DEF N
  <2> QED
    BY <1>12, <1>13, UpwardInduction
<1>15. \A l \in Nat : FewestNodes[l] \in Nat
  <2>1. \A l \in Nat : l <= l
    OBVIOUS
  <2> QED
    BY <1>14, <2>1
<1> QED
  BY <1>11, <1>15

LEMMA FewestGrows ==
    /\ \A l \in Nat : FewestNodes[l] >= l
    /\ \A l, h \in Nat : l <= h => FewestNodes[l] <= FewestNodes[h]
<1> DEFINE F(l) == FewestNodes[l]
<1>1. /\ \A l \in Nat : F(l) \in Nat
      /\ F(0) = 0 /\ F(1) = 1 /\ \A l \in Nat : F(l + 2) = 1 + F(l + 1) + F(l)
  <2>1. \A l \in Nat : F(l) = FewestStep(FewestNodes, l)
    BY FewestFacts
  <2>2. ASSUME NEW l \in Nat PROVE F(l + 2) = 1 + F(l + 1) + F(l)
    <3>1. l + 2 \in Nat /\ ~(l + 2 <= 1) /\ l + 2 - 1 = l + 1 /\ l + 2 - 2 = l
      OBVIOUS
    <3>2. F(l + 2) = 1 + F(l + 2 - 1) + F(l + 2 - 2)
      BY <2>1, <3>1 DEF FewestStep
    <3> HIDE DEF F
    <3> QED
      BY <3>1, <3>2
  <2> QED
    BY <2>1, <2>2, FewestFacts DEF FewestStep
<1> HIDE DEF F
<1> DEFINE G == {l \in Nat : F(l) >= l /\ F(l) <= F(l + 1) /\ (l > 0 => F(l) > 0)}
<1>2. 0 \in G
  BY <1>1
<1>3. ASSUME NEW l \in Nat, l \in G PROVE l + 1 \in G
  <2>1. F(l) \in Nat /\ F(l + 1) \in Nat /\ F(l + 2) = 1 + F(l + 1) + F(l) /\ l + 1 + 1 = l + 2
    BY <1>1
  <2>2. CASE l = 0
    <3>1. F(0) = 0 /\ F(0 + 1) = 1 /\ F(0 + 2) = 2
      BY <1>1
    <3> QED
      BY <2>1, <2>2, <3>1
  <2>3. CASE l # 0
    <3>1. l - 1 \in Nat /\ l - 1 + 2 = l + 1 /\ l - 1 + 1 = l
      BY <2>3
    <3>2. F(l + 1) = 1 + F(l) + F(l - 1) /\ F(l - 1) \in Nat
      BY <1>1, <3>1
    <3>3. F(l) >= l
      BY <1>3
    <3> QED
      BY <2>1, <3>2, <3>3
  <2> QED
    BY <2>2, <2>3
<1>4. Nat \subseteq G
  <2> HIDE DEF G
  <2> QED
    BY <1>2, <1>3, UpwardInduction
<1>5. ASSUME NEW l \in Nat, NEW h \in Nat, l <= h PROVE F(l) <= F(h)
  <2> DEFINE H == {d \in Nat : F(l) <= F(l + d)}
  <2>1. 0 \in H
    BY <1>1
  <2>2. ASSUME NEW d \in Nat, d \in H PROVE d + 1 \in H
    <3>1. F(l) <= F(l + d) /\ l + d \in Nat /\ l + (d + 1) = l + d + 1
      BY <2>2
    <3>2. F(l + d) <= F(l + d + 1)
      BY <1>4, <3>1
    <3>3. F(l) \in Nat /\ F(l + d) \in Nat /\ F(l + d + 1) \in Nat
      BY <1>1, <3>1
    <3> QED
      BY <3>1, <3>2, <3>3
  <2>3. Nat \subseteq H
    <3> HIDE DEF H
    <3> QED
      BY <2>1, <2>2, UpwardInduction
  <2>4. h - l \in Nat /\ l + (h - l) = h
    BY <1>5
  <2>5. F(l) <= F(l + (h - l))
    BY <2>3, <2>4
  <2> QED
    BY <2>4, <2>5
<1>6. \A l \in Nat : F(l) >= l
  BY <1>4
<1> QED
  BY <1>5, <1>6 DEF F

(* A tree whose sides differ by at most one has at least that many nodes.  *)
LEMMA FewestBelow ==
    ASSUME NEW t, Good(t), Level(t), NEW below, Belows(t, below)
    PROVE  \A m \in N0 : FewestNodes[Levels(t, m)] <= Cardinality(below[m])
<1> DEFINE F(l) == FewestNodes[l]
           Enough(m) == F(Levels(t, m)) <= Cardinality(below[m])
           G == {m \in Nodes : Enough(m)}
<1>1. /\ Sound(t) /\ \A l \in Nat : F(l) \in Nat
      /\ F(0) = 0 /\ F(1) = 1 /\ \A l \in Nat : l > 1 => F(l) = 1 + F(l - 1) + F(l - 2)
      /\ \A l, h \in Nat : l <= h => F(l) <= F(h)
  BY FewestFacts, FewestGrows DEF FewestStep, Good
<1> HIDE DEF F
<1>2. Enough(NULL) /\ Cardinality(below[NULL]) = 0
  <2>1. Levels(t, NULL) = 0 /\ below[NULL] = {}
    BY LevelFacts DEF Belows
  <2> QED
    BY <1>1, <2>1, FS_EmptySet
<1>3. ASSUME NEW m \in Nodes, \A s \in Sides : t.link[s][m] # NULL => t.link[s][m] \in G
      PROVE  m \in G
  <2> DEFINE l == t.link["left"][m]
             r == t.link["right"][m]
  <2>1. /\ l \in N0 /\ r \in N0 /\ m \in N0
        /\ l # NULL => l \in G
        /\ r # NULL => r \in G
    BY <1>1, <1>3, HeightFacts DEF N0, Sides, Sound
  <2>2. Enough(l) /\ Enough(r)
    BY <1>2, <2>1
  <2>3. /\ Levels(t, l) \in Nat /\ Levels(t, r) \in Nat /\ Levels(t, m) \in Nat
        /\ Levels(t, l) < Levels(t, m) /\ Levels(t, r) < Levels(t, m)
        /\ Levels(t, m) = Levels(t, l) + 1 \/ Levels(t, m) = Levels(t, r) + 1
        /\ Levels(t, m) <= Levels(t, l) + 2 /\ Levels(t, m) <= Levels(t, r) + 2
    BY <2>1, LevelFacts
  <2>4. /\ Cardinality(below[m]) = 1 + Cardinality(below[l]) + Cardinality(below[r])
        /\ Cardinality(below[l]) \in Nat /\ Cardinality(below[r]) \in Nat
        /\ Cardinality(below[m]) \in Nat
    <3>1. Cardinality(below[m]) = 1 + Cardinality(below[l]) + Cardinality(below[r])
      BY <1>1, BelowCount
    <3>2. \A c \in N0 : Cardinality(below[c]) \in Nat
      BY <1>1, <1>2, BelowCount, NodeFacts
    <3> QED
      BY <2>1, <3>1, <3>2
  <2> DEFINE h  == Levels(t, m)
             hl == Levels(t, l)
             hr == Levels(t, r)
             c  == Cardinality(below[m])
             cl == Cardinality(below[l])
             cr == Cardinality(below[r])
  <2>5. /\ h \in Nat /\ hl \in Nat /\ hr \in Nat /\ hl < h /\ hr < h
        /\ h = hl + 1 \/ h = hr + 1
        /\ h <= hl + 2 /\ h <= hr + 2
        /\ c = 1 + cl + cr /\ cl \in Nat /\ cr \in Nat
        /\ F(hl) <= cl /\ F(hr) <= cr
    BY <2>2, <2>3, <2>4
  <2> HIDE DEF l, r, h, hl, hr, c, cl, cr
  <2>6. F(h) <= c
    <3>1. CASE h <= 1
      <4>1. h = 1
        BY <2>5, <3>1
      <4> QED
        BY <1>1, <2>5, <4>1
    <3>2. CASE h > 1
      <4>1. F(h) = 1 + F(h - 1) + F(h - 2) /\ h - 1 \in Nat /\ h - 2 \in Nat
        BY <1>1, <2>5, <3>2
      <4>2. F(h - 1) \in Nat /\ F(h - 2) \in Nat /\ F(hl) \in Nat /\ F(hr) \in Nat
        BY <1>1, <2>5, <4>1
      <4>3. F(h - 2) <= F(hl) /\ F(h - 2) <= F(hr)
        <5>1. h - 2 <= hl /\ h - 2 <= hr
          BY <2>5
        <5> QED
          BY <1>1, <2>5, <4>1, <5>1
      <4>4. CASE h = hl + 1
        <5>1. h - 1 = hl
          BY <2>5, <4>4
        <5> QED
          BY <2>5, <4>1, <4>2, <4>3, <5>1
      <4>5. CASE h = hr + 1
        <5>1. h - 1 = hr
          BY <2>5, <4>5
        <5> QED
          BY <2>5, <4>1, <4>2, <4>3, <5>1
      <4> QED
        BY <2>5, <4>4, <4>5
    <3> QED
      BY <2>5, <3>1, <3>2
  <2> QED
    BY <2>6 DEF h, c
<1>4. Nodes \subseteq G
  <2> HIDE DEF G
  <2> QED
    BY <1>1, <1>3, RankInduction
<1> QED
  BY <1>2, <1>4, NodeFacts DEF F

LEMMA MostLevelsFacts ==
    ASSUME NEW n \in Nat
    PROVE  /\ MostLevels(n) \in Nat
           /\ \A l \in Nat : FewestNodes[l] <= n => l <= MostLevels(n)
<1> DEFINE F(l) == FewestNodes[l]
<1>1. /\ \A l \in Nat : F(l) \in Nat /\ F(l) >= l
      /\ \A l, h \in Nat : l <= h => F(l) <= F(h)
      /\ F(0) = 0
  BY FewestFacts, FewestGrows DEF FewestStep
<1> DEFINE Most(l) == F(l) <= n /\ F(l + 1) > n
<1>2. MostLevels(n) = CHOOSE l \in 0 .. n : Most(l)
  BY DEF MostLevels
<1> HIDE DEF F
<1> DEFINE S == {l \in 0 .. n : F(l) <= n}
<1>3. S # {} /\ S \in SUBSET (0 .. n)
  BY <1>1
<1> DEFINE top == Max(S)
<1>4. top \in S /\ \A l \in S : l <= top
  <2> HIDE DEF S
  <2> QED
    BY <1>3, MaxIsIn
<1> HIDE DEF top
<1>5. top \in 0 .. n /\ Most(top)
  <2>1. top \in 0 .. n /\ F(top) <= n /\ top + 1 \in Nat
    BY <1>4
  <2>2. ASSUME F(top + 1) <= n PROVE FALSE
    <3>1. F(top + 1) >= top + 1 /\ F(top + 1) \in Nat
      BY <1>1, <2>1
    <3>2. top + 1 \in 0 .. n
      BY <2>1, <2>2, <3>1
    <3>3. top + 1 <= top
      BY <1>4, <2>2, <3>2
    <3> QED
      BY <2>1, <3>3
  <2> QED
    BY <1>1, <2>1, <2>2
<1> DEFINE most == CHOOSE l \in 0 .. n : Most(l)
<1>6. most \in 0 .. n /\ Most(most)
  <2> HIDE DEF Most
  <2> QED
    BY <1>5
<1> HIDE DEF most
<1>7. ASSUME NEW l \in Nat, F(l) <= n PROVE l <= most
  <2> SUFFICES ASSUME most + 1 <= l PROVE FALSE
    BY <1>6
  <2>1. F(most + 1) <= F(l) /\ F(most + 1) \in Nat /\ F(l) \in Nat
    BY <1>1, <1>6
  <2> QED
    BY <1>6, <1>7, <2>1
<1> QED
  BY <1>2, <1>6, <1>7 DEF most, F

-----------------------------------------------------------------------------
(* What is in the tree *)

Gap(p) == IF p = "imdb2" THEN 1 ELSE 0

(* The lines of the node w; the lines of each key.                         *)
Has(t, w) == {t.infos[w][i] : i \in DOMAIN t.infos[w]}
Stored(t, k) == UNION {Has(t, n) : n \in {m \in Placed(t) : t.key[m] = k}}

(* The lines up to l are in the tree, and no others, in their order in a   *)
(* node; with bst.c a node has the line that it was made for.              *)
Rising(a) == \A i, j \in DOMAIN a : i < j => a[i] < a[j]
Filed(t, l, p) ==
    /\ \A w \in Placed(t) : /\ t.key[w] \in Keys /\ Has(t, w) \subseteq 1 .. l
                            /\ Rising(t.infos[w])
                            /\ p = "imdb1" => t.infos[w] = <<w>>
    /\ 1 .. l \subseteq UNION {Has(t, w) : w \in Placed(t)}

(* The node w has got the line n.                                          *)
Files(t, u, n, k, w) ==
    /\ Placed(u) = Placed(t) \cup {w} /\ u.key[w] = k
    /\ \A v \in Placed(t) : u.key[v] = t.key[v] /\ (v # w => u.infos[v] = t.infos[v])
    /\ Has(u, w) = {n} \cup IF w \in Placed(t) THEN Has(t, w) ELSE {}

LEMMA FilesFacts ==
    ASSUME NEW t, NEW l \in Nat, NEW p, Filed(t, l, p), NEW u, NEW k \in Keys, NEW w,
           Files(t, u, l + 1, k, w), Rising(u.infos[w]), p = "imdb1" => u.infos[w] = <<w>>
    PROVE  /\ Filed(u, l + 1, p)
           /\ \A j \in Keys : Stored(u, j) = IF j = k THEN Stored(t, k) \cup {l + 1} ELSE Stored(t, j)
<1>1. /\ Placed(u) = Placed(t) \cup {w} /\ u.key[w] = k
      /\ \A v \in Placed(t) :
            u.key[v] = t.key[v] /\ (v # w => Has(u, v) = Has(t, v) /\ u.infos[v] = t.infos[v])
      /\ Has(u, w) = {l + 1} \cup IF w \in Placed(t) THEN Has(t, w) ELSE {}
  BY DEF Files, Has
<1>2. /\ \A v \in Placed(t) : /\ t.key[v] \in Keys /\ Has(t, v) \subseteq 1 .. l
                              /\ Rising(t.infos[v])
                              /\ p = "imdb1" => t.infos[v] = <<v>>
      /\ 1 .. l \subseteq UNION {Has(t, v) : v \in Placed(t)}
  BY DEF Filed
<1>3. /\ 1 .. l \subseteq 1 .. l + 1 /\ l + 1 \in 1 .. l + 1
      /\ \A i \in 1 .. l + 1 : i \in 1 .. l \/ i = l + 1
  OBVIOUS
<1>4. \A v \in Placed(u) : /\ u.key[v] \in Keys /\ Has(u, v) \subseteq 1 .. l + 1
                           /\ Rising(u.infos[v])
                           /\ p = "imdb1" => u.infos[v] = <<v>>
  BY <1>1, <1>2, <1>3
<1>5. 1 .. l + 1 \subseteq UNION {Has(u, v) : v \in Placed(u)}
  <2>1. \A v \in Placed(t) : Has(t, v) \subseteq Has(u, v) /\ v \in Placed(u)
    BY <1>1
  <2>2. l + 1 \in Has(u, w) /\ w \in Placed(u)
    BY <1>1
  <2> QED
    BY <1>2, <1>3, <2>1, <2>2
<1>6. Filed(u, l + 1, p)
  BY <1>4, <1>5 DEF Filed
<1>7. ASSUME NEW j \in Keys
      PROVE  Stored(u, j) = IF j = k THEN Stored(t, k) \cup {l + 1} ELSE Stored(t, j)
  <2>1. CASE j # k
    <3>1. \A v : v \in Placed(u) /\ u.key[v] = j <=> v \in Placed(t) /\ t.key[v] = j /\ v # w
      BY <1>1, <2>1
    <3>2. \A v \in Placed(t) : t.key[v] = j => v # w
      BY <1>1, <2>1
    <3>3. {m \in Placed(u) : u.key[m] = j} = {m \in Placed(t) : t.key[m] = j}
      BY <3>1, <3>2
    <3>4. \A m \in {m \in Placed(t) : t.key[m] = j} : Has(u, m) = Has(t, m)
      BY <1>1, <3>2
    <3> QED
      BY <2>1, <3>3, <3>4 DEF Stored
  <2>2. CASE j = k
    <3>1. \A x : x \in Stored(u, k) <=> \E v \in Placed(u) : u.key[v] = k /\ x \in Has(u, v)
      BY DEF Stored
    <3>2. \A x : x \in Stored(t, k) <=> \E v \in Placed(t) : t.key[v] = k /\ x \in Has(t, v)
      BY DEF Stored
    <3>3. \A v \in Placed(t) : v = w => t.key[v] = k
      BY <1>1
    <3>4. \A x : x \in Stored(u, k) <=> x = l + 1 \/ x \in Stored(t, k)
      BY <1>1, <3>1, <3>2, <3>3
    <3> QED
      BY <2>2, <3>4
  <2> QED
    BY <2>1, <2>2
<1> QED
  BY <1>6, <1>7

(* A line that has been inserted is with its key.                          *)
LEMMA InsertFiles ==
    ASSUME NEW t \in Trees, NEW l \in Nat, NEW p, Filed(t, l, p), l + 1 \in Nodes, NEW k \in Keys,
           l + 1 \notin Placed(t), NEW u,
           \/ \E g : OwnNode(t, u, l + 1, k, g)
           \/ /\ p # "imdb1"
              /\ \E w \in Placed(t) : t.key[w] = k /\ MoreInfo(t, u, l + 1, w)
    PROVE  /\ Filed(u, l + 1, p)
           /\ \A j \in Keys : Stored(u, j) = IF j = k THEN Stored(t, k) \cup {l + 1} ELSE Stored(t, j)
<1>1. /\ Placed(t) \subseteq Nodes
      /\ t.key \in [Nodes -> Int] /\ t.infos \in [Nodes -> Seq(Nodes)]
  BY DEF Placed, Trees
<1>2. ASSUME NEW g, OwnNode(t, u, l + 1, k, g)
      PROVE  /\ Files(t, u, l + 1, k, l + 1) /\ u.infos[l + 1] = <<l + 1>>
             /\ Rising(u.infos[l + 1])
  <2>1. /\ Placed(u) = Placed(t) \cup {l + 1}
        /\ u.key = [t.key EXCEPT ![l + 1] = k] /\ u.infos = [t.infos EXCEPT ![l + 1] = <<l + 1>>]
    BY <1>2 DEF OwnNode
  <2>2. /\ u.key[l + 1] = k /\ u.infos[l + 1] = <<l + 1>>
        /\ \A v \in Placed(t) : u.key[v] = t.key[v] /\ u.infos[v] = t.infos[v]
    BY <1>1, <2>1
  <2>3. Has(u, l + 1) = {l + 1} /\ Rising(u.infos[l + 1])
    BY <2>2 DEF Has, Rising
  <2> QED
    BY <2>1, <2>2, <2>3 DEF Files
<1>3. ASSUME NEW w \in Placed(t), t.key[w] = k, MoreInfo(t, u, l + 1, w)
      PROVE  Files(t, u, l + 1, k, w) /\ Rising(u.infos[w])
  <2>1. /\ Placed(u) = Placed(t) /\ u.key = t.key
        /\ u.infos[w] = Append(t.infos[w], l + 1)
        /\ \A v \in Placed(t) : v # w => u.infos[v] = t.infos[v]
    BY <1>1, <1>3 DEF MoreInfo, Placed
  <2> DEFINE a == t.infos[w]
             b == u.infos[w]
  <2>2. a \in Seq(Nodes) /\ Has(t, w) \subseteq 1 .. l /\ Rising(a)
    BY <1>1 DEF Filed
  <2>3. /\ Len(a) \in Nat /\ DOMAIN a = 1 .. Len(a) /\ DOMAIN b = 1 .. Len(a) + 1
        /\ b[Len(a) + 1] = l + 1 /\ \A i \in 1 .. Len(a) : b[i] = a[i]
    BY <2>1, <2>2
  <2>4. /\ \A i \in 1 .. Len(a) + 1 : i \in 1 .. Len(a) \/ i = Len(a) + 1
        /\ \A i \in 1 .. Len(a) : i \in 1 .. Len(a) + 1
        /\ Len(a) + 1 \in 1 .. Len(a) + 1
    BY <2>3, SMTT(30)
  <2>5. Has(t, w) = {a[i] : i \in 1 .. Len(a)} /\ Has(u, w) = {b[i] : i \in 1 .. Len(a) + 1}
    BY <2>3 DEF Has
  <2>6. \A i \in 1 .. Len(a) : a[i] \in 1 .. l
    BY <2>2, <2>5
  <2>7. \A i, j \in 1 .. Len(a) : i < j => a[i] < a[j]
    BY <2>2, <2>3 DEF Rising
  <2> HIDE DEF a, b
  <2>8. Has(u, w) = {l + 1} \cup Has(t, w)
    BY <2>3, <2>4, <2>5
  <2>9. ASSUME NEW i \in 1 .. Len(a) + 1, NEW j \in 1 .. Len(a) + 1, i < j PROVE b[i] < b[j]
    BY <2>3, <2>4, <2>6, <2>7, <2>9
  <2>10. Rising(u.infos[w])
    BY <2>3, <2>9 DEF Rising, b
  <2> QED
    BY <1>3, <2>1, <2>8, <2>10 DEF Files
<1>4. ASSUME NEW g, OwnNode(t, u, l + 1, k, g)
      PROVE  /\ Filed(u, l + 1, p)
             /\ \A j \in Keys : Stored(u, j) = IF j = k THEN Stored(t, k) \cup {l + 1} ELSE Stored(t, j)
  BY <1>2, <1>4, FilesFacts
<1>5. ASSUME NEW w \in Placed(t), t.key[w] = k, MoreInfo(t, u, l + 1, w), p # "imdb1"
      PROVE  /\ Filed(u, l + 1, p)
             /\ \A j \in Keys : Stored(u, j) = IF j = k THEN Stored(t, k) \cup {l + 1} ELSE Stored(t, j)
  BY <1>3, <1>5, FilesFacts
<1> QED
  BY <1>4, <1>5

-----------------------------------------------------------------------------
(* What a search answers *)

Compared(p, t, k) == IF p = "imdb1" THEN searchTree(t, k) ELSE searchTree_ll(t, k)
Found(t, c, k) == [i \in DOMAIN c |-> IF t.key[c[i]] = k THEN t.infos[c[i]] ELSE <<>>]

(* The answer a lists the lines of the set, in their order if p is imdb2.  *)
Lists(p, a, lineset) ==
    /\ {a[i] : i \in DOMAIN a} = lineset /\ Len(a) = Cardinality(lineset)
    /\ p = "imdb2" => \A i, j \in DOMAIN a : i < j => a[i] < a[j]

LEMMA PlacedBelow ==
    ASSUME NEW t, Sound(t), Whole(t)
    PROVE  \E below : Belows(t, below) /\ below[t.root] = Placed(t)
<1>1. PICK f : IsWayDown("below", t, 0, FALSE, f)
  BY WayDownExists
<1>2. f = [m \in N0 |-> BelowStep(t, f, m)]
  BY <1>1 DEF GoesDown, IsWayDown
<1>3. Belows(t, f)
  BY <1>2, NodeFacts DEF BelowStep, N0, Belows
<1> QED
  BY <1>3, BelowRoot

LEMMA ListFacts ==
    ASSUME NEW S, NEW n \in Nat, NEW a, a = [i \in 1 .. n |-> a[i]], \A i \in 1 .. n : a[i] \in S
    PROVE  a \in Seq(S) /\ Len(a) = n
  OBVIOUS

(* bst_ll.c: the path ends at the only node with the key, if there is one. *)
LEMMA OneNodeAnswers ==
    ASSUME NEW t, Sound(t), Whole(t), InOrder(t, 1), NEW l \in Nat, NEW p, Filed(t, l, p),
           NEW k \in Keys
    PROVE  Lists("imdb2", FlattenSeq(Found(t, searchTree_ll(t, k), k)), Stored(t, k))
<1> DEFINE b == searchTree_ll(t, k)
           ss == Found(t, b, k)
<1>1. PICK below : Belows(t, below) /\ below[t.root] = Placed(t)
  BY PlacedBelow
<1>2. /\ b \in Seq(Nodes) /\ On(b) \subseteq Placed(t)
      /\ \A i \in 1 .. Len(b) : t.key[b[i]] = k => i = Len(b)
      /\ \A x \in Placed(t) : t.key[x] = k => Len(b) > 0 /\ x = b[Len(b)]
  <2>1. IsPath(t, k, TRUE, t.root, b)
    BY DescentPath DEF searchTree_ll
  <2> HIDE DEF b
  <2>2. k \in Int
    BY ImdbAssumption
  <2>3. EndsWith(t, below, k, b)
    BY <1>1, <2>1, <2>2, DescentFinds
  <2> QED
    BY <1>1, <2>3 DEF EndsWith
<1>3. /\ t.infos \in [Nodes -> Seq(Nodes)] /\ Placed(t) \subseteq Nodes
      /\ \A x \in Placed(t) : Rising(t.infos[x])
  BY DEF Sound, Trees, Placed, Filed
<1> HIDE DEF b
<1>4. /\ Len(b) \in Nat /\ DOMAIN b = 1 .. Len(b) /\ \A i \in 1 .. Len(b) : b[i] \in Placed(t)
  BY <1>2 DEF On
<1>5. /\ ss \in Seq(Seq(Nodes)) /\ Len(ss) = Len(b)
      /\ \A i \in 1 .. Len(b) : ss[i] = IF t.key[b[i]] = k THEN t.infos[b[i]] ELSE <<>>
  <2>1. ss = [i \in 1 .. Len(b) |-> IF t.key[b[i]] = k THEN t.infos[b[i]] ELSE <<>>]
    BY <1>4 DEF Found
  <2>2. \A i \in 1 .. Len(b) : (IF t.key[b[i]] = k THEN t.infos[b[i]] ELSE <<>>) \in Seq(Nodes)
    BY <1>3, <1>4
  <2> HIDE DEF ss
  <2> QED
    BY <1>4, <2>1, <2>2
<1> HIDE DEF ss
<1>6. FlattenSeq(ss) = IF Len(ss) = 0 THEN <<>> ELSE ss[Len(ss)]
  <2>1. \A i \in 1 .. Len(ss) : i # Len(ss) => ss[i] = <<>>
    BY <1>2, <1>5
  <2> QED
    BY <1>5, <2>1, LastAnswer
<1>7. CASE \E x \in Placed(t) : t.key[x] = k
  <2>1. PICK x \in Placed(t) : t.key[x] = k
    BY <1>7
  <2> DEFINE a == t.infos[x]
  <2>2. Len(b) > 0 /\ x = b[Len(b)] /\ Len(b) \in 1 .. Len(b)
    <3>1. Len(b) > 0 /\ x = b[Len(b)]
      BY <1>2, <2>1
    <3> QED
      BY <1>4, <3>1
  <2>3. FlattenSeq(ss) = a
    BY <1>4, <1>5, <1>6, <2>1, <2>2
  <2>4. {m \in Placed(t) : t.key[m] = k} = {x}
    BY <1>2, <2>1, <2>2
  <2>5. Stored(t, k) = Has(t, x)
    BY <2>4 DEF Stored
  <2>6. a \in Seq(Nodes) /\ Rising(a) /\ DOMAIN a = 1 .. Len(a) /\ Has(t, x) = {a[i] : i \in DOMAIN a}
    BY <1>3, <2>1 DEF Has
  <2> HIDE DEF a
  <2>7. /\ \A i, j \in DOMAIN a : i < j => a[i] < a[j]
        /\ Len(a) \in Nat /\ \A i \in 1 .. Len(a) : a[i] \in Int
    <3>1. Len(a) \in Nat /\ \A i \in 1 .. Len(a) : a[i] \in Nodes
      BY <2>6
    <3>2. \A n \in Nodes : n \in Int
      BY DEF Nodes
    <3> QED
      BY <2>6, <3>1, <3>2 DEF Rising
  <2>8. Simple(a)
    BY <2>6, <2>7 DEF Simple
  <2>9. Cardinality({a[i] : i \in DOMAIN a}) = Len(a)
    BY <2>6, <2>8, SimpleIsCounted DEF On
  <2> QED
    BY <2>3, <2>5, <2>6, <2>7, <2>9 DEF Lists, ss, b
<1>8. CASE ~ \E x \in Placed(t) : t.key[x] = k
  <2>1. FlattenSeq(ss) = <<>>
    BY <1>4, <1>5, <1>6, <1>8
  <2>2. Stored(t, k) = {}
    BY <1>8 DEF Stored
  <2> QED
    BY <2>1, <2>2, FS_EmptySet DEF Lists, ss, b
<1> QED
  BY <1>7, <1>8

(* bst.c: every node with the key is visited, and only once.               *)
LEMMA EveryNodeAnswers ==
    ASSUME NEW t, Sound(t), Whole(t), InOrder(t, 0), NEW l \in Nat, Filed(t, l, "imdb1"),
           NEW k \in Keys
    PROVE  /\ Lists("imdb1", FlattenSeq(Found(t, searchTree(t, k), k)), Stored(t, k))
           /\ searchTree(t, k) \in Seq(Nodes) /\ Simple(searchTree(t, k))
           /\ On(searchTree(t, k)) \subseteq Placed(t)
<1> DEFINE b == searchTree(t, k)
           ss == Found(t, b, k)
           P == {x \in Nodes : t.key[x] = k}
<1>1. PICK below : Belows(t, below) /\ below[t.root] = Placed(t)
  BY PlacedBelow
<1>2. /\ b \in Seq(Nodes) /\ Simple(b) /\ On(b) \subseteq Placed(t)
      /\ \A x \in Placed(t) : t.key[x] = k => x \in On(b)
  <2>1. PICK f : Visits(t, k, f) /\ b = f[t.root]
    BY SearchVisits
  <2> HIDE DEF b
  <2>2. k \in Int /\ t.root \in N0
    BY ImdbAssumption DEF Sound, Trees
  <2> QED
    BY <1>1, <2>1, <2>2, VisitFinds
<1>3. Placed(t) \subseteq Nodes /\ \A x \in Placed(t) : t.infos[x] = <<x>>
  BY DEF Placed, Filed
<1> HIDE DEF b
<1>4. /\ Len(b) \in Nat /\ DOMAIN b = 1 .. Len(b)
      /\ \A i \in 1 .. Len(b) : b[i] \in Placed(t) /\ b[i] \in Nodes
  BY <1>2, <1>3 DEF On
<1>5. /\ ss \in Seq(Seq(Nodes)) /\ Len(ss) = Len(b)
      /\ \A i \in 1 .. Len(b) : ss[i] = IF b[i] \in P THEN <<b[i]>> ELSE <<>>
  <2>1. ss = [i \in 1 .. Len(b) |-> IF b[i] \in P THEN <<b[i]>> ELSE <<>>]
    BY <1>3, <1>4 DEF Found
  <2>2. \A i \in 1 .. Len(b) : (IF b[i] \in P THEN <<b[i]>> ELSE <<>>) \in Seq(Nodes)
    BY <1>4
  <2> HIDE DEF ss, P
  <2>3. /\ \A i \in 1 .. Len(b) : ss[i] = IF b[i] \in P THEN <<b[i]>> ELSE <<>>
        /\ ss = [i \in 1 .. Len(b) |-> ss[i]]
    BY <2>1
  <2>4. \A i \in 1 .. Len(b) : ss[i] \in Seq(Nodes)
    BY <2>2, <2>3
  <2> QED
    BY <1>4, <2>3, <2>4, ListFacts
<1> DEFINE a == FlattenSeq(ss)
<1>6. a \in Seq(Nodes) /\ Simple(a) /\ On(a) = On(b) \cap P
  <2> HIDE DEF ss, P
  <2> QED
    BY <1>2, <1>5, EachAnswer
<1>7. Stored(t, k) = On(b) \cap P
  <2>1. \A x \in Placed(t) : Has(t, x) = {x}
    BY <1>3 DEF Has
  <2>2. On(b) \cap P = {m \in Placed(t) : t.key[m] = k}
    BY <1>2, <1>3
  <2> QED
    BY <2>1, <2>2 DEF Stored
<1> HIDE DEF a, P, ss
<1>8. /\ {a[i] : i \in DOMAIN a} = Stored(t, k) /\ Len(a) = Cardinality(Stored(t, k))
  <2>1. DOMAIN a = 1 .. Len(a)
    BY <1>6
  <2> QED
    BY <1>6, <1>7, <2>1, SimpleIsCounted DEF On
<1>9. Lists("imdb1", a, Stored(t, k))
  BY <1>8 DEF Lists
<1> QED
  BY <1>2, <1>9 DEF a, ss, b

-----------------------------------------------------------------------------
(* The invariant *)

(* The tree holds the lines read, in the order of their keys -- imdb2 no   *)
(* key twice --, and the nodes compared are those of a search in it.       *)
DictInv ==
    /\ TreeInv /\ program \in {"imdb1", "imdb2"} /\ reading \in BOOLEAN
    /\ Whole(tree) /\ InOrder(tree, Gap(program)) /\ Filed(tree, lines, program)
    /\ reading => compared = <<>>
    /\ compared # <<>> => asked \in Keys /\ compared = Compared(program, tree, asked)

LEMMA EmptyIsWhole ==
    ASSUME NEW p
    PROVE  /\ Placed(EmptyTree) = {} /\ Whole(EmptyTree)
           /\ InOrder(EmptyTree, Gap(p)) /\ Filed(EmptyTree, 0, p)
<1> DEFINE t == EmptyTree
<1>1. /\ t.root = NULL /\ \A s \in Sides, m \in Nodes : t.link[s][m] = NULL
      /\ \A m \in Nodes : t.parent[m] = NULL /\ t.key[m] = 0
  BY SideFacts DEF EmptyTree
<1> HIDE DEF t
<1>2. Placed(t) = {}
  BY <1>1, NodeFacts DEF Placed
<1>3. Whole(t) /\ Filed(t, 0, p)
  BY <1>1, <1>2 DEF Whole, Filed
<1>4. InOrder(t, Gap(p))
  <2> DEFINE bound == [s \in Sides |-> [m \in Nodes |-> 0]]
  <2>1. bound \in Bounds
    BY DEF Bounds
  <2>2. /\ \A s \in Sides, m \in Nodes : bound[s][m] = 0
        /\ \A s \in Sides : Mirror[s] \in Sides
    BY SideFacts
  <2> HIDE DEF bound
  <2>3. Sorted(t, Gap(p), bound)
    BY <1>1, <2>2 DEF Sorted, Bounded1, Past
  <2> QED
    BY <2>1, <2>3 DEF InOrder
<1> QED
  BY <1>2, <1>3, <1>4 DEF t

LEMMA InitDict == Init => DictInv
<1> SUFFICES ASSUME Init PROVE DictInv
  OBVIOUS
<1>1. /\ tree = EmptyTree /\ lines = 0 /\ program \in {"imdb1", "imdb2"}
      /\ reading = TRUE /\ compared = <<>>
  BY DEF Init
<1>2. TreeInv
  BY InitTree
<1>3. Whole(tree) /\ InOrder(tree, Gap(program)) /\ Filed(tree, lines, program)
  BY <1>1, EmptyIsWhole
<1> QED
  BY <1>1, <1>2, <1>3 DEF DictInv

(* What a line of the file does to the tree.                               *)
LineAdded(k) ==
    /\ Whole(tree') /\ InOrder(tree', Gap(program)) /\ Filed(tree', lines + 1, program)
    /\ \A j \in Keys : Stored(tree', j) = IF j = k THEN Stored(tree, k) \cup {lines + 1}
                                                   ELSE Stored(tree, j)

LEMMA LineIsAdded ==
    ASSUME DictInv, NEW k \in Keys, ReadLine(k)
    PROVE  LineAdded(k)
<1>1. /\ lines \in Nat /\ lines + 1 \in Nodes /\ k \in Int
      /\ Ready(tree, lines) /\ Level(tree) /\ Whole(tree) /\ tree \in Trees
      /\ Filed(tree, lines, program)
  BY AVLAssumption, ImdbAssumption DEF DictInv, TreeInv, ReadLine, Nodes, Ready, Good, Sound
<1>2. /\ lines + 1 \notin Placed(tree)
      /\ InOrder(tree, 0) => OwnNode(tree, insert(tree, lines + 1, k), lines + 1, k, 0)
      /\ InOrder(tree, 1) =>
            \/ OwnNode(tree, insert_ll(tree, lines + 1, k), lines + 1, k, 1)
            \/ \E w \in Placed(tree) :
                  tree.key[w] = k /\ MoreInfo(tree, insert_ll(tree, lines + 1, k), lines + 1, w)
  BY <1>1, InsertKeeps
<1>3. CASE program = "imdb1"
  <2>1. InOrder(tree, 0) /\ Gap(program) = 0 /\ tree' = insert(tree, lines + 1, k)
    BY <1>3 DEF DictInv, Gap, ReadLine
  <2>2. OwnNode(tree, tree', lines + 1, k, 0)
    BY <1>2, <2>1
  <2>3. /\ Filed(tree', lines + 1, program)
        /\ \A j \in Keys : Stored(tree', j) = IF j = k THEN Stored(tree, k) \cup {lines + 1}
                                                       ELSE Stored(tree, j)
    BY <1>1, <1>2, <2>2, InsertFiles
  <2>4. Whole(tree') /\ InOrder(tree', Gap(program))
    BY <2>1, <2>2 DEF OwnNode
  <2> QED
    BY <2>3, <2>4 DEF LineAdded
<1>4. CASE program = "imdb2"
  <2>1. /\ InOrder(tree, 1) /\ Gap(program) = 1 /\ program # "imdb1"
        /\ tree' = insert_ll(tree, lines + 1, k)
    BY <1>4 DEF DictInv, Gap, ReadLine
  <2>2. \/ OwnNode(tree, tree', lines + 1, k, 1)
        \/ \E w \in Placed(tree) : tree.key[w] = k /\ MoreInfo(tree, tree', lines + 1, w)
    BY <1>2, <2>1
  <2>3. /\ Filed(tree', lines + 1, program)
        /\ \A j \in Keys : Stored(tree', j) = IF j = k THEN Stored(tree, k) \cup {lines + 1}
                                                       ELSE Stored(tree, j)
    BY <1>1, <1>2, <2>1, <2>2, InsertFiles
  <2>4. Whole(tree') /\ InOrder(tree', Gap(program))
    <3>1. CASE OwnNode(tree, tree', lines + 1, k, 1)
      BY <2>1, <3>1 DEF OwnNode
    <3>2. ASSUME NEW w \in Placed(tree), MoreInfo(tree, tree', lines + 1, w)
          PROVE  Whole(tree') /\ InOrder(tree', Gap(program))
      <4>1. /\ tree'.root = tree.root /\ tree'.link = tree.link
            /\ tree'.parent = tree.parent /\ tree'.key = tree.key
        BY <3>2 DEF MoreInfo
      <4>2. Whole(tree')
        BY <1>1, <4>1 DEF Whole, Placed
      <4>3. InOrder(tree', 1)
        BY <2>1, <4>1 DEF InOrder, Sorted, Bounded1
      <4> QED
        BY <2>1, <4>2, <4>3
    <3> QED
      BY <2>2, <3>1, <3>2
  <2> QED
    BY <2>3, <2>4 DEF LineAdded
<1> QED
  BY <1>3, <1>4 DEF DictInv

LEMMA NextDict == DictInv /\ [Next]_imdbVars => DictInv'
<1> SUFFICES ASSUME DictInv, [Next]_imdbVars PROVE DictInv'
  OBVIOUS
<1>1. TreeInv'
  BY NextTree DEF DictInv
<1>2. CASE EndOfFile
  BY <1>1, <1>2 DEF DictInv, EndOfFile
<1>3. ASSUME NEW k \in Keys, ReadLine(k) PROVE DictInv'
  <2>1. /\ program' = program /\ lines' = lines + 1 /\ reading' \in BOOLEAN
        /\ compared' = compared /\ compared = <<>>
    BY <1>3 DEF DictInv, ReadLine
  <2>2. Whole(tree') /\ InOrder(tree', Gap(program)) /\ Filed(tree', lines + 1, program)
    BY <1>3, LineIsAdded DEF LineAdded
  <2>3. program \in {"imdb1", "imdb2"}
    BY DEF DictInv
  <2> QED
    BY <1>1, <2>1, <2>2, <2>3 DEF DictInv
<1>4. ASSUME NEW k \in Keys, LookUp(k) PROVE DictInv'
  <2>1. /\ program' = program /\ tree' = tree /\ lines' = lines /\ reading' = reading
        /\ reading = FALSE /\ asked' = k /\ compared' = Compared(program, tree, k)
    BY <1>4 DEF LookUp, Compared, DictInv
  <2> QED
    BY <1>1, <2>1 DEF DictInv
<1>5. CASE UNCHANGED imdbVars
  BY <1>1, <1>5 DEF DictInv, imdbVars
<1> QED
  BY <1>2, <1>3, <1>4, <1>5 DEF Next

(* Every line read is in the tree with its key, once, and in a place where *)
(* a search will come by; rotations and equal keys notwithstanding.        *)
THEOREM DictionaryInvariant == Spec => []DictInv
<1> QED
  BY InitDict, NextDict, PTL DEF Spec

-----------------------------------------------------------------------------
(* Both programs are dictionaries *)

StoredIn(t) == [k \in Keys |-> Stored(t, k)]

LEMMA InTreeIsPlaced == DictInv => InTree = Placed(tree)
<1> SUFFICES ASSUME DictInv PROVE InTree = Placed(tree)
  OBVIOUS
<1>1. Sound(tree) /\ Whole(tree)
  BY DEF DictInv, TreeInv, Ready, Good
<1> QED
  BY <1>1, InTreeIsBelow, BelowRoot

(* The store of the dictionary is what is in the tree.                     *)
StoreSeen == [k \in Keys |-> UNION {{tree.infos[n][i] : i \in DOMAIN tree.infos[n]} :
                                        n \in {m \in InTree : tree.key[m] = k}}]

LEMMA StoreIsStored == DictInv => StoreSeen = StoredIn(tree)
  BY InTreeIsPlaced DEF StoreSeen, StoredIn, Stored, Has

LEMMA SameCardinality == ASSUME NEW S PROVE D!Cardinality(S) = Cardinality(S)
  BY DEF Cardinality, D!Cardinality

LEMMA AllLinesRecorded ==
    ASSUME DictInv
    PROVE  Cardinality(UNION {StoredIn(tree)[k] : k \in Keys}) = lines
<1> DEFINE S == UNION {StoredIn(tree)[k] : k \in Keys}
<1>1. \A k \in Keys : StoredIn(tree)[k] = Stored(tree, k)
  BY DEF StoredIn
<1>2. Filed(tree, lines, program) /\ lines \in Nat
  BY AVLAssumption DEF DictInv, TreeInv
<1>3. \A w \in Placed(tree) : tree.key[w] \in Keys /\ Has(tree, w) \subseteq 1 .. lines
  BY <1>2 DEF Filed
<1>4. 1 .. lines \subseteq UNION {Has(tree, w) : w \in Placed(tree)}
  BY <1>2 DEF Filed
<1>5. S \subseteq 1 .. lines
  BY <1>1, <1>3 DEF Stored
<1>6. 1 .. lines \subseteq S
  <2>1. ASSUME NEW i \in 1 .. lines PROVE i \in S
    <3>1. PICK w \in Placed(tree) : i \in Has(tree, w)
      BY <1>4
    <3>2. i \in Stored(tree, tree.key[w]) /\ tree.key[w] \in Keys
      BY <1>3, <3>1 DEF Stored
    <3> QED
      BY <1>1, <3>2
  <2> HIDE DEF S
  <2> QED
    BY <2>1
<1>7. S = 1 .. lines
  BY <1>5, <1>6
<1>8. Cardinality(1 .. lines) = lines
  <2>1. 1 \in Int /\ lines \in Int
    BY <1>2
  <2>2. Cardinality(1 .. lines) = IF 1 > lines THEN 0 ELSE lines - 1 + 1
    BY <2>1, FS_Interval
  <2> QED
    BY <1>2, <2>2
<1> QED
  BY <1>7, <1>8

LEMMA SearchAnswers ==
    ASSUME DictInv, NEW k \in Keys
    PROVE  Lists(program, FlattenSeq(Found(tree, Compared(program, tree, k), k)), Stored(tree, k))
<1>1. /\ Sound(tree) /\ Whole(tree) /\ lines \in Nat /\ Filed(tree, lines, program)
      /\ InOrder(tree, Gap(program)) /\ program \in {"imdb1", "imdb2"}
  BY AVLAssumption DEF DictInv, TreeInv, Ready, Good
<1>2. CASE program = "imdb1"
  <2>1. InOrder(tree, 0) /\ Compared(program, tree, k) = searchTree(tree, k)
    BY <1>1, <1>2 DEF Gap, Compared
  <2> QED
    BY <1>1, <1>2, <2>1, EveryNodeAnswers
<1>3. CASE program = "imdb2"
  <2>1. InOrder(tree, 1) /\ Compared(program, tree, k) = searchTree_ll(tree, k)
    BY <1>1, <1>3 DEF Gap, Compared
  <2> QED
    BY <1>1, <1>3, <2>1, OneNodeAnswers
<1> QED
  BY <1>1, <1>2, <1>3

LEMMA DictionaryInitially == Init => D!DictionaryInit
<1> SUFFICES ASSUME Init PROVE D!DictionaryInit
  OBVIOUS
<1>1. /\ DictInv /\ reading = TRUE /\ compared = <<>> /\ tree = EmptyTree
      /\ (program = "imdb2") \in BOOLEAN
  BY InitDict DEF Init
<1>2. StoreSeen = [k \in Keys |-> {}]
  <2>1. Placed(tree) = {}
    BY <1>1, EmptyIsWhole
  <2> QED
    BY <1>1, <2>1, StoreIsStored DEF StoredIn, Stored
<1>3. Output = <<>>
  <2>1. Output = FlattenSeq(<<>>)
    BY <1>1 DEF Output
  <2>2. /\ <<>> \in Seq(Seq(Nodes)) /\ Len(<<>>) = 0
        /\ \A i \in 1 .. Len(<<>>) : i # Len(<<>>) => <<>>[i] = <<>>
    OBVIOUS
  <2> QED
    BY <2>1, <2>2, LastAnswer
<1> QED
  BY <1>1, <1>2, <1>3 DEF D!DictionaryInit, StoreSeen

LEMMA DictionaryStep == DictInv /\ DictInv' /\ [Next]_imdbVars => [D!DictionaryNext]_(D!dictionaryVars)
<1> SUFFICES ASSUME DictInv, DictInv', [Next]_imdbVars PROVE [D!DictionaryNext]_(D!dictionaryVars)
  OBVIOUS
<1>1. StoreSeen = StoredIn(tree) /\ StoreSeen' = StoredIn(tree')
  <2>1. (DictInv => StoreSeen = StoredIn(tree))'
    BY StoreIsStored, PTL
  <2> QED
    BY <2>1, StoreIsStored
<1>2. CASE EndOfFile
  <2>1. StoreSeen' = StoreSeen /\ Output' = Output
    <3>1. tree' = tree /\ compared' = compared /\ asked' = asked
      BY <1>2 DEF EndOfFile
    <3> QED
      BY <1>1, <3>1 DEF Output
  <2>2. D!EndOfFile
    BY <1>2, <2>1 DEF EndOfFile, D!EndOfFile, StoreSeen
  <2> QED
    BY <2>2 DEF D!DictionaryNext
<1>3. ASSUME NEW k \in Keys, ReadLine(k) PROVE D!DictionaryNext
  <2>1. /\ reading /\ reading' \in BOOLEAN /\ program' = program /\ compared' = <<>>
        /\ compared = <<>>
    BY <1>3 DEF ReadLine, DictInv
  <2>2. Output' = Output
    <3>1. Output = FlattenSeq(<<>>) /\ Output' = FlattenSeq(<<>>)
      BY <2>1 DEF Output
    <3> QED
      BY <3>1
  <2>3. Cardinality(UNION {StoreSeen[j] : j \in Keys}) = lines
    BY <1>1, AllLinesRecorded
  <2>4. StoredIn(tree') = [StoredIn(tree) EXCEPT ![k] = @ \cup {lines + 1}]
    <3>1. \A j \in Keys : Stored(tree', j) = IF j = k THEN Stored(tree, k) \cup {lines + 1}
                                                      ELSE Stored(tree, j)
      BY <1>3, LineIsAdded DEF LineAdded
    <3> QED
      BY <3>1 DEF StoredIn
  <2>5. StoreSeen' = [StoreSeen EXCEPT
                        ![k] = @ \cup {Cardinality(UNION {StoreSeen[j] : j \in Keys}) + 1}]
    BY <1>1, <2>3, <2>4
  <2>6. D!Record(k)
    BY <2>1, <2>2, <2>5, SameCardinality DEF D!Record, D!Recorded, StoreSeen
  <2> QED
    BY <2>6 DEF D!DictionaryNext
<1>4. ASSUME NEW k \in Keys, LookUp(k) PROVE D!DictionaryNext
  <2>1. /\ ~reading /\ reading' = reading /\ program' = program /\ tree' = tree /\ asked' = k
        /\ compared' = Compared(program, tree, k)
    BY <1>4 DEF LookUp, Compared
  <2>2. StoreSeen' = StoreSeen /\ StoreSeen[k] = Stored(tree, k)
    BY <1>1, <2>1 DEF StoredIn
  <2>3. Output' = FlattenSeq(Found(tree, Compared(program, tree, k), k))
    BY <2>1 DEF Output, Found
  <2>4. Lists(program, Output', StoreSeen[k])
    BY <2>2, <2>3, SearchAnswers
  <2>5. /\ {Output'[i] : i \in DOMAIN Output'} = StoreSeen[k]
        /\ Len(Output') = Cardinality(StoreSeen[k])
        /\ program = "imdb2" => \A i, j \in DOMAIN Output' : i < j => Output'[i] < Output'[j]
    BY <2>4 DEF Lists
  <2>6. D!Lists(Output', StoreSeen[k])
    BY <2>5, SameCardinality DEF D!Lists
  <2>7. D!Ask(k)
    BY <2>1, <2>2, <2>6 DEF D!Ask, StoreSeen
  <2> QED
    BY <2>7 DEF D!DictionaryNext
<1>5. CASE UNCHANGED imdbVars
  <2>1. /\ tree' = tree /\ compared' = compared /\ asked' = asked /\ program' = program
        /\ reading' = reading
    BY <1>5 DEF imdbVars
  <2>2. StoreSeen' = StoreSeen /\ Output' = Output
    BY <1>1, <2>1 DEF Output
  <2>3. UNCHANGED D!dictionaryVars
    BY <2>1, <2>2 DEF D!dictionaryVars, StoreSeen
  <2> QED
    BY <2>3
<1> QED
  BY <1>2, <1>3, <1>4, <1>5 DEF Next

(* For files of any length both programs are dictionaries: a key is        *)
(* answered with the infos of all its lines and of no others, each once,   *)
(* and by imdb2 in the order of the file.  Rotations may move a node with  *)
(* an equal key to either side, and searchTree still comes by it (bst.c:   *)
(* 177-201, bst_ll.c:197-229).                                             *)
THEOREM Dictionaries == Spec => ImplementsDictionary
<1>1. DictInv /\ DictInv' /\ [Next]_imdbVars => [D!DictionaryNext]_(D!dictionaryVars)
  BY DictionaryStep
<1> QED
  BY <1>1, DictionaryInitially, DictionaryInvariant, PTL DEF Spec, ImplementsDictionary, D!DictionarySpec

-----------------------------------------------------------------------------
(* A search is short *)

LEMMA SearchLength ==
    ASSUME NEW t, Good(t), Level(t), Whole(t), NEW p \in {"imdb1", "imdb2"}, InOrder(t, Gap(p)),
           NEW l \in Nat, Filed(t, l, p), NEW k \in Keys
    PROVE  LET c == Compared(p, t, k)
               paths == IF p = "imdb1" THEN 1 + Cardinality({i \in DOMAIN c : t.key[c[i]] = k}) ELSE 1
           IN  Len(c) <= paths * MostLevels(Cardinality(Placed(t)))
<1>1. PICK below : Belows(t, below) /\ below[t.root] = Placed(t)
  BY PlacedBelow DEF Good
<1> DEFINE most == MostLevels(Cardinality(Placed(t)))
           levels == Levels(t, t.root)
<1>2. t.root \in N0 /\ Sound(t) /\ k \in Int
  BY HeightFacts, ImdbAssumption DEF Good, Sound
<1>3. levels \in Nat /\ most \in Nat /\ levels <= most
  <2>1. FewestNodes[levels] <= Cardinality(Placed(t)) /\ levels \in Nat
    BY <1>1, <1>2, FewestBelow, LevelFacts
  <2>2. Cardinality(Placed(t)) \in Nat
    <3>1. IsFiniteSet(Nodes) /\ Placed(t) \subseteq Nodes
      BY AVLAssumption, FS_Interval DEF Nodes, Placed
    <3> QED
      BY <3>1, FS_Subset, FS_CardinalityType
  <2> QED
    BY <2>1, <2>2, MostLevelsFacts
<1>4. CASE p = "imdb2"
  <2> DEFINE c == Descent(t, k, TRUE)
  <2>1. Compared(p, t, k) = c
    BY <1>4 DEF Compared, searchTree_ll
  <2>2. IsPath(t, k, TRUE, t.root, c)
    BY <1>2, DescentPath
  <2> HIDE DEF c
  <2>3. c \in Seq(Nodes) /\ Len(c) <= levels
    BY <2>2, PathLength DEF IsPath
  <2> HIDE DEF levels, most
  <2>4. Len(c) <= 1 * most
    <3>1. Len(c) \in Nat
      BY <2>3
    <3> QED
      BY <1>3, <2>3, <3>1
  <2> QED
    BY <1>4, <2>1, <2>4 DEF most
<1>5. CASE p = "imdb1"
  <2> DEFINE c == searchTree(t, k)
             P == {x \in Nodes : t.key[x] = k}
             q == Having(below, t.root, P)
  <2>1. InOrder(t, 0) /\ Compared(p, t, k) = c
    BY <1>5 DEF Compared, Gap
  <2>2. c \in Seq(Nodes) /\ Simple(c) /\ On(c) \subseteq Placed(t)
    BY <1>2, <1>5, <2>1, EveryNodeAnswers
  <2>3. PICK f : Visits(t, k, f) /\ c = f[t.root]
    BY <1>2, SearchVisits
  <2>4. \A x \in Placed(t) : t.key[x] = k => x \in On(c)
    <3> HIDE DEF c
    <3> QED
      BY <1>1, <1>2, <2>1, <2>3, VisitFinds
  <2> HIDE DEF c
  <2>5. Cardinality({i \in DOMAIN c : t.key[c[i]] = k}) = q /\ q \in Nat
    <3>1. {i \in DOMAIN c : t.key[c[i]] = k} = {i \in 1 .. Len(c) : c[i] \in P}
      BY <2>2
    <3>2. On(c) \cap P = below[t.root] \cap P
      BY <1>1, <2>2, <2>4
    <3> HIDE DEF P
    <3>3. /\ Cardinality({i \in 1 .. Len(c) : c[i] \in P}) = Cardinality(On(c) \cap P)
          /\ IsFiniteSet({i \in 1 .. Len(c) : c[i] \in P})
      BY <2>2, SimpleIsCounted
    <3> QED
      BY <3>1, <3>2, <3>3, FS_CardinalityType DEF Having
  <2>6. Len(c) <= (1 + q) * levels
    <3>1. CASE t.root = NULL
      <4>1. c = <<>> /\ levels = 0
        BY <1>2, <2>3, <3>1, LevelFacts DEF Visits, VisitStep
      <4> HIDE DEF q, levels
      <4> QED
        BY <2>5, <4>1
    <3>2. CASE t.root # NULL
      <4>1. t.root \in Nodes /\ \A x \in Nodes : x \in P <=> t.key[x] = k
        BY <1>2, <3>2, NodeFacts
      <4> HIDE DEF P
      <4>2. \A m \in Nodes : Len(f[m]) <= (1 + Having(below, m, P)) * Levels(t, m)
        BY <1>1, <1>2, <2>1, <2>3, <4>1, VisitLength
      <4> QED
        BY <2>3, <4>1, <4>2
    <3> QED
      BY <3>1, <3>2
  <2> HIDE DEF q, levels, most, P
  <2>7. (1 + q) * levels \in Int /\ (1 + q) * most \in Int /\ (1 + q) * levels <= (1 + q) * most
    <3>1. 1 + q \in Nat /\ levels \in Int /\ most \in Int
      BY <1>3, <2>5
    <3> QED
      BY <1>3, <3>1, ProductOrder
  <2>8. Len(c) <= (1 + q) * most
    BY <2>2, <2>6, <2>7
  <2> QED
    BY <1>5, <2>1, <2>5, <2>8 DEF most
<1> QED
  BY <1>4, <1>5

LEMMA ShortFollows == DictInv => SearchIsShort
<1> SUFFICES ASSUME DictInv PROVE SearchIsShort
  OBVIOUS
<1>1. /\ Good(tree) /\ Level(tree) /\ Whole(tree) /\ program \in {"imdb1", "imdb2"}
      /\ InOrder(tree, Gap(program)) /\ lines \in Nat /\ Filed(tree, lines, program)
      /\ InTree = Placed(tree)
  BY AVLAssumption, InTreeIsPlaced DEF DictInv, TreeInv, Ready
<1> DEFINE equal == {i \in DOMAIN compared : tree.key[compared[i]] = asked}
           paths == IF program = "imdb1" THEN 1 + Cardinality(equal) ELSE 1
           most == MostLevels(Cardinality(Placed(tree)))
<1>2. CASE compared # <<>>
  <2>1. asked \in Keys /\ compared = Compared(program, tree, asked)
    BY <1>2 DEF DictInv
  <2> QED
    BY <1>1, <2>1, SearchLength DEF SearchIsShort
<1>3. CASE compared = <<>>
  <2>1. paths \in Nat
    <3>1. equal = {}
      BY <1>3
    <3> QED
      BY <3>1, FS_EmptySet
  <2>2. most \in Nat
    <3>1. IsFiniteSet(Nodes) /\ Placed(tree) \subseteq Nodes
      BY AVLAssumption, FS_Interval DEF Nodes, Placed
    <3> QED
      BY <3>1, FS_Subset, FS_CardinalityType, MostLevelsFacts
  <2>3. Len(compared) = 0
    BY <1>3
  <2> HIDE DEF paths, most
  <2>4. 0 <= paths * most
    BY <2>1, <2>2
  <2> QED
    BY <1>1, <2>3, <2>4 DEF SearchIsShort, paths, most
<1> QED
  BY <1>2, <1>3

(* For files of any length and any keys a search prints no more            *)
(* comparisons than one path down a balanced tree of so many nodes, and    *)
(* one more for each equal key that bst.c keeps in a node of its own       *)
(* (main.c:98-111, main2.c:99-110).                                        *)
THEOREM SearchesAreShort == Spec => []SearchIsShort
<1> QED
  BY DictionaryInvariant, ShortFollows, PTL
=============================================================================
