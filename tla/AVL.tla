--------------------------------- MODULE AVL ---------------------------------
(***************************************************************************)
(* The balanced search trees of COMP20003/ass1: bst_ll.c, one node per     *)
(* key, and bst.c, one node per line, which share all but insert and       *)
(* searchTree.  A tree is a record of the fields of its nodes; a node has  *)
(* the number of the line that it was made for, keys are numbers, and an   *)
(* operator takes the tree before a call to the tree after it.             *)
(*                                                                         *)
(* X_Wrong is a slip in X that a property catches.                         *)
(***************************************************************************)
EXTENDS Integers, SequencesExt

CONSTANT MaxLines           \* lines of the input file

ASSUME AVLAssumption == MaxLines \in Nat

NULL  == 0
Nodes == 1 .. MaxLines
Mirror == [left |-> "right", right |-> "left"]

(* No nodes yet; every field holds what createLeaf puts there.             *)
EmptyTree ==
    [root |-> NULL,
     link |-> [side \in DOMAIN Mirror |-> [n \in Nodes |-> NULL]],
     parent |-> [n \in Nodes |-> NULL],
     height |-> [n \in Nodes |-> 0], counter |-> [n \in Nodes |-> 0],
     key |-> [n \in Nodes |-> 0],
     infos |-> [n \in Nodes |-> <<>>]]      \* info, then the list more_info

height(t, n) == IF n = NULL THEN -1 ELSE t.height[n]
heightDiff(t, n) == height(t, t.link["left"][n]) - height(t, t.link["right"][n])

(* updateHeight goes on to the parent, up to the root.                     *)
Refresh(t, n) ==
    LET taller == IF heightDiff(t, n) >= 1 THEN "left" ELSE "right"
    IN  [t EXCEPT !.counter[n] = heightDiff(t, n),
                  !.height[n] = height(t, t.link[taller][n]) + 1]
Ancestors(t, n) ==
    LET up[m \in Nodes \cup {NULL}] == IF m = NULL THEN <<>> ELSE <<m>> \o up[t.parent[m]]
    IN  up[n]
updateHeight_Wrong(t, n) == Refresh(t, n)
updateHeight(t, n) == FoldLeft(Refresh, t, Ancestors(t, n))

(* rotateR and rotateL are mirror images: the child of n on the far side   *)
(* of the direction of the rotation takes the place of n.                  *)
Rotate(t, n, to) ==
    LET from  == Mirror[to]
        child == t.link[from][n]
        inner == t.link[to][child]
        Redirected(links) == [m \in Nodes |-> IF m = t.parent[n] /\ links[m] = n
                                              THEN child ELSE links[m]]
        redirected == [side \in DOMAIN Mirror |-> Redirected(t.link[side])]
    IN  updateHeight(
          [t EXCEPT !.link = [redirected EXCEPT ![to][child] = n, ![from][n] = inner],
                    !.parent = [m \in Nodes |-> CASE m = child -> t.parent[n]
                                                  [] m = n -> child
                                                  [] m = inner -> n
                                                  [] OTHER -> t.parent[m]]], n)
rotateR(t, n) == Rotate(t, n, "right")
rotateL(t, n) == Rotate(t, n, "left")
rotateRL(t, n) == rotateL(rotateR(t, t.link["right"][n]), n)
rotateLR(t, n) == rotateR(rotateL(t, t.link["left"][n]), n)

(* The last assignment is to the pointer that led to n; all such pointers  *)
(* but tree_root are links, which the rotation has redirected already.     *)
Rebalanced_Wrong(t, n) == IF t.counter[n] > 0 THEN rotateR(t, n) ELSE rotateL(t, n)
Rebalanced(t, n) ==
    IF t.counter[n] > 0
    THEN IF t.counter[t.link["left"][n]] > 0 THEN rotateR(t, n) ELSE rotateLR(t, n)
    ELSE IF t.counter[t.link["right"][n]] < 0 THEN rotateL(t, n) ELSE rotateRL(t, n)
balanceTree_Wrong(t, n) ==
    IF t.counter[n] \in -2 .. 2 THEN t
    ELSE [Rebalanced(t, n) EXCEPT !.root = IF @ = n THEN Rebalanced(t, n).parent[n] ELSE @]
balanceTree(t, n) ==
    IF t.counter[n] \in -1 .. 1 THEN t
    ELSE [Rebalanced(t, n) EXCEPT !.root = IF @ = n THEN Rebalanced(t, n).parent[n] ELSE @]

(* The nodes that insert compares with k: bst.c goes on where the keys are *)
(* equal, bst_ll.c stops there.                                            *)
Towards(t, n, k) == IF k < t.key[n] THEN "left" ELSE "right"
Descent(t, k, stops) ==
    LET down[m \in Nodes \cup {NULL}] ==
            IF m = NULL THEN <<>>
            ELSE IF stops /\ t.key[m] = k THEN <<m>>
            ELSE <<m>> \o down[t.link[Towards(t, m, k)][m]]
    IN  down[t.root]

Attached(t, n, k, path) ==
    LET leaf == [t EXCEPT !.key[n] = k, !.infos[n] = <<n>>]
    IN  updateHeight(
          IF path = <<>> THEN [leaf EXCEPT !.root = n]
          ELSE [leaf EXCEPT !.link[Towards(t, Last(path), k)][Last(path)] = n,
                            !.parent[n] = Last(path)], n)

(* balanceTree is called on each node of the path as insert returns.       *)
insert(t, n, k) ==                                      \* bst.c
    LET path == Descent(t, k, FALSE)
    IN  FoldLeft(balanceTree, Attached(t, n, k, path), Reverse(Append(path, n)))

insert_ll(t, n, k) ==                                   \* bst_ll.c
    LET path == Descent(t, k, TRUE)
        isKnown == path # <<>> /\ t.key[Last(path)] = k
    IN  IF isKnown
        THEN FoldLeft(balanceTree, [t EXCEPT !.infos[Last(path)] = Append(@, n)], Reverse(path))
        ELSE FoldLeft(balanceTree, Attached(t, n, k, path), Reverse(Append(path, n)))

(* The nodes that searchTree compares with k, in the order in which it     *)
(* finds them: bst.c looks on both sides of an equal key.                  *)
searchTree_Wrong(t, k) ==
    LET visit[m \in Nodes \cup {NULL}] ==
            IF m = NULL THEN <<>>
            ELSE <<m>> \o (IF t.key[m] > k THEN visit[t.link["left"][m]] ELSE <<>>)
                       \o (IF t.key[m] <= k THEN visit[t.link["right"][m]] ELSE <<>>)
    IN  visit[t.root]
searchTree(t, k) ==                                     \* bst.c
    LET visit[m \in Nodes \cup {NULL}] ==
            IF m = NULL THEN <<>>
            ELSE <<m>> \o (IF t.key[m] >= k THEN visit[t.link["left"][m]] ELSE <<>>)
                       \o (IF t.key[m] <= k THEN visit[t.link["right"][m]] ELSE <<>>)
    IN  visit[t.root]

searchTree_ll(t, k) == Descent(t, k, TRUE)              \* bst_ll.c
=============================================================================
