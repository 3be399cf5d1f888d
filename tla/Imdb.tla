-------------------------------- MODULE Imdb --------------------------------
(***************************************************************************)
(* The programs imdb1 (main.c, bst.c) and imdb2 (main2.c, bst_ll.c) of     *)
(* COMP20003/ass1: a file of keys and infos is read into a tree, and then  *)
(* keys are looked up in it.  The info of a line is its number.            *)
(***************************************************************************)
EXTENDS AVL

CONSTANT Keys               \* numbers, in the order of strcmp

ASSUME ImdbAssumption == Keys \subseteq Nat

VARIABLES
    program,        \* "imdb1" or "imdb2", never changed
    tree,
    lines,          \* lines inserted
    reading,
    asked,          \* the last key looked up, or NULL
    compared        \* the nodes it was compared with

imdbVars == <<program, tree, lines, reading, asked, compared>>

Init ==
    /\ program \in {"imdb1", "imdb2"}
    /\ tree = EmptyTree
    /\ lines = 0 /\ reading = TRUE
    /\ asked = NULL /\ compared = <<>>

(* A round of readInputFrom's loop.  The file may end with the info.       *)
ReadLine(k) ==
    /\ reading /\ lines < MaxLines
    /\ tree' = IF program = "imdb1" THEN insert(tree, lines + 1, k)
                                    ELSE insert_ll(tree, lines + 1, k)
    /\ lines' = lines + 1
    /\ reading' \in BOOLEAN
    /\ UNCHANGED <<program, asked, compared>>

(* The file ends where a key would begin: the new leaf is freed.           *)
EndOfFile ==
    /\ reading /\ reading' = FALSE
    /\ UNCHANGED <<program, tree, lines, asked, compared>>

(* A round of searchTreeAndOutputTo's loop.                                *)
LookUp(k) ==
    /\ ~reading
    /\ asked' = k
    /\ compared' = IF program = "imdb1" THEN searchTree(tree, k) ELSE searchTree_ll(tree, k)
    /\ UNCHANGED <<program, tree, lines, reading>>

Next == EndOfFile \/ \E k \in Keys : ReadLine(k) \/ LookUp(k)

Spec == Init /\ [][Next]_imdbVars

(* What is printed for the key: the infos of its nodes.                    *)
Output == FlattenSeq([i \in DOMAIN compared |->
            IF tree.key[compared[i]] = asked THEN tree.infos[compared[i]] ELSE <<>>])

-----------------------------------------------------------------------------
(* Properties *)

(* The nodes of the tree, as the links lead to them.                       *)
InTree ==
    LET below[m \in Nodes \cup {NULL}] ==
            IF m = NULL THEN {}
            ELSE {m} \cup below[tree.link["left"][m]] \cup below[tree.link["right"][m]]
    IN  below[tree.root]

TrueHeight ==
    LET h[m \in Nodes \cup {NULL}] ==
            IF m = NULL THEN -1
            ELSE LET l == h[tree.link["left"][m]]  r == h[tree.link["right"][m]]
                 IN  1 + IF l > r THEN l ELSE r
    IN  [m \in InTree \cup {NULL} |-> h[m]]

TypeOK ==
    /\ program \in {"imdb1", "imdb2"} /\ lines \in 0 .. MaxLines /\ reading \in BOOLEAN
    /\ tree.root \in Nodes \cup {NULL}
    /\ {tree.link["left"], tree.link["right"], tree.parent}
            \subseteq [Nodes -> Nodes \cup {NULL}]
    /\ tree.key \in [Nodes -> Keys \cup {0}]
    /\ asked \in Keys \cup {NULL}

(* Between two insertions the heights of the two sides of any node, as     *)
(* they really are, differ by at most one, with equal keys in nodes of     *)
(* their own too (balanceTree, bst.c:121-147, bst_ll.c:122-148).           *)
TreeIsBalanced ==
    \A n \in InTree :
        TrueHeight[tree.link["left"][n]] - TrueHeight[tree.link["right"][n]] \in -1 .. 1

(* What the nodes say of themselves is true: the fields height and counter *)
(* on which the next rotation depends, and the pointers to the parents by  *)
(* which the heights are refreshed (bst_ll.c:38-120).                      *)
NodesAreTrue ==
    \A n \in InTree :
        /\ tree.height[n] = TrueHeight[n]
        /\ tree.counter[n]
            = TrueHeight[tree.link["left"][n]] - TrueHeight[tree.link["right"][n]]
        /\ IF n = tree.root THEN tree.parent[n] = NULL
           ELSE \E side \in DOMAIN Mirror : tree.link[side][tree.parent[n]] = n

(* Both programs are dictionaries: whatever rotations have done to equal   *)
(* keys, a key is answered with all its lines and no others; imdb2 answers *)
(* in the order of the file (searchTree, bst.c:177-201, bst_ll.c:197-229). *)
D == INSTANCE Dictionary WITH
    ordered <- program = "imdb2",
    store <- [k \in Keys |-> UNION {{tree.infos[n][i] : i \in DOMAIN tree.infos[n]} :
                                        n \in {m \in InTree : tree.key[m] = k}}],
    reply <- Output
ImplementsDictionary == D!DictionarySpec

(* The fewest nodes of a balanced tree of that many levels; the most       *)
(* levels of a balanced tree of that many nodes.                           *)
FewestNodes[levels \in Nat] ==
    IF levels <= 1 THEN levels
    ELSE 1 + FewestNodes[levels - 1] + FewestNodes[levels - 2]
MostLevels(nodes) ==
    CHOOSE l \in 0 .. nodes : FewestNodes[l] <= nodes /\ FewestNodes[l + 1] > nodes

(* The comparisons that are printed (main.c:98-111, main2.c:99-110) are    *)
(* those of a balanced tree: one path down, and one more for each equal    *)
(* key.                                                                    *)
SearchIsShort ==
    LET equal == {i \in DOMAIN compared : tree.key[compared[i]] = asked}
        paths == IF program = "imdb1" THEN 1 + Cardinality(equal) ELSE 1
    IN  Len(compared) <= paths * MostLevels(Cardinality(InTree))
=============================================================================
