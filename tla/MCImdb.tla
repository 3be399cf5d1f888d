------------------------------- MODULE MCImdb -------------------------------
(* Files of keys 1 to 6, of which 2 and 5 may come up again, in any order. *)
(* A look-up leaves the tree alone: one for each tree and key is enough.   *)
EXTENDS Imdb

Again(k) == \E n \in Nodes : tree.key[n] = k
MCNext ==
    \/ EndOfFile
    \/ \E k \in Keys : (Again(k) => k \in {2, 5}) /\ ReadLine(k)
    \/ asked = NULL /\ \E k \in Keys : LookUp(k)
MCSpec == Init /\ [][MCNext]_imdbVars
=============================================================================
