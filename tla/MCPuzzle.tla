------------------------------ MODULE MCPuzzle ------------------------------
(* Boards of four by four, as in the code: those within seven moves of the *)
(* solved one, and those within Depth that leave the lower half as it is.  *)
EXTENDS Puzzle

MCStarts ==
    Within[8] \cup {s \in Within[Depth + 1] : \A t \in Tiles : t >= 8 => s[t] = t}
=============================================================================
