----------------------------- MODULE MCDialogue -----------------------------
(* Codes of four places and three colours; some guesses are partly in      *)
(* lower case, and some lines are invalid, empty or without a newline.     *)
(* Random codes are taken up to a renaming of the colours.  Where writes   *)
(* may arrive in parts, one code and one guess of each kind are enough.    *)
EXTENDS Dialogue

MCColours   == {"A", "B", "C"}
MCTexts     == [1 .. 4 -> MCColours]
MCArguments == {<<"a", "B", "c", "A">>, <<"A", "A", "B", "B">>, <<"?", "A", "A", "A">>}
MCLines ==
    {Append(text, "\n") : text \in MCTexts}
        \cup {<<"a">> \o Tail(text) : text \in {t \in MCTexts : t[1] = "A"}}
        \cup {<<"\n">>, <<"A", "B", "\n">>, <<"A", "?", "C", "A", "\n">>,
              <<"A", "A", "B", "C", "A", "\n">>}

UpToColours(code) ==
    \A i \in 1 .. 4 : \A pair \in {<<"A", "B">>, <<"B", "C">>} :
        code[i] = pair[2] => \E j \in 1 .. i - 1 : code[j] = pair[1]
Few ==
    /\ secret_code = <<>> => UpToColours(game_code)
    /\ \/ whole
       \/ game_code = <<"A", "B", "C", "A">>
            /\ buffer \in {<<>>, game_code, <<"C", "C", "B", "A">>}
MCInit == DialogueInit /\ Few
MCNext == DialogueNext /\ Few'
MCSpec == MCInit /\ [][MCNext]_dialogueVars
MCFairSpec == MCSpec /\ WF_dialogueVars(ServerStep) /\ WF_dialogueVars(ClientStep)
=============================================================================
