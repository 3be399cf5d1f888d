-------------------------------- MODULE Game --------------------------------
(***************************************************************************)
(* One game of server.c with its codes: the choice of the secret in main   *)
(* and gameloop, and the loop over the guesses.  Module Server has the     *)
(* same loop step by step, and only the kind of each guess.                *)
(*                                                                         *)
(* X_Wrong is a slip in X that a property catches.                         *)
(***************************************************************************)
EXTENDS Mastermind, SequencesExt

CONSTANTS
    MAX_ATTEMPTS,
    Arguments,      \* second arguments of the command line
    Lines           \* what a player may send

ASSUME GameAssumption ==
    /\ MAX_ATTEMPTS \in Nat \ {0}
    /\ \A line \in Lines : line # <<>>          \* read returned more than 0

SUCCESS   == "SUCCESS"
INVALID   == "INVALID"
GAME_OVER == "GAME_OVER"
HINT      == "Server's hint"
EMPTY     == ""

VARIABLES
    secret_code,    \* of the process: empty, or set by the command line
    game_code,      \* of this game
    moves,
    buffer, reply_buffer, hint,     \* the last guess and the answer to it
    connected

gameVars == <<secret_code, game_code, moves, buffer, reply_buffer, hint, connected>>

SecretOf_Wrong(argument) == IF validcode(argument) THEN argument ELSE <<>>
SecretOf(argument) ==
    IF validcode(argument) THEN [i \in Places |-> toupper(argument[i])] ELSE <<>>

Init ==
    /\ \E argument \in Arguments \cup {<<>>} : secret_code = SecretOf(argument)
    /\ game_code \in IF validcode(secret_code) THEN {secret_code} ELSE randomcodes
    /\ moves = MAX_ATTEMPTS /\ connected = TRUE
    /\ buffer = <<>> /\ reply_buffer = EMPTY /\ hint = <<>>

WithoutNewline(line) == IF Last(line) = "\n" THEN Front(line) ELSE line

Refusal_Wrong == INVALID
Refusal == IF moves = 1 THEN GAME_OVER ELSE INVALID

(* INVALID, or b and m of the hint: m is logged and sent less b. *)
Reply == [CORRECT |-> SUCCESS, OUT_OF_MOVES |-> GAME_OVER, INCORRECT |-> HINT]
Answer(guess) ==
    \/ /\ ~validcode(guess)
       /\ reply_buffer' = Refusal
       /\ UNCHANGED hint
    \/ /\ validcode(guess)
       /\ reply_buffer' = Reply[makeguess(guess, game_code, moves)]
       /\ hint' = <<rightincode(guess, game_code),
                    countincode(guess, game_code) - rightincode(guess, game_code)>>

(* One round of the loop; a break leaves moves as it is and ends the game. *)
Guess(line) ==
    /\ connected
    /\ buffer' = WithoutNewline(line)
    /\ Answer(WithoutNewline(line))
    /\ connected' = (reply_buffer' \notin {SUCCESS, GAME_OVER})
    /\ moves' = IF connected' THEN moves - 1 ELSE moves
    /\ UNCHANGED <<secret_code, game_code>>

(* read returns zero or an error.  What is sent then is the empty reply.   *)
HangUp ==
    /\ connected
    /\ connected' = FALSE /\ reply_buffer' = EMPTY /\ buffer' = <<>>
    /\ UNCHANGED <<secret_code, game_code, moves, hint>>

Next == HangUp \/ \E line \in Lines : Guess(line)

Spec == Init /\ [][Next]_gameVars

-----------------------------------------------------------------------------
(* Properties *)

Codes == [Places -> VALID_COLOURS]
Same(guess, code) == \A i \in Places : toupper(guess[i]) = toupper(code[i])

(* The reference for the hint: the best that can be had by rearranging the *)
(* guess, less what is right as it stands.                                 *)
Rearrangements == {p \in [Places -> Places] : \A i, j \in Places : p[i] = p[j] => i = j}
Agreement(guess, p) == Cardinality({i \in Places : toupper(guess[p[i]]) = game_code[i]})
Reordered(guess, k) == \E p \in Rearrangements : Agreement(guess, p) = k

TypeOK ==
    /\ secret_code \in Codes \cup {<<>>} /\ game_code \in Codes
    /\ moves \in 1 .. MAX_ATTEMPTS /\ connected \in BOOLEAN
    /\ reply_buffer \in {EMPTY, SUCCESS, INVALID, GAME_OVER, HINT}

(* The hint [b:m] is what welcome.txt:29-33 tells the player: b colours    *)
(* are right where they are, and by rearranging the guess b + m can be     *)
(* made right and no more (countincode and rightincode, server.c:298-300). *)
HintIsTrue ==
    reply_buffer = HINT =>
        /\ hint[1] = Cardinality({i \in Places : toupper(buffer[i]) = game_code[i]})
        /\ Reordered(buffer, hint[1] + hint[2])
        /\ \A k \in hint[1] + hint[2] + 1 .. CODE_SIZE : ~Reordered(buffer, k)

(* A guess wins if and only if it is the game's code but for case, in the  *)
(* last attempt too, however the secret was written on the command line    *)
(* and with or without a newline (server.c:140, 277-303).                  *)
ExactGuessWins ==
    reply_buffer # EMPTY =>
        (reply_buffer = SUCCESS <=> Len(buffer) = CODE_SIZE /\ Same(buffer, game_code))

(* The game is a match of MAX_ATTEMPTS attempts (module Match), and never  *)
(* stutters: every line that is read costs an attempt, an invalid one too  *)
(* (server.c:265-328).                                                     *)
M == INSTANCE Match WITH
    attempts <- IF reply_buffer \in {SUCCESS, GAME_OVER} THEN moves - 1 ELSE moves,
    result <- IF connected THEN "playing"
              ELSE IF reply_buffer = SUCCESS THEN "won"
              ELSE IF reply_buffer = GAME_OVER THEN "lost" ELSE "abandoned"
ImplementsMatch == M!MatchInit /\ [][M!MatchNext]_gameVars
=============================================================================
