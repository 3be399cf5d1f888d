------------------------------- MODULE Match -------------------------------
(***************************************************************************)
(* What a Mastermind match promises its player, whoever runs it: at most   *)
(* MAX_ATTEMPTS attempts; the first right one wins; the match is lost by   *)
(* the last attempt and by no earlier one; until then the player may walk  *)
(* away.  A decided match stays decided.                                   *)
(***************************************************************************)
EXTENDS Naturals

CONSTANT MAX_ATTEMPTS       \* at least 1

VARIABLES
    attempts,       \* attempts left
    result          \* "playing", "won", "lost" or "abandoned"

matchVars == <<attempts, result>>

MatchInit == attempts = MAX_ATTEMPTS /\ result = "playing"

Attempt(right) ==
    /\ result = "playing" /\ attempts > 0
    /\ attempts' = attempts - 1
    /\ result' = IF right THEN "won" ELSE IF attempts = 1 THEN "lost" ELSE "playing"

Abandon ==
    /\ result = "playing"
    /\ result' = "abandoned"
    /\ UNCHANGED attempts

MatchNext == Abandon \/ \E right \in BOOLEAN : Attempt(right)

MatchSpec == MatchInit /\ [][MatchNext]_matchVars
=============================================================================
