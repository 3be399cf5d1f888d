----------------------------- MODULE Mastermind -----------------------------
(***************************************************************************)
(* The rules of mastermind.c.  A character is a one-character string, a    *)
(* code is a sequence of characters.                                       *)
(*                                                                         *)
(* X_Wrong is a slip in X that a property catches.                         *)
(***************************************************************************)
EXTENDS Integers, Sequences, FiniteSetsExt

CONSTANTS CODE_SIZE, VALID_COLOURS

ASSUME MastermindAssumption ==
    /\ CODE_SIZE \in 1 .. 9
    /\ VALID_COLOURS \subseteq {"A", "B", "C", "D", "E", "F"} /\ VALID_COLOURS # {}

(* Of the C library, for the characters that the rules tell apart.         *)
Upper == [a |-> "A", b |-> "B", c |-> "C", d |-> "D", e |-> "E", f |-> "F"]
toupper(ch) == IF ch \in DOMAIN Upper THEN Upper[ch] ELSE ch

Places == 1 .. CODE_SIZE

validcode(code) ==
    Len(code) = CODE_SIZE /\ \A i \in Places : toupper(code[i]) \in VALID_COLOURS

(* Only the guess is converted: the code is one that randomcode made or    *)
(* that main has converted.                                                *)
rightincode(guess, code) == Cardinality({i \in Places : toupper(guess[i]) = code[i]})

CountOf(colour, code) == Cardinality({i \in Places : toupper(code[i]) = colour})

countincode_Wrong(guess, code) ==
    Cardinality({i \in Places : \E j \in Places : toupper(guess[i]) = code[j]})
countincode(guess, code) ==
    MapThenSumSet(LAMBDA colour : Min({CountOf(colour, guess), CountOf(colour, code)}),
                  VALID_COLOURS)

makeguess_Wrong(guess, code, moves) ==
    IF moves = 1 THEN "OUT_OF_MOVES"
    ELSE IF rightincode(guess, code) = CODE_SIZE THEN "CORRECT" ELSE "INCORRECT"
makeguess(guess, code, moves) ==
    IF rightincode(guess, code) = CODE_SIZE THEN "CORRECT"
    ELSE IF moves = 1 THEN "OUT_OF_MOVES" ELSE "INCORRECT"

(* What randomcode can make, whatever rand returns.                        *)
randomcodes == [Places -> VALID_COLOURS]
=============================================================================
