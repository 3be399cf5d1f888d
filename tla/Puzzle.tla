------------------------------- MODULE Puzzle -------------------------------
(***************************************************************************)
(* The sliding-tile solver of COMP20003/Assignment2: the search IDA_star,  *)
(* depth first up to a bound, and IDA_control_loop, which starts it again  *)
(* with a larger bound.  The calls of IDA_star that are active are a       *)
(* stack.  The board is WIDTH by WIDTH; the code has 4 for WIDTH and       *)
(* HEIGHT, and for the number of actions too.                              *)
(*                                                                         *)
(* X_Wrong is a slip in X that a property catches.                         *)
(***************************************************************************)
EXTENDS Integers, SequencesExt

CONSTANTS
    WIDTH,
    Starts,         \* boards to be solved
    Depth           \* of the search that finds shortest solutions

NUM_TILES == WIDTH * WIDTH
Tiles     == 0 .. NUM_TILES - 1
Boards    == [Tiles -> Tiles]
INT_MAX   == 2147483647

ASSUME PuzzleAssumption ==
    /\ WIDTH \in Nat \ {0, 1} /\ Depth \in Nat
    /\ \A s \in Starts : s \in Boards /\ \E t \in Tiles : s[t] = 0

(* On a board that is given, every tile is in one place.                   *)
IsArranged(s) == \A u \in Tiles : \E t \in Tiles : \A v \in Tiles : s[v] = u <=> v = t
ASSUME StartsAssumption == \A s \in Starts : IsArranged(s)

UP    == 0
LEFT  == 1
RIGHT == 2
DOWN  == 3
Actions == UP .. DOWN
NONE    == -1       \* previous of a start board

VARIABLES
    start,          \* the board given to IDA_control_loop
    B, B1,          \* the bound, and the bound of the next search
    stack,          \* of the active calls: node n and loop variable i
    r,              \* the solution on its way back: nodes, the last one first
    found           \* the solution that the control loop has got, or <<>>

puzzleVars == <<start, B, B1, stack, r, found>>

Abs(x) == IF x < 0 THEN -x ELSE x
dist(t, u) == Abs((t % WIDTH) - (u % WIDTH)) + Abs((t \div WIDTH) - (u \div WIDTH))
h(s) == MapThenSumSet(LAMBDA t : dist(t, s[t]), {t \in Tiles : s[t] # 0})

find_blank(s) == CHOOSE t \in Tiles : s[t] = 0

(* The action that would undo the previous one is not possible.            *)
possible(s, previous) ==
    {a \in Actions :
        /\ a = LEFT  => find_blank(s) % WIDTH # 0
        /\ a = RIGHT => find_blank(s) % WIDTH # WIDTH - 1
        /\ a = UP    => find_blank(s) \div WIDTH # 0
        /\ a = DOWN  => find_blank(s) \div WIDTH # WIDTH - 1
        /\ previous # NONE => a # 3 - previous }

apply_action(a, s) ==
    LET blank == find_blank(s)
        tile  == blank + CASE a = UP -> -WIDTH [] a = DOWN -> WIDTH
                           [] a = LEFT -> -1 [] a = RIGHT -> 1
    IN  [s EXCEPT ![blank] = s[tile], ![tile] = s[blank]]

Node(s, previous, path_cost) ==
    [state |-> s, previous |-> previous, path_cost |-> path_cost]

Init ==
    /\ start \in Starts
    /\ B = h(start) /\ B1 = INT_MAX
    /\ stack = <<[node |-> Node(start, NONE, 0), i |-> UP]>>
    /\ r = <<>> /\ found = <<>>

-----------------------------------------------------------------------------
(* IDA_star: the call on top of the stack *)

Top  == stack[Len(stack)]
n    == Top.node
next == Node(apply_action(Top.i, n.state), Top.i, n.path_cost + 1)
evaluation == next.path_cost + (3 * h(next.state)) \div 2

InLoop == stack # <<>> /\ r = <<>> /\ Top.i \in Actions
IsPossible == Top.i \in possible(n.state, n.previous)
NextAction(s) == [s EXCEPT ![Len(s)].i = @ + 1]

Skip ==
    /\ InLoop /\ ~IsPossible
    /\ stack' = NextAction(stack)
    /\ UNCHANGED <<start, B, B1, r, found>>

TooLong_Wrong == evaluation >= B
TooLong == evaluation > B
Least_Wrong(a, b) == IF a >= b THEN a ELSE b
Least(a, b) == IF a >= b THEN b ELSE a
Cut ==
    /\ InLoop /\ IsPossible /\ TooLong
    /\ B1' = Least(evaluation, B1)
    /\ stack' = NextAction(stack)
    /\ UNCHANGED <<start, B, r, found>>

Descend ==
    /\ InLoop /\ IsPossible /\ ~TooLong /\ h(next.state) # 0
    /\ stack' = Append(stack, [node |-> next, i |-> UP])
    /\ UNCHANGED <<start, B, B1, r, found>>

Solve ==
    /\ InLoop /\ IsPossible /\ ~TooLong /\ h(next.state) = 0
    /\ r' = <<next, n>>
    /\ UNCHANGED <<start, B, B1, stack, found>>

Popped == SubSeq(stack, 1, Len(stack) - 1)

(* A call returns NULL to the call below, or to the control loop, which    *)
(* searches again with the next bound.                                     *)
ReturnNull ==
    /\ Len(stack) > 1 /\ r = <<>> /\ Top.i \notin Actions
    /\ stack' = NextAction(Popped)
    /\ UNCHANGED <<start, B, B1, r, found>>

SearchAgain ==
    /\ Len(stack) = 1 /\ r = <<>> /\ Top.i \notin Actions
    /\ B' = B1 /\ B1' = INT_MAX
    /\ stack' = <<[node |-> Node(start, NONE, 0), i |-> UP]>>
    /\ UNCHANGED <<start, r, found>>

(* A call returns a solution: the call below adds its own node to it.      *)
Below_Wrong == n
Below == stack[Len(stack) - 1].node
ReturnSolution ==
    /\ Len(stack) > 1 /\ r # <<>>
    /\ stack' = Popped
    /\ r' = Append(r, Below)
    /\ UNCHANGED <<start, B, B1, found>>

Finish ==
    /\ Len(stack) = 1 /\ r # <<>>
    /\ stack' = <<>> /\ r' = <<>> /\ found' = r
    /\ UNCHANGED <<start, B, B1>>

Next ==
    \/ Skip \/ Cut \/ Descend \/ Solve
    \/ ReturnNull \/ SearchAgain \/ ReturnSolution \/ Finish

Spec == Init /\ [][Next]_puzzleVars
FairSpec == Spec /\ WF_puzzleVars(Next)

-----------------------------------------------------------------------------
(* Properties *)

TypeOK ==
    /\ start \in Boards /\ B \in Nat /\ B1 \in Nat
    /\ stack \in Seq([node : [state : Boards, previous : Actions \cup {NONE}, path_cost : Nat],
                      i : UP .. DOWN + 1])

(* What print_solution and print_solution2 (main.c:259-275) show is a way  *)
(* to solve the board: from one node to the next the blank moves by the    *)
(* action printed, within the board; the first node is the board that was  *)
(* given; the cost printed is the number of moves.                         *)
Leads(from, to) ==
    /\ to.previous \in possible(from.state, from.previous)
    /\ to.state = apply_action(to.previous, from.state)
    /\ to.path_cost = from.path_cost + 1
FoundIsAPath ==
    found # <<>> =>
        /\ \A j \in 1 .. Len(found) - 1 : Leads(found[j + 1], found[j])
        /\ found[Len(found)] = Node(start, NONE, 0)
        /\ found[1].path_cost = Len(found) - 1

(* Each search has a larger bound than the one before, so that the control *)
(* loop (main.c:86-96) does not repeat itself.                             *)
BoundGrows == [][SearchAgain => B' > B]_puzzleVars

(* The reference, a breadth-first search: Within[k] has the boards from    *)
(* which fewer than k moves lead to the solved one.                        *)
Solved == [t \in Tiles |-> t]
Spread(boards) ==
    boards \cup UNION {{apply_action(a, s) : a \in possible(s, NONE)} : s \in boards}
Within[k \in 1 .. Depth + 1] == IF k = 1 THEN {Solved} ELSE Spread(Within[k - 1])
IsWithin(s, moves) == s \in Within[moves + 1]

(* The heuristic is weighted by 1.5 (main.c:117), so the solution need not *)
(* be the shortest; but it is never more than half as long again, unless   *)
(* the board was solved to begin with, which is not noticed.               *)
FoundIsShort ==
    found # <<>> /\ start # Solved =>
        /\ found[1].state = Solved
        /\ \A moves \in 0 .. Depth :
            IsWithin(start, moves) => 2 * found[1].path_cost <= 3 * moves

(* If the boards given can be solved, the control loop (main.c:86-96) ends *)
(* with a solution.                                                        *)
IsSolved == <>(found # <<>>)
=============================================================================
