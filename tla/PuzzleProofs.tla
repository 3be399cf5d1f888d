---------------------------- MODULE PuzzleProofs ----------------------------
(***************************************************************************)
(* What the solver shows is a way through the puzzle, and at most half as  *)
(* long again as the shortest, for every board, of any width, and however  *)
(* often the search has started again, which it does with a larger bound   *)
(* each time.                                                              *)
(***************************************************************************)
EXTENDS Puzzle, Counting

(* The active calls of IDA_star are the way from the start to the node     *)
(* that is being expanded: each call has passed a child of its own node.   *)
IsCall(call) == DOMAIN call = {"node", "i"}
Calls ==
    /\ \E S : stack \in Seq(S)
    /\ \A j \in 1 .. Len(stack) : IsCall(stack[j])
Way ==
    stack # <<>> =>
        /\ stack[1].node = Node(start, NONE, 0)
        /\ \A j \in 1 .. Len(stack) - 1 : Leads(stack[j].node, stack[j + 1].node)
        /\ \A j \in 1 .. Len(stack) : stack[j].node.path_cost = j - 1

(* The nodes of the solution so far lead from the node of the call that    *)
(* returns it to the solved board.                                         *)
WayBack ==
    /\ \E S : r \in Seq(S)
    /\ r # <<>> =>
        /\ stack # <<>>
        /\ \A j \in 1 .. Len(r) - 1 : Leads(r[j + 1], r[j])
        /\ r[Len(r)] = Top.node
        /\ r[1].path_cost = Len(r) - 1 + Len(stack) - 1
PathInv == Calls /\ Way /\ WayBack /\ FoundIsAPath

LEMMA StackFacts ==
    ASSUME Calls
    PROVE  /\ Len(stack) \in Nat /\ DOMAIN stack = 1 .. Len(stack)
           /\ stack # <<>> <=> Len(stack) > 0
<1>1. PICK S : stack \in Seq(S)
  BY DEF Calls
<1> QED
  BY <1>1

LEMMA NextActionFacts ==
    ASSUME NEW S, NEW s \in Seq(S), Len(s) > 0, \A j \in 1 .. Len(s) : IsCall(s[j])
    PROVE  /\ \E T : NextAction(s) \in Seq(T)
           /\ Len(NextAction(s)) = Len(s)
           /\ \A j \in 1 .. Len(s) : /\ IsCall(NextAction(s)[j])
                                     /\ NextAction(s)[j].node = s[j].node
<1> DEFINE call == [s[Len(s)] EXCEPT !.i = @ + 1]
<1>1. Len(s) \in Nat /\ Len(s) \in 1 .. Len(s) /\ DOMAIN s = 1 .. Len(s)
  OBVIOUS
<1>2. IsCall(s[Len(s)])
  BY <1>1
<1>3. IsCall(call) /\ call.node = s[Len(s)].node
  BY <1>2 DEF IsCall
<1>4. NextAction(s) = [s EXCEPT ![Len(s)] = call]
  BY DEF NextAction
<1> HIDE DEF call
<1>5. s \in Seq(S \cup {call})
  OBVIOUS
<1>6. NextAction(s) \in Seq(S \cup {call}) /\ Len(NextAction(s)) = Len(s)
  BY <1>1, <1>4, <1>5
<1>7. \A j \in 1 .. Len(s) : NextAction(s)[j] = IF j = Len(s) THEN call ELSE s[j]
  BY <1>1, <1>4
<1> QED
  BY <1>3, <1>6, <1>7

(* The loop of the call on top goes on, or that call returns NULL.         *)
LEMMA LoopKeepsPath ==
    ASSUME PathInv, r = <<>>, UNCHANGED <<start, r, found>>,
           NEW s, s \in {stack, Popped}, Len(s) > 0, Len(stack) > 0, stack' = NextAction(s)
    PROVE  PathInv'
<1>1. PICK S : stack \in Seq(S)
  BY DEF PathInv, Calls
<1>2. /\ s \in Seq(S) /\ Len(s) \in 1 .. Len(stack)
      /\ \A j \in 1 .. Len(s) : s[j] = stack[j]
  BY <1>1 DEF Popped
<1>3. \A j \in 1 .. Len(s) : IsCall(s[j])
  BY <1>1, <1>2 DEF PathInv, Calls
<1>4. /\ \E T : stack' \in Seq(T)
      /\ Len(stack') = Len(s)
      /\ \A j \in 1 .. Len(s) : IsCall(stack'[j]) /\ stack'[j].node = stack[j].node
  BY <1>2, <1>3, NextActionFacts
<1>5. Calls'
  BY <1>4 DEF Calls
<1>6. Way'
  <2>1. Len(stack) \in Nat /\ stack # <<>> /\ Len(stack') \in 1 .. Len(stack)
    BY <1>1, <1>2, <1>4
  <2>2. \A j \in 1 .. Len(stack') : stack'[j].node = stack[j].node
    BY <1>4
  <2>3. \A j \in 1 .. Len(stack') - 1 : /\ j \in 1 .. Len(stack) - 1
                                         /\ j \in 1 .. Len(stack') /\ j + 1 \in 1 .. Len(stack')
    BY <2>1
  <2>4. stack'[1].node = Node(start, NONE, 0)'
    <3>1. 1 \in 1 .. Len(stack')
      BY <2>1
    <3> QED
      BY <2>1, <2>2, <3>1, Zenon DEF PathInv, Way, Node
  <2>5. \A j \in 1 .. Len(stack') - 1 : Leads(stack'[j].node, stack'[j + 1].node)
    <3>1. \A j \in 1 .. Len(stack) - 1 : Leads(stack[j].node, stack[j + 1].node)
      BY <2>1 DEF PathInv, Way
    <3> QED
      BY <2>2, <2>3, <3>1, Zenon
  <2>6. \A j \in 1 .. Len(stack') : stack'[j].node.path_cost = j - 1
    <3>1. \A j \in 1 .. Len(stack) : stack[j].node.path_cost = j - 1
      BY <2>1 DEF PathInv, Way
    <3>2. 1 .. Len(stack') \subseteq 1 .. Len(stack)
      BY <2>1
    <3> QED
      BY <2>2, <3>1, <3>2, Zenon
  <2> QED
    BY <2>4, <2>5, <2>6 DEF Way
<1>7. WayBack' /\ FoundIsAPath'
  BY DEF PathInv, WayBack, FoundIsAPath
<1> QED
  BY <1>5, <1>6, <1>7 DEF PathInv

(* IDA_control_loop calls IDA_star with the start board.                   *)
Called == stack = <<[node |-> Node(start, NONE, 0), i |-> UP]>> /\ r = <<>>
LEMMA CallKeepsPath == Called /\ FoundIsAPath => PathInv
<1> SUFFICES ASSUME Called, FoundIsAPath PROVE PathInv
  OBVIOUS
<1> DEFINE call == [node |-> Node(start, NONE, 0), i |-> UP]
<1>1. IsCall(call) /\ call.node = Node(start, NONE, 0)
  BY DEF IsCall
<1>2. Node(start, NONE, 0).path_cost = 0
  BY DEF Node
<1>3. stack = <<call>> /\ r = <<>>
  BY DEF Called
<1> HIDE DEF call
<1>4. stack \in Seq({call}) /\ Len(stack) = 1 /\ stack[1] = call /\ r \in Seq({})
  BY <1>3
<1>5. Calls /\ Way
  BY <1>1, <1>2, <1>4 DEF Calls, Way
<1> QED
  BY <1>3, <1>4, <1>5 DEF PathInv, WayBack

LEMMA NextLeads ==
    ASSUME IsPossible
    PROVE  Leads(n, next)
  BY DEF IsPossible, Leads, next, Node

LEMMA DescendKeepsPath ==
    ASSUME PathInv, Descend
    PROVE  PathInv'
<1> DEFINE call == [node |-> next, i |-> UP]
<1>1. PICK S : stack \in Seq(S)
  BY DEF PathInv, Calls
<1>2. stack # <<>> /\ r = <<>> /\ stack' = Append(stack, call) /\ UNCHANGED <<start, r, found>>
  BY DEF Descend, InLoop
<1>3. Leads(n, next)
  BY NextLeads DEF Descend
<1>4. IsCall(call) /\ call.node = next
  BY DEF IsCall
<1> HIDE DEF call
<1>5. stack \in Seq(S \cup {call})
  BY <1>1
<1>6. /\ stack' \in Seq(S \cup {call})
      /\ Len(stack') = Len(stack) + 1 /\ Len(stack) \in Nat \ {0}
      /\ \A j \in 1 .. Len(stack) : stack'[j] = stack[j]
      /\ stack'[Len(stack) + 1] = call
  BY <1>2, <1>5
<1>7. Way'
  <2>1. n = stack[Len(stack)].node
    BY DEF n, Top
  <2>2. \A j \in 1 .. Len(stack') - 1 : Leads(stack'[j].node, stack'[j + 1].node)
    BY <1>2, <1>3, <1>4, <1>6, <2>1 DEF PathInv, Way
  <2>3. next.path_cost = Len(stack)
    BY <1>2, <1>3, <1>6, <2>1 DEF PathInv, Way, Leads
  <2> QED
    BY <1>2, <1>4, <1>6, <2>2, <2>3 DEF PathInv, Way
<1>8. Calls'
  BY <1>4, <1>6 DEF PathInv, Calls
<1>9. WayBack' /\ FoundIsAPath'
  BY <1>2 DEF PathInv, WayBack, FoundIsAPath
<1> QED
  BY <1>7, <1>8, <1>9 DEF PathInv

LEMMA SolveKeepsPath ==
    ASSUME PathInv, Solve
    PROVE  PathInv'
<1>1. stack # <<>> /\ r' = <<next, n>> /\ UNCHANGED <<start, stack, found>>
  BY DEF Solve, InLoop
<1>2. Leads(n, next)
  BY NextLeads DEF Solve
<1>3. Len(stack) \in Nat \ {0} /\ n = Top.node /\ n.path_cost = Len(stack) - 1
  BY <1>1, StackFacts DEF PathInv, Way, n, Top
<1>4. r' \in Seq({next, n}) /\ Len(r') = 2 /\ r'[1] = next /\ r'[2] = n
  BY <1>1
<1>5. Top' = Top
  BY <1>1 DEF Top
<1>6. next.path_cost = Len(stack)
  BY <1>2, <1>3 DEF Leads
<1>7. WayBack'
  <2>1. \A j \in 1 .. Len(r') - 1 : j = 1
    BY <1>4
  <2>2. \A j \in 1 .. Len(r') - 1 : Leads(r'[j + 1], r'[j])
    BY <1>2, <1>4, <2>1
  <2>3. r'[1].path_cost = Len(r') - 1 + Len(stack') - 1
    BY <1>1, <1>3, <1>4, <1>6
  <2>4. r'[Len(r')] = Top.node' /\ stack' # <<>>
    BY <1>1, <1>3, <1>4, <1>5
  <2>5. \E S : r' \in Seq(S)
    BY <1>4
  <2> QED
    BY <2>2, <2>3, <2>4, <2>5 DEF WayBack
<1> QED
  BY <1>1, <1>7 DEF PathInv, Calls, Way, FoundIsAPath

LEMMA ReturnKeepsPath ==
    ASSUME PathInv, ReturnSolution
    PROVE  PathInv'
<1>1. PICK S : stack \in Seq(S)
  BY DEF PathInv, Calls
<1>2. PICK R : r \in Seq(R)
  BY DEF PathInv, WayBack
<1>3. /\ Len(stack) > 1 /\ r # <<>> /\ UNCHANGED <<start, found>>
      /\ stack' = Popped /\ r' = Append(r, Below)
  BY DEF ReturnSolution
<1>4. /\ stack' \in Seq(S) /\ Len(stack') = Len(stack) - 1
      /\ Len(stack) \in Nat /\ \A j \in 1 .. Len(stack') : stack'[j] = stack[j]
  BY <1>1, <1>3 DEF Popped
<1>5. r \in Seq(R \cup {Below})
  BY <1>2
<1>6. /\ r' \in Seq(R \cup {Below}) /\ Len(r') = Len(r) + 1 /\ Len(r) \in Nat \ {0}
      /\ \A j \in 1 .. Len(r) : r'[j] = r[j]
      /\ r'[Len(r) + 1] = Below
  BY <1>3, <1>5
<1>7. Below = Top.node' /\ Leads(Below, r[Len(r)])
  <2>1. Len(stack) - 1 \in 1 .. Len(stack) - 1 /\ stack # <<>>
    BY <1>1, <1>3
  <2>2. Leads(stack[Len(stack) - 1].node, stack[Len(stack) - 1 + 1].node)
    BY <2>1 DEF PathInv, Way
  <2>3. Top.node' = Below
    BY <1>4, <2>1 DEF Below, Top
  <2>4. r[Len(r)] = stack[Len(stack)].node
    BY <1>3 DEF PathInv, WayBack, Top
  <2> QED
    BY <1>4, <2>2, <2>3, <2>4 DEF Below
<1>8. Way'
  <2>1. stack # <<>> /\ \A j \in 1 .. Len(stack') : j \in 1 .. Len(stack)
    BY <1>3, <1>4
  <2>2. \A j \in 1 .. Len(stack') - 1 : j \in 1 .. Len(stack) - 1 /\ j + 1 \in 1 .. Len(stack')
                                        /\ j \in 1 .. Len(stack')
    BY <1>3, <1>4
  <2>3. 1 \in 1 .. Len(stack')
    BY <1>3, <1>4
  <2> QED
    BY <1>3, <1>4, <2>1, <2>2, <2>3 DEF PathInv, Way
<1>9. WayBack'
  <2>1. \A j \in 1 .. Len(r') - 1 : Leads(r'[j + 1], r'[j])
    BY <1>3, <1>6, <1>7 DEF PathInv, WayBack
  <2>2. r'[1].path_cost = Len(r') - 1 + Len(stack') - 1
    BY <1>3, <1>4, <1>6 DEF PathInv, WayBack
  <2>3. stack' # <<>>
    BY <1>3, <1>4
  <2> QED
    BY <1>6, <1>7, <2>1, <2>2, <2>3 DEF WayBack
<1>10. Calls' /\ FoundIsAPath'
  BY <1>3, <1>4 DEF PathInv, Calls, FoundIsAPath
<1> QED
  BY <1>8, <1>9, <1>10 DEF PathInv

LEMMA FinishKeepsPath ==
    ASSUME PathInv, Finish
    PROVE  PathInv'
<1>1. /\ Len(stack) = 1 /\ r # <<>> /\ stack' = <<>> /\ r' = <<>> /\ found' = r
      /\ start' = start
  BY DEF Finish
<1>2. stack' \in Seq({}) /\ r' \in Seq({}) /\ Len(stack') = 0
  BY <1>1
<1>3. FoundIsAPath'
  <2>1. stack # <<>>
    BY <1>1, StackFacts DEF PathInv
  <2>2. r[Len(r)] = Node(start, NONE, 0)
    BY <1>1, <2>1 DEF PathInv, Way, WayBack, Top
  <2>3. r[1].path_cost = Len(r) - 1
    <3>1. PICK R : r \in Seq(R)
      BY DEF PathInv, WayBack
    <3> QED
      BY <1>1, <3>1 DEF PathInv, WayBack
  <2>4. \A j \in 1 .. Len(r) - 1 : Leads(r[j + 1], r[j])
    BY <1>1 DEF PathInv, WayBack
  <2> QED
    BY <1>1, <2>2, <2>3, <2>4 DEF FoundIsAPath
<1> QED
  BY <1>1, <1>2, <1>3 DEF PathInv, Calls, Way, WayBack

LEMMA PathIsKept == PathInv /\ [Next]_puzzleVars => PathInv'
<1> SUFFICES ASSUME PathInv, [Next]_puzzleVars PROVE PathInv'
  OBVIOUS
<1>1. CASE Skip \/ Cut
  <2>1. /\ stack # <<>> /\ r = <<>> /\ stack' = NextAction(stack)
        /\ UNCHANGED <<start, r, found>>
    BY <1>1 DEF Skip, Cut, InLoop
  <2> QED
    BY <2>1, StackFacts, LoopKeepsPath DEF PathInv
<1>2. CASE ReturnNull
  <2>1. /\ Len(stack) > 1 /\ r = <<>> /\ stack' = NextAction(Popped)
        /\ UNCHANGED <<start, r, found>>
    BY <1>2 DEF ReturnNull
  <2>2. Len(Popped) > 0
    BY <2>1, StackFacts DEF PathInv, Popped
  <2> QED
    BY <2>1, <2>2, StackFacts, LoopKeepsPath DEF PathInv
<1>3. CASE SearchAgain
  <2>1. Called' /\ FoundIsAPath'
    BY <1>3 DEF SearchAgain, PathInv, FoundIsAPath, Called
  <2> QED
    BY <2>1, CallKeepsPath, PTL
<1>4. CASE UNCHANGED puzzleVars
  BY <1>4 DEF puzzleVars, PathInv, Calls, Way, WayBack, FoundIsAPath, Top
<1> QED
  BY <1>1, <1>2, <1>3, <1>4, DescendKeepsPath, SolveKeepsPath, ReturnKeepsPath,
     FinishKeepsPath DEF Next

(* The solution is a way from the board that was given: from each node to  *)
(* the next the blank moves within the board by the action printed, and    *)
(* the cost printed is the number of moves (main.c:120-143).               *)
THEOREM SolutionIsAPath == Spec => []FoundIsAPath
<1>1. Init => PathInv
  BY CallKeepsPath DEF Init, FoundIsAPath, Called
<1>2. PathInv => FoundIsAPath
  BY DEF PathInv
<1> QED
  BY <1>1, <1>2, PathIsKept, PTL DEF Spec

-----------------------------------------------------------------------------
(* The bound *)

(* The next bound is the smallest evaluation that was over this one.       *)
Beyond == B < INT_MAX => B1 > B

LEMMA OverIsLess == \A b : b < INT_MAX => INT_MAX > b
  OBVIOUS

LEMMA StepBeyond == Beyond /\ [Next]_puzzleVars => Beyond'
<1> SUFFICES ASSUME Beyond, [Next]_puzzleVars, B' < INT_MAX PROVE B1' > B'
  BY DEF Beyond
<1>1. CASE Cut
  <2>1. B' = B /\ evaluation > B /\ B1' \in {evaluation, B1}
    BY <1>1 DEF Cut, TooLong, Least
  <2> QED
    BY <2>1 DEF Beyond
<1>2. CASE SearchAgain
  BY <1>2, OverIsLess DEF SearchAgain
<1>3. CASE UNCHANGED <<B, B1>>
  BY <1>3 DEF Beyond
<1> QED
  BY <1>1, <1>2, <1>3
  DEF Next, Skip, Descend, Solve, ReturnNull, ReturnSolution, Finish, puzzleVars

(* No two searches have the same bound, and none a smaller one than the    *)
(* search before it (main.c:86-96), as long as the bound is less than what *)
(* B1 begins with; at INT_MAX the int would overflow.                      *)
THEOREM SearchesGoFurther == Spec /\ [](B < INT_MAX) => BoundGrows
<1>1. Init => Beyond
  BY OverIsLess DEF Init, Beyond
<1>2. Beyond /\ B < INT_MAX /\ [Next]_puzzleVars => [SearchAgain => B' > B]_puzzleVars
  BY DEF Beyond, SearchAgain
<1> QED
  BY <1>1, <1>2, StepBeyond, PTL DEF Spec, BoundGrows

-----------------------------------------------------------------------------
(* Places on the board *)

Col(t) == t % WIDTH
Row(t) == t \div WIDTH
Lines  == 0 .. WIDTH - 1

LEMMA PlaceFacts ==
    \A t \in Tiles : Col(t) \in Lines /\ Row(t) \in Lines /\ t = WIDTH * Row(t) + Col(t)
<1> SUFFICES ASSUME NEW t \in Tiles
             PROVE  Col(t) \in Lines /\ Row(t) \in Lines /\ t = WIDTH * Row(t) + Col(t)
  OBVIOUS
<1>1. WIDTH \in Nat /\ WIDTH > 1 /\ t \in Nat /\ t < WIDTH * WIDTH
  BY PuzzleAssumption DEF Tiles, NUM_TILES
<1> DEFINE q == Row(t)
           c == Col(t)
<1>2. q \in Int /\ c \in Lines /\ t = WIDTH * q + c
  BY <1>1 DEF Col, Row, Lines
<1> HIDE DEF q, c
<1>3. q >= 0
  <2> SUFFICES ASSUME q <= -1 PROVE FALSE
    BY <1>2
  <2>1. WIDTH * q <= WIDTH * (-1)
    BY <1>1, <1>2
  <2> QED
    BY <1>1, <1>2, <2>1 DEF Lines
<1>4. q < WIDTH
  <2> SUFFICES ASSUME q >= WIDTH PROVE FALSE
    BY <1>1, <1>2
  <2>1. WIDTH * q >= WIDTH * WIDTH
    BY <1>1, <1>2
  <2> QED
    BY <1>1, <1>2, <2>1 DEF Lines
<1> QED
  BY <1>1, <1>2, <1>3, <1>4 DEF q, c, Lines

LEMMA AtPlace ==
    \A q, c \in Lines : LET t == WIDTH * q + c IN t \in Tiles /\ Row(t) = q /\ Col(t) = c
<1> SUFFICES ASSUME NEW q \in Lines, NEW c \in Lines
             PROVE  LET t == WIDTH * q + c IN t \in Tiles /\ Row(t) = q /\ Col(t) = c
  OBVIOUS
<1> DEFINE t == WIDTH * q + c
<1>1. /\ WIDTH \in Nat /\ WIDTH > 1 /\ q \in Nat /\ c \in Nat
      /\ q <= WIDTH - 1 /\ c <= WIDTH - 1
  BY PuzzleAssumption DEF Lines
<1>2. t \in Tiles
  <2>1. WIDTH * q <= WIDTH * (WIDTH - 1) /\ WIDTH * q \in Nat
    BY <1>1
  <2>2. WIDTH * (WIDTH - 1) = WIDTH * WIDTH - WIDTH /\ WIDTH * WIDTH \in Nat
    BY <1>1
  <2> QED
    BY <1>1, <2>1, <2>2 DEF Tiles, NUM_TILES
<1>3. Row(t) \in Lines /\ Col(t) \in Lines /\ WIDTH * Row(t) + Col(t) = WIDTH * q + c
  BY <1>2, PlaceFacts
<1> HIDE DEF t
<1> DEFINE p == Row(t)
           b == Col(t)
<1> HIDE DEF p, b
<1>4. /\ p \in Int /\ b \in Int /\ 0 <= b /\ b <= WIDTH - 1
      /\ WIDTH * p + b = WIDTH * q + c
  BY <1>1, <1>3 DEF p, b, Lines
<1>5. WIDTH * (p - q) = c - b
  BY <1>1, <1>4
<1>6. ~(p - q >= 1)
  <2> SUFFICES ASSUME p - q >= 1 PROVE FALSE
    OBVIOUS
  <2>1. WIDTH * (p - q) >= WIDTH * 1
    BY <1>1, <1>4
  <2> QED
    BY <1>1, <1>4, <1>5, <2>1
<1>7. ~(p - q <= -1)
  <2> SUFFICES ASSUME p - q <= -1 PROVE FALSE
    OBVIOUS
  <2>1. WIDTH * (p - q) <= WIDTH * (-1)
    BY <1>1, <1>4
  <2> QED
    BY <1>1, <1>4, <1>5, <2>1
<1>8. p = q
  BY <1>1, <1>4, <1>6, <1>7
<1>9. c = b
  BY <1>1, <1>4, <1>8
<1> QED
  BY <1>2, <1>8, <1>9 DEF p, b, t
(* Where the blank goes, and when it may.                                  *)
Target(a, t) ==
    t + CASE a = UP -> -WIDTH [] a = DOWN -> WIDTH [] a = LEFT -> -1 [] a = RIGHT -> 1
MayMove(a, t) ==
    /\ a = LEFT => Col(t) # 0
    /\ a = RIGHT => Col(t) # WIDTH - 1
    /\ a = UP => Row(t) # 0
    /\ a = DOWN => Row(t) # WIDTH - 1

LEMMA Codes == /\ UP = 0 /\ LEFT = 1 /\ RIGHT = 2 /\ DOWN = 3
               /\ Actions = {UP, LEFT, RIGHT, DOWN} /\ NONE \notin Actions
  BY DEF UP, LEFT, RIGHT, DOWN, Actions, NONE

LEMMA AbsSteps ==
    \A x \in Int : /\ Abs(x) \in Nat
                   /\ Abs(x + 1) - Abs(x) \in -1 .. 1 /\ Abs(x - 1) - Abs(x) \in -1 .. 1
  BY DEF Abs

LEMMA Neighbour ==
    ASSUME NEW t \in Tiles, NEW a \in Actions, MayMove(a, t)
    PROVE  /\ Target(a, t) \in Tiles /\ Target(a, t) # t
           /\ 3 - a \in Actions /\ 3 - (3 - a) = a
           /\ MayMove(3 - a, Target(a, t)) /\ Target(3 - a, Target(a, t)) = t
           /\ \A u \in Tiles : dist(Target(a, t), u) \in Nat /\ dist(t, u) \in Nat
                               /\ dist(Target(a, t), u) - dist(t, u) \in -1 .. 1
<1> DEFINE q == Row(t)
           c == Col(t)
           p == IF a = UP THEN q - 1 ELSE IF a = DOWN THEN q + 1 ELSE q
           b == IF a = LEFT THEN c - 1 ELSE IF a = RIGHT THEN c + 1 ELSE c
           x == Target(a, t)
<1>1. WIDTH \in Nat /\ WIDTH > 1
  BY PuzzleAssumption
<1>2. q \in Lines /\ c \in Lines /\ t = WIDTH * q + c
  BY PlaceFacts
<1>3. p \in Lines /\ b \in Lines /\ (p # q \/ b # c)
  <2>1. /\ a = LEFT => c # 0
        /\ a = RIGHT => c # WIDTH - 1
        /\ a = UP => q # 0
        /\ a = DOWN => q # WIDTH - 1
    BY DEF MayMove
  <2> HIDE DEF q, c
  <2> QED
    BY <1>1, <1>2, <2>1, Codes DEF Lines
<1>4. x = WIDTH * p + b
  <2>1. WIDTH * (q + 1) = WIDTH * q + WIDTH /\ WIDTH * (q - 1) = WIDTH * q - WIDTH
    BY <1>1, <1>2 DEF Lines
  <2>2. WIDTH * q \in Int /\ q \in Int /\ c \in Int
    BY <1>1, <1>2 DEF Lines
  <2> HIDE DEF q, c
  <2> QED
    BY <1>1, <1>2, <2>1, <2>2, Codes DEF Target
<1>5. x \in Tiles /\ Row(x) = p /\ Col(x) = b
  BY <1>3, <1>4, AtPlace
<1>6. x # t
  BY <1>3, <1>5
<1>7. 3 - a \in Actions /\ 3 - (3 - a) = a
  BY Codes
<1>8. MayMove(3 - a, x)
  <2> HIDE DEF q, c, x
  <2> QED
    BY <1>1, <1>2, <1>3, <1>5, Codes DEF MayMove, Lines
<1>9. Target(3 - a, x) = t
  <2>1. t \in Int
    BY PuzzleAssumption DEF Tiles, NUM_TILES
  <2>2. CASE a = UP
    BY <1>1, <2>1, <2>2, Codes DEF Target
  <2>3. CASE a = DOWN
    BY <1>1, <2>1, <2>3, Codes DEF Target
  <2>4. CASE a = LEFT
    BY <1>1, <2>1, <2>4, Codes DEF Target
  <2>5. CASE a = RIGHT
    BY <1>1, <2>1, <2>5, Codes DEF Target
  <2> QED
    BY <2>2, <2>3, <2>4, <2>5, Codes
<1>10. ASSUME NEW u \in Tiles
       PROVE  dist(x, u) \in Nat /\ dist(t, u) \in Nat /\ dist(x, u) - dist(t, u) \in -1 .. 1
  <2>1. Col(u) \in Int /\ Row(u) \in Int
    BY PlaceFacts DEF Lines
  <2>2. dist(t, u) = Abs(c - Col(u)) + Abs(q - Row(u))
    BY DEF dist, Col, Row
  <2>3. dist(x, u) = Abs(b - Col(u)) + Abs(p - Row(u))
    BY <1>5 DEF dist, Col, Row
  <2>4. c \in Int /\ q \in Int
    BY <1>2 DEF Lines
  <2> DEFINE m == c - Col(u)
             k == q - Row(u)
  <2>5. m \in Int /\ k \in Int /\ dist(t, u) = Abs(m) + Abs(k)
    BY <2>1, <2>2, <2>4
  <2>6. /\ a = UP => dist(x, u) = Abs(m) + Abs(k - 1)
        /\ a = DOWN => dist(x, u) = Abs(m) + Abs(k + 1)
        /\ a = LEFT => dist(x, u) = Abs(m - 1) + Abs(k)
        /\ a = RIGHT => dist(x, u) = Abs(m + 1) + Abs(k)
    <3>1. /\ a = UP => b - Col(u) = m /\ p - Row(u) = k - 1
          /\ a = DOWN => b - Col(u) = m /\ p - Row(u) = k + 1
          /\ a = LEFT => b - Col(u) = m - 1 /\ p - Row(u) = k
          /\ a = RIGHT => b - Col(u) = m + 1 /\ p - Row(u) = k
      <4> HIDE DEF c, q
      <4> QED
        BY <2>1, <2>4, Codes
    <3> HIDE DEF x, p, b, m, k
    <3> QED
      BY <2>3, <3>1, Zenon
  <2> HIDE DEF m, k, x
  <2>7. a = UP \/ a = DOWN \/ a = LEFT \/ a = RIGHT
    BY Codes
  <2> QED
    BY <2>5, <2>6, <2>7, AbsSteps
<1> QED
  BY <1>5, <1>6, <1>7, <1>8, <1>9, <1>10

-----------------------------------------------------------------------------
(* Boards *)

LEMMA BlankFacts ==
    ASSUME NEW s \in Boards, IsArranged(s)
    PROVE  /\ find_blank(s) \in Tiles /\ s[find_blank(s)] = 0
           /\ \A t \in Tiles : s[t] = 0 => t = find_blank(s)
<1>1. 0 \in Tiles
  <2>1. WIDTH * WIDTH >= 1 * WIDTH
    BY PuzzleAssumption
  <2> QED
    BY <2>1, PuzzleAssumption DEF Tiles, NUM_TILES
<1>2. PICK t \in Tiles : \A v \in Tiles : s[v] = 0 <=> v = t
  BY <1>1 DEF IsArranged
<1>3. find_blank(s) \in Tiles /\ s[find_blank(s)] = 0
  BY <1>2 DEF find_blank
<1> QED
  BY <1>2, <1>3

Allowed(a, s) == a \in possible(s, NONE)

LEMMA AllowedFacts ==
    ASSUME NEW s, NEW a
    PROVE  /\ Allowed(a, s) <=> a \in Actions /\ MayMove(a, find_blank(s))
           /\ \A b : a \in possible(s, b) <=> Allowed(a, s) /\ (b # NONE => a # 3 - b)
  BY DEF Allowed, possible, MayMove, Row, Col

(* A move changes places between the blank and a tile next to it, and the  *)
(* opposite move undoes it.                                                *)
LEMMA MoveFacts ==
    ASSUME NEW s \in Boards, IsArranged(s), NEW a, Allowed(a, s)
    PROVE  LET blank == find_blank(s)
               tile  == Target(a, blank)
               moved == apply_action(a, s)
           IN  /\ blank \in Tiles /\ tile \in Tiles /\ tile # blank /\ s[blank] = 0 /\ s[tile] # 0
               /\ moved \in Boards /\ IsArranged(moved)
               /\ moved = [s EXCEPT ![blank] = s[tile], ![tile] = 0]
               /\ Allowed(3 - a, moved) /\ apply_action(3 - a, moved) = s
               /\ \A u \in Tiles : dist(tile, u) \in Nat /\ dist(blank, u) \in Nat
                                   /\ dist(blank, u) - dist(tile, u) \in -1 .. 1
<1> DEFINE blank == find_blank(s)
           tile  == Target(a, blank)
           moved == apply_action(a, s)
<1>1. a \in Actions /\ MayMove(a, blank)
  BY AllowedFacts
<1>2. blank \in Tiles /\ s[blank] = 0 /\ \A t \in Tiles : s[t] = 0 => t = blank
  BY BlankFacts
<1>3. /\ tile \in Tiles /\ tile # blank
      /\ 3 - a \in Actions /\ 3 - (3 - a) = a
      /\ MayMove(3 - a, tile) /\ Target(3 - a, tile) = blank
      /\ \A u \in Tiles : dist(tile, u) \in Nat /\ dist(blank, u) \in Nat
                          /\ dist(tile, u) - dist(blank, u) \in -1 .. 1
  BY <1>1, <1>2, Neighbour
<1>4. s[tile] # 0
  BY <1>2, <1>3
<1>5. moved = [s EXCEPT ![blank] = s[tile], ![tile] = 0]
  BY <1>2 DEF apply_action, Target
<1> HIDE DEF blank, tile, moved
<1>6. moved \in Boards
  BY <1>2, <1>3, <1>5 DEF Boards
<1>7. \A v \in Tiles : moved[v] = s[IF v = tile THEN blank ELSE IF v = blank THEN tile ELSE v]
  BY <1>2, <1>3, <1>5 DEF Boards
<1>8. IsArranged(moved)
  <2> SUFFICES ASSUME NEW u \in Tiles
               PROVE  \E t \in Tiles : \A v \in Tiles : moved[v] = u <=> v = t
    BY DEF IsArranged
  <2>1. PICK t \in Tiles : \A v \in Tiles : s[v] = u <=> v = t
    BY DEF IsArranged
  <2> DEFINE t1 == IF t = tile THEN blank ELSE IF t = blank THEN tile ELSE t
  <2>2. t1 \in Tiles /\ \A v \in Tiles : moved[v] = u <=> v = t1
    BY <1>2, <1>3, <1>7, <2>1
  <2> QED
    BY <2>2
<1>9. find_blank(moved) = tile
  <2>1. moved[tile] = 0
    BY <1>2, <1>3, <1>7
  <2> QED
    BY <1>3, <1>6, <1>8, <2>1, BlankFacts
<1>10. Allowed(3 - a, moved)
  BY <1>3, <1>9, AllowedFacts
<1>11. apply_action(3 - a, moved) = s
  <2>1. apply_action(3 - a, moved) = [moved EXCEPT ![tile] = moved[blank], ![blank] = moved[tile]]
    BY <1>3, <1>9 DEF apply_action, Target
  <2>2. moved[blank] = s[tile] /\ moved[tile] = 0
    BY <1>2, <1>3, <1>7
  <2> DEFINE undone == [moved EXCEPT ![tile] = moved[blank], ![blank] = moved[tile]]
  <2>3. undone \in Boards
    BY <1>2, <1>3, <1>6 DEF Boards
  <2>4. \A v \in Tiles : undone[v] = s[v]
    BY <1>2, <1>3, <1>6, <1>7, <2>2 DEF Boards
  <2> HIDE DEF undone
  <2>5. undone = s
    BY <2>3, <2>4 DEF Boards
  <2> QED
    BY <2>1, <2>5 DEF undone
<1>12. \A u \in Tiles : dist(blank, u) - dist(tile, u) \in -1 .. 1
  BY <1>3
<1> QED
  BY <1>2, <1>3, <1>4, <1>5, <1>6, <1>8, <1>10, <1>11, <1>12 DEF blank, tile, moved

-----------------------------------------------------------------------------
(* The heuristic *)

Misplaced(s) == {t \in Tiles : s[t] # 0}
Steps(s)     == [t \in Tiles |-> dist(t, s[t])]
AddsSteps(s, g) ==
    g = [S \in SUBSET Misplaced(s) |->
            IF S = {} THEN 0 ELSE dist(Pick(S), s[Pick(S)]) + g[S \ {Pick(S)}]]

LEMMA TilesAreFinite == IsFiniteSet(Tiles) /\ \A S \in SUBSET Tiles : IsFiniteSet(S)
<1>1. IsFiniteSet(Tiles)
  <2>1. NUM_TILES - 1 \in Int
    BY PuzzleAssumption DEF NUM_TILES
  <2> QED
    BY <2>1, FS_Interval DEF Tiles
<1> QED
  BY <1>1, FS_Subset

LEMMA HeuristicIsSum ==
    ASSUME NEW s \in Boards
    PROVE  h(s) = Sum(Steps(s), Misplaced(s))
<1> DEFINE S == Misplaced(s)
           f == Steps(s)
<1>1. h(s) = (CHOOSE g : AddsSteps(s, g))[S]
  BY DEF h, MapThenSumSet, MapThenFoldSet, AddsSteps, Pick, Misplaced
<1>2. IsFiniteSet(S)
  BY TilesAreFinite DEF Misplaced
<1>3. ASSUME NEW g PROVE AddsSteps(s, g) <=> Adds(f, S, g)
  <2>1. \A T \in SUBSET S : T # {} => f[Pick(T)] = dist(Pick(T), s[Pick(T)])
    BY PickIsIn DEF Misplaced, Steps
  <2> QED
    BY <2>1 DEF AddsSteps, Adds
<1> HIDE DEF f, S
<1>4. PICK g : Adds(f, S, g) /\ h(s) = g[S]
  BY <1>1, <1>2, <1>3, AddsExists
<1>5. PICK g1 : Adds(f, S, g1) /\ Sum(f, S) = g1[S]
  BY <1>2, AddsExists, SumIsChosen
<1>6. h(s) = Sum(f, S)
  BY <1>2, <1>4, <1>5, AddsUnique
<1> QED
  BY <1>6 DEF f, S

LEMMA DistFacts ==
    \A t, u \in Tiles : dist(t, u) \in Nat /\ (dist(t, u) = 0 => t = u) /\ dist(t, t) = 0
<1> SUFFICES ASSUME NEW t \in Tiles, NEW u \in Tiles
             PROVE  dist(t, u) \in Nat /\ (dist(t, u) = 0 => t = u) /\ dist(t, t) = 0
  OBVIOUS
<1>1. /\ Col(t) \in Int /\ Row(t) \in Int /\ Col(u) \in Int /\ Row(u) \in Int
      /\ t = WIDTH * Row(t) + Col(t) /\ u = WIDTH * Row(u) + Col(u)
  BY PlaceFacts DEF Lines
<1>2. /\ dist(t, u) = Abs(Col(t) - Col(u)) + Abs(Row(t) - Row(u))
      /\ dist(t, t) = Abs(Col(t) - Col(t)) + Abs(Row(t) - Row(t))
  BY DEF dist, Col, Row
<1>3. \A m, k \in Int : /\ Abs(m - k) \in Nat /\ Abs(m - m) = 0
                        /\ Abs(m - k) = 0 => m = k
  BY DEF Abs
<1>4. \A m, k \in Nat : m + k \in Nat /\ (m + k = 0 => m = 0 /\ k = 0)
  OBVIOUS
<1>5. dist(t, u) \in Nat /\ dist(t, t) = 0
  <2>1. Abs(Col(t) - Col(u)) \in Nat /\ Abs(Row(t) - Row(u)) \in Nat
    BY <1>1, <1>3
  <2>2. Abs(Col(t) - Col(t)) = 0 /\ Abs(Row(t) - Row(t)) = 0
    BY <1>1, <1>3
  <2> QED
    BY <1>2, <2>1, <2>2
<1>6. ASSUME dist(t, u) = 0 PROVE t = u
  <2>1. Col(t) = Col(u) /\ Row(t) = Row(u)
    <3> DEFINE m == Abs(Col(t) - Col(u))
               k == Abs(Row(t) - Row(u))
    <3>1. m \in Nat /\ k \in Nat
      BY <1>1, <1>3
    <3>2. m = 0 /\ k = 0
      <4> HIDE DEF m, k
      <4> QED
        BY <1>2, <1>4, <1>6, <3>1 DEF m, k
    <3> QED
      BY <1>1, <1>3, <3>2
  <2> QED
    BY <1>1, <2>1
<1> QED
  BY <1>5, <1>6

(* A sum of natural numbers is not less than any of them.                  *)
LEMMA StepsFacts ==
    ASSUME NEW s \in Boards
    PROVE  /\ h(s) \in Nat
           /\ \A t \in Misplaced(s) : Steps(s)[t] \in Nat /\ Steps(s)[t] <= h(s)
<1> DEFINE S == Misplaced(s)
           f == Steps(s)
<1>1. IsFiniteSet(S) /\ \A t \in S : f[t] \in Nat
  BY TilesAreFinite, DistFacts DEF Misplaced, Steps, Boards
<1>2. h(s) = Sum(f, S)
  BY HeuristicIsSum
<1> HIDE DEF f, S
<1> QED
  BY <1>1, <1>2, SumOfNaturals DEF f, S

(* A move changes the heuristic by at most one.                            *)
LEMMA HeuristicStep ==
    ASSUME NEW s \in Boards, IsArranged(s), NEW a, Allowed(a, s)
    PROVE  h(apply_action(a, s)) - h(s) \in -1 .. 1
<1> DEFINE blank == find_blank(s)
           tile  == Target(a, blank)
           moved == apply_action(a, s)
           S  == Misplaced(s)
           S1 == Misplaced(moved)
           f  == Steps(s)
           f1 == Steps(moved)
           u  == s[tile]
<1>1. /\ blank \in Tiles /\ tile \in Tiles /\ tile # blank /\ s[blank] = 0 /\ s[tile] # 0
      /\ moved \in Boards
      /\ moved = [s EXCEPT ![blank] = s[tile], ![tile] = 0]
      /\ \A v \in Tiles : dist(tile, v) \in Nat /\ dist(blank, v) \in Nat
                          /\ dist(blank, v) - dist(tile, v) \in -1 .. 1
  BY MoveFacts
<1> HIDE DEF blank, tile, moved
<1>2. u \in Tiles
  BY <1>1 DEF Boards
<1>3. /\ moved[blank] = u /\ moved[tile] = 0
      /\ \A t \in Tiles : t # blank /\ t # tile => moved[t] = s[t]
  BY <1>1 DEF Boards
<1>4. tile \in S /\ blank \in S1 /\ S1 \ {blank} = S \ {tile}
  BY <1>1, <1>3 DEF Misplaced
<1>5. f[tile] = dist(tile, u) /\ f1[blank] = dist(blank, u)
  BY <1>1, <1>3 DEF Steps
<1>6. \A t \in S \ {tile} : f1[t] = f[t]
  <2> SUFFICES ASSUME NEW t \in S, t # tile PROVE f1[t] = f[t]
    OBVIOUS
  <2>1. t \in Tiles /\ t # blank
    BY <1>1 DEF Misplaced
  <2>2. f[t] = dist(t, s[t]) /\ f1[t] = dist(t, moved[t])
    BY <2>1 DEF Steps
  <2> QED
    BY <1>3, <2>1, <2>2
<1>7. /\ IsFiniteSet(S) /\ IsFiniteSet(S1) /\ IsFiniteSet(S \ {tile})
      /\ \A t \in S : f[t] \in Int
      /\ \A t \in S1 : f1[t] \in Int
  BY <1>1, TilesAreFinite, DistFacts DEF Misplaced, Steps, Boards
<1>8. h(s) = Sum(f, S) /\ h(moved) = Sum(f1, S1)
  BY <1>1, HeuristicIsSum
<1> HIDE DEF f, f1, S, S1, u
<1>9. Sum(f, S) = f[tile] + Sum(f, S \ {tile}) /\ Sum(f, S \ {tile}) \in Int
  BY <1>4, <1>7, SumRemove
<1>10. Sum(f1, S1) = f1[blank] + Sum(f1, S1 \ {blank})
  BY <1>4, <1>7, SumRemove
<1>11. Sum(f1, S1 \ {blank}) = Sum(f, S \ {tile})
  BY <1>4, <1>6, <1>7, SumEqual
<1>12. dist(tile, u) \in Int /\ dist(blank, u) \in Int /\ dist(blank, u) - dist(tile, u) \in -1 .. 1
  BY <1>1, <1>2
<1>13. h(moved) - h(s) = dist(blank, u) - dist(tile, u)
  BY <1>5, <1>8, <1>9, <1>10, <1>11, <1>12
<1> QED
  BY <1>12, <1>13 DEF moved

LEMMA SolvedFacts ==
    /\ Solved \in Boards /\ IsArranged(Solved) /\ h(Solved) = 0
    /\ \A s \in Boards : IsArranged(s) /\ h(s) = 0 => s = Solved
<1>1. Solved \in Boards /\ IsArranged(Solved)
  BY DEF Solved, Boards, IsArranged
<1>2. h(Solved) = 0
  <2> DEFINE S == Misplaced(Solved)
             f == Steps(Solved)
  <2>1. \A t \in S : f[t] = 0
    BY DistFacts DEF Misplaced, Steps, Solved
  <2>2. IsFiniteSet(S) /\ h(Solved) = Sum(f, S)
    BY <1>1, TilesAreFinite, HeuristicIsSum DEF Misplaced
  <2> HIDE DEF f, S
  <2> QED
    BY <2>1, <2>2, SumOfZeros
<1>3. ASSUME NEW s \in Boards, IsArranged(s), h(s) = 0 PROVE s = Solved
  <2>1. \A t \in Tiles : s[t] # 0 => s[t] = t
    <3> SUFFICES ASSUME NEW t \in Tiles, s[t] # 0 PROVE s[t] = t
      OBVIOUS
    <3>1. s[t] \in Tiles /\ dist(t, s[t]) \in Nat /\ dist(t, s[t]) <= 0
      BY <1>3, StepsFacts DEF Misplaced, Steps, Boards
    <3>2. dist(t, s[t]) = 0
      BY <3>1
    <3> QED
      BY <3>1, <3>2, DistFacts
  <2>2. find_blank(s) \in Tiles /\ \A t \in Tiles : s[t] = 0 <=> t = find_blank(s)
    BY <1>3, BlankFacts
  <2>3. find_blank(s) = 0
    <3> SUFFICES ASSUME find_blank(s) # 0 PROVE FALSE
      OBVIOUS
    <3> DEFINE u == find_blank(s)
    <3>1. PICK t \in Tiles : s[t] = u
      BY <1>3, <2>2 DEF IsArranged
    <3> QED
      BY <2>1, <2>2, <3>1
  <2>4. \A t \in Tiles : s[t] = t
    BY <2>1, <2>2, <2>3
  <2> QED
    BY <2>4 DEF Boards, Solved
<1> QED
  BY <1>1, <1>2, <1>3

-----------------------------------------------------------------------------
(* The boards within a number of moves *)

IsLayers(n0, g) == g = [k \in 1 .. n0 |-> IF k = 1 THEN {Solved} ELSE Spread(g[k - 1])]

LEMMA LayersExist == \A n0 \in Nat : \E g : IsLayers(n0, g)
<1> DEFINE G == {m \in Nat : \E g : IsLayers(m, g)}
<1>1. 0 \in G
  <2>1. IsLayers(0, [k \in 1 .. 0 |-> {}])
    BY DEF IsLayers
  <2> QED
    BY <2>1
<1>2. ASSUME NEW m \in Nat, m \in G PROVE m + 1 \in G
  <2>1. PICK g : IsLayers(m, g)
    BY <1>2
  <2>2. \A k \in 1 .. m : g[k] = IF k = 1 THEN {Solved} ELSE Spread(g[k - 1])
    BY <2>1 DEF IsLayers
  <2> DEFINE g1 == [k \in 1 .. m + 1 |-> IF k = m + 1
                                          THEN IF k = 1 THEN {Solved} ELSE Spread(g[k - 1])
                                          ELSE g[k]]
             L == [k \in 1 .. m + 1 |-> IF k = 1 THEN {Solved} ELSE Spread(g1[k - 1])]
  <2>3. ASSUME NEW k \in 1 .. m + 1 PROVE g1[k] = L[k]
    <3>1. CASE k = 1
      BY <2>2, <3>1
    <3>2. CASE k # 1
      <4>1. k - 1 \in 1 .. m /\ k - 1 \in 1 .. m + 1 /\ k - 1 # m + 1
        BY <3>2
      <4>2. g1[k - 1] = g[k - 1]
        BY <4>1
      <4>3. g1[k] = Spread(g[k - 1])
        <5>1. CASE k = m + 1
          BY <3>2, <5>1
        <5>2. CASE k # m + 1
          <6>1. k \in 1 .. m
            BY <5>2
          <6> QED
            BY <2>2, <3>2, <5>2, <6>1
        <5> QED
          BY <5>1, <5>2
      <4> QED
        BY <3>2, <4>2, <4>3
    <3> QED
      BY <3>1, <3>2
  <2>4. g1 = L
    BY <2>3
  <2>5. IsLayers(m + 1, g1)
    BY <2>4 DEF IsLayers
  <2> QED
    BY <2>5
<1> HIDE DEF G
<1>3. Nat \subseteq G
  BY <1>1, <1>2, UpwardInduction
<1> QED
  BY <1>3 DEF G

LEMMA Layers ==
    /\ Within[1] = {Solved}
    /\ \A k \in 1 .. Depth : Within[k + 1] = Spread(Within[k])
<1>1. Depth \in Nat /\ Depth + 1 \in Nat
  BY PuzzleAssumption
<1>2. \E g : IsLayers(Depth + 1, g)
  BY <1>1, LayersExist
<1>3. Within = CHOOSE g : IsLayers(Depth + 1, g)
  BY DEF Within, IsLayers
<1>4. IsLayers(Depth + 1, Within)
  BY <1>2, <1>3
<1>5. \A k \in 1 .. Depth + 1 : Within[k] = IF k = 1 THEN {Solved} ELSE Spread(Within[k - 1])
  BY <1>4 DEF IsLayers
<1>6. ASSUME NEW k \in 1 .. Depth PROVE Within[k + 1] = Spread(Within[k])
  <2>1. k + 1 \in 1 .. Depth + 1 /\ k + 1 # 1 /\ k + 1 - 1 = k
    BY <1>1
  <2> QED
    BY <1>5, <2>1
<1>7. 1 \in 1 .. Depth + 1
  BY <1>1
<1> QED
  BY <1>5, <1>6, <1>7

Board(s) == s \in Boards /\ IsArranged(s)
Near(s, k) == k \in 0 .. Depth /\ s \in Within[k + 1]

(* The heuristic is never more than the moves that are left.               *)
LEMMA NearFacts == \A k, s : Near(s, k) => Board(s) /\ h(s) <= k
<1> DEFINE Good(k) == \A s : Near(s, k) => Board(s) /\ h(s) <= k
           G == {k \in Nat : Good(k)}
<1>1. 0 \in G
  <2> SUFFICES ASSUME NEW s, Near(s, 0) PROVE Board(s) /\ h(s) <= 0
    OBVIOUS
  <2>1. s = Solved
    BY Layers DEF Near
  <2> QED
    BY <2>1, SolvedFacts DEF Board
<1>2. ASSUME NEW k \in Nat, k \in G PROVE k + 1 \in G
  <2> SUFFICES ASSUME NEW s, Near(s, k + 1) PROVE Board(s) /\ h(s) <= k + 1
    OBVIOUS
  <2>1. k \in 0 .. Depth /\ k + 1 \in 1 .. Depth /\ s \in Spread(Within[k + 1])
    <3>1. k + 1 <= Depth /\ Depth \in Nat
      BY PuzzleAssumption DEF Near
    <3>2. k + 1 \in 1 .. Depth
      BY <3>1
    <3> QED
      BY <3>1, <3>2, Layers DEF Near
  <2>2. CASE s \in Within[k + 1]
    <3>1. Board(s) /\ h(s) <= k /\ h(s) \in Nat
      BY <1>2, <2>1, <2>2, StepsFacts DEF Near, Board
    <3> QED
      BY <3>1
  <2>3. CASE s \notin Within[k + 1]
    <3>1. PICK s0 \in Within[k + 1] : \E a \in possible(s0, NONE) : s = apply_action(a, s0)
      BY <2>1, <2>3 DEF Spread
    <3>2. PICK a : Allowed(a, s0) /\ s = apply_action(a, s0)
      BY <3>1 DEF Allowed
    <3>3. Board(s0) /\ h(s0) <= k
      BY <1>2, <2>1, <3>1 DEF Near
    <3>4. Board(s)
      BY <3>2, <3>3, MoveFacts DEF Board
    <3>5. h(s) - h(s0) \in -1 .. 1 /\ h(s) \in Nat /\ h(s0) \in Nat
      BY <3>2, <3>3, <3>4, HeuristicStep, StepsFacts DEF Board
    <3> QED
      BY <3>3, <3>4, <3>5
  <2> QED
    BY <2>2, <2>3
<1>3. Nat \subseteq G
  <2> HIDE DEF G
  <2> QED
    BY <1>1, <1>2, UpwardInduction
<1> QED
  BY <1>3 DEF Near

(* One move leads to a board at most one move nearer, and to one that is.  *)
LEMMA NearerByMove ==
    ASSUME NEW s, NEW k \in Nat, k < Depth
    PROVE  /\ Near(s, k) => Near(s, k + 1)
           /\ \A a : Board(s) /\ Allowed(a, s) /\ Near(apply_action(a, s), k) => Near(s, k + 1)
           /\ Near(s, k + 1) /\ ~Near(s, k) =>
                \E a \in Actions : Allowed(a, s) /\ Near(apply_action(a, s), k)
<1>1. Depth \in Nat /\ k + 1 \in 1 .. Depth /\ k \in 0 .. Depth /\ k + 1 \in 0 .. Depth
  BY PuzzleAssumption
<1>2. Within[k + 1 + 1] = Spread(Within[k + 1])
  BY <1>1, Layers
<1>3. Near(s, k) => Near(s, k + 1)
  BY <1>1, <1>2 DEF Near, Spread
<1>4. ASSUME NEW a, Board(s), Allowed(a, s), Near(apply_action(a, s), k) PROVE Near(s, k + 1)
  <2>1. Allowed(3 - a, apply_action(a, s)) /\ apply_action(3 - a, apply_action(a, s)) = s
    BY <1>4, MoveFacts DEF Board
  <2> QED
    BY <1>1, <1>2, <1>4, <2>1 DEF Near, Spread, Allowed
<1>5. ASSUME Near(s, k + 1), ~Near(s, k)
      PROVE  \E a \in Actions : Allowed(a, s) /\ Near(apply_action(a, s), k)
  <2>1. PICK s0 : Near(s0, k) /\ \E b : Allowed(b, s0) /\ s = apply_action(b, s0)
    BY <1>1, <1>2, <1>5 DEF Near, Spread, Allowed
  <2>2. PICK b : Allowed(b, s0) /\ s = apply_action(b, s0)
    BY <2>1
  <2>3. Board(s0)
    BY <2>1, NearFacts
  <2>4. Allowed(3 - b, s) /\ apply_action(3 - b, s) = s0
    BY <2>2, <2>3, MoveFacts DEF Board
  <2> QED
    BY <2>1, <2>4, AllowedFacts
<1> QED
  BY <1>3, <1>4, <1>5

(* The length of a shortest solution, if there is one within Depth moves.  *)
InReach(s)  == \E k : Near(s, k)
Shortest(s) == CHOOSE k \in Nat : Near(s, k) /\ \A m : Near(s, m) => k <= m

LEMMA ShortestFacts ==
    ASSUME NEW s, InReach(s)
    PROVE  /\ Shortest(s) \in 0 .. Depth /\ Near(s, Shortest(s))
           /\ \A m : Near(s, m) => Shortest(s) <= m
           /\ s # Solved => Shortest(s) > 0
<1> DEFINE K == {k \in Nat : Near(s, k)}
<1>1. \A k : Near(s, k) => k \in Nat
  BY PuzzleAssumption DEF Near
<1>2. K # {} /\ K \subseteq Nat
  BY <1>1 DEF InReach
<1>3. \E k \in K : \A m \in K : k <= m
  <2> HIDE DEF K
  <2> QED
    BY <1>2, Smallest
<1>4. \E k \in Nat : Near(s, k) /\ \A m : Near(s, m) => k <= m
  BY <1>1, <1>3
<1>5. /\ Shortest(s) \in Nat /\ Near(s, Shortest(s))
      /\ \A m : Near(s, m) => Shortest(s) <= m
  BY <1>4 DEF Shortest
<1>6. Shortest(s) = 0 => s = Solved
  BY <1>5, Layers DEF Near
<1> QED
  BY <1>5, <1>6 DEF Near

-----------------------------------------------------------------------------
(* The search keeps to the shortest solutions                              *)

State(j) == stack[j].node.state

Visited ==
    /\ B \in Int /\ B1 \in Int /\ Board(start)
    /\ \A j \in 1 .. Len(stack) : Board(State(j)) /\ stack[j].i \in Nat

(* A call is not nearer to the end than its depth allows.                  *)
Far ==
    InReach(start) =>
        \A j \in 1 .. Len(stack) : \A k : Near(State(j), k) => Shortest(start) <= k + j - 1

(* The call at depth j has still to try the action a, and there is a       *)
(* shortest solution of the start board that goes on with it.              *)
Untried(j, a) == IF j = Len(stack) THEN a >= stack[j].i ELSE a > stack[j].i
Ahead(j, a) ==
    /\ j <= Shortest(start) /\ Untried(j, a) /\ Allowed(a, State(j))
    /\ Near(apply_action(a, State(j)), Shortest(start) - j)
Hope == \E j \in 1 .. Len(stack) : \E a \in Actions : Ahead(j, a)

(* Either a shortest solution is still ahead, or it was cut off, and then  *)
(* the next bound is at most half as much again.                           *)
Short ==
    InReach(start) /\ start # Solved =>
        /\ 2 * B <= 3 * Shortest(start)
        /\ stack # <<>> /\ r = <<>> => 2 * B1 <= 3 * Shortest(start) \/ Hope

Solves(nodes) ==
    /\ Board(nodes[1].state) /\ h(nodes[1].state) = 0
    /\ nodes[1].path_cost \in Int /\ nodes[1].path_cost <= B
Results ==
    /\ r # <<>> => Solves(r)
    /\ found # <<>> => stack = <<>> /\ Solves(found)
SearchInv == Visited /\ Far /\ Short /\ Results

(* An action that goes on with a shortest solution does not undo the one   *)
(* before.                                                                 *)
LEMMA NoWayBack ==
    ASSUME PathInv, Visited, Far, InReach(start),
           NEW j \in 1 .. Len(stack), NEW a \in Actions, Ahead(j, a)
    PROVE  a \in possible(State(j), stack[j].node.previous)
<1> DEFINE b == stack[j].node.previous
<1>1. Allowed(a, State(j)) /\ Near(apply_action(a, State(j)), Shortest(start) - j)
  BY DEF Ahead
<1>2. Len(stack) \in Nat /\ stack # <<>> /\ Shortest(start) \in Nat
  BY StackFacts, ShortestFacts DEF PathInv
<1> SUFFICES ASSUME b # NONE, a = 3 - b PROVE FALSE
  BY <1>1, AllowedFacts
<1>3. j # 1
  <2> SUFFICES ASSUME j = 1 PROVE FALSE
    OBVIOUS
  <2>1. stack[1].node = Node(start, NONE, 0)
    BY <1>2 DEF PathInv, Way
  <2> QED
    BY <2>1 DEF Node
<1>4. j - 1 \in 1 .. Len(stack) - 1 /\ j - 1 \in 1 .. Len(stack) /\ j - 1 + 1 = j
  BY <1>2, <1>3
<1>5. Leads(stack[j - 1].node, stack[j].node)
  <2>1. Leads(stack[j - 1].node, stack[j - 1 + 1].node)
    BY <1>2, <1>4 DEF PathInv, Way
  <2> QED
    BY <1>4, <2>1
<1>6. b \in possible(State(j - 1), stack[j - 1].node.previous) /\ State(j) = apply_action(b, State(j - 1))
  BY <1>5 DEF Leads, State
<1>7. Allowed(b, State(j - 1)) /\ Board(State(j - 1))
  BY <1>4, <1>6, AllowedFacts DEF Visited
<1>8. apply_action(a, State(j)) = State(j - 1)
  <2>1. apply_action(3 - b, apply_action(b, State(j - 1))) = State(j - 1)
    BY <1>7, MoveFacts DEF Board
  <2> QED
    BY <1>6, <2>1
<1>9. Shortest(start) <= Shortest(start) - j + (j - 1) - 1
  BY <1>1, <1>4, <1>8 DEF Far
<1> QED
  BY <1>2, <1>9

LEMMA LoopFacts ==
    ASSUME PathInv, Visited,
           NEW s, s \in {stack, Popped}, Len(s) > 0, Len(stack) > 0, stack' = NextAction(s)
    PROVE  /\ Len(stack') = Len(s) /\ Len(s) \in 1 .. Len(stack) /\ Len(stack) \in Nat
           /\ \A j \in 1 .. Len(stack') :
                /\ j \in 1 .. Len(stack)
                /\ stack'[j].node = stack[j].node /\ State(j)' = State(j)
                /\ stack'[j].i = IF j = Len(stack') THEN stack[j].i + 1 ELSE stack[j].i
<1>1. PICK S : stack \in Seq(S)
  BY DEF PathInv, Calls
<1>2. /\ s \in Seq(S) /\ Len(s) \in 1 .. Len(stack) /\ Len(stack) \in Nat
      /\ \A j \in 1 .. Len(s) : s[j] = stack[j]
  BY <1>1 DEF Popped
<1>3. \A j \in 1 .. Len(s) : IsCall(s[j])
  BY <1>1, <1>2 DEF PathInv, Calls
<1>4. /\ Len(stack') = Len(s)
      /\ \A j \in 1 .. Len(s) : stack'[j].node = stack[j].node
  BY <1>2, <1>3, NextActionFacts
<1>5. \A j \in 1 .. Len(s) : stack'[j].i = IF j = Len(s) THEN stack[j].i + 1 ELSE stack[j].i
  <2>1. IsCall(s[Len(s)])
    BY <1>2, <1>3
  <2>2. [s[Len(s)] EXCEPT !.i = @ + 1].i = s[Len(s)].i + 1
    BY <2>1 DEF IsCall
  <2>3. stack' = [s EXCEPT ![Len(s)] = [s[Len(s)] EXCEPT !.i = @ + 1]]
    BY DEF NextAction
  <2> QED
    BY <1>2, <2>2, <2>3
<1>6. \A j \in 1 .. Len(s) : j \in 1 .. Len(stack)
  BY <1>2
<1> QED
  BY <1>2, <1>4, <1>5, <1>6 DEF State

LEMMA LoopKeepsSearch ==
    ASSUME PathInv, SearchInv, B' = B, B1' \in Int, UNCHANGED <<start, r, found>>, r = <<>>,
           NEW s, s \in {stack, Popped}, Len(s) > 0, Len(stack) > 0, stack' = NextAction(s)
    PROVE  Visited' /\ Far' /\ Results'
<1>1. /\ Len(stack') = Len(s) /\ Len(s) \in 1 .. Len(stack) /\ Len(stack) \in Nat
      /\ \A j \in 1 .. Len(stack') :
            /\ j \in 1 .. Len(stack)
            /\ State(j)' = State(j)
            /\ stack'[j].i = IF j = Len(stack') THEN stack[j].i + 1 ELSE stack[j].i
  BY LoopFacts DEF SearchInv
<1>2. Visited'
  BY <1>1 DEF SearchInv, Visited, Board
<1>3. Far'
  BY <1>1 DEF SearchInv, Far, InReach, Shortest
<1>4. Results'
  <2>1. stack # <<>>
    BY StackFacts DEF PathInv
  <2> QED
    BY <2>1 DEF SearchInv, Results
<1> QED
  BY <1>2, <1>3, <1>4
(* The cost that cutting a shortest solution off puts in the next bound.   *)
LEMMA CutIsShort ==
    ASSUME PathInv, Visited, InReach(start), stack # <<>>, Ahead(Len(stack), Top.i), IsPossible
    PROVE  /\ 2 * evaluation <= 3 * Shortest(start) /\ evaluation \in Int
           /\ Near(next.state, Shortest(start) - Len(stack)) /\ Board(next.state)
<1> DEFINE j == Len(stack)
           m == Shortest(start)
<1>1. j \in 1 .. Len(stack) /\ j \in Nat /\ m \in Nat
  BY StackFacts, ShortestFacts DEF PathInv
<1>2. next.state = apply_action(Top.i, State(j)) /\ next.path_cost = j
  <2>1. n.path_cost = j - 1
    BY <1>1 DEF PathInv, Way, n, Top
  <2>2. next.path_cost = n.path_cost + 1 /\ next.state = apply_action(Top.i, n.state)
    BY DEF next, Node
  <2>3. n.state = State(j)
    BY DEF n, Top, State
  <2> HIDE DEF j
  <2> QED
    BY <1>1, <2>1, <2>2, <2>3
<1>3. Near(next.state, m - j) /\ j <= m
  BY <1>2 DEF Ahead
<1>4. Board(next.state) /\ h(next.state) <= m - j /\ h(next.state) \in Nat
  BY <1>3, NearFacts, StepsFacts DEF Board
<1>5. evaluation = j + (3 * h(next.state)) \div 2
  BY <1>2 DEF evaluation
<1>6. \A x \in Nat : 2 * ((3 * x) \div 2) <= 3 * x /\ (3 * x) \div 2 \in Int
  OBVIOUS
<1>7. evaluation \in Int /\ 2 * evaluation <= 3 * m
  <2> DEFINE x == h(next.state)
             y == (3 * x) \div 2
  <2>1. x \in Nat /\ x <= m - j /\ y \in Int /\ 2 * y <= 3 * x /\ evaluation = j + y
    BY <1>4, <1>5, <1>6
  <2> HIDE DEF j, m, x, y
  <2> QED
    BY <1>1, <2>1
<1> QED
  BY <1>3, <1>4, <1>7

LEMMA LoopKeepsHope ==
    ASSUME PathInv, Visited, start' = start,
           NEW s, s \in {stack, Popped}, Len(s) > 0, Len(stack) > 0, stack' = NextAction(s),
           NEW j \in 1 .. Len(s), NEW a \in Actions, Ahead(j, a),
           j = Len(s) => a > stack[j].i
    PROVE  Hope'
<1>1. /\ Len(stack') = Len(s) /\ Len(s) \in 1 .. Len(stack) /\ Len(stack) \in Nat
      /\ j \in 1 .. Len(stack) /\ State(j)' = State(j)
      /\ stack'[j].i = IF j = Len(s) THEN stack[j].i + 1 ELSE stack[j].i
      /\ stack[j].i \in Nat
  BY LoopFacts DEF Visited
<1>2. Untried(j, a)'
  BY <1>1, Codes DEF Ahead, Untried, Actions
<1>3. Ahead(j, a)'
  BY <1>1, <1>2 DEF Ahead, Shortest
<1> QED
  BY <1>1, <1>3 DEF Hope

LEMMA SkipKeepsSearch ==
    ASSUME PathInv, SearchInv, Skip
    PROVE  SearchInv'
<1>1. /\ stack # <<>> /\ r = <<>> /\ ~IsPossible /\ stack' = NextAction(stack)
      /\ UNCHANGED <<start, B, B1, r, found>>
  BY DEF Skip, InLoop
<1>2. Len(stack) > 0
  BY <1>1, StackFacts DEF PathInv
<1>3. Visited' /\ Far' /\ Results'
  BY <1>1, <1>2, LoopKeepsSearch DEF SearchInv, Visited
<1>4. Short'
  <2> SUFFICES ASSUME InReach(start), start # Solved, Hope PROVE Hope'
    BY <1>1 DEF SearchInv, Short, InReach, Shortest
  <2>1. PICK j \in 1 .. Len(stack) : \E a \in Actions : Ahead(j, a)
    BY DEF Hope
  <2>2. PICK a \in Actions : Ahead(j, a)
    BY <2>1
  <2>3. a \in possible(State(j), stack[j].node.previous)
    BY <2>2, NoWayBack DEF SearchInv
  <2>4. j = Len(stack) => a # stack[j].i
    BY <1>1, <2>3 DEF IsPossible, n, Top, State
  <2>5. j = Len(stack) => a > stack[j].i
    BY <2>2, <2>4, Codes DEF Ahead, Untried, SearchInv, Visited, Actions
  <2> QED
    BY <1>1, <1>2, <2>2, <2>5, LoopKeepsHope DEF SearchInv
<1> QED
  BY <1>3, <1>4 DEF SearchInv
LEMMA CutKeepsSearch ==
    ASSUME PathInv, SearchInv, Cut
    PROVE  SearchInv'
<1>1. /\ stack # <<>> /\ r = <<>> /\ IsPossible /\ stack' = NextAction(stack)
      /\ B1' = Least(evaluation, B1)
      /\ UNCHANGED <<start, B, r, found>>
  BY DEF Cut, InLoop
<1>2. Len(stack) \in 1 .. Len(stack) /\ Len(stack) > 0
  BY <1>1, StackFacts DEF PathInv
<1>3. evaluation \in Int
  <2>1. n.path_cost \in Int
    BY <1>1, <1>2 DEF PathInv, Way, n, Top
  <2>2. Top.i \in possible(n.state, n.previous) /\ Board(n.state)
    BY <1>1, <1>2 DEF IsPossible, SearchInv, Visited, n, Top, State
  <2>3. next.state = apply_action(Top.i, n.state) /\ next.path_cost = n.path_cost + 1
    BY DEF next, Node
  <2>4. h(next.state) \in Nat
    BY <2>2, <2>3, AllowedFacts, MoveFacts, StepsFacts DEF Board
  <2>5. next.path_cost \in Int
    BY <2>1, <2>3
  <2> QED
    BY <2>4, <2>5 DEF evaluation
<1>4. B1 \in Int /\ B1' \in Int /\ B1' <= evaluation /\ B1' <= B1
  BY <1>1, <1>3 DEF Least, SearchInv, Visited
<1>5. Visited' /\ Far' /\ Results'
  BY <1>1, <1>2, <1>4, LoopKeepsSearch
<1>6. Short'
  <2> DEFINE m == Shortest(start)
  <2> SUFFICES ASSUME InReach(start), start # Solved, 2 * B1 <= 3 * m \/ Hope
               PROVE  2 * B1' <= 3 * m \/ Hope'
    BY <1>1 DEF SearchInv, Short, InReach, Shortest
  <2>1. m \in Nat
    BY ShortestFacts
  <2>2. CASE 2 * B1 <= 3 * m
    <3>1. 2 * B1' <= 3 * m
      BY <1>4, <2>1, <2>2
    <3> QED
      BY <3>1
  <2>3. CASE Hope
    <3>1. PICK j \in 1 .. Len(stack) : \E a \in Actions : Ahead(j, a)
      BY <2>3 DEF Hope
    <3>2. PICK a \in Actions : Ahead(j, a)
      BY <3>1
    <3>3. CASE j = Len(stack) /\ a = stack[j].i
      <4>1. Ahead(Len(stack), Top.i)
        BY <3>2, <3>3 DEF Top
      <4>2. 2 * evaluation <= 3 * m
        BY <1>1, <4>1, CutIsShort DEF SearchInv
      <4>3. 2 * B1' <= 3 * m
        BY <1>3, <1>4, <2>1, <4>2
      <4> QED
        BY <4>3
    <3>4. CASE ~(j = Len(stack) /\ a = stack[j].i)
      <4>1. j = Len(stack) => a > stack[j].i
        BY <3>2, <3>4, Codes DEF Ahead, Untried, SearchInv, Visited, Actions
      <4> QED
        BY <1>1, <1>2, <3>2, <4>1, LoopKeepsHope DEF SearchInv
    <3> QED
      BY <3>3, <3>4
  <2> QED
    BY <2>2, <2>3
<1> QED
  BY <1>5, <1>6 DEF SearchInv

LEMMA ReturnNullKeepsSearch ==
    ASSUME PathInv, SearchInv, ReturnNull
    PROVE  SearchInv'
<1>1. /\ Len(stack) > 1 /\ r = <<>> /\ Top.i \notin Actions /\ stack' = NextAction(Popped)
      /\ UNCHANGED <<start, B, B1, r, found>>
  BY DEF ReturnNull
<1>2. Len(Popped) = Len(stack) - 1 /\ Len(stack) \in Nat /\ Len(Popped) > 0
  BY <1>1, StackFacts DEF PathInv, Calls, Popped
<1>3. Visited' /\ Far' /\ Results'
  BY <1>1, <1>2, LoopKeepsSearch DEF SearchInv, Visited
<1>4. Short'
  <2> SUFFICES ASSUME InReach(start), start # Solved, Hope PROVE Hope'
    BY <1>1, StackFacts DEF SearchInv, Short, InReach, Shortest, PathInv
  <2>1. PICK j \in 1 .. Len(stack) : \E a \in Actions : Ahead(j, a)
    BY DEF Hope
  <2>2. PICK a \in Actions : Ahead(j, a)
    BY <2>1
  <2>3. stack[j].i \in Nat /\ (j = Len(stack) => stack[j].i \notin Actions)
    BY <1>1 DEF SearchInv, Visited, Top
  <2>4. j # Len(stack)
    BY <2>2, <2>3, Codes DEF Ahead, Untried, Actions
  <2>5. j \in 1 .. Len(Popped) /\ a > stack[j].i
    BY <1>2, <2>2, <2>4 DEF Ahead, Untried
  <2> QED
    BY <1>1, <1>2, <2>2, <2>5, LoopKeepsHope DEF SearchInv
<1> QED
  BY <1>3, <1>4 DEF SearchInv
(* On a call that has tried nothing yet, on a shortest way, there is hope. *)
Fresh ==
    /\ Len(stack) \in Nat \ {0} /\ Len(stack) <= Shortest(start) /\ stack[Len(stack)].i = UP
    /\ Near(State(Len(stack)), Shortest(start) - Len(stack) + 1)

LEMMA FreshHope == Visited /\ Far /\ InReach(start) /\ Fresh => Hope
<1> SUFFICES ASSUME Visited, Far, InReach(start), Fresh PROVE Hope
  OBVIOUS
<1> DEFINE j == Len(stack)
           m == Shortest(start)
           k == m - j
<1>1. /\ j \in 1 .. Len(stack) /\ j \in Nat /\ m \in 0 .. Depth /\ k \in Nat /\ k < Depth
      /\ Depth \in Nat /\ m > k + j - 1
  BY ShortestFacts, PuzzleAssumption DEF Fresh
<1>2. ~Near(State(j), k)
  <2> SUFFICES ASSUME Near(State(j), k) PROVE FALSE
    OBVIOUS
  <2>1. m <= k + j - 1
    BY <1>1 DEF Far
  <2> HIDE DEF k, j, m
  <2> QED
    BY <1>1, <2>1
<1>3. Near(State(j), k + 1)
  BY DEF Fresh
<1>4. PICK a \in Actions : Allowed(a, State(j)) /\ Near(apply_action(a, State(j)), k)
  <2> HIDE DEF j, k
  <2> QED
    BY <1>1, <1>2, <1>3, NearerByMove
<1>5. Untried(j, a)
  BY Codes DEF Untried, Fresh
<1> QED
  BY <1>1, <1>4, <1>5 DEF Hope, Ahead, Fresh

Hopeful == InReach(start) /\ start # Solved => Hope
Ready   == Board(start) /\ B \in Int /\ B1 \in Int /\ found = <<>>

LEMMA CallStarts ==
    Called /\ Ready => Visited /\ Far /\ Results /\ Hopeful
<1> SUFFICES ASSUME Called, Board(start), B \in Int, B1 \in Int, found = <<>>
             PROVE  Visited /\ Far /\ Results /\ Hopeful
  BY DEF Ready
<1>1. /\ Len(stack) = 1 /\ r = <<>> /\ stack[1].i = UP /\ State(1) = start
      /\ \A j \in 1 .. Len(stack) : j = 1
  BY DEF Called, State, Node
<1>2. Visited
  BY <1>1, Codes DEF Visited
<1>3. Far
  <2> SUFFICES ASSUME InReach(start), NEW k, Near(start, k) PROVE Shortest(start) <= k + 1 - 1
    BY <1>1 DEF Far
  <2>1. Shortest(start) <= k /\ k \in Nat
    BY ShortestFacts, PuzzleAssumption DEF Near
  <2> QED
    BY <2>1
<1>4. ASSUME InReach(start), start # Solved PROVE Hope
  <2>1. Shortest(start) \in Nat /\ Shortest(start) > 0 /\ Near(start, Shortest(start))
    BY <1>4, ShortestFacts
  <2>2. Fresh
    BY <1>1, <2>1 DEF Fresh
  <2> QED
    BY <1>2, <1>3, <1>4, <2>2, FreshHope
<1> QED
  BY <1>1, <1>2, <1>3, <1>4 DEF Results, Hopeful

LEMMA SearchAgainKeepsSearch ==
    ASSUME PathInv, SearchInv, SearchAgain
    PROVE  SearchInv'
<1>1. /\ Len(stack) = 1 /\ r = <<>> /\ Top.i \notin Actions
      /\ B' = B1 /\ B1' = INT_MAX /\ UNCHANGED <<start, r, found>> /\ Called'
  BY DEF SearchAgain, Called
<1>2. stack # <<>> /\ found = <<>>
  BY <1>1, StackFacts DEF PathInv, SearchInv, Results
<1>3. Ready'
  BY <1>1, <1>2 DEF SearchInv, Visited, Ready, Board, INT_MAX
<1>4. Visited' /\ Far' /\ Results' /\ Hopeful'
  BY <1>1, <1>3, CallStarts, PTL
<1>5. ASSUME InReach(start), start # Solved PROVE 2 * B1 <= 3 * Shortest(start)
  <2> SUFFICES ASSUME Hope PROVE FALSE
    BY <1>1, <1>2, <1>5 DEF SearchInv, Short
  <2>1. PICK j \in 1 .. Len(stack) : \E a \in Actions : Ahead(j, a)
    BY DEF Hope
  <2>2. PICK a \in Actions : Ahead(j, a)
    BY <2>1
  <2>3. j = Len(stack) /\ stack[j].i \in Nat /\ stack[j].i \notin Actions
    BY <1>1 DEF SearchInv, Visited, Top
  <2> QED
    BY <2>2, <2>3, Codes DEF Ahead, Untried, Actions
<1>6. Short'
  BY <1>1, <1>4, <1>5 DEF Short, Hopeful, InReach, Shortest
<1> QED
  BY <1>4, <1>6 DEF SearchInv
LEMMA DescendKeepsSearch ==
    ASSUME PathInv, SearchInv, Descend
    PROVE  SearchInv'
<1> DEFINE call == [node |-> next, i |-> UP]
<1>1. call.node = next /\ call.i = UP
  OBVIOUS
<1>2. /\ stack # <<>> /\ r = <<>> /\ stack' = Append(stack, call) /\ IsPossible
      /\ h(next.state) # 0 /\ UNCHANGED <<start, B, B1, r, found>>
  BY DEF Descend, InLoop
<1> HIDE DEF call
<1>3. PICK d \in Nat : d = Len(stack)
  <2>1. Len(stack) \in Nat
    BY StackFacts DEF PathInv
  <2> QED
    BY <2>1, Zenon
<1>4. PICK m : m = Shortest(start)
  OBVIOUS
<1>5. /\ d > 0 /\ Len(stack') = d + 1
      /\ \A j \in 1 .. d : stack'[j] = stack[j]
      /\ stack'[d + 1] = call
  <2>1. PICK S : stack \in Seq(S)
    BY DEF PathInv, Calls
  <2>2. stack \in Seq(S \cup {call})
    BY <2>1
  <2> QED
    BY <1>2, <1>3, <2>2
<1>6. d \in 1 .. d /\ n = stack[d].node /\ n.state = State(d) /\ Top.i = stack[d].i
  BY <1>3, <1>5 DEF n, Top, State
<1>7. /\ \A j \in 1 .. d : State(j)' = State(j) /\ stack'[j].i = stack[j].i
      /\ State(d + 1)' = next.state /\ stack'[d + 1].i = UP
  BY <1>1, <1>5 DEF State
<1>8. \A j \in 1 .. d + 1 : j \in 1 .. d \/ j = d + 1
  BY <1>3
<1>9. PICK a : a = Top.i
  OBVIOUS
<1>10. /\ Allowed(a, State(d)) /\ Board(State(d)) /\ a \in Actions
       /\ next.state = apply_action(a, State(d)) /\ Board(next.state)
  <2>1. a \in possible(State(d), n.previous) /\ Board(State(d))
    BY <1>2, <1>3, <1>6, <1>9 DEF IsPossible, SearchInv, Visited
  <2>2. next.state = apply_action(a, State(d))
    BY <1>6, <1>9 DEF next, Node
  <2> QED
    BY <2>1, <2>2, AllowedFacts, MoveFacts DEF Board
<1>11. Visited'
  <2>1. B' \in Int /\ B1' \in Int /\ Board(start)'
    BY <1>2 DEF SearchInv, Visited, Board
  <2>2. ASSUME NEW j \in 1 .. d + 1 PROVE Board(State(j))' /\ stack'[j].i \in Nat
    <3>1. CASE j \in 1 .. d
      BY <1>3, <1>7, <3>1 DEF SearchInv, Visited, Board
    <3>2. CASE j = d + 1
      BY <1>7, <1>10, <3>2, Codes DEF Board
    <3> QED
      BY <1>8, <3>1, <3>2
  <2> QED
    BY <1>5, <2>1, <2>2 DEF Visited
<1>12. Far'
  <2> SUFFICES ASSUME InReach(start), NEW j \in 1 .. d + 1, NEW k, Near(State(j)', k)
               PROVE  Shortest(start) <= k + j - 1
    BY <1>2, <1>5 DEF Far, InReach, Shortest, Near
  <2>1. Shortest(start) \in 0 .. Depth /\ Depth \in Nat /\ k \in 0 .. Depth
    BY ShortestFacts, PuzzleAssumption DEF Near
  <2>2. CASE j \in 1 .. d
    BY <1>3, <1>7, <2>2 DEF SearchInv, Far
  <2>3. CASE j = d + 1
    <3>1. CASE k < Depth
      <4>1. k \in Nat /\ Near(apply_action(a, State(d)), k)
        BY <1>7, <1>10, <2>1, <2>3
      <4>2. Near(State(d), k + 1)
        BY <1>10, <3>1, <4>1, NearerByMove
      <4>3. Shortest(start) <= k + 1 + d - 1
        BY <1>3, <1>6, <4>2 DEF SearchInv, Far
      <4> QED
        BY <2>1, <2>3, <4>3
    <3>2. CASE k = Depth
      BY <2>1, <2>3, <3>2
    <3> QED
      BY <2>1, <3>1, <3>2
  <2> QED
    BY <1>8, <2>2, <2>3
<1>13. ASSUME InReach(start), Hope PROVE Hope'
  <2>1. PICK j \in 1 .. d : \E b \in Actions : Ahead(j, b)
    BY <1>3, <1>13 DEF Hope
  <2>2. PICK b \in Actions : Ahead(j, b)
    BY <2>1
  <2>3. m \in Nat
    BY <1>4, <1>13, ShortestFacts
  <2>4. CASE j = d /\ a = b
    <3>1. Ahead(Len(stack), Top.i)
      BY <1>3, <1>9, <2>2, <2>4
    <3>2. Near(next.state, m - d) /\ d <= m
      BY <1>2, <1>3, <1>4, <1>13, <3>1, CutIsShort DEF SearchInv, Ahead
    <3>3. h(next.state) <= m - d /\ h(next.state) \in Nat
      BY <1>10, <3>2, NearFacts, StepsFacts DEF Board
    <3>4. d + 1 <= m /\ m - (d + 1) + 1 = m - d
      BY <1>2, <2>3, <3>3
    <3>5. Fresh'
      BY <1>2, <1>4, <1>5, <1>7, <3>2, <3>4 DEF Fresh, Shortest, State
    <3>6. InReach(start)'
      BY <1>2, <1>13 DEF InReach
    <3> QED
      BY <1>11, <1>12, <3>5, <3>6, FreshHope, PTL
  <2>5. CASE ~(j = d /\ a = b)
    <3>1. b > stack[j].i
      BY <1>3, <1>6, <1>9, <2>2, <2>5, Codes DEF Ahead, Untried, SearchInv, Visited, Actions
    <3>2. Untried(j, b)'
      BY <1>5, <1>7, <3>1 DEF Untried
    <3>3. Ahead(j, b)'
      BY <1>2, <1>7, <2>2, <3>2 DEF Ahead, Shortest
    <3> QED
      BY <1>5, <3>3 DEF Hope
  <2> QED
    BY <2>4, <2>5
<1>14. Short'
  BY <1>2, <1>13 DEF SearchInv, Short, InReach, Shortest
<1>15. Results'
  BY <1>2 DEF SearchInv, Results
<1> QED
  BY <1>11, <1>12, <1>14, <1>15 DEF SearchInv
(* A solution is being returned, or has been.                              *)
LEMMA SolveKeepsSearch ==
    ASSUME PathInv, SearchInv, Solve
    PROVE  SearchInv'
<1>2. /\ stack # <<>> /\ r = <<>> /\ r' = <<next, n>> /\ IsPossible /\ ~TooLong
      /\ h(next.state) = 0 /\ UNCHANGED <<start, B, B1, stack, found>>
  BY DEF Solve, InLoop
<1>1. Len(stack) \in 1 .. Len(stack)
  BY <1>2, StackFacts DEF PathInv
<1>3. Top.i \in possible(n.state, n.previous) /\ Board(n.state) /\ n.path_cost \in Int
  BY <1>2, <1>1 DEF IsPossible, SearchInv, Visited, PathInv, Way, n, Top, State
<1>4. next.state = apply_action(Top.i, n.state) /\ next.path_cost = n.path_cost + 1
  BY DEF next, Node
<1>5. Board(next.state)
  BY <1>3, <1>4, AllowedFacts, MoveFacts DEF Board
<1>6. next.path_cost \in Int /\ next.path_cost <= B
  <2>1. evaluation = next.path_cost /\ evaluation \in Int /\ B \in Int
    BY <1>2, <1>3, <1>4 DEF evaluation, SearchInv, Visited
  <2> QED
    BY <1>2, <2>1 DEF TooLong
<1>7. Results'
  <2>1. r'[1] = next
    BY <1>2, Zenon
  <2> QED
    BY <1>2, <1>5, <1>6, <2>1 DEF SearchInv, Results, Solves, Board
<1>8. Visited' /\ Far' /\ Short'
  <2>1. r' # <<>>
    BY <1>2
  <2> QED
    BY <1>2, <2>1
    DEF SearchInv, Visited, Far, Short, InReach, Shortest, State, Board
<1> QED
  BY <1>7, <1>8 DEF SearchInv

LEMMA ReturnKeepsSearch ==
    ASSUME PathInv, SearchInv, ReturnSolution
    PROVE  SearchInv'
<1>1. /\ Len(stack) > 1 /\ r # <<>> /\ stack' = Popped /\ r' = Append(r, Below)
      /\ UNCHANGED <<start, B, B1, found>>
  BY DEF ReturnSolution
<1>2. /\ Len(stack) \in Nat /\ Len(stack') = Len(stack) - 1
      /\ \A j \in 1 .. Len(stack') : j \in 1 .. Len(stack) /\ stack'[j] = stack[j]
  <2>1. PICK S : stack \in Seq(S)
    BY DEF PathInv, Calls
  <2> QED
    BY <1>1, <2>1 DEF Popped
<1>3. r' # <<>> /\ r'[1] = r[1]
  <2>1. PICK S : r \in Seq(S)
    BY DEF PathInv, WayBack
  <2>2. r \in Seq(S \cup {Below})
    BY <2>1
  <2> QED
    BY <1>1, <2>2
<1>4. Results'
  BY <1>1, <1>3, StackFacts DEF SearchInv, Results, Solves, Board, PathInv
<1>5. Visited' /\ Far' /\ Short'
  BY <1>1, <1>2, <1>3
  DEF SearchInv, Visited, Far, Short, InReach, Shortest, State, Board
<1> QED
  BY <1>4, <1>5 DEF SearchInv

LEMMA FinishKeepsSearch ==
    ASSUME PathInv, SearchInv, Finish
    PROVE  SearchInv'
<1>1. /\ r # <<>> /\ stack' = <<>> /\ r' = <<>> /\ found' = r
      /\ UNCHANGED <<start, B, B1>>
  BY DEF Finish
<1>2. Len(stack') = 0
  BY <1>1
<1>3. Results'
  BY <1>1 DEF SearchInv, Results, Solves, Board
<1>4. Visited' /\ Far' /\ Short'
  BY <1>1, <1>2 DEF SearchInv, Visited, Far, Short, InReach, Shortest, Board
<1> QED
  BY <1>3, <1>4 DEF SearchInv

LEMMA SearchIsKept == PathInv /\ SearchInv /\ [Next]_puzzleVars => SearchInv'
<1> SUFFICES ASSUME PathInv, SearchInv, [Next]_puzzleVars PROVE SearchInv'
  OBVIOUS
<1>1. CASE UNCHANGED puzzleVars
  BY <1>1
  DEF puzzleVars, SearchInv, Visited, Far, Short, Results, Solves, Hope, Ahead, Untried,
      State, InReach, Shortest, Board
<1> QED
  BY <1>1, SkipKeepsSearch, CutKeepsSearch, DescendKeepsSearch, SolveKeepsSearch,
     ReturnNullKeepsSearch, SearchAgainKeepsSearch, ReturnKeepsSearch, FinishKeepsSearch
  DEF Next

LEMMA SearchBegins == Init => SearchInv
<1> SUFFICES ASSUME Init PROVE SearchInv
  OBVIOUS
<1>1. start \in Starts /\ B = h(start) /\ B1 = INT_MAX /\ Called /\ found = <<>>
  BY DEF Init, Called
<1>2. Board(start)
  BY <1>1, PuzzleAssumption, StartsAssumption DEF Board
<1>3. B \in Nat /\ Ready
  BY <1>1, <1>2, StepsFacts DEF Ready, Board, INT_MAX
<1>4. Visited /\ Far /\ Results /\ Hopeful
  BY <1>1, <1>3, CallStarts
<1>5. ASSUME InReach(start) PROVE 2 * B <= 3 * Shortest(start)
  <2>1. B <= Shortest(start) /\ Shortest(start) \in Nat
    BY <1>1, <1>5, ShortestFacts, NearFacts
  <2> QED
    BY <1>3, <2>1
<1> QED
  BY <1>4, <1>5 DEF SearchInv, Short, Hopeful

(* The heuristic is weighted by 1.5 (main.c:117), and still no solution is *)
(* more than half as long again as any that takes at most Depth moves: the *)
(* control loop (main.c:86-96) never puts the bound higher, for some call  *)
(* has always a shortest solution still to try, or one has been cut off    *)
(* and its evaluation is the next bound, or a smaller one is.              *)
THEOREM SolutionIsShort == Spec => []FoundIsShort
<1>1. Init => PathInv /\ SearchInv
  BY SearchBegins, CallKeepsPath DEF Init, FoundIsAPath, Called
<1>2. PathInv /\ SearchInv /\ [Next]_puzzleVars => (PathInv /\ SearchInv)'
  BY PathIsKept, SearchIsKept
<1>3. PathInv /\ SearchInv => FoundIsShort
  <2> SUFFICES ASSUME PathInv, SearchInv, found # <<>>, start # Solved
               PROVE  /\ found[1].state = Solved
                      /\ \A moves \in 0 .. Depth :
                            IsWithin(start, moves) => 2 * found[1].path_cost <= 3 * moves
    BY DEF FoundIsShort
  <2>1. Solves(found) /\ B \in Int
    BY DEF SearchInv, Results, Visited
  <2>2. found[1].state = Solved
    BY <2>1, SolvedFacts DEF Solves, Board
  <2>3. ASSUME NEW moves \in 0 .. Depth, IsWithin(start, moves)
        PROVE  2 * found[1].path_cost <= 3 * moves
    <3>1. Near(start, moves) /\ InReach(start)
      BY <2>3 DEF IsWithin, Near, InReach
    <3>2. Shortest(start) \in Nat /\ Shortest(start) <= moves /\ moves \in Int
      BY <3>1, ShortestFacts
    <3>3. 2 * B <= 3 * Shortest(start)
      BY <3>1 DEF SearchInv, Short
    <3>4. found[1].path_cost <= B /\ found[1].path_cost \in Int
      BY <2>1 DEF Solves
    <3> QED
      BY <2>1, <3>2, <3>3, <3>4
  <2> QED
    BY <2>2, <2>3
<1> QED
  BY <1>1, <1>2, <1>3, PTL DEF Spec
=============================================================================
