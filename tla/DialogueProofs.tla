--------------------------- MODULE DialogueProofs ---------------------------
(***************************************************************************)
(* Game's invariants for every secret, every player, every number of       *)
(* attempts and every choice of colours, the truth of its hints, and its   *)
(* refinement of Match; and then what holds of Dialogue however the        *)
(* network cuts the streams: the game in it is the one of module Game, and *)
(* the client's verdict is the server's.  If they are not cut, every       *)
(* attempt is a guess, too.                                                *)
(***************************************************************************)
EXTENDS Dialogue, Counting, FiniteSetTheorems, SequenceTheorems, TLAPS

-----------------------------------------------------------------------------
(* The rules *)

LEMMA ColoursAreUpper == \A colour \in VALID_COLOURS : toupper(colour) = colour
  BY MastermindAssumption DEF toupper, Upper

LEMMA SizeFacts == CODE_SIZE \in Nat /\ IsFiniteSet(Places) /\ Cardinality(Places) = CODE_SIZE
  BY MastermindAssumption, FS_Interval DEF Places

(* All places of a guess are right if and only if it is the code.          *)
LEMMA AllRight ==
    ASSUME NEW guess, NEW code \in Codes
    PROVE  rightincode(guess, code) = CODE_SIZE <=> Same(guess, code)
<1> DEFINE right == {i \in Places : toupper(guess[i]) = code[i]}
<1>1. \A i \in Places : toupper(code[i]) = code[i]
  BY ColoursAreUpper DEF Codes
<1>2. Same(guess, code) <=> right = Places
  BY <1>1 DEF Same
<1>3. Cardinality(right) = CODE_SIZE <=> right = Places
  BY SizeFacts, FS_Subset, right \subseteq Places
<1> QED
  BY <1>2, <1>3 DEF rightincode

(* main and randomcode make codes that are valid as they stand.            *)
LEMMA SecretIsCode ==
    ASSUME NEW argument
    PROVE  SecretOf(argument) \in Codes \cup {<<>>}
  BY ColoursAreUpper DEF SecretOf, validcode, Codes

-----------------------------------------------------------------------------
(* The inductive invariant: a game that goes on has not been decided, and  *)
(* that is why moves, which a break leaves alone, never becomes zero.      *)

Undecided == connected => reply_buffer \notin {SUCCESS, GAME_OVER}
IInv == TypeOK /\ Undecided /\ ExactGuessWins

LEMMA Initially == Init => IInv
<1> SUFFICES ASSUME Init PROVE IInv
  OBVIOUS
<1>1. secret_code \in Codes \cup {<<>>} /\ game_code \in Codes
  <2>1. PICK argument \in Arguments \cup {<<>>} : secret_code = SecretOf(argument)
    BY DEF Init
  <2>2. secret_code \in Codes \cup {<<>>}
    BY <2>1, SecretIsCode
  <2>3. CASE validcode(secret_code)
    <3>1. Len(secret_code) = CODE_SIZE
      BY <2>3 DEF validcode
    <3>2. secret_code # <<>>
      BY <3>1, MastermindAssumption
    <3> QED
      BY <2>2, <2>3, <3>2 DEF Init
  <2>4. CASE ~validcode(secret_code)
    BY <2>2, <2>4 DEF Init, randomcodes, Codes
  <2> QED
    BY <2>3, <2>4
<1>2. moves \in 1 .. MAX_ATTEMPTS
  BY GameAssumption DEF Init
<1> QED
  BY <1>1, <1>2 DEF Init, IInv, TypeOK, Undecided, ExactGuessWins, EMPTY, SUCCESS, GAME_OVER

(* The answer to a guess, by the three cases a match has.                  *)
LEMMA AnswerFacts ==
    ASSUME TypeOK, NEW guess, Answer(guess)
    PROVE  /\ reply_buffer' \in {SUCCESS, INVALID, GAME_OVER, HINT}
           /\ reply_buffer' = SUCCESS <=> Len(guess) = CODE_SIZE /\ Same(guess, game_code)
           /\ reply_buffer' # SUCCESS => (reply_buffer' = GAME_OVER <=> moves = 1)
<1> USE DEF SUCCESS, INVALID, GAME_OVER, HINT
<1>1. CASE ~validcode(guess)
  <2>1. ~(Len(guess) = CODE_SIZE /\ Same(guess, game_code))
    BY <1>1, ColoursAreUpper DEF TypeOK, validcode, Same, Codes
  <2> QED
    BY <1>1, <2>1 DEF Answer, Refusal
<1>2. CASE validcode(guess)
  <2>1. Len(guess) = CODE_SIZE
    BY <1>2 DEF validcode
  <2>2. rightincode(guess, game_code) = CODE_SIZE <=> Same(guess, game_code)
    BY AllRight DEF TypeOK
  <2>3. makeguess(guess, game_code, moves) = "CORRECT" <=> Same(guess, game_code)
    BY <2>2 DEF makeguess
  <2>4. ~Same(guess, game_code) =>
            (makeguess(guess, game_code, moves) = "OUT_OF_MOVES" <=> moves = 1)
    BY <2>2 DEF makeguess
  <2>5. makeguess(guess, game_code, moves) \in {"CORRECT", "OUT_OF_MOVES", "INCORRECT"}
    BY DEF makeguess
  <2>6. reply_buffer' = Reply[makeguess(guess, game_code, moves)]
    BY <1>2, Zenon DEF Answer
  <2>7. /\ Reply["CORRECT"] = "SUCCESS" /\ Reply["OUT_OF_MOVES"] = "GAME_OVER"
        /\ Reply["INCORRECT"] = "Server's hint"
    BY DEF Reply
  <2>8. CASE Same(guess, game_code)
    BY <2>1, <2>3, <2>6, <2>7, <2>8
  <2>9. CASE ~Same(guess, game_code)
    <3>1. CASE moves = 1
      BY <2>4, <2>6, <2>7, <2>9, <3>1
    <3>2. CASE moves # 1
      BY <2>3, <2>4, <2>5, <2>6, <2>7, <2>9, <3>2
    <3> QED
      BY <3>1, <3>2
  <2> QED
    BY <2>8, <2>9
<1> QED
  BY <1>1, <1>2

LEMMA GuessKeepsIInv ==
    ASSUME IInv, NEW line \in Lines, Guess(line)
    PROVE  IInv'
<1> DEFINE guess == WithoutNewline(line)
<1>1. /\ reply_buffer' \in {SUCCESS, INVALID, GAME_OVER, HINT}
      /\ reply_buffer' = SUCCESS <=> Len(guess) = CODE_SIZE /\ Same(guess, game_code)
      /\ reply_buffer' # SUCCESS => (reply_buffer' = GAME_OVER <=> moves = 1)
  BY AnswerFacts DEF IInv, Guess
<1>2. TypeOK'
  <2>1. moves' \in 1 .. MAX_ATTEMPTS
    <3>1. moves \in 1 .. MAX_ATTEMPTS
      BY DEF IInv, TypeOK
    <3>2. CASE connected'
      <4>1. reply_buffer' \notin {SUCCESS, GAME_OVER} /\ moves' = moves - 1
        BY <3>2, Zenon DEF Guess
      <4>2. moves # 1
        BY <1>1, <4>1
      <4> QED
        BY <3>1, <4>1, <4>2, GameAssumption
    <3>3. CASE ~connected'
      <4>1. moves' = moves
        BY <3>3, Zenon DEF Guess
      <4> QED
        BY <3>1, <4>1
    <3> QED
      BY <3>2, <3>3
  <2> QED
    BY <1>1, <2>1 DEF IInv, TypeOK, Guess
<1>3. Undecided'
  BY DEF Undecided, Guess
<1>4. ExactGuessWins'
  BY <1>1 DEF ExactGuessWins, Guess, Same
<1> QED
  BY <1>2, <1>3, <1>4 DEF IInv

LEMMA HangUpKeepsIInv ==
    ASSUME IInv, HangUp
    PROVE  IInv'
  BY DEF IInv, HangUp, TypeOK, Undecided, ExactGuessWins, EMPTY, SUCCESS, GAME_OVER, Same

LEMMA Preserved == IInv /\ [Next]_gameVars => IInv'
<1> SUFFICES ASSUME IInv, [Next]_gameVars PROVE IInv'
  OBVIOUS
<1>1. CASE Next
  BY <1>1, GuessKeepsIInv, HangUpKeepsIInv DEF Next
<1>2. CASE UNCHANGED gameVars
  BY <1>2 DEF gameVars, IInv, TypeOK, Undecided, ExactGuessWins, Same
<1> QED
  BY <1>1, <1>2

LEMMA Invariance == Spec => []IInv
  BY Initially, Preserved, PTL DEF Spec

-----------------------------------------------------------------------------
(* Theorems *)

(* The secret of every game is a code in upper case, and moves is never    *)
(* zero: the loop is always left by a break (server.c:265-328).            *)
THEOREM TypeCorrect == Spec => []TypeOK
  BY Invariance, PTL DEF IInv

(* A guess wins exactly if it is the code but for case (server.c:140,      *)
(* 277-303), whatever the secret, the size of the code and the colours.    *)
THEOREM ExactGuessesWin == Spec => []ExactGuessWins
  BY Invariance, PTL DEF IInv

LEMMA MatchInitially == Init => M!MatchInit
  BY DEF Init, M!MatchInit, EMPTY, SUCCESS, GAME_OVER

LEMMA StepIsAttempt ==
    ASSUME IInv, Next
    PROVE  M!MatchNext
<1> USE DEF SUCCESS, INVALID, GAME_OVER, HINT, EMPTY
<1>1. CASE HangUp
  <2>1. M!Abandon
    BY <1>1 DEF HangUp, M!Abandon, IInv, Undecided
  <2> QED
    BY <2>1 DEF M!MatchNext
<1>2. ASSUME NEW line \in Lines, Guess(line) PROVE M!MatchNext
  <2> DEFINE right == reply_buffer' = SUCCESS
  <2>1. /\ reply_buffer' \in {SUCCESS, INVALID, GAME_OVER, HINT}
        /\ reply_buffer' # SUCCESS => (reply_buffer' = GAME_OVER <=> moves = 1)
    BY <1>2, AnswerFacts DEF IInv, Guess
  <2>2. /\ connected /\ reply_buffer \notin {SUCCESS, GAME_OVER}
        /\ moves \in Nat /\ moves > 0
    <3>1. connected /\ (connected => reply_buffer \notin {SUCCESS, GAME_OVER})
      BY <1>2, Zenon DEF Guess, IInv, Undecided
    <3>2. moves \in Nat /\ moves > 0
      <4>1. moves \in 1 .. MAX_ATTEMPTS
        BY Zenon DEF IInv, TypeOK
      <4> QED
        BY <4>1, GameAssumption
    <3> QED
      BY <3>1, <3>2, Zenon
  <2>3. /\ connected' = (reply_buffer' \notin {SUCCESS, GAME_OVER})
        /\ moves' = IF connected' THEN moves - 1 ELSE moves
    BY <1>2 DEF Guess
  <2>4. M!Attempt(right)
    BY <2>1, <2>2, <2>3 DEF M!Attempt
  <2> QED
    BY <2>4 DEF M!MatchNext
<1> QED
  BY <1>1, <1>2 DEF Next

(* The loop over the guesses plays a match: no line that is read is lost,  *)
(* counted twice or free of charge (server.c:265-328).                     *)
THEOREM GameIsMatch == Spec => ImplementsMatch
<1>1. IInv /\ [Next]_gameVars => [M!MatchNext]_gameVars
  BY StepIsAttempt
<1> QED
  BY Invariance, MatchInitially, <1>1, PTL DEF Spec, ImplementsMatch

-----------------------------------------------------------------------------
(* The hint *)

Common(guess, code) ==
    [colour \in VALID_COLOURS |-> Min({CountOf(colour, guess), CountOf(colour, code)})]
AddsColours(guess, code, g) ==
    g = [s \in SUBSET VALID_COLOURS |->
            IF s = {} THEN 0
            ELSE Min({CountOf(Pick(s), guess), CountOf(Pick(s), code)}) + g[s \ {Pick(s)}]]

LEMMA ColoursAreFinite == IsFiniteSet(VALID_COLOURS)
<1>1. IsFiniteSet({"A", "B", "C", "D", "E", "F"})
  <2>1. IsFiniteSet({} \cup {"A"} \cup {"B"} \cup {"C"} \cup {"D"} \cup {"E"} \cup {"F"})
    BY FS_EmptySet, FS_AddElement
  <2>2. {} \cup {"A"} \cup {"B"} \cup {"C"} \cup {"D"} \cup {"E"} \cup {"F"}
            = {"A", "B", "C", "D", "E", "F"}
    OBVIOUS
  <2> QED
    BY <2>1, <2>2
<1> QED
  BY <1>1, MastermindAssumption, FS_Subset

LEMMA CountInCodeIsSum ==
    ASSUME NEW guess, NEW code
    PROVE  countincode(guess, code) = Sum(Common(guess, code), VALID_COLOURS)
<1>1. countincode(guess, code) = (CHOOSE g : AddsColours(guess, code, g))[VALID_COLOURS]
  BY DEF countincode, MapThenSumSet, MapThenFoldSet, AddsColours, Pick
<1>2. ASSUME NEW g
      PROVE  AddsColours(guess, code, g) <=> Adds(Common(guess, code), VALID_COLOURS, g)
  <2>1. \A s \in SUBSET VALID_COLOURS : s # {} =>
            Common(guess, code)[Pick(s)]
                = Min({CountOf(Pick(s), guess), CountOf(Pick(s), code)})
    BY PickIsIn DEF Common
  <2> QED
    BY <2>1 DEF AddsColours, Adds
<1>3. PICK g : /\ Adds(Common(guess, code), VALID_COLOURS, g)
               /\ countincode(guess, code) = g[VALID_COLOURS]
  BY <1>1, <1>2, ColoursAreFinite, AddsExists
<1>4. PICK h : /\ Adds(Common(guess, code), VALID_COLOURS, h)
               /\ Sum(Common(guess, code), VALID_COLOURS) = h[VALID_COLOURS]
  BY ColoursAreFinite, AddsExists, SumIsChosen
<1> QED
  BY <1>3, <1>4, ColoursAreFinite, AddsUnique

(* What a valid guess and a code have in common is what can be made right  *)
(* by rearranging the guess.                                               *)
LEMMA CommonIsBest ==
    ASSUME NEW guess, validcode(guess), game_code \in Codes
    PROVE  /\ Reordered(guess, countincode(guess, game_code))
           /\ \A k : Reordered(guess, k) => k <= countincode(guess, game_code)
           /\ rightincode(guess, game_code) \in Nat
           /\ countincode(guess, game_code) \in Nat
<1> DEFINE g == [i \in Places |-> toupper(guess[i])]
           c == [i \in Places |-> game_code[i]]
           common == Common(guess, game_code)
           total == Sum(common, VALID_COLOURS)
<1>1. g \in [Places -> VALID_COLOURS] /\ c \in [Places -> VALID_COLOURS]
  BY DEF validcode, Codes
<1>2. \A colour : /\ CountOf(colour, guess) = Cardinality(OfKind(g, Places, colour))
                  /\ CountOf(colour, game_code) = Cardinality(OfKind(c, Places, colour))
  <2> TAKE colour
  <2>1. {i \in Places : toupper(guess[i]) = colour} = OfKind(g, Places, colour)
    BY DEF OfKind
  <2>2. {i \in Places : toupper(game_code[i]) = colour} = OfKind(c, Places, colour)
    BY ColoursAreUpper DEF OfKind, Codes
  <2> QED
    BY <2>1, <2>2 DEF CountOf
<1>3. common = InCommon(g, c, Places, VALID_COLOURS)
  BY <1>2 DEF Common, InCommon
<1>4. Orders(Places) = Rearrangements
  BY DEF Orders, Rearrangements
<1>5. \A p \in Rearrangements : Agreement(guess, p) = Cardinality(InPlace(g, c, Places, p))
  <2> TAKE p \in Rearrangements
  <2>1. \A i \in Places : p[i] \in Places
    BY DEF Rearrangements
  <2>2. {i \in Places : toupper(guess[p[i]]) = game_code[i]} = InPlace(g, c, Places, p)
    BY <2>1 DEF InPlace
  <2> QED
    BY <2>2 DEF Agreement
<1>6. \A p \in Rearrangements : Agreement(guess, p) \in Nat
  <2> TAKE p \in Rearrangements
  <2>1. {i \in Places : toupper(guess[p[i]]) = game_code[i]} \in SUBSET Places
    OBVIOUS
  <2> QED
    BY <2>1, SizeFacts, FS_Subset, FS_CardinalityType DEF Agreement
<1> HIDE DEF g, c, common
<1>7. /\ \A p \in Orders(Places) : Cardinality(InPlace(g, c, Places, p)) <= total
      /\ \E p \in Orders(Places) : Cardinality(InPlace(g, c, Places, p)) = total
  BY <1>1, <1>3, SizeFacts, ColoursAreFinite, BestOrder
<1>8. total = countincode(guess, game_code)
  BY CountInCodeIsSum DEF common
<1>9. rightincode(guess, game_code) \in Nat
  <2>1. {i \in Places : toupper(guess[i]) = game_code[i]} \in SUBSET Places
    OBVIOUS
  <2> QED
    BY <2>1, SizeFacts, FS_Subset, FS_CardinalityType DEF rightincode
<1> HIDE DEF total
<1> QED
  BY <1>4, <1>5, <1>6, <1>7, <1>8, <1>9 DEF Reordered

LEMMA GuessKeepsHint ==
    ASSUME IInv, NEW line \in Lines, Guess(line)
    PROVE  HintIsTrue'
<1> DEFINE guess == WithoutNewline(line)
           right == rightincode(guess, game_code)
           count == countincode(guess, game_code)
<1>1. /\ buffer' = guess /\ Answer(guess) /\ game_code' = game_code /\ game_code \in Codes
  BY DEF Guess, IInv, TypeOK
<1> SUFFICES ASSUME reply_buffer' = HINT PROVE HintIsTrue'
  BY DEF HintIsTrue
<1>2. validcode(guess)
  BY <1>1 DEF Answer, Refusal, INVALID, GAME_OVER, HINT
<1>3. hint' = <<right, count - right>>
  BY <1>1, <1>2 DEF Answer
<1>4. /\ Reordered(guess, count) /\ \A k : Reordered(guess, k) => k <= count
      /\ right \in Nat /\ count \in Nat
  BY <1>1, <1>2, CommonIsBest
<1>5. right = Cardinality({i \in Places : toupper(guess[i]) = game_code[i]})
  BY DEF rightincode
<1> HIDE DEF guess, right, count
<1>6. hint'[1] = right /\ hint'[1] + hint'[2] = count
  BY <1>3, <1>4
<1>7. hint'[1] = Cardinality({i \in Places : toupper(buffer'[i]) = game_code'[i]})
  BY <1>1, <1>5, <1>6
<1>8. \A k : Reordered(guess, k) <=>
            \E p \in Rearrangements :
                Cardinality({i \in Places : toupper(buffer'[p[i]]) = game_code'[i]}) = k
  BY <1>1 DEF Reordered, Agreement
<1>9. Reordered(guess, hint'[1] + hint'[2])
  BY <1>4, <1>6
<1>10. \A k \in hint'[1] + hint'[2] + 1 .. CODE_SIZE : ~Reordered(guess, k)
  BY <1>4, <1>6, SizeFacts
<1> QED
  BY <1>7, <1>8, <1>9, <1>10, Zenon DEF HintIsTrue, Reordered, Agreement

(* The colours that are right where they are, and the most that can be     *)
(* right if the guess is rearranged: what the hint tells the player is     *)
(* true for every size of the code, all colours and every guess, whatever  *)
(* its case (countincode and rightincode, server.c:298-300).               *)
THEOREM HintsAreTrue == Spec => []HintIsTrue
<1>1. Init => HintIsTrue
  BY DEF Init, HintIsTrue, EMPTY, HINT
<1>2. IInv /\ HintIsTrue /\ [Next]_gameVars => HintIsTrue'
  <2> SUFFICES ASSUME IInv, HintIsTrue, [Next]_gameVars PROVE HintIsTrue'
    OBVIOUS
  <2>1. CASE HangUp
    BY <2>1 DEF HangUp, HintIsTrue, EMPTY, HINT
  <2>2. CASE UNCHANGED gameVars
    <3>1. UNCHANGED <<reply_buffer, hint, buffer, game_code>>
      BY <2>2 DEF gameVars
    <3> QED
      BY <3>1, ZenonT(30) DEF HintIsTrue, Reordered, Agreement
  <2> QED
    BY <2>1, <2>2, GuessKeepsHint DEF Next
<1> QED
  BY <1>1, <1>2, Invariance, PTL DEF Spec

-----------------------------------------------------------------------------
(* The server's loop over the guesses *)

LEMMA GameInDialogue == [DialogueNext]_dialogueVars => [Next]_gameVars
<1> SUFFICES ASSUME [DialogueNext]_dialogueVars PROVE Next \/ UNCHANGED gameVars
  OBVIOUS
<1>1. CASE ReadGuess
  BY <1>1, DialogueAssumption DEF ReadGuess, Next
<1>2. CASE ReadNothing
  BY <1>2 DEF ReadNothing, Next
<1>3. CASE SendLine \/ ReadAck \/ SendReply \/ Close \/ Disconnect
  BY <1>3 DEF SendLine, ReadAck, SendReply, Close, Disconnect
<1>4. CASE ClientStep
  BY <1>4 DEF ClientStep, ReadWelcome, Type, TypeNothing, Quit, ReadReply
<1>5. CASE UNCHANGED dialogueVars
  BY <1>5 DEF dialogueVars
<1> QED
  BY <1>1, <1>2, <1>3, <1>4, <1>5 DEF DialogueNext, ServerStep

(* A client that gets out of step, goes away or ends its input does not    *)
(* take the server's loop off its course: what the acknowledgements and    *)
(* the cut messages of client.c make it do is a behaviour of Game          *)
(* (server.c:256-328), and what is proved of Game holds.                   *)
THEOREM DialogueIsGame == DialogueSpec => Spec
<1>1. DialogueInit => Init
  BY DEF DialogueInit
<1> QED
  BY <1>1, GameInDialogue, PTL DEF DialogueSpec, Spec

(* In particular every dialogue is a match of MAX_ATTEMPTS attempts        *)
(* (server.c:265-328).                                                     *)
THEOREM DialogueIsMatch == DialogueSpec => ImplementsMatch
  BY DialogueIsGame, GameIsMatch, PTL

-----------------------------------------------------------------------------
(* The client's verdict *)

Verdicts == {SUCCESS, GAME_OVER}
Messages == {TEXT, END, INVALID, HINT, DISCONNECTED} \cup Verdicts

(* What can be on its way to the client: no verdict but that of a game     *)
(* that is over.                                                           *)
MayArrive == {m \in Messages : m \in Verdicts => ~connected /\ reply_buffer = m}

Agree ==
    /\ toClient \in Seq(MayArrive)
    /\ client = "won" => ~connected /\ reply_buffer = SUCCESS
    /\ client = "lost" => ~connected /\ reply_buffer = GAME_OVER

LEMMA Words ==
    /\ {TEXT, END, DISCONNECTED, INVALID, HINT} \cap Verdicts = {}
    /\ SUCCESS # GAME_OVER /\ EMPTY \notin Verdicts
  BY DEF TEXT, END, DISCONNECTED, INVALID, HINT, Verdicts, SUCCESS, GAME_OVER, EMPTY

LEMMA MessageIsSent ==
    ASSUME NEW S, NEW stream \in Seq(S), NEW m \in S
    PROVE  stream \o Message(m) \in Seq(S)
<1>1. <<m, m>> \in Seq(S)
  OBVIOUS
<1> QED
  BY <1>1 DEF Message

LEMMA PartIsRead ==
    ASSUME NEW S, NEW stream \in Seq(S), NEW k \in Reads(stream)
    PROVE  /\ Rest(stream, k) \in Seq(S)
           /\ \A m : Taken(stream, k) = Message(m) => m \in S
<1>1. k \in 1 .. Len(stream) /\ Len(stream) \in Nat
  BY DEF Reads
<1>2. Rest(stream, k) \in Seq(S)
  BY <1>1 DEF Rest
<1>3. Taken(stream, k)[1] = stream[1] /\ stream[1] \in S
  BY <1>1 DEF Taken
<1>4. \A m : Message(m)[1] = m
  BY DEF Message
<1> QED
  BY <1>2, <1>3, <1>4

(* Once the game is over neither the verdict nor the flag changes.         *)
LEMMA VerdictStays ==
    ASSUME [DialogueNext]_dialogueVars
    PROVE  /\ ~connected => ~connected' /\ reply_buffer' = reply_buffer
           /\ MayArrive \subseteq MayArrive'
<1>1. ~connected => UNCHANGED gameVars
  BY GameInDialogue DEF Next, HangUp, Guess
<1>2. ~connected => ~connected' /\ reply_buffer' = reply_buffer
  BY <1>1 DEF gameVars
<1> QED
  BY <1>2 DEF MayArrive

LEMMA AgreeStep ==
    ASSUME IInv, Agree, [DialogueNext]_dialogueVars
    PROVE  Agree'
<1>1. toClient \in Seq(MayArrive')
  BY VerdictStays DEF Agree
<1>2. ASSUME toClient' \in Seq(MayArrive'), client' = client PROVE Agree'
  BY <1>2, VerdictStays DEF Agree
<1>3. ASSUME toClient' \in Seq(MayArrive'), client' \notin {"won", "lost"} PROVE Agree'
  BY <1>3 DEF Agree
<1>4. ASSUME NEW m \in Messages, toClient' = toClient \o Message(m), client' = client,
             m \in Verdicts => ~connected /\ reply_buffer = m
      PROVE  Agree'
  <2>1. m \in MayArrive'
    BY <1>4, VerdictStays DEF MayArrive
  <2> QED
    BY <1>1, <1>2, <1>4, <2>1, MessageIsSent
<1>5. CASE SendLine
  <2>1. PICK m \in {TEXT, END} : toClient' = toClient \o Message(m)
    BY <1>5 DEF SendLine
  <2>2. m \in Messages /\ m \notin Verdicts
    BY <2>1, Words DEF Messages
  <2> QED
    BY <1>4, <1>5, <2>1, <2>2 DEF SendLine
<1>6. CASE SendReply
  <2>1. reply_buffer \in Verdicts => ~connected
    BY Zenon DEF IInv, Undecided, Verdicts
  <2>2. CASE reply_buffer = EMPTY
    BY <1>1, <1>2, <1>6, <2>2 DEF SendReply
  <2>3. CASE reply_buffer # EMPTY
    <3>1. reply_buffer \in Messages
      BY <2>3 DEF IInv, TypeOK, Messages, Verdicts
    <3> QED
      BY <1>4, <1>6, <2>1, <2>3, <3>1 DEF SendReply
  <2> QED
    BY <2>2, <2>3
<1>7. CASE Disconnect
  <2>1. DISCONNECTED \in Messages /\ DISCONNECTED \notin Verdicts
    BY Words DEF Messages
  <2> QED
    BY <1>4, <1>7, <2>1 DEF Disconnect
<1>8. CASE ReadAck \/ ReadGuess \/ ReadNothing \/ Close \/ UNCHANGED dialogueVars
  BY <1>1, <1>2, <1>8 DEF ReadAck, ReadGuess, ReadNothing, Close, dialogueVars
<1>9. CASE ReadWelcome
  <2>1. toClient' \in Seq(MayArrive')
    <3>1. CASE \E k \in Reads(toClient) : toClient' = Rest(toClient, k)
      BY <1>1, <3>1, PartIsRead
    <3>2. CASE UNCHANGED toClient
      BY <1>1, <3>2
    <3> QED
      BY <1>9, <3>1, <3>2 DEF ReadWelcome
  <2>2. client' \in {"welcome", "typing", "killed"}
    BY <1>9 DEF ReadWelcome, Write
  <2> QED
    BY <1>3, <2>1, <2>2
<1>10. CASE Type \/ TypeNothing \/ Quit
  BY <1>1, <1>3, <1>10 DEF Type, TypeNothing, Quit, Write
<1>11. CASE ReadReply
  <2>1. CASE UNCHANGED toClient /\ client' = "typing"
    BY <1>1, <1>3, <2>1
  <2>2. ASSUME NEW k \in Reads(toClient), toClient' = Rest(toClient, k),
               client' = AfterReply(Taken(toClient, k))
        PROVE  Agree'
    <3>1. /\ toClient' \in Seq(MayArrive')
          /\ \A m : Taken(toClient, k) = Message(m) => m \in MayArrive'
      BY <1>1, <2>2, PartIsRead
    <3>2. client' = "won" => SUCCESS \in MayArrive'
      BY <2>2, <3>1 DEF AfterReply
    <3>3. client' = "lost" => GAME_OVER \in MayArrive'
      BY <2>2, <3>1 DEF AfterReply
    <3> QED
      BY <3>1, <3>2, <3>3 DEF Agree, MayArrive, Verdicts
  <2> QED
    BY <1>11, <2>1, <2>2 DEF ReadReply
<1> QED
  BY <1>5, <1>6, <1>7, <1>8, <1>9, <1>10, <1>11 DEF DialogueNext, ServerStep, ClientStep

LEMMA AgreeAlways == DialogueSpec => [](IInv /\ Agree)
<1>1. DialogueInit => Agree
  BY DEF DialogueInit, Agree
<1>2. IInv /\ Agree /\ [DialogueNext]_dialogueVars => Agree'
  BY AgreeStep
<1> QED
  BY <1>1, <1>2, DialogueIsGame, Invariance, PTL DEF DialogueSpec

(* The client congratulates the player only on a game that was won, and    *)
(* consoles only over one that was lost, even if the two sides have lost   *)
(* each other (client.c:106-121).                                          *)
THEOREM ClientAndServerAgree == DialogueSpec => []VerdictsAgree
<1>1. Agree => VerdictsAgree
  BY DEF Agree, VerdictsAgree
<1> QED
  BY <1>1, AgreeAlways, PTL

-----------------------------------------------------------------------------
(* Client and server in step, when writes arrive whole *)

(* What is on its way, by where the server is: one line of the welcome or  *)
(* its acknowledgement, then one guess or its reply.                       *)
Welcoming ==
    \/ /\ client = "welcome" /\ toServer = <<>>
       /\ toClient = Message(IF lines = 1 THEN END ELSE TEXT)
    \/ /\ client = "welcome" /\ lines # 1
       /\ toServer = <<ACK>> /\ toClient = <<>>
    \/ /\ client # "welcome" /\ lines = 1 /\ toClient = <<>>
       /\ toServer = <<ACK>> \/ (toServer = <<ACK, GUESS>> /\ client # "typing")
Asking ==
    /\ client # "welcome" /\ toServer \in {<<>>, <<GUESS>>}
    /\ client = "typing" => toServer = <<>> /\ toClient = <<>>
    /\ client = "reply" => toServer = <<>> \/ toClient = <<>>
Answering ==
    /\ client \notin {"welcome", "typing"} /\ toServer = <<>>
    /\ client = "reply" => toClient = <<>>
InStep ==
    whole /\ ~ServerEnded =>
        /\ toServer \in Seq({ACK, GUESS})
        /\ server = "line" => client = "welcome" /\ toServer = <<>> /\ toClient = <<>>
        /\ server = "ack" => Welcoming
        /\ server = "guess" => Asking
        /\ server = "reply" => Answering
        /\ server = "closing" => client # "welcome"
        /\ server \in {"line", "ack", "guess", "reply", "closing"}

LEMMA Tokens == ACK # GUESS
  BY DEF ACK, GUESS

LEMMA WholeIsRead ==
    ASSUME whole, NEW S, NEW stream \in Seq(S), NEW k \in Reads(stream)
    PROVE  Rest(stream, k) = <<>> /\ Taken(stream, k) = stream /\ stream # <<>>
<1>1. k = Len(stream) /\ k # 0
  BY DEF Reads
<1>2. Len(stream) \in Nat
  OBVIOUS
<1>3. SubSeq(stream, Len(stream) + 1, Len(stream)) = <<>>
  BY <1>2
<1>4. SubSeq(stream, 1, Len(stream)) = stream
  BY <1>2
<1> QED
  BY <1>1, <1>2, <1>3, <1>4 DEF Rest, Taken

LEMMA NothingToRead == whole => Reads(<<>>) = {}
  BY DEF Reads

(* A write to a server that is there is delivered.                         *)
LEMMA Delivered ==
    ASSUME ~ServerEnded, NEW m, NEW next, Write(m, next)
    PROVE  client' = next /\ toServer' = Append(toServer, m)
  BY DEF Write

(* Streams of one and two pieces.                                         *)
LEMMA Pairs ==
    ASSUME NEW a, NEW b
    PROVE  /\ Append(<<>>, a) = <<a>> /\ Append(<<a>>, b) = <<a, b>>
           /\ Rest(<<a>>, 1) = <<>> /\ Rest(<<a, b>>, 1) = <<b>>
           /\ <<a>> # <<a, b>>
<1>1. Append(<<>>, a) = <<a>>
  OBVIOUS
<1>2. Append(<<a>>, b) = <<a, b>>
  <2>1. <<a>> \in Seq({a, b}) /\ <<a, b>> \in Seq({a, b})
    OBVIOUS
  <2>2. /\ Append(<<a>>, b) \in Seq({a, b}) /\ Len(Append(<<a>>, b)) = 2
        /\ Append(<<a>>, b)[1] = a /\ Append(<<a>>, b)[2] = b
    BY <2>1
  <2>3. Len(<<a, b>>) = 2 /\ <<a, b>>[1] = a /\ <<a, b>>[2] = b
    OBVIOUS
  <2>4. \A i \in 1 .. 2 : i = 1 \/ i = 2
    OBVIOUS
  <2> QED
    BY <2>1, <2>2, <2>3, <2>4, SeqEqual
<1>3. Rest(<<a>>, 1) = <<>>
  <2>1. Len(<<a>>) = 1
    OBVIOUS
  <2>2. SubSeq(<<a>>, 2, 1) = <<>>
    OBVIOUS
  <2> QED
    BY <2>1, <2>2 DEF Rest
<1>4. Rest(<<a, b>>, 1) = <<b>>
  <2>1. Len(<<a, b>>) = 2 /\ <<a, b>> \in Seq({a, b}) /\ <<b>> \in Seq({a, b})
    OBVIOUS
  <2>2. SubSeq(<<a, b>>, 2, 2) \in Seq({a, b}) /\ Len(SubSeq(<<a, b>>, 2, 2)) = 1
        /\ SubSeq(<<a, b>>, 2, 2)[1] = b
    BY <2>1
  <2>3. SubSeq(<<a, b>>, 2, 2) = <<b>>
    <3>1. Len(<<b>>) = 1 /\ <<b>>[1] = b
      OBVIOUS
    <3>2. \A i \in 1 .. 1 : i = 1
      OBVIOUS
    <3> QED
      BY <2>1, <2>2, <3>1, <3>2, SeqEqual
  <2> QED
    BY <2>1, <2>3 DEF Rest
<1>5. <<a>> # <<a, b>>
  <2>1. Len(<<a>>) = 1 /\ Len(<<a, b>>) = 2
    OBVIOUS
  <2> QED
    BY <2>1
<1> QED
  BY <1>1, <1>2, <1>3, <1>4, <1>5

LEMMA AcknowledgementIsRead ==
    ASSUME whole, toServer \in {<<ACK>>, <<ACK, GUESS>>}, NEW k \in ServerReads
    PROVE  Rest(toServer, k) = IF toServer = <<ACK>> THEN <<>> ELSE <<GUESS>>
<1>1. k = 1
  BY DEF ServerReads
<1> QED
  BY <1>1, Pairs

LEMMA GuessIsRead ==
    ASSUME whole, toServer \in {<<>>, <<GUESS>>}, NEW k \in ServerReads
    PROVE  toServer = <<GUESS>> /\ Rest(toServer, k) = <<>> /\ Head(toServer) # ACK
<1>1. toServer # <<>>
  BY NothingToRead DEF ServerReads
<1>2. toServer = <<GUESS>> /\ Head(toServer) = GUESS
  BY <1>1
<1>3. k \in Reads(toServer)
  BY <1>1, <1>2, Tokens DEF ServerReads
<1>4. toServer \in Seq({GUESS})
  BY <1>2
<1> QED
  BY <1>2, <1>3, <1>4, Tokens, WholeIsRead

LEMMA EndIsLast ==
    ASSUME NEW m \in {TEXT, END}, NEW last \in IsTwoBytes(Message(m))
    PROVE  last = (m = END)
  BY DEF IsTwoBytes, Message

LEMMA WelcomeStep ==
    ASSUME whole, ~ServerEnded, server = "ack", Welcoming, ReadWelcome
    PROVE  Welcoming' /\ toServer' = <<ACK>>
<1>1. client = "welcome" /\ UNCHANGED <<server, lines, whole>>
  BY DEF ReadWelcome
<1>2. PICK k \in Reads(toClient) :
        /\ toClient' = Rest(toClient, k)
        /\ \E last \in IsTwoBytes(Taken(toClient, k)) :
            Write(ACK, IF last THEN "typing" ELSE "welcome")
  BY DEF ReadWelcome
<1>3. toClient # <<>>
  BY <1>2, NothingToRead
<1>4. toServer = <<>> /\ toClient = Message(IF lines = 1 THEN END ELSE TEXT)
  BY <1>1, <1>3 DEF Welcoming
<1>5. PICK m \in {TEXT, END} : m = (IF lines = 1 THEN END ELSE TEXT) /\ toClient = Message(m)
  BY <1>4
<1>6. m = END <=> lines = 1
  BY <1>5 DEF TEXT, END
<1>7. toClient \in Seq({m})
  BY <1>5 DEF Message
<1>8. toClient' = <<>> /\ Taken(toClient, k) = Message(m)
  BY <1>2, <1>5, <1>7, WholeIsRead
<1>9. PICK last \in IsTwoBytes(Message(m)) : Write(ACK, IF last THEN "typing" ELSE "welcome")
  BY <1>2, <1>8
<1>10. client' = (IF lines = 1 THEN "typing" ELSE "welcome") /\ toServer' = <<ACK>>
  <2>1. last = (m = END)
    BY EndIsLast
  <2>2. client' = (IF last THEN "typing" ELSE "welcome") /\ toServer' = Append(toServer, ACK)
    BY <1>9, Delivered
  <2>3. toServer' = <<ACK>>
    BY <1>4, <2>2, Pairs
  <2> QED
    BY <1>6, <2>1, <2>2, <2>3
<1> QED
  BY <1>1, <1>8, <1>10 DEF Welcoming

(* The network does not change, and a server that has ended does not come back. *)
LEMMA EndsForGood ==
    ASSUME [DialogueNext]_dialogueVars
    PROVE  whole' = whole /\ (ServerEnded => ServerEnded')
<1>1. whole' = whole
  BY DEF DialogueNext, ServerStep, ClientStep, SendLine, ReadAck, ReadGuess, ReadNothing,
         SendReply, Close, Disconnect, ReadWelcome, Type, TypeNothing, Quit, ReadReply,
         dialogueVars
<1>2. ServerEnded => server' = server
  BY DEF DialogueNext, ServerStep, ClientStep, SendLine, ReadAck, ReadGuess, ReadNothing,
         SendReply, Close, Disconnect, ReadWelcome, Type, TypeNothing, Quit, ReadReply,
         dialogueVars, ServerEnded
<1> QED
  BY <1>1, <1>2 DEF ServerEnded

LEMMA InStepKept ==
    ASSUME Agree, InStep, [DialogueNext]_dialogueVars PROVE InStep'
<1> SUFFICES ASSUME whole', ~ServerEnded' PROVE InStep'
  BY DEF InStep
<1>1. whole' = whole /\ ~ServerEnded
  BY EndsForGood
<1>2. /\ whole
      /\ toServer \in Seq({ACK, GUESS})
      /\ server = "line" => client = "welcome" /\ toServer = <<>> /\ toClient = <<>>
      /\ server = "ack" => Welcoming
      /\ server = "guess" => Asking
      /\ server = "reply" => Answering
      /\ server = "closing" => client # "welcome"
      /\ server \in {"line", "ack", "guess", "reply", "closing"}
  BY <1>1 DEF InStep
<1>3. /\ <<>> \in Seq({ACK, GUESS}) /\ <<ACK>> \in Seq({ACK, GUESS})
      /\ <<GUESS>> \in Seq({ACK, GUESS}) /\ <<ACK, GUESS>> \in Seq({ACK, GUESS})
      /\ \A s \in Seq({ACK, GUESS}) : \A m \in {ACK, GUESS} : Append(s, m) \in Seq({ACK, GUESS})
  OBVIOUS
<1>4. CASE SendLine
  <2>1. /\ server = "line" /\ server' = "ack" /\ UNCHANGED <<client, toServer, lines>>
        /\ toClient' = toClient \o Message(IF lines = 1 THEN END ELSE TEXT)
    BY <1>4 DEF SendLine
  <2>2. toClient' = Message(IF lines = 1 THEN END ELSE TEXT)
    BY <1>2, <2>1 DEF Message
  <2>3. Welcoming'
    BY <1>2, <2>1, <2>2 DEF Welcoming, Message
  <2> QED
    BY <1>2, <2>1, <2>3 DEF InStep
<1>5. CASE ReadAck
  <2>1. /\ server = "ack" /\ UNCHANGED <<client, toClient>> /\ TakeAck
        /\ server' = IF lines = 1 THEN "guess" ELSE "line"
    BY <1>5 DEF ReadAck
  <2>2. toServer # <<>>
    <3> SUFFICES ASSUME toServer = <<>> PROVE FALSE
      OBVIOUS
    <3>1. client = "welcome"
      BY <1>2, <2>1 DEF Welcoming
    <3>2. ServerReads = {}
      BY <1>2, NothingToRead DEF ServerReads
    <3> QED
      BY <2>1, <3>1, <3>2 DEF TakeAck, ClientEnded
  <2>3. PICK k \in ServerReads : toServer' = Rest(toServer, k)
    BY <2>1, <2>2 DEF TakeAck
  <2>4. CASE lines = 1
    <3>1. /\ client # "welcome" /\ toClient = <<>>
          /\ toServer = <<ACK>> \/ (toServer = <<ACK, GUESS>> /\ client # "typing")
      BY <1>2, <2>1, <2>2, <2>4 DEF Welcoming
    <3>2. toServer' = IF toServer = <<ACK>> THEN <<>> ELSE <<GUESS>>
      BY <1>2, <2>3, <3>1, AcknowledgementIsRead
    <3>3. Asking'
      BY <2>1, <3>1, <3>2 DEF Asking
    <3>4. toServer' \in Seq({ACK, GUESS})
      BY <1>3, <3>2
    <3> QED
      BY <2>1, <2>4, <3>3, <3>4 DEF InStep
  <2>5. CASE lines # 1
    <3>1. client = "welcome" /\ toServer = <<ACK>> /\ toClient = <<>>
      BY <1>2, <2>1, <2>2, <2>5 DEF Welcoming
    <3>2. toServer' = <<>>
      BY <1>2, <2>3, <3>1, AcknowledgementIsRead
    <3> QED
      BY <1>3, <2>1, <2>5, <3>1, <3>2 DEF InStep
  <2> QED
    BY <2>4, <2>5
<1>6. CASE ReadGuess
  <2>1. server = "guess" /\ server' = "reply" /\ UNCHANGED <<client, toClient>>
    BY <1>6 DEF ReadGuess
  <2>2. PICK k \in ServerReads : toServer' = Rest(toServer, k)
    BY <1>6 DEF ReadGuess
  <2>3. toServer = <<GUESS>> /\ toServer' = <<>>
    BY <1>2, <2>1, <2>2, GuessIsRead DEF Asking
  <2>4. Answering'
    BY <1>2, <2>1, <2>3 DEF Asking, Answering
  <2> QED
    BY <1>3, <2>1, <2>3, <2>4 DEF InStep
<1>7. CASE ReadNothing
  <2>1. /\ server = "guess" /\ server' = "reply" /\ UNCHANGED <<client, toClient, toServer>>
        /\ toServer = <<>> /\ client \notin {"welcome", "typing", "reply"}
    BY <1>7 DEF ReadNothing, ClientEnded
  <2> QED
    BY <1>3, <2>1 DEF InStep, Answering
<1>8. CASE SendReply
  <2>1. /\ server = "reply" /\ server' \in {"guess", "closing"}
        /\ UNCHANGED <<client, toServer>>
    BY <1>8 DEF SendReply
  <2>2. Asking'
    BY <1>2, <2>1 DEF Asking, Answering
  <2> QED
    BY <1>2, <2>1, <2>2 DEF InStep, Asking
<1>9. CASE Close \/ Disconnect
  BY <1>9 DEF Close, Disconnect, ServerEnded
<1>10. CASE ReadWelcome
  <2>1. client = "welcome" /\ server' = server
    BY <1>10 DEF ReadWelcome
  <2>2. server # "line"
    <3> SUFFICES ASSUME server = "line" PROVE FALSE
      OBVIOUS
    <3>1. Reads(toClient) = {}
      BY <1>2, NothingToRead
    <3> QED
      BY <1>1, <1>10, <3>1 DEF ReadWelcome
  <2>3. server = "ack"
    BY <1>2, <2>1, <2>2 DEF Asking, Answering
  <2>4. Welcoming' /\ toServer' = <<ACK>>
    BY <1>1, <1>2, <1>10, <2>3, WelcomeStep
  <2> QED
    BY <1>3, <2>1, <2>3, <2>4 DEF InStep
<1>11. CASE Type
  <2>1. /\ client = "typing" /\ client' = "reply" /\ toServer' = Append(toServer, GUESS)
        /\ UNCHANGED <<server, lines, toClient>>
    BY <1>1, <1>11, Delivered DEF Type
  <2>2. toServer' \in Seq({ACK, GUESS})
    BY <1>2, <1>3, <2>1
  <2>3. CASE server = "ack"
    <3>1. lines = 1 /\ toClient = <<>> /\ toServer = <<ACK>>
      BY <1>2, <2>1, <2>3 DEF Welcoming
    <3>2. toServer' = <<ACK, GUESS>>
      BY <2>1, <3>1, Pairs
    <3> QED
      BY <2>1, <2>2, <2>3, <3>1, <3>2 DEF InStep, Welcoming
  <2>4. CASE server = "guess"
    <3>1. toClient = <<>> /\ toServer = <<>>
      BY <1>2, <2>1, <2>4 DEF Asking
    <3>2. toServer' = <<GUESS>>
      BY <2>1, <3>1
    <3> QED
      BY <2>1, <2>2, <2>4, <3>1, <3>2 DEF InStep, Asking
  <2>5. CASE server = "closing"
    BY <2>1, <2>2, <2>5 DEF InStep
  <2> QED
    BY <1>2, <2>1, <2>3, <2>4, <2>5 DEF Answering
<1>12. CASE TypeNothing \/ Quit
  <2>1. /\ client = "typing" /\ client' \in {"reply", "quit"}
        /\ UNCHANGED <<server, lines, toClient, toServer>>
    BY <1>12 DEF TypeNothing, Quit
  <2>2. server \notin {"line", "reply"}
    BY <1>2, <2>1 DEF Answering
  <2>3. server = "ack" => Welcoming'
    BY <1>2, <2>1 DEF Welcoming
  <2>4. server = "guess" => Asking'
    BY <1>2, <2>1 DEF Asking
  <2> QED
    BY <1>2, <2>1, <2>2, <2>3, <2>4 DEF InStep
<1>13. CASE ReadReply
  <2>1. client = "reply" /\ UNCHANGED <<server, lines, toServer>>
    BY <1>13 DEF ReadReply
  <2>2. PICK k \in Reads(toClient) :
          toClient' = Rest(toClient, k) /\ client' = AfterReply(Taken(toClient, k))
    BY <1>1, <1>13 DEF ReadReply
  <2>3. toClient # <<>>
    BY <1>2, <2>2, NothingToRead
  <2>4. client' # "welcome" /\ client' # "reply"
    BY <2>2 DEF AfterReply
  <2>5. server \in {"guess", "closing"}
    BY <1>2, <2>1, <2>3 DEF Welcoming, Answering
  <2>6. toClient' = <<>>
    BY <1>2, <2>2, WholeIsRead DEF Agree
  <2>7. server = "guess" => Asking'
    BY <1>2, <2>1, <2>3, <2>4, <2>6 DEF Asking
  <2> QED
    BY <1>2, <2>1, <2>4, <2>5, <2>7 DEF InStep
<1>14. CASE UNCHANGED dialogueVars
  BY <1>2, <1>14 DEF dialogueVars, InStep, Welcoming, Asking, Answering
<1> QED
  BY <1>4, <1>5, <1>6, <1>7, <1>8, <1>9, <1>10, <1>11, <1>12, <1>13, <1>14
  DEF DialogueNext, ServerStep, ClientStep

-----------------------------------------------------------------------------
(* What is charged *)

GuessesIn(stream) == Cardinality({k \in DOMAIN stream : stream[k] = GUESS})

LEMMA GuessesAreCounted ==
    ASSUME NEW stream \in Seq({ACK, GUESS})
    PROVE  /\ GuessesIn(stream) \in Nat
           /\ GuessesIn(Append(stream, GUESS)) = GuessesIn(stream) + 1
           /\ GuessesIn(Append(stream, ACK)) = GuessesIn(stream)
<1> DEFINE S == {k \in DOMAIN stream : stream[k] = GUESS}
           n == Len(stream)
<1>1. n \in Nat /\ DOMAIN stream = 1 .. n
  OBVIOUS
<1>2. IsFiniteSet(S) /\ Cardinality(S) \in Nat
  <2>1. IsFiniteSet(1 .. n)
    BY <1>1, FS_Interval
  <2>2. IsFiniteSet(S)
    BY <1>1, <2>1, FS_Subset
  <2> QED
    BY <2>2, FS_CardinalityType
<1>3. ASSUME NEW m \in {ACK, GUESS}
      PROVE  /\ DOMAIN Append(stream, m) = 1 .. n + 1 /\ Append(stream, m)[n + 1] = m
             /\ \A k \in 1 .. n : Append(stream, m)[k] = stream[k]
  BY <1>1
<1>4. {k \in DOMAIN Append(stream, GUESS) : Append(stream, GUESS)[k] = GUESS} = S \cup {n + 1}
  BY <1>1, <1>3
<1>5. {k \in DOMAIN Append(stream, ACK) : Append(stream, ACK)[k] = GUESS} = S
  BY <1>1, <1>3, Tokens
<1>6. n + 1 \notin S
  BY <1>1
<1> HIDE DEF S
<1>7. Cardinality(S \cup {n + 1}) = Cardinality(S) + 1
  BY <1>2, <1>6, FS_AddElement
<1> QED
  BY <1>2, <1>4, <1>5, <1>7 DEF GuessesIn, S

LEMMA ShortStreams ==
    /\ GuessesIn(<<>>) = 0 /\ GuessesIn(<<ACK>>) = 0
    /\ GuessesIn(<<GUESS>>) = 1 /\ GuessesIn(<<ACK, GUESS>>) = 1
<1>1. <<>> \in Seq({ACK, GUESS}) /\ <<ACK>> \in Seq({ACK, GUESS})
  OBVIOUS
<1>2. GuessesIn(<<>>) = 0
  <2>1. {k \in DOMAIN <<>> : <<>>[k] = GUESS} = {}
    OBVIOUS
  <2> QED
    BY <2>1, FS_EmptySet DEF GuessesIn
<1>3. \A stream \in Seq({ACK, GUESS}) :
          /\ GuessesIn(Append(stream, GUESS)) = GuessesIn(stream) + 1
          /\ GuessesIn(Append(stream, ACK)) = GuessesIn(stream)
  BY GuessesAreCounted
<1>4. GuessesIn(<<ACK>>) = GuessesIn(<<>>) /\ GuessesIn(<<GUESS>>) = GuessesIn(<<>>) + 1
  BY <1>1, <1>3, Pairs, Zenon
<1>5. GuessesIn(<<ACK, GUESS>>) = GuessesIn(<<ACK>>) + 1
  BY <1>1, <1>3, Pairs, Zenon
<1> QED
  BY <1>2, <1>4, <1>5

LEMMA GuessIsCharged ==
    ASSUME IInv, NEW line \in Lines, Guess(line)
    PROVE  Charged' = Charged + 1 /\ Charged \in Int
<1>1. /\ moves \in Int /\ MAX_ATTEMPTS \in Int
  BY GameAssumption DEF IInv, TypeOK
<1>2. connected /\ reply_buffer \notin {SUCCESS, GAME_OVER}
  BY Zenon DEF Guess, IInv, Undecided
<1>3. /\ connected' = (reply_buffer' \notin {SUCCESS, GAME_OVER})
      /\ moves' = IF connected' THEN moves - 1 ELSE moves
  BY DEF Guess
<1>4. Charged = MAX_ATTEMPTS - moves
  BY <1>1, <1>2 DEF Charged
<1>5. CASE reply_buffer' \in {SUCCESS, GAME_OVER}
  <2>1. moves' = moves
    BY <1>3, <1>5
  <2> QED
    BY <1>1, <1>4, <1>5, <2>1 DEF Charged
<1>6. CASE reply_buffer' \notin {SUCCESS, GAME_OVER}
  <2>1. moves' = moves - 1
    BY <1>3, <1>6
  <2> QED
    BY <1>1, <1>4, <1>6, <2>1 DEF Charged
<1> QED
  BY <1>1, <1>4, <1>5, <1>6

GuessesCount == guesses \in Nat

LEMMA ChargesStep ==
    ASSUME IInv, Agree, InStep, AttemptsAreGuesses, GuessesCount,
           [DialogueNext]_dialogueVars
    PROVE  AttemptsAreGuesses'
<1> SUFFICES ASSUME whole', ~ServerEnded' PROVE (Charged + Waiting = guesses)'
  BY DEF AttemptsAreGuesses
<1>1. whole /\ ~ServerEnded
  BY EndsForGood
<1>2. /\ toServer \in Seq({ACK, GUESS})
      /\ server = "ack" => Welcoming
      /\ server = "guess" => Asking
  BY <1>1 DEF InStep
<1>3. Charged + GuessesIn(toServer) = guesses /\ Charged \in Int
  <2>1. moves \in Int /\ MAX_ATTEMPTS \in Int
    BY GameAssumption DEF IInv, TypeOK
  <2> QED
    BY <1>1, <2>1 DEF AttemptsAreGuesses, Waiting, GuessesIn, Charged
<1>4. GuessesIn(toServer) \in Nat
  BY <1>2, GuessesAreCounted
<1> SUFFICES Charged' + GuessesIn(toServer') = guesses'
  BY DEF Waiting, GuessesIn
<1>5. UNCHANGED gameVars => Charged' = Charged
  BY DEF gameVars, Charged
<1>6. CASE /\ UNCHANGED gameVars /\ guesses' = guesses
           /\ GuessesIn(toServer') = GuessesIn(toServer)
  BY <1>3, <1>5, <1>6
<1>7. CASE SendLine \/ SendReply \/ Close \/ Disconnect \/ TypeNothing \/ Quit \/ ReadReply
           \/ UNCHANGED dialogueVars
  BY <1>6, <1>7 DEF SendLine, SendReply, Close, Disconnect, TypeNothing, Quit, ReadReply,
                    dialogueVars
<1>8. CASE ReadAck
  <2>1. /\ server = "ack" /\ UNCHANGED <<gameVars, guesses>> /\ TakeAck
    BY <1>8 DEF ReadAck
  <2>2. CASE UNCHANGED toServer
    BY <1>6, <2>1, <2>2
  <2>3. ASSUME NEW k \in ServerReads, toServer' = Rest(toServer, k)
        PROVE  GuessesIn(toServer') = GuessesIn(toServer)
    <3>1. toServer # <<>>
      BY <1>1, <2>3, NothingToRead DEF ServerReads
    <3>2. toServer \in {<<ACK>>, <<ACK, GUESS>>}
      BY <1>2, <2>1, <3>1 DEF Welcoming
    <3> QED
      BY <1>1, <2>3, <3>2, AcknowledgementIsRead, ShortStreams
  <2> QED
    BY <1>6, <2>1, <2>2, <2>3 DEF TakeAck
<1>9. CASE ReadGuess
  <2>1. PICK k \in ServerReads :
          /\ toServer' = Rest(toServer, k)
          /\ IF Head(toServer) = ACK THEN Guess(<<"\n">>) ELSE \E line \in Lines : Guess(line)
    BY <1>9 DEF ReadGuess
  <2>2. server = "guess" /\ guesses' = guesses
    BY <1>9 DEF ReadGuess
  <2>3. toServer = <<GUESS>> /\ toServer' = <<>> /\ Head(toServer) # ACK
    BY <1>1, <1>2, <2>1, <2>2, GuessIsRead DEF Asking
  <2>4. Charged' = Charged + 1
    BY <2>1, <2>3, GuessIsCharged
  <2> QED
    BY <1>3, <2>2, <2>3, <2>4, ShortStreams
<1>10. CASE ReadNothing
  <2>1. Charged' = Charged
    <3>1. reply_buffer' = EMPTY /\ moves' = moves /\ connected
      BY <1>10 DEF ReadNothing, HangUp
    <3>2. reply_buffer \notin {SUCCESS, GAME_OVER} /\ EMPTY \notin {SUCCESS, GAME_OVER}
      BY <3>1, Zenon, Words DEF IInv, Undecided, Verdicts
    <3> QED
      BY <3>1, <3>2 DEF Charged
  <2>2. toServer' = toServer /\ guesses' = guesses
    BY <1>10 DEF ReadNothing
  <2> QED
    BY <1>3, <2>1, <2>2
<1>11. CASE ReadWelcome
  <2>1. UNCHANGED <<gameVars, guesses>>
    BY <1>11 DEF ReadWelcome
  <2>2. toServer' = Append(toServer, ACK)
    BY <1>1, <1>11, Delivered DEF ReadWelcome
  <2> QED
    BY <1>2, <1>6, <2>1, <2>2, GuessesAreCounted
<1>12. CASE Type
  <2>1. UNCHANGED gameVars /\ guesses' = guesses + 1 /\ toServer' = Append(toServer, GUESS)
    BY <1>1, <1>12, Delivered DEF Type
  <2>2. GuessesIn(toServer') = GuessesIn(toServer) + 1
    BY <1>2, <2>1, GuessesAreCounted
  <2> QED
    BY <1>3, <1>4, <1>5, <2>1, <2>2
<1> QED
  BY <1>7, <1>8, <1>9, <1>10, <1>11, <1>12 DEF DialogueNext, ServerStep, ClientStep

(* With writes that arrive whole, no acknowledgement is taken for a guess  *)
(* and no guess for an acknowledgement, however long the welcome and the   *)
(* match (client.c:77-87, server.c:256-267).                               *)
THEOREM GuessesAreCharged == DialogueSpec => []AttemptsAreGuesses
<1>1. DialogueInit => InStep /\ AttemptsAreGuesses /\ GuessesCount
  <2> SUFFICES ASSUME DialogueInit
               PROVE  InStep /\ AttemptsAreGuesses /\ GuessesCount
    OBVIOUS
  <2>1. InStep
    BY DEF DialogueInit, InStep
  <2>2. Charged = 0
    <3>1. moves = MAX_ATTEMPTS /\ reply_buffer = EMPTY /\ EMPTY \notin {SUCCESS, GAME_OVER}
      BY Words DEF DialogueInit, Init, Verdicts
    <3> QED
      BY <3>1, GameAssumption DEF Charged
  <2>3. Waiting = 0 /\ guesses = 0
    BY ShortStreams DEF DialogueInit, Waiting, GuessesIn
  <2> QED
    BY <2>1, <2>2, <2>3 DEF AttemptsAreGuesses, GuessesCount
<1>2. GuessesCount /\ [DialogueNext]_dialogueVars => GuessesCount'
  BY DEF DialogueNext, ServerStep, ClientStep, SendLine, ReadAck, ReadGuess, ReadNothing,
         SendReply, Close, Disconnect, ReadWelcome, Type, TypeNothing, Quit, ReadReply,
         dialogueVars, GuessesCount
<1>3. IInv /\ Agree /\ InStep /\ AttemptsAreGuesses /\ GuessesCount
        /\ [DialogueNext]_dialogueVars => InStep' /\ AttemptsAreGuesses'
  BY InStepKept, ChargesStep
<1>4. DialogueSpec => [](InStep /\ AttemptsAreGuesses /\ GuessesCount)
  BY <1>1, <1>2, <1>3, AgreeAlways, PTL DEF DialogueSpec
<1> QED
  BY <1>4, PTL
=============================================================================
