------------------------------ MODULE Dialogue ------------------------------
(***************************************************************************)
(* A client of COMP30023/project2 (client.c) and its game in the server    *)
(* (module Game), joined by a connection: two streams of bytes.  Both take *)
(* what a read returns for one message.  Every message is two pieces; what *)
(* a guess contains is left open until the server has read it.             *)
(*                                                                         *)
(* X_Wrong is a slip in X that a property catches.                         *)
(***************************************************************************)
EXTENDS Game

CONSTANT WelcomeLines       \* lines of welcome.txt, the last one of two bytes

ASSUME DialogueAssumption ==
    /\ WelcomeLines \in Nat \ {0}
    /\ <<"\n">> \in Lines          \* a player may press Enter

TEXT   == "text"            \* a line of the welcome
END    == "end"             \* its last line
ACK    == "ack"             \* the client's answer: 255 NUL bytes
GUESS  == "guess"
DISCONNECTED == "You have been disconnected by the server."
Message(m) == <<m, m>>

VARIABLES
    whole,          \* the network delivers what is written in one piece
    server,         \* where the gameloop thread is
    lines,          \* of the welcome that are still to be sent
    client,         \* where the client is, or how it ended
    toClient, toServer,
    reset,          \* the client has written to a connection closed by the server
    input,          \* the player's input: "open" or "ended"
    guesses         \* lines that the player has sent

dialogueVars == <<gameVars, whole, server, lines, client, toClient, toServer,
                  reset, input, guesses>>

ServerEnded == server \in {"gone", "shutdown"}
ClientEnded == client \in {"won", "lost", "quit", "killed"}

(* What one read can return of a stream: all that has come, if writes      *)
(* arrive whole, and otherwise any part of it from the beginning.          *)
Reads(stream) == IF whole THEN {Len(stream)} \ {0} ELSE 1 .. Len(stream)
Taken(stream, k) == SubSeq(stream, 1, k)
Rest(stream, k)  == SubSeq(stream, k + 1, Len(stream))

(* The server reads at most BUFF_LEN - 1 bytes, which an acknowledgement   *)
(* is long.  0 stands for a part of the first message.                     *)
ServerReads ==
    IF whole /\ toServer # <<>> /\ Head(toServer) = ACK THEN {1}
    ELSE IF whole \/ toServer = <<>> THEN Reads(toServer) ELSE 0 .. Len(toServer)

DialogueInit ==
    /\ Init
    /\ whole \in BOOLEAN
    /\ server = "line" /\ lines = WelcomeLines
    /\ client = "welcome"
    /\ toClient = <<>> /\ toServer = <<>> /\ reset = FALSE
    /\ input = "open" /\ guesses = 0

-----------------------------------------------------------------------------
(* The server.  What it writes when the client has gone is lost; that it   *)
(* may be killed by SIGPIPE is in module Server.                           *)

SendLine ==
    /\ server = "line"
    /\ toClient' = toClient \o Message(IF lines = 1 THEN END ELSE TEXT)
    /\ server' = "ack"
    /\ UNCHANGED <<gameVars, whole, lines, client, toServer, reset, input, guesses>>

TakeAck_Wrong == UNCHANGED toServer
TakeAck ==
    \/ \E k \in ServerReads : toServer' = Rest(toServer, k)
    \/ toServer = <<>> /\ ClientEnded /\ UNCHANGED toServer
ReadAck ==
    /\ server = "ack"
    /\ TakeAck
    /\ lines' = lines - 1
    /\ server' = IF lines = 1 THEN "guess" ELSE "line"
    /\ UNCHANGED <<gameVars, whole, client, toClient, reset, input, guesses>>

(* Text that begins with a NUL byte is empty, like an empty line; the code *)
(* looks for its newline one byte before the buffer.                       *)
ReadGuess ==
    /\ server = "guess"
    /\ \E k \in ServerReads :
        /\ toServer' = Rest(toServer, k)
        /\ IF Head(toServer) = ACK THEN Guess(<<"\n">>) ELSE \E line \in Lines : Guess(line)
    /\ server' = "reply"
    /\ UNCHANGED <<whole, lines, client, toClient, reset, input, guesses>>

ReadNothing ==
    /\ server = "guess" /\ toServer = <<>> /\ ClientEnded
    /\ HangUp
    /\ server' = "reply"
    /\ UNCHANGED <<whole, lines, client, toClient, toServer, reset, input, guesses>>

SendReply ==
    /\ server = "reply"
    /\ toClient' = IF reply_buffer = EMPTY THEN toClient
                   ELSE toClient \o Message(reply_buffer)
    /\ server' = IF connected THEN "guess" ELSE "closing"
    /\ UNCHANGED <<gameVars, whole, lines, client, toServer, reset, input, guesses>>

Close ==
    /\ server = "closing" /\ server' = "gone"
    /\ UNCHANGED <<gameVars, whole, lines, client, toClient, toServer, reset, input, guesses>>

(* The SIGINT handler.                                                     *)
Disconnect ==
    /\ ~ServerEnded
    /\ toClient' = toClient \o Message(DISCONNECTED)
    /\ server' = "shutdown"
    /\ UNCHANGED <<gameVars, whole, lines, client, toServer, reset, input, guesses>>

-----------------------------------------------------------------------------
(* The client *)

(* A write when the server has closed is answered with a RST, and the next *)
(* one with SIGPIPE.                                                       *)
Write(what, next) ==
    IF ServerEnded
    THEN /\ client' = IF reset THEN "killed" ELSE next
         /\ reset' = TRUE /\ UNCHANGED toServer
    ELSE /\ client' = next
         /\ toServer' = Append(toServer, what) /\ UNCHANGED reset

(* Whether n == 2: of the last line if it arrives whole, and by chance of  *)
(* a part of another message.                                              *)
IsTwoBytes_Wrong(chunk) == {FALSE}
IsTwoBytes(chunk) ==
    IF \E m \in {TEXT, END, INVALID, HINT, SUCCESS, GAME_OVER, DISCONNECTED} :
            chunk = Message(m)
    THEN {chunk[1] = END}
    ELSE IF chunk = <<END>> \/ Len(chunk) > 2 THEN {FALSE} ELSE BOOLEAN

ReadWelcome ==
    /\ client = "welcome"
    /\ \/ \E k \in Reads(toClient) :
            /\ toClient' = Rest(toClient, k)
            /\ \E last \in IsTwoBytes(Taken(toClient, k)) :
                Write(ACK, IF last THEN "typing" ELSE "welcome")
       \/ toClient = <<>> /\ ServerEnded
            /\ client' = "typing" /\ UNCHANGED <<toClient, toServer, reset>>
    /\ UNCHANGED <<gameVars, whole, server, lines, input, guesses>>

(* The player enters a line, ...                                           *)
Type ==
    /\ client = "typing" /\ input = "open"
    /\ Write(GUESS, "reply")
    /\ guesses' = guesses + 1
    /\ UNCHANGED <<gameVars, whole, server, lines, toClient, input>>

(* ... or ends the input: fgets fails, and no bytes are written.           *)
TypeNothing ==
    /\ client = "typing"
    /\ input' = "ended"
    /\ client' = "reply"
    /\ UNCHANGED <<gameVars, whole, server, lines, toClient, toServer, reset, guesses>>

Quit ==
    /\ client = "typing" /\ client' = "quit"
    /\ UNCHANGED <<gameVars, whole, server, lines, toClient, toServer, reset, input, guesses>>

AfterReply_Wrong(chunk) == IF Head(chunk) = SUCCESS THEN "won" ELSE "lost"
AfterReply(chunk) ==
    IF chunk = Message(SUCCESS) THEN "won"
    ELSE IF chunk = Message(GAME_OVER) THEN "lost" ELSE "typing"

ReadReply ==
    /\ client = "reply"
    /\ \/ \E k \in Reads(toClient) :
            /\ toClient' = Rest(toClient, k)
            /\ client' = AfterReply(Taken(toClient, k))
       \/ toClient = <<>> /\ ServerEnded /\ client' = "typing" /\ UNCHANGED toClient
    /\ UNCHANGED <<gameVars, whole, server, lines, toServer, reset, input, guesses>>

-----------------------------------------------------------------------------

ServerStep == SendLine \/ ReadAck \/ ReadGuess \/ ReadNothing \/ SendReply \/ Close
ClientStep == ReadWelcome \/ Type \/ TypeNothing \/ Quit \/ ReadReply

DialogueNext == ServerStep \/ ClientStep \/ Disconnect

DialogueSpec == DialogueInit /\ [][DialogueNext]_dialogueVars

(* Server and client are scheduled, and the player does something; the     *)
(* input need not end and nobody need press Ctrl-C.                        *)
FairDialogueSpec ==
    DialogueSpec /\ WF_dialogueVars(ServerStep) /\ WF_dialogueVars(ClientStep)

-----------------------------------------------------------------------------
(* Properties *)

DialogueTypeOK ==
    /\ TypeOK
    /\ whole \in BOOLEAN /\ reset \in BOOLEAN
    /\ server \in {"line", "ack", "guess", "reply", "closing", "gone", "shutdown"}
    /\ client \in {"welcome", "typing", "reply", "won", "lost", "quit", "killed"}
    /\ lines \in 0 .. WelcomeLines /\ guesses \in Nat
    /\ toClient \in Seq({TEXT, END, INVALID, HINT, SUCCESS, GAME_OVER, DISCONNECTED})
    /\ toServer \in Seq({ACK, GUESS})
    /\ input \in {"open", "ended"}

(* If writes arrive whole, the attempts that the server has counted are    *)
(* the player's guesses, less those that wait to be read: no               *)
(* acknowledgement of the welcome is taken for a guess, and no guess for   *)
(* an acknowledgement (client.c:77-87, server.c:256-267).                  *)
Charged == MAX_ATTEMPTS - moves + IF reply_buffer \in {SUCCESS, GAME_OVER} THEN 1 ELSE 0
Waiting == Cardinality({k \in DOMAIN toServer : toServer[k] = GUESS})
AttemptsAreGuesses ==
    whole /\ ~ServerEnded => Charged + Waiting = guesses

(* However the bytes arrive, the client congratulates the player only if   *)
(* the game was won and consoles only if it was lost (client.c:114-120).   *)
VerdictsAgree ==
    /\ client = "won" => reply_buffer = SUCCESS
    /\ client = "lost" => reply_buffer = GAME_OVER

(* If writes arrive whole and the player does not stop, the client comes   *)
(* to an end: with the verdict, or, if the server is shut down, by         *)
(* SIGPIPE.  Client and server never wait for each other, except at the    *)
(* end of the input, when they do so for ever (client.c:97-108).           *)
PlayedOut == whole ~> ClientEnded \/ input = "ended"
=============================================================================
