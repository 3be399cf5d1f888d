------------------------------- MODULE Server -------------------------------
(***************************************************************************)
(* The Mastermind server of COMP30023/project2: server.c with the queue of *)
(* queue.c.  The processes are the accepting thread, one gameloop thread   *)
(* per connection and the SIGINT handler, which runs in the main thread    *)
(* while it waits in pthread_join.  They share the descriptor table, three *)
(* semaphores, newsockfd, the counters and client_q.                       *)
(*                                                                         *)
(* A connection and the thread made for it have the number of the accept   *)
(* call.  Descriptor d of the model is descriptor d + 3 of the process     *)
(* (0 to 2 are the standard streams, 3 the listening socket).  What a      *)
(* guess contains is abstracted to whether it is invalid, wrong or right,  *)
(* or long, which is invalid and more than a log entry has room for;       *)
(* module Mastermind has the codes.                                        *)
(*                                                                         *)
(* X_Wrong is a slip in X that a property catches.                         *)
(***************************************************************************)
EXTENDS Integers, Sequences, FiniteSetsExt

CONSTANTS
    MaxClients,     \* connections that are ever made
    OPEN_MAX,       \* descriptors left to the process
    WelcomeLines,   \* lines of welcome.txt
    MAX_ATTEMPTS,
    MaxUnread       \* portions a client that leaves can have under way

ASSUME ServerAssumption ==
    /\ {MaxClients, OPEN_MAX, MaxUnread} \subseteq Nat
    /\ {WelcomeLines, MAX_ATTEMPTS} \subseteq Nat \ {0}

Games    == 1 .. MaxClients
ACCEPTER == 0
MAIN     == -1
Threads  == Games \cup {ACCEPTER, MAIN}

(* What a descriptor refers to: a connection of Games or one of these. *)
FREE    == 0
LOG     == -1       \* log.txt, open for appending
STATM   == -2       \* /proc/self/statm, open for reading
WELCOME == -3       \* welcome.txt, open for reading
Fds     == 1 .. OPEN_MAX
NONE    == 0        \* no descriptor, no node
SUCCESS   == "SUCCESS"
INVALID   == "INVALID"
GAME_OVER == "GAME_OVER"
HINT      == "Server's hint"
EMPTY     == ""     \* reply_buffer after bzero

VARIABLES
    status,         \* "running"; "exited"; "killed" by SIGPIPE; "crashed"
    pc, logfd,      \* per thread: where it is, its descriptor of log.txt
    fds,            \* descriptor table
    left, reset,    \* clients that have gone, and that have sent a RST
    unread,         \* portions that clients sent before they went
    accepted, newsockfd,        \* the accepting thread
    num_clients, num_successes, client_q,
    sem,            \* the semaphores
    game,           \* per game: the variables of its gameloop
    killed,         \* SIGTERM sent to a game
    temp, proc, statm           \* the handler: node, descriptor, what it read

network  == <<left, reset, unread>>
accepter == <<accepted, newsockfd, num_clients>>
handler  == <<temp, proc, statm, killed>>
serverVars == <<status, pc, logfd, fds, network, accepter, num_successes, client_q,
                sem, game, handler>>

-----------------------------------------------------------------------------
(* Descriptors and sockets, as the kernel handles them. *)

FreeFds == {d \in Fds : fds[d] = FREE}
NewFd == IF FreeFds = {} THEN NONE ELSE Min(FreeFds)
Refers(d) == IF d \in Fds THEN fds[d] ELSE FREE

(* Writing to d.  What is written after the client has gone is lost and    *)
(* answered with a RST; a write after a RST may raise SIGPIPE, which       *)
(* nothing in the server catches or ignores.                               *)
Write(d) ==
    IF Refers(d) \in Games /\ left[Refers(d)]
    THEN /\ status' \in IF reset[Refers(d)] THEN {"running", "killed"} ELSE {"running"}
         /\ reset' = [reset EXCEPT ![Refers(d)] = TRUE]
    ELSE UNCHANGED <<status, reset>>

(* A read from d returns data, or zero or an error, which it reports when  *)
(* all data has been read; it blocks as long as neither is there.  A       *)
(* client that is there may send at any time.                              *)
HasData(d) ==
    \/ Refers(d) \in {STATM, WELCOME}
    \/ Refers(d) \in Games /\ (~left[Refers(d)] \/ unread[Refers(d)] > 0)
HasEnded(d) == Refers(d) \in Games => left[Refers(d)] /\ unread[Refers(d)] = 0

(* One read may take several portions.                                     *)
Read(d) ==
    IF Refers(d) \in Games /\ unread[Refers(d)] > 0
    THEN \E n \in 0 .. unread[Refers(d)] - 1 : unread' = [unread EXCEPT ![Refers(d)] = n]
    ELSE UNCHANGED unread

Closed(d) == [e \in Fds |-> IF e = d THEN FREE ELSE fds[e]]

sem_wait(name) == sem[name] = 1 /\ sem' = [sem EXCEPT ![name] = 0]
sem_post(name) == sem' = [sem EXCEPT ![name] = 1]

Goto(self, label) == pc' = [pc EXCEPT ![self] = label]

-----------------------------------------------------------------------------

Init ==
    /\ status = "running"
    /\ pc = [self \in Threads |-> IF self = MAIN THEN "wait"
                                  ELSE IF self = ACCEPTER THEN "accept" ELSE "none"]
    /\ logfd = [self \in Threads |-> NONE]
    /\ fds = [d \in Fds |-> FREE]
    /\ left = [c \in Games |-> FALSE] /\ reset = [c \in Games |-> FALSE]
    /\ unread = [c \in Games |-> 0]
    /\ accepted = 0 /\ newsockfd = NONE
    /\ num_clients = 0 /\ num_successes = 0 /\ client_q = <<>>
    /\ sem = [mutex |-> 1, mutex_client |-> 1, mutex_successes |-> 1]
    /\ game = [t \in Games |->
                [sock |-> NONE, stream |-> FALSE, tail |-> 0, seen |-> 0,
                 lines |-> WelcomeLines, moves |-> MAX_ATTEMPTS, reply |-> EMPTY]]
    /\ killed = [t \in Games |-> FALSE]
    /\ temp = NONE /\ proc = NONE /\ statm = "unread"

(* A client goes; one that goes before it is accepted is one that goes     *)
(* before anybody reads from it.  What it has sent stays to be read, and   *)
(* its end sends a RST at once if there is something it has not read.  Of  *)
(* one that goes when its connection has been closed nobody learns.        *)
Leave(c) ==
    /\ ~left[c] /\ \E d \in Fds : fds[d] = c
    /\ left' = [left EXCEPT ![c] = TRUE]
    /\ \E n \in 0 .. MaxUnread : unread' = [unread EXCEPT ![c] = n]
    /\ \E r \in BOOLEAN : reset' = [reset EXCEPT ![c] = r]
    /\ UNCHANGED <<status, pc, logfd, fds, accepter, num_successes, client_q,
                   sem, game, handler>>

-----------------------------------------------------------------------------
(* logentry, in two steps: from sem_wait to the strcats, and from the      *)
(* write that fclose makes to sem_post.  The label says who calls it, and  *)
(* after it.  A long guess overflows the entry's buffer (server.c:344).    *)

AfterCall == [log_client |-> "create", log_secret |-> "line", log_guess |-> "log_reply",
              log_long |-> "log_reply",
              log_totals |-> "visit", log_virtual |-> "log_physical", log_physical |-> "exit"]
AfterLog(self) ==
    IF pc[self] = "log_reply"
    THEN IF game[self].reply \in {SUCCESS, GAME_OVER} THEN "log_over" ELSE "reply"
    ELSE IF pc[self] = "log_over"
    THEN IF game[self].reply = SUCCESS THEN "wait_successes" ELSE "last_reply"
    ELSE AfterCall[pc[self]]
InLogentry(self) == pc[self] \in DOMAIN AfterCall \cup {"log_reply", "log_over"}

WaitLog_Wrong == UNCHANGED sem
WaitLog == sem_wait("mutex")
LogOpen(self) ==
    /\ InLogentry(self) /\ logfd[self] = NONE
    /\ WaitLog
    /\ logfd' = [logfd EXCEPT ![self] = NewFd]
    /\ fds' = IF NewFd = NONE THEN fds ELSE [fds EXCEPT ![NewFd] = LOG]
    /\ status' \in IF NewFd = NONE THEN {"crashed"}             \* fprintf to NULL
                   ELSE IF pc[self] = "log_long" THEN {"running", "crashed"}
                   ELSE {"running"}
    /\ UNCHANGED <<pc, network, accepter, num_successes, client_q, game, handler>>

PostLog_Wrong == UNCHANGED sem
PostLog == sem_post("mutex")
LogClose(self) ==
    /\ InLogentry(self) /\ logfd[self] # NONE
    /\ Write(logfd[self])
    /\ fds' = Closed(logfd[self])
    /\ logfd' = [logfd EXCEPT ![self] = NONE]
    /\ PostLog
    /\ Goto(self, AfterLog(self))
    /\ UNCHANGED <<left, unread, accepter, num_successes, client_q, game, handler>>

-----------------------------------------------------------------------------
(* clientaccepter *)

Accept ==
    /\ pc[ACCEPTER] = "accept" /\ accepted < MaxClients /\ FreeFds # {}
    /\ accepted' = accepted + 1
    /\ newsockfd' = NewFd
    /\ fds' = [fds EXCEPT ![NewFd] = accepted + 1]
    /\ Goto(ACCEPTER, "log_client")
    /\ UNCHANGED <<status, logfd, network, num_clients, num_successes, client_q,
                   sem, game, handler>>

(* accept fails for want of a descriptor, whether a client waits or not:   *)
(* the accepting thread exits, and main returns from pthread_join and ends *)
(* the process, unless it is in the signal handler, which ends it too.     *)
AcceptFails ==
    /\ pc[ACCEPTER] = "accept" /\ FreeFds = {}
    /\ newsockfd' = NONE
    /\ Goto(ACCEPTER, "gone")
    /\ status' = IF pc[MAIN] = "wait" THEN "exited" ELSE "running"
    /\ UNCHANGED <<logfd, fds, network, accepted, num_clients, num_successes, client_q,
                   sem, game, handler>>

(* The new thread is numbered like its connection.                         *)
Create ==
    /\ pc[ACCEPTER] = "create"
    /\ pc' = [pc EXCEPT ![ACCEPTER] = "accept", ![accepted] = "created"]
    /\ num_clients' = num_clients + 1
    /\ UNCHANGED <<status, logfd, fds, network, accepted, newsockfd, num_successes,
                   client_q, sem, game, handler>>

-----------------------------------------------------------------------------
(* gameloop *)

SetGame(t, field, value) == game' = [game EXCEPT ![t][field] = value]

(* The argument is a pointer to the accepting thread's newsockfd. *)
Start(t) ==
    /\ pc[t] = "created"
    /\ SetGame(t, "sock", newsockfd)
    /\ Goto(t, "wait_client")
    /\ UNCHANGED <<status, logfd, fds, network, accepter, num_successes, client_q, sem, handler>>

(* q_add, which reads q->tail before it links the new node. *)
WaitQueue_Wrong == UNCHANGED sem
WaitQueue == sem_wait("mutex_client")
EnterQueue(t) ==
    /\ pc[t] = "wait_client"
    /\ WaitQueue
    /\ SetGame(t, "tail", Len(client_q))
    /\ Goto(t, "link")
    /\ UNCHANGED <<status, logfd, fds, network, accepter, num_successes, client_q, handler>>

q_add(t) ==
    client_q' = Append(SubSeq(client_q, 1, game[t].tail),
                       [tid |-> t, sockfd |-> game[t].sock])

Register(t) ==
    /\ pc[t] = "link"
    /\ q_add(t)
    /\ SetGame(t, "tail", 0)                             \* dead from here on
    /\ Goto(t, "open")
    /\ UNCHANGED <<status, logfd, fds, network, accepter, num_successes, sem, handler>>

(* fdopen(clientsockfd, "w") gives NULL for a descriptor that is closed or *)
(* read-only; welcome.txt is opened, read and never closed.  The sem_post  *)
(* that ends the registration is part of this step, so that a thread can   *)
(* be killed before it.                                                    *)
OpenStreams(t) ==
    /\ pc[t] = "open"
    /\ sem_post("mutex_client")
    /\ SetGame(t, "stream", Refers(game[t].sock) \in Games \cup {LOG})
    /\ IF NewFd = NONE
       THEN status' = "crashed" /\ UNCHANGED fds        \* fgets from NULL
       ELSE fds' = [fds EXCEPT ![NewFd] = WELCOME] /\ UNCHANGED status
    /\ Goto(t, "log_secret")
    /\ UNCHANGED <<logfd, network, accepter, num_successes, client_q, handler>>

(* The welcome message: a line is written and anything is read, and the    *)
(* results of both are ignored.                                            *)
SendLine(t) ==
    /\ pc[t] = "line"
    /\ Write(game[t].sock)
    /\ Goto(t, "ack")
    /\ UNCHANGED <<logfd, fds, left, unread, accepter, num_successes, client_q,
                   sem, game, handler>>

ReadAck(t) ==
    /\ pc[t] = "ack"
    /\ HasData(game[t].sock) \/ HasEnded(game[t].sock)
    /\ Read(game[t].sock)
    /\ SetGame(t, "lines", game[t].lines - 1)
    /\ Goto(t, IF game[t].lines = 1 THEN "guess" ELSE "line")
    /\ UNCHANGED <<status, logfd, fds, left, reset, accepter, num_successes, client_q,
                   sem, handler>>

(* The reply to a guess when moves are left.                               *)
Verdict_Wrong(guess, moves) ==
    IF guess = "right" THEN SUCCESS
    ELSE IF guess # "wrong" THEN INVALID ELSE IF moves = 1 THEN GAME_OVER ELSE HINT
Verdict(guess, moves) ==
    IF guess = "right" THEN SUCCESS
    ELSE IF moves = 1 THEN GAME_OVER ELSE IF guess = "wrong" THEN HINT ELSE INVALID

(* What is read for a guess, by what d refers to.                          *)
Guesses(d) ==
    {"invalid"} \cup (IF Refers(d) = STATM THEN {} ELSE {"long"})
                \cup (IF Refers(d) \in Games THEN {"wrong", "right"} ELSE {})

(* The reply is settled here; the code settles it between the two log      *)
(* entries that follow, in a buffer that only this thread sees.            *)
ReadGuess(t) ==
    /\ pc[t] = "guess"
    /\ HasData(game[t].sock) /\ Read(game[t].sock)
    /\ \E guess \in Guesses(game[t].sock) :
        /\ SetGame(t, "reply", Verdict(guess, game[t].moves))
        /\ Goto(t, IF guess = "long" THEN "log_long" ELSE "log_guess")
    /\ UNCHANGED <<status, logfd, fds, left, reset, accepter, num_successes, client_q,
                   sem, handler>>

ReadNothing(t) ==
    /\ pc[t] = "guess"
    /\ HasEnded(game[t].sock)
    /\ Goto(t, "last_reply")
    /\ UNCHANGED <<status, logfd, fds, network, accepter, num_successes, client_q,
                   sem, game, handler>>

(* num_successes++ reads and writes under mutex_successes. *)
WaitSuccesses_Wrong == UNCHANGED sem
WaitSuccesses == sem_wait("mutex_successes")
EnterSuccesses(t) ==
    /\ pc[t] = "wait_successes"
    /\ WaitSuccesses
    /\ SetGame(t, "seen", num_successes)
    /\ Goto(t, "add")
    /\ UNCHANGED <<status, logfd, fds, network, accepter, num_successes, client_q, handler>>

AddSuccess(t) ==
    /\ pc[t] = "add"
    /\ num_successes' = game[t].seen + 1
    /\ SetGame(t, "seen", 0)                             \* dead from here on
    /\ sem_post("mutex_successes")
    /\ Goto(t, "last_reply")
    /\ UNCHANGED <<status, logfd, fds, network, accepter, client_q, handler>>

(* fprintf and fflush of reply_buffer. *)
PrintReply(t) ==
    IF ~game[t].stream
    THEN status' = "crashed" /\ UNCHANGED reset
    ELSE IF game[t].reply = EMPTY
    THEN UNCHANGED <<status, reset>>
    ELSE Write(game[t].sock)

bzero_Wrong(reply) == reply
bzero(reply) == EMPTY
Answered(g) == [g EXCEPT !.reply = bzero(g.reply), !.moves = g.moves - 1]
Reply(t) ==
    /\ pc[t] = "reply"
    /\ PrintReply(t)
    /\ game' = [game EXCEPT ![t] = Answered(@)]
    /\ Goto(t, "guess")
    /\ UNCHANGED <<logfd, fds, left, unread, accepter, num_successes, client_q, sem, handler>>

(* close(fd) is given a FILE pointer and closes nothing.                   *)
CloseStream_Wrong(t) == fds' = Closed(game[t].sock)
CloseStream(t) == UNCHANGED fds
LastReply(t) ==
    /\ pc[t] = "last_reply"
    /\ PrintReply(t)
    /\ CloseStream(t)
    /\ Goto(t, "close")
    /\ UNCHANGED <<logfd, left, unread, accepter, num_successes, client_q, sem, game, handler>>

(* What the client had sent, or its RST, goes with the connection.         *)
CloseSocket_Wrong(t) == UNCHANGED <<fds, reset, unread>>
CloseSocket(t) ==
    LET c == Refers(game[t].sock)
    IN  /\ fds' = Closed(game[t].sock)
        /\ reset' = [g \in Games |-> IF g = c THEN FALSE ELSE reset[g]]
        /\ unread' = [g \in Games |-> IF g = c THEN 0 ELSE unread[g]]
Close(t) ==
    /\ pc[t] = "close"
    /\ CloseSocket(t)
    /\ Goto(t, "gone")
    /\ UNCHANGED <<status, logfd, left, accepter, num_successes, client_q,
                   sem, game, handler>>

(* SIGTERM ends the thread wherever it is, semaphores and all. *)
thread_cleanup(t) ==
    /\ killed[t] /\ pc[t] # "gone"
    /\ Goto(t, "gone")
    /\ UNCHANGED <<status, logfd, fds, network, accepter, num_successes, client_q,
                   sem, game, handler>>

-----------------------------------------------------------------------------
(* signalhandler *)

(* SIGINT comes: statm is opened and the head of the queue is read. *)
Interrupt ==
    /\ pc[MAIN] = "wait"
    /\ temp' = IF client_q = <<>> THEN NONE ELSE 1
    /\ proc' = NewFd
    /\ IF NewFd = NONE
       THEN status' = "exited" /\ UNCHANGED fds
       ELSE fds' = [fds EXCEPT ![NewFd] = STATM] /\ UNCHANGED status
    /\ Goto(MAIN, "log_totals")
    /\ UNCHANGED <<logfd, network, accepter, num_successes, client_q, sem, game, statm, killed>>

(* The loop over client_q: write, close and pthread_kill, then             *)
(* pthread_join.  The thread may go on for a while before it is killed.    *)
Disconnect ==
    /\ pc[MAIN] = "visit" /\ temp # NONE
    /\ Write(client_q[temp].sockfd)
    /\ fds' = Closed(client_q[temp].sockfd)
    /\ killed' = [killed EXCEPT ![client_q[temp].tid] = TRUE]
    /\ Goto(MAIN, "join")
    /\ UNCHANGED <<logfd, left, unread, accepter, num_successes, client_q, sem, game,
                   temp, proc, statm>>

pthread_join_Wrong(t) == TRUE
pthread_join(t) == pc[t] = "gone"
Join ==
    /\ pc[MAIN] = "join"
    /\ pthread_join(client_q[temp].tid)
    /\ temp' = IF temp < Len(client_q) THEN temp + 1 ELSE NONE
    /\ Goto(MAIN, "visit")
    /\ UNCHANGED <<status, logfd, fds, network, accepter, num_successes, client_q,
                   sem, game, proc, statm, killed>>

(* The first fscanf; the second one finds its number in the same buffer.   *)
(* If no number is read, memory keeps its uninitialized value; a           *)
(* descriptor that has become a client's blocks like any other socket.     *)
ReadStatm ==
    /\ pc[MAIN] = "visit" /\ temp = NONE
    /\ HasData(proc) \/ HasEnded(proc)
    /\ Read(proc)
    /\ statm' = IF fds[proc] = STATM THEN "memory" ELSE "garbage"
    /\ Goto(MAIN, "log_virtual")
    /\ UNCHANGED <<status, logfd, fds, left, reset, accepter, num_successes, client_q,
                   sem, game, temp, proc, killed>>

Exit ==
    /\ pc[MAIN] = "exit"
    /\ status' = "exited"
    /\ UNCHANGED <<pc, logfd, fds, network, accepter, num_successes, client_q,
                   sem, game, handler>>

-----------------------------------------------------------------------------

gameloop(t) ==
    \/ Start(t) \/ EnterQueue(t) \/ Register(t) \/ OpenStreams(t)
    \/ SendLine(t) \/ ReadAck(t) \/ ReadGuess(t) \/ ReadNothing(t)
    \/ EnterSuccesses(t) \/ AddSuccess(t) \/ Reply(t) \/ LastReply(t) \/ Close(t)
    \/ LogOpen(t) \/ LogClose(t)

clientaccepter ==
    Accept \/ AcceptFails \/ Create \/ LogOpen(ACCEPTER) \/ LogClose(ACCEPTER)

signalhandler ==
    Disconnect \/ Join \/ ReadStatm \/ Exit \/ LogOpen(MAIN) \/ LogClose(MAIN)

Next ==
    /\ status = "running"
    /\ \/ clientaccepter
       \/ \E t \in Games : gameloop(t) \/ thread_cleanup(t) \/ Leave(t)
       \/ Interrupt \/ signalhandler

Spec == Init /\ [][Next]_serverVars

(* As long as some thread can take a step, one of them does: the clients   *)
(* may stay away, and may keep a thread that reads from them waiting for   *)
(* ever.  No thread needs fairness of its own, as none runs for ever.      *)
WaitsForClient(d) == Refers(d) \in Games /\ ~left[Refers(d)]
SystemStep ==
    /\ status = "running"
    /\ \/ clientaccepter /\ pc[ACCEPTER] # "accept"
       \/ signalhandler /\ ~(pc[MAIN] = "visit" /\ temp = NONE /\ WaitsForClient(proc))
       \/ \E t \in Games :
            \/ gameloop(t) /\ ~(pc[t] \in {"ack", "guess"} /\ WaitsForClient(game[t].sock))
            \/ thread_cleanup(t)
Fairness == WF_serverVars(SystemStep)

FairSpec == Spec /\ Fairness

-----------------------------------------------------------------------------
(* Properties *)

Interrupted == pc[MAIN] # "wait"
Registered(t) == pc[t] \notin {"none", "created", "wait_client", "link"}

TypeOK ==
    /\ status \in {"running", "exited", "killed", "crashed"}
    /\ logfd \in [Threads -> Fds \cup {NONE}]
    /\ fds \in [Fds -> Games \cup {FREE, LOG, STATM, WELCOME}]
    /\ accepted \in 0 .. MaxClients
    /\ left \in [Games -> BOOLEAN] /\ reset \in [Games -> BOOLEAN]
    /\ unread \in [Games -> 0 .. MaxUnread]
    /\ newsockfd \in Fds \cup {NONE}
    /\ num_clients \in 0 .. accepted /\ num_successes \in 0 .. accepted
    /\ client_q \in Seq([tid : Games, sockfd : Fds \cup {NONE}])
    /\ sem \in [{"mutex", "mutex_client", "mutex_successes"} -> {0, 1}]
    /\ game \in [Games ->
         [sock : Fds \cup {NONE}, stream : BOOLEAN, tail : 0 .. MaxClients,
          seen : 0 .. MaxClients, lines : 0 .. WelcomeLines, moves : 1 .. MAX_ATTEMPTS,
          reply : {EMPTY, SUCCESS, INVALID, GAME_OVER, HINT}]]
    /\ temp \in 0 .. Len(client_q) /\ proc \in Fds \cup {NONE}
    /\ statm \in {"unread", "memory", "garbage"}

(* At most one thread is between opening and closing the log, so entries   *)
(* are never mixed, whoever is killed in between (server.c:340-382); the   *)
(* semaphore is down only on account of such a thread, dead or alive.      *)
LogIsSerial ==
    status = "running" =>
        /\ sem["mutex"] = 0 <=> \E self \in Threads : logfd[self] # NONE
        /\ \A self, other \in Threads :
            logfd[self] # NONE /\ logfd[other] # NONE => self = other

(* Every thread that has registered is in client_q once, with the socket   *)
(* it reads from, and no other thread is: concurrent q_adds lose no node   *)
(* (server.c:228-230), and a node is never taken out.                      *)
QueueIsComplete ==
    /\ {client_q[k].tid : k \in DOMAIN client_q} = {t \in Games : Registered(t)}
    /\ \A k \in DOMAIN client_q :
        /\ client_q[k].sockfd = game[client_q[k].tid].sock
        /\ \A j \in DOMAIN client_q : client_q[j].tid = client_q[k].tid => j = k

(* No success is counted twice or lost (server.c:306-308): only a thread   *)
(* that is killed may have won without having been counted.                *)
Winners == {t \in Games : game[t].reply = SUCCESS}
SuccessesAreCounted ==
    /\ num_successes <= Cardinality(Winners)
    /\ Cardinality({t \in Winners : ~killed[t] /\ pc[t] \in {"last_reply", "close", "gone"}})
            <= num_successes

(* Each gameloop is a match of at most MAX_ATTEMPTS attempts: no attempt   *)
(* is lost or repeated, and only SUCCESS and GAME_OVER decide it.          *)
MatchOf(t) == INSTANCE Match WITH
    attempts <- game[t].moves - (IF game[t].reply = EMPTY THEN 0 ELSE 1),
    result <- IF game[t].reply = SUCCESS THEN "won"
              ELSE IF game[t].reply = GAME_OVER THEN "lost"
              ELSE IF pc[t] \in {"last_reply", "close", "gone"} THEN "abandoned" ELSE "playing"
ImplementsMatch ==
    /\ \A t \in Games : MatchOf(t)!MatchInit
    /\ [][\A t \in Games : MatchOf(t)!MatchNext \/ UNCHANGED MatchOf(t)!matchVars]_serverVars

(* Shutting down, the threads are ended one at a time in the order of      *)
(* their registration, and none is skipped, although client_q is read      *)
(* without its semaphore while threads join it (server.c:81-90).           *)
ShutdownIsOrderly ==
    LET n == Cardinality({t \in Games : killed[t]})
    IN  \A k \in DOMAIN client_q :
            /\ killed[client_q[k].tid] <=> k <= n
            /\ k < n \/ (k = n /\ pc[MAIN] # "join") => pc[client_q[k].tid] = "gone"

-----------------------------------------------------------------------------
(* Shutting down *)

(* What can keep the process from ending after SIGINT: a thread that has   *)
(* been ended inside logentry, or a read of statm that waits for ever, as  *)
(* the descriptor was closed in the loop over client_q and has become a    *)
(* silent client's (server.c:81-92, 110, 340).                             *)
LogIsLost == \E t \in Games : pc[t] = "gone" /\ logfd[t] # NONE
StatmIsASocket == pc[MAIN] = "visit" /\ temp = NONE /\ WaitsForClient(proc)
ShutdownEndsUnlessStuck ==
    \/ []<>(Interrupted => status # "running" \/ LogIsLost)
    \/ <>[]StatmIsASocket

(* report.txt:11-13: "My game server when sent a SIGINT signal will log    *)
(* the amount of virtual and physical memory used by the server".          *)
MemoryIsReported == statm # "garbage"
MemoryIsLogged == Interrupted ~> pc[MAIN] = "exit" \/ status # "running"

(* server.c:255: "Send welcome message to client." -- the client whose     *)
(* connection the thread was made for.                                     *)
EveryClientIsWelcomed == \A t \in Games : pc[t] = "line" => Refers(game[t].sock) = t
=============================================================================
