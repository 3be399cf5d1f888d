---------------------------- MODULE ServerProofs ----------------------------
(***************************************************************************)
(* Invariants of Server for every number of clients, descriptors, welcome  *)
(* lines and attempts, under every schedule, with SIGINT or without, its   *)
(* refinement of Match, and what a calm start of every thread spares it.   *)
(***************************************************************************)
EXTENDS MCServer, Counting

-----------------------------------------------------------------------------
(* Types: as much as the other invariants need. *)

GamePcs == {"none", "created", "wait_client", "link", "open", "log_secret", "line", "ack",
            "guess", "log_guess", "log_long", "log_reply", "log_over", "wait_successes", "add",
            "reply", "last_reply", "close", "gone"}
AccepterPcs == {"accept", "log_client", "create", "gone"}
MainPcs == {"wait", "log_totals", "visit", "join", "log_virtual", "log_physical", "exit"}

Semaphores == {"mutex", "mutex_client", "mutex_successes"}
Fields     == {"sock", "stream", "tail", "seen", "lines", "moves", "reply"}

Types ==
    /\ DOMAIN pc = Threads /\ DOMAIN logfd = Threads
    /\ DOMAIN sem = Semaphores /\ DOMAIN killed = Games
    /\ DOMAIN game = Games /\ \A t \in Games : DOMAIN game[t] = Fields
    /\ \A t \in Games : pc[t] \in GamePcs
    /\ pc[ACCEPTER] \in AccepterPcs /\ pc[MAIN] \in MainPcs
    /\ accepted \in 0 .. MaxClients
    /\ \A t \in Games : t > accepted => pc[t] = "none"
    /\ pc[ACCEPTER] \in {"log_client", "create"} => accepted \in Games /\ pc[accepted] = "none"

LEMMA ThreadFacts ==
    /\ Games \subseteq Threads /\ ACCEPTER \in Threads /\ MAIN \in Threads
    /\ ACCEPTER \notin Games /\ MAIN \notin Games /\ ACCEPTER # MAIN
    /\ MaxClients \in Nat /\ Games \subseteq Nat
  BY ServerAssumption DEF Threads, Games, ACCEPTER, MAIN

LEMMA TypesInitially == Init => Types
<1> SUFFICES ASSUME Init PROVE Types
  OBVIOUS
<1> USE ThreadFacts
<1>1. /\ \A t \in Games : pc[t] = "none"
      /\ pc[ACCEPTER] = "accept" /\ pc[MAIN] = "wait"
      /\ DOMAIN pc = Threads
  BY DEF Init
<1>2. DOMAIN game = Games /\ \A t \in Games : DOMAIN game[t] = Fields
  BY DEF Init, Fields
<1> QED
  BY <1>1, <1>2 DEF Init, Types, Semaphores, GamePcs, AccepterPcs, MainPcs

LEMMA AnsweredFacts ==
    ASSUME NEW g, DOMAIN g = Fields
    PROVE  /\ DOMAIN Answered(g) = Fields
           /\ Answered(g).reply = EMPTY /\ Answered(g).moves = g.moves - 1
           /\ Answered(g).sock = g.sock /\ Answered(g).tail = g.tail
           /\ Answered(g).stream = g.stream
<1>1. PICK h : h = [g EXCEPT !.reply = bzero(g.reply)]
  OBVIOUS
<1>2. Answered(g) = [h EXCEPT !.moves = g.moves - 1]
  BY <1>1 DEF Answered
<1> QED
  BY <1>1, <1>2 DEF Fields, bzero

(* The steps of a game's thread: where it goes, and what it leaves alone.  *)
LEMMA GameStep ==
    ASSUME Types, NEW t \in Games, gameloop(t) \/ thread_cleanup(t),
           killed[t] => pc[t] # "none"
    PROVE  /\ DOMAIN pc' = Threads /\ pc'[t] \in GamePcs \ {"none", "created"}
           /\ \A self \in Threads \ {t} : pc'[self] = pc[self]
           /\ pc[t] # "none"
           /\ DOMAIN game' = Games /\ \A u \in Games : DOMAIN game'[u] = Fields
           /\ \A u \in Games \ {t} : game'[u] = game[u]
           /\ DOMAIN logfd' = Threads /\ DOMAIN sem' = Semaphores
           /\ UNCHANGED <<accepted, temp, killed>>
<1> USE ThreadFacts DEF Types, Goto, SetGame, accepter, handler, GamePcs, Fields,
           sem_wait, sem_post
<1>1. CASE Start(t)          BY <1>1 DEF Start
<1>2. CASE EnterQueue(t)     BY <1>2 DEF EnterQueue, WaitQueue
<1>3. CASE Register(t)       BY <1>3 DEF Register
<1>4. CASE OpenStreams(t)    BY <1>4 DEF OpenStreams
<1>5. CASE SendLine(t)       BY <1>5 DEF SendLine
<1>6. CASE ReadAck(t)        BY <1>6 DEF ReadAck
<1>7. CASE ReadGuess(t)      BY <1>7 DEF ReadGuess
<1>8. CASE ReadNothing(t)    BY <1>8 DEF ReadNothing
<1>9. CASE EnterSuccesses(t) BY <1>9 DEF EnterSuccesses, WaitSuccesses
<1>10. CASE AddSuccess(t)    BY <1>10 DEF AddSuccess
<1>11. CASE Reply(t)         BY <1>11, AnsweredFacts DEF Reply
<1>12. CASE LastReply(t)     BY <1>12 DEF LastReply
<1>13. CASE Close(t)         BY <1>13 DEF Close
<1>14. CASE LogOpen(t)       BY <1>14 DEF LogOpen, WaitLog, InLogentry, AfterCall
<1>15. CASE LogClose(t)      BY <1>15 DEF LogClose, PostLog, InLogentry, AfterLog, AfterCall
<1>16. CASE thread_cleanup(t) BY <1>16 DEF thread_cleanup
<1> QED
  BY <1>1, <1>2, <1>3, <1>4, <1>5, <1>6, <1>7, <1>8, <1>9, <1>10, <1>11, <1>12, <1>13,
     <1>14, <1>15, <1>16 DEF gameloop

(* The steps of the other two threads, and of the clients.                 *)
LEMMA OtherStep ==
    ASSUME Types,
           \/ clientaccepter \/ Interrupt \/ signalhandler
           \/ \E t \in Games : Leave(t)
    PROVE  /\ DOMAIN pc' = Threads /\ DOMAIN logfd' = Threads
           /\ DOMAIN sem' = Semaphores /\ DOMAIN killed' = Games
           /\ pc'[ACCEPTER] \in AccepterPcs /\ pc'[MAIN] \in MainPcs
           /\ accepted' \in 0 .. MaxClients /\ accepted' >= accepted
           /\ pc'[ACCEPTER] \in {"log_client", "create"} =>
                 accepted' \in Games /\ pc'[accepted'] = "none"
           /\ \A t \in Games :
                \/ pc'[t] = pc[t]
                \/ pc[t] = "none" /\ pc'[t] = "created" /\ t <= accepted
           /\ UNCHANGED <<game, client_q>>
           /\ sem'["mutex_client"] = sem["mutex_client"]
<1> USE ThreadFacts DEF Types, Goto, network, accepter, handler, sem_wait, sem_post, Semaphores
<1>1. CASE Accept
  <2>1. accepted + 1 \in Games
    BY <1>1 DEF Accept, Games
  <2> QED
    BY <1>1, <2>1 DEF Accept, AccepterPcs
<1>2. CASE AcceptFails       BY <1>2 DEF AcceptFails, AccepterPcs
<1>3. CASE Create            BY <1>3 DEF Create, AccepterPcs
<1>4. CASE LogOpen(ACCEPTER) BY <1>4 DEF LogOpen, WaitLog
<1>5. CASE LogClose(ACCEPTER)
  BY <1>5 DEF LogClose, PostLog, InLogentry, AfterLog, AfterCall, AccepterPcs
<1>6. CASE Interrupt         BY <1>6 DEF Interrupt, MainPcs
<1>7. CASE Disconnect        BY <1>7 DEF Disconnect, MainPcs
<1>8. CASE Join              BY <1>8 DEF Join, MainPcs
<1>9. CASE ReadStatm         BY <1>9 DEF ReadStatm, MainPcs
<1>10. CASE Exit             BY <1>10 DEF Exit
<1>11. CASE LogOpen(MAIN)    BY <1>11 DEF LogOpen, WaitLog
<1>12. CASE LogClose(MAIN)
  BY <1>12 DEF LogClose, PostLog, InLogentry, AfterLog, AfterCall, MainPcs
<1>13. CASE \E t \in Games : Leave(t) BY <1>13 DEF Leave
<1> QED
  BY <1>1, <1>2, <1>3, <1>4, <1>5, <1>6, <1>7, <1>8, <1>9, <1>10, <1>11, <1>12, <1>13
     DEF clientaccepter, signalhandler

LEMMA TypesStep ==
    ASSUME Types, [Next]_serverVars, \A t \in Games : killed[t] => pc[t] # "none"
    PROVE  Types'
<1> USE ThreadFacts DEF Types
<1>1. CASE \E t \in Games : gameloop(t) \/ thread_cleanup(t)
  BY <1>1, GameStep
<1>2. CASE \/ clientaccepter \/ Interrupt \/ signalhandler
           \/ \E t \in Games : Leave(t)
  <2>1. \A t \in Games : pc'[t] \in GamePcs /\ (t > accepted' => pc'[t] = "none")
    BY <1>2, OtherStep DEF GamePcs
  <2> QED
    BY <1>2, <2>1, OtherStep
<1>3. CASE UNCHANGED serverVars
  BY <1>3 DEF serverVars, accepter, handler
<1> QED
  BY <1>1, <1>2, <1>3 DEF Next

-----------------------------------------------------------------------------
(* The queue of clients *)

(* A thread is in q_add from its sem_wait to its sem_post; between, it     *)
(* knows the tail.                                                         *)
InAdd(t) == pc[t] \in {"link", "open"}
Queue ==
    /\ \E S : client_q \in Seq(S)
    /\ \A t \in Games : InAdd(t) => sem["mutex_client"] = 0
    /\ \A t, u \in Games : InAdd(t) /\ InAdd(u) => t = u
    /\ \A t \in Games : pc[t] = "link" => game[t].tail = Len(client_q)
    /\ \A t \in Games : killed[t] => Registered(t)
    /\ temp \in 0 .. Len(client_q)
    /\ QueueIsComplete

(* What a step does that neither begins nor ends a q_add.                  *)
Quiet ==
    /\ UNCHANGED client_q
    /\ temp' \in 0 .. Len(client_q)
    /\ \A t \in Games :
        /\ Registered(t)' <=> Registered(t)
        /\ Registered(t) => game'[t].sock = game[t].sock
        /\ InAdd(t)' => InAdd(t) /\ sem'["mutex_client"] = sem["mutex_client"]
        /\ pc'[t] = "link" => pc[t] = "link" /\ game'[t].tail = game[t].tail
        /\ killed'[t] => Registered(t)

LEMMA QuietKeepsQueue == ASSUME Queue, Quiet PROVE Queue'
<1>1. QueueIsComplete'
  <2>1. \A k \in DOMAIN client_q : client_q[k].tid \in {t \in Games : Registered(t)}
    BY DEF Queue, QueueIsComplete
  <2>2. {t \in Games : Registered(t)}' = {t \in Games : Registered(t)}
    BY DEF Quiet
  <2> QED
    BY <2>1, <2>2 DEF Queue, Quiet, QueueIsComplete
<1>2. /\ \E S : client_q' \in Seq(S)
      /\ temp' \in 0 .. Len(client_q')
      /\ \A t \in Games : pc'[t] = "link" => game'[t].tail = Len(client_q')
  BY DEF Queue, Quiet
<1>3. /\ \A t \in Games : InAdd(t)' => sem'["mutex_client"] = 0
      /\ \A t, u \in Games : InAdd(t)' /\ InAdd(u)' => t = u
      /\ \A t \in Games : killed'[t] => Registered(t)'
  BY DEF Queue, Quiet
<1> QED
  BY <1>1, <1>2, <1>3 DEF Queue

LEMMA EnterKeepsQueue ==
    ASSUME Types, Queue, NEW t \in Games, EnterQueue(t)
    PROVE  Queue'
<1> USE ThreadFacts
<1>1. /\ pc[t] = "wait_client" /\ pc'[t] = "link" /\ game'[t].tail = Len(client_q)
      /\ \A u \in Games \ {t} : pc'[u] = pc[u] /\ game'[u] = game[u]
      /\ \A u \in Games : game'[u].sock = game[u].sock
      /\ sem["mutex_client"] = 1 /\ sem'["mutex_client"] = 0
      /\ UNCHANGED <<client_q, temp, killed>>
  BY DEF EnterQueue, WaitQueue, sem_wait, Goto, SetGame, handler, Types, Fields, Semaphores
<1>2. \A u \in Games : ~InAdd(u)
  BY <1>1 DEF Queue
<1>3. \A u \in Games : Registered(u)' <=> Registered(u)
  BY <1>1 DEF Registered
<1>4. QueueIsComplete'
  <2>1. \A k \in DOMAIN client_q : client_q[k].tid \in {u \in Games : Registered(u)}
    BY DEF Queue, QueueIsComplete
  <2>2. {u \in Games : Registered(u)}' = {u \in Games : Registered(u)}
    BY <1>3
  <2>3. \A k \in DOMAIN client_q :
            game'[client_q[k].tid].sock = game[client_q[k].tid].sock
    BY <1>1, <2>1
  <2>4. client_q' = client_q
    BY <1>1
  <2> QED
    BY <2>2, <2>3, <2>4 DEF Queue, QueueIsComplete
<1> QED
  BY <1>1, <1>2, <1>3, <1>4 DEF Queue, InAdd

LEMMA RegisterKeepsQueue ==
    ASSUME Types, Queue, NEW t \in Games, Register(t)
    PROVE  Queue'
<1> USE ThreadFacts
<1> DEFINE node == [tid |-> t, sockfd |-> game[t].sock]
<1>1. /\ pc[t] = "link" /\ pc'[t] = "open"
      /\ \A u \in Games \ {t} : pc'[u] = pc[u] /\ game'[u] = game[u]
      /\ \A u \in Games : game'[u].sock = game[u].sock
      /\ UNCHANGED <<sem, temp, killed>>
      /\ client_q' = Append(SubSeq(client_q, 1, game[t].tail), node)
  BY DEF Register, q_add, Goto, SetGame, handler, Types, Fields
<1>2. PICK S : client_q \in Seq(S)
  BY DEF Queue
<1>3. game[t].tail = Len(client_q)
  BY <1>1 DEF Queue
<1>4. SubSeq(client_q, 1, Len(client_q)) = client_q
  BY <1>2
<1>5. client_q' = Append(client_q, node)
  BY <1>1, <1>3, <1>4
<1> HIDE DEF node
<1>6. /\ client_q' \in Seq(S \cup {node})
      /\ Len(client_q') = Len(client_q) + 1 /\ Len(client_q) \in Nat
      /\ DOMAIN client_q = 1 .. Len(client_q)
      /\ DOMAIN client_q' = DOMAIN client_q \cup {Len(client_q) + 1}
      /\ \A k \in DOMAIN client_q : client_q'[k] = client_q[k]
      /\ client_q'[Len(client_q) + 1] = node
  <2>1. client_q \in Seq(S \cup {node})
    BY <1>2
  <2> QED
    BY <1>5, <2>1
<1>7. node.tid = t /\ node.sockfd = game[t].sock
  BY DEF node
<1>8. ~Registered(t) /\ Registered(t)'
      /\ \A u \in Games \ {t} : Registered(u)' <=> Registered(u)
  BY <1>1 DEF Registered
<1>9. QueueIsComplete'
  <2>1. {u \in Games : Registered(u)}' = {u \in Games : Registered(u)} \cup {t}
    BY <1>8
  <2>2. {client_q'[k].tid : k \in DOMAIN client_q'}
            = {client_q[k].tid : k \in DOMAIN client_q} \cup {t}
    BY <1>6, <1>7
  <2>3. \A k \in DOMAIN client_q : client_q[k].tid \in Games \ {t}
    BY <1>8 DEF Queue, QueueIsComplete
  <2> DEFINE n == Len(client_q) + 1
  <2>4. \A k \in DOMAIN client_q' : client_q'[k].sockfd = game'[client_q'[k].tid].sock
    <3>1. \A k \in DOMAIN client_q : client_q[k].sockfd = game[client_q[k].tid].sock
      BY DEF Queue, QueueIsComplete
    <3>2. \A k \in DOMAIN client_q : game'[client_q[k].tid].sock = game[client_q[k].tid].sock
      BY <1>1, <2>3
    <3>3. \A k \in DOMAIN client_q : client_q'[k].sockfd = game'[client_q'[k].tid].sock
      BY <1>6, <3>1, <3>2
    <3>4. client_q'[n].sockfd = game'[client_q'[n].tid].sock
      BY <1>1, <1>6, <1>7, SMTT(30)
    <3> QED
      BY <1>6, <3>3, <3>4
  <2>5. \A j, k \in DOMAIN client_q' : client_q'[j].tid = client_q'[k].tid => j = k
    <3>1. \A j, k \in DOMAIN client_q : client_q'[j].tid = client_q'[k].tid => j = k
      BY <1>6 DEF Queue, QueueIsComplete
    <3>2. \A k \in DOMAIN client_q : client_q'[k].tid # client_q'[n].tid
      BY <1>6, <1>7, <2>3
    <3> QED
      BY <1>6, <3>1, <3>2
  <2> HIDE DEF n
  <2>6. {client_q[k].tid : k \in DOMAIN client_q} = {u \in Games : Registered(u)}
    BY DEF Queue, QueueIsComplete
  <2> QED
    BY <2>1, <2>2, <2>4, <2>5, <2>6 DEF QueueIsComplete
<1>10. /\ \A u \in Games : InAdd(u)' <=> InAdd(u)
       /\ \A u \in Games : pc'[u] # "link"
  BY <1>1 DEF InAdd, Queue
<1>11. temp' \in 0 .. Len(client_q')
  BY <1>1, <1>6 DEF Queue
<1>12. /\ \A u \in Games : InAdd(u)' => sem'["mutex_client"] = 0
       /\ \A u, v \in Games : InAdd(u)' /\ InAdd(v)' => u = v
       /\ \A u \in Games : killed'[u] => Registered(u)'
  BY <1>1, <1>8, <1>10 DEF Queue
<1>13. \E R : client_q' \in Seq(R)
  BY <1>6
<1> QED
  BY <1>9, <1>10, <1>11, <1>12, <1>13 DEF Queue

LEMMA GameIsQuiet ==
    ASSUME Types, Queue, NEW t \in Games, gameloop(t) \/ thread_cleanup(t),
           ~EnterQueue(t), ~Register(t)
    PROVE  Quiet
<1> USE ThreadFacts
<1> DEFINE Own ==
        /\ UNCHANGED client_q
        /\ Registered(t)' <=> Registered(t)
        /\ Registered(t) => game'[t].sock = game[t].sock
        /\ InAdd(t)' => InAdd(t)
        /\ \/ sem'["mutex_client"] = sem["mutex_client"]
           \/ InAdd(t) /\ ~InAdd(t)'
        /\ pc'[t] # "link"
<1>1. Own
  <2> USE DEF Types, Goto, SetGame, Fields, GamePcs, Registered, InAdd, sem_wait, sem_post,
              Semaphores
  <2>1. CASE Start(t)          BY <2>1 DEF Start
  <2>4. CASE OpenStreams(t)    BY <2>4 DEF OpenStreams
  <2>5. CASE SendLine(t)       BY <2>5 DEF SendLine
  <2>6. CASE ReadAck(t)        BY <2>6 DEF ReadAck
  <2>7. CASE ReadGuess(t)      BY <2>7 DEF ReadGuess
  <2>8. CASE ReadNothing(t)    BY <2>8 DEF ReadNothing
  <2>9. CASE EnterSuccesses(t) BY <2>9 DEF EnterSuccesses, WaitSuccesses
  <2>10. CASE AddSuccess(t)    BY <2>10 DEF AddSuccess
  <2>11. CASE Reply(t)         BY <2>11, AnsweredFacts DEF Reply
  <2>12. CASE LastReply(t)     BY <2>12 DEF LastReply
  <2>13. CASE Close(t)         BY <2>13 DEF Close
  <2>14. CASE LogOpen(t)       BY <2>14 DEF LogOpen, WaitLog, InLogentry, AfterCall
  <2>15. CASE LogClose(t)
    BY <2>15 DEF LogClose, PostLog, InLogentry, AfterLog, AfterCall
  <2>16. CASE thread_cleanup(t)
    BY <2>16 DEF thread_cleanup, Queue
  <2> QED
    BY <2>1, <2>4, <2>5, <2>6, <2>7, <2>8, <2>9, <2>10, <2>11, <2>12, <2>13,
       <2>14, <2>15, <2>16 DEF gameloop
<1>2. /\ \A u \in Games \ {t} : pc'[u] = pc[u] /\ game'[u] = game[u]
      /\ UNCHANGED <<temp, killed>>
  BY GameStep DEF Queue, Registered
<1>3. \A u \in Games \ {t} : (Registered(u)' <=> Registered(u)) /\ (InAdd(u)' <=> InAdd(u))
  BY <1>2 DEF Registered, InAdd
<1> QED
  BY <1>1, <1>2, <1>3 DEF Quiet, Queue, InAdd

LEMMA OtherIsQuiet ==
    ASSUME Types, Queue,
           \/ clientaccepter \/ Interrupt \/ signalhandler
           \/ \E t \in Games : Leave(t)
    PROVE  Quiet
<1> USE ThreadFacts
<1>1. \A t \in Games : (Registered(t)' <=> Registered(t)) /\ (InAdd(t)' <=> InAdd(t))
                       /\ (pc'[t] = "link" => pc[t] = "link")
  BY OtherStep DEF Registered, InAdd
<1>2. UNCHANGED <<game, client_q>> /\ sem'["mutex_client"] = sem["mutex_client"]
  BY OtherStep
<1>3. temp' \in 0 .. Len(client_q) /\ \A t \in Games : killed'[t] => Registered(t)
  <2>1. PICK S : client_q \in Seq(S)
    BY DEF Queue
  <2>2. CASE Interrupt
    BY <2>1, <2>2 DEF Interrupt, Queue, NONE
  <2>3. CASE Disconnect
    <3>1. temp \in DOMAIN client_q
      BY <2>1, <2>3 DEF Disconnect, Queue, NONE
    <3>2. Registered(client_q[temp].tid)
      BY <3>1 DEF Queue, QueueIsComplete
    <3> QED
      BY <2>3, <3>2 DEF Disconnect, Queue, Types
  <2>4. CASE Join
    BY <2>1, <2>4 DEF Join, Queue, NONE
  <2>5. CASE ~Interrupt /\ ~Disconnect /\ ~Join
    <3>1. UNCHANGED <<temp, killed>>
      BY <2>5 DEF clientaccepter, signalhandler, Accept, AcceptFails, Create, LogOpen, LogClose,
                  ReadStatm, Exit, Leave, handler
    <3> QED
      BY <3>1 DEF Queue
  <2> QED
    BY <2>2, <2>3, <2>4, <2>5
<1> QED
  BY <1>1, <1>2, <1>3 DEF Quiet

LEMMA QueueStep ==
    ASSUME Types, Queue, [Next]_serverVars
    PROVE  Queue'
<1>1. CASE \E t \in Games : EnterQueue(t)
  BY <1>1, EnterKeepsQueue
<1>2. CASE \E t \in Games : Register(t)
  BY <1>2, RegisterKeepsQueue
<1>3. ASSUME NEW t \in Games, gameloop(t) \/ thread_cleanup(t), ~EnterQueue(t), ~Register(t)
      PROVE  Queue'
  BY <1>3, GameIsQuiet, QuietKeepsQueue
<1>4. CASE \/ clientaccepter \/ Interrupt \/ signalhandler
           \/ \E t \in Games : Leave(t)
  BY <1>4, OtherIsQuiet, QuietKeepsQueue
<1>5. CASE UNCHANGED serverVars
  <2>1. Quiet
    BY <1>5 DEF serverVars, handler, Quiet, Registered, InAdd, Queue
  <2> QED
    BY <2>1, QuietKeepsQueue
<1> QED
  BY <1>1, <1>2, <1>3, <1>4, <1>5 DEF Next

LEMMA QueueInitially == Init => Queue
<1> SUFFICES ASSUME Init PROVE Queue
  OBVIOUS
<1> USE ThreadFacts
<1>1. \A t \in Games : pc[t] = "none" /\ ~killed[t]
  BY DEF Init
<1>2. client_q = <<>> /\ temp = 0 /\ client_q \in Seq({}) /\ Len(client_q) = 0
  BY DEF Init, NONE
<1>3. DOMAIN client_q = {}
  BY <1>2
<1>4. {t \in Games : Registered(t)} = {}
  BY <1>1 DEF Registered
<1>5. QueueIsComplete
  BY <1>3, <1>4 DEF QueueIsComplete
<1> QED
  BY <1>1, <1>2, <1>5 DEF Queue, InAdd

-----------------------------------------------------------------------------
(* The log *)

LEMMA LogUntouched ==
    ASSUME Types, Next, \A self \in Threads : ~LogOpen(self) /\ ~LogClose(self)
    PROVE  logfd' = logfd /\ sem'["mutex"] = sem["mutex"]
<1> USE ThreadFacts DEF Types, Semaphores, sem_wait, sem_post
<1>1. ASSUME NEW t \in Games, gameloop(t) PROVE logfd' = logfd /\ sem'["mutex"] = sem["mutex"]
  <2>1. CASE EnterQueue(t)     BY <2>1 DEF EnterQueue, WaitQueue
  <2>2. CASE OpenStreams(t)    BY <2>2 DEF OpenStreams
  <2>3. CASE EnterSuccesses(t) BY <2>3 DEF EnterSuccesses, WaitSuccesses
  <2>4. CASE AddSuccess(t)     BY <2>4 DEF AddSuccess
  <2> QED
    BY <1>1, <2>1, <2>2, <2>3, <2>4 DEF gameloop, Start, Register, SendLine, ReadAck,
       ReadGuess, ReadNothing, Reply, LastReply, Close
<1>2. CASE \E t \in Games : thread_cleanup(t) \/ Leave(t)
  BY <1>2 DEF thread_cleanup, Leave
<1>3. CASE clientaccepter \/ Interrupt \/ signalhandler
  BY <1>3 DEF clientaccepter, signalhandler, Accept, AcceptFails, Create, Interrupt,
     Disconnect, Join, ReadStatm, Exit
<1> QED
  BY <1>1, <1>2, <1>3 DEF Next

LEMMA LogStep ==
    ASSUME Types, LogIsSerial, [Next]_serverVars
    PROVE  LogIsSerial'
<1> USE ThreadFacts DEF LogIsSerial
<1>1. ASSUME Next, NEW self \in Threads, LogOpen(self) PROVE LogIsSerial'
  <2>1. /\ status = "running" /\ sem["mutex"] = 1 /\ sem'["mutex"] = 0
        /\ NewFd = NONE => status' # "running"
        /\ logfd' = [logfd EXCEPT ![self] = NewFd]
    BY <1>1 DEF Next, LogOpen, WaitLog, sem_wait, Types, Semaphores
  <2>2. \A other \in Threads : logfd[other] = NONE
    BY <2>1
  <2>3. logfd'[self] = NewFd /\ \A other \in Threads \ {self} : logfd'[other] = NONE
    BY <2>1, <2>2 DEF Types
  <2> QED
    BY <2>1, <2>3
<1>2. ASSUME Next, NEW self \in Threads, LogClose(self) PROVE LogIsSerial'
  <2>1. /\ status = "running" /\ sem'["mutex"] = 1 /\ logfd[self] # NONE
        /\ logfd' = [logfd EXCEPT ![self] = NONE]
    BY <1>2 DEF Next, LogClose, PostLog, sem_post, Types, Semaphores
  <2>2. \A other \in Threads : logfd'[other] = NONE
    BY <2>1 DEF Types
  <2> QED
    BY <2>1, <2>2
<1>3. CASE Next /\ \A self \in Threads : ~LogOpen(self) /\ ~LogClose(self)
  BY <1>3, LogUntouched DEF Next
<1>4. CASE UNCHANGED serverVars
  BY <1>4 DEF serverVars
<1> QED
  BY <1>1, <1>2, <1>3, <1>4

(* The invariant of the types alone, which the other theorems rest on.     *)
LEMMA TypesAlways == Spec => [](Types /\ Queue)
<1>1. Init => Types /\ Queue
  BY TypesInitially, QueueInitially
<1>2. Types /\ Queue /\ [Next]_serverVars => (Types /\ Queue)'
  <2> SUFFICES ASSUME Types, Queue, [Next]_serverVars PROVE (Types /\ Queue)'
    OBVIOUS
  <2>1. \A t \in Games : killed[t] => pc[t] # "none"
    BY DEF Queue, Registered
  <2> QED
    BY <2>1, TypesStep, QueueStep
<1> QED
  BY <1>1, <1>2, PTL DEF Spec

(* No node of client_q is ever lost, doubled or taken out, and each holds  *)
(* its thread's socket, however many threads register at once and          *)
(* whichever are killed (server.c:228-230, queue.c:35-62).                 *)
THEOREM QueueLosesNobody == Spec => []QueueIsComplete
<1>1. Types /\ Queue => QueueIsComplete
  BY DEF Queue
<1> QED
  BY <1>1, TypesAlways, PTL

(* Entries of the log never mix, and while the process runs the semaphore  *)
(* is down exactly if some thread, perhaps a dead one, has the log open    *)
(* (server.c:340-382).                                                     *)
THEOREM LogEntriesAreSerial == Spec => []LogIsSerial
<1>1. Init => LogIsSerial
  BY ThreadFacts DEF Init, LogIsSerial
<1>2. Types /\ LogIsSerial /\ [Next]_serverVars => LogIsSerial'
  BY LogStep
<1> QED
  BY <1>1, <1>2, TypesAlways, PTL DEF Spec

-----------------------------------------------------------------------------
(* The matches *)

(* What reply_buffer may hold at each point of gameloop, and that a hint   *)
(* or INVALID is only given while another attempt is left.                 *)
Decided   == {SUCCESS, GAME_OVER}
Undecided == {HINT, INVALID}
RepliesAt(label) ==
    IF label \in {"log_guess", "log_long", "log_reply"} THEN Decided \cup Undecided
    ELSE IF label = "log_over" THEN Decided
    ELSE IF label \in {"wait_successes", "add"} THEN {SUCCESS}
    ELSE IF label = "reply" THEN Undecided
    ELSE IF label \in {"last_reply", "close"} THEN Decided \cup {EMPTY}
    ELSE IF label = "gone" THEN Decided \cup Undecided \cup {EMPTY}
    ELSE {EMPTY}
InMatch(label, reply, moves) ==
    /\ reply \in RepliesAt(label)
    /\ moves \in Nat \ {0}
    /\ reply \in Undecided => moves > 1
Matches == \A t \in Games : InMatch(pc[t], game[t].reply, game[t].moves)

LEMMA Replies ==
    /\ SUCCESS # GAME_OVER /\ SUCCESS # HINT /\ SUCCESS # INVALID /\ SUCCESS # EMPTY
    /\ GAME_OVER # HINT /\ GAME_OVER # INVALID /\ GAME_OVER # EMPTY
    /\ HINT # INVALID /\ HINT # EMPTY /\ INVALID # EMPTY
  BY DEF SUCCESS, GAME_OVER, HINT, INVALID, EMPTY

LEMMA MatchesInitially == Init => Matches /\ \A t \in Games : MatchOf(t)!MatchInit
<1> SUFFICES ASSUME Init, NEW t \in Games
             PROVE  InMatch(pc[t], game[t].reply, game[t].moves) /\ MatchOf(t)!MatchInit
  BY DEF Matches
<1>1. pc[t] = "none" /\ game[t].reply = EMPTY /\ game[t].moves = MAX_ATTEMPTS
  BY ThreadFacts, SMTT(30) DEF Init
<1> QED
  BY <1>1, Replies, ServerAssumption DEF MatchOf!MatchInit, InMatch, RepliesAt, Undecided

(* The steps that change reply_buffer or the attempts left, and the rest.  *)
LEMMA RepliesStep ==
    ASSUME Types, Matches, NEW t \in Games, gameloop(t) \/ thread_cleanup(t),
           killed[t] => pc[t] # "none"
    PROVE  \/ /\ pc[t] = "guess" /\ pc'[t] \in {"log_guess", "log_long"}
              /\ game'[t].moves = game[t].moves
              /\ \E guess \in {"invalid", "long", "wrong", "right"} :
                    game'[t].reply = Verdict(guess, game[t].moves)
           \/ /\ pc[t] = "reply" /\ pc'[t] = "guess" /\ game'[t].reply = EMPTY
              /\ game'[t].moves = game[t].moves - 1
           \/ /\ game'[t].reply = game[t].reply /\ game'[t].moves = game[t].moves
              /\ pc[t] # "gone"
              /\ RepliesAt(pc[t]) \cap {game[t].reply} \subseteq RepliesAt(pc'[t])
              /\ pc[t] \in {"last_reply", "close"} => pc'[t] \in {"close", "gone"}
<1> USE ThreadFacts DEF Types, Goto, SetGame, Fields
<1> USE Replies
<1> USE DEF RepliesAt
<1>1. CASE Start(t)          BY <1>1 DEF Start
<1>2. CASE EnterQueue(t)     BY <1>2 DEF EnterQueue
<1>3. CASE Register(t)       BY <1>3 DEF Register
<1>4. CASE OpenStreams(t)    BY <1>4 DEF OpenStreams
<1>5. CASE SendLine(t)       BY <1>5 DEF SendLine
<1>6. CASE ReadAck(t)        BY <1>6 DEF ReadAck
<1>7. CASE ReadGuess(t)
  <2>1. PICK guess \in {"invalid", "long", "wrong", "right"} :
            game' = [game EXCEPT ![t]["reply"] = Verdict(guess, game[t].moves)]
    BY <1>7 DEF ReadGuess, Guesses
  <2> QED
    BY <1>7, <2>1 DEF ReadGuess
<1>8. CASE ReadNothing(t)    BY <1>8 DEF ReadNothing
<1>9. CASE EnterSuccesses(t) BY <1>9 DEF EnterSuccesses
<1>10. CASE AddSuccess(t)    BY <1>10 DEF AddSuccess, Decided
<1>11. CASE Reply(t)         BY <1>11, AnsweredFacts DEF Reply
<1>12. CASE LastReply(t)     BY <1>12 DEF LastReply
<1>13. CASE Close(t)         BY <1>13 DEF Close
<1>14. CASE LogOpen(t)
  BY <1>14 DEF LogOpen, InLogentry, AfterCall
<1>15. CASE LogClose(t)
  BY <1>15 DEF LogClose, InLogentry, AfterLog, AfterCall, Decided, Undecided
<1>16. CASE thread_cleanup(t)
  BY <1>16 DEF thread_cleanup, Decided
<1> QED
  BY <1>1, <1>2, <1>3, <1>4, <1>5, <1>6, <1>7, <1>8, <1>9, <1>10, <1>11, <1>12, <1>13,
     <1>14, <1>15, <1>16 DEF gameloop

LEMMA VerdictFacts ==
    ASSUME NEW guess \in {"invalid", "long", "wrong", "right"}, NEW moves \in Nat \ {0}
    PROVE  /\ Verdict(guess, moves) \in Decided \cup Undecided
           /\ Verdict(guess, moves) = SUCCESS <=> guess = "right"
           /\ Verdict(guess, moves) = GAME_OVER <=> guess # "right" /\ moves = 1
  BY Replies DEF Verdict, Decided, Undecided

LEMMA MatchesStep ==
    ASSUME Types, Queue, Matches, [Next]_serverVars
    PROVE  /\ Matches'
           /\ \A t \in Games : MatchOf(t)!MatchNext \/ UNCHANGED MatchOf(t)!matchVars
<1> DEFINE Step(t) ==
        /\ InMatch(pc[t], game[t].reply, game[t].moves)'
        /\ MatchOf(t)!MatchNext \/ UNCHANGED MatchOf(t)!matchVars
<1> SUFFICES \A t \in Games : Step(t)
  BY DEF Matches
<1>1. ASSUME NEW t \in Games, \/ pc'[t] = pc[t]
                              \/ pc[t] = "none" /\ pc'[t] = "created",
             game'[t] = game[t]
      PROVE  Step(t)
  BY <1>1 DEF Matches, InMatch, RepliesAt, MatchOf!matchVars
<1>2. ASSUME NEW t \in Games, gameloop(t) \/ thread_cleanup(t) PROVE Step(t)
  <2> USE Replies DEF Decided, Undecided
  <2>1. InMatch(pc[t], game[t].reply, game[t].moves)
    BY DEF Matches
  <2>2. CASE /\ pc[t] = "guess" /\ pc'[t] \in {"log_guess", "log_long"}
             /\ game'[t].moves = game[t].moves
             /\ \E guess \in {"invalid", "long", "wrong", "right"} :
                    game'[t].reply = Verdict(guess, game[t].moves)
    <3>1. PICK guess \in {"invalid", "long", "wrong", "right"} :
              game'[t].reply = Verdict(guess, game[t].moves)
      BY <2>2
    <3>2. /\ game'[t].reply \in Decided \cup Undecided
          /\ game'[t].reply = SUCCESS <=> guess = "right"
          /\ game'[t].reply = GAME_OVER <=> guess # "right" /\ game[t].moves = 1
      BY <2>1, <3>1, VerdictFacts DEF InMatch
    <3>3. game[t].reply = EMPTY /\ game[t].moves \in Nat \ {0}
      BY <2>1, <2>2 DEF InMatch, RepliesAt
    <3>4. InMatch(pc[t], game[t].reply, game[t].moves)'
      BY <2>2, <3>2, <3>3 DEF InMatch, RepliesAt
    <3>5. MatchOf(t)!Attempt(guess = "right")
      BY <2>2, <3>2, <3>3 DEF MatchOf!Attempt
    <3>6. MatchOf(t)!MatchNext
      BY <3>5 DEF MatchOf!MatchNext
    <3> QED
      BY <3>4, <3>6
  <2>3. CASE /\ pc[t] = "reply" /\ pc'[t] = "guess" /\ game'[t].reply = EMPTY
             /\ game'[t].moves = game[t].moves - 1
    <3>1. game[t].reply \in Undecided /\ game[t].moves > 1 /\ game[t].moves \in Nat
      BY <2>1, <2>3 DEF InMatch, RepliesAt
    <3>2. InMatch(pc[t], game[t].reply, game[t].moves)'
      BY <2>3, <3>1 DEF InMatch, RepliesAt
    <3>3. UNCHANGED MatchOf(t)!matchVars
      BY <2>3, <3>1 DEF MatchOf!matchVars
    <3> QED
      BY <3>2, <3>3
  <2>4. CASE /\ game'[t].reply = game[t].reply /\ game'[t].moves = game[t].moves
             /\ pc[t] # "gone"
             /\ RepliesAt(pc[t]) \cap {game[t].reply} \subseteq RepliesAt(pc'[t])
             /\ pc[t] \in {"last_reply", "close"} => pc'[t] \in {"close", "gone"}
    <3>1. InMatch(pc[t], game[t].reply, game[t].moves)'
      BY <2>1, <2>4 DEF InMatch
    <3>2. CASE \/ game[t].reply \in Decided
               \/ pc[t] \in {"last_reply", "close"}
               \/ pc'[t] \notin {"last_reply", "close", "gone"}
      BY <2>4, <3>1, <3>2 DEF MatchOf!matchVars
    <3>3. CASE /\ game[t].reply \notin Decided
               /\ pc[t] \notin {"last_reply", "close"}
               /\ pc'[t] \in {"last_reply", "close", "gone"}
      <4>1. MatchOf(t)!Abandon
        BY <2>4, <3>3 DEF MatchOf!Abandon
      <4> QED
        BY <3>1, <4>1 DEF MatchOf!MatchNext
    <3> QED
      BY <3>2, <3>3
  <2>5. killed[t] => pc[t] # "none"
    BY DEF Queue, Registered
  <2> QED
    BY <1>2, <2>2, <2>3, <2>4, <2>5, RepliesStep
<1>3. ASSUME NEW u \in Games, gameloop(u) \/ thread_cleanup(u) PROVE \A t \in Games : Step(t)
  <2>1. \A t \in Games \ {u} : pc'[t] = pc[t] /\ game'[t] = game[t]
    BY <1>3, GameStep, ThreadFacts DEF Queue, Registered
  <2> QED
    BY <1>1, <1>2, <1>3, <2>1
<1>4. CASE \/ clientaccepter \/ Interrupt \/ signalhandler
           \/ \E t \in Games : Leave(t)
  <2>1. \A t \in Games : /\ game'[t] = game[t]
                         /\ \/ pc'[t] = pc[t]
                            \/ pc[t] = "none" /\ pc'[t] = "created"
    BY <1>4, OtherStep
  <2> QED
    BY <1>1, <2>1
<1>5. CASE UNCHANGED serverVars
  BY <1>1, <1>5 DEF serverVars
<1> QED
  BY <1>3, <1>4, <1>5 DEF Next

(* Every game the server runs is a match: no schedule of the threads, no   *)
(* signal and no client that leaves makes it lose or repeat an attempt or  *)
(* decide it twice (server.c:265-335).                                     *)
THEOREM GamesAreMatches == Spec => ImplementsMatch
<1>1. Types /\ Queue /\ Matches /\ [Next]_serverVars
        => Matches' /\ [\A t \in Games : MatchOf(t)!MatchNext
                                          \/ UNCHANGED MatchOf(t)!matchVars]_serverVars
  BY MatchesStep
<1> QED
  BY <1>1, MatchesInitially, TypesAlways, PTL DEF Spec, ImplementsMatch
-----------------------------------------------------------------------------
(* The successes *)

(* Some set of winners who have come to the end has been counted: every    *)
(* one of them that was not killed, and of the killed ones those who had   *)
(* come far enough.  Only one thread is counting, and it knows the count.  *)
AtEnd(t) == pc[t] \in {"last_reply", "close", "gone"}
Counts(S) ==
    /\ \A t \in S : AtEnd(t)
    /\ S \subseteq Winners
    /\ \A t \in Winners : AtEnd(t) /\ ~killed[t] => t \in S
    /\ num_successes = Cardinality(S)
Unmixed ==
    \A t \in Games : pc[t] = "add" =>
        /\ sem["mutex_successes"] = 0 /\ game[t].seen = num_successes
        /\ \A u \in Games : pc[u] = "add" => u = t
Tally == Unmixed /\ \E S \in SUBSET Games : Counts(S)

LEMMA GamesAreFinite ==
    ASSUME NEW S \in SUBSET Games
    PROVE  IsFiniteSet(S) /\ Cardinality(S) \in Nat
<1>1. IsFiniteSet(Games)
  BY FS_Interval, ThreadFacts DEF Games
<1> QED
  BY <1>1, FS_Subset, FS_CardinalityType

(* What a step does that does not touch the counter.                       *)
NoCount ==
    /\ UNCHANGED num_successes
    /\ \A t \in Games :
        /\ killed[t] => killed'[t]
        /\ AtEnd(t) => AtEnd(t)' /\ game'[t].reply = game[t].reply
        /\ AtEnd(t)' /\ ~AtEnd(t) => killed'[t] \/ game'[t].reply # SUCCESS
        /\ pc'[t] = "add" => pc[t] = "add" /\ game'[t].seen = game[t].seen
                             /\ sem'["mutex_successes"] = sem["mutex_successes"]

LEMMA NoCountKeepsTally == ASSUME Tally, NoCount PROVE Tally'
<1>1. PICK S \in SUBSET Games : Counts(S)
  BY DEF Tally
<1>2. Counts(S)'
  BY <1>1 DEF Counts, NoCount, Winners
<1>3. Unmixed'
  BY DEF Tally, Unmixed, NoCount
<1> QED
  BY <1>2, <1>3 DEF Tally

LEMMA EnterKeepsTally ==
    ASSUME Types, Tally, NEW t \in Games, EnterSuccesses(t)
    PROVE  Tally'
<1> USE ThreadFacts DEF Types, Goto, SetGame, Fields
<1>1. /\ pc' = [pc EXCEPT ![t] = "add"] /\ pc[t] = "wait_successes"
      /\ game' = [game EXCEPT ![t]["seen"] = num_successes]
      /\ sem["mutex_successes"] = 1 /\ sem'["mutex_successes"] = 0
      /\ UNCHANGED <<num_successes, killed>>
  BY DEF EnterSuccesses, WaitSuccesses, sem_wait, Semaphores, handler
<1>2. /\ \A u \in Games : game'[u].reply = game[u].reply
      /\ \A u \in Games \ {t} : pc'[u] = pc[u]
      /\ pc'[t] = "add" /\ game'[t].seen = num_successes
  BY <1>1
<1>3. \A u \in Games : AtEnd(u)' <=> AtEnd(u)
  BY <1>1, <1>2 DEF AtEnd
<1>4. PICK S \in SUBSET Games : Counts(S)
  BY DEF Tally
<1>5. Counts(S)'
  BY <1>1, <1>2, <1>3, <1>4 DEF Counts, Winners
<1>6. \A u \in Games : pc[u] # "add"
  BY <1>1 DEF Tally, Unmixed
<1>7. Unmixed'
  BY <1>1, <1>2, <1>6 DEF Unmixed
<1> QED
  BY <1>5, <1>7 DEF Tally

LEMMA AddKeepsTally ==
    ASSUME Types, Matches, Tally, NEW t \in Games, AddSuccess(t)
    PROVE  Tally'
<1> USE ThreadFacts DEF Types, Goto, SetGame, Fields
<1>1. /\ pc' = [pc EXCEPT ![t] = "last_reply"] /\ pc[t] = "add"
      /\ game' = [game EXCEPT ![t]["seen"] = 0]
      /\ num_successes' = game[t].seen + 1
      /\ UNCHANGED killed
  BY DEF AddSuccess, handler
<1>2. /\ \A u \in Games : game'[u].reply = game[u].reply
      /\ \A u \in Games \ {t} : pc'[u] = pc[u]
      /\ pc'[t] = "last_reply"
  BY <1>1
<1>3. num_successes' = num_successes + 1
  BY <1>1 DEF Tally, Unmixed
<1>4. game[t].reply = SUCCESS
  BY <1>1 DEF Matches, InMatch, RepliesAt
<1>5. /\ AtEnd(t)' /\ ~AtEnd(t)
      /\ \A u \in Games \ {t} : AtEnd(u)' <=> AtEnd(u)
  BY <1>1, <1>2 DEF AtEnd
<1>6. PICK S \in SUBSET Games : Counts(S)
  BY DEF Tally
<1>7. t \notin S
  BY <1>5, <1>6 DEF Counts
<1>8. Cardinality(S \cup {t}) = Cardinality(S) + 1
  BY <1>7, GamesAreFinite, FS_AddElement
<1>9. Counts(S \cup {t})'
  BY <1>1, <1>2, <1>3, <1>4, <1>5, <1>6, <1>8 DEF Counts, Winners
<1>10. \A u \in Games : pc'[u] # "add"
  BY <1>1, <1>2 DEF Tally, Unmixed
<1> QED
  BY <1>9, <1>10 DEF Tally, Unmixed

LEMMA GameIsNoCount ==
    ASSUME Types, Queue, Matches, NEW t \in Games, gameloop(t) \/ thread_cleanup(t),
           ~EnterSuccesses(t), ~AddSuccess(t)
    PROVE  NoCount
<1> USE ThreadFacts
<1>1. /\ \A u \in Games \ {t} : pc'[u] = pc[u] /\ game'[u] = game[u]
      /\ UNCHANGED killed
  BY GameStep DEF Queue, Registered
<1> DEFINE Own ==
        /\ UNCHANGED num_successes
        /\ sem'["mutex_successes"] = sem["mutex_successes"]
        /\ AtEnd(t) => AtEnd(t)' /\ game'[t].reply = game[t].reply
        /\ AtEnd(t)' /\ ~AtEnd(t) => killed[t] \/ game'[t].reply # SUCCESS
        /\ pc'[t] # "add"
<1>2. Own
  <2> USE DEF Types, Goto, SetGame, Fields, GamePcs, AtEnd, sem_wait, sem_post, Semaphores
  <2>1. CASE Start(t)          BY <2>1 DEF Start
  <2>2. CASE EnterQueue(t)     BY <2>2 DEF EnterQueue, WaitQueue
  <2>3. CASE Register(t)       BY <2>3 DEF Register
  <2>4. CASE OpenStreams(t)    BY <2>4 DEF OpenStreams
  <2>5. CASE SendLine(t)       BY <2>5 DEF SendLine
  <2>6. CASE ReadAck(t)        BY <2>6 DEF ReadAck
  <2>7. CASE ReadGuess(t)      BY <2>7 DEF ReadGuess
  <2>8. CASE ReadNothing(t)
    BY <2>8, Replies DEF ReadNothing, Matches, InMatch, RepliesAt
  <2>9. CASE Reply(t)          BY <2>9 DEF Reply
  <2>10. CASE LastReply(t)     BY <2>10 DEF LastReply
  <2>11. CASE Close(t)         BY <2>11 DEF Close
  <2>12. CASE LogOpen(t)       BY <2>12 DEF LogOpen, WaitLog, InLogentry, AfterCall
  <2>13. CASE LogClose(t)
    BY <2>13 DEF LogClose, PostLog, InLogentry, AfterLog, AfterCall
  <2>14. CASE thread_cleanup(t) BY <2>14 DEF thread_cleanup
  <2> QED
    BY <2>1, <2>2, <2>3, <2>4, <2>5, <2>6, <2>7, <2>8, <2>9, <2>10, <2>11, <2>12, <2>13,
       <2>14 DEF gameloop
<1>3. \A u \in Games \ {t} : AtEnd(u)' <=> AtEnd(u)
  BY <1>1 DEF AtEnd
<1> QED
  BY <1>1, <1>2, <1>3 DEF NoCount

LEMMA OtherIsNoCount ==
    ASSUME Types, Queue,
           \/ clientaccepter \/ Interrupt \/ signalhandler
           \/ \E t \in Games : Leave(t)
    PROVE  NoCount
<1> USE ThreadFacts
<1>1. /\ UNCHANGED num_successes
      /\ sem'["mutex_successes"] = sem["mutex_successes"]
      /\ \A t \in Games : killed[t] => killed'[t]
  <2> USE DEF Types, Goto, handler, sem_wait, sem_post, Semaphores
  <2>1. CASE Accept \/ AcceptFails \/ Create
    BY <2>1 DEF Accept, AcceptFails, Create
  <2>2. CASE LogOpen(ACCEPTER) \/ LogOpen(MAIN)
    BY <2>2 DEF LogOpen, WaitLog
  <2>3. CASE LogClose(ACCEPTER) \/ LogClose(MAIN)
    BY <2>3 DEF LogClose, PostLog
  <2>4. CASE Interrupt   BY <2>4 DEF Interrupt
  <2>5. CASE Disconnect  BY <2>5 DEF Disconnect
  <2>6. CASE Join \/ ReadStatm \/ Exit
    BY <2>6 DEF Join, ReadStatm, Exit
  <2>7. CASE \E t \in Games : Leave(t)
    BY <2>7 DEF Leave
  <2> QED
    BY <2>1, <2>2, <2>3, <2>4, <2>5, <2>6, <2>7 DEF clientaccepter, signalhandler
<1>2. \A t \in Games : /\ game'[t] = game[t]
                       /\ \/ pc'[t] = pc[t]
                          \/ pc[t] = "none" /\ pc'[t] = "created"
  BY OtherStep
<1>3. \A t \in Games : AtEnd(t)' <=> AtEnd(t)
  BY <1>2 DEF AtEnd
<1> QED
  BY <1>1, <1>2, <1>3 DEF NoCount

LEMMA TallyInitially == Init => Tally
<1> SUFFICES ASSUME Init PROVE Tally
  OBVIOUS
<1>1. \A t \in Games : pc[t] = "none" /\ game[t].reply = EMPTY
  BY ThreadFacts DEF Init
<1>2. Counts({})
  BY <1>1, FS_EmptySet DEF Init, Counts, AtEnd, Winners
<1> QED
  BY <1>1, <1>2 DEF Tally, Unmixed

LEMMA TallyStep ==
    ASSUME Types, Queue, Matches, Tally, [Next]_serverVars
    PROVE  Tally'
<1>1. CASE \E t \in Games : EnterSuccesses(t)
  BY <1>1, EnterKeepsTally
<1>2. CASE \E t \in Games : AddSuccess(t)
  BY <1>2, AddKeepsTally
<1>3. ASSUME NEW t \in Games, gameloop(t) \/ thread_cleanup(t),
             ~EnterSuccesses(t), ~AddSuccess(t)
      PROVE  Tally'
  BY <1>3, GameIsNoCount, NoCountKeepsTally
<1>4. CASE \/ clientaccepter \/ Interrupt \/ signalhandler
           \/ \E t \in Games : Leave(t)
  BY <1>4, OtherIsNoCount, NoCountKeepsTally
<1>5. CASE UNCHANGED serverVars
  <2>1. NoCount
    BY <1>5 DEF serverVars, handler, NoCount, AtEnd
  <2> QED
    BY <2>1, NoCountKeepsTally
<1> QED
  BY <1>1, <1>2, <1>3, <1>4, <1>5 DEF Next

(* num_successes++ by many threads loses no success and counts none twice; *)
(* only a thread that SIGTERM ends on its way to the counter may have won  *)
(* uncounted (server.c:306-308).                                           *)
THEOREM NoSuccessIsLost == Spec => []SuccessesAreCounted
<1>1. Tally => SuccessesAreCounted
  <2> SUFFICES ASSUME Tally PROVE SuccessesAreCounted
    OBVIOUS
  <2>1. PICK S \in SUBSET Games : Counts(S)
    BY DEF Tally
  <2> DEFINE Due == {t \in Winners : ~killed[t] /\ AtEnd(t)}
  <2>2. S \subseteq Winners /\ Due \subseteq S /\ num_successes = Cardinality(S)
    BY <2>1 DEF Counts
  <2>3. Cardinality(S) <= Cardinality(Winners) /\ Cardinality(Due) <= Cardinality(S)
    <3>1. IsFiniteSet(S) /\ IsFiniteSet(Winners)
      BY GamesAreFinite DEF Winners
    <3> HIDE DEF Due
    <3> QED
      BY <2>2, <3>1, FS_Subset
  <2> QED
    BY <2>2, <2>3 DEF SuccessesAreCounted, AtEnd
<1>2. Init => Matches /\ Tally
  BY MatchesInitially, TallyInitially
<1>3. Types /\ Queue /\ Matches /\ Tally /\ [Next]_serverVars => Matches' /\ Tally'
  BY MatchesStep, TallyStep
<1> QED
  BY <1>1, <1>2, <1>3, TypesAlways, PTL DEF Spec

-----------------------------------------------------------------------------
(* Shutting down *)

(* The first n of the queue have been killed, and all of them are gone but *)
(* for the last while main joins it; where main is in the loop tells n.    *)
EndedTo(n) ==
    /\ \A k \in DOMAIN client_q :
        /\ killed[client_q[k].tid] <=> k <= n
        /\ k < n \/ (k = n /\ pc[MAIN] # "join") => pc[client_q[k].tid] = "gone"
    /\ pc[MAIN] \in {"wait", "log_totals"} => n = 0
    /\ pc[MAIN] = "join" => n = temp
    /\ pc[MAIN] \in {"log_totals", "visit"} /\ temp # NONE => n = temp - 1
Orderly == \E n \in 0 .. Len(client_q) : EndedTo(n)

(* A step that neither kills nor joins: whoever is gone stays gone, and    *)
(* whoever registers has not been killed.                                  *)
LEMMA OthersKeepOrderly ==
    ASSUME Types, Queue, Queue', Orderly, UNCHANGED <<temp, killed>>,
           pc'[MAIN] = "join" <=> pc[MAIN] = "join",
           pc'[MAIN] \in {"wait", "log_totals"} => pc[MAIN] \in {"wait", "log_totals"},
           pc'[MAIN] \in {"log_totals", "visit"} => pc[MAIN] \in {"log_totals", "visit"},
           Len(client_q') >= Len(client_q),
           \A k \in DOMAIN client_q :
              /\ k \in DOMAIN client_q' /\ client_q'[k] = client_q[k]
              /\ pc[client_q[k].tid] = "gone" => pc'[client_q[k].tid] = "gone",
           \A k \in DOMAIN client_q' \ DOMAIN client_q :
              k > Len(client_q) /\ ~killed[client_q'[k].tid]
    PROVE  Orderly'
<1>1. PICK n \in 0 .. Len(client_q) : EndedTo(n)
  BY DEF Orderly
<1>2. PICK S : client_q \in Seq(S)
  BY DEF Queue
<1>3. PICK R : client_q' \in Seq(R)
  BY DEF Queue
<1>4. n \in 0 .. Len(client_q')
  BY <1>2, <1>3
<1>5. ASSUME NEW k \in DOMAIN client_q'
      PROVE  /\ killed'[client_q'[k].tid] <=> k <= n
             /\ k < n \/ (k = n /\ pc'[MAIN] # "join") => pc'[client_q'[k].tid] = "gone"
  <2>1. CASE k \in DOMAIN client_q
    BY <1>1, <2>1 DEF EndedTo
  <2>2. CASE k \notin DOMAIN client_q
    <3>1. k > n /\ k \in Int
      BY <1>2, <1>3, <1>5, <2>2
    <3>2. ~(k <= n) /\ ~(k < n) /\ k # n
      BY <1>2, <3>1
    <3>3. ~killed'[client_q'[k].tid]
      BY <1>5, <2>2
    <3> QED
      BY <3>2, <3>3
  <2> QED
    BY <2>1, <2>2
<1>6. EndedTo(n)'
  BY <1>1, <1>5 DEF EndedTo
<1> QED
  BY <1>4, <1>6 DEF Orderly

LEMMA InterruptKeepsOrderly ==
    ASSUME Types, Queue, Orderly, Interrupt
    PROVE  Orderly'
<1> USE ThreadFacts
<1>1. EndedTo(0)
  BY DEF Orderly, Interrupt, EndedTo
<1>2. /\ pc' = [pc EXCEPT ![MAIN] = "log_totals"]
      /\ temp' \in {NONE, 1}
      /\ UNCHANGED <<client_q, killed>>
  BY DEF Interrupt, Goto
<1>3. pc'[MAIN] = "log_totals" /\ \A t \in Games : pc'[t] = pc[t]
  BY <1>2 DEF Types
<1>4. \A k \in DOMAIN client_q : client_q[k].tid \in Games
  BY DEF Queue, QueueIsComplete
<1>5. DOMAIN client_q \subseteq Nat /\ 0 \in 0 .. Len(client_q')
  BY <1>2 DEF Queue
<1>6. EndedTo(0)'
  <2>1. temp' # NONE => 0 = temp' - 1
    BY <1>2
  <2>2. \A k \in DOMAIN client_q : k < 0 \/ k = 0 => pc[client_q[k].tid] = "gone"
    BY <1>1 DEF EndedTo, Interrupt
  <2> QED
    BY <1>1, <1>2, <1>3, <1>4, <2>1, <2>2 DEF EndedTo
<1> QED
  BY <1>5, <1>6 DEF Orderly

(* The thread of the node at temp is the next to be killed.                *)
LEMMA DisconnectKeepsOrderly ==
    ASSUME Types, Queue, Orderly, Disconnect
    PROVE  Orderly'
<1> USE ThreadFacts
<1>1. /\ pc[MAIN] = "visit" /\ temp # NONE
      /\ pc' = [pc EXCEPT ![MAIN] = "join"]
      /\ killed' = [killed EXCEPT ![client_q[temp].tid] = TRUE]
      /\ UNCHANGED <<client_q, temp>>
  BY DEF Disconnect, Goto
<1>2. temp \in 1 .. Len(client_q) /\ temp \in DOMAIN client_q /\ DOMAIN client_q \subseteq Nat
  BY <1>1 DEF Queue, NONE
<1>3. EndedTo(temp - 1)
  BY <1>1 DEF Orderly, EndedTo
<1>4. \A k \in DOMAIN client_q :
        /\ client_q[k].tid \in Games
        /\ client_q[k].tid = client_q[temp].tid => k = temp
  BY <1>2 DEF Queue, QueueIsComplete
<1>5. pc'[MAIN] = "join" /\ \A t \in Games : pc'[t] = pc[t]
  BY <1>1 DEF Types
<1>6. ASSUME NEW k \in DOMAIN client_q
      PROVE  /\ killed'[client_q[k].tid] <=> k <= temp
             /\ k < temp => pc[client_q[k].tid] = "gone"
  <2>1. CASE k = temp
    <3>1. killed'[client_q[k].tid]
      BY <1>1, <1>4, <2>1 DEF Types
    <3>2. k <= temp /\ ~(k < temp)
      BY <1>2, <2>1
    <3> QED
      BY <1>2, <2>1, <3>1, <3>2
  <2>2. CASE k # temp
    <3>1. killed'[client_q[k].tid] = killed[client_q[k].tid]
      BY <1>1, <1>4, <2>2 DEF Types
    <3>2. killed[client_q[k].tid] <=> k <= temp - 1
      BY <1>3 DEF EndedTo
    <3>3. (k <= temp - 1 <=> k <= temp) /\ (k < temp => k < temp - 1 \/ k = temp - 1)
      BY <1>2, <1>6, <2>2
    <3> QED
      BY <1>1, <1>3, <3>1, <3>2, <3>3 DEF EndedTo
  <2> QED
    BY <2>1, <2>2
<1>7. EndedTo(temp)'
  BY <1>1, <1>4, <1>5, <1>6 DEF EndedTo
<1> QED
  BY <1>1, <1>2, <1>7 DEF Orderly

LEMMA VisitsNext ==
    ASSUME temp \in Int, temp' \in {temp + 1, NONE} PROVE temp' # NONE => temp = temp' - 1
<1>1. \A m \in Int : \A n : n = m + 1 => m = n - 1
  OBVIOUS
<1>2. temp' # NONE => temp' = temp + 1
  OBVIOUS
<1> QED
  BY <1>1, <1>2

LEMMA JoinKeepsOrderly ==
    ASSUME Types, Queue, Orderly, Join
    PROVE  Orderly'
<1> USE ThreadFacts
<1>1. /\ pc[MAIN] = "join" /\ pc[client_q[temp].tid] = "gone"
      /\ pc' = [pc EXCEPT ![MAIN] = "visit"]
      /\ temp' \in {temp + 1, NONE}
      /\ UNCHANGED <<client_q, killed>>
  BY DEF Join, Goto, pthread_join
<1>2. EndedTo(temp) /\ temp \in 0 .. Len(client_q)
  BY <1>1 DEF Orderly, EndedTo
<1>3. \A k \in DOMAIN client_q : client_q[k].tid \in Games
  BY DEF Queue, QueueIsComplete
<1>4. pc'[MAIN] = "visit" /\ \A t \in Games : pc'[t] = pc[t]
  BY <1>1 DEF Types
<1>5. PICK n : n = temp
  OBVIOUS
<1>6. \A k \in DOMAIN client_q :
        /\ killed[client_q[k].tid] <=> k <= n
        /\ k <= n => pc[client_q[k].tid] = "gone"
  <2>1. \A k \in DOMAIN client_q : k <= n => k < n \/ k = n
    BY <1>2, <1>5 DEF Queue
  <2> QED
    BY <1>1, <1>2, <1>5, <2>1 DEF EndedTo
<1>7. \A k \in DOMAIN client_q : k < n \/ k = n => k <= n
  BY <1>2, <1>5 DEF Queue
<1>8. temp' # NONE => n = temp' - 1
  <2>1. temp \in Int
    BY <1>2 DEF Queue
  <2>2. temp' # NONE => temp = temp' - 1
    BY <1>1, <2>1, VisitsNext
  <2> QED
    BY <1>5, <2>2
<1>9. EndedTo(n)'
  BY <1>1, <1>3, <1>4, <1>6, <1>7, <1>8 DEF EndedTo
<1> QED
  BY <1>1, <1>2, <1>5, <1>9 DEF Orderly

(* A thread that is gone takes no step.                                    *)
LEMMA GoneStaysGone ==
    ASSUME Types, NEW t \in Games, gameloop(t) \/ thread_cleanup(t)
    PROVE  pc[t] # "gone"
  BY ThreadFacts DEF gameloop, Start, EnterQueue, Register, OpenStreams, SendLine, ReadAck,
     ReadGuess, ReadNothing, EnterSuccesses, AddSuccess, Reply, LastReply, Close, LogOpen,
     LogClose, thread_cleanup, InLogentry, AfterCall

LEMMA OrderlyStep ==
    ASSUME Types, Queue, Queue', Orderly, [Next]_serverVars
    PROVE  Orderly'
<1> USE ThreadFacts
<1>1. PICK S : client_q \in Seq(S)
  BY DEF Queue
<1>2. \A k \in DOMAIN client_q : client_q[k].tid \in Games
  BY DEF Queue, QueueIsComplete
<1>3. CASE Interrupt  BY <1>3, InterruptKeepsOrderly
<1>4. CASE Disconnect BY <1>4, DisconnectKeepsOrderly
<1>5. CASE Join       BY <1>5, JoinKeepsOrderly
<1>6. ASSUME NEW t \in Games, gameloop(t) \/ thread_cleanup(t)
      PROVE  Orderly'
  <2>1. /\ \A self \in Threads \ {t} : pc'[self] = pc[self]
        /\ UNCHANGED <<temp, killed>> /\ pc[t] # "gone"
    BY <1>6, GameStep, GoneStaysGone DEF Queue, Registered
  <2>2. \A k \in DOMAIN client_q :
            pc[client_q[k].tid] = "gone" => pc'[client_q[k].tid] = "gone"
    BY <1>2, <2>1
  <2>3. CASE Register(t)
    <3>1. ~Registered(t) /\ game[t].tail = Len(client_q)
      BY <2>3 DEF Register, Registered, Queue
    <3>2. ~killed[t]
      BY <3>1 DEF Queue
    <3> DEFINE node == [tid |-> t, sockfd |-> game[t].sock]
    <3>3. client_q' = Append(client_q, node)
      <4>1. SubSeq(client_q, 1, Len(client_q)) = client_q
        BY <1>1
      <4> QED
        BY <2>3, <3>1, <4>1 DEF Register, q_add
    <3>4. node.tid = t
      OBVIOUS
    <3> HIDE DEF node
    <3>5. /\ Len(client_q') = Len(client_q) + 1 /\ Len(client_q) \in Nat
          /\ DOMAIN client_q' = DOMAIN client_q \cup {Len(client_q) + 1}
          /\ \A k \in DOMAIN client_q : client_q'[k] = client_q[k]
          /\ client_q'[Len(client_q) + 1] = node
      <4>1. client_q \in Seq(S \cup {node})
        BY <1>1
      <4> QED
        BY <3>3, <4>1
    <3> QED
      BY <2>1, <2>2, <3>2, <3>4, <3>5, OthersKeepOrderly
  <2>4. CASE ~Register(t)
    <3>1. client_q' = client_q
      BY <1>6, <2>4, GameIsQuiet DEF Quiet, EnterQueue
    <3>2. Len(client_q') >= Len(client_q)
      BY <1>1, <3>1
    <3> QED
      BY <2>1, <2>2, <3>1, <3>2, OthersKeepOrderly
  <2> QED
    BY <2>3, <2>4
<1>7. CASE \/ clientaccepter \/ ReadStatm \/ Exit \/ LogOpen(MAIN) \/ LogClose(MAIN)
           \/ \E t \in Games : Leave(t)
  <2>1. /\ client_q' = client_q
        /\ \A t \in Games : pc[t] = "gone" => pc'[t] = "gone"
    BY <1>7, OtherStep DEF signalhandler
  <2>2. UNCHANGED <<temp, killed>>
    BY <1>7 DEF clientaccepter, Accept, AcceptFails, Create, LogOpen, LogClose,
                ReadStatm, Exit, Leave, handler
  <2>3. \A k \in DOMAIN client_q :
            pc[client_q[k].tid] = "gone" => pc'[client_q[k].tid] = "gone"
    BY <1>2, <2>1
  <2>4. Len(client_q') >= Len(client_q) /\ DOMAIN client_q' = DOMAIN client_q
    <3>1. Len(client_q) \in Nat
      BY <1>1
    <3> QED
      BY <2>1, <3>1
  <2>5. CASE ~LogClose(MAIN) /\ ~ReadStatm
    <3>1. pc'[MAIN] = pc[MAIN]
      BY <1>7, <2>5 DEF clientaccepter, Accept, AcceptFails, Create, LogOpen, LogClose,
                Exit, Leave, Goto, Types
    <3> QED
      BY <2>1, <2>2, <2>3, <2>4, <3>1, OthersKeepOrderly
  <2>6. CASE LogClose(MAIN) \/ ReadStatm
    <3>1. \/ pc[MAIN] = "log_totals" /\ pc'[MAIN] = "visit"
          \/ pc[MAIN] \in {"visit", "log_virtual", "log_physical"}
             /\ pc'[MAIN] \in {"log_virtual", "log_physical", "exit"}
      BY <2>6 DEF LogClose, ReadStatm, Goto, Types, InLogentry, AfterLog, AfterCall, MainPcs
    <3>2. /\ pc'[MAIN] # "join" /\ pc[MAIN] # "join"
          /\ pc'[MAIN] \notin {"wait", "log_totals"}
          /\ pc'[MAIN] = "visit" => pc[MAIN] = "log_totals"
      BY <3>1
    <3> QED
      BY <2>1, <2>2, <2>3, <2>4, <3>2, OthersKeepOrderly
  <2> QED
    BY <2>5, <2>6
<1>8. CASE UNCHANGED serverVars
  <2>1. UNCHANGED <<client_q, pc, temp, killed>>
    BY <1>8 DEF serverVars, handler
  <2> QED
    BY <1>1, <2>1, OthersKeepOrderly
<1> QED
  BY <1>3, <1>4, <1>5, <1>6, <1>7, <1>8 DEF Next, signalhandler

(* From SIGINT on, the threads of the queue are ended in its order, one    *)
(* joined before the next is killed, and none is skipped, although the     *)
(* handler walks the queue without its semaphore (server.c:81-90).         *)
THEOREM ThreadsEndInOrder == Spec => []ShutdownIsOrderly
<1>1. Types /\ Queue /\ Orderly => ShutdownIsOrderly
  <2> SUFFICES ASSUME Types, Queue, Orderly PROVE ShutdownIsOrderly
    OBVIOUS
  <2>1. PICK n \in 0 .. Len(client_q) : EndedTo(n)
    BY DEF Orderly
  <2>2. PICK S : client_q \in Seq(S)
    BY DEF Queue
  <2>3. n \in Nat /\ 1 .. n \subseteq DOMAIN client_q /\ DOMAIN client_q \subseteq Nat \ {0}
    BY <2>2
  <2> DEFINE tid == [k \in 1 .. n |-> client_q[k].tid]
  <2>4. \A j, k \in 1 .. n : tid[j] = tid[k] => j = k
    BY <2>3 DEF Queue, QueueIsComplete
  <2>5. {t \in Games : killed[t]} = {tid[k] : k \in 1 .. n}
    <3>1. ASSUME NEW t \in Games, killed[t] PROVE \E k \in 1 .. n : t = tid[k]
      <4>1. PICK k \in DOMAIN client_q : client_q[k].tid = t
        BY <3>1 DEF Queue, QueueIsComplete
      <4>2. k <= n
        BY <2>1, <3>1, <4>1 DEF EndedTo
      <4> QED
        BY <2>3, <4>1, <4>2
    <3>2. ASSUME NEW k \in 1 .. n PROVE tid[k] \in Games /\ killed[tid[k]]
      BY <2>1, <2>3 DEF EndedTo, Queue, QueueIsComplete
    <3> QED
      BY <3>1, <3>2
  <2> HIDE DEF tid
  <2>6. Cardinality({t \in Games : killed[t]}) = n
    <3>1. IsFiniteSet(1 .. n) /\ Cardinality(1 .. n) = n
      BY <2>3, FS_Interval
    <3> QED
      BY <2>4, <2>5, <3>1, ImageIsCounted
  <2> QED
    BY <2>1, <2>6 DEF ShutdownIsOrderly, EndedTo
<1>2. Types /\ Queue /\ Init => Orderly
  <2> SUFFICES ASSUME Types, Queue, Init PROVE Orderly
    OBVIOUS
  <2>1. /\ DOMAIN client_q = {} /\ 0 \in 0 .. Len(client_q)
        /\ pc[MAIN] = "wait"
    BY ThreadFacts DEF Init
  <2> QED
    BY <2>1 DEF Orderly, EndedTo
<1>3. Types /\ Queue /\ Queue' /\ Orderly /\ [Next]_serverVars => Orderly'
  BY OrderlyStep
<1>4. Init => Types /\ Queue
  BY TypesInitially, QueueInitially
<1> QED
  BY <1>1, <1>2, <1>3, <1>4, TypesAlways, PTL DEF Spec

-----------------------------------------------------------------------------
(***************************************************************************)
(* As long as every thread reads its argument before the next accept and   *)
(* nobody presses Ctrl-C (CalmSpec of MCServer): which thread owns which   *)
(* descriptor, how many are open, and what can end the process.            *)
(***************************************************************************)

(* The kernel hands out the smallest free descriptor. *)

LEMMA NewFdIsFree ==
    \/ NewFd = NONE /\ FreeFds = {}
    \/ NewFd \in Fds /\ fds[NewFd] = FREE
<1>1. FreeFds \subseteq Nat
  BY ServerAssumption DEF FreeFds, Fds
<1> QED
  BY <1>1, MinIsIn DEF NewFd, FreeFds

-----------------------------------------------------------------------------
(* Who owns which descriptor *)

(* A connection is on its way from accept to its thread in newsockfd, and  *)
(* from then on in the thread's sock; an accept that fails overwrites      *)
(* newsockfd, but ends the process.                                        *)
Serving(t) == pc[t] \notin {"none", "created", "gone"}
Owned ==
    /\ DOMAIN fds = Fds
    /\ \A self \in Threads : logfd[self] # NONE => Refers(logfd[self]) = LOG
    /\ pc[ACCEPTER] \in {"log_client", "create"} => Refers(newsockfd) = accepted
    /\ \A t \in Games : pc[t] = "created" =>
          t = accepted /\ (status = "running" => Refers(newsockfd) = t)
    /\ \A t \in Games : Serving(t) => Refers(game[t].sock) = t
Ownership == prompt => Owned

LEMMA Kinds ==
    /\ \A t \in Games : t # FREE /\ t # LOG /\ t # STATM /\ t # WELCOME
    /\ FREE # LOG /\ FREE # WELCOME /\ LOG # WELCOME /\ NONE \notin Fds
    /\ \A t \in Games : t \in Nat \ {0}
  BY ServerAssumption DEF Games, FREE, LOG, STATM, WELCOME, NONE, Fds

(* A step that neither opens nor closes a descriptor, nor takes a          *)
(* connection over, leaves every owner what it has.                        *)
LEMMA NothingOpens ==
    ASSUME Owned, status = "running", UNCHANGED <<fds, logfd, newsockfd, accepted>>,
           pc'[ACCEPTER] \in {"log_client", "create"}
                => pc[ACCEPTER] \in {"log_client", "create"},
           \A t \in Games :
              /\ pc'[t] = "created" => pc[t] = "created"
              /\ Serving(t)' => Serving(t) /\ game'[t].sock = game[t].sock
    PROVE  Owned'
  BY DEF Owned, Refers

(* Taking a free descriptor takes nobody's.                                *)
LEMMA OpensFree ==
    ASSUME Owned, NEW d, d \in Fds, fds[d] = FREE, NEW what, fds' = [fds EXCEPT ![d] = what],
           NEW e, Refers(e) # FREE
    PROVE  Refers(e)' = Refers(e)
  BY DEF Owned, Refers

(* Closing a descriptor leaves those that refer to something else.         *)
LEMMA ClosesOwn ==
    ASSUME Owned, NEW d, fds' = Closed(d), NEW e, Refers(e) # Refers(d)
    PROVE  Refers(e)' = Refers(e)
<1>1. e # d
  OBVIOUS
<1>2. e \in Fds => fds'[e] = fds[e]
  BY <1>1 DEF Closed
<1> QED
  BY <1>2 DEF Refers

LEMMA AcceptKeepsOwned ==
    ASSUME Types, Owned, Accept, InTime
    PROVE  Owned'
<1> USE ThreadFacts, Kinds DEF Types, Goto
<1>1. /\ NewFd \in Fds /\ fds[NewFd] = FREE
      /\ fds' = [fds EXCEPT ![NewFd] = accepted + 1]
      /\ accepted' = accepted + 1 /\ newsockfd' = NewFd
      /\ pc' = [pc EXCEPT ![ACCEPTER] = "log_client"]
      /\ UNCHANGED <<logfd, game>>
  BY NewFdIsFree DEF Accept, Owned
<1>2. \A t \in Games : pc'[t] = pc[t] /\ pc[t] # "created"
  BY <1>1 DEF InTime
<1>3. \A e : Refers(e) # FREE => Refers(e)' = Refers(e)
  BY <1>1, OpensFree
<1>4. Refers(newsockfd)' = accepted'
  BY <1>1 DEF Owned, Refers
<1>5. DOMAIN fds' = Fds
  BY <1>1 DEF Owned
<1> QED
  BY <1>1, <1>2, <1>3, <1>4, <1>5 DEF Owned, Serving

LEMMA CreateKeepsOwned ==
    ASSUME Types, Owned, Create
    PROVE  Owned'
<1> USE ThreadFacts DEF Types
<1>1. /\ pc[ACCEPTER] = "create" /\ accepted \in Games
      /\ pc' = [pc EXCEPT ![ACCEPTER] = "accept", ![accepted] = "created"]
      /\ UNCHANGED <<fds, logfd, newsockfd, accepted, game>>
  BY DEF Create
<1>2. /\ pc'[accepted] = "created" /\ pc'[ACCEPTER] = "accept"
      /\ \A t \in Games \ {accepted} : pc'[t] = pc[t]
  BY <1>1
<1> QED
  BY <1>1, <1>2 DEF Owned, Refers, Serving

LEMMA StartKeepsOwned ==
    ASSUME Types, Owned, status = "running", NEW t \in Games, Start(t)
    PROVE  Owned'
<1> USE ThreadFacts DEF Types, Goto, SetGame, Fields
<1>1. /\ pc[t] = "created" /\ pc' = [pc EXCEPT ![t] = "wait_client"]
      /\ game' = [game EXCEPT ![t]["sock"] = newsockfd]
      /\ UNCHANGED <<fds, logfd, newsockfd, accepted>>
  BY DEF Start, accepter
<1>2. /\ game'[t].sock = newsockfd /\ pc'[t] = "wait_client" /\ pc'[ACCEPTER] = pc[ACCEPTER]
      /\ \A u \in Games \ {t} : pc'[u] = pc[u] /\ game'[u] = game[u]
  BY <1>1
<1> QED
  BY <1>1, <1>2 DEF Owned, Refers, Serving

LEMMA CloseKeepsOwned ==
    ASSUME Types, Owned, status = "running", NEW t \in Games, Close(t)
    PROVE  Owned'
<1> USE ThreadFacts, Kinds DEF Types, Goto
<1>1. /\ pc[t] = "close" /\ pc' = [pc EXCEPT ![t] = "gone"]
      /\ fds' = Closed(game[t].sock)
      /\ UNCHANGED <<logfd, newsockfd, accepted, game>>
  BY DEF Close, CloseSocket, accepter
<1>2. Refers(game[t].sock) = t
  BY <1>1 DEF Owned, Serving
<1>3. \A e : Refers(e) # t => Refers(e)' = Refers(e)
  BY <1>1, <1>2, ClosesOwn
<1>4. /\ pc'[t] = "gone" /\ pc'[ACCEPTER] = pc[ACCEPTER]
      /\ \A u \in Games \ {t} : pc'[u] = pc[u]
  BY <1>1
<1>5. pc[ACCEPTER] \in {"log_client", "create"} => accepted # t
  BY <1>1
<1>6. DOMAIN fds' = Fds
  BY <1>1 DEF Closed
<1> QED
  BY <1>1, <1>3, <1>4, <1>5, <1>6 DEF Owned, Serving

LEMMA OpenStreamsKeepsOwned ==
    ASSUME Types, Owned, status = "running", NEW t \in Games, OpenStreams(t)
    PROVE  Owned'
<1> USE ThreadFacts, Kinds DEF Types, Goto, SetGame, Fields
<1>1. /\ pc[t] = "open" /\ pc' = [pc EXCEPT ![t] = "log_secret"]
      /\ game' = [game EXCEPT ![t]["stream"] = (Refers(game[t].sock) \in Games \cup {LOG})]
      /\ \/ UNCHANGED fds
         \/ NewFd # NONE /\ fds' = [fds EXCEPT ![NewFd] = WELCOME]
      /\ UNCHANGED <<logfd, newsockfd, accepted>>
  BY DEF OpenStreams, accepter
<1>2. /\ pc'[t] = "log_secret" /\ pc'[ACCEPTER] = pc[ACCEPTER]
      /\ \A u \in Games : game'[u].sock = game[u].sock
      /\ \A u \in Games \ {t} : pc'[u] = pc[u]
  BY <1>1
<1>3. \A e : Refers(e) # FREE => Refers(e)' = Refers(e)
  BY <1>1, NewFdIsFree, OpensFree DEF Refers
<1>4. DOMAIN fds' = Fds
  BY <1>1 DEF Owned
<1> QED
  BY <1>1, <1>2, <1>3, <1>4 DEF Owned, Serving

LEMMA LogOpenKeepsOwned ==
    ASSUME Types, Owned, status = "running", NEW self \in Threads, LogOpen(self)
    PROVE  Owned'
<1> USE ThreadFacts, Kinds DEF Types
<1>1. /\ logfd' = [logfd EXCEPT ![self] = NewFd]
      /\ \/ NewFd = NONE /\ UNCHANGED fds
         \/ NewFd # NONE /\ fds' = [fds EXCEPT ![NewFd] = LOG]
      /\ UNCHANGED <<pc, newsockfd, accepted, game>>
  BY DEF LogOpen, accepter
<1>2. \A e : Refers(e) # FREE => Refers(e)' = Refers(e)
  BY <1>1, NewFdIsFree, OpensFree DEF Refers
<1>3. \A other \in Threads : logfd'[other] # NONE => Refers(logfd[other])' = LOG
  <2>1. logfd'[self] # NONE => Refers(logfd[self])' = LOG
    BY <1>1, NewFdIsFree DEF Owned, Refers
  <2>2. \A other \in Threads \ {self} : logfd'[other] = logfd[other]
    BY <1>1
  <2> QED
    BY <1>2, <2>1, <2>2 DEF Owned
<1>4. DOMAIN fds' = Fds
  BY <1>1 DEF Owned
<1> QED
  BY <1>1, <1>2, <1>3, <1>4 DEF Owned, Serving

LEMMA LogCloseKeepsOwned ==
    ASSUME Types, Owned, LogIsSerial, status = "running",
           NEW self \in Threads, LogClose(self)
    PROVE  Owned'
<1> USE ThreadFacts, Kinds DEF Types, Goto
<1>1. /\ logfd[self] # NONE /\ logfd' = [logfd EXCEPT ![self] = NONE]
      /\ fds' = Closed(logfd[self])
      /\ pc' = [pc EXCEPT ![self] = AfterLog(self)] /\ InLogentry(self)
      /\ UNCHANGED <<newsockfd, accepted, game>>
  BY DEF LogClose, accepter
<1>2. \A e : Refers(e) # LOG => Refers(e)' = Refers(e)
  BY <1>1, ClosesOwn DEF Owned
<1>3. \A other \in Threads : logfd'[other] = NONE
  BY <1>1 DEF LogIsSerial
<1>4. /\ pc[self] \notin {"created", "none", "gone"}
      /\ AfterLog(self) \notin {"created"}
      /\ AfterLog(self) \in {"log_client", "create"} => pc[self] = "log_client"
  BY <1>1 DEF InLogentry, AfterLog, AfterCall
<1>5. \A t \in Games :
        /\ pc'[t] = "created" => pc[t] = "created"
        /\ Serving(t)' => Serving(t)
  BY <1>1, <1>4 DEF Serving
<1>6. pc'[ACCEPTER] \in {"log_client", "create"} => pc[ACCEPTER] \in {"log_client", "create"}
  BY <1>1, <1>4
<1>7. DOMAIN fds' = Fds
  BY <1>1 DEF Closed
<1> QED
  BY <1>1, <1>2, <1>3, <1>5, <1>6, <1>7 DEF Owned

(* The other steps open and close nothing.                                 *)
LEMMA OthersKeepOwned ==
    ASSUME Types, Queue, Owned, status = "running", NEW t \in Games,
           \/ EnterQueue(t) \/ Register(t) \/ SendLine(t) \/ ReadAck(t) \/ ReadGuess(t)
           \/ ReadNothing(t) \/ EnterSuccesses(t) \/ AddSuccess(t) \/ Reply(t) \/ LastReply(t)
           \/ thread_cleanup(t) \/ Leave(t)
    PROVE  Owned'
<1> USE ThreadFacts DEF Types, Goto, SetGame, Fields, accepter
<1> DEFINE Own ==
        /\ UNCHANGED <<fds, logfd, newsockfd, accepted>>
        /\ pc'[ACCEPTER] = pc[ACCEPTER]
        /\ pc'[t] = "created" => pc[t] = "created"
        /\ Serving(t)' => Serving(t) /\ game'[t].sock = game[t].sock
        /\ \A u \in Games \ {t} : pc'[u] = pc[u] /\ game'[u] = game[u]
<1>1. Own
  <2> USE DEF Serving
  <2>1. CASE EnterQueue(t)     BY <2>1 DEF EnterQueue
  <2>2. CASE Register(t)       BY <2>2 DEF Register
  <2>3. CASE SendLine(t)       BY <2>3 DEF SendLine
  <2>4. CASE ReadAck(t)        BY <2>4 DEF ReadAck
  <2>5. CASE ReadGuess(t)
    <3>1. PICK guess \in {"invalid", "long", "wrong", "right"} :
              game' = [game EXCEPT ![t]["reply"] = Verdict(guess, game[t].moves)]
      BY <2>5 DEF ReadGuess, Guesses
    <3> QED
      BY <2>5, <3>1 DEF ReadGuess
  <2>6. CASE ReadNothing(t)    BY <2>6 DEF ReadNothing
  <2>7. CASE EnterSuccesses(t) BY <2>7 DEF EnterSuccesses
  <2>8. CASE AddSuccess(t)     BY <2>8 DEF AddSuccess
  <2>9. CASE Reply(t)          BY <2>9, AnsweredFacts DEF Reply
  <2>10. CASE LastReply(t)     BY <2>10 DEF LastReply, CloseStream
  <2>11. CASE thread_cleanup(t) BY <2>11 DEF thread_cleanup
  <2>12. CASE Leave(t)         BY <2>12 DEF Leave
  <2> QED
    BY <2>1, <2>2, <2>3, <2>4, <2>5, <2>6, <2>7, <2>8, <2>9, <2>10, <2>11, <2>12
<1>2. \A u \in Games : /\ pc'[u] = "created" => pc[u] = "created"
                       /\ Serving(u)' => Serving(u) /\ game'[u].sock = game[u].sock
  BY <1>1 DEF Serving
<1> HIDE DEF Types
<1> QED
  BY <1>1, <1>2, NothingOpens

LEMMA OwnershipStep ==
    ASSUME Types, Queue, LogIsSerial, Ownership, [MCNext /\ Calm]_mcVars
    PROVE  Ownership'
<1> SUFFICES ASSUME prompt' PROVE Owned'
  BY DEF Ownership
<1>1. ASSUME Next, Calm, InTime, Owned PROVE Owned'
  <2> USE <1>1
  <2>1. status = "running"
    BY DEF Next
  <2>2. CASE Accept                         BY <2>2, AcceptKeepsOwned
  <2>3. CASE Create                         BY <2>3, CreateKeepsOwned
  <2>4. CASE \E t \in Games : Start(t)      BY <2>1, <2>4, StartKeepsOwned
  <2>5. CASE \E t \in Games : Close(t)      BY <2>1, <2>5, CloseKeepsOwned
  <2>6. CASE \E t \in Games : OpenStreams(t) BY <2>1, <2>6, OpenStreamsKeepsOwned
  <2>7. CASE \E self \in Threads : LogOpen(self) BY <2>1, <2>7, LogOpenKeepsOwned
  <2>8. CASE \E self \in Threads : LogClose(self) BY <2>1, <2>8, LogCloseKeepsOwned
  <2>9. ASSUME NEW t \in Games,
           \/ EnterQueue(t) \/ Register(t) \/ SendLine(t) \/ ReadAck(t) \/ ReadGuess(t)
           \/ ReadNothing(t) \/ EnterSuccesses(t) \/ AddSuccess(t) \/ Reply(t) \/ LastReply(t)
           \/ thread_cleanup(t) \/ Leave(t)
        PROVE  Owned'
    BY <2>1, <2>9, OthersKeepOwned
  <2>10. CASE AcceptFails
    <3>1. /\ UNCHANGED <<fds, logfd, accepted, game>>
          /\ pc' = [pc EXCEPT ![ACCEPTER] = "gone"]
          /\ status' = "exited" \/ pc[MAIN] # "wait"
      BY <2>10 DEF AcceptFails, Goto
    <3>2. /\ pc'[ACCEPTER] = "gone" /\ pc'[MAIN] = pc[MAIN]
          /\ \A t \in Games : pc'[t] = pc[t]
      BY <3>1, ThreadFacts DEF Types
    <3> QED
      BY <3>1, <3>2 DEF Owned, Refers, Serving, Calm
  <2>11. CASE Exit
    BY <2>1, <2>11, NothingOpens DEF Exit, accepter, Serving
  <2>12. CASE Interrupt \/ Disconnect \/ Join \/ ReadStatm
    <3>1. pc'[MAIN] # "wait"
      BY <2>12, ThreadFacts DEF Interrupt, Disconnect, Join, ReadStatm, Goto, Types
    <3> QED
      BY <3>1 DEF Calm
  <2> QED
    BY <2>2, <2>3, <2>4, <2>5, <2>6, <2>7, <2>8, <2>9, <2>10, <2>11, <2>12,
       ThreadFacts
       DEF Next, clientaccepter, signalhandler, gameloop
<1>2. CASE MCNext /\ Calm
  BY <1>1, <1>2 DEF MCNext, Ownership
<1>3. CASE UNCHANGED mcVars
  BY <1>3 DEF mcVars, history, serverVars, accepter, Ownership, Owned, Refers, Serving
<1> QED
  BY <1>2, <1>3

-----------------------------------------------------------------------------
(* Until somebody presses Ctrl-C *)

(* Nobody is killed, the log is serial and each thread has its socket.     *)
Undisturbed ==
    /\ Types /\ Queue /\ LogIsSerial /\ Matches /\ Ownership
    /\ pc[MAIN] = "wait" /\ \A t \in Games : ~killed[t]

LEMMA CalmIsUndisturbed == CalmSpec => []Undisturbed
<1> DEFINE Waiting == pc[MAIN] = "wait" /\ \A t \in Games : ~killed[t]
<1>1. MCInit => Ownership
  <2> SUFFICES ASSUME MCInit PROVE Owned
    BY DEF Ownership
  <2>1. \A t \in Games : pc[t] = "none"
    BY ThreadFacts DEF MCInit, Init
  <2> QED
    BY <2>1, ThreadFacts DEF MCInit, Init, Owned, Serving
<1>2. MCInit => Init /\ Matches /\ Waiting
  BY ThreadFacts, MatchesInitially DEF MCInit, Init
<1>3. [MCNext /\ Calm]_mcVars => [Next]_serverVars
  BY DEF MCNext, mcVars
<1>4. CalmSpec => Spec
  BY <1>2, <1>3, PTL DEF CalmSpec, Spec
<1>5. Types /\ Queue /\ LogIsSerial /\ Ownership /\ [MCNext /\ Calm]_mcVars => Ownership'
  BY OwnershipStep
<1>6. Types /\ Queue /\ Matches /\ [MCNext /\ Calm]_mcVars => Matches'
  BY <1>3, MatchesStep
<1>7. Types /\ Queue /\ Waiting /\ [MCNext /\ Calm]_mcVars => Waiting'
  <2> SUFFICES ASSUME Types, Queue, Waiting, Next, Calm PROVE Waiting'
    BY DEF MCNext, mcVars, serverVars, handler
  <2>1. ~Disconnect
    BY DEF Disconnect
  <2>2. CASE \E t \in Games : gameloop(t) \/ thread_cleanup(t)
    BY <2>2, GameStep DEF Calm
  <2>3. CASE clientaccepter \/ Interrupt \/ signalhandler \/ \E t \in Games : Leave(t)
    BY <2>1, <2>3 DEF Calm, clientaccepter, signalhandler, Accept, AcceptFails, Create, LogOpen,
                LogClose, Interrupt, Join, ReadStatm, Exit, Leave, handler
  <2> QED
    BY <2>2, <2>3 DEF Next
<1> QED
  BY <1>1, <1>2, <1>4, <1>5, <1>6, <1>7, TypesAlways, LogEntriesAreSerial, PTL
     DEF CalmSpec, Undisturbed

(* A thread's descriptor is its own connection until it closes it, and     *)
(* nobody else's close or open takes it away, as long as threads start     *)
(* before the next accept (server.c:217-225, 332-333).                     *)
THEOREM ThreadsKeepTheirSockets == CalmSpec => []OwnSocket
<1>1. Undisturbed => OwnSocket
  BY DEF Undisturbed, Ownership, Owned, OwnSocket, Serving
<1> QED
  BY <1>1, CalmIsUndisturbed, PTL

LEMMA UndisturbedStep ==
    ASSUME Undisturbed, Next, Calm
    PROVE  \/ clientaccepter
           \/ \E t \in Games : gameloop(t) \/ Leave(t)
<1>1. /\ pc'[MAIN] = "wait" /\ pc[MAIN] = "wait"
      /\ \A t \in Games : ~killed[t]
      /\ DOMAIN pc = Threads
  BY DEF Undisturbed, Calm, Types
<1>2. ~Interrupt
  BY <1>1, ThreadFacts DEF Interrupt, Goto
<1>3. ~signalhandler
  BY <1>1 DEF signalhandler, Disconnect, Join, ReadStatm, Exit, LogOpen, LogClose, InLogentry,
              AfterCall
<1> QED
  BY <1>1, <1>2, <1>3 DEF Next, thread_cleanup

-----------------------------------------------------------------------------
(* How many descriptors are open *)

Taken       == Fds \ FreeFds
Connections == {t \in 1 .. accepted : pc[t] # "gone"}
Opened      == {t \in Games : Registered(t) /\ pc[t] # "open"}
InLog       == {self \in Threads : logfd[self] # NONE}
Accounted ==
    Cardinality(Taken) = Cardinality(Connections) + Cardinality(Opened) + Cardinality(InLog)
Accounts == status = "running" /\ prompt => Accounted

LEMMA AllAreFinite ==
    ASSUME accepted \in 0 .. MaxClients
    PROVE  /\ IsFiniteSet(Taken) /\ IsFiniteSet(Connections)
           /\ IsFiniteSet(Opened) /\ IsFiniteSet(InLog)
<1>1. IsFiniteSet(Fds) /\ IsFiniteSet(Games) /\ IsFiniteSet(Threads)
  <2>1. IsFiniteSet(Fds) /\ IsFiniteSet(Games)
    BY ServerAssumption, FS_Interval DEF Fds, Games
  <2>2. IsFiniteSet(Games \cup {ACCEPTER, MAIN})
    BY <2>1, FS_AddElement, Games \cup {ACCEPTER, MAIN} = (Games \cup {ACCEPTER}) \cup {MAIN}
  <2> QED
    BY <2>1, <2>2 DEF Threads
<1>2. Connections \subseteq Games
  BY ServerAssumption DEF Connections, Games
<1> QED
  BY <1>1, <1>2, FS_Subset DEF Taken, Opened, InLog

(* What a step takes or gives back is one descriptor, or none.             *)
LEMMA TakesOne ==
    ASSUME Owned, accepted \in 0 .. MaxClients, NewFd # NONE, NEW what, what # FREE,
           fds' = [fds EXCEPT ![NewFd] = what]
    PROVE  Cardinality(Taken') = Cardinality(Taken) + 1
<1>1. NewFd \in Fds /\ fds[NewFd] = FREE
  BY NewFdIsFree
<1>2. NewFd \notin Taken /\ Taken' = Taken \cup {NewFd}
  BY <1>1 DEF Taken, FreeFds, Owned
<1> QED
  BY <1>2, AllAreFinite, FS_AddElement

LEMMA GivesOneBack ==
    ASSUME Owned, accepted \in 0 .. MaxClients, NEW d, Refers(d) # FREE, fds' = Closed(d)
    PROVE  Cardinality(Taken') = Cardinality(Taken) - 1
<1>1. d \in Fds /\ fds[d] # FREE
  BY DEF Refers
<1>2. d \in Taken /\ Taken' = Taken \ {d}
  BY <1>1 DEF Taken, FreeFds, Closed
<1> QED
  BY <1>2, AllAreFinite, FS_RemoveElement

LEMMA AcceptIsAccounted ==
    ASSUME Undisturbed, Owned, Accounted, Accept
    PROVE  Accounted'
<1> USE ThreadFacts, Kinds
<1>1. /\ NewFd # NONE /\ fds' = [fds EXCEPT ![NewFd] = accepted + 1]
      /\ accepted' = accepted + 1 /\ accepted + 1 \in Games
      /\ accepted \in 0 .. MaxClients /\ pc[accepted + 1] = "none"
      /\ \A t \in Games : pc'[t] = pc[t]
      /\ UNCHANGED logfd
  BY NewFdIsFree DEF Accept, Goto, Undisturbed, Types, Games
<1>2. Cardinality(Taken') = Cardinality(Taken) + 1
  BY <1>1, TakesOne
<1>3. Cardinality(Connections') = Cardinality(Connections) + 1
  <2>1. 1 .. accepted + 1 = (1 .. accepted) \cup {accepted + 1} /\ 1 .. accepted \subseteq Games
    BY <1>1 DEF Games
  <2>2. /\ accepted + 1 \notin Connections
        /\ Connections' = Connections \cup {accepted + 1}
    BY <1>1, <2>1 DEF Connections
  <2> QED
    BY <1>1, <2>2, AllAreFinite, FS_AddElement
<1>4. Opened' = Opened /\ InLog' = InLog
  BY <1>1 DEF Opened, InLog, Registered
<1>5. /\ Cardinality(Connections) \in Nat /\ Cardinality(Opened) \in Nat
      /\ Cardinality(InLog) \in Nat
  BY <1>1, AllAreFinite, FS_CardinalityType
<1> QED
  BY <1>2, <1>3, <1>4, <1>5 DEF Accounted

LEMMA OpenIsAccounted ==
    ASSUME Undisturbed, Owned, Accounted, NEW t \in Games, OpenStreams(t), status' = "running"
    PROVE  Accounted'
<1> USE ThreadFacts, Kinds
<1>1. /\ NewFd # NONE /\ fds' = [fds EXCEPT ![NewFd] = WELCOME] /\ WELCOME # FREE
      /\ accepted \in 0 .. MaxClients /\ accepted' = accepted
      /\ pc[t] = "open" /\ pc'[t] = "log_secret"
      /\ \A u \in Games \ {t} : pc'[u] = pc[u]
      /\ UNCHANGED logfd
  BY DEF OpenStreams, Goto, Undisturbed, Types, accepter
<1>2. Cardinality(Taken') = Cardinality(Taken) + 1
  BY <1>1, TakesOne
<1>3. Cardinality(Opened') = Cardinality(Opened) + 1
  <2>1. t \notin Opened /\ Opened' = Opened \cup {t}
    BY <1>1 DEF Opened, Registered
  <2> QED
    BY <1>1, <2>1, AllAreFinite, FS_AddElement
<1>4. Connections' = Connections /\ InLog' = InLog
  <2>1. 1 .. accepted \subseteq Games
    BY <1>1 DEF Games
  <2> QED
    BY <1>1, <2>1 DEF Connections, InLog
<1>5. /\ Cardinality(Connections) \in Nat /\ Cardinality(Opened) \in Nat
      /\ Cardinality(InLog) \in Nat
  BY <1>1, AllAreFinite, FS_CardinalityType
<1> QED
  BY <1>2, <1>3, <1>4, <1>5 DEF Accounted

LEMMA CloseIsAccounted ==
    ASSUME Undisturbed, Owned, Accounted, NEW t \in Games, Close(t)
    PROVE  Accounted'
<1> USE ThreadFacts, Kinds
<1>1. /\ fds' = Closed(game[t].sock) /\ pc[t] = "close" /\ pc'[t] = "gone"
      /\ accepted \in 0 .. MaxClients /\ accepted' = accepted
      /\ \A u \in Games \ {t} : pc'[u] = pc[u]
      /\ UNCHANGED logfd
  BY DEF Close, CloseSocket, Goto, Undisturbed, Types, accepter
<1>2. Cardinality(Taken') = Cardinality(Taken) - 1
  <2>1. Refers(game[t].sock) = t
    BY <1>1 DEF Owned, Serving
  <2> QED
    BY <1>1, <2>1, GivesOneBack
<1>3. Cardinality(Connections') = Cardinality(Connections) - 1
  <2>1. t \in 1 .. accepted /\ 1 .. accepted \subseteq Games
    BY <1>1 DEF Undisturbed, Types, Games
  <2>2. t \in Connections /\ Connections' = Connections \ {t}
    BY <1>1, <2>1 DEF Connections
  <2> QED
    BY <1>1, <2>2, AllAreFinite, FS_RemoveElement
<1>4. Opened' = Opened /\ InLog' = InLog
  BY <1>1 DEF Opened, InLog, Registered
<1>5. /\ Cardinality(Connections) \in Nat /\ Cardinality(Opened) \in Nat
      /\ Cardinality(InLog) \in Nat
  BY <1>1, AllAreFinite, FS_CardinalityType
<1> QED
  BY <1>2, <1>3, <1>4, <1>5 DEF Accounted

(* logentry takes a descriptor and gives it back.                          *)
LEMMA LoggingIsAccounted ==
    ASSUME Undisturbed, Owned, Accounted, status = "running", status' = "running",
           NEW self \in Threads, LogOpen(self) \/ LogClose(self)
    PROVE  Accounted'
<1> USE ThreadFacts, Kinds
<1>1. /\ accepted \in 0 .. MaxClients /\ accepted' = accepted
      /\ DOMAIN logfd = Threads /\ DOMAIN pc = Threads
  BY DEF LogOpen, LogClose, Undisturbed, Types, accepter
<1>2. \A t \in Games : /\ pc'[t] = "gone" <=> pc[t] = "gone"
                       /\ Registered(t)' <=> Registered(t)
                       /\ pc'[t] = "open" <=> pc[t] = "open"
  BY <1>1 DEF LogOpen, LogClose, Goto, InLogentry, AfterLog, AfterCall, Registered
<1>3. Connections' = Connections /\ Opened' = Opened
  <2>1. 1 .. accepted \subseteq Games
    BY <1>1 DEF Games
  <2> QED
    BY <1>1, <1>2, <2>1 DEF Connections, Opened
<1>4. /\ Cardinality(Connections) \in Nat /\ Cardinality(Opened) \in Nat
      /\ Cardinality(InLog) \in Nat
  BY <1>1, AllAreFinite, FS_CardinalityType
<1>5. CASE LogOpen(self)
  <2>1. /\ NewFd # NONE /\ fds' = [fds EXCEPT ![NewFd] = LOG] /\ LOG # FREE
        /\ logfd[self] = NONE /\ logfd' = [logfd EXCEPT ![self] = NewFd]
    BY <1>5 DEF LogOpen
  <2>2. Cardinality(Taken') = Cardinality(Taken) + 1
    BY <1>1, <2>1, TakesOne
  <2>3. self \notin InLog /\ InLog' = InLog \cup {self}
    BY <1>1, <2>1 DEF InLog
  <2>4. Cardinality(InLog') = Cardinality(InLog) + 1
    BY <1>1, <2>3, AllAreFinite, FS_AddElement
  <2> QED
    BY <1>3, <1>4, <2>2, <2>4 DEF Accounted
<1>6. CASE LogClose(self)
  <2>1. /\ fds' = Closed(logfd[self]) /\ logfd[self] # NONE
        /\ logfd' = [logfd EXCEPT ![self] = NONE]
    BY <1>6 DEF LogClose
  <2>2. Cardinality(Taken') = Cardinality(Taken) - 1
    <3>1. Refers(logfd[self]) = LOG
      BY <2>1 DEF Owned
    <3> QED
      BY <1>1, <2>1, <3>1, GivesOneBack
  <2>3. self \in InLog /\ InLog' = InLog \ {self}
    BY <1>1, <2>1 DEF InLog
  <2>4. Cardinality(InLog') = Cardinality(InLog) - 1
    BY <1>1, <2>3, AllAreFinite, FS_RemoveElement
  <2> QED
    BY <1>3, <1>4, <2>2, <2>4 DEF Accounted
<1> QED
  BY <1>5, <1>6

LEMMA NothingIsAccounted ==
    ASSUME Accounted, UNCHANGED <<fds, logfd, accepted>>, accepted \in 0 .. MaxClients,
           \A t \in Games :
              /\ pc'[t] = "gone" <=> pc[t] = "gone"
              /\ Registered(t) /\ pc[t] # "open" <=> Registered(t)' /\ pc'[t] # "open"
    PROVE  Accounted'
<1>1. 1 .. accepted \subseteq Games
  BY ThreadFacts DEF Games
<1>2. Taken' = Taken /\ Connections' = Connections /\ Opened' = Opened /\ InLog' = InLog
  BY <1>1 DEF Taken, FreeFds, Connections, Opened, InLog
<1> QED
  BY <1>2 DEF Accounted

LEMMA AccountsStep ==
    ASSUME Undisturbed, Accounts, [MCNext /\ Calm]_mcVars
    PROVE  Accounts'
<1> SUFFICES ASSUME status' = "running", prompt' PROVE Accounted'
  BY DEF Accounts
<1> USE ThreadFacts
<1>1. CASE UNCHANGED mcVars
  BY <1>1 DEF mcVars, history, serverVars, accepter, Accounts, Accounted, Taken, FreeFds, Connections,
              Opened, InLog, Registered
<1>2. ASSUME Next, Calm, prompt PROVE Accounted'
  <2>1. Owned /\ Accounted /\ status = "running" /\ accepted \in 0 .. MaxClients
    BY <1>2 DEF Undisturbed, Ownership, Accounts, Next, Types
  <2>2. CASE Accept                              BY <2>1, <2>2, AcceptIsAccounted
  <2>3. CASE \E t \in Games : OpenStreams(t)     BY <2>1, <2>3, OpenIsAccounted
  <2>4. CASE \E t \in Games : Close(t)           BY <2>1, <2>4, CloseIsAccounted
  <2>5. CASE \E self \in Threads : LogOpen(self) \/ LogClose(self)
    BY <2>1, <2>5, LoggingIsAccounted
  <2>6. CASE Create
    <3>1. /\ accepted \in Games /\ pc[accepted] = "none"
          /\ pc' = [pc EXCEPT ![ACCEPTER] = "accept", ![accepted] = "created"]
          /\ UNCHANGED <<fds, logfd, accepted>> /\ DOMAIN pc = Threads
      BY <2>6 DEF Create, Undisturbed, Types
    <3>2. pc'[accepted] = "created" /\ \A t \in Games \ {accepted} : pc'[t] = pc[t]
      BY <3>1
    <3> QED
      BY <2>1, <3>1, <3>2, NothingIsAccounted DEF Registered
  <2>7. CASE AcceptFails
    <3>1. UNCHANGED <<fds, logfd, accepted>> /\ \A t \in Games : pc'[t] = pc[t]
      BY <2>7 DEF AcceptFails, Undisturbed, Types, Goto, accepter
    <3> QED
      BY <2>1, <3>1, NothingIsAccounted DEF Registered
  <2>8. ASSUME NEW t \in Games, gameloop(t) \/ Leave(t), ~OpenStreams(t), ~Close(t),
               ~LogOpen(t), ~LogClose(t)
        PROVE  Accounted'
    <3>1. UNCHANGED <<fds, logfd, accepted>>
      BY <2>8 DEF gameloop, Leave, Start, EnterQueue, Register, SendLine, ReadAck, ReadGuess,
                  ReadNothing, EnterSuccesses, AddSuccess, Reply, LastReply, CloseStream, accepter
    <3>2. /\ \A u \in Games \ {t} : pc'[u] = pc[u]
          /\ pc'[t] = "gone" <=> pc[t] = "gone"
          /\ Registered(t) /\ pc[t] # "open" <=> Registered(t)' /\ pc'[t] # "open"
      BY <2>8 DEF gameloop, Leave, Start, EnterQueue, Register, SendLine, ReadAck, ReadGuess,
                  ReadNothing, EnterSuccesses, AddSuccess, Reply, LastReply, Goto, Registered,
                  Undisturbed, Types
    <3> QED
      BY <2>1, <3>1, <3>2, NothingIsAccounted DEF Registered
  <2> QED
    BY <1>2, <2>2, <2>3, <2>4, <2>5, <2>6, <2>7, <2>8, UndisturbedStep
       DEF clientaccepter, gameloop
<1> QED
  BY <1>1, <1>2 DEF MCNext

(* Every open descriptor is a connection that is being served, an open     *)
(* log, or the one copy of welcome.txt that each game leaves open          *)
(* (server.c:235): the server runs out of them after so many games.        *)
THEOREM NoDescriptorIsLost == CalmSpec => []DescriptorsAreAccounted
<1>1. MCInit => Accounts
  <2> SUFFICES ASSUME MCInit PROVE Accounted
    BY DEF Accounts
  <2>1. /\ \A t \in Games : pc[t] = "none"
        /\ \A self \in Threads : logfd[self] = NONE
        /\ accepted = 0 /\ \A d \in Fds : fds[d] = FREE
    BY ThreadFacts DEF MCInit, Init
  <2>2. Taken = {} /\ Connections = {} /\ Opened = {} /\ InLog = {}
    BY <2>1 DEF Taken, FreeFds, Connections, Opened, InLog, Registered
  <2> QED
    BY <2>2, FS_EmptySet DEF Accounted
<1>2. Undisturbed /\ Accounts /\ [MCNext /\ Calm]_mcVars => Accounts'
  BY AccountsStep
<1>3. Accounts => DescriptorsAreAccounted
  BY DEF Accounts, Accounted, Taken, Connections, Opened, InLog, DescriptorsAreAccounted
<1> QED
  BY <1>1, <1>2, <1>3, CalmIsUndisturbed, PTL DEF CalmSpec

-----------------------------------------------------------------------------
(* What can end the process *)

(* Only a client that has left has something unread or a RST in the        *)
(* network.  One that has waited for its answers has no more unread than   *)
(* its last answers, and they are read before anything is written that     *)
(* draws a RST: no reply is written to a connection that has sent one.     *)
(* The stream that replies are written to is open.                         *)
Replying == {"log_guess", "log_long", "log_reply", "log_over", "wait_successes", "add",
             "reply", "last_reply"}
Patient(t) ==
    /\ unread[t] <= Answers(t)
    /\ pc[t] \in {"ack", "guess"} /\ reset[t] => unread[t] = 0
    /\ pc[t] \in Replying /\ game[t].reply # EMPTY => ~reset[t]
Unbroken(t) ==
    /\ unread[t] \in Nat
    /\ ~left[t] => unread[t] = 0 /\ ~reset[t]
    /\ Registered(t) /\ pc[t] \notin {"open", "gone"} => game[t].stream
    /\ t \in abrupt \/ pc[t] = "gone" \/ Patient(t)
Pipes ==
    /\ DOMAIN reset = Games /\ DOMAIN left = Games /\ DOMAIN unread = Games
    /\ prompt => \A t \in Games : Unbroken(t)

LEMMA WriteFacts ==
    ASSUME NEW d, Write(d), status = "running"
    PROVE  \/ UNCHANGED <<status, reset>>
           \/ /\ Refers(d) \in Games /\ left[Refers(d)]
              /\ reset' = [reset EXCEPT ![Refers(d)] = TRUE]
              /\ status' = "running" \/ (status' = "killed" /\ reset[Refers(d)])
  BY DEF Write

LEMMA AnswersFacts ==
    /\ \A t : pc[t] \notin {"ack", "guess"} => Answers(t) = 0
    /\ \A t : pc[t] = "guess" => Answers(t) = 1
    /\ \A t : pc[t] = "ack" => Answers(t) = (IF game[t].lines = 1 THEN 2 ELSE 1)
    /\ \A t : Answers(t) \in 0 .. 2
  BY DEF Answers

(* Where a step of a game's thread goes, as far as its connection matters. *)
LEMMA GameLabels ==
    ASSUME Types, NEW t \in Games, gameloop(t)
    PROVE  \/ SendLine(t) \/ ReadAck(t) \/ ReadGuess(t) \/ ReadNothing(t) \/ Reply(t)
           \/ LastReply(t) \/ Close(t) \/ LogClose(t)
           \/ /\ UNCHANGED <<reset, unread>>
              /\ pc[t] \notin {"ack", "guess"} /\ pc'[t] \notin {"ack", "guess"}
              /\ pc'[t] \in Replying => pc[t] \in Replying /\ game'[t].reply = game[t].reply
<1> USE ThreadFacts DEF Types, Goto, SetGame, Fields, network, Replying
<1>1. CASE Start(t)          BY <1>1 DEF Start
<1>2. CASE EnterQueue(t)     BY <1>2 DEF EnterQueue
<1>3. CASE Register(t)       BY <1>3 DEF Register
<1>4. CASE OpenStreams(t)    BY <1>4 DEF OpenStreams
<1>5. CASE EnterSuccesses(t) BY <1>5 DEF EnterSuccesses
<1>6. CASE AddSuccess(t)     BY <1>6 DEF AddSuccess
<1>7. CASE LogOpen(t)        BY <1>7 DEF LogOpen, InLogentry, AfterCall
<1> QED
  BY <1>1, <1>2, <1>3, <1>4, <1>5, <1>6, <1>7 DEF gameloop

LEMMA StreamStaysOpen ==
    ASSUME Undisturbed, Owned, NEW t \in Games, gameloop(t),
           Registered(t) /\ pc[t] \notin {"open", "gone"} => game[t].stream
    PROVE  Registered(t)' /\ pc'[t] \notin {"open", "gone"} => game'[t].stream
<1> USE ThreadFacts, Kinds DEF Undisturbed, Types, Goto, SetGame, Fields
<1> DEFINE Open(label) == label \notin {"none", "created", "wait_client", "link", "open", "gone"}
<1>1. CASE OpenStreams(t)
  <2>1. Refers(game[t].sock) \in Games
    BY <1>1 DEF OpenStreams, Owned, Serving
  <2> QED
    BY <1>1, <2>1 DEF OpenStreams
<1>2. CASE ~OpenStreams(t)
  <2>1. Open(pc'[t]) => Open(pc[t]) /\ game'[t].stream = game[t].stream
    <3>1. CASE Start(t) \/ EnterQueue(t) \/ Register(t) \/ Close(t)
      BY <3>1 DEF Start, EnterQueue, Register, Close
    <3>2. CASE SendLine(t) \/ ReadAck(t) \/ ReadNothing(t) \/ EnterSuccesses(t)
               \/ AddSuccess(t) \/ LastReply(t)
      BY <3>2 DEF SendLine, ReadAck, ReadNothing, EnterSuccesses, AddSuccess, LastReply
    <3>3. CASE LogOpen(t) \/ LogClose(t)
      BY <3>3 DEF LogOpen, LogClose, InLogentry, AfterCall
    <3>4. CASE ReadGuess(t)
      <4>1. PICK guess \in {"invalid", "long", "wrong", "right"} :
                game' = [game EXCEPT ![t]["reply"] = Verdict(guess, game[t].moves)]
        BY <3>4 DEF ReadGuess, Guesses
      <4> QED
        BY <3>4, <4>1 DEF ReadGuess
    <3>5. CASE Reply(t)
      BY <3>5, AnsweredFacts DEF Reply
    <3> QED
      BY <1>2, <3>1, <3>2, <3>3, <3>4, <3>5 DEF gameloop
  <2> QED
    BY <2>1 DEF Registered
<1> QED
  BY <1>1, <1>2

(* What a step of a game does to its connection, and to no other; no step  *)
(* but a client's own makes it impatient.                                  *)
LEMMA GameOnNetwork ==
    ASSUME Undisturbed, Owned, status = "running", NEW t \in Games, gameloop(t), Unbroken(t),
           DOMAIN reset = Games, DOMAIN unread = Games
    PROVE  /\ DOMAIN reset' = Games /\ DOMAIN unread' = Games
           /\ \A u \in Games \ {t} : reset'[u] = reset[u] /\ unread'[u] = unread[u]
           /\ unread'[t] \in Nat
           /\ ~left[t] => unread'[t] = 0 /\ ~reset'[t]
           /\ Patient(t) => pc'[t] = "gone" \/ Patient(t)'
<1> USE ThreadFacts, Kinds, AnswersFacts DEF Undisturbed, Types
<1>1. Serving(t) => Refers(game[t].sock) = t
  BY DEF Owned
<1>2. unread[t] \in Nat /\ (~left[t] => unread[t] = 0 /\ ~reset[t])
  BY DEF Unbroken
<1> DEFINE Writes == reset' = reset \/ (left[t] /\ reset' = [reset EXCEPT ![t] = TRUE])
           Reads == \/ unread[t] = 0 /\ unread' = unread
                    \/ \E n \in 0 .. unread[t] - 1 : unread' = [unread EXCEPT ![t] = n]
<1>3. ASSUME Write(game[t].sock), Serving(t) PROVE Writes
  BY <1>1, <1>3, WriteFacts
<1>4. ASSUME PrintReply(t), Serving(t) PROVE Writes
  BY <1>3, <1>4 DEF PrintReply
<1>5. ASSUME Read(game[t].sock), Serving(t) PROVE Reads
  BY <1>1, <1>2, <1>5 DEF Read
<1> HIDE DEF Types
<1>6. CASE SendLine(t)
  <2>1. pc[t] = "line" /\ pc'[t] = "ack" /\ Writes /\ unread' = unread
    BY <1>3, <1>6 DEF SendLine, Serving, Goto, Types
  <2> QED
    BY <1>2, <2>1 DEF Patient, Replying, Answers
<1>7. CASE ReadAck(t)
  <2>1. /\ pc[t] = "ack" /\ Reads /\ reset' = reset
        /\ pc'[t] = IF game[t].lines = 1 THEN "guess" ELSE "line"
    BY <1>5, <1>7 DEF ReadAck, Serving, Goto, Types
  <2> QED
    BY <1>2, <2>1 DEF Patient, Replying, Answers
<1>8. CASE ReadGuess(t)
  <2>1. /\ pc[t] = "guess" /\ Reads /\ reset' = reset /\ (left[t] => unread[t] > 0)
        /\ pc'[t] \in {"log_guess", "log_long"}
    BY <1>1, <1>5, <1>8 DEF ReadGuess, HasData, Serving, Goto, Types
  <2> QED
    BY <1>2, <2>1 DEF Patient, Answers
<1>9. CASE ReadNothing(t)
  <2>1. /\ pc[t] = "guess" /\ pc'[t] = "last_reply" /\ UNCHANGED <<reset, unread, game>>
        /\ unread[t] = 0
    BY <1>1, <1>9 DEF ReadNothing, HasEnded, Serving, Goto, Types, network
  <2>2. game'[t].reply = EMPTY
    BY <2>1, Replies DEF Matches, InMatch, RepliesAt
  <2> QED
    BY <1>2, <2>1, <2>2 DEF Patient, Answers
<1>10. CASE Reply(t)
  <2>1. pc[t] = "reply" /\ pc'[t] = "guess" /\ Writes /\ unread' = unread
    BY <1>4, <1>10 DEF Reply, Serving, Goto, Types
  <2> QED
    BY <1>2, <2>1 DEF Patient, Replying, Answers
<1>11. CASE LastReply(t)
  <2>1. pc[t] = "last_reply" /\ pc'[t] = "close" /\ Writes /\ unread' = unread
    BY <1>4, <1>11 DEF LastReply, Serving, Goto, Types
  <2> QED
    BY <1>2, <2>1 DEF Patient, Replying, Answers
<1>12. CASE Close(t)
  <2>1. /\ pc'[t] = "gone"
        /\ reset' = [g \in Games |-> IF g = t THEN FALSE ELSE reset[g]]
        /\ unread' = [g \in Games |-> IF g = t THEN 0 ELSE unread[g]]
    BY <1>1, <1>12 DEF Close, CloseSocket, Serving, Goto, Types
  <2> QED
    BY <2>1
<1>13. CASE LogClose(t)
  <2>1. Refers(logfd[t]) = LOG
    BY <1>13 DEF LogClose, Owned
  <2>2. UNCHANGED <<reset, unread, game>> /\ InLogentry(t) /\ pc'[t] = AfterLog(t)
    BY <1>13, <2>1 DEF LogClose, Write, Goto, Types
  <2>3. /\ pc[t] \notin {"ack", "guess"} /\ pc'[t] \notin {"ack", "guess"}
        /\ pc'[t] \in Replying => pc[t] \in Replying
    BY <2>2, <1>13 DEF InLogentry, AfterLog, AfterCall, Replying, Types, GamePcs
  <2> QED
    BY <1>2, <2>2, <2>3 DEF Patient, Answers
<1>14. CASE /\ UNCHANGED <<reset, unread>>
            /\ pc[t] \notin {"ack", "guess"} /\ pc'[t] \notin {"ack", "guess"}
            /\ pc'[t] \in Replying => pc[t] \in Replying /\ game'[t].reply = game[t].reply
  BY <1>2, <1>14 DEF Patient, Answers
<1> QED
  BY <1>6, <1>7, <1>8, <1>9, <1>10, <1>11, <1>12, <1>13, <1>14, GameLabels

LEMMA GameKeepsPipes ==
    ASSUME Undisturbed, Pipes, Owned, prompt, status = "running", NEW t \in Games, gameloop(t),
           \A u \in abrupt : u \in abrupt' \/ pc'[u] = "gone"
    PROVE  /\ DOMAIN reset' = Games /\ DOMAIN left' = Games /\ DOMAIN unread' = Games
           /\ \A u \in Games : Unbroken(u)'
<1> USE ThreadFacts
<1>1. /\ \A u \in Games \ {t} : pc'[u] = pc[u] /\ game'[u] = game[u]
      /\ pc[t] # "none"
  BY GameStep DEF Undisturbed
<1>2. left' = left
  BY DEF gameloop, Start, EnterQueue, Register, OpenStreams, SendLine, ReadAck, ReadGuess,
         ReadNothing, EnterSuccesses, AddSuccess, Reply, LastReply, Close, LogOpen, LogClose,
         network
<1>3. /\ DOMAIN reset = Games /\ DOMAIN left = Games /\ DOMAIN unread = Games
      /\ \A u \in Games : Unbroken(u)
  BY DEF Pipes
<1>4. /\ DOMAIN reset' = Games /\ DOMAIN unread' = Games
      /\ \A u \in Games \ {t} : reset'[u] = reset[u] /\ unread'[u] = unread[u]
      /\ unread'[t] \in Nat
      /\ ~left[t] => unread'[t] = 0 /\ ~reset'[t]
      /\ Patient(t) => pc'[t] = "gone" \/ Patient(t)'
  BY <1>3, GameOnNetwork
<1>5. Unbroken(t)'
  <2>1. Registered(t)' /\ pc'[t] \notin {"open", "gone"} => game'[t].stream
    BY <1>3, StreamStaysOpen DEF Unbroken
  <2>2. pc[t] # "gone"
    BY DEF gameloop, Start, EnterQueue, Register, OpenStreams, SendLine, ReadAck, ReadGuess,
       ReadNothing, EnterSuccesses, AddSuccess, Reply, LastReply, Close, LogOpen, LogClose,
       InLogentry, AfterCall
  <2> QED
    BY <1>2, <1>3, <1>4, <2>1, <2>2 DEF Unbroken
<1>6. ASSUME NEW u \in Games \ {t} PROVE Unbroken(u)'
  BY <1>1, <1>2, <1>3, <1>4, <1>6 DEF Unbroken, Patient, Answers, Registered
<1> QED
  BY <1>2, <1>3, <1>4, <1>5, <1>6

(* A client that leaves is abrupt, or has waited for its answers.          *)
LEMMA LeaveKeepsPipes ==
    ASSUME Pipes, prompt, NEW c \in Games, Leave(c),
           abrupt' = {t \in abrupt \cup {u \in Going : ~Waited(u)} : pc'[t] # "gone"}
    PROVE  /\ DOMAIN reset' = Games /\ DOMAIN left' = Games /\ DOMAIN unread' = Games
           /\ \A u \in Games : Unbroken(u)'
<1>1. /\ left' = [left EXCEPT ![c] = TRUE] /\ ~left[c]
      /\ \E n \in 0 .. MaxUnread : unread' = [unread EXCEPT ![c] = n]
      /\ \E r \in BOOLEAN : reset' = [reset EXCEPT ![c] = r]
      /\ UNCHANGED <<pc, game>>
  BY DEF Leave
<1>2. /\ DOMAIN reset = Games /\ DOMAIN left = Games /\ DOMAIN unread = Games
      /\ \A u \in Games : Unbroken(u)
  BY DEF Pipes
<1>3. Unbroken(c)'
  <2>1. left'[c] /\ unread'[c] \in Nat /\ c \in Going
    BY <1>1, <1>2, ServerAssumption DEF Going
  <2>2. Waited(c) => Patient(c)'
    BY <1>1, <2>1, AnswersFacts DEF Waited, Patient, Answers, Replying
  <2>3. ~Waited(c) => c \in abrupt' \/ pc'[c] = "gone"
    BY <2>1
  <2> QED
    BY <1>1, <1>2, <2>1, <2>2, <2>3 DEF Unbroken, Registered
<1>4. ASSUME NEW u \in Games \ {c} PROVE Unbroken(u)'
  <2>1. left'[u] = left[u] /\ unread'[u] = unread[u] /\ reset'[u] = reset[u]
    BY <1>1, <1>2
  <2>2. u \in abrupt => u \in abrupt' \/ pc'[u] = "gone"
    OBVIOUS
  <2> QED
    BY <1>1, <1>2, <2>1, <2>2 DEF Unbroken, Patient, Answers, Registered
<1> QED
  BY <1>1, <1>2, <1>3, <1>4

LEMMA PipesStep ==
    ASSUME Undisturbed, Pipes, [MCNext /\ Calm]_mcVars
    PROVE  Pipes'
<1> USE ThreadFacts
<1>1. CASE UNCHANGED mcVars
  BY <1>1 DEF mcVars, history, serverVars, network, Pipes, Unbroken, Patient, Answers, Registered
<1>2. ASSUME Next, Calm
      PROVE DOMAIN reset' = Games /\ DOMAIN left' = Games /\ DOMAIN unread' = Games
  <2>1. \A d : Write(d) => DOMAIN reset' = DOMAIN reset
    BY DEF Write
  <2>2. \A d : Read(d) => DOMAIN unread' = DOMAIN unread
    BY DEF Read
  <2>3. ASSUME NEW t \in Games, Leave(t) \/ Close(t)
        PROVE  DOMAIN reset' = Games /\ DOMAIN left' = Games /\ DOMAIN unread' = Games
    BY <2>3 DEF Leave, Close, CloseSocket, Pipes
  <2>4. ASSUME NEW t \in Games, gameloop(t), ~Close(t)
        PROVE  /\ DOMAIN reset' = DOMAIN reset /\ DOMAIN left' = DOMAIN left
               /\ DOMAIN unread' = DOMAIN unread
    BY <2>1, <2>2, <2>4 DEF gameloop, Start, EnterQueue, Register, OpenStreams, SendLine,
       ReadAck, ReadGuess, ReadNothing, EnterSuccesses, AddSuccess, Reply, LastReply,
       LogOpen, LogClose, PrintReply, network
  <2>5. ASSUME clientaccepter
        PROVE  /\ DOMAIN reset' = DOMAIN reset /\ DOMAIN left' = DOMAIN left
               /\ DOMAIN unread' = DOMAIN unread
    BY <2>1, <2>5 DEF clientaccepter, Accept, AcceptFails, Create, LogOpen, LogClose, network
  <2> QED
    BY <1>2, <2>3, <2>4, <2>5, UndisturbedStep DEF Pipes
<1>3. ASSUME MCNext, Calm, prompt, NEW t \in Games PROVE Unbroken(t)'
  <2>1. Owned /\ status = "running" /\ Next
    BY <1>3 DEF Undisturbed, Ownership, MCNext, Next
  <2>2. abrupt' = {u \in abrupt \cup {v \in Going : ~Waited(v)} : pc'[u] # "gone"}
    BY <1>3 DEF MCNext
  <2>3. \A u \in abrupt : u \in abrupt' \/ pc'[u] = "gone"
    BY <2>2
  <2>4. CASE \E u \in Games : gameloop(u)
    BY <1>3, <2>1, <2>3, <2>4, GameKeepsPipes
  <2>5. CASE \E u \in Games : Leave(u)
    BY <1>3, <2>2, <2>5, LeaveKeepsPipes
  <2>6. CASE clientaccepter
    <3>1. reset' = reset /\ left' = left /\ unread' = unread
      <4>1. LogClose(ACCEPTER) => Refers(logfd[ACCEPTER]) = LOG
        BY <2>1 DEF LogClose, Owned
      <4> QED
        BY <2>6, <4>1, Kinds DEF clientaccepter, Accept, AcceptFails, Create, LogOpen, LogClose,
           Write, network
    <3>2. /\ game' = game
          /\ pc'[t] = pc[t] \/ (pc[t] = "none" /\ pc'[t] = "created")
      BY <2>6, OtherStep DEF Undisturbed
    <3> QED
      BY <1>3, <2>3, <3>1, <3>2 DEF Pipes, Unbroken, Patient, Answers, Registered, Replying
  <2> QED
    BY <1>3, <2>1, <2>4, <2>5, <2>6, UndisturbedStep
<1> QED
  BY <1>1, <1>2, <1>3 DEF Pipes, MCNext

(* The server ends of itself only when it is out of descriptors, by a      *)
(* guess too long for a log entry, or by SIGPIPE for a client that leaves  *)
(* during the welcome or that has sent what it should have waited with: a  *)
(* client that waits for each reply and leaves during its game takes       *)
(* nobody with it (server.c:256-261, 320-321, 330-331, 363).               *)
THEOREM EndsAreCaused == CalmSpec => EndsOnlyForCause
<1>1. MCInit => Pipes
  <2> SUFFICES ASSUME MCInit PROVE Pipes
    OBVIOUS
  <2>1. \A t \in Games : pc[t] = "none" /\ reset[t] = FALSE /\ unread[t] = 0
    BY ThreadFacts DEF MCInit, Init
  <2>2. ASSUME NEW t \in Games PROVE Unbroken(t)
    <3>1. Patient(t)
      BY <2>1, AnswersFacts DEF Patient, Replying
    <3> QED
      BY <2>1, <3>1 DEF Unbroken, Registered
  <2>3. DOMAIN reset = Games /\ DOMAIN left = Games /\ DOMAIN unread = Games
    BY DEF MCInit, Init
  <2> QED
    BY <2>2, <2>3 DEF Pipes
<1>2. Undisturbed /\ Pipes /\ [MCNext /\ Calm]_mcVars => Pipes'
  BY PipesStep
<1> DEFINE ForCause ==
        status' # status /\ prompt =>
            \/ status' \in {"crashed", "exited"} /\ FreeFds = {}
            \/ status' = "crashed" /\ \E t \in Games : pc[t] = "log_long"
            \/ status' = "killed" /\ \E t \in Games :
                  /\ left[t]
                  /\ pc[t] = "line" \/ (t \in abrupt /\ pc[t] \in {"reply", "last_reply"})
<1>3. ASSUME Undisturbed, Pipes, Next, Calm, prompt, status' # status PROVE ForCause
  <2>1. Owned /\ status = "running" /\ pc[MAIN] = "wait"
    BY <1>3 DEF Undisturbed, Ownership, Next
  <2>2. NewFd = NONE => FreeFds = {}
    BY NewFdIsFree, Kinds
  <2>3. ASSUME NEW self \in Threads, LogClose(self) PROVE FALSE
    <3>1. Refers(logfd[self]) = LOG
      BY <2>1, <2>3 DEF LogClose, Owned
    <3> QED
      BY <1>3, <2>3, <3>1, Kinds DEF LogClose, Write
  <2>4. ASSUME NEW self \in Threads, LogOpen(self) PROVE ForCause
    <3>1. pc[self] = "log_long" => self \in Games
      BY <1>3 DEF Undisturbed, Types, AccepterPcs, MainPcs, Threads
    <3> QED
      BY <1>3, <2>1, <2>2, <2>4, <3>1 DEF LogOpen
  <2>5. CASE clientaccepter
    BY <1>3, <2>1, <2>3, <2>4, <2>5, ThreadFacts DEF clientaccepter, Accept, AcceptFails, Create
  <2>6. ASSUME NEW t \in Games, SendLine(t) PROVE ForCause
    <3>1. Refers(game[t].sock) = t /\ pc[t] = "line"
      BY <2>1, <2>6 DEF SendLine, Owned, Serving
    <3> QED
      BY <1>3, <2>1, <2>6, <3>1, WriteFacts DEF SendLine
  <2>7. ASSUME NEW t \in Games, Reply(t) \/ LastReply(t) PROVE ForCause
    <3>1. /\ pc[t] \in {"reply", "last_reply"} /\ PrintReply(t)
          /\ Refers(game[t].sock) = t /\ game[t].stream
          /\ t \notin abrupt /\ game[t].reply # EMPTY => ~reset[t]
      BY <1>3, <2>1, <2>7 DEF Reply, LastReply, Owned, Serving, Pipes, Unbroken, Patient,
         Replying, Registered
    <3>2. game[t].reply # EMPTY /\ Write(game[t].sock)
      BY <1>3, <3>1 DEF PrintReply
    <3> QED
      BY <1>3, <2>1, <3>1, <3>2, WriteFacts
  <2>8. ASSUME NEW t \in Games, gameloop(t) \/ Leave(t) PROVE ForCause
    BY <1>3, <2>2, <2>3, <2>4, <2>6, <2>7, <2>8, ThreadFacts DEF gameloop, Leave, Start,
       EnterQueue, Register, OpenStreams, ReadAck, ReadGuess, ReadNothing, EnterSuccesses,
       AddSuccess, Close
  <2> QED
    BY <1>3, <2>5, <2>8, UndisturbedStep
<1>4. Undisturbed /\ Pipes /\ [MCNext /\ Calm]_mcVars => [ForCause]_mcVars
  BY <1>3 DEF MCNext
<1> QED
  BY <1>1, <1>2, <1>4, CalmIsUndisturbed, PTL DEF CalmSpec, EndsOnlyForCause
=============================================================================
