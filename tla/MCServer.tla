------------------------------- MODULE MCServer -------------------------------
(***************************************************************************)
(* Schedules of Server: nobody presses Ctrl-C, or the clients stay; and    *)
(* two history variables, for what is true only while threads start in     *)
(* time and of clients that wait for an answer before they send more.      *)
(***************************************************************************)
EXTENDS Server

CONSTANT Rude   \* clients that may be abrupt, a bound of CalmFairSpec

VARIABLES
    prompt,     \* every thread has read its argument before the next accept
    abrupt      \* clients that have gone with more under way than client.c has

history == <<prompt, abrupt>>
mcVars  == <<serverVars, history>>

InTime == accepted' # accepted => \A t \in Games : pc[t] # "created"

(* What client.c can have sent and the server not read, if their messages  *)
(* arrive whole: an answer to the line or reply it has last got, and after *)
(* the welcome a guess too.  It has something unread only while the server *)
(* waits for it.                                                           *)
Answers(t) ==
    IF pc[t] = "guess" THEN 1
    ELSE IF pc[t] = "ack" THEN (IF game[t].lines = 1 THEN 2 ELSE 1) ELSE 0
Waited(t) ==
    /\ unread'[t] <= Answers(t)
    /\ reset'[t] => unread'[t] = 0 /\ pc[t] \in {"ack", "guess"}
Going == {t \in Games : left'[t] /\ ~left[t]}

Calm  == pc'[MAIN] = "wait"         \* nobody presses Ctrl-C
Loyal == left' = left               \* clients stay until the server closes

MCInit == Init /\ prompt = TRUE /\ abrupt = {}
MCNext ==
    /\ Next
    /\ prompt' = (prompt /\ InTime)
    /\ abrupt' = {t \in abrupt \cup {c \in Going : ~Waited(c)} : pc'[t] # "gone"}

MCSpec         == MCInit /\ [][MCNext]_mcVars
MCFairSpec     == MCSpec /\ Fairness
CalmSpec       == MCInit /\ [][MCNext /\ Calm]_mcVars
CalmFairSpec   == MCInit /\ [][MCNext /\ Calm /\ abrupt' \subseteq Rude]_mcVars /\ Fairness
LoyalFairSpec  == MCInit /\ [][MCNext /\ Loyal /\ prompt']_mcVars /\ Fairness

-----------------------------------------------------------------------------
(* A thread's descriptor stays its own connection until it closes it, and  *)
(* nobody closes it but its thread (server.c:332-333 closes once).         *)
OwnSocket ==
    prompt => \A t \in Games :
        pc[t] \notin {"none", "created", "gone"} => Refers(game[t].sock) = t

(* Every open descriptor is a connection being served, an open log, or the *)
(* one copy of welcome.txt that each game leaves behind (server.c:235).    *)
DescriptorsAreAccounted ==
    LET connections == {t \in 1 .. accepted : pc[t] # "gone"}
        opened == {t \in Games : Registered(t) /\ pc[t] # "open"}
        inLog == {self \in Threads : logfd[self] # NONE}
    IN  status = "running" /\ prompt =>
            Cardinality(Fds \ FreeFds)
                = Cardinality(connections) + Cardinality(opened) + Cardinality(inLog)

(* The server comes to an end only when it is out of descriptors, by a     *)
(* guess longer than a log entry, or by SIGPIPE: for a client that leaves  *)
(* during the welcome, or one that leaves with a guess under way it did    *)
(* not wait to send.  A client that leaves during its game otherwise never *)
(* takes the others down with it (server.c:257, 320-321, 330-331, 363).    *)
EndsOnlyForCause ==
    [][ status' # status /\ prompt =>
            \/ status' \in {"crashed", "exited"} /\ FreeFds = {}
            \/ status' = "crashed" /\ \E t \in Games : pc[t] = "log_long"
            \/ status' = "killed" /\ \E t \in Games :
                  /\ left[t]
                  /\ pc[t] = "line" \/ (t \in abrupt /\ pc[t] \in {"reply", "last_reply"})
      ]_mcVars

(* The thread of a client that has left ends (server.c:267-274, 332-335):  *)
(* whatever has happened, there comes a time when all of them have.        *)
GamesEnd ==
    []<>( status = "running" /\ prompt =>
            \A t \in Games : pc[t] # "none" /\ left[t] => pc[t] = "gone" )
=============================================================================
