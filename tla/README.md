# TLA+ models of uniprojects

The repository holds four programs that share nothing: AVL-tree dictionaries and an IDA* solver
of the 15-puzzle (`COMP20003`), a process-scheduling simulation and a Mastermind server with its
client (`COMP30023`).  This directory holds TLA+ models of all four, the TLC runs that check
them, and TLAPS proofs about them.  `PROJECT.json` lists the runs, says which lines of the code
each definition stands for, and lists the hazards of the code with the properties that would
show them.

Everything runs in this directory:

    tlc -workers 2 -config MCServer.cfg MCServer.tla      # a run
    tlapm SchedulerProofs.tla                             # a proof

## 1. The system

### 1.1 Scheduling simulation (`COMP30023/project1`)

| part | files | state | operations |
|---|---|---|---|
| main loop | main.c, process.h | time, process_count, total_wait_time, quantum, temp, cpu | per pass: admit what was created now, dispatch if the CPU is free, charge a tick, then complete or preempt |
| queues | fcfs.c, multi.c, queue.h | one FIFO, or three with levels | enqueue, take the first of the first non-empty level, demote |
| memory | memory.c, memory.h | a list of segments and holes, num_processes, num_holes, usage | find, first fit and split, swap out the largest, free, concatenate holes |
| reader | reader.c | - | reads the input file into an array |
| generator | processGen.c | - | writes random input files |

It is a sequential, deterministic program; what is hard is that its promises stretch over many
ticks.  A node travels from queue to CPU to a lower queue or to `free`, and is reached through
three pointers (queue, `temp`, `cpu`).  Processes are admitted by an equality test on the clock.
The waiting time is not counted but computed at the end.  Memory is rearranged by several
functions that keep counters of their own.  What makes it correct: no process is lost or served
twice; the processor is never idle while it is needed; the reported waiting time is the real one;
the order and response that each algorithm promises; the segments tile the memory and agree with
the counters; the program gives up only when it has to; it ends.

### 1.2 Mastermind (`COMP30023/project2`)

| part | files | state | operations |
|---|---|---|---|
| rules | mastermind.c, mastermind.h | - | validcode, makeguess, countincode, rightincode, randomcode |
| game | server.c (gameloop) | moves, reply_buffer, the socket | register, welcome, read a guess, log, reply, end |
| accepting thread | server.c (clientaccepter) | newsockfd, num_clients | accept, log, make a thread |
| log | server.c (logentry) | log.txt, semaphore mutex | one entry per call, opened and closed each time |
| queue of clients | queue.c, server.c | client_q, semaphore mutex_client | q_add; q_delete is never called |
| shutdown | server.c (signalhandler, thread_cleanup) | statm | log the totals, end the threads one by one, log the memory, exit |
| client | client.c | where it is in the dialogue, the player's input | acknowledge each line of the welcome, then send guesses and print replies |

The server is concurrent.  One thread accepts, one thread serves each connection, and the main
thread, waiting in pthread_join, runs the SIGINT handler.  They share the descriptor table,
three semaphores, two counters, `client_q`, and the accepting thread's local variable
`newsockfd`, whose address is handed to every new thread.  Clients may disappear at any moment;
the process may run out of descriptors; threads are killed wherever they are.  Client and server
speak over two byte streams and both take each `read` for one message, which TCP does not
promise.  What makes it correct: a thread serves its own connection and nobody else's; each game
is a match by the rules; client and server agree on how it ended; entries of the log are not
mixed, no node of the queue and no success is lost; no client that
plays as client.c does takes the others down during its game; after
SIGINT every thread is ended and the process ends, having logged what it says it logs.

### 1.3 Dictionaries and puzzle (`COMP20003`)

| part | files | state | operations |
|---|---|---|---|
| imdb1 | ass1/main.c, bst.c | a balanced tree with one node per line of the file | insert with rotations, search on both sides of an equal key |
| imdb2 | ass1/main2.c, bst_ll.c | a balanced tree with one node per key and a list of infos | insert, append to the list, search |
| reader of both | ass1/readcsv.c | - | takes a key and an info from a line |
| solver | Assignment2/main.c | the bound, the next bound, the stack of calls | depth-first search up to a bound, the loop over bounds |

Both are sequential.  Rotations in the trees depend on heights and differences stored in nodes and
refreshed upwards through parent pointers, so that one wrong field shows only at a later insertion.
A rotation moves equal keys to the left of each other although insertion puts them to the right.
The solver weights its heuristic by 1.5 and truncates, cuts the action that undoes the last one, and
hands a solution back through all active calls.  What makes them correct: the trees stay balanced
and answer as a dictionary does, with few comparisons; the search ends, each time with a larger
bound, and what it prints is a way to solve the board that is not much longer than the shortest.

## 2. Modules

| module | is | models |
|---|---|---|
| WorkConserving | abstract specification | a processor that serves one unit per tick whenever it can |
| WaitingTime | abstract specification | the same, with waiting counted tick by tick |
| Scheduler | system | main.c, fcfs.c, multi.c without memory |
| Memory | operators | memory.c, as functions on the list of segments |
| Simulation | composition | Scheduler with Memory: the whole program |
| Match | abstract specification | a match of at most MAX_ATTEMPTS attempts |
| Mastermind | operators | mastermind.c |
| Game | system | one game with its codes: the secret, the loop over guesses, the replies |
| Dialogue | composition | Game with client.c and the two streams between them |
| Server | system | server.c with q_add, all threads and the handler |
| Dictionary | abstract specification | lines recorded under keys, a key answered with its lines |
| AVL | operators | bst.c and bst_ll.c, on a record of the fields of the nodes |
| Imdb | system | main.c and main2.c of ass1 over AVL: both programs |
| Puzzle | system | Assignment2/main.c, with the calls of IDA_star as a stack |
| MCScheduler, MCSimulation, MCDialogue, MCServer, MCImdb, MCPuzzle | instances | small inputs and schedules for TLC |
| SchedulerProofs, SimulationProofs, DialogueProofs, ServerProofs, AVLProofs, DictionaryProofs, PuzzleProofs | proofs | section 4 |
| Counting | lemmas | finite sets: smallest and largest, induction, sums, how many there are of a kind, the best rearrangement |

A definition called `X_Wrong` is a slip in `X` of the sort that gets written; no specification
uses it.  It is there to show that a property notices: with `X_Wrong` in the place of `X` the
property is violated.

### 2.1 Scheduler, Memory, Simulation

A node is named by its process's place in the input file, and a linked queue is the sequence of
its nodes.  `phase` says where the loop is; a pass is `LoopTest`, an `Admit` per process, one of
`Dispatch`, `NothingReady`, `KeepRunning`, and one of `Idle`, `Execute`, `Finish`, `Preempt`.
Time and job times are numbers, not bounded in the model and bounded by the inputs.
The first half of a pass looks at `cpu`, the second at `temp`, as in the code.

Memory is a record; `concat_holes` is the code's single pass, which joins holes in pairs.
`Simulation` joins `RunResident`, `BringIn` or `GiveUp` to each `Dispatch` and `free_segment` to
each `Finish`.  The recursive search for a hole is an action per round (`SwapOut`), so that its
end is something to be checked: each round frees one resident (`SwapsOutTheLargest`).

### 2.2 Mastermind, Game, Dialogue

Characters are strings of length one; case matters and is converted as the code does: the guess
is, the secret is not, because main has converted it.  `Game` has the secret as the command line
or randomcode makes it, and one action for a round of the loop.  `break` leaves `moves` as it is.

`Dialogue` is that game with the client at the other end.  A message is two pieces on a stream.
If `whole`, a read returns all that has been written since the last one; if not, any prefix of it.
An acknowledgement is 255 NUL bytes and fills the server's buffer, so a server that reads one
reads no more; a guess that begins with a NUL is empty text, hence invalid.
The client ends the welcome when a read returns exactly two bytes, which
`IsTwoBytes` decides for whole messages and leaves open for parts of them.  Either side may end
first: the server by the end of the game or by SIGINT, the client by Ctrl-C, by the end of its
input or by SIGPIPE.

If writes arrive in parts the two may lose step: when the last line of the welcome comes in two, the
client stays in its first loop, acknowledges the replies to nothing, each acknowledgement costs an
attempt, or both wait for ever.  Hence `AttemptsAreGuesses` and `PlayedOut` are about `whole`
dialogues.  The verdict agrees in any case (`VerdictsAgree`), because the client
compares what it has read with the whole message.

### 2.3 Server

Processes are named by numbers: a game and its connection by the number of the accept call.  The
atomic steps are the calls that touch shared state: a semaphore operation, open, close, read,
write, or an access to a shared variable.  `logentry` is two steps, with the semaphore held in
between; `q_add` is two, as it reads the tail before it links the node; `num_successes++` is two.
What a thread does between two such steps touches only itself and is part of one of them.

The descriptor table is explicit, since its numbers are reused and the code keeps stale ones: a
new descriptor is the smallest free one.  Descriptors 0 to 3 are the standard streams and the
listening socket; the model counts from 4.  `status` tells how the process ended: `exited`,
`killed` by SIGPIPE, `crashed` by a NULL stream or an overflow.  A signal takes effect between
two steps of the thread it is sent to.

When a client goes (`Leave`), what it had sent stays to be read: up to `MaxUnread` portions, of which
a `read` takes one or more, and only then does `read` return zero or an error.  A client that goes and
leaves something unread sends a RST at once; otherwise the first write to it draws one.  After a
RST a write may end the process by SIGPIPE, or may still be in time.  So a client that has sent two guesses
in a row and goes can end the server: the reply to the first draws the RST, the second
is still read, and the reply to it raises SIGPIPE (server.c:320-321).  client.c, which waits for each
reply, cannot as long as messages arrive whole; but it can do so during the welcome, where the server writes and reads on whatever happens.

A guess is *right*, *wrong*, *invalid* or *long*; which one is left open in Server and settled in Game
(where the long ones are invalid like others).  A long one is one that does not fit into the 256 bytes of
a log entry behind the client's address and the label (server.c:344-363), though client.c:97 and
server.c:267 let it through: the server may crash, or go on as with any invalid guess.
In Server a reply is settled when the guess is read, two log entries before the code does so; the
buffer is the thread's own.

### 2.4 AVL, Imdb

Keys are numbers in the order of strcmp, a node has the number of the line that it was made for,
and an info is the number of its line.  A tree is a record of fields; an operator takes the tree
before a call to the tree after it.  `rotateR` and `rotateL` are mirror images and are written
once (`Rotate`).  Recursion through the tree is a path (`Descent`, `Ancestors`) and a fold along it,
from the leaf up as the calls return.  `Imdb` reads lines, stops at the end of the file in either
of the two ways there are (after an info, or where a key would begin), and answers keys.

### 2.5 Puzzle

One frame of the stack per active call of IDA_star: its node and its loop variable.  A round of
the loop is `Skip`, `Cut`, `Descend` or `Solve`; a call returns NULL or a solution.
`r` is the solution on its way back.  The weight of the heuristic is in `evaluation`, with the
truncation of the conversion to int.  The solution need not be shortest, in spite of "Optimally" in
Assignment2/main.c:5: among boards nine moves away there are some that are answered with eleven.  A board
that is solved to begin with is answered with a way round of twelve moves, since the start is never tested.

## 3. Runs

| run | instance | shows | distinct states |
|---|---|---|---|
| scheduler | all files of up to 3 processes, creation times 0, 1, 7, jobs 2, 7, 15; slices 2, 4, 8; both algorithms | no process is lost, both refinements, order and response, Termination | 237,040 |
| simulation | files of up to 3 processes, or 4 created at once; slices of 1; memories of 3, 4, 7, processes of 1, 2, 4 | the segment list, its counters, the choice of the victim, an end of each search for a hole | 1,694,779 |
| simulation_holes | as simulation | two holes that touch are left behind (violation) | |
| simulation_give_up | as simulation | the program gives up although every process fits (violation) | |
| dialogue | 4 places, 3 colours, 2 attempts, 2 lines of welcome; messages whole or in parts | hints, verdicts, the match, no attempt without a guess, an end of the dialogue | 190,666 |
| server | 2 clients that may go, with one portion unread at most, 2 lines, 2 attempts, 5 descriptors, no SIGINT | queue, counter and match for all interleavings; sockets, leaks, causes of an end, ends of games | 831,256 |
| server_shutdown | 2 clients that stay, threads that start in time, 1 line, 1 attempt, 6 descriptors, SIGINT at any time | what survives the killing of threads, and that the process ends unless it is stuck | 1,256,670 |
| server_memory | 1 client, SIGINT | memory is logged from an uninitialized variable (violation) | |
| server_hang | 1 client, SIGINT | the process never ends (violation) | |
| server_handover | 2 clients, 7 descriptors | a client that is never served (violation) | |
| imdb | both programs, files of up to 6 lines with keys 1 to 6, of which 2 and 5 come up again | balance, stored heights, the dictionary, comparisons | 197,488 |
| puzzle | 4 by 4 boards within 7 moves, and within 9 if the lower half is in order | the solution is a way, short, and found; bounds grow | 20,331 |

**Why the bounds are enough.**  scheduler: a job of 2 ends with its first slice, one of 7 in its first
slice at LEVEL3, one of 15 after a whole slice there, so a process makes every move between queues that
there is; two processes may be created together, a tick apart, or while the others are in later slices.
simulation: sizes 1, 2 and 4 in memories of 3, 4 and 7 give a process that never
fits, one that fits exactly, ties among residents, and runs of three holes.  dialogue: all rearrangements
of four places over three colours, which is the smallest size with hints that a count of distinct
colours would get wrong; two attempts are a first and a last.  Random codes are taken up to a renaming of
the colours, which the rules do not tell apart; when messages come in parts one code and a right and a
wrong guess are enough, as nothing then depends on more.  Two lines of welcome are one of each kind.
server: races here are between two
threads, or a thread and the handler or the accepting thread; a third client adds a third copy
of the same steps.  Two lines of welcome are needed for a write after a lost write.
One portion left unread (`MaxUnread`), with what the server has read already, is what it takes to
have two replies written to a client that has gone; the proofs have any number.  One of the two
clients (`Rude`) may go in ways that client.c does not; the two are alike but for the order in which
they come, and two such clients do nothing to each other.
7 descriptors are more than two clients can fill, 6 and 5 are filled exactly by
two games with what else is open in that run.  imdb: six keys make trees of three levels that need
each of the four kinds of rotation, at the root and below it, and with two pairs of equal keys the
rotations move an equal key to the left.  Every order of the lines is tried.  A look-up leaves the tree
alone, so one per tree and key is enough.  puzzle: the board is that of the code; within nine moves the
weight already makes answers longer than they need be.

**Schedules.**  MCServer narrows Server for a run and says how: *Calm* leaves out SIGINT;
*Loyal* leaves out clients that go.  A history variable, `prompt`, tells whether every new thread so far
has read `newsockfd` before the next accept returned.  The code takes that for granted, and
server_handover shows that it is not so; properties of who owns which socket say `prompt =>`, and queue,
counter and match hold without it, as the runs server and, for queue, log, counter, match and shutdown
order, the proofs show.  server_shutdown looks at prompt schedules only (`LoyalFairSpec`), to be small
enough: its liveness property is not claimed of the others.

A second history variable, `abrupt`, has the clients that went with more under way than client.c ever has, or with a
RST where client.c has nothing unread (`Waited`): if messages arrive whole, client.c has sent at most one answer to the line or
reply that it got last, and at the end of the welcome a guess as well.  `EndsOnlyForCause` names it where a SIGPIPE
during a game needs such a client.

`ShutdownEndsUnlessStuck` has two ways out, and both are for good: a thread that was killed inside logentry,
which loses the log, and a handler that waits for ever to read from a descriptor that was statm's and has become
a silent client's.

**Deadlock** is not checked, since all these programs stop.  That they stop only where they should is
what the liveness properties and `EndsOnlyForCause` say.

**Fairness.**  The simulation and the solver are one thread each: weak fairness of the next-state relation.
The server: as long as some thread can take a step, one does (`SystemStep`).  Clients get none there: one may
stay silent for ever, and a thread that reads from it then waits for ever.  No thread needs fairness of its own,
because no behaviour is infinite: connections, lines and attempts are bounded.  SIGINT may never come.
In Dialogue, server and client each get weak fairness: two processes that the operating system schedules,
and a player who does something; no step of one disables a step of the other for good.

### 3.1 What the violations show

* **simulation_holes.**  memory.c:252 promises to concatenate adjacent holes.  When the
  process between two holes goes there are three in a row; the pass joins the first two and moves
  on behind them.  `AtMostOneSeam` shows that this does not pile up.
* **simulation_give_up.**  memory.c:187 says that the search for a hole always ends if no process
  is larger than the memory.  Because of that seam, and of the address that every split
  loses, it can end in "can't swap out processes in memory".
* **server_handover.**  pthread_create gets `&newsockfd` (server.c:217).  With two connections
  in a row both threads may read the second descriptor.
* **server_memory.**  Games that have ended stay in `client_q` with their descriptor numbers.  In the
  handler, fopen of /proc/self/statm gets such a number and the loop closes it (server.c:86):
  fscanf reads nothing, and what is logged is an uninitialized variable.
* **server_hang.**  SIGTERM ends a thread between sem_wait and sem_post of logentry, and
  the handler waits for the log for ever (server.c:95).

## 4. Proofs

TLC looks at small instances; these hold for all values of the constants, under the assumptions that the modules
name (`ASSUME`). Each theorem `Spec => []Inv` goes by an inductive invariant, one lemma or step per action, one
step per conjunct that the action can disturb.

**SchedulerProofs**, for every set of input files and all slice lengths, from `WorkloadsAssumption` (times are
natural numbers, jobs at least one unit: what processGen.c writes; reader.c does not check) and
`QuantumAssumption` (slices are positive). The inductive invariant is

    IInv == TypeOK /\ EveryNodeInOnePlace /\ TempIsOnCpu /\ BooksAreRight

None of the four is inductive alone. A completed or preempted process is in no other place
(`EveryNodeInOnePlace`) because the process charged is the one on the CPU (`TempIsOnCpu`); that one needs
`temp = cpu` in every other phase too, which `BooksAreRight` has; `BooksAreRight` also says who has been admitted, and
without that a second `Admit` might put a node in two queues. Proved from it: its four parts as invariants;
`NonPreemptiveFcfs`; `FcfsCompletionOrder`, with a second invariant on the order of the queue; and
`WorkConservation`, the refinement of WorkConserving: Idle maps to WCIdle, Execute, Finish and Preempt to
WCServe, the rest to stutters. In an idle tick nobody is present because the queues are empty and every admitted
live process is in one of them. `LevelsAreAccounts` is `SliceLedger`: what a live process has consumed, less the
used part of its present slice, is what is due at its level (`Due`), and a whole slice more is what is due at
the level below, or at the last one again (`SliceIsDue`).

`WaitingTimesAreReal` is the refinement of WaitingTime: an abstract tick adds one unit for each process that is
there and not served; the code adds a process's waiting time once, when it ends. The mapping adds what live
processes have waited so far (`Unreported`) to `total_wait_time`, and each step is shown to change that sum by
what the abstract step does (`SumSplit`, `SumGrows` of Counting). `FirstTurnIsSoon` is `ResponseBound`: with N
processes the first slice of a process comes at most `Max(Q1, Longest - 1) + Q1 * (N - 2)` units after its
creation, where `Longest` is the longest of the three slices (0 if there is only one process). The invariant
`OnTime` says of each place of LEVEL1 that time waited, rest of the present slice and a slice for each process
ahead stay within the bound; it needs `LevelsAreAccounts`, by which only processes that never ran are in LEVEL1.
The first term is `Longest - 1` because a process admitted in a pass finds the slice of whoever runs already
charged once, and `Q1` because two processes may be created together.

**SimulationProofs**, for the same files and slices and every size of memory: `MemoryIsTiled`,
`OnlyTheLivingReside`, `CountersNeverDrift`, `OnlyTheLargestGoes`, `SeamsNeverPileUp` and `FcfsNeedsOneSegment`.
Simulation implements Scheduler (`SimulationSchedules`), so `IInv` holds of it, too. On top of that `MemoryInv`
says that the segments tile the memory (`Tiles`), that no process has two of them (`Apart`), and that whoever
has one is live, the process on the CPU among them (`Occupancy`). Tiling alone would be inductive; the other two
need each other, as freeing the one segment that find_segment finds leaves nothing of a process behind only if
there is no other. The heart of it is the pass of concat_holes, which is not recursive in the model: a hole is
absorbed only right behind a hole that is kept (`AbsorbedFacts`), so two kept segments that follow each other in
the new list were neighbours, or had one absorbed hole between them (`KeptFacts`).

The counters (`Counted`) follow the list through the two ways in which it changes, one segment replaced by two
(`SplitAt`) and one segment turned into a hole (`FreedAt`), followed by the pass of concat_holes, which takes
nothing but holes away; the usage is a sum over the segments. For the seams (`SingleSeam`): a seam that the pass
leaves is the end of a run of three holes or more (`SeamFacts`), such a run takes two seams, and freeing a
segment adds only those on its two sides (`FreedSeams`); a split or a filled hole adds none. Under fcfs memory
is one segment and perhaps the hole behind it (`Footprint`), as the next process comes when the last one has
gone. `OnlyTheLargestGoes` is a property of steps: it reads the victim off the code's comparison, which keeps
the first of equal ones, and shows from `MemoryInv` that freeing its segment leaves all others in memory.

**DialogueProofs** is about two modules. Of Game, for all colours out of A to F, all sizes from 1 to 9, arguments, players and numbers of
attempts: `TypeCorrect`, `ExactGuessesWin`, `GameIsMatch` and `HintsAreTrue`. The inductive invariant adds that
a game that goes on is undecided: `moves`, which is not counted down on a break, would otherwise reach zero.
`AllRight` is the fact that rightincode counts CODE_SIZE only for the code itself; it rests on the secret being
in upper case. `HintIsTrue` says of the code's sum over colours, less the places that are right, that it is what
the best rearrangement of the guess would get right in addition. That no rearrangement does better is counting
colour by colour; that one does as well is an exchange argument (`BestOrder` of Counting): a best rearrangement
that misses a colour it could use in a place can be bettered by exchanging two places (`Exchange`).

Of Dialogue, for any welcome and any way in which the streams are cut: `DialogueIsGame`, the server's side of a
dialogue is a behaviour of Game, so that all theorems about games hold of dialogues;
`DialogueIsMatch` is one of them. `ClientAndServerAgree` is `VerdictsAgree`; its invariant `Agree` adds what may
still be on its way to the client: no SUCCESS or GAME_OVER unless the game is over and has ended so.
`GuessesAreCharged` (`AttemptsAreGuesses`) is about dialogues whose messages arrive whole. Its invariant
`InStep` says what is on its way to either side, by where the server is: one line of the welcome or its
acknowledgement, then one guess or one reply. What makes it hard is the end of the welcome, where the client
sends two messages in a row and the server must read them one by one.

**ServerProofs**, for any number of clients, descriptors, lines and attempts, any interleaving, SIGINT at any
time and clients that go: `QueueLosesNobody`, `LogEntriesAreSerial`, `GamesAreMatches`, `NoSuccessIsLost` and
`ThreadsEndInOrder`. Five invariants on top of the types:

* for the queue, that whoever is between the two steps of q_add holds mutex_client and still has the right tail;
* for the log, `LogIsSerial` itself, which is inductive: the semaphore is down exactly if somebody, dead or
  alive, has the log open;
* for the matches, what reply_buffer may hold at each place of the gameloop, and that a hint or INVALID is given
  only while another attempt is left;
* for the counter, that a thread between the two steps of `num_successes++` holds mutex_successes, alone, and
  has seen the present value, and that num_successes is the cardinality of some set of winners which has every
  one that has passed the counter and was not killed;
* for the shutdown, that exactly the first n in the queue have been killed and all of them but perhaps the last
  are gone, with n told by where the handler is (`EndedTo`): a thread that registers meanwhile does so behind
  them, and nobody who is gone comes back.

Its second half is about CalmSpec of MCServer: `ThreadsKeepTheirSockets` says that `OwnSocket` holds for any
number of clients and descriptors. The invariant `Owned` says that a thread's socket is its connection, that
newsockfd is the last connection as long as its thread has not read it, and that whoever has the log open has it
at a descriptor of the log. The point of the proof is that a number is given away again (`NewFd`, the smallest
free one) only after its owner has closed it. That there is a smallest one is `Smallest` of Counting.
`NoDescriptorIsLost` counts: every open descriptor is that of a connection, of an open log, or of one
welcome.txt for each game that has opened it (`Accounts`); each open or close changes both sides by one, which
needs `Owned` to know that what is closed was open. `EndsAreCaused` is `EndsOnlyForCause`: the server ends for
want of descriptors, by a long guess or by SIGPIPE, and by SIGPIPE during a game only on account of a client that
is `abrupt`. Its invariant `Pipes` says of each thread (`Unbroken`) that its stream stays open, that nothing is
unread and no RST has come as long as its client is there, and that a client which has gone and is not abrupt is
`Patient`: it has at most its last answers unread, and none once the server has read a guess and is about to
reply, when there is no RST either. Such a thread writes once more at most, draws a RST, and finds the end of the stream at its next read.

**Counting** has what several of these proofs need. Its inductions, over the subsets of a finite set
(`SetInduction`) and over numbers (`UpwardInduction`), take the set of the cases that hold as their parameter
and rest on the well-foundedness of < on the naturals, as the library's induction theorems with an operator as a
parameter cannot be used.

**AVLProofs**, for files of any length and any keys, in both programs: `TreesStayBalanced` and `NodesStayTrue`.
The invariant `TreeInv` is that the tree is `Sound` (links and parents agree, no node lies below itself, which a
rank on the nodes witnesses), that what each node says of itself is true if what its children say is (`TrueAt`),
that counters are in -1 .. 1 (`Level`), and that the nodes of later lines are not in it. Nothing is said of the
keys: an insertion may attach the leaf anywhere (`DescentPath`), and balance does not depend on it. The
argument, in the order of the code:

* the model's folds are run step by step (`FoldIsRun`), and the recursive functions over the tree, `Ancestors`,
  `Descent` and `TrueHeight`, are only ever unfolded, by induction on ranks;
* updateHeight, called on n, leaves all true if nothing is wrong but on the way from n to the root
  (`UpdateFacts`); there is only one way to give the nodes of a tree true heights (`HeightsAreUnique`);
* rotateR and rotateL, being mirror images, keep a tree a tree (`TurnedIsSound`) and its updateHeight, which
  starts from the node that has come down, reaches every height that is wrong (`RotateFacts`);
* a new leaf raises heights by at most one, and only on the way to the root (`Growth`), so the lowest node that
  leans too far is too high by two on the side of the leaf, with a child there that leans to one side
  (`Unbalanced`): a child that leans to neither, for which the code would choose a double rotation, is not met;
* the single or double rotation of such a node gives its place the height it had before the insertion
  (`SingleTurn`, `DoubleTurn`), so that all heights above are the old ones again, all nodes are level
  (`BalanceFacts`), and the calls of balanceTree that are left on the path do nothing (`PathIsBalanced`).

**DictionaryProofs**, for the same files and programs: `Dictionaries` (the refinement `ImplementsDictionary`) and
`SearchesAreShort` (`SearchIsShort`), both from `DictionaryInvariant`. Its invariant `DictInv` adds to `TreeInv`

* `InOrder`: every node has an interval (`Bounds`) that holds its key and those of its children's intervals on
  either side, which in imdb2 lie apart from the key and in imdb1 may touch it, as rotations move equal keys to
  either side. A rotation keeps the order by exchanging the intervals of two nodes (`TurnKeepsOrder`), a new leaf
  by widening those on its way down (`AttachKeepsOrder`);
* `Whole`: whoever hangs under no node and is not the root has no children, so that the nodes that the links
  lead to are just those in their places (`Placed`, `BelowRoot`) and a rotation loses none (`RotateKeeps`);
* `Filed`: the lines in the nodes are the lines read, rising in each node, and one per node in imdb1. That a key
  of its own gets a new node and a known one is appended to the right node is `InsertKeeps`;
* the nodes compared are those of a search in the present tree.

The path of bst_ll.c ends at the only node with the key (`DescentFinds`); the search of bst.c meets all of them
and none twice (`VisitFinds`, as the two sides of a node have no node in common, `BelowOnce`). What FlattenSeq makes
of it is `LastAnswer` and `EachAnswer`. In the refinement EndOfFile maps to EndOfFile, ReadLine to Record and
LookUp to Ask. For the comparisons, a path is no longer than the tree has levels (`PathLength`), the search of
bst.c no longer than that times one more than the equal keys below (`VisitLength`), and a level tree of so many
levels has at least `FewestNodes` nodes (`FewestBelow`); `FewestNodes` is a recursive function, of which the module
proves that it satisfies its equation and grows.

**PuzzleProofs**, for boards of any width from two and any set of starts that are boards (`StartsAssumption`).
`SolutionIsAPath`: the invariant `PathInv` is that the nodes on the stack lead from one to the next, starting
at the board that was given (`Way`), that the solution on its way back is such a way that ends at the top of the
stack (`WayBack`), and that nodes are well formed (`Calls`). Nothing in it depends on the heuristic: the path is
right whatever the search cuts. `SearchesGoFurther` is `BoundGrows`: B1 starts from INT_MAX and is only lowered
to costs above B (`Beyond`). It has a hypothesis, that B stays below INT_MAX; the code has the same one, as a
search that cuts nothing would begin again with that bound.
`SolutionIsShort` is `FoundIsShort`, for any Depth. Its first half is about boards: `MoveFacts` (a move stays on
the board, keeps each tile in one place and is undone by the opposite one), `HeuristicStep` (it changes the sum
of the distances by at most one, since it moves one tile by one place), and so `NearFacts`: the heuristic is
never more than the moves that are left. Its second half is the invariant `SearchInv`, with the length of a
shortest solution, `Shortest(start)`: no call is nearer to the end than its depth allows (`Far`), and the
bound is at most half as much again as that length, and so is the next bound, unless some call has still to try
an action with which a shortest solution goes on (`Short`, `Hope`). Such an action is never the undoing of the
one before (`NoWayBack`, from `Far`), so that it is not skipped; if it is cut, its weighted evaluation keeps the
next bound low (`CutIsShort`); if it is followed, the new call has such an action too (`FreshHope`). The
reference, `Within`, is only unfolded, by induction over the number of moves (`Layers`).

**Model-checked only.** Liveness (`Termination`, `GamesEnd`, `ShutdownEndsUnlessStuck`, `PlayedOut`,
`IsSolved`), which the proof system does not handle. Every other property of a run that must pass is
also a theorem.

## 5. Not modelled, and assumptions

* Input and output of the simulation (reader.c, print_memory), its argument parsing, malloc failures; the
  generator.  `fcfs_remove_process` is never called.
* Processes of size zero, which would make swap_out_process dereference NULL (`SizesAssumption`),
  two processes with one identifier, jobs of no length, and overflow of `int`.
* Boards for the solver, which are compiled in, with a tile twice or none (`PuzzleAssumption`, `StartsAssumption`).
* main of the server up to pthread_create; SIGINT before q_init; a second SIGINT; q_delete, which is never called.
* Locks inside stdio and malloc.  A thread killed while it holds one may hang the process like a thread
  killed in logentry; the steps of the model fall outside such calls.
* What an entry too long for the buffer of logentry does beyond ending the server: it may overwrite anything there.
* The contents of log.txt, except that entries are not mixed.  num_clients is counted but nothing depends on it.
* The client's search for its server (gethostbyname, connect) and errors of read and write other than an end of file
  and SIGPIPE.  Messages longer than two pieces: two already give a first and a last part.
* What server.c:277 finds at `buffer[-1]` when a text begins with a NUL byte, and what its write there changes.
* readcsv.c, the parsing of lines and keys: only the key and the info that come out matter to the trees.  A malloc or
  fopen that fails ends imdb1 and imdb2.  Freeing the trees at the end.
* The counters of expanded and generated nodes in the solver, and its printing.

## 6. What is left to do

1. **LinkedQueue** - fcfs.c on nodes with `next` pointers, refining the sequences of Scheduler.
2. A dialogue of several clients with Server itself, which has the threads but not the bytes; today Dialogue has the bytes
   for one client, and both are shown to be matches.
