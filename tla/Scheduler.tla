------------------------------ MODULE Scheduler ------------------------------
(***************************************************************************)
(* The simulation loop of COMP30023/project1: main.c with the queues of    *)
(* fcfs.c and multi.c.  Memory is left out here and added by Simulation,   *)
(* which joins a memory step to Dispatch and to Finish.                    *)
(*                                                                         *)
(* A node (node_t) is named by the position of its process in the input    *)
(* file; remaining and level are the node's fields.  A linked queue is the *)
(* sequence of its nodes.  The single queue of fcfs is queues[LEVEL1].     *)
(* One pass of the loop is: LoopTest, one Admit per process, one of        *)
(* Dispatch, NothingReady, KeepRunning, then one of Idle, Execute, Finish, *)
(* Preempt.                                                                *)
(*                                                                         *)
(* A definition called X_Wrong is a plausible slip in X that some property *)
(* is shown to catch; the specification does not use it.                   *)
(***************************************************************************)
EXTENDS Integers, Sequences, FiniteSetsExt

CONSTANTS
    Workloads,      \* the input files: sequences of process records
    Q1, Q2, Q3      \* the time slices of the three levels

(* What read_input is expected to deliver: processGen.c writes creation    *)
(* times that are not negative and job times of at least one unit.         *)
ASSUME WorkloadsAssumption ==
    \A w \in Workloads :
        /\ w \in Seq([time_created : Nat, memory_size : Nat, job_time : Nat])
        /\ \A p \in DOMAIN w : w[p].job_time > 0

ASSUME QuantumAssumption == {Q1, Q2, Q3} \subseteq Nat \ {0}

FCFS  == 1
MULTI == 0
NULL  == 0
NoNode == -1        \* remaining[p] before p's node has been allocated

LEVEL1 == 0
LEVEL2 == 1
LEVEL3 == 2
Levels == LEVEL1 .. LEVEL3
quantums == [l \in Levels |-> IF l = LEVEL1 THEN Q1 ELSE IF l = LEVEL2 THEN Q2 ELSE Q3]

VARIABLES
    processes, algorithm,       \* the program's input
    phase,                      \* where the loop is
    i,                          \* cursor of the admission loop
    time, process_count, total_wait_time,
    queues,                     \* queues[l]: sequence of waiting nodes
    remaining, level,           \* fields of the nodes
    temp,                       \* node picked by the last dispatch, or NULL
    cpu,                        \* node whose segment is on the CPU, or NULL
    quantum                     \* what is left of the current time slice

input  == <<processes, algorithm>>
clock  == <<time, process_count, total_wait_time>>
nodes  == <<remaining, level>>
onCpu  == <<temp, cpu, quantum>>
vars   == <<input, phase, i, clock, queues, nodes, onCpu>>

Procs == DOMAIN processes

-----------------------------------------------------------------------------

Init ==
    /\ processes \in Workloads
    /\ algorithm \in {FCFS, MULTI}
    /\ phase = "loop" /\ i = 1
    /\ time = 0 /\ process_count = 0 /\ total_wait_time = 0
    /\ queues = [l \in Levels |-> <<>>]
    /\ remaining = [p \in Procs |-> NoNode]
    /\ level = [p \in Procs |-> LEVEL1]
    /\ temp = NULL /\ cpu = NULL /\ quantum = 0

(* The loop condition. *)
LoopTest ==
    /\ phase = "loop"
    /\ phase' = IF process_count < Len(processes) \/ cpu # NULL
                THEN "admit" ELSE "finished"
    /\ i' = 1
    /\ UNCHANGED <<input, clock, queues, nodes, onCpu>>

fcfs_enqueue_Wrong(l, p) == queues' = [queues EXCEPT ![l] = <<p>> \o queues[l]]
fcfs_enqueue(l, p) == queues' = [queues EXCEPT ![l] = Append(queues[l], p)]

fcfs_add_process(l, p) ==
    /\ fcfs_enqueue(l, p)
    /\ remaining' = [remaining EXCEPT ![p] = processes[p].job_time]
    /\ level' = [level EXCEPT ![p] = LEVEL1]

(* The test of the admission loop. *)
CreatedNow_Wrong(p) == processes[p].time_created = time - 1
CreatedNow(p) == processes[p].time_created = time

(* One round of the loop that admits the processes created at this time. *)
Admit ==
    /\ phase = "admit"
    /\ IF CreatedNow(i)
       THEN fcfs_add_process(LEVEL1, i)
       ELSE UNCHANGED <<queues, nodes>>
    /\ i' = i + 1
    /\ phase' = IF i = Len(processes) THEN "dispatch" ELSE "admit"
    /\ UNCHANGED <<input, clock, onCpu>>

(* The level whose head multi_get_process returns; fcfs_get_process is the *)
(* same scan, as only LEVEL1 is ever filled under fcfs.                    *)
FirstNonEmpty_Wrong(l) ==
    queues[l] # <<>> /\ \A k \in Levels : k > l => queues[k] = <<>>
FirstNonEmpty_Short(l) ==
    l < LEVEL3 /\ queues[l] # <<>> /\ \A k \in Levels : k < l => queues[k] = <<>>
FirstNonEmpty(l) == queues[l] # <<>> /\ \A k \in Levels : k < l => queues[k] = <<>>

(* The slice of a node that is taken from its queue. *)
Slice_Stale(p) == quantum
Slice_Long(p) == IF algorithm = FCFS THEN remaining[p] ELSE quantums[level[p]] + 1
Slice(p) == IF algorithm = FCFS THEN remaining[p] ELSE quantums[level[p]]

(* The processor is free and a process waits: take it, give it a slice. *)
Dispatch ==
    /\ phase = "dispatch" /\ cpu = NULL
    /\ \E l \in Levels :
        /\ FirstNonEmpty(l)
        /\ temp' = Head(queues[l])
        /\ queues' = [queues EXCEPT ![l] = Tail(queues[l])]
    /\ cpu' = temp'
    /\ quantum' = Slice(temp')
    /\ phase' = "run"
    /\ UNCHANGED <<input, i, clock, nodes>>

(* The processor is free and nobody waits. *)
NothingReady ==
    /\ phase = "dispatch" /\ cpu = NULL
    /\ \A l \in Levels : queues[l] = <<>>
    /\ temp' = NULL
    /\ phase' = "run"
    /\ UNCHANGED <<input, i, clock, queues, nodes, cpu, quantum>>

(* The processor is taken: temp keeps its value. *)
KeepRunning ==
    /\ phase = "dispatch" /\ cpu # NULL
    /\ phase' = "run"
    /\ UNCHANGED <<input, i, clock, queues, nodes, onCpu>>

(* The second half of the loop body, which looks at temp and not at cpu. *)
Idle ==
    /\ phase = "run" /\ temp = NULL
    /\ time' = time + 1
    /\ phase' = "loop"
    /\ UNCHANGED <<input, i, process_count, total_wait_time, queues, nodes, onCpu>>

Consume ==
    /\ phase = "run" /\ temp # NULL
    /\ time' = time + 1
    /\ remaining' = [remaining EXCEPT ![temp] = remaining[temp] - 1]
    /\ quantum' = quantum - 1
    /\ phase' = "loop"

(* Neither the job nor the slice ends in this tick. *)
Execute ==
    /\ Consume
    /\ remaining[temp] # 1 /\ quantum # 1
    /\ UNCHANGED <<input, i, process_count, total_wait_time, queues, level, temp, cpu>>

(* What a process has waited when its last unit has been served; the clock *)
(* has already been advanced when it is computed.                          *)
WaitOf_Wrong(p) == time - processes[p].time_created - processes[p].job_time
WaitOf(p) == time + 1 - processes[p].time_created - processes[p].job_time

(* The job ends, whatever is left of the slice. *)
Finish ==
    /\ Consume
    /\ remaining[temp] = 1
    /\ total_wait_time' = total_wait_time + WaitOf(temp)
    /\ cpu' = NULL
    /\ process_count' = process_count + 1
    /\ UNCHANGED <<input, i, queues, level, temp>>

(* What multi_enqueue makes of a node's level. *)
Demoted(l) == IF l \in {LEVEL1, LEVEL2} THEN l + 1 ELSE l

multi_enqueue_Wrong(p) ==
    /\ level' = [level EXCEPT ![p] = Demoted(level[p])]
    /\ fcfs_enqueue(level[p], p)
multi_enqueue(p) ==
    /\ level' = [level EXCEPT ![p] = Demoted(level[p])]
    /\ fcfs_enqueue(Demoted(level[p]), p)

(* The slice ends before the job. *)
Preempt ==
    /\ Consume
    /\ remaining[temp] # 1 /\ quantum = 1
    /\ IF algorithm = FCFS
       THEN fcfs_enqueue(LEVEL1, temp) /\ UNCHANGED level
       ELSE multi_enqueue(temp)
    /\ cpu' = NULL
    /\ UNCHANGED <<input, i, process_count, total_wait_time, temp>>

Run == Idle \/ Execute \/ Finish \/ Preempt

Next == \/ LoopTest \/ Admit
        \/ Dispatch \/ NothingReady \/ KeepRunning
        \/ Run

Spec == Init /\ [][Next]_vars

(* The program is one thread that runs until main returns. *)
FairSpec == Spec /\ WF_vars(Next)

-----------------------------------------------------------------------------
(* Vocabulary of the properties *)

Live(p)     == remaining[p] > 0
Finished(p) == remaining[p] = 0
Waiting(p)  == \E l \in Levels : \E k \in DOMAIN queues[l] : queues[l][k] = p

(* CPU time p has received. *)
Consumed(p) == processes[p].job_time - remaining[p]

(* p reaches the admission loop before q. *)
Before(p, q) ==
    \/ processes[p].time_created < processes[q].time_created
    \/ processes[p].time_created = processes[q].time_created /\ p < q

-----------------------------------------------------------------------------
(* Properties *)

(* Every variable holds a value of its kind, and no counter goes negative  *)
(* except quantum's initial garbage, which is 0 here.                      *)
TypeOK ==
    /\ processes \in Workloads
    /\ algorithm \in {FCFS, MULTI}
    /\ phase \in {"loop", "admit", "dispatch", "run", "finished"}
    /\ i \in Nat
    /\ time \in Nat /\ process_count \in Nat /\ total_wait_time \in Int
    /\ queues \in [Levels -> Seq(Procs)]
    /\ remaining \in [Procs -> Nat \cup {NoNode}]
    /\ level \in [Procs -> Levels]
    /\ temp \in Procs \cup {NULL} /\ cpu \in Procs \cup {NULL}
    /\ quantum \in Nat

(* A live process is on the CPU or in exactly one place of one queue, the  *)
(* queue of its level; a finished or unborn one is nowhere: no node is     *)
(* lost, duplicated or reachable after free(temp) (main.c:142-158).        *)
LiveIsPlaced == \A p \in Procs : Live(p) <=> (Waiting(p) \/ cpu = p)
QueuesAreDisjoint ==
    \A l \in Levels : \A k \in DOMAIN queues[l] :
        /\ queues[l][k] # cpu
        /\ level[queues[l][k]] = l
        /\ \A l2 \in Levels : \A k2 \in DOMAIN queues[l2] :
            queues[l2][k2] = queues[l][k] => l2 = l /\ k2 = k
EveryNodeInOnePlace == LiveIsPlaced /\ QueuesAreDisjoint

(* The run half of the loop tests temp and the dispatch half tests cpu     *)
(* (main.c:116, 142): they agree whenever temp is used, so a freed or a    *)
(* queued node is never charged a tick.                                    *)
TempIsOnCpu == phase = "run" => temp = cpu

(* The loop's books: a process gets its node in the pass of its creation   *)
(* time and in no other (main.c:107-115 compares for equality, so a missed *)
(* pass would lose it), process_count counts the finished ones, the slice  *)
(* of a process on the CPU is not used up and is all its job under fcfs,   *)
(* and the program only looks for work while a process is unfinished.      *)
Admitted(p) ==
    \/ processes[p].time_created < time
    \/ /\ processes[p].time_created = time
       /\ phase \in {"dispatch", "run"} \/ (phase = "admit" /\ p < i)
BooksAreRight ==
    /\ phase = "admit" => i \in Procs
    /\ \A p \in Procs :
        /\ remaining[p] # NoNode <=> Admitted(p)
        /\ remaining[p] <= processes[p].job_time
    /\ process_count = Cardinality({p \in Procs : Finished(p)})
    /\ cpu # NULL => /\ temp = cpu /\ quantum > 0
                     /\ algorithm = FCFS => quantum = remaining[cpu]
    /\ phase = "run" /\ cpu = NULL => \A l \in Levels : queues[l] = <<>>
    /\ phase \in {"admit", "dispatch", "run"} /\ cpu = NULL =>
            process_count < Len(processes)

(* The level of a multi process is the account of the slices it used up:   *)
(* nothing at LEVEL1, Q1 at LEVEL2, Q1 + Q2 and whole slices of Q3 at      *)
(* LEVEL3; on the CPU, the used part of the current slice comes on top.    *)
UsedUp(p, used) ==
    CASE level[p] = LEVEL1 -> used = 0
      [] level[p] = LEVEL2 -> used = Q1
      [] OTHER -> used >= Q1 + Q2 /\ (used - Q1 - Q2) % Q3 = 0
SliceLedger ==
    algorithm = MULTI =>
        \A p \in Procs : Live(p) =>
            UsedUp(p, IF cpu = p
                      THEN Consumed(p) - (quantums[level[p]] - quantum)
                      ELSE Consumed(p))

(* report.txt:9-12: under fcfs a process that has begun keeps the CPU      *)
(* until it is complete.                                                   *)
RunsToCompletion ==
    [][algorithm = FCFS /\ cpu # NULL /\ cpu' # cpu => remaining'[cpu] = 0]_vars

(* Under fcfs processes complete in the order of their creation, ties in   *)
(* the order of the input file (the admission loop of main.c:107).         *)
CompletionOrder ==
    algorithm = FCFS =>
        \A p, q \in Procs : Finished(q) /\ Before(p, q) => Finished(p)

(* A new process under multi waits at most for the rest of a slice and for *)
(* one Q1 slice of every other process before it first gets the CPU: the   *)
(* feedback that sends long jobs down keeps LEVEL1 short (multi.c).        *)
Longest == Max({Q1, Q2, Q3})
LongestWait(others) ==
    IF others = 0 THEN 0 ELSE Max({Q1, Longest - 1}) + Q1 * (others - 1)
ResponseBound ==
    algorithm = MULTI =>
        \A p \in Procs : Live(p) /\ Consumed(p) = 0 /\ Waiting(p) =>
            time - processes[p].time_created <= LongestWait(Len(processes) - 1)

(* The loop is a work-conserving processor: it serves one unit per tick    *)
(* whenever a created process needs it, under either algorithm.            *)
Abstract == INSTANCE WorkConserving WITH
    left <- [p \in Procs |-> IF remaining[p] = NoNode
                             THEN processes[p].job_time ELSE remaining[p]]
ImplementsWorkConserving == Abstract!WCSpec

(* What a live process has waited so far, in the way main.c:146 computes   *)
(* it when the process ends.                                               *)
Unreported(p) ==
    time - processes[p].time_created - (processes[p].job_time - remaining[p])

(* total_wait_time, taken from turnaround times when processes end, is the *)
(* number of units that created processes spent without the CPU, counted   *)
(* tick by tick: the average printed at main.c:164 is the real one.        *)
Waits == INSTANCE WaitingTime WITH
    left <- [p \in Procs |-> IF remaining[p] = NoNode
                             THEN processes[p].job_time ELSE remaining[p]],
    waited <- total_wait_time + MapThenSumSet(Unreported, {p \in Procs : Live(p)})
ImplementsWaitingTime == Waits!WTSpec

(* The simulation ends. *)
Termination == <>(phase = "finished")
=============================================================================
