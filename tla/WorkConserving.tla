--------------------------- MODULE WorkConserving ---------------------------
(***************************************************************************)
(* What a single-processor simulation promises, whatever its scheduling    *)
(* policy: the clock advances in unit ticks; in every tick, as long as a   *)
(* created process has work left, exactly one such process receives one    *)
(* unit of CPU time; a tick is wasted only when nobody could have used it. *)
(* The algorithms of COMP30023/project1 (fcfs and multi) differ only in    *)
(* which process they pick, which is left open here.                       *)
(***************************************************************************)
EXTENDS Integers

CONSTANT
    Workloads       \* the input files: sequences of process records

VARIABLES
    processes,      \* the workload of this behaviour, never changed
    time,           \* the simulated clock
    left            \* left[p]: CPU time process p still needs

wcVars == <<processes, time, left>>

(* Created processes that still need the CPU. *)
Present == {p \in DOMAIN processes :
                processes[p].time_created <= time /\ left[p] > 0}

WCInit ==
    /\ processes \in Workloads
    /\ time = 0
    /\ left = [p \in DOMAIN processes |-> processes[p].job_time]

WCServe(p) ==
    /\ p \in Present
    /\ left' = [left EXCEPT ![p] = left[p] - 1]
    /\ time' = time + 1
    /\ UNCHANGED processes

WCIdle ==
    /\ Present = {}
    /\ \E p \in DOMAIN processes : left[p] > 0
    /\ time' = time + 1
    /\ UNCHANGED <<processes, left>>

WCNext == WCIdle \/ \E p \in DOMAIN processes : WCServe(p)

WCSpec == WCInit /\ [][WCNext]_wcVars
=============================================================================
