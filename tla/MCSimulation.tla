---------------------------- MODULE MCSimulation ----------------------------
(* Small input files and memories for Simulation. *)
EXTENDS Simulation

CONSTANTS
    MaxProcesses,           \* files of 0 .. MaxProcesses processes
    Times, Sizes, Jobs      \* creation times, memory sizes, job times

Process == [time_created : Times, memory_size : Sizes, job_time : Jobs]
Files == UNION {[1 .. n -> Process] : n \in 0 .. MaxProcesses}

(* Four processes, created at once and preempted once if they share the    *)
(* processor: files for swaps with several residents.                      *)
AtOnce == [time_created : {0}, memory_size : Sizes, job_time : {2}]
FilesAndCrowds == Files \cup [1 .. 4 -> AtOnce]
=============================================================================
