----------------------------- MODULE MCScheduler -----------------------------
(* Small input files for Scheduler. *)
EXTENDS Scheduler

CONSTANTS
    MaxProcesses,   \* files of 0 .. MaxProcesses processes
    Times,          \* creation times
    Jobs            \* job times

(* memory_size is not looked at by this module's specification. *)
Process == [time_created : Times, memory_size : {1}, job_time : Jobs]
Files == UNION {[1 .. n -> Process] : n \in 0 .. MaxProcesses}
=============================================================================
