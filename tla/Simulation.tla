----------------------------- MODULE Simulation -----------------------------
(***************************************************************************)
(* The whole simulation of COMP30023/project1: the loop of Scheduler with  *)
(* the memory of Memory.  A dispatched process is brought into memory,     *)
(* swapping out others if need be, and leaves it when its job ends; a      *)
(* preempted process stays until it is swapped out.                        *)
(***************************************************************************)
EXTENDS Scheduler, Memory

CONSTANT
    MemSizes        \* the values of the -m argument

(* main.c:80 refuses a memory of no size. *)
ASSUME MemSizesAssumption == MemSizes \subseteq Nat \ {0}

(* processGen.c writes sizes of at least one unit; swap_out_process would  *)
(* dereference NULL on a resident of size 0 (memory.c:234).                *)
ASSUME SizesAssumption ==
    \A w \in Workloads : \A p \in DOMAIN w : w[p].memory_size > 0

VARIABLES
    memory,
    aborted         \* "can't swap out processes in memory" (memory.c:244)

simVars == <<vars, memory, aborted>>

SizeOf(p) == processes[p].memory_size

SimInit ==
    /\ Init
    /\ \E size \in MemSizes : memory = memory_init(size)
    /\ aborted = FALSE

(* run_process: a process that is in memory runs where it is; any other    *)
(* is given the first hole that fits.                                      *)
RunResident ==
    /\ Dispatch
    /\ find_segment(memory, temp') # {}
    /\ UNCHANGED <<memory, aborted>>

BringIn ==
    /\ Dispatch
    /\ find_segment(memory, temp') = {}
    /\ Fitting(memory, SizeOf(temp')) # {}
    /\ memory' = add_to_memory(memory, temp', SizeOf(temp'), time)
    /\ UNCHANGED aborted

(* One round of the loop of find_free_memory, when no hole fits the        *)
(* process at the head of the queue; memory is updated by free_segment     *)
(* and once more by the loop.  The code takes the process from its queue   *)
(* before this loop, which does not look at the queues.                    *)
SwapOut ==
    /\ phase = "dispatch" /\ cpu = NULL
    /\ \E l \in Levels :
        /\ FirstNonEmpty(l)
        /\ find_segment(memory, Head(queues[l])) = {}
        /\ Fitting(memory, SizeOf(Head(queues[l]))) = {}
    /\ Residents(memory) # {}
    /\ memory' = update_memory(swap_out_process(memory))
    /\ UNCHANGED <<vars, aborted>>

(* No hole fits and nobody can be swapped out: the program exits. *)
GiveUp ==
    /\ Dispatch
    /\ find_segment(memory, temp') = {}
    /\ Fitting(memory, SizeOf(temp')) = {}
    /\ Residents(memory) = {}
    /\ aborted' = TRUE
    /\ UNCHANGED memory

Complete_Wrong == Finish /\ UNCHANGED <<memory, aborted>>
Complete ==
    /\ Finish
    /\ \E k \in find_segment(memory, cpu) : memory' = free_segment(memory, k)
    /\ UNCHANGED aborted

NoMemoryStep ==
    /\ LoopTest \/ Admit \/ NothingReady \/ KeepRunning \/ Idle \/ Execute \/ Preempt
    /\ UNCHANGED <<memory, aborted>>

SimNext ==
    /\ ~aborted
    /\ RunResident \/ BringIn \/ SwapOut \/ GiveUp \/ Complete \/ NoMemoryStep

SimSpec == SimInit /\ [][SimNext]_simVars

-----------------------------------------------------------------------------
(* Properties *)

Segment(k) == memory.segments[k]
ResidentProcs == {Segment(k).process : k \in Residents(memory)}
Last == Len(memory.segments)

(* The segments tile the addresses 0 .. size without gap or overlap, and   *)
(* a process sits in a segment of exactly its size (memory.c:142-150).     *)
SegmentsTileMemory ==
    /\ Segment(1).start = 0 /\ Segment(Last).end = memory.size
    /\ \A k \in 1 .. Last :
        /\ Segment(k).start <= Segment(k).end
        /\ k < Last => Segment(k + 1).start = Segment(k).end + 1
        /\ ~IsHole(Segment(k)) =>
            LengthOf(Segment(k)) = SizeOf(Segment(k).process)

(* num_processes, which is counted up and down, and num_holes, which is    *)
(* recounted, agree with the list through every swap; the usage never      *)
(* reaches the "Memory is full" exit of memory.c:338, and the percentage   *)
(* printed at every dispatch is within half a percent (memory.c:353).      *)
CountersAgree ==
    /\ memory.num_processes = Cardinality(Residents(memory))
    /\ memory.num_processes = Cardinality(ResidentProcs)
    /\ memory.num_holes = Cardinality(Holes(memory))
    /\ memory.usage \in 0 .. memory.size
    /\ LET error == get_usage(memory) * memory.size - 100 * memory.usage
       IN  2 * error <= memory.size /\ 2 * error >= -memory.size

(* One pass that joins holes in pairs (memory.c:266) cannot keep all holes *)
(* apart, but what it leaves behind never accumulates: there is at most    *)
(* one place where two holes touch.                                        *)
AtMostOneSeam ==
    Cardinality({k \in 1 .. Last - 1 : {k, k + 1} \subseteq Holes(memory)}) <= 1

(* Only live processes occupy memory, and the one on the CPU does          *)
(* (main.c:148 frees its segment through the pointer kept since dispatch). *)
ResidentsAreLive ==
    ~aborted =>
        /\ \A p \in ResidentProcs : Live(p)
        /\ cpu # NULL => cpu \in ResidentProcs

(* report.txt:29-30: for fcfs the number of processes in memory and the    *)
(* number of holes is always 1 or 0; so the program gives up only on a     *)
(* process that is larger than the whole memory.                           *)
FcfsFootprint ==
    algorithm = FCFS =>
        /\ memory.num_processes \in {0, 1} /\ memory.num_holes \in {0, 1}
        /\ aborted => SizeOf(temp) > memory.size

(* memory.c:215-217: a process that is swapped out is at least as large as *)
(* every other one, and as long in memory as those of its size; whoever    *)
(* stays keeps its addresses.  Whatever is in memory, a round leaves one   *)
(* resident less, so that the search for a hole ends (memory.c:183-191).   *)
RoundFreesOne ==
    Residents(memory) # {} =>
        Cardinality(Residents(update_memory(swap_out_process(memory))))
            = Cardinality(Residents(memory)) - 1
Left == {k \in Residents(memory) :
    Segment(k).process \notin {memory'.segments[j].process : j \in Residents(memory')}}
SwapsOutTheLargest ==
    [][ RoundFreesOne /\ \A k \in Left : remaining'[Segment(k).process] > 0 =>
            \A j \in Residents(memory) \ Left :
                /\ \/ Segment(k).memory_size > Segment(j).memory_size
                   \/ /\ Segment(k).memory_size = Segment(j).memory_size
                      /\ Segment(k).time_added <= Segment(j).time_added
                /\ \E n \in Residents(memory') :
                       memory'.segments[n] = Segment(j) ]_simVars

(* memory.c:252, 265 and memory.h:44: adjacent holes are concatenated.     *)
HolesAreConcatenated ==
    \A k \in 1 .. Last - 1 : ~({k, k + 1} \subseteq Holes(memory))

(* memory.c:186-188: as long as no process is larger than the memory, the  *)
(* search for a hole ends with a hole.                                     *)
GivesUpOnlyIfTooLarge == aborted => SizeOf(temp) > memory.size
=============================================================================
