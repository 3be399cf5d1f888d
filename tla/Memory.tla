------------------------------- MODULE Memory -------------------------------
(***************************************************************************)
(* The memory of COMP30023/project1 (memory.c) as operators on a record    *)
(*   [segments, num_processes, num_holes, usage, size].                    *)
(* segments is the list of segments, in order of address; a segment is     *)
(*   [process, memory_size, start, end, time_added]                        *)
(* where process and memory_size are what the code looks at in the         *)
(* segment's private copy of the node, and process = HOLE marks a hole.    *)
(*                                                                         *)
(* As in Scheduler, X_Wrong is a slip in X that a property catches.        *)
(***************************************************************************)
EXTENDS Integers, Sequences, FiniteSetsExt

HOLE == 0

IsHole(s) == s.process = HOLE
Holes(m) == {k \in DOMAIN m.segments : IsHole(m.segments[k])}
Residents(m) == DOMAIN m.segments \ Holes(m)
LengthOf(s) == s.end - s.start

memory_init(size) ==
    [segments |-> <<[process |-> HOLE, memory_size |-> 0,
                     start |-> 0, end |-> size, time_added |-> 0]>>,
     num_processes |-> 0, num_holes |-> 1, usage |-> 0, size |-> size]

-----------------------------------------------------------------------------
(* One pass over the list.  A hole absorbs the hole behind it and the pass *)
(* goes on with the segment after both, so in a run of adjacent holes the  *)
(* second, the fourth, ... are absorbed by the one before them.            *)
UsedBefore(segments, k) == Max({0} \cup {j \in 1 .. k - 1 : ~IsHole(segments[j])})
Absorbed(segments) ==
    {k \in DOMAIN segments :
        IsHole(segments[k]) /\ (k - UsedBefore(segments, k)) % 2 = 0}
Joined(segments, k) ==
    IF k + 1 \in Absorbed(segments)
    THEN [segments[k] EXCEPT !.end = segments[k + 1].end] ELSE segments[k]

Rank(S, k) == Cardinality({j \in S : j <= k})
Nth(S, n) == CHOOSE k \in S : Rank(S, k) = n

concat_holes_Wrong(segments) == segments
concat_holes(segments) ==
    LET kept == DOMAIN segments \ Absorbed(segments)
    IN  [n \in 1 .. Cardinality(kept) |-> Joined(segments, Nth(kept, n))]

count_holes(m) == Cardinality(Holes(m))

update_usage(m) ==
    MapThenSumSet(LAMBDA k : m.segments[k].memory_size, Residents(m))

update_memory(m) ==
    LET joined == [m EXCEPT !.segments = concat_holes(m.segments)]
    IN  [joined EXCEPT !.num_holes = count_holes(joined),
                       !.usage = update_usage(joined)]

(* The percentage that the simulation prints, to the nearest integer. *)
get_usage_Wrong(m) == (m.usage * 100) \div m.size
get_usage(m) ==
    LET percentage == m.usage * 100
    IN  percentage \div m.size
            + (IF percentage % m.size > m.size \div 2 THEN 1 ELSE 0)

-----------------------------------------------------------------------------
(* The segment of a process; process identifiers are taken to be unique. *)
find_segment(m, p) == {k \in Residents(m) : m.segments[k].process = p}

free_segment(m, k) ==
    update_memory([m EXCEPT !.segments[k].process = HOLE,
                            !.segments[k].memory_size = 0,
                            !.segments[k].time_added = 0,
                            !.num_processes = @ - 1])

(* The segment swap_out_process chooses: largest, then longest in memory,  *)
(* then first in the list.                                                 *)
Ahead(m, j, k) ==
    LET s == m.segments[j]
        t == m.segments[k]
    IN  \/ s.memory_size > t.memory_size
        \/ s.memory_size = t.memory_size /\ s.time_added < t.time_added
        \/ s.memory_size = t.memory_size /\ s.time_added = t.time_added /\ j < k
Victim_Wrong(m) == Max(Residents(m))
Victim(m) == CHOOSE j \in Residents(m) : \A k \in Residents(m) \ {j} : Ahead(m, j, k)

swap_out_process(m) == free_segment(m, Victim(m))

Fitting(m, size) == {k \in Holes(m) : size <= LengthOf(m.segments[k])}

NextAddress_Wrong(segment) == segment.end
NextAddress(segment) == segment.end + 1

(* Puts p into segment k, the first hole that fits; what is left of the    *)
(* hole begins one address after p's end.                                  *)
Split(segments, k, p, size, time) ==
    LET hole == segments[k]
        used == [process |-> p, memory_size |-> size, start |-> hole.start,
                 end |-> hole.start + size, time_added |-> time]
    IN  SubSeq(segments, 1, k - 1)
            \o (IF hole.end > used.end
                THEN <<used, [hole EXCEPT !.start = NextAddress(used)]>> ELSE <<used>>)
            \o SubSeq(segments, k + 1, Len(segments))

add_to_memory(m, p, size, time) ==
    LET k == Min(Fitting(m, size))
    IN  update_memory([m EXCEPT !.segments = Split(m.segments, k, p, size, time),
                                !.num_processes = @ + 1])
=============================================================================
