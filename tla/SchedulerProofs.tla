--------------------------- MODULE SchedulerProofs ---------------------------
(***************************************************************************)
(* Scheduler's invariants for every set of input files and all slices, and *)
(* its refinements of WorkConserving and WaitingTime.  IInv is the         *)
(* inductive invariant that the others build on; each has a lemma with one *)
(* step per action of the loop.                                            *)
(***************************************************************************)
EXTENDS Scheduler, Counting, SequenceTheorems, FiniteSetTheorems, TLAPS

IInv == TypeOK /\ EveryNodeInOnePlace /\ TempIsOnCpu /\ BooksAreRight

-----------------------------------------------------------------------------
(* Facts about the input and the slices *)

LEMMA ProcessFacts ==
    ASSUME TypeOK
    PROVE  /\ Len(processes) \in Nat
           /\ Procs = 1 .. Len(processes)
           /\ NULL \notin Procs
           /\ \A p \in Procs : /\ processes[p].time_created \in Nat
                               /\ processes[p].job_time \in Nat
                               /\ processes[p].job_time > 0
<1> DEFINE P == [time_created : Nat, memory_size : Nat, job_time : Nat]
<1>1. processes \in Seq(P) /\ \A p \in Procs : processes[p].job_time > 0
  BY WorkloadsAssumption DEF TypeOK, Procs
<1>2. /\ Len(processes) \in Nat
      /\ DOMAIN processes = 1 .. Len(processes)
      /\ processes \in [1 .. Len(processes) -> P]
  BY <1>1, LenProperties, Zenon
<1>3. \A p \in Procs : processes[p] \in P
  BY <1>2 DEF Procs
<1> QED
  BY <1>1, <1>2, <1>3 DEF Procs, NULL

LEMMA LevelFacts ==
    /\ Levels = {0, 1, 2} /\ LEVEL1 \in Levels
    /\ \A l \in Levels : quantums[l] \in Nat /\ quantums[l] > 0
    /\ \A l \in Levels : Demoted(l) \in Levels
<1>1. Levels = {0, 1, 2}
  BY DEF Levels, LEVEL1, LEVEL3
<1>2. {Q1, Q2, Q3} \subseteq Nat \ {0}
  BY QuantumAssumption
<1> QED
  BY <1>1, <1>2 DEF quantums, Demoted, LEVEL1, LEVEL2, LEVEL3

LEMMA QueueFacts ==
    ASSUME TypeOK, NEW l \in Levels
    PROVE  /\ queues[l] \in Seq(Procs)
           /\ Len(queues[l]) \in Nat
           /\ DOMAIN queues[l] = 1 .. Len(queues[l])
           /\ \A k \in 1 .. Len(queues[l]) : queues[l][k] \in Procs
           /\ queues[l] # <<>> => Len(queues[l]) > 0
<1>1. queues[l] \in Seq(Procs)
  BY DEF TypeOK
<1>2. Len(queues[l]) \in Nat /\ DOMAIN queues[l] = 1 .. Len(queues[l])
  BY <1>1, LenProperties
<1>3. \A k \in 1 .. Len(queues[l]) : queues[l][k] \in Procs
  BY <1>1, ElementOfSeq
<1>4. queues[l] # <<>> => Len(queues[l]) > 0
  BY <1>1, EmptySeq, <1>2
<1> QED
  BY <1>1, <1>2, <1>3, <1>4

(* What the two queue operations do to the places of the nodes. *)

LEMMA EnqueueFacts ==
    ASSUME TypeOK, NEW m \in Levels, NEW p \in Procs, fcfs_enqueue(m, p)
    PROVE  /\ queues' \in [Levels -> Seq(Procs)]
           /\ \A l \in Levels : /\ DOMAIN queues'[l] = 1 .. Len(queues'[l])
                                 /\ Len(queues'[l]) \in Nat
                                 /\ l # m => queues'[l] = queues[l]
           /\ Len(queues'[m]) = Len(queues[m]) + 1
           /\ \A k \in 1 .. Len(queues[m]) : queues'[m][k] = queues[m][k]
           /\ queues'[m][Len(queues[m]) + 1] = p
<1>1. queues \in [Levels -> Seq(Procs)]
  BY DEF TypeOK
<1>2. queues'[m] = Append(queues[m], p) /\ \A l \in Levels \ {m} : queues'[l] = queues[l]
  BY <1>1 DEF fcfs_enqueue
<1>3. queues[m] \in Seq(Procs)
  BY <1>1
<1>4. /\ Append(queues[m], p) \in Seq(Procs)
      /\ Len(Append(queues[m], p)) = Len(queues[m]) + 1
      /\ \A k \in 1 .. Len(queues[m]) : Append(queues[m], p)[k] = queues[m][k]
      /\ Append(queues[m], p)[Len(queues[m]) + 1] = p
  BY <1>3, AppendProperties
<1>5. queues' \in [Levels -> Seq(Procs)]
  BY <1>1, <1>4 DEF fcfs_enqueue
<1>6. \A l \in Levels : DOMAIN queues'[l] = 1 .. Len(queues'[l]) /\ Len(queues'[l]) \in Nat
  BY <1>5, LenProperties
<1> QED
  BY <1>2, <1>4, <1>5, <1>6

LEMMA DequeueFacts ==
    ASSUME TypeOK, NEW m \in Levels, queues[m] # <<>>,
           queues' = [queues EXCEPT ![m] = Tail(queues[m])]
    PROVE  /\ queues' \in [Levels -> Seq(Procs)]
           /\ \A l \in Levels : /\ DOMAIN queues'[l] = 1 .. Len(queues'[l])
                                 /\ Len(queues'[l]) \in Nat
                                 /\ l # m => queues'[l] = queues[l]
           /\ Len(queues'[m]) = Len(queues[m]) - 1
           /\ \A k \in 1 .. Len(queues'[m]) : queues'[m][k] = queues[m][k + 1]
           /\ Head(queues[m]) = queues[m][1] /\ Head(queues[m]) \in Procs
<1>1. queues \in [Levels -> Seq(Procs)]
  BY DEF TypeOK
<1>2. queues'[m] = Tail(queues[m]) /\ \A l \in Levels \ {m} : queues'[l] = queues[l]
  BY <1>1
<1>3. queues[m] \in Seq(Procs)
  BY <1>1
<1>4. /\ Head(queues[m]) \in Procs
      /\ Tail(queues[m]) \in Seq(Procs)
      /\ Len(Tail(queues[m])) = Len(queues[m]) - 1
      /\ \A k \in 1 .. Len(Tail(queues[m])) : Tail(queues[m])[k] = queues[m][k + 1]
  BY <1>3, HeadTailProperties
<1>5. queues' \in [Levels -> Seq(Procs)]
  BY <1>1, <1>4
<1>6. \A l \in Levels : DOMAIN queues'[l] = 1 .. Len(queues'[l]) /\ Len(queues'[l]) \in Nat
  BY <1>5, LenProperties
<1>7. Head(queues[m]) = queues[m][1]
  OBVIOUS
<1> QED
  BY <1>2, <1>4, <1>5, <1>6, <1>7

(* A node that is nowhere enters a queue. *)
LEMMA EnqueuePlaces ==
    ASSUME TypeOK, QueuesAreDisjoint,
           NEW m \in Levels, NEW p \in Procs, fcfs_enqueue(m, p), ~Waiting(p),
           cpu' \in {cpu, NULL}, p # cpu',
           level' \in [Procs -> Levels], level'[p] = m,
           \A q \in Procs \ {p} : level'[q] = level[q]
    PROVE  /\ QueuesAreDisjoint'
           /\ \A q : Waiting(q)' <=> Waiting(q) \/ q = p
<1>a. \A l \in Levels : /\ Len(queues[l]) \in Nat
                        /\ DOMAIN queues[l] = 1 .. Len(queues[l])
                        /\ \A k \in 1 .. Len(queues[l]) : queues[l][k] \in Procs
  BY QueueFacts
<1>b. /\ queues' \in [Levels -> Seq(Procs)]
      /\ \A l \in Levels : /\ DOMAIN queues'[l] = 1 .. Len(queues'[l])
                            /\ Len(queues'[l]) \in Nat
                            /\ l # m => queues'[l] = queues[l]
      /\ Len(queues'[m]) = Len(queues[m]) + 1
      /\ \A k \in 1 .. Len(queues[m]) : queues'[m][k] = queues[m][k]
      /\ queues'[m][Len(queues[m]) + 1] = p
  BY EnqueueFacts
<1>1. \A l \in Levels : \A k \in DOMAIN queues'[l] :
        \/ k \in DOMAIN queues[l] /\ queues'[l][k] = queues[l][k]
        \/ l = m /\ k = Len(queues[m]) + 1 /\ queues'[l][k] = p
  <2> TAKE l \in Levels
  <2>1. CASE l # m
    <3>1. queues'[l] = queues[l]
      BY <1>b, <2>1
    <3> QED
      BY <3>1, <2>1
  <2>2. CASE l = m
    <3> SUFFICES ASSUME NEW k \in 1 .. Len(queues[m]) + 1
                 PROVE  \/ k \in DOMAIN queues[m] /\ queues'[m][k] = queues[m][k]
                        \/ k = Len(queues[m]) + 1 /\ queues'[m][k] = p
      BY <1>b, <2>2
    <3>1. k \in 1 .. Len(queues[m]) \/ k = Len(queues[m]) + 1
      BY <1>a
    <3> QED
      BY <1>a, <1>b, <3>1
  <2> QED
    BY <2>1, <2>2
<1>2. \A l \in Levels : \A k \in DOMAIN queues[l] :
        k \in DOMAIN queues'[l] /\ queues'[l][k] = queues[l][k]
  <2> TAKE l \in Levels
  <2>1. CASE l # m
    <3>1. queues'[l] = queues[l]
      BY <1>b, <2>1
    <3> QED
      BY <3>1, <2>1
  <2>2. CASE l = m
    <3> SUFFICES ASSUME NEW k \in DOMAIN queues[m]
                 PROVE  k \in DOMAIN queues'[m] /\ queues'[m][k] = queues[m][k]
      BY <2>2, Zenon
    <3>1. /\ DOMAIN queues[m] = 1 .. Len(queues[m]) /\ Len(queues[m]) \in Nat
          /\ DOMAIN queues'[m] = 1 .. Len(queues'[m])
          /\ Len(queues'[m]) = Len(queues[m]) + 1
      BY <1>a, <1>b
    <3>2. k \in DOMAIN queues'[m]
      BY <3>1
    <3> QED
      BY <3>1, <3>2, <1>b, Zenon
  <2> QED
    BY <2>1, <2>2
<1>3. Len(queues[m]) + 1 \in DOMAIN queues'[m] /\ queues'[m][Len(queues[m]) + 1] = p
  BY <1>a, <1>b
<1>4. \A q : Waiting(q)' <=> Waiting(q) \/ q = p
  BY <1>1, <1>2, <1>3 DEF Waiting
<1>5. \A l \in Levels : \A k \in DOMAIN queues[l] : queues[l][k] # p /\ queues[l][k] \in Procs
  BY <1>a DEF Waiting
<1>6. QueuesAreDisjoint'
  <2> SUFFICES ASSUME NEW l \in Levels, NEW k \in DOMAIN queues'[l]
               PROVE  /\ queues'[l][k] # cpu'
                      /\ level'[queues'[l][k]] = l
                      /\ \A l2 \in Levels : \A k2 \in DOMAIN queues'[l2] :
                            queues'[l2][k2] = queues'[l][k] => l2 = l /\ k2 = k
    BY DEF QueuesAreDisjoint
  <2>1. CASE k \in DOMAIN queues[l] /\ queues'[l][k] = queues[l][k]
    <3>1. queues[l][k] # cpu /\ level[queues[l][k]] = l /\ queues[l][k] \in Procs
      BY <2>1, <1>5 DEF QueuesAreDisjoint
    <3>2. queues'[l][k] # cpu'
      BY <2>1, <3>1, ProcessFacts
    <3>3. level'[queues'[l][k]] = l
      BY <2>1, <3>1, <1>5
    <3>4. ASSUME NEW l2 \in Levels, NEW k2 \in DOMAIN queues'[l2],
                 queues'[l2][k2] = queues'[l][k]
          PROVE  l2 = l /\ k2 = k
      <4>1. k2 \in DOMAIN queues[l2] /\ queues'[l2][k2] = queues[l2][k2]
        BY <1>1, <1>5, <2>1, <3>4
      <4>2. queues[l2][k2] = queues[l][k] /\ k \in DOMAIN queues[l]
        BY <4>1, <2>1, <3>4
      <4> QED
        BY <4>1, <4>2 DEF QueuesAreDisjoint
    <3> QED
      BY <3>2, <3>3, <3>4
  <2>2. CASE l = m /\ k = Len(queues[m]) + 1 /\ queues'[l][k] = p
    <3>1. queues'[l][k] # cpu' /\ level'[queues'[l][k]] = l
      BY <2>2
    <3>2. ASSUME NEW l2 \in Levels, NEW k2 \in DOMAIN queues'[l2],
                 queues'[l2][k2] = p
          PROVE  l2 = m /\ k2 = Len(queues[m]) + 1
      BY <1>1, <1>5, <3>2
    <3> QED
      BY <2>2, <3>1, <3>2
  <2> QED
    BY <1>1, <2>1, <2>2
<1> QED
  BY <1>4, <1>6

(* The head of a queue leaves for the processor. *)
LEMMA DequeuePlaces ==
    ASSUME TypeOK, QueuesAreDisjoint, NEW m \in Levels, queues[m] # <<>>,
           queues' = [queues EXCEPT ![m] = Tail(queues[m])],
           cpu' = Head(queues[m]), level' = level
    PROVE  /\ QueuesAreDisjoint'
           /\ Waiting(Head(queues[m]))
           /\ \A q : Waiting(q)' <=> Waiting(q) /\ q # Head(queues[m])
<1>a. \A l \in Levels : /\ Len(queues[l]) \in Nat
                        /\ DOMAIN queues[l] = 1 .. Len(queues[l])
                        /\ \A k \in 1 .. Len(queues[l]) : queues[l][k] \in Procs
                        /\ queues[l] # <<>> => Len(queues[l]) > 0
  BY QueueFacts
<1>b. /\ \A l \in Levels : /\ DOMAIN queues'[l] = 1 .. Len(queues'[l])
                            /\ l # m => queues'[l] = queues[l]
      /\ Len(queues'[m]) = Len(queues[m]) - 1
      /\ \A k \in 1 .. Len(queues'[m]) : queues'[m][k] = queues[m][k + 1]
      /\ Head(queues[m]) = queues[m][1]
  BY DequeueFacts
<1>1. \A l \in Levels : \A k \in DOMAIN queues'[l] :
        \/ l # m /\ k \in DOMAIN queues[l] /\ queues'[l][k] = queues[l][k]
        \/ l = m /\ k + 1 \in DOMAIN queues[l] /\ queues'[l][k] = queues[l][k + 1]
           /\ k \in Nat \ {0}
  <2> TAKE l \in Levels
  <2>1. CASE l # m
    <3>1. queues'[l] = queues[l]
      BY <1>b, <2>1
    <3> QED
      BY <3>1, <2>1
  <2>2. CASE l = m
    BY <1>a, <1>b, <2>2
  <2> QED
    BY <2>1, <2>2
<1>2. \A l \in Levels : \A k \in DOMAIN queues[l] :
        \/ l # m /\ k \in DOMAIN queues'[l] /\ queues'[l][k] = queues[l][k]
        \/ l = m /\ k = 1
        \/ l = m /\ k - 1 \in DOMAIN queues'[l] /\ queues'[l][k - 1] = queues[l][k]
  <2> TAKE l \in Levels
  <2>1. CASE l # m
    <3>1. queues'[l] = queues[l]
      BY <1>b, <2>1
    <3> QED
      BY <3>1, <2>1
  <2>2. CASE l = m
    <3> SUFFICES ASSUME NEW k \in 1 .. Len(queues[m]), k # 1
                 PROVE  k - 1 \in DOMAIN queues'[m] /\ queues'[m][k - 1] = queues[m][k]
      BY <1>a, <2>2
    <3>1. k - 1 \in 1 .. Len(queues'[m]) /\ (k - 1) + 1 = k
      BY <1>a, <1>b
    <3> QED
      BY <1>b, <3>1
  <2> QED
    BY <2>1, <2>2
<1>3. 1 \in DOMAIN queues[m] /\ queues[m][1] = Head(queues[m])
  BY <1>a, <1>b
<1>c. \A l \in Levels : \A k \in DOMAIN queues[l] :
        queues[l][k] = Head(queues[m]) => l = m /\ k = 1
  <2>1. \A l \in Levels : \A k \in DOMAIN queues[l] :
          queues[l][k] = queues[m][1] => l = m /\ k = 1
    BY <1>3 DEF QueuesAreDisjoint
  <2> QED
    BY <2>1, <1>3
<1>4. \A l \in Levels : \A k \in DOMAIN queues'[l] : queues'[l][k] # Head(queues[m])
  BY <1>1, <1>c
<1>5. \A q : Waiting(q)' => Waiting(q) /\ q # Head(queues[m])
  BY <1>1, <1>4 DEF Waiting
<1>6. \A q : Waiting(q) /\ q # Head(queues[m]) => Waiting(q)'
  <2> SUFFICES ASSUME NEW l \in Levels, NEW k \in DOMAIN queues[l],
                      queues[l][k] # Head(queues[m])
               PROVE  \E l2 \in Levels : \E k2 \in DOMAIN queues'[l2] :
                         queues'[l2][k2] = queues[l][k]
    BY DEF Waiting
  <2>1. \/ k \in DOMAIN queues'[l] /\ queues'[l][k] = queues[l][k]
        \/ k - 1 \in DOMAIN queues'[l] /\ queues'[l][k - 1] = queues[l][k]
    BY <1>2, <1>3
  <2> QED
    BY <2>1
<1>7. QueuesAreDisjoint'
  <2> SUFFICES ASSUME NEW l \in Levels, NEW k \in DOMAIN queues'[l]
               PROVE  /\ queues'[l][k] # cpu'
                      /\ level'[queues'[l][k]] = l
                      /\ \A l2 \in Levels : \A k2 \in DOMAIN queues'[l2] :
                            queues'[l2][k2] = queues'[l][k] => l2 = l /\ k2 = k
    BY DEF QueuesAreDisjoint
  <2>1. CASE l # m /\ k \in DOMAIN queues[l] /\ queues'[l][k] = queues[l][k]
    <3>1. queues'[l][k] # cpu' /\ level'[queues'[l][k]] = l
      BY <2>1, <1>4 DEF QueuesAreDisjoint
    <3>2. ASSUME NEW l2 \in Levels, NEW k2 \in DOMAIN queues'[l2],
                 queues'[l2][k2] = queues'[l][k]
          PROVE  l2 = l /\ k2 = k
      <4>1. CASE l2 # m /\ k2 \in DOMAIN queues[l2] /\ queues'[l2][k2] = queues[l2][k2]
        BY <4>1, <2>1, <3>2 DEF QueuesAreDisjoint
      <4>2. CASE l2 = m /\ k2 + 1 \in DOMAIN queues[l2] /\ queues'[l2][k2] = queues[l2][k2 + 1]
        BY <4>2, <2>1, <3>2 DEF QueuesAreDisjoint
      <4> QED
        BY <1>1, <4>1, <4>2
    <3> QED
      BY <3>1, <3>2
  <2>2. CASE l = m /\ k + 1 \in DOMAIN queues[l] /\ queues'[l][k] = queues[l][k + 1]
             /\ k \in Nat \ {0}
    <3>1. queues'[l][k] # cpu' /\ level'[queues'[l][k]] = l
      BY <2>2, <1>4 DEF QueuesAreDisjoint
    <3>2. ASSUME NEW l2 \in Levels, NEW k2 \in DOMAIN queues'[l2],
                 queues'[l2][k2] = queues'[l][k]
          PROVE  l2 = l /\ k2 = k
      <4>1. CASE l2 # m /\ k2 \in DOMAIN queues[l2] /\ queues'[l2][k2] = queues[l2][k2]
        BY <4>1, <2>2, <3>2 DEF QueuesAreDisjoint
      <4>2. CASE l2 = m /\ k2 + 1 \in DOMAIN queues[l2] /\ queues'[l2][k2] = queues[l2][k2 + 1]
                 /\ k2 \in Nat \ {0}
        <5>1. k2 + 1 = k + 1
          BY <4>2, <2>2, <3>2 DEF QueuesAreDisjoint
        <5> QED
          BY <5>1, <4>2, <2>2
      <4> QED
        BY <1>1, <4>1, <4>2
    <3> QED
      BY <3>1, <3>2
  <2> QED
    BY <1>1, <2>1, <2>2
<1> QED
  BY <1>3, <1>5, <1>6, <1>7 DEF Waiting
-----------------------------------------------------------------------------
(* The set of finished processes *)

FinishedProcs == {p \in Procs : Finished(p)}

LEMMA CountFacts ==
    ASSUME TypeOK
    PROVE  /\ IsFiniteSet(FinishedProcs)
           /\ Cardinality(FinishedProcs) \in Nat
           /\ Cardinality(FinishedProcs) <= Len(processes)
           /\ FinishedProcs = Procs => Cardinality(FinishedProcs) = Len(processes)
<1>1. IsFiniteSet(Procs) /\ Cardinality(Procs) = Len(processes)
  <2>1. Len(processes) \in Nat /\ Procs = 1 .. Len(processes)
    BY ProcessFacts
  <2>2. /\ IsFiniteSet(1 .. Len(processes))
        /\ Cardinality(1 .. Len(processes)) =
               IF 1 > Len(processes) THEN 0 ELSE Len(processes) - 1 + 1
    BY <2>1, FS_Interval
  <2> QED
    BY <2>1, <2>2
<1>2. FinishedProcs \in SUBSET Procs
  BY DEF FinishedProcs
<1>3. IsFiniteSet(FinishedProcs) /\ Cardinality(FinishedProcs) <= Cardinality(Procs)
  BY <1>1, <1>2, FS_Subset
<1> QED
  BY <1>1, <1>3, FS_CardinalityType

-----------------------------------------------------------------------------
(* The inductive invariant *)

LEMMA InitInv == Init => IInv
<1> SUFFICES ASSUME Init PROVE IInv
  OBVIOUS
<1> USE DEF Init
<1>1. \A l \in Levels : queues[l] = <<>> /\ DOMAIN queues[l] = {}
  OBVIOUS
<1>2. TypeOK
  BY LevelFacts, EmptySeq DEF TypeOK, FCFS, MULTI
<1>3. \A p \in Procs : remaining[p] = -1 /\ processes[p].time_created \in Nat
                     /\ processes[p].job_time > 0 /\ processes[p].job_time \in Nat
  BY <1>2, ProcessFacts DEF NoNode
<1>4. EveryNodeInOnePlace
  BY <1>1, <1>3, <1>2, ProcessFacts
     DEF EveryNodeInOnePlace, LiveIsPlaced, QueuesAreDisjoint, Live, Waiting
<1>5. BooksAreRight
  <2>1. \A p \in Procs : (remaining[p] # NoNode <=> Admitted(p))
                       /\ remaining[p] <= processes[p].job_time
    BY <1>3 DEF Admitted, NoNode
  <2>2. process_count = Cardinality(FinishedProcs)
    <3>1. FinishedProcs = {}
      BY <1>3 DEF FinishedProcs, Finished
    <3> QED
      BY <3>1, FS_EmptySet
  <2> QED
    BY <2>1, <2>2 DEF BooksAreRight, NULL, FinishedProcs
<1> QED
  BY <1>2, <1>4, <1>5 DEF IInv, TempIsOnCpu
(* What the invariant says of the node on the processor. *)
LEMMA CpuFacts ==
    ASSUME IInv, phase = "run", temp # NULL
    PROVE  /\ temp \in Procs /\ cpu = temp /\ NULL \notin Procs
           /\ remaining[temp] \in Nat /\ remaining[temp] > 0
           /\ quantum \in Nat /\ quantum > 0
           /\ algorithm = FCFS => quantum = remaining[temp]
           /\ ~Waiting(temp)
           /\ Admitted(temp)
<1> USE DEF IInv
<1>1. temp \in Procs /\ cpu = temp /\ NULL \notin Procs
  BY ProcessFacts DEF TypeOK, TempIsOnCpu
<1>2. remaining[temp] \in Nat /\ remaining[temp] > 0
  BY <1>1 DEF TypeOK, EveryNodeInOnePlace, LiveIsPlaced, Live, NoNode
<1>3. ~Waiting(temp)
  BY <1>1 DEF Waiting, EveryNodeInOnePlace, QueuesAreDisjoint
<1>4. quantum \in Nat /\ quantum > 0 /\ (algorithm = FCFS => quantum = remaining[temp])
  BY <1>1 DEF TypeOK, BooksAreRight
<1>5. Admitted(temp)
  BY <1>1, <1>2 DEF BooksAreRight, NoNode
<1> QED
  BY <1>1, <1>2, <1>3, <1>4, <1>5

LEMMA LoopTestInv == ASSUME IInv, LoopTest PROVE IInv'
<1> USE DEF IInv, LoopTest, input, clock, nodes, onCpu
<1>1. /\ \A p \in Procs : p \in Nat /\ p >= 1
      /\ Len(processes) \in Nat /\ Procs = 1 .. Len(processes)
      /\ NULL \notin Procs
  BY ProcessFacts
<1>2. TypeOK'
  BY DEF TypeOK, Procs
<1>3. EveryNodeInOnePlace'
  BY DEF EveryNodeInOnePlace, LiveIsPlaced, QueuesAreDisjoint, Live, Waiting, Procs
<1>4. \A p \in Procs : Admitted(p)' <=> Admitted(p)
  BY <1>1 DEF Admitted
<1>5. phase' = "admit" => i' \in Procs
  <2>1. CASE cpu # NULL
    BY <1>1, <2>1 DEF TypeOK
  <2>2. CASE process_count < Len(processes)
    BY <1>1, <2>2 DEF TypeOK
  <2> QED
    BY <2>1, <2>2
<1>6. BooksAreRight'
  BY <1>4, <1>5 DEF BooksAreRight, Procs, Finished
<1> QED
  BY <1>2, <1>3, <1>6 DEF TempIsOnCpu

LEMMA AdmitInv == ASSUME IInv, Admit PROVE IInv'
<1> USE DEF IInv
<1> DEFINE N == Len(processes)
<1>1. /\ N \in Nat /\ Procs = 1 .. N /\ NULL \notin Procs
      /\ \A p \in Procs : /\ processes[p].time_created \in Nat
                          /\ processes[p].job_time \in Nat
                          /\ processes[p].job_time > 0
  BY ProcessFacts
<1>2. /\ i \in Procs /\ i' = i + 1
      /\ phase = "admit" /\ phase' = IF i = N THEN "dispatch" ELSE "admit"
      /\ UNCHANGED <<input, clock, onCpu>>
  BY DEF Admit, BooksAreRight
<1>a. /\ processes' = processes /\ algorithm' = algorithm /\ Procs' = Procs
      /\ time' = time /\ process_count' = process_count
      /\ total_wait_time' = total_wait_time
      /\ temp' = temp /\ cpu' = cpu /\ quantum' = quantum
      /\ i' \in Nat /\ phase' \in {"admit", "dispatch"}
      /\ phase' = "admit" => i' \in Procs
  BY <1>1, <1>2 DEF input, clock, onCpu, Procs
<1>3. \A p \in Procs : Admitted(p)' <=>
            Admitted(p) \/ (p = i /\ CreatedNow(i))
  BY <1>1, <1>2 DEF Admitted, CreatedNow, input, clock
<1>4. CASE CreatedNow(i)
  <2>1. /\ fcfs_enqueue(LEVEL1, i)
        /\ remaining' = [remaining EXCEPT ![i] = processes[i].job_time]
        /\ level' = [level EXCEPT ![i] = LEVEL1]
    BY <1>4 DEF Admit, fcfs_add_process
  <2>2. ~Admitted(i)
    BY <1>1, <1>2, <1>4 DEF Admitted, CreatedNow, TypeOK
  <2>3. remaining[i] = NoNode
    BY <2>2, <1>2 DEF BooksAreRight
  <2>4. ~Live(i) /\ ~Waiting(i) /\ i # cpu
    BY <2>3, <1>2 DEF Live, NoNode, EveryNodeInOnePlace, LiveIsPlaced
  <2>5. queues' \in [Levels -> Seq(Procs)]
    BY <2>1, <1>2, EnqueueFacts, LevelFacts
  <2>6. /\ level' \in [Procs -> Levels] /\ level'[i] = LEVEL1
        /\ \A q \in Procs \ {i} : level'[q] = level[q]
    BY <2>1, <1>2, LevelFacts DEF TypeOK
  <2>7. /\ remaining' \in [Procs -> Nat \cup {NoNode}]
        /\ remaining'[i] = processes[i].job_time
        /\ \A q \in Procs \ {i} : remaining'[q] = remaining[q]
    BY <2>1, <1>1, <1>2 DEF TypeOK
  <2>8. TypeOK'
    BY <1>a, <2>5, <2>6, <2>7 DEF TypeOK
  <2>9. QueuesAreDisjoint' /\ \A q : Waiting(q)' <=> Waiting(q) \/ q = i
    <3>1. cpu' \in {cpu, NULL} /\ i # cpu'
      BY <1>2, <2>4 DEF onCpu
    <3> QED
      BY <1>2, <2>1, <2>4, <2>6, <3>1, LevelFacts, EnqueuePlaces
         DEF EveryNodeInOnePlace
  <2>10. LiveIsPlaced'
    <3>1. \A p \in Procs : Live(p)' <=> Live(p) \/ p = i
      BY <1>1, <1>2, <2>7 DEF Live
    <3> QED
      BY <3>1, <2>9, <1>2 DEF EveryNodeInOnePlace, LiveIsPlaced, input, onCpu, Procs
  <2>11. FinishedProcs' = FinishedProcs
    BY <1>1, <1>2, <2>3, <2>7 DEF FinishedProcs, Finished, NoNode, input, Procs
  <2>12. \A p \in Procs : /\ remaining'[p] # NoNode <=> Admitted(p)'
                         /\ remaining'[p] <= processes[p].job_time
    BY <1>1, <1>3, <1>4, <2>3, <2>7 DEF BooksAreRight, NoNode
  <2>13. cpu # NULL => remaining'[cpu] = remaining[cpu]
    BY <2>4, <2>7 DEF TypeOK
  <2>14. BooksAreRight'
    BY <1>a, <1>2, <2>11, <2>12, <2>13 DEF BooksAreRight, FinishedProcs
  <2> QED
    BY <2>8, <2>9, <2>10, <2>14, <1>2 DEF EveryNodeInOnePlace, TempIsOnCpu
<1>5. CASE ~CreatedNow(i)
  <2>1. UNCHANGED <<queues, nodes>>
    BY <1>5 DEF Admit
  <2>2. TypeOK'
    BY <1>a, <2>1 DEF TypeOK, nodes
  <2>3. EveryNodeInOnePlace'
    BY <1>2, <2>1 DEF EveryNodeInOnePlace, LiveIsPlaced, QueuesAreDisjoint, Live,
                      Waiting, input, onCpu, nodes, Procs
  <2>4. BooksAreRight'
    BY <1>1, <1>2, <1>3, <1>5, <2>1
       DEF BooksAreRight, Finished, input, clock, onCpu, nodes, Procs
  <2> QED
    BY <2>2, <2>3, <2>4, <1>2 DEF TempIsOnCpu
<1> QED
  BY <1>4, <1>5
(* The step into "run" admits nobody: the admission loop is over. *)
LEMMA AdmittedAtDispatch ==
    ASSUME phase = "dispatch", phase' = "run", UNCHANGED <<processes, time>>,
           NEW p
    PROVE  Admitted(p)' <=> Admitted(p)
BY DEF Admitted

LEMMA DispatchInv == ASSUME IInv, Dispatch PROVE IInv'
<1> USE DEF IInv
<1>1. /\ NULL \notin Procs /\ Len(processes) \in Nat
      /\ phase = "dispatch" /\ phase' = "run" /\ cpu = NULL /\ cpu' = temp'
      /\ processes' = processes /\ algorithm' = algorithm /\ Procs' = Procs
      /\ i' = i /\ time' = time /\ process_count' = process_count
      /\ total_wait_time' = total_wait_time
      /\ remaining' = remaining /\ level' = level
      /\ quantum' = Slice(temp')
  BY ProcessFacts DEF Dispatch, input, clock, nodes, Procs
<1>2. PICK l \in Levels : /\ queues[l] # <<>>
                         /\ temp' = Head(queues[l])
                         /\ queues' = [queues EXCEPT ![l] = Tail(queues[l])]
  BY DEF Dispatch, FirstNonEmpty
<1>3. queues' \in [Levels -> Seq(Procs)] /\ temp' \in Procs
  BY <1>2, DequeueFacts
<1>4. /\ QueuesAreDisjoint'
      /\ Waiting(temp')
      /\ \A q : Waiting(q)' <=> Waiting(q) /\ q # temp'
  <2>1. cpu' = Head(queues[l])
    BY <1>1, <1>2
  <2>2. /\ QueuesAreDisjoint'
        /\ Waiting(Head(queues[l]))
        /\ \A q : Waiting(q)' <=> Waiting(q) /\ q # Head(queues[l])
    BY <1>1, <1>2, <2>1, DequeuePlaces DEF EveryNodeInOnePlace
  <2> QED
    BY <2>2, <1>2
<1>5. remaining[temp'] \in Nat /\ remaining[temp'] > 0
  BY <1>3, <1>4 DEF TypeOK, EveryNodeInOnePlace, LiveIsPlaced, Live, NoNode
<1>6. /\ quantum' \in Nat /\ quantum' > 0
      /\ algorithm = FCFS => quantum' = remaining[temp']
  BY <1>1, <1>3, <1>5, LevelFacts DEF Slice, TypeOK
<1>7. TypeOK'
  BY <1>1, <1>3, <1>6 DEF TypeOK
<1>8. LiveIsPlaced'
  <2> SUFFICES ASSUME NEW p \in Procs
               PROVE  (remaining[p] > 0) <=> (Waiting(p)' \/ temp' = p)
    BY <1>1 DEF LiveIsPlaced, Live
  <2> QED
    BY <1>1, <1>4 DEF EveryNodeInOnePlace, LiveIsPlaced, Live
<1>9. BooksAreRight'
  <2>1. \A p \in Procs : Admitted(p)' <=> Admitted(p)
    BY <1>1, AdmittedAtDispatch
  <2> QED
    BY <1>1, <1>3, <1>6, <2>1 DEF BooksAreRight, Finished
<1> QED
  BY <1>1, <1>4, <1>7, <1>8, <1>9 DEF EveryNodeInOnePlace, TempIsOnCpu

LEMMA NothingReadyInv == ASSUME IInv, NothingReady PROVE IInv'
<1> USE DEF IInv, NothingReady, input, clock, nodes
<1>1. Procs' = Procs
  BY DEF Procs
<1>2. \A p \in Procs : Admitted(p)' <=> Admitted(p)
  BY AdmittedAtDispatch
<1>3. TypeOK'
  BY <1>1 DEF TypeOK
<1>4. EveryNodeInOnePlace'
  BY <1>1 DEF EveryNodeInOnePlace, LiveIsPlaced, QueuesAreDisjoint, Live, Waiting
<1>5. BooksAreRight'
  BY <1>1, <1>2 DEF BooksAreRight, Finished
<1> QED
  BY <1>3, <1>4, <1>5 DEF TempIsOnCpu

LEMMA KeepRunningInv == ASSUME IInv, KeepRunning PROVE IInv'
<1> USE DEF IInv, KeepRunning, input, clock, nodes, onCpu
<1>1. Procs' = Procs
  BY DEF Procs
<1>2. \A p \in Procs : Admitted(p)' <=> Admitted(p)
  BY AdmittedAtDispatch
<1>3. TypeOK'
  BY <1>1 DEF TypeOK
<1>4. EveryNodeInOnePlace'
  BY <1>1 DEF EveryNodeInOnePlace, LiveIsPlaced, QueuesAreDisjoint, Live, Waiting
<1>5. BooksAreRight'
  BY <1>1, <1>2 DEF BooksAreRight, Finished
<1> QED
  BY <1>3, <1>4, <1>5 DEF TempIsOnCpu, BooksAreRight

(* At the end of a pass the clock has moved on: who was admitted at the    *)
(* old time was created before the new one.                                *)
LEMMA AdmittedAtTick ==
    ASSUME TypeOK, phase = "run", phase' = "loop", processes' = processes,
           time' = time + 1, NEW p \in Procs
    PROVE  Admitted(p)' <=> Admitted(p)
<1>1. processes[p].time_created \in Nat /\ time \in Nat
  BY ProcessFacts DEF TypeOK
<1> QED
  BY <1>1 DEF Admitted

LEMMA IdleInv == ASSUME IInv, Idle PROVE IInv'
<1> USE DEF IInv, Idle, input, nodes, onCpu
<1>1. Procs' = Procs
  BY DEF Procs
<1>2. \A p \in Procs : Admitted(p)' <=> Admitted(p)
  BY AdmittedAtTick
<1>3. TypeOK'
  BY <1>1 DEF TypeOK
<1>4. EveryNodeInOnePlace'
  BY <1>1 DEF EveryNodeInOnePlace, LiveIsPlaced, QueuesAreDisjoint, Live, Waiting
<1>5. BooksAreRight'
  BY <1>1, <1>2 DEF BooksAreRight, Finished
<1> QED
  BY <1>3, <1>4, <1>5 DEF TempIsOnCpu

(* What every tick of the processor does to the node on it. *)
LEMMA ConsumeFacts ==
    ASSUME IInv, Consume, UNCHANGED input
    PROVE  /\ processes' = processes /\ algorithm' = algorithm /\ Procs' = Procs
           /\ phase = "run" /\ temp # NULL /\ phase' = "loop"
           /\ time' = time + 1 /\ time' \in Nat
           /\ remaining' \in [Procs -> Nat \cup {NoNode}]
           /\ remaining'[temp] = remaining[temp] - 1
           /\ \A q \in Procs \ {temp} : remaining'[q] = remaining[q]
           /\ quantum' = quantum - 1 /\ quantum' \in Nat
           /\ \A p \in Procs : Admitted(p)' <=> Admitted(p)
           /\ \A p \in Procs : /\ remaining'[p] # NoNode <=> Admitted(p)'
                               /\ remaining'[p] <= processes[p].job_time
<1>1. /\ processes' = processes /\ algorithm' = algorithm /\ Procs' = Procs
      /\ phase = "run" /\ temp # NULL /\ phase' = "loop"
      /\ time' = time + 1 /\ quantum' = quantum - 1
      /\ remaining' = [remaining EXCEPT ![temp] = remaining[temp] - 1]
  BY DEF Consume, input, Procs
<1>2. /\ temp \in Procs /\ remaining[temp] \in Nat /\ remaining[temp] > 0
      /\ quantum \in Nat /\ quantum > 0 /\ Admitted(temp)
  BY <1>1, CpuFacts
<1>3. /\ remaining' \in [Procs -> Nat \cup {NoNode}]
      /\ remaining'[temp] = remaining[temp] - 1
      /\ \A q \in Procs \ {temp} : remaining'[q] = remaining[q]
  BY <1>1, <1>2 DEF IInv, TypeOK
<1>4. time' \in Nat /\ quantum' \in Nat
  BY <1>1, <1>2 DEF IInv, TypeOK
<1>5. \A p \in Procs : Admitted(p)' <=> Admitted(p)
  BY <1>1, AdmittedAtTick DEF IInv
<1>6. ASSUME NEW p \in Procs
      PROVE  /\ remaining'[p] # NoNode <=> Admitted(p)'
             /\ remaining'[p] <= processes[p].job_time
  <2>1. processes[p].job_time \in Nat
    BY ProcessFacts DEF IInv
  <2>2. /\ remaining[p] # NoNode <=> Admitted(p)
        /\ remaining[p] <= processes[p].job_time
    BY DEF IInv, BooksAreRight
  <2> QED
    BY <1>2, <1>3, <1>5, <2>1, <2>2 DEF NoNode
<1> QED
  BY <1>1, <1>3, <1>4, <1>5, <1>6
LEMMA ExecuteInv == ASSUME IInv, Execute PROVE IInv'
<1>1. /\ Consume /\ UNCHANGED input /\ remaining[temp] # 1 /\ quantum # 1
      /\ i' = i /\ process_count' = process_count /\ total_wait_time' = total_wait_time
      /\ queues' = queues /\ level' = level /\ temp' = temp /\ cpu' = cpu
  BY DEF Execute
<1>2. /\ processes' = processes /\ algorithm' = algorithm /\ Procs' = Procs
      /\ phase = "run" /\ temp # NULL /\ phase' = "loop" /\ time' \in Nat
      /\ remaining' \in [Procs -> Nat \cup {NoNode}]
      /\ remaining'[temp] = remaining[temp] - 1
      /\ \A q \in Procs \ {temp} : remaining'[q] = remaining[q]
      /\ quantum' = quantum - 1 /\ quantum' \in Nat
      /\ \A p \in Procs : /\ remaining'[p] # NoNode <=> Admitted(p)'
                          /\ remaining'[p] <= processes[p].job_time
  BY <1>1, ConsumeFacts
<1>3. /\ temp \in Procs /\ cpu = temp /\ NULL \notin Procs
      /\ remaining[temp] \in Nat /\ remaining[temp] > 1
      /\ quantum \in Nat /\ quantum > 1
      /\ algorithm = FCFS => quantum = remaining[temp]
  BY <1>1, <1>2, CpuFacts
<1>4. TypeOK'
  BY <1>1, <1>2 DEF IInv, TypeOK
<1>5. \A p \in Procs : Live(p)' <=> Live(p)
  BY <1>2, <1>3 DEF Live
<1>6. EveryNodeInOnePlace'
  BY <1>1, <1>2, <1>5
     DEF IInv, EveryNodeInOnePlace, LiveIsPlaced, QueuesAreDisjoint, Waiting
<1>7. FinishedProcs' = FinishedProcs
  BY <1>2, <1>3 DEF FinishedProcs, Finished
<1>8. BooksAreRight'
  <2>1. process_count' = Cardinality({p \in Procs : Finished(p)}')
    BY <1>1, <1>7 DEF IInv, BooksAreRight, FinishedProcs
  <2>2. quantum' > 0 /\ (algorithm = FCFS => quantum' = remaining'[temp])
    BY <1>2, <1>3
  <2> QED
    BY <1>1, <1>2, <1>3, <2>1, <2>2 DEF BooksAreRight
<1> QED
  BY <1>1, <1>2, <1>4, <1>6, <1>8 DEF IInv, TempIsOnCpu

LEMMA FinishInv == ASSUME IInv, Finish PROVE IInv'
<1>1. /\ Consume /\ UNCHANGED input /\ remaining[temp] = 1
      /\ i' = i /\ process_count' = process_count + 1
      /\ total_wait_time' = total_wait_time + WaitOf(temp)
      /\ queues' = queues /\ level' = level /\ temp' = temp /\ cpu' = NULL
  BY DEF Finish
<1>2. /\ processes' = processes /\ algorithm' = algorithm /\ Procs' = Procs
      /\ phase = "run" /\ temp # NULL /\ phase' = "loop" /\ time' \in Nat
      /\ remaining' \in [Procs -> Nat \cup {NoNode}]
      /\ remaining'[temp] = remaining[temp] - 1
      /\ \A q \in Procs \ {temp} : remaining'[q] = remaining[q]
      /\ quantum' = quantum - 1 /\ quantum' \in Nat
      /\ \A p \in Procs : /\ remaining'[p] # NoNode <=> Admitted(p)'
                          /\ remaining'[p] <= processes[p].job_time
  BY <1>1, ConsumeFacts
<1>3. /\ temp \in Procs /\ cpu = temp /\ NULL \notin Procs /\ ~Waiting(temp)
  BY <1>1, <1>2, CpuFacts
<1>4. total_wait_time' \in Int /\ process_count' \in Nat
  <2>1. /\ processes[temp].time_created \in Nat
        /\ processes[temp].job_time \in Nat
    BY <1>3, ProcessFacts DEF IInv
  <2>2. time \in Nat /\ total_wait_time \in Int /\ process_count \in Nat
    BY DEF IInv, TypeOK
  <2>3. WaitOf(temp) \in Int
    BY <2>1, <2>2 DEF WaitOf
  <2> QED
    BY <1>1, <2>2, <2>3
<1>5. TypeOK'
  BY <1>1, <1>2, <1>4 DEF IInv, TypeOK
<1>6. \A p \in Procs : Live(p)' <=> Live(p) /\ p # temp
  BY <1>1, <1>2, <1>3 DEF Live
<1>7. LiveIsPlaced'
  <2> SUFFICES ASSUME NEW p \in Procs
               PROVE  Live(p) /\ p # temp <=> Waiting(p) \/ NULL = p
    BY <1>1, <1>2, <1>6 DEF LiveIsPlaced, Waiting
  <2> QED
    BY <1>3 DEF IInv, EveryNodeInOnePlace, LiveIsPlaced
<1>8. QueuesAreDisjoint'
  <2>1. \A l \in Levels : \A k \in DOMAIN queues[l] : queues[l][k] # NULL
    BY <1>3, QueueFacts DEF IInv
  <2> QED
    BY <1>1, <2>1 DEF IInv, EveryNodeInOnePlace, QueuesAreDisjoint
<1>9. process_count' = Cardinality(FinishedProcs')
  <2>1. FinishedProcs' = FinishedProcs \cup {temp} /\ temp \notin FinishedProcs
    BY <1>1, <1>2, <1>3 DEF FinishedProcs, Finished
  <2>2. IsFiniteSet(FinishedProcs) /\ process_count = Cardinality(FinishedProcs)
    BY CountFacts DEF IInv, BooksAreRight, FinishedProcs
  <2> QED
    BY <1>1, <2>1, <2>2, FS_AddElement
<1>10. BooksAreRight'
  <2>1. process_count' = Cardinality({p \in Procs : Finished(p)}')
    BY <1>9 DEF FinishedProcs
  <2> QED
    BY <1>1, <1>2, <2>1 DEF BooksAreRight
<1> QED
  BY <1>2, <1>5, <1>7, <1>8, <1>10 DEF IInv, EveryNodeInOnePlace, TempIsOnCpu

LEMMA PreemptInv == ASSUME IInv, Preempt PROVE IInv'
<1>1. /\ Consume /\ UNCHANGED input /\ remaining[temp] # 1 /\ quantum = 1
      /\ i' = i /\ process_count' = process_count /\ total_wait_time' = total_wait_time
      /\ temp' = temp /\ cpu' = NULL
  BY DEF Preempt
<1>2. /\ processes' = processes /\ algorithm' = algorithm /\ Procs' = Procs
      /\ phase = "run" /\ temp # NULL /\ phase' = "loop" /\ time' \in Nat
      /\ remaining' \in [Procs -> Nat \cup {NoNode}]
      /\ remaining'[temp] = remaining[temp] - 1
      /\ \A q \in Procs \ {temp} : remaining'[q] = remaining[q]
      /\ quantum' = quantum - 1 /\ quantum' \in Nat
      /\ \A p \in Procs : /\ remaining'[p] # NoNode <=> Admitted(p)'
                          /\ remaining'[p] <= processes[p].job_time
  BY <1>1, ConsumeFacts
<1>3. /\ temp \in Procs /\ cpu = temp /\ NULL \notin Procs
      /\ remaining[temp] \in Nat /\ remaining[temp] > 1
      /\ algorithm # FCFS /\ ~Waiting(temp)
  BY <1>1, <1>2, CpuFacts
<1>4. multi_enqueue(temp)
  BY <1>3 DEF Preempt
<1> DEFINE m == Demoted(level[temp])
<1>5. /\ m \in Levels /\ fcfs_enqueue(m, temp)
      /\ level' \in [Procs -> Levels] /\ level'[temp] = m
      /\ \A q \in Procs \ {temp} : level'[q] = level[q]
  BY <1>3, <1>4, LevelFacts DEF IInv, TypeOK, multi_enqueue
<1>6. queues' \in [Levels -> Seq(Procs)]
  <2> HIDE DEF m
  <2> QED
    BY <1>3, <1>5, EnqueueFacts DEF IInv
<1>7. QueuesAreDisjoint' /\ \A q : Waiting(q)' <=> Waiting(q) \/ q = temp
  <2>1. cpu' \in {cpu, NULL} /\ temp # cpu'
    BY <1>1, <1>3
  <2> HIDE DEF m
  <2> QED
    BY <1>3, <1>5, <2>1, EnqueuePlaces DEF IInv, EveryNodeInOnePlace
<1>8. TypeOK'
  BY <1>1, <1>2, <1>5, <1>6 DEF IInv, TypeOK
<1>9. \A p \in Procs : Live(p)' <=> Live(p)
  BY <1>2, <1>3 DEF Live
<1>10. LiveIsPlaced'
  <2> SUFFICES ASSUME NEW p \in Procs
               PROVE  Live(p) <=> Waiting(p)' \/ NULL = p
    BY <1>1, <1>2, <1>9 DEF LiveIsPlaced
  <2> QED
    BY <1>3, <1>7 DEF IInv, EveryNodeInOnePlace, LiveIsPlaced
<1>11. FinishedProcs' = FinishedProcs
  BY <1>2, <1>3 DEF FinishedProcs, Finished
<1>12. BooksAreRight'
  BY <1>1, <1>2, <1>11 DEF IInv, BooksAreRight, FinishedProcs
<1> QED
  BY <1>2, <1>7, <1>8, <1>10, <1>12 DEF IInv, EveryNodeInOnePlace, TempIsOnCpu

LEMMA StepInv == IInv /\ [Next]_vars => IInv'
<1> SUFFICES ASSUME IInv, [Next]_vars PROVE IInv'
  OBVIOUS
<1>1. CASE LoopTest
  BY <1>1, LoopTestInv
<1>2. CASE Admit
  BY <1>2, AdmitInv
<1>3. CASE Dispatch
  BY <1>3, DispatchInv
<1>4. CASE NothingReady
  BY <1>4, NothingReadyInv
<1>5. CASE KeepRunning
  BY <1>5, KeepRunningInv
<1>6. CASE Idle
  BY <1>6, IdleInv
<1>7. CASE Execute
  BY <1>7, ExecuteInv
<1>8. CASE Finish
  BY <1>8, FinishInv
<1>9. CASE Preempt
  BY <1>9, PreemptInv
<1>10. CASE UNCHANGED vars
  BY <1>10 DEF vars, input, clock, nodes, onCpu, IInv, TypeOK, EveryNodeInOnePlace,
        LiveIsPlaced, QueuesAreDisjoint, Live, Waiting, TempIsOnCpu, BooksAreRight,
        Admitted, Finished, Procs
<1> QED
  BY <1>1, <1>2, <1>3, <1>4, <1>5, <1>6, <1>7, <1>8, <1>9, <1>10 DEF Next, Run

-----------------------------------------------------------------------------
(* Theorems *)

(* The conjunction of the loop's invariants holds in every run of the      *)
(* program: main.c, fcfs.c and multi.c keep it for any input file.         *)
THEOREM Invariance == Spec => []IInv
<1>1. Init => IInv
  BY InitInv
<1>2. IInv /\ [Next]_vars => IInv'
  BY StepInv
<1> QED
  BY <1>1, <1>2, PTL DEF Spec

(* Every variable of the loop keeps its type; in particular the slice and  *)
(* the remaining job time are never decremented below 0 (main.c:143-144).  *)
THEOREM TypeCorrect == Spec => []TypeOK
<1>1. IInv => TypeOK
  BY DEF IInv
<1> QED
  BY <1>1, Invariance, PTL

(* No node is lost, duplicated, queued at the wrong level or used after it *)
(* has been freed, through any sequence of admissions and preemptions.     *)
THEOREM NodesAreInOnePlace == Spec => []EveryNodeInOnePlace
<1>1. IInv => EveryNodeInOnePlace
  BY DEF IInv
<1> QED
  BY <1>1, Invariance, PTL

(* temp and cpu agree whenever the loop charges a tick (main.c:142).       *)
THEOREM TempIsCurrent == Spec => []TempIsOnCpu
<1>1. IInv => TempIsOnCpu
  BY DEF IInv
<1> QED
  BY <1>1, Invariance, PTL

(* The loop's books are right: admissions, process_count and the slice.    *)
THEOREM Books == Spec => []BooksAreRight
<1>1. IInv => BooksAreRight
  BY DEF IInv
<1> QED
  BY <1>1, Invariance, PTL
-----------------------------------------------------------------------------
(* Under fcfs a process that got the CPU keeps it until its job is done,   *)
(* as report.txt:9-12 says: the slice is all that remains of the job, so   *)
(* the preemption of main.c:151 cannot happen.                             *)
THEOREM NonPreemptiveFcfs == Spec => RunsToCompletion
<1> DEFINE A == algorithm = FCFS /\ cpu # NULL /\ cpu' # cpu => remaining'[cpu] = 0
<1>1. ASSUME IInv, [Next]_vars
      PROVE  [A]_vars
  <2>1. CASE LoopTest \/ Admit \/ NothingReady \/ KeepRunning \/ Idle \/ Execute
    BY <2>1 DEF LoopTest, Admit, NothingReady, KeepRunning, Idle, Execute, onCpu
  <2>2. CASE Dispatch
    BY <2>2 DEF Dispatch
  <2>3. CASE Finish
    <3>1. cpu = temp /\ remaining[temp] = 1
      BY <2>3, <1>1, CpuFacts DEF Finish, Consume
    <3>2. remaining'[temp] = remaining[temp] - 1
      BY <2>3, <1>1, ConsumeFacts DEF Finish
    <3> QED
      BY <3>1, <3>2
  <2>4. CASE Preempt
    <3>1. algorithm = FCFS => quantum = remaining[temp]
      BY <2>4, <1>1, CpuFacts DEF Preempt, Consume
    <3> QED
      BY <2>4, <3>1 DEF Preempt
  <2> QED
    BY <1>1, <2>1, <2>2, <2>3, <2>4 DEF Next, Run
<1> QED
  BY <1>1, Invariance, PTL DEF Spec, RunsToCompletion

-----------------------------------------------------------------------------
(* Completion order under fcfs: the queue is sorted by Before, the process *)
(* on the CPU precedes all that wait, and the finished ones precede all    *)
(* others, including those that have not been created yet.                 *)
OrderInv ==
    algorithm = FCFS =>
        /\ \A l \in Levels : l # LEVEL1 => queues[l] = <<>>
        /\ \A j, k \in DOMAIN queues[LEVEL1] :
               j < k => Before(queues[LEVEL1][j], queues[LEVEL1][k])
        /\ cpu # NULL => \A k \in DOMAIN queues[LEVEL1] : Before(cpu, queues[LEVEL1][k])
        /\ \A p, q \in Procs : Finished(p) /\ ~Finished(q) => Before(p, q)

LEMMA BeforeAdmitted ==
    ASSUME IInv, NEW p \in Procs, NEW q \in Procs, Admitted(p), ~Admitted(q)
    PROVE  phase \in {"run", "dispatch"} \/ (phase = "admit" /\ q = i) => Before(p, q)
<1>1. /\ processes[p].time_created \in Nat /\ processes[q].time_created \in Nat
      /\ p \in Nat /\ q \in Nat /\ time \in Nat /\ i \in Nat
  BY ProcessFacts DEF IInv, TypeOK
<1> QED
  BY <1>1 DEF Admitted, Before

LEMMA WaitingIsAdmitted ==
    ASSUME IInv, NEW p \in Procs, Waiting(p) \/ cpu = p
    PROVE  Admitted(p) /\ Live(p)
<1>1. Live(p)
  BY DEF IInv, EveryNodeInOnePlace, LiveIsPlaced
<1>2. remaining[p] # NoNode
  BY <1>1 DEF Live, NoNode
<1> QED
  BY <1>1, <1>2 DEF IInv, BooksAreRight

LEMMA OrderAdmit == ASSUME IInv, OrderInv, Admit PROVE OrderInv'
<1> SUFFICES ASSUME algorithm' = FCFS
             PROVE  OrderInv'
  BY DEF OrderInv
<1>1. /\ phase = "admit" /\ i \in Procs /\ cpu' = cpu /\ algorithm = FCFS
      /\ processes' = processes /\ Procs' = Procs
  BY DEF Admit, IInv, BooksAreRight, input, onCpu, Procs
<1>2. \A p, q : Before(p, q)' <=> Before(p, q)
  BY <1>1 DEF Before
<1>3. CASE ~CreatedNow(i)
  <2>1. queues' = queues /\ remaining' = remaining
    BY <1>3 DEF Admit, nodes
  <2> QED
    BY <1>1, <1>2, <2>1 DEF OrderInv, Finished
<1>4. CASE CreatedNow(i)
  <2>1. fcfs_enqueue(LEVEL1, i) /\ remaining' = [remaining EXCEPT ![i] = processes[i].job_time]
    BY <1>4 DEF Admit, fcfs_add_process
  <2> DEFINE Q == queues[LEVEL1]
             QQ == queues'[LEVEL1]
             n == Len(queues[LEVEL1])
  <2>2. /\ n \in Nat /\ DOMAIN Q = 1 .. n
        /\ \A k \in 1 .. n : Q[k] \in Procs
    BY LevelFacts, QueueFacts DEF IInv
  <2>3. /\ DOMAIN QQ = 1 .. n + 1
        /\ \A k \in 1 .. n : QQ[k] = Q[k]
        /\ QQ[n + 1] = i
        /\ \A l \in Levels : l # LEVEL1 => queues'[l] = queues[l]
    <3>1. /\ queues' \in [Levels -> Seq(Procs)]
          /\ \A l \in Levels : /\ DOMAIN queues'[l] = 1 .. Len(queues'[l])
                                /\ Len(queues'[l]) \in Nat
                                /\ l # LEVEL1 => queues'[l] = queues[l]
          /\ Len(queues'[LEVEL1]) = Len(queues[LEVEL1]) + 1
          /\ \A k \in 1 .. Len(queues[LEVEL1]) : queues'[LEVEL1][k] = queues[LEVEL1][k]
          /\ queues'[LEVEL1][Len(queues[LEVEL1]) + 1] = i
      BY <1>1, <2>1, LevelFacts, EnqueueFacts DEF IInv
    <3> QED
      BY <3>1, LevelFacts
  <2>4. ~Admitted(i)
    BY <1>1, <1>4, ProcessFacts DEF IInv, TypeOK, Admitted, CreatedNow
  <2>5. \A k \in 1 .. n : Before(Q[k], i)
    <3> SUFFICES ASSUME NEW k \in 1 .. n PROVE Before(Q[k], i)
      OBVIOUS
    <3>1. Q[k] \in Procs /\ Waiting(Q[k])
      BY <2>2, LevelFacts DEF Waiting
    <3>2. Admitted(Q[k])
      BY <3>1, WaitingIsAdmitted
    <3> QED
      BY <1>1, <2>4, <3>1, <3>2, BeforeAdmitted
  <2>6. cpu # NULL => Before(cpu, i)
    <3> SUFFICES ASSUME cpu # NULL PROVE Before(cpu, i)
      OBVIOUS
    <3>1. cpu \in Procs
      BY DEF IInv, TypeOK
    <3> QED
      BY <1>1, <2>4, <3>1, WaitingIsAdmitted, BeforeAdmitted
  <2>7. \A p \in Procs : Finished(p)' <=> Finished(p)
    <3>1. remaining[i] = NoNode
      BY <1>1, <2>4 DEF IInv, BooksAreRight
    <3>2. processes[i].job_time > 0 /\ processes[i].job_time \in Nat
      BY <1>1, ProcessFacts DEF IInv
    <3> QED
      BY <1>1, <2>1, <3>1, <3>2 DEF Finished, NoNode, IInv, TypeOK
  <2>8. \A j, k \in DOMAIN QQ : j < k => Before(QQ[j], QQ[k])
    <3> SUFFICES ASSUME NEW j \in 1 .. n + 1, NEW k \in 1 .. n + 1, j < k
                 PROVE  Before(QQ[j], QQ[k])
      BY <2>3
    <3>1. j \in 1 .. n /\ (k \in 1 .. n \/ k = n + 1)
      BY <2>2
    <3> QED
      BY <1>1, <2>2, <2>3, <2>5, <3>1 DEF OrderInv
  <2>9. cpu # NULL => \A k \in DOMAIN QQ : Before(cpu, QQ[k])
    <3> SUFFICES ASSUME cpu # NULL, NEW k \in 1 .. n + 1
                 PROVE  Before(cpu, QQ[k])
      BY <2>3
    <3>1. k \in 1 .. n \/ k = n + 1
      BY <2>2
    <3> QED
      BY <1>1, <2>2, <2>3, <2>6, <3>1 DEF OrderInv
  <2> QED
    BY <1>1, <1>2, <2>3, <2>7, <2>8, <2>9 DEF OrderInv
<1> QED
  BY <1>3, <1>4

LEMMA OrderDispatch == ASSUME IInv, OrderInv, Dispatch PROVE OrderInv'
<1> SUFFICES ASSUME algorithm' = FCFS
             PROVE  OrderInv'
  BY DEF OrderInv
<1>1. /\ cpu' = temp' /\ algorithm = FCFS /\ remaining' = remaining
      /\ processes' = processes /\ Procs' = Procs
  BY DEF Dispatch, input, nodes, Procs
<1>2. \A p, q : Before(p, q)' <=> Before(p, q)
  BY <1>1 DEF Before
<1>3. /\ queues[LEVEL1] # <<>> /\ temp' = Head(queues[LEVEL1])
      /\ queues' = [queues EXCEPT ![LEVEL1] = Tail(queues[LEVEL1])]
  BY <1>1 DEF Dispatch, FirstNonEmpty, OrderInv
<1> DEFINE Q == queues[LEVEL1]
           QQ == queues'[LEVEL1]
           n == Len(queues[LEVEL1])
<1>4. n \in Nat /\ DOMAIN Q = 1 .. n /\ n > 0
  BY <1>3, LevelFacts, QueueFacts DEF IInv
<1>5. /\ DOMAIN QQ = 1 .. n - 1
      /\ \A k \in 1 .. n - 1 : QQ[k] = Q[k + 1]
      /\ \A l \in Levels : l # LEVEL1 => queues'[l] = queues[l]
      /\ temp' = Q[1]
  <2>1. /\ queues' \in [Levels -> Seq(Procs)]
        /\ \A l \in Levels : /\ DOMAIN queues'[l] = 1 .. Len(queues'[l])
                              /\ Len(queues'[l]) \in Nat
                              /\ l # LEVEL1 => queues'[l] = queues[l]
        /\ Len(queues'[LEVEL1]) = Len(queues[LEVEL1]) - 1
        /\ \A k \in 1 .. Len(queues'[LEVEL1]) : queues'[LEVEL1][k] = queues[LEVEL1][k + 1]
        /\ Head(queues[LEVEL1]) = queues[LEVEL1][1] /\ Head(queues[LEVEL1]) \in Procs
    BY <1>3, LevelFacts, DequeueFacts DEF IInv
  <2> QED
    BY <1>3, <2>1, LevelFacts
<1>6. \A j, k \in 1 .. n : j < k => Before(Q[j], Q[k])
  BY <1>1, <1>4 DEF OrderInv
<1>7. \A j, k \in DOMAIN QQ : j < k => Before(QQ[j], QQ[k])
  <2> SUFFICES ASSUME NEW j \in 1 .. n - 1, NEW k \in 1 .. n - 1, j < k
               PROVE  Before(QQ[j], QQ[k])
    BY <1>5
  <2>1. j + 1 \in 1 .. n /\ k + 1 \in 1 .. n /\ j + 1 < k + 1
    BY <1>4
  <2> QED
    BY <1>5, <1>6, <2>1
<1>8. \A k \in DOMAIN QQ : Before(temp', QQ[k])
  <2> SUFFICES ASSUME NEW k \in 1 .. n - 1
               PROVE  Before(temp', QQ[k])
    BY <1>5
  <2>1. 1 \in 1 .. n /\ k + 1 \in 1 .. n /\ 1 < k + 1
    BY <1>4
  <2> QED
    BY <1>5, <1>6, <2>1
<1> QED
  BY <1>1, <1>2, <1>5, <1>7, <1>8 DEF OrderInv, Finished

LEMMA OrderFinish == ASSUME IInv, OrderInv, Finish PROVE OrderInv'
<1> SUFFICES ASSUME algorithm' = FCFS
             PROVE  OrderInv'
  BY DEF OrderInv
<1>1. /\ Consume /\ UNCHANGED input /\ remaining[temp] = 1
      /\ queues' = queues /\ cpu' = NULL
  BY DEF Finish
<1>2. /\ processes' = processes /\ Procs' = Procs /\ algorithm = FCFS
      /\ phase = "run" /\ temp # NULL
      /\ remaining'[temp] = remaining[temp] - 1
      /\ \A q \in Procs \ {temp} : remaining'[q] = remaining[q]
  BY <1>1, ConsumeFacts DEF input
<1>3. temp \in Procs /\ cpu = temp /\ NULL \notin Procs /\ Admitted(temp)
  BY <1>2, CpuFacts
<1>4. \A p, q : Before(p, q)' <=> Before(p, q)
  BY <1>2 DEF Before
<1>5. \A p \in Procs : Finished(p)' <=> Finished(p) \/ p = temp
  BY <1>1, <1>2, <1>3 DEF Finished
<1>6. ASSUME NEW q \in Procs, ~Finished(q), q # temp
      PROVE  Before(temp, q)
  <2>1. CASE remaining[q] = NoNode
    <3>1. ~Admitted(q)
      BY <2>1 DEF IInv, BooksAreRight
    <3> QED
      BY <1>2, <1>3, <3>1, BeforeAdmitted
  <2>2. CASE remaining[q] # NoNode
    <3>1. Live(q)
      BY <1>6, <2>2 DEF Live, Finished, NoNode, IInv, TypeOK
    <3>2. Waiting(q)
      BY <3>1, <1>3, <1>6 DEF IInv, EveryNodeInOnePlace, LiveIsPlaced
    <3>3. PICK l \in Levels : \E k \in DOMAIN queues[l] : queues[l][k] = q
      BY <3>2 DEF Waiting
    <3>4. DOMAIN <<>> = {}
      OBVIOUS
    <3>5. l = LEVEL1
      BY <3>3, <3>4, <1>2 DEF OrderInv
    <3> QED
      BY <3>3, <3>5, <1>2, <1>3 DEF OrderInv
  <2> QED
    BY <2>1, <2>2
<1>7. \A p, q \in Procs : Finished(p)' /\ ~Finished(q)' => Before(p, q)
  BY <1>2, <1>5, <1>6 DEF OrderInv
<1> QED
  BY <1>1, <1>2, <1>4, <1>7 DEF OrderInv

LEMMA StepOrder == IInv /\ OrderInv /\ [Next]_vars => OrderInv'
<1> SUFFICES ASSUME IInv, OrderInv, [Next]_vars PROVE OrderInv'
  OBVIOUS
<1>1. CASE Admit
  BY <1>1, OrderAdmit
<1>2. CASE Dispatch
  BY <1>2, OrderDispatch
<1>3. CASE Finish
  BY <1>3, OrderFinish
<1>4. CASE LoopTest \/ NothingReady \/ KeepRunning \/ Idle
  BY <1>4 DEF LoopTest, NothingReady, KeepRunning, Idle, input, nodes, onCpu,
              OrderInv, Finished, Before, Procs
<1>5. CASE Execute
  <2>1. /\ Consume /\ UNCHANGED input /\ remaining[temp] # 1
        /\ queues' = queues /\ cpu' = cpu
    BY <1>5 DEF Execute
  <2>2. /\ processes' = processes /\ Procs' = Procs /\ algorithm' = algorithm
        /\ phase = "run" /\ temp # NULL
        /\ remaining'[temp] = remaining[temp] - 1
        /\ \A q \in Procs \ {temp} : remaining'[q] = remaining[q]
    BY <2>1, ConsumeFacts
  <2>3. temp \in Procs /\ remaining[temp] \in Nat /\ remaining[temp] > 0
    BY <2>2, CpuFacts
  <2>4. \A p \in Procs : Finished(p)' <=> Finished(p)
    BY <2>1, <2>2, <2>3 DEF Finished
  <2> QED
    BY <2>1, <2>2, <2>4 DEF OrderInv, Before
<1>6. CASE Preempt
  <2>1. algorithm # FCFS
    BY <1>6, CpuFacts DEF Preempt, Consume
  <2> QED
    BY <1>6, <2>1 DEF Preempt, input, OrderInv
<1>7. CASE UNCHANGED vars
  BY <1>7 DEF vars, input, nodes, onCpu, OrderInv, Finished, Before, Procs
<1> QED
  BY <1>1, <1>2, <1>3, <1>4, <1>5, <1>6, <1>7 DEF Next, Run

(* Under fcfs the processes of any input file complete in the order of     *)
(* their creation times, and in file order where these are equal.          *)
THEOREM FcfsCompletionOrder == Spec => []CompletionOrder
<1>1. Init => OrderInv
  <2> SUFFICES ASSUME Init PROVE OrderInv
    OBVIOUS
  <2>1. \A l \in Levels : queues[l] = <<>>
    BY DEF Init
  <2>2. \A p \in Procs : ~Finished(p)
    BY DEF Init, Finished, NoNode
  <2>3. LEVEL1 \in Levels /\ DOMAIN <<>> = {}
    BY LevelFacts
  <2> QED
    BY <2>1, <2>2, <2>3 DEF OrderInv
<1>2. IInv /\ OrderInv => CompletionOrder
  <2> SUFFICES ASSUME IInv, OrderInv, algorithm = FCFS,
                      NEW p \in Procs, NEW q \in Procs, Finished(q), Before(p, q),
                      ~Finished(p)
               PROVE  FALSE
    BY DEF CompletionOrder
  <2>1. Before(q, p)
    BY DEF OrderInv
  <2>2. /\ processes[p].time_created \in Nat /\ processes[q].time_created \in Nat
        /\ p \in Nat /\ q \in Nat
    BY ProcessFacts DEF IInv
  <2> QED
    BY <2>1, <2>2 DEF Before
<1> QED
  BY <1>1, <1>2, StepOrder, Invariance, PTL DEF Spec
-----------------------------------------------------------------------------
(* Refinement of WorkConserving *)

LeftBar == [p \in Procs |-> IF remaining[p] = NoNode
                            THEN processes[p].job_time ELSE remaining[p]]

LEMMA LeftFacts ==
    ASSUME IInv, NEW p \in Procs
    PROVE  /\ remaining[p] = NoNode => LeftBar[p] = processes[p].job_time /\ LeftBar[p] > 0
           /\ remaining[p] # NoNode => LeftBar[p] = remaining[p]
           /\ Live(p) => LeftBar[p] > 0
           /\ LeftBar[p] \in Nat
           /\ LeftBar[p] = 0 <=> Finished(p)
<1>1. processes[p].job_time \in Nat /\ processes[p].job_time > 0
  BY ProcessFacts DEF IInv
<1>2. remaining[p] \in Nat \cup {NoNode}
  BY DEF IInv, TypeOK
<1> QED
  BY <1>1, <1>2 DEF LeftBar, Live, Finished, NoNode

(* A process has been admitted by the end of the pass of its creation time *)
(* and not before.                                                         *)
LEMMA PresentAtRun ==
    ASSUME IInv, phase = "run", NEW p \in Procs
    PROVE  /\ Admitted(p) <=> processes[p].time_created <= time
           /\ Live(p) <=> processes[p].time_created <= time /\ LeftBar[p] > 0
<1>1. processes[p].time_created \in Nat /\ time \in Nat
  BY ProcessFacts DEF IInv, TypeOK
<1>2. Admitted(p) <=> processes[p].time_created <= time
  BY <1>1 DEF Admitted
<1>3. remaining[p] # NoNode <=> Admitted(p)
  BY DEF IInv, BooksAreRight
<1>4. remaining[p] \in Nat \cup {NoNode}
  BY DEF IInv, TypeOK
<1> QED
  BY <1>2, <1>3, <1>4, LeftFacts DEF Live, NoNode

LEMMA TickServes ==
    ASSUME IInv, Consume, UNCHANGED input
    PROVE  /\ temp \in Procs
           /\ processes[temp].time_created <= time /\ LeftBar[temp] > 0
           /\ LeftBar' = [LeftBar EXCEPT ![temp] = LeftBar[temp] - 1]
           /\ time' = time + 1 /\ processes' = processes
<1>1. /\ processes' = processes /\ Procs' = Procs
      /\ phase = "run" /\ temp # NULL /\ time' = time + 1
      /\ remaining'[temp] = remaining[temp] - 1
      /\ \A q \in Procs \ {temp} : remaining'[q] = remaining[q]
  BY ConsumeFacts
<1>2. /\ temp \in Procs /\ cpu = temp
      /\ remaining[temp] \in Nat /\ remaining[temp] > 0 /\ Admitted(temp)
  BY <1>1, CpuFacts
<1>3. processes[temp].time_created <= time /\ LeftBar[temp] = remaining[temp]
  BY <1>1, <1>2, PresentAtRun, LeftFacts DEF NoNode
<1>4. LeftBar' = [LeftBar EXCEPT ![temp] = LeftBar[temp] - 1]
  <2>1. LeftBar' = [p \in Procs |-> IF remaining'[p] = NoNode
                                    THEN processes[p].job_time ELSE remaining'[p]]
    BY <1>1 DEF LeftBar
  <2>2. remaining'[temp] # NoNode
    BY <1>1, <1>2 DEF NoNode
  <2>3. \A p \in Procs : LeftBar'[p] = IF p = temp THEN LeftBar[temp] - 1 ELSE LeftBar[p]
    BY <1>1, <1>3, <2>1, <2>2 DEF LeftBar
  <2> QED
    BY <2>1, <2>3 DEF LeftBar
<1> QED
  BY <1>1, <1>2, <1>3, <1>4

LEMMA AdmitIsUnseen == ASSUME IInv, Admit PROVE UNCHANGED <<processes, time, LeftBar>>
<1>1. UNCHANGED <<processes, time>> /\ Procs' = Procs /\ i \in Procs /\ phase = "admit"
  BY DEF Admit, input, clock, IInv, BooksAreRight, Procs
<1>2. CASE ~CreatedNow(i)
  BY <1>1, <1>2 DEF Admit, nodes, LeftBar
<1>3. CASE CreatedNow(i)
  <2>1. remaining' = [remaining EXCEPT ![i] = processes[i].job_time]
    BY <1>3 DEF Admit, fcfs_add_process
  <2>2. ~Admitted(i)
    BY <1>1, <1>3, ProcessFacts DEF Admitted, CreatedNow, IInv, TypeOK
  <2>3. remaining[i] = NoNode
    BY <1>1, <2>2 DEF IInv, BooksAreRight
  <2>4. \A p \in Procs : (IF remaining'[p] = NoNode THEN processes[p].job_time
                                                   ELSE remaining'[p]) = LeftBar[p]
    BY <1>1, <2>1, <2>3 DEF LeftBar, IInv, TypeOK
  <2>5. LeftBar' = [p \in Procs |-> IF remaining'[p] = NoNode
                                    THEN processes[p].job_time ELSE remaining'[p]]
    BY <1>1 DEF LeftBar
  <2>6. LeftBar' = LeftBar
    BY <2>4, <2>5 DEF LeftBar
  <2> QED
    BY <1>1, <2>6
<1> QED
  BY <1>2, <1>3

LEMMA IdleWastesNothing ==
    ASSUME IInv, Idle
    PROVE  Abstract!WCIdle /\ \A p \in Procs : ~Live(p)
<1>1. /\ phase = "run" /\ cpu = NULL /\ temp = NULL /\ time' = time + 1
      /\ processes' = processes /\ LeftBar' = LeftBar
  BY DEF Idle, input, nodes, LeftBar, Procs, IInv, TempIsOnCpu
<1>2. \A l \in Levels : queues[l] = <<>>
  BY <1>1 DEF IInv, BooksAreRight
<1>3. \A p \in Procs : ~Live(p)
  <2>1. \A p : ~Waiting(p)
    BY <1>2 DEF Waiting
  <2> QED
    BY <1>1, <2>1, ProcessFacts DEF IInv, EveryNodeInOnePlace, LiveIsPlaced
<1>4. \A p \in Procs : ~(processes[p].time_created <= time /\ LeftBar[p] > 0)
  BY <1>1, <1>3, PresentAtRun
<1>5. \E p \in Procs : LeftBar[p] > 0
  <2>1. process_count < Len(processes) /\ process_count = Cardinality(FinishedProcs)
    BY <1>1 DEF IInv, BooksAreRight, FinishedProcs
  <2>2. FinishedProcs # Procs
    BY <2>1, CountFacts DEF IInv
  <2>3. PICK p \in Procs : ~Finished(p)
    BY <2>2 DEF FinishedProcs
  <2>4. LeftBar[p] \in Nat /\ LeftBar[p] # 0
    BY <2>3, LeftFacts
  <2> QED
    BY <2>4
<1> QED
  BY <1>1, <1>3, <1>4, <1>5 DEF Abstract!WCIdle, Abstract!Present, LeftBar, Procs

LEMMA RefinesStep ==
    ASSUME IInv, [Next]_vars
    PROVE  [Abstract!WCNext]_<<processes, time, LeftBar>>
<1>1. CASE LoopTest \/ Dispatch \/ NothingReady \/ KeepRunning
  <2>1. UNCHANGED <<processes, time, remaining>>
    BY <1>1 DEF LoopTest, Dispatch, NothingReady, KeepRunning, input, clock, nodes
  <2> QED
    BY <2>1 DEF LeftBar, Procs
<1>2. CASE Admit
  BY <1>2, AdmitIsUnseen
<1>3. CASE Idle
  BY <1>3, IdleWastesNothing DEF Abstract!WCNext
<1>4. CASE Execute \/ Finish \/ Preempt
  <2>1. Consume /\ UNCHANGED input
    BY <1>4 DEF Execute, Finish, Preempt
  <2>2. /\ temp \in Procs
        /\ processes[temp].time_created <= time /\ LeftBar[temp] > 0
        /\ LeftBar' = [LeftBar EXCEPT ![temp] = LeftBar[temp] - 1]
        /\ time' = time + 1 /\ processes' = processes
    BY <2>1, TickServes
  <2>3. \A p \in DOMAIN processes : p = temp => Abstract!WCServe(p)
    BY <2>2 DEF Abstract!WCServe, Abstract!Present, LeftBar, Procs
  <2>4. \E p \in DOMAIN processes : Abstract!WCServe(p)
    BY <2>2, <2>3 DEF Procs
  <2> QED
    BY <2>4 DEF Abstract!WCNext
<1>5. CASE UNCHANGED vars
  BY <1>5 DEF vars, input, clock, nodes, LeftBar, Procs
<1> QED
  BY <1>1, <1>2, <1>3, <1>4, <1>5 DEF Next, Run

(* The loop of main.c, under either algorithm, implements a processor that *)
(* serves one created process in every tick and idles only when no created *)
(* process needs it: the time the simulation takes is decided by the input *)
(* file alone.                                                             *)
THEOREM WorkConservation == Spec => ImplementsWorkConserving
<1>1. Init => Abstract!WCInit
  <2> SUFFICES ASSUME Init PROVE Abstract!WCInit
    OBVIOUS
  <2>1. \A p \in Procs : remaining[p] = NoNode
    BY DEF Init
  <2> QED
    BY <2>1 DEF Init, Abstract!WCInit, Procs
<1>2. IInv /\ [Next]_vars => [Abstract!WCNext]_(Abstract!wcVars)
  BY RefinesStep DEF Abstract!wcVars, LeftBar
<1> QED
  BY <1>1, <1>2, Invariance, PTL DEF Spec, ImplementsWorkConserving, Abstract!WCSpec
-----------------------------------------------------------------------------
(* Refinement of WaitingTime *)

Living == {p \in Procs : Live(p)}
WaitSoFar == [p \in Procs |-> Unreported(p)]
WaitedBar == total_wait_time + MapThenSumSet(Unreported, {p \in Procs : Live(p)})
AddsWaits(g) ==
    g = [s \in SUBSET Living |-> IF s = {} THEN 0 ELSE Unreported(Pick(s)) + g[s \ {Pick(s)}]]

LEMMA LivingIsFinite == TypeOK => IsFiniteSet(Living)
<1> SUFFICES ASSUME TypeOK PROVE IsFiniteSet(Living)
  OBVIOUS
<1>1. Procs = 1 .. Len(processes) /\ IsFiniteSet(1 .. Len(processes))
  BY ProcessFacts, FS_Interval
<1> QED
  BY <1>1, FS_Subset DEF Living

LEMMA WaitedIsSum == TypeOK => WaitedBar = total_wait_time + Sum(WaitSoFar, Living)
<1> SUFFICES ASSUME TypeOK
             PROVE  MapThenSumSet(Unreported, Living) = Sum(WaitSoFar, Living)
  BY DEF WaitedBar, Living
<1>1. MapThenSumSet(Unreported, Living) = (CHOOSE g : AddsWaits(g))[Living]
  BY DEF MapThenSumSet, MapThenFoldSet, AddsWaits, Pick
<1>2. IsFiniteSet(Living)
  BY LivingIsFinite
<1>3. ASSUME NEW g PROVE AddsWaits(g) <=> Adds(WaitSoFar, Living, g)
  <2>1. \A s \in SUBSET Living : s # {} => WaitSoFar[Pick(s)] = Unreported(Pick(s))
    BY PickIsIn DEF Living, WaitSoFar
  <2> QED
    BY <2>1 DEF AddsWaits, Adds
<1>4. PICK g : Adds(WaitSoFar, Living, g) /\ MapThenSumSet(Unreported, Living) = g[Living]
  BY <1>1, <1>2, <1>3, AddsExists
<1>5. PICK h : Adds(WaitSoFar, Living, h) /\ Sum(WaitSoFar, Living) = h[Living]
  BY <1>2, AddsExists, SumIsChosen
<1> QED
  BY <1>2, <1>4, <1>5, AddsUnique

(* What everybody has waited is an integer, for the sums.                  *)
LEMMA WaitsAreInt == ASSUME TypeOK PROVE \A p \in Living : WaitSoFar[p] \in Int
<1> SUFFICES ASSUME NEW p \in Living PROVE WaitSoFar[p] \in Int
  OBVIOUS
<1>1. /\ p \in Procs /\ remaining[p] \in Nat \cup {NoNode}
      /\ processes[p].time_created \in Nat /\ processes[p].job_time \in Nat /\ time \in Nat
  BY ProcessFacts DEF TypeOK, Living
<1>2. remaining[p] \in Int
  BY <1>1 DEF NoNode
<1> QED
  BY <1>1, <1>2 DEF WaitSoFar, Unreported

(* A tick makes everybody who is alive wait, but for the one that it serves. *)
LEMMA TickMakesWait ==
    ASSUME IInv, IInv', Consume, UNCHANGED input, NEW rest, rest = Living \ {temp}
    PROVE  /\ temp \in Living /\ WaitSoFar[temp] \in Int /\ Sum(WaitSoFar, rest) \in Int
           /\ Cardinality(Living) \in Nat
           /\ Sum(WaitSoFar, Living) = WaitSoFar[temp] + Sum(WaitSoFar, rest)
           /\ Sum(WaitSoFar', rest) = Sum(WaitSoFar, rest) + Cardinality(Living) - 1
           /\ Sum(WaitSoFar', Living) = WaitSoFar[temp] + Sum(WaitSoFar', rest)
<1>1. /\ processes' = processes /\ Procs' = Procs /\ time' = time + 1 /\ time \in Nat
      /\ remaining'[temp] = remaining[temp] - 1
      /\ \A q \in Procs \ {temp} : remaining'[q] = remaining[q]
      /\ TypeOK /\ TypeOK'
  BY ConsumeFacts DEF IInv, TypeOK
<1>2. temp \in Procs /\ remaining[temp] \in Nat /\ remaining[temp] > 0
  BY <1>1, ConsumeFacts, CpuFacts
<1>3. IsFiniteSet(Living) /\ IsFiniteSet(rest) /\ temp \in Living
  BY <1>1, <1>2, LivingIsFinite, FS_Subset DEF Living, Live
<1>4. /\ Cardinality(Living) \in Nat
      /\ Cardinality(rest) = Cardinality(Living) - 1
  BY <1>3, FS_CardinalityType, FS_RemoveElement
<1>5. \A p \in Living : WaitSoFar[p] \in Int
  BY <1>1, WaitsAreInt
<1>6. ASSUME NEW p \in Living PROVE WaitSoFar'[p] = WaitSoFar[p] + IF p = temp THEN 0 ELSE 1
  <2>1. /\ p \in Procs /\ remaining[p] \in Nat
        /\ processes[p].time_created \in Nat /\ processes[p].job_time \in Nat
    <3>1. p \in Procs /\ remaining[p] > 0
      BY DEF Living, Live
    <3>2. remaining[p] \in Nat \cup {NoNode}
      BY <1>1, <3>1 DEF TypeOK
    <3> QED
      BY <1>1, <3>1, <3>2, ProcessFacts DEF NoNode
  <2>2. /\ WaitSoFar[p] = time - processes[p].time_created - (processes[p].job_time - remaining[p])
        /\ WaitSoFar'[p] = time' - processes[p].time_created
                              - (processes[p].job_time - remaining'[p])
    BY <1>1, <2>1 DEF WaitSoFar, Unreported
  <2>3. remaining'[p] = IF p = temp THEN remaining[p] - 1 ELSE remaining[p]
    BY <1>1, <2>1
  <2> QED
    BY <1>1, <2>1, <2>2, <2>3
<1>7. Sum(WaitSoFar', rest) = Sum(WaitSoFar, rest) + Cardinality(rest)
  <2>1. \A p \in rest : WaitSoFar[p] \in Int /\ WaitSoFar'[p] = WaitSoFar[p] + 1
    BY <1>5, <1>6
  <2> QED
    BY <1>3, <2>1, SumGrows
<1>8. /\ Sum(WaitSoFar, Living) = WaitSoFar[temp] + Sum(WaitSoFar, rest)
      /\ Sum(WaitSoFar, rest) \in Int
  BY <1>3, <1>5, SumRemove
<1>9. WaitSoFar'[temp] = WaitSoFar[temp]
  BY <1>3, <1>5, <1>6
<1>10. Sum(WaitSoFar', Living) = WaitSoFar'[temp] + Sum(WaitSoFar', rest)
  <2>1. \A p \in Living : WaitSoFar'[p] \in Int
    BY <1>5, <1>6
  <2> QED
    BY <1>3, <2>1, SumRemove
<1> QED
  BY <1>3, <1>4, <1>5, <1>7, <1>8, <1>9, <1>10

LEMMA WaitsStep ==
    ASSUME IInv, IInv', [Next]_vars,
           WaitedBar = total_wait_time + Sum(WaitSoFar, Living),
           WaitedBar' = total_wait_time' + Sum(WaitSoFar', Living')
    PROVE  [Waits!WTNext]_<<processes, time, LeftBar, WaitedBar>>
<1>1. CASE LoopTest \/ Dispatch \/ NothingReady \/ KeepRunning
  <2>1. UNCHANGED <<processes, time, remaining, total_wait_time>>
    BY <1>1 DEF LoopTest, Dispatch, NothingReady, KeepRunning, input, clock, nodes
  <2>2. UNCHANGED <<LeftBar, WaitSoFar, Living>>
    BY <2>1 DEF LeftBar, WaitSoFar, Unreported, Living, Live, Procs
  <2> QED
    BY <2>1, <2>2
<1>2. CASE Admit
  <2>1. /\ UNCHANGED <<processes, time, total_wait_time>> /\ Procs' = Procs /\ i \in Procs
        /\ phase = "admit" /\ LeftBar' = LeftBar
    BY <1>2, AdmitIsUnseen DEF Admit, input, clock, IInv, BooksAreRight, Procs
  <2>2. CASE ~CreatedNow(i)
    <3>1. UNCHANGED <<WaitSoFar, Living>>
      BY <1>2, <2>1, <2>2 DEF Admit, nodes, WaitSoFar, Unreported, Living, Live
    <3> QED
      BY <2>1, <3>1
  <2>3. CASE CreatedNow(i)
    <3>1. remaining' = [remaining EXCEPT ![i] = processes[i].job_time]
      BY <1>2, <2>3 DEF Admit, fcfs_add_process
    <3>2. /\ processes[i].time_created = time /\ time \in Nat
          /\ processes[i].job_time \in Nat /\ processes[i].job_time > 0
      BY <2>1, <2>3, ProcessFacts DEF CreatedNow, IInv, TypeOK
    <3>3. remaining[i] = NoNode /\ DOMAIN remaining = Procs
      <4>1. ~Admitted(i)
        BY <2>1, <2>3, ProcessFacts DEF Admitted, CreatedNow, IInv, TypeOK
      <4> QED
        BY <2>1, <4>1 DEF IInv, BooksAreRight, TypeOK
    <3>4. i \notin Living /\ Living' = Living \cup {i}
      BY <2>1, <3>1, <3>2, <3>3 DEF Living, Live, NoNode
    <3>5. \A p \in Living : WaitSoFar'[p] = WaitSoFar[p]
      BY <2>1, <3>1, <3>3, <3>4 DEF Living, WaitSoFar, Unreported
    <3>6. WaitSoFar'[i] = 0
      <4>1. WaitSoFar'[i] = time - processes[i].time_created
                              - (processes[i].job_time - processes[i].job_time)
        BY <2>1, <3>1, <3>3 DEF WaitSoFar, Unreported
      <4> QED
        BY <3>2, <4>1
    <3>7. IsFiniteSet(Living) /\ IsFiniteSet(Living') /\ \A p \in Living : WaitSoFar[p] \in Int
      BY <3>4, LivingIsFinite, WaitsAreInt, FS_AddElement DEF IInv
    <3>8. Sum(WaitSoFar', Living) = Sum(WaitSoFar, Living) /\ Sum(WaitSoFar, Living) \in Int
      BY <3>5, <3>7, SumEqual, SumRemove
    <3>9. Sum(WaitSoFar', Living') = WaitSoFar'[i] + Sum(WaitSoFar', Living' \ {i})
      <4>1. \A p \in Living' : WaitSoFar'[p] \in Int
        BY <3>4, <3>5, <3>6, <3>7
      <4> QED
        BY <3>4, <3>7, <4>1, SumRemove
    <3>10. Living' \ {i} = Living
      BY <3>4
    <3> QED
      BY <2>1, <3>6, <3>8, <3>9, <3>10
  <2> QED
    BY <2>2, <2>3
<1>3. CASE Idle
  <2>1. Abstract!WCIdle /\ Living = {} /\ Living' = {} /\ total_wait_time' = total_wait_time
    <3>1. Abstract!WCIdle /\ \A p \in Procs : ~Live(p)
      BY <1>3, IdleWastesNothing
    <3>2. UNCHANGED <<processes, remaining, total_wait_time>>
      BY <1>3 DEF Idle, input, nodes
    <3> QED
      BY <3>1, <3>2 DEF Living, Live, Procs
  <2>2. Sum(WaitSoFar, {}) = 0 /\ Sum(WaitSoFar', {}) = 0
    BY FS_EmptySet, SumRemove
  <2>3. WaitedBar' = WaitedBar
    BY <2>1, <2>2
  <2>4. Waits!WCIdle
    BY <2>1 DEF Abstract!WCIdle, Abstract!Present, Waits!WCIdle, Waits!Present
  <2>5. Waits!WTIdle
    BY <2>3, <2>4 DEF Waits!WTIdle, WaitedBar
  <2> QED
    BY <2>5 DEF Waits!WTNext
<1>4. CASE Execute \/ Finish \/ Preempt
  <2> DEFINE rest == Living \ {temp}
  <2>1. Consume /\ UNCHANGED input
    BY <1>4 DEF Execute, Finish, Preempt
  <2>2. /\ temp \in Procs
        /\ processes[temp].time_created <= time /\ LeftBar[temp] > 0
        /\ LeftBar' = [LeftBar EXCEPT ![temp] = LeftBar[temp] - 1]
        /\ time' = time + 1 /\ processes' = processes
    BY <2>1, TickServes
  <2>3. /\ Procs' = Procs /\ remaining'[temp] = remaining[temp] - 1
        /\ \A q \in Procs \ {temp} : remaining'[q] = remaining[q]
        /\ remaining[temp] \in Nat /\ phase = "run" /\ time \in Nat
    BY <2>1, ConsumeFacts, CpuFacts DEF IInv, TypeOK
  <2>4. Living' = IF remaining[temp] = 1 THEN rest ELSE Living
    BY <2>2, <2>3 DEF Living, Live
  <2>5. /\ temp \in Living /\ WaitSoFar[temp] \in Int /\ Sum(WaitSoFar, rest) \in Int
        /\ Cardinality(Living) \in Nat
        /\ Sum(WaitSoFar, Living) = WaitSoFar[temp] + Sum(WaitSoFar, rest)
        /\ Sum(WaitSoFar', rest) = Sum(WaitSoFar, rest) + Cardinality(Living) - 1
        /\ Sum(WaitSoFar', Living) = WaitSoFar[temp] + Sum(WaitSoFar', rest)
    BY <2>1, TickMakesWait
  <2> HIDE DEF rest
  <2>6. total_wait_time \in Int
    BY DEF IInv, TypeOK
  <2>7. WaitedBar' = WaitedBar + Cardinality(Living) - 1
    <3>1. CASE Execute \/ Preempt
      <4>1. remaining[temp] # 1 /\ total_wait_time' = total_wait_time
        BY <3>1 DEF Execute, Preempt
      <4> QED
        BY <2>4, <2>5, <2>6, <4>1
    <3>2. CASE Finish
      <4>1. remaining[temp] = 1 /\ total_wait_time' = total_wait_time + WaitOf(temp)
        BY <3>2 DEF Finish
      <4>2. WaitOf(temp) = WaitSoFar[temp]
        <5>1. processes[temp].time_created \in Nat /\ processes[temp].job_time \in Nat
          BY <2>2, ProcessFacts DEF IInv
        <5>2. WaitSoFar[temp] = time - processes[temp].time_created
                                  - (processes[temp].job_time - 1)
          BY <2>2, <4>1 DEF WaitSoFar, Unreported
        <5> QED
          BY <2>3, <5>1, <5>2 DEF WaitOf
      <4> QED
        BY <2>4, <2>5, <2>6, <4>1, <4>2
    <3> QED
      BY <1>4, <3>1, <3>2
  <2>8. Waits!Present = Living
    BY <2>3, PresentAtRun DEF Waits!Present, Living, LeftBar, Procs
  <2>9. \A p \in DOMAIN processes : p = temp => Waits!WTServe(p)
    <3>1. \A p \in DOMAIN processes : p = temp => Waits!WCServe(p)
      BY <2>2 DEF Waits!WCServe, Waits!Present, LeftBar, Procs
    <3>2. Waits!Cardinality(Living) = Cardinality(Living)
      BY DEF Waits!Cardinality, Cardinality
    <3> QED
      BY <2>7, <2>8, <3>1, <3>2 DEF Waits!WTServe, WaitedBar
  <2> QED
    BY <2>2, <2>9 DEF Waits!WTNext, Procs
<1>5. CASE UNCHANGED vars
  <2>1. UNCHANGED <<processes, time, remaining, total_wait_time>>
    BY <1>5 DEF vars, input, clock, nodes
  <2>2. UNCHANGED <<LeftBar, WaitSoFar, Living>>
    BY <2>1 DEF LeftBar, WaitSoFar, Unreported, Living, Live, Procs
  <2> QED
    BY <2>1, <2>2
<1> QED
  BY <1>1, <1>2, <1>3, <1>4, <1>5 DEF Next, Run

(* What main.c adds up from turnaround times when processes end is what    *)
(* they waited, tick by tick, for every input file, slice and algorithm:   *)
(* the average waiting time printed at main.c:164 is the real one.         *)
THEOREM WaitingTimesAreReal == Spec => ImplementsWaitingTime
<1>1. Init => Waits!WTInit
  <2> SUFFICES ASSUME Init PROVE Waits!WTInit
    OBVIOUS
  <2>1. \A p \in Procs : remaining[p] = NoNode
    BY DEF Init
  <2>2. Living = {} /\ total_wait_time = 0
    BY <2>1 DEF Init, Living, Live, NoNode
  <2>3. IInv
    BY InitInv
  <2>4. WaitedBar = 0
    <3>1. WaitedBar = total_wait_time + Sum(WaitSoFar, Living)
      BY <2>3, WaitedIsSum DEF IInv
    <3>2. Sum(WaitSoFar, {}) = 0
      BY FS_EmptySet, SumRemove
    <3> QED
      BY <2>2, <3>1, <3>2
  <2>5. Waits!WCInit
    BY <2>1 DEF Init, Waits!WCInit, Procs
  <2> QED
    BY <2>4, <2>5 DEF Waits!WTInit, WaitedBar
<1>2. IInv => WaitedBar = total_wait_time + Sum(WaitSoFar, Living)
  BY WaitedIsSum DEF IInv
<1>3. (IInv => WaitedBar = total_wait_time + Sum(WaitSoFar, Living))'
  BY <1>2, PTL
<1>4. IInv /\ IInv' /\ [Next]_vars => [Waits!WTNext]_(Waits!wtVars)
  BY <1>2, <1>3, WaitsStep DEF Waits!wtVars, LeftBar, WaitedBar
<1> QED
  BY <1>1, <1>4, Invariance, PTL DEF Spec, ImplementsWaitingTime, Waits!WTSpec
-----------------------------------------------------------------------------
(* The ledger of slices *)

Spent(p) == IF cpu = p THEN Consumed(p) - (quantums[level[p]] - quantum) ELSE Consumed(p)
Due(l, used) ==
    CASE l = LEVEL1 -> used = 0
      [] l = LEVEL2 -> used = Q1
      [] OTHER -> used >= Q1 + Q2 /\ (used - Q1 - Q2) % Q3 = 0
Ledger == algorithm = MULTI => \A p \in Procs : Live(p) => Due(level[p], Spent(p))

LEMMA LedgerIsSliceLedger == Ledger <=> SliceLedger
  BY DEF Ledger, SliceLedger, Due, UsedUp, Spent

(* A whole slice more is due at the next level, or at the last one again.  *)
LEMMA WholeSlices ==
    ASSUME NEW x \in Nat, NEW d \in Nat \ {0}, x % d = 0
    PROVE  (x + d) % d = 0
<1>1. PICK q \in Int : q = x \div d
  OBVIOUS
<1>2. x = d * q
  BY <1>1
<1>3. x + d = d * (q + 1)
  BY <1>2
<1>4. (d * (q + 1)) % d = 0
  OBVIOUS
<1> QED
  BY <1>3, <1>4

LEMMA DueAtEnds ==
    /\ Due(LEVEL1, 0)
    /\ \A u \in Int : u >= Q1 + Q2 /\ (u - Q1 - Q2) % Q3 = 0 => Due(2, u)
<1>1. Due(LEVEL1, 0)
  BY DEF Due, LEVEL1, LEVEL2
<1>2. ASSUME NEW u \in Int, u >= Q1 + Q2, (u - Q1 - Q2) % Q3 = 0
      PROVE  Due(2, u)
  <2>1. 2 # LEVEL1 /\ 2 # LEVEL2
    BY DEF LEVEL1, LEVEL2
  <2> QED
    BY <1>2, <2>1 DEF Due
<1> QED
  BY <1>1, <1>2

LEMMA SliceIsDue ==
    ASSUME NEW l \in Levels, NEW used \in Int, Due(l, used)
    PROVE  Due(Demoted(l), used + quantums[l])
<1>1. Q1 \in Nat \ {0} /\ Q2 \in Nat \ {0} /\ Q3 \in Nat \ {0}
  BY QuantumAssumption
<1>2. l \in {0, 1, 2} /\ Levels = {0, 1, 2}
  BY LevelFacts
<1>3. CASE l = 0
  <2>1. used = 0 /\ quantums[l] = Q1 /\ Demoted(l) = 1
    BY <1>2, <1>3 DEF Due, LEVEL1, LEVEL2, quantums, Demoted
  <2> QED
    BY <1>1, <2>1 DEF Due, LEVEL1, LEVEL2
<1>4. CASE l = 1
  <2>1. used = Q1 /\ quantums[l] = Q2 /\ Demoted(l) = 2
    BY <1>2, <1>4 DEF Due, LEVEL1, LEVEL2, quantums, Demoted
  <2>2. used + Q2 - Q1 - Q2 = 0 /\ 0 % Q3 = 0 /\ used + Q2 >= Q1 + Q2
    BY <1>1, <2>1
  <2>3. Due(2, used + Q2)
    BY <1>1, <2>1, <2>2, DueAtEnds
  <2> QED
    BY <2>1, <2>3
<1>5. CASE l = 2
  <2>1. /\ used >= Q1 + Q2 /\ (used - Q1 - Q2) % Q3 = 0
        /\ quantums[l] = Q3 /\ Demoted(l) = 2
    BY <1>2, <1>5 DEF Due, LEVEL1, LEVEL2, quantums, Demoted
  <2>2. PICK x \in Nat : x = used - Q1 - Q2
    BY <1>1, <2>1
  <2>3. (x + Q3) % Q3 = 0
    BY <1>1, <2>1, <2>2, WholeSlices
  <2>4. used + Q3 - Q1 - Q2 = x + Q3 /\ used + Q3 >= Q1 + Q2
    BY <1>1, <2>1, <2>2
  <2>5. Due(2, used + Q3)
    BY <1>1, <2>3, <2>4, DueAtEnds
  <2> QED
    BY <2>1, <2>5
<1> QED
  BY <1>2, <1>3, <1>4, <1>5

LEMMA SpentIsInt ==
    ASSUME IInv, NEW p \in Procs
    PROVE  Spent(p) \in Int /\ Consumed(p) \in Int /\ quantums[level[p]] \in Nat
<1>1. /\ remaining[p] \in Int /\ processes[p].job_time \in Int
      /\ level[p] \in Levels /\ quantum \in Int
  BY ProcessFacts DEF IInv, TypeOK, NoNode
<1> QED
  BY <1>1, LevelFacts DEF Spent, Consumed

LEMMA AdmitKeepsLedger == ASSUME IInv, Ledger, Admit PROVE Ledger'
<1>1. /\ processes' = processes /\ Procs' = Procs /\ algorithm' = algorithm
      /\ cpu' = cpu /\ quantum' = quantum
  BY DEF Admit, input, onCpu, Procs
<1>2. CASE CreatedNow(i)
  <2>1. /\ remaining' = [remaining EXCEPT ![i] = processes[i].job_time]
        /\ level' = [level EXCEPT ![i] = LEVEL1]
    BY <1>2 DEF Admit, fcfs_add_process
  <2>2. i \in Procs /\ cpu # i
    <3>1. i \in Procs /\ i \in Nat
      BY DEF Admit, IInv, BooksAreRight, TypeOK
    <3>2. ~Admitted(i)
      BY <1>2, <3>1, ProcessFacts DEF CreatedNow, Admitted, Admit, IInv, TypeOK
    <3>3. remaining[i] = NoNode
      BY <3>1, <3>2 DEF IInv, BooksAreRight
    <3>4. ~Live(i)
      BY <3>3 DEF Live, NoNode
    <3> QED
      BY <3>1, <3>4 DEF IInv, EveryNodeInOnePlace, LiveIsPlaced
  <2>3. ASSUME NEW p \in Procs, p # i
        PROVE  /\ Live(p)' <=> Live(p)
               /\ level'[p] = level[p] /\ Spent(p)' = Spent(p)
    <3>1. remaining'[p] = remaining[p] /\ level'[p] = level[p]
      BY <2>1, <2>3 DEF IInv, TypeOK
    <3> QED
      BY <1>1, <3>1 DEF Live, Spent, Consumed
  <2>4. ASSUME NEW p \in Procs, p = i
        PROVE  Due(level'[p], Spent(p)')
    <3>1. remaining'[p] = processes[p].job_time /\ level'[p] = LEVEL1
      BY <2>1, <2>2, <2>4 DEF IInv, TypeOK
    <3>2. processes[p].job_time \in Nat
      BY <2>2, <2>4, ProcessFacts DEF IInv
    <3>3. Consumed(p)' = 0
      BY <1>1, <3>1, <3>2 DEF Consumed
    <3>4. Spent(p)' = Consumed(p)'
      BY <1>1, <2>2, <2>4 DEF Spent
    <3> QED
      BY <3>1, <3>3, <3>4, DueAtEnds
  <2>5. ASSUME algorithm = MULTI, NEW p \in Procs, Live(p)'
        PROVE  Due(level'[p], Spent(p)')
    <3>1. CASE p = i
      BY <3>1, <2>4
    <3>2. CASE p # i
      BY <2>3, <2>5, <3>2 DEF Ledger
    <3> QED
      BY <3>1, <3>2
  <2> QED
    BY <1>1, <2>5 DEF Ledger
<1>3. CASE ~CreatedNow(i)
  BY <1>1, <1>3 DEF Admit, nodes, Ledger, Live, Spent, Consumed
<1> QED
  BY <1>2, <1>3

LEMMA DispatchKeepsLedger == ASSUME IInv, Ledger, Dispatch PROVE Ledger'
<1>1. /\ processes' = processes /\ Procs' = Procs /\ algorithm' = algorithm
      /\ remaining' = remaining /\ level' = level
      /\ cpu = NULL /\ cpu' = temp' /\ quantum' = Slice(temp')
  BY DEF Dispatch, input, nodes, Procs
<1>2. ASSUME algorithm = MULTI, NEW p \in Procs PROVE Spent(p)' = Spent(p)
  <2>1. Spent(p) = Consumed(p) /\ Consumed(p)' = Consumed(p)
    BY <1>1, ProcessFacts DEF Spent, Consumed, IInv
  <2>2. CASE cpu' = p
    <3>1. quantum' = quantums[level[p]]
      BY <1>1, <1>2, <2>2 DEF Slice, FCFS, MULTI
    <3>2. Spent(p)' = Consumed(p) - (quantums[level[p]] - quantums[level[p]])
      BY <1>1, <2>1, <2>2, <3>1 DEF Spent
    <3> QED
      BY <2>1, <3>2, SpentIsInt
  <2>3. CASE cpu' # p
    BY <2>1, <2>3 DEF Spent
  <2> QED
    BY <2>2, <2>3
<1> QED
  BY <1>1, <1>2 DEF Ledger, Live

LEMMA TickKeepsLedger ==
    ASSUME IInv, Ledger, Execute \/ Finish \/ Preempt PROVE Ledger'
<1>1. Consume /\ UNCHANGED input
  BY DEF Execute, Finish, Preempt
<1>2. /\ processes' = processes /\ algorithm' = algorithm /\ Procs' = Procs
      /\ phase = "run" /\ temp # NULL
      /\ remaining'[temp] = remaining[temp] - 1
      /\ \A q \in Procs \ {temp} : remaining'[q] = remaining[q]
      /\ quantum' = quantum - 1
  BY <1>1, ConsumeFacts
<1>3. /\ temp \in Procs /\ cpu = temp /\ NULL \notin Procs
      /\ remaining[temp] \in Nat /\ remaining[temp] > 0 /\ quantum \in Nat
  BY <1>2, CpuFacts
<1>4. cpu' \in {cpu, NULL}
  BY DEF Execute, Finish, Preempt
<1> SUFFICES ASSUME algorithm = MULTI, NEW p \in Procs, Live(p)'
             PROVE  Due(level'[p], Spent(p)')
  BY <1>2 DEF Ledger
<1>5. CASE p # temp
  <2>1. remaining'[p] = remaining[p] /\ Live(p) /\ cpu # p /\ cpu' # p
    BY <1>2, <1>3, <1>4, <1>5 DEF Live
  <2>2. level'[p] = level[p]
    BY <1>5 DEF Execute, Finish, Preempt, multi_enqueue, IInv, TypeOK
  <2>3. Spent(p)' = Spent(p)
    BY <1>2, <2>1 DEF Spent, Consumed
  <2> QED
    BY <2>1, <2>2, <2>3 DEF Ledger
<1>6. CASE p = temp
  <2>1. Live(p) /\ Due(level[p], Spent(p))
    BY <1>3, <1>6 DEF Live, Ledger
  <2>2. level[p] \in Levels /\ quantums[level[p]] \in Nat /\ processes[p].job_time \in Nat
    BY LevelFacts, ProcessFacts DEF IInv, TypeOK
  <2>3. Spent(p) = (processes[p].job_time - remaining[p]) - (quantums[level[p]] - quantum)
    BY <1>3, <1>6 DEF Spent, Consumed
  <2>4. CASE Execute
    <3>1. level' = level /\ cpu' = p
      BY <1>3, <1>6, <2>4 DEF Execute
    <3>2. Spent(p)' = (processes[p].job_time - (remaining[p] - 1))
                            - (quantums[level[p]] - (quantum - 1))
      BY <1>2, <1>6, <3>1 DEF Spent, Consumed
    <3>3. Spent(p)' = Spent(p)
      BY <1>3, <1>6, <2>2, <2>3, <3>2
    <3> QED
      BY <2>1, <3>1, <3>3
  <2>5. CASE Finish
    <3>1. remaining'[p] = 0
      BY <1>2, <1>6, <2>5 DEF Finish
    <3> QED
      BY <3>1 DEF Live
  <2>6. CASE Preempt
    <3>1. /\ level' = [level EXCEPT ![p] = Demoted(level[p])]
          /\ quantum = 1 /\ cpu' = NULL
      BY <1>6, <2>6 DEF Preempt, multi_enqueue, FCFS, MULTI
    <3>2. level'[p] = Demoted(level[p])
      BY <3>1 DEF IInv, TypeOK
    <3>3. Spent(p)' = processes[p].job_time - (remaining[p] - 1)
      BY <1>2, <1>3, <1>6, <3>1 DEF Spent, Consumed
    <3>4. Spent(p)' = Spent(p) + quantums[level[p]]
      BY <1>3, <1>6, <2>2, <2>3, <3>1, <3>3
    <3>5. Spent(p) \in Int
      BY SpentIsInt
    <3> QED
      BY <2>1, <2>2, <3>2, <3>4, <3>5, SliceIsDue
  <2> QED
    BY <2>4, <2>5, <2>6
<1> QED
  BY <1>5, <1>6

LEMMA StepLedger == IInv /\ Ledger /\ [Next]_vars => Ledger'
<1> SUFFICES ASSUME IInv, Ledger, [Next]_vars PROVE Ledger'
  OBVIOUS
<1>1. CASE LoopTest \/ NothingReady \/ KeepRunning \/ Idle \/ UNCHANGED vars
  BY <1>1 DEF LoopTest, NothingReady, KeepRunning, Idle, vars, input, nodes, onCpu,
              Ledger, Live, Spent, Consumed, Procs
<1> QED
  BY <1>1, AdmitKeepsLedger, DispatchKeepsLedger, TickKeepsLedger DEF Next, Run

(* Under multi the level of a live process is the account of the whole     *)
(* slices that it has used up, and quantum the rest of the present one,    *)
(* for all workloads and all slice lengths (main.c:124-128, multi.c:35-53).*)
THEOREM LevelsAreAccounts == Spec => []SliceLedger
<1>1. Init => Ledger
  BY DEF Init, Ledger, Live, NoNode
<1> QED
  BY <1>1, StepLedger, Invariance, LedgerIsSliceLedger, PTL DEF Spec

-----------------------------------------------------------------------------
(* The first turn *)

LEMMA LongestFacts ==
    /\ Longest \in Nat /\ Q1 \in Nat /\ Q1 > 0
    /\ \A l \in Levels : quantums[l] <= Longest
    /\ Max({Q1, Longest - 1}) \in Nat
    /\ Max({Q1, Longest - 1}) >= Q1 /\ Max({Q1, Longest - 1}) >= Longest - 1
<1>1. Q1 \in Nat \ {0} /\ Q2 \in Nat \ {0} /\ Q3 \in Nat \ {0}
  BY QuantumAssumption
<1>2. PICK n \in Nat : n >= Q1 /\ n >= Q2 /\ n >= Q3
  <2>1. Q1 + Q2 + Q3 \in Nat /\ Q1 + Q2 + Q3 >= Q1 /\ Q1 + Q2 + Q3 >= Q2 /\ Q1 + Q2 + Q3 >= Q3
    BY <1>1
  <2> QED
    BY <2>1
<1>3. {Q1, Q2, Q3} \in SUBSET (0 .. n)
  BY <1>1, <1>2
<1>4. Longest \in {Q1, Q2, Q3} /\ \A y \in {Q1, Q2, Q3} : y <= Longest
  BY <1>3, MaxIsIn DEF Longest
<1>5. Longest \in Nat \ {0}
  BY <1>1, <1>4
<1>6. {Q1, Longest - 1} \in SUBSET (0 .. Longest)
  BY <1>1, <1>4, <1>5
<1>7. /\ Max({Q1, Longest - 1}) \in {Q1, Longest - 1}
      /\ \A y \in {Q1, Longest - 1} : y <= Max({Q1, Longest - 1})
  BY <1>5, <1>6, MaxIsIn
<1>8. \A l \in Levels : quantums[l] \in {Q1, Q2, Q3}
  BY DEF quantums
<1> HIDE DEF Longest
<1>9. Max({Q1, Longest - 1}) \in Nat
  BY <1>1, <1>5, <1>7
<1> QED
  BY <1>1, <1>4, <1>5, <1>7, <1>8, <1>9

(* What is before the process in place k of LEVEL1: the rest of the slice  *)
(* in progress, and a slice for everybody ahead.                           *)
Rest == IF cpu = NULL THEN 0 ELSE quantum
FirstTurn(k) ==
    time - processes[queues[LEVEL1][k]].time_created + Rest + Q1 * (k - 1)
        <= LongestWait(Len(processes) - 1)
OnTime ==
    algorithm = MULTI =>
        /\ cpu # NULL => quantum <= Longest /\ (phase # "run" => quantum < Longest)
        /\ \A k \in 1 .. Len(queues[LEVEL1]) : FirstTurn(k)

(* A process that is nowhere finds at most the others ahead of it.         *)
LEMMA AheadAreOthers ==
    ASSUME IInv, NEW p \in Procs, ~Waiting(p), p # cpu
    PROVE  Len(queues[LEVEL1]) <= IF cpu = NULL THEN Len(processes) - 1 ELSE Len(processes) - 2
<1> DEFINE Q == queues[LEVEL1]
           N == Len(processes)
           K == 1 .. Len(Q)
           T == {Q[k] : k \in K}
<1>1. N \in Nat /\ Procs = 1 .. N /\ cpu \in Procs \cup {NULL} /\ NULL \notin Procs
  BY ProcessFacts DEF IInv, TypeOK
<1>2. Len(Q) \in Nat /\ DOMAIN Q = K /\ \A k \in K : Q[k] \in Procs
  BY QueueFacts, LevelFacts DEF IInv
<1>3. \A k \in K : Q[k] # p /\ Q[k] # cpu
  BY <1>2, LevelFacts DEF Waiting, IInv, EveryNodeInOnePlace, QueuesAreDisjoint
<1>4. \A k, k2 \in K : Q[k] = Q[k2] => k = k2
  BY <1>2, LevelFacts DEF IInv, EveryNodeInOnePlace, QueuesAreDisjoint
<1>5. IsFiniteSet(K) /\ Cardinality(K) = Len(Q)
  BY <1>2, FS_Interval
<1>6. Cardinality(T) = Len(Q)
  <2> HIDE DEF K
  <2> QED
    BY <1>4, <1>5, ImageIsCounted
<1>7. IsFiniteSet(Procs) /\ Cardinality(Procs) = N
  <2>1. \A n \in Nat : IsFiniteSet(1 .. n) /\ Cardinality(1 .. n) = n
    BY FS_Interval
  <2> QED
    BY <1>1, <2>1
<1>8. IsFiniteSet(Procs \ {p}) /\ Cardinality(Procs \ {p}) = N - 1
  BY <1>7, FS_RemoveElement
<1>9. T \subseteq (Procs \ {p}) \ {cpu}
  BY <1>2, <1>3
<1> HIDE DEF T
<1>10. CASE cpu = NULL
  <2>1. T \subseteq Procs \ {p}
    BY <1>9
  <2>2. Cardinality(T) <= N - 1
    BY <1>8, <2>1, FS_Subset
  <2> QED
    BY <1>6, <1>10, <2>2
<1>11. CASE cpu # NULL
  <2>1. cpu \in Procs \ {p}
    BY <1>1, <1>11
  <2>2. IsFiniteSet((Procs \ {p}) \ {cpu}) /\ Cardinality((Procs \ {p}) \ {cpu}) = N - 1 - 1
    BY <1>8, <2>1, FS_RemoveElement
  <2>3. Cardinality(T) <= N - 1 - 1
    BY <1>9, <2>2, FS_Subset
  <2> QED
    BY <1>1, <1>6, <1>11, <2>3
<1> QED
  BY <1>10, <1>11

LEMMA AdmitKeepsTime == ASSUME IInv, OnTime, Admit PROVE OnTime'
<1>1. /\ phase = "admit" /\ i \in Procs /\ cpu' = cpu /\ quantum' = quantum /\ time' = time
      /\ processes' = processes /\ Procs' = Procs /\ algorithm' = algorithm
      /\ phase' \in {"admit", "dispatch"}
  BY DEF Admit, IInv, BooksAreRight, input, clock, onCpu, Procs
<1> SUFFICES ASSUME algorithm = MULTI
             PROVE  \A k \in 1 .. Len(queues'[LEVEL1]) : FirstTurn(k)'
  BY <1>1 DEF OnTime
<1>2. CASE ~CreatedNow(i)
  <2>1. queues' = queues
    BY <1>2 DEF Admit
  <2> QED
    BY <1>1, <2>1 DEF OnTime, FirstTurn, Rest
<1>3. CASE CreatedNow(i)
  <2> DEFINE n == Len(queues[LEVEL1])
             N == Len(processes)
  <2>1. n \in Nat /\ N \in Nat /\ Procs = 1 .. N /\ processes[i].time_created \in Nat
    BY <1>1, QueueFacts, LevelFacts, ProcessFacts DEF IInv
  <2>2. /\ Len(queues'[LEVEL1]) = n + 1
        /\ \A k \in 1 .. n : queues'[LEVEL1][k] = queues[LEVEL1][k]
        /\ queues'[LEVEL1][n + 1] = i
    <3>1. fcfs_enqueue(LEVEL1, i)
      BY <1>3 DEF Admit, fcfs_add_process
    <3> QED
      BY <1>1, <3>1, EnqueueFacts, LevelFacts DEF IInv
  <2>3. \A k \in 1 .. n : FirstTurn(k)'
    BY <1>1, <2>2 DEF OnTime, FirstTurn, Rest
  <2>4. ~Waiting(i) /\ i # cpu
    <3>1. ~Admitted(i)
      BY <1>1, <1>3, ProcessFacts DEF IInv, TypeOK, Admitted, CreatedNow
    <3>2. ~Live(i)
      BY <1>1, <3>1 DEF IInv, BooksAreRight, Live, NoNode
    <3> QED
      BY <1>1, <3>2 DEF IInv, EveryNodeInOnePlace, LiveIsPlaced
  <2>5. time - processes[i].time_created = 0
    BY <1>3, <2>1 DEF CreatedNow
  <2>6. Rest + Q1 * n <= LongestWait(N - 1)
    <3> DEFINE M == Max({Q1, Longest - 1})
    <3>1. Q1 \in Nat /\ Longest \in Nat /\ M \in Nat /\ M >= Q1 /\ M >= Longest - 1
      BY LongestFacts
    <3>2. n <= IF cpu = NULL THEN N - 1 ELSE N - 2
      BY <1>1, <2>4, AheadAreOthers
    <3> DEFINE ahead == Q1 * n
               all == Q1 * (N - 1)
               others == Q1 * (N - 1 - 1)
    <3>3. /\ LongestWait(N - 1) = IF N = 1 THEN 0 ELSE M + others
          /\ ahead \in Int /\ all \in Int /\ others \in Int /\ all = Q1 + others
          /\ n = 0 => ahead = 0
      BY <2>1, <3>1 DEF LongestWait
    <3>4. CASE cpu = NULL
      <4>1. Rest = 0 /\ n <= N - 1
        BY <3>2, <3>4 DEF Rest
      <4>2. ahead <= all
        <5> HIDE DEF n, N, M
        <5> QED
          BY <2>1, <3>1, <4>1, ProductOrder
      <4>3. N = 1 => n = 0
        BY <2>1, <4>1
      <4> HIDE DEF M, ahead, all, others
      <4>4. 0 + ahead <= LongestWait(N - 1)
        BY <3>1, <3>3, <4>2, <4>3
      <4> QED
        BY <4>1, <4>4 DEF ahead
    <3>5. CASE cpu # NULL
      <4>1. n <= N - 2 /\ Rest <= Longest - 1 /\ Rest \in Nat
        <5>1. Rest = quantum /\ quantum < Longest /\ quantum \in Nat
          BY <1>1, <3>5 DEF Rest, OnTime, IInv, TypeOK
        <5> QED
          BY <3>1, <3>2, <3>5, <5>1
      <4>2. ahead <= others
        <5>1. N - 2 = N - 1 - 1 /\ N - 1 - 1 \in Int
          BY <2>1
        <5> HIDE DEF n, N, M
        <5> QED
          BY <2>1, <3>1, <4>1, <5>1, ProductOrder
      <4>3. N # 1
        <5>1. n \in Nat /\ N \in Nat /\ n <= N - 2
          BY <2>1, <4>1
        <5> HIDE DEF n, N
        <5> QED
          BY <5>1
      <4> HIDE DEF M, ahead, all, others
      <4>4. Rest + ahead <= LongestWait(N - 1)
        BY <3>1, <3>3, <4>1, <4>2, <4>3
      <4> QED
        BY <4>4 DEF ahead
    <3> QED
      BY <3>4, <3>5
  <2>7. ASSUME NEW k \in Nat, k = n + 1 PROVE FirstTurn(k)'
    <3> DEFINE ahead == Q1 * n
               bound == LongestWait(N - 1)
    <3>1. Rest' = Rest /\ Rest \in Int /\ ahead \in Int
      BY <1>1, <2>1, LongestFacts DEF Rest, IInv, TypeOK
    <3>2. k - 1 = n
      BY <2>1, <2>7
    <3>3. Rest + ahead <= bound
      BY <2>6
    <3> HIDE DEF ahead, bound
    <3>4. 0 + Rest + ahead <= bound
      BY <3>1, <3>3
    <3>5. time - processes[i].time_created + Rest + Q1 * (k - 1) <= bound
      BY <2>5, <3>2, <3>4 DEF ahead
    <3>6. /\ time' = time /\ processes' = processes /\ Rest' = Rest
          /\ queues'[LEVEL1][k] = i
      BY <1>1, <2>2, <2>7, <3>1
    <3> QED
      BY <3>5, <3>6 DEF FirstTurn, bound
  <2> SUFFICES ASSUME NEW k \in 1 .. Len(queues'[LEVEL1]) PROVE FirstTurn(k)'
    OBVIOUS
  <2>8. k \in 1 .. n \/ k = n + 1
    BY <2>1, <2>2
  <2>9. k \in Nat
    BY <2>1, <2>2
  <2> QED
    BY <2>3, <2>7, <2>8, <2>9
<1> QED
  BY <1>2, <1>3

LEMMA DispatchKeepsTime == ASSUME IInv, OnTime, Dispatch PROVE OnTime'
<1>1. /\ phase' = "run" /\ cpu = NULL /\ cpu' = temp' /\ quantum' = Slice(temp')
      /\ UNCHANGED <<processes, algorithm, time, level>>
  BY DEF Dispatch, input, clock, nodes
<1> SUFFICES ASSUME algorithm = MULTI
             PROVE  /\ quantum' <= Longest
                    /\ \A k \in 1 .. Len(queues'[LEVEL1]) : FirstTurn(k)'
  BY <1>1 DEF OnTime
<1>2. PICK m \in Levels : /\ FirstNonEmpty(m) /\ temp' = Head(queues[m])
                          /\ queues' = [queues EXCEPT ![m] = Tail(queues[m])]
  BY DEF Dispatch
<1>3. /\ \A l \in Levels : l # m => queues'[l] = queues[l]
      /\ Len(queues'[m]) = Len(queues[m]) - 1
      /\ \A k \in 1 .. Len(queues'[m]) : queues'[m][k] = queues[m][k + 1]
      /\ temp' = queues[m][1] /\ temp' \in Procs
  BY <1>2, DequeueFacts DEF FirstNonEmpty, IInv
<1>4. Len(queues[m]) \in Nat /\ Len(queues[m]) > 0 /\ DOMAIN queues[m] = 1 .. Len(queues[m])
  BY <1>2, QueueFacts DEF FirstNonEmpty, IInv
<1>5. quantum' = quantums[m] /\ quantum' \in Nat /\ quantum' <= Longest
  <2>1. level[temp'] = m
    BY <1>3, <1>4 DEF IInv, EveryNodeInOnePlace, QueuesAreDisjoint
  <2>2. quantum' = quantums[m]
    BY <1>1, <2>1 DEF Slice, FCFS, MULTI
  <2> QED
    BY <2>2, LevelFacts, LongestFacts
<1>6. ASSUME NEW k \in 1 .. Len(queues'[LEVEL1])
      PROVE  FirstTurn(k)'
  <2>1. m = LEVEL1
    <3> SUFFICES ASSUME m # LEVEL1 PROVE FALSE
      OBVIOUS
    <3>1. LEVEL1 < m /\ LEVEL1 \in Levels
      BY LevelFacts DEF LEVEL1
    <3>2. queues[LEVEL1] = <<>> /\ queues'[LEVEL1] = <<>>
      BY <1>2, <1>3, <3>1 DEF FirstNonEmpty
    <3> QED
      BY <3>2
  <2>2. k \in Nat /\ k + 1 \in 1 .. Len(queues[LEVEL1])
        /\ queues'[LEVEL1][k] = queues[LEVEL1][k + 1] /\ queues[LEVEL1][k + 1] \in Procs
    <3>1. k \in Nat /\ k + 1 \in 1 .. Len(queues[LEVEL1])
      BY <1>3, <1>4, <2>1
    <3>2. queues'[LEVEL1][k] = queues[LEVEL1][k + 1]
      BY <1>3, <2>1
    <3> QED
      BY <1>4, <2>1, <3>1, <3>2, QueueFacts DEF IInv
  <2> DEFINE p == queues[LEVEL1][k + 1]
  <2>3. FirstTurn(k + 1) /\ Rest = 0
    BY <1>1, <2>2 DEF OnTime, Rest
  <2>4. time \in Nat /\ processes[p].time_created \in Nat /\ Q1 \in Nat
    BY <2>2, ProcessFacts, LongestFacts DEF IInv, TypeOK
  <2>5. Rest' = Q1
    <3>1. cpu' # NULL
      BY <1>1, <1>3, ProcessFacts DEF IInv
    <3> QED
      BY <1>5, <2>1, <3>1, LevelFacts DEF Rest, quantums
  <2> DEFINE wait == time - processes[p].time_created
             ahead == Q1 * (k - 1)
             before == Q1 * (k + 1 - 1)
             bound == LongestWait(Len(processes) - 1)
  <2>6. before = Q1 + ahead /\ ahead \in Int /\ wait \in Int
    <3>1. wait \in Int
      BY <2>4
    <3>2. k - 1 \in Int /\ k + 1 - 1 = k - 1 + 1
      BY <2>2
    <3>3. ahead \in Int /\ Q1 * (k - 1 + 1) = ahead + Q1
      BY <2>4, <3>2, ProductOrder
    <3> HIDE DEF wait, ahead, bound
    <3>4. before = ahead + Q1
      BY <3>2, <3>3
    <3> HIDE DEF before
    <3> QED
      BY <2>4, <3>1, <3>3, <3>4
  <2>7. wait + 0 + before <= bound
    BY <2>3 DEF FirstTurn
  <2> HIDE DEF wait, ahead, before, bound
  <2>8. wait + Q1 + ahead <= bound
    BY <2>4, <2>6, <2>7
  <2>9. time' = time /\ processes' = processes /\ queues'[LEVEL1][k] = p
    BY <1>1, <2>2
  <2> HIDE DEF p
  <2> QED
    BY <2>5, <2>8, <2>9 DEF FirstTurn, wait, ahead, bound
<1> QED
  BY <1>5, <1>6

LEMMA TickKeepsTime ==
    ASSUME IInv, OnTime, Execute \/ Finish \/ Preempt PROVE OnTime'
<1>1. Consume /\ UNCHANGED input /\ cpu' \in {cpu, NULL}
  BY DEF Execute, Finish, Preempt
<1>2. /\ processes' = processes /\ algorithm' = algorithm
      /\ phase = "run" /\ temp # NULL /\ time' = time + 1 /\ quantum' = quantum - 1
  BY <1>1, ConsumeFacts
<1>3. temp \in Procs /\ cpu = temp /\ NULL \notin Procs /\ quantum \in Nat /\ quantum > 0
  BY <1>2, CpuFacts
<1> SUFFICES ASSUME algorithm = MULTI
             PROVE  /\ quantum' < Longest
                    /\ \A k \in 1 .. Len(queues'[LEVEL1]) : FirstTurn(k)'
  BY <1>1, <1>3, LongestFacts, <1>2 DEF OnTime
<1>4. quantum' < Longest
  BY <1>2, <1>3, LongestFacts DEF OnTime
<1>5. queues'[LEVEL1] = queues[LEVEL1]
  <2>1. CASE Execute \/ Finish
    BY <2>1 DEF Execute, Finish
  <2>2. CASE Preempt
    <3>1. fcfs_enqueue(Demoted(level[temp]), temp)
      BY <2>2 DEF Preempt, multi_enqueue, FCFS, MULTI
    <3>2. level[temp] \in Levels /\ Demoted(level[temp]) \in Levels /\ Demoted(level[temp]) # LEVEL1
      BY <1>3, LevelFacts DEF IInv, TypeOK, Demoted, LEVEL1, LEVEL2
    <3> QED
      BY <1>3, <3>1, <3>2, EnqueueFacts, LevelFacts DEF IInv
  <2> QED
    BY <2>1, <2>2
<1>6. ASSUME NEW k \in 1 .. Len(queues[LEVEL1])
      PROVE  FirstTurn(k)'
  <2> DEFINE p == queues[LEVEL1][k]
             ahead == Q1 * (k - 1)
             bound == LongestWait(Len(processes) - 1)
  <2>1. time - processes[p].time_created + quantum + ahead <= bound
    BY <1>2, <1>3 DEF OnTime, FirstTurn, Rest
  <2>2. time \in Nat /\ processes[p].time_created \in Nat /\ ahead \in Int
    <3>1. k \in Int /\ p \in Procs
      BY QueueFacts, LevelFacts DEF IInv
    <3>2. Q1 \in Nat
      BY LongestFacts
    <3>3. ahead \in Int
      BY <3>1, <3>2
    <3> QED
      BY <3>1, <3>3, ProcessFacts DEF IInv, TypeOK
  <2>3. Rest' \in Int /\ Rest' <= quantum - 1
    BY <1>1, <1>2, <1>3 DEF Rest
  <2>4. bound \in Int
    <3>1. Len(processes) \in Nat
      BY ProcessFacts DEF IInv
    <3> QED
      BY <3>1, LongestFacts DEF LongestWait
  <2>5. time' = time + 1 /\ processes' = processes /\ queues'[LEVEL1][k] = p
    BY <1>2, <1>5
  <2> HIDE DEF ahead, bound, p
  <2>6. time' - processes[p].time_created + Rest' + ahead <= bound
    <3> DEFINE created == processes[p].time_created
               rest == Rest'
    <3>1. /\ time - created + quantum + ahead <= bound
          /\ time \in Int /\ created \in Int /\ ahead \in Int /\ bound \in Int
          /\ rest \in Int /\ rest <= quantum - 1 /\ quantum \in Int /\ time' = time + 1
      BY <1>3, <2>1, <2>2, <2>3, <2>4, <2>5
    <3> HIDE DEF created, rest
    <3> QED
      BY <3>1 DEF created, rest
  <2> QED
    BY <2>5, <2>6 DEF FirstTurn, ahead, bound
<1> QED
  BY <1>4, <1>5, <1>6

LEMMA StepOnTime == IInv /\ OnTime /\ [Next]_vars => OnTime'
<1> SUFFICES ASSUME IInv, OnTime, [Next]_vars PROVE OnTime'
  OBVIOUS
<1>1. CASE LoopTest \/ NothingReady \/ KeepRunning \/ UNCHANGED vars
  BY <1>1 DEF LoopTest, NothingReady, KeepRunning, vars, input, clock, onCpu,
              OnTime, FirstTurn, Rest
<1>2. CASE Idle
  <2>1. cpu = NULL /\ queues[LEVEL1] = <<>>
    BY <1>2, LevelFacts DEF Idle, IInv, TempIsOnCpu, BooksAreRight
  <2> QED
    BY <1>2, <2>1 DEF Idle, OnTime, input, onCpu
<1> QED
  BY <1>1, <1>2, AdmitKeepsTime, DispatchKeepsTime, TickKeepsTime DEF Next, Run

(* Under multi no process waits for its first slice longer than for the    *)
(* rest of a slice and one Q1 slice of each other process, for all         *)
(* workloads and slice lengths (multi.c: strict priority and feedback).    *)
THEOREM FirstTurnIsSoon == Spec => []ResponseBound
<1>1. Init => OnTime
  BY LevelFacts DEF Init, OnTime
<1>2. IInv /\ Ledger /\ OnTime => ResponseBound
  <2> SUFFICES ASSUME IInv, Ledger, OnTime, algorithm = MULTI, NEW p \in Procs,
                      Live(p), Consumed(p) = 0, Waiting(p)
               PROVE  time - processes[p].time_created <= LongestWait(Len(processes) - 1)
    BY DEF ResponseBound
  <2>1. PICK l \in Levels : \E k \in DOMAIN queues[l] : queues[l][k] = p
    BY DEF Waiting
  <2>a. PICK k \in DOMAIN queues[l] : queues[l][k] = p
    BY <2>1
  <2>2. cpu # p /\ level[p] = l
    BY <2>a DEF IInv, EveryNodeInOnePlace, QueuesAreDisjoint
  <2>3. l = LEVEL1
    <3>1. Due(l, 0)
      BY <2>2 DEF Ledger, Spent
    <3>2. {Q1, Q2, Q3} \subseteq Nat \ {0}
      BY QuantumAssumption
    <3> QED
      BY <3>1, <3>2 DEF Due
  <2>4. FirstTurn(k) /\ k \in 1 .. Len(queues[LEVEL1])
    BY <2>a, <2>3, QueueFacts DEF OnTime, IInv
  <2> DEFINE bound == LongestWait(Len(processes) - 1)
             wait == time - processes[p].time_created
             ahead == Q1 * (k - 1)
  <2>5. wait \in Int /\ Rest \in Nat /\ bound \in Int
    <3>1. Len(processes) \in Nat /\ processes[p].time_created \in Nat
      BY ProcessFacts DEF IInv
    <3>2. time \in Nat /\ Rest \in Nat
      BY DEF IInv, TypeOK, Rest
    <3>3. bound \in Int
      BY <3>1, LongestFacts DEF LongestWait
    <3> QED
      BY <3>1, <3>2, <3>3
  <2>6. ahead \in Nat
    <3>1. k - 1 \in Nat /\ Q1 \in Nat
      BY <2>4, LongestFacts
    <3> QED
      BY <3>1
  <2>7. wait + Rest + ahead <= bound
    BY <2>a, <2>3, <2>4 DEF FirstTurn
  <2> HIDE DEF bound, wait, ahead
  <2>8. wait <= bound
    BY <2>5, <2>6, <2>7
  <2> QED
    BY <2>8 DEF wait, bound
<1>3. Init => Ledger
  BY DEF Init, Ledger, Live, NoNode
<1> QED
  BY <1>1, <1>2, <1>3, StepOnTime, StepLedger, Invariance, PTL DEF Spec
=============================================================================
