----------------------------- MODULE WaitingTime -----------------------------
(***************************************************************************)
(* The waiting time that COMP30023/project1 reports, defined the way the   *)
(* notion is meant: in every tick each created process that needs the CPU  *)
(* and does not get it waits one more unit.  The program never counts such *)
(* ticks; it adds up (finish - creation - job time) when a process ends.   *)
(***************************************************************************)
EXTENDS WorkConserving, FiniteSets

VARIABLE
    waited          \* units of waiting, over all processes and ticks so far

wtVars == <<processes, time, left, waited>>

WTInit == WCInit /\ waited = 0

WTServe(p) == WCServe(p) /\ waited' = waited + Cardinality(Present) - 1

WTIdle == WCIdle /\ UNCHANGED waited

WTNext == WTIdle \/ \E p \in DOMAIN processes : WTServe(p)

WTSpec == WTInit /\ [][WTNext]_wtVars
=============================================================================
