---------------------------- MODULE ScanMapSpec ----------------------------
(***************************************************************************)
(* What CollectAndSend promises about the ScanMap of a record, whatever    *)
(* fails inside it: the map is empty, or it holds one scan of every        *)
(* scanner and all of them were taken by the same run.  KmcProcess treats  *)
(* the ScanMap as one value because of this.                               *)
(***************************************************************************)
EXTENDS Naturals

CONSTANT Scanners

VARIABLES
    run,    \* the number of the latest run; 0 before the first
    scans   \* the run each scanner's stored scan is of, 0 if there is none

vars == <<run, scans>>

AllOf(n) == [s \in Scanners |-> n]

Init ==
    /\ run = 0
    /\ scans = AllOf(0)

Begin ==
    /\ run' = run + 1
    /\ UNCHANGED scans

Store ==
    /\ scans' = AllOf(run)
    /\ UNCHANGED run

Clear ==
    /\ scans' = AllOf(0)
    /\ UNCHANGED run

Next == Begin \/ Store \/ Clear

Spec == Init /\ [][Next]_vars
=============================================================================
