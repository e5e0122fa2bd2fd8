--------------------------- MODULE BatteryPromise ---------------------------
(***************************************************************************)
(* What a battery promises to whoever runs it as a process, as the sweep   *)
(* does, and knows it by its exit and by the pack it leaves.  A run writes *)
(* one pack at most, and with the verdict that it exits with.  A run that  *)
(* is refused or crashes leaves what it found.  Only one that was killed   *)
(* says nothing: its pack may be there or not.                             *)
(***************************************************************************)
EXTENDS Naturals

VARIABLES run,   \* how many runs have started
          exit,  \* how the last one ended
          pack   \* the pack in the evidence directory: whose, and its verdict

vars == <<run, exit, pack>>

Init ==
    /\ run = 1
    /\ exit = "none"
    /\ pack = [run |-> 0, verdict |-> "none"]

Write ==
    /\ exit = "none" /\ pack.run # run
    /\ \E v \in {"PASS", "FAIL"} : pack' = [run |-> run, verdict |-> v]
    /\ UNCHANGED <<run, exit>>

Conclude ==
    /\ exit = "none" /\ pack.run = run
    /\ exit' = pack.verdict
    /\ UNCHANGED <<run, pack>>

GiveUp ==
    /\ exit = "none" /\ pack.run # run
    /\ exit' \in {"refused", "crash"}
    /\ UNCHANGED <<run, pack>>

Die ==
    /\ exit = "none"
    /\ exit' = "killed"
    /\ UNCHANGED <<run, pack>>

NextRun ==
    /\ exit # "none"
    /\ run' = run + 1
    /\ exit' = "none"
    /\ UNCHANGED pack

Next == Write \/ Conclude \/ GiveUp \/ Die \/ NextRun

Spec == Init /\ [][Next]_vars
=============================================================================
