------------------------------- MODULE Sweep -------------------------------
(***************************************************************************)
(* The conformance sweep (factory/bin/factory-conformance-sweep), the      *)
(* repair briefs it writes (factory/repair.py), the drift log of the REST  *)
(* driver that it reads (drivers/rest/drift.py) and the state of a driver  *)
(* that the roster derives from all of it                                  *)
(* (factory/generate_descriptor_artifacts.py).                             *)
(*                                                                         *)
(* A battery is one action that keeps BatteryPromise: it exits 0 and       *)
(* leaves a green pack, or it exits 1 and leaves a red one, or none; or it *)
(* is killed, with its pack written or not.  Around the sweeps, days pass, *)
(* the REST driver logs drift, an operator commits and closes briefs,      *)
(* clears the drift log, runs batteries by hand and puts packs where they  *)
(* do not belong, and systemd stops a sweep that takes too long.           *)
(***************************************************************************)
EXTENDS Integers, Sequences

CONSTANTS
    Jobs,               \* the dialects of the targets' tables, in the order they are swept
    MaxDays, MaxSweeps,
    MaxDrifts,          \* how often the drift log gets an event
    WithinTheDay        \* whether a battery ends on the day it started

ASSUME SweepAssumption ==
    /\ Jobs \in Seq(STRING) \ {<<>>}
    /\ MaxDays \in Nat \ {0}
    /\ {MaxSweeps, MaxDrifts} \subseteq Nat
    /\ WithinTheDay \in BOOLEAN

Dialects == {Jobs[i] : i \in DOMAIN Jobs}
Days == 1..MaxDays

\* A pack is known by its verdict; last-green may also hold a fragment of one, or a
\* file that says it passed and has no output of a battery to show for it.
NoPack == "none"
NoPacks == [d \in Dialects |-> [n \in Days |-> NoPack]]

VARIABLES
    day,
    packs,        \* the evidence directory: EVIDENCE-<dialect>-<day>
    lastGreen,    \* and its last-green/EVIDENCE-<dialect>
    committed,    \* both, in HEAD
    briefs,       \* the REPAIR-BRIEF-<dialect>-<day> at the root
    tracked,      \* those of them that are committed
    driftLog,     \* whether the drift log holds an event
    sweeps, pc, auto,
    stamp,        \* the day a battery is expected to name its pack for
    results,      \* per job: verdict, the pack's day, and how the battery ended
    filed,        \* how many results are filed
    seenDrift,
    exit,
    drifts

outside == <<day, driftLog, drifts>>
evidence == <<packs, lastGreen, committed>>
root == <<briefs, tracked>>
sweep == <<sweeps, pc, auto, stamp, results, filed, seenDrift, exit>>
vars == <<outside, evidence, root, sweep>>

Resting == {"idle", "done", "aborted", "killed"}

Init ==
    /\ day = 1
    /\ packs = NoPacks
    /\ lastGreen = [d \in Dialects |-> NoPack]
    /\ committed = [packs |-> NoPacks, lastGreen |-> [d \in Dialects |-> NoPack]]
    /\ briefs = {} /\ tracked = {}
    /\ driftLog = FALSE
    /\ sweeps = 0 /\ pc = "idle" /\ auto = FALSE
    /\ stamp = 0 /\ results = <<>> /\ filed = 0
    /\ seenDrift = FALSE /\ exit = 0
    /\ drifts = 0

-----------------------------------------------------------------------------
(* The batteries: discover_targets, run_target *)

Start ==
    /\ pc \in Resting
    /\ sweeps < MaxSweeps
    /\ sweeps' = sweeps + 1
    /\ auto' \in BOOLEAN
    /\ stamp' = 0 /\ results' = <<>> /\ filed' = 0 /\ seenDrift' = FALSE /\ exit' = 0
    /\ pc' = "target"
    /\ UNCHANGED <<outside, evidence, root>>

Job == Jobs[Len(results) + 1]

\* An exception that main lets through: a SystemExit of run_target, for a target
\* without a dialect or a ground truth, which no subprocess confines; or one of the
\* file system, at a brief or in the copy of a pack.
Abort ==
    /\ pc \in {"target", "filing", "copying"}
    /\ exit' = 1
    /\ pc' = "aborted"
    /\ UNCHANGED <<outside, evidence, root, sweeps, auto, stamp, results, filed, seenDrift>>

\* The pack is looked for under the day on which the battery is started.
Spawn ==
    /\ pc = "target"
    /\ stamp' = day
    /\ pc' = "battery"
    /\ UNCHANGED <<outside, evidence, root, sweeps, auto, results, filed, seenDrift, exit>>

\* assert_clean_tree: a brief that nobody committed makes the tree dirty.
Dirty == briefs # tracked

\* How a battery can end: green, red, or without a pack.
Ends == IF Dirty THEN {"refused"} ELSE {"green", "red", "refused"}

\* write_pack names the pack for the dialect and the present day.
PacksAfter(d, ended) ==
    CASE ended = "green" -> [packs EXCEPT ![d][day] = "PASS"]
      [] ended = "red"   -> [packs EXCEPT ![d][day] = "FAIL"]
      [] OTHER           -> packs

\* What the exit code and the presence of the expected pack tell.
VerdictOf(ended, found) ==
    CASE ended = "green"          -> "PASS"
      [] ended # "green" /\ found -> "FAIL"
      [] OTHER                    -> "ERROR"

Result(ended, verdict, found) ==
    [dialect |-> Job, verdict |-> verdict, ended |-> ended,
     pack |-> IF found THEN stamp ELSE 0]

AfterJob == pc' = IF Len(results) + 1 = Len(Jobs) THEN "filing" ELSE "target"

BatteryEnds ==
    /\ pc = "battery"
    /\ \E ended \in Ends :
         LET after == PacksAfter(Job, ended)
             found == after[Job][stamp] # NoPack
         IN /\ packs' = after
            /\ results' = Append(results, Result(ended, VerdictOf(ended, found), found))
    /\ AfterJob
    /\ UNCHANGED <<outside, lastGreen, committed, root, sweeps, auto, stamp, filed, seenDrift, exit>>

\* The time of the target is over: an ERROR, with the pack that happens to be there,
\* which may be the one that the battery had just written.
BatteryTimesOut ==
    /\ pc = "battery"
    /\ \E written \in Ends : packs' = PacksAfter(Job, written)
    /\ results' = Append(results, Result("timeout", "ERROR", packs'[Job][stamp] # NoPack))
    /\ AfterJob
    /\ UNCHANGED <<outside, lastGreen, committed, root, sweeps, auto, stamp, filed, seenDrift, exit>>

-----------------------------------------------------------------------------
(* Filing: snapshot_green, write_repair_brief, collect_drift_events, auto_commit_green *)

\* Mutant: only a battery that left a pack is reported.
NeedsBriefWithPack(result) == result.verdict # "PASS" /\ result.pack # 0

NeedsBrief(result) == result.pack # 0 \/ result.verdict = "ERROR"

\* Mutant: whatever pack there is counts as the last green one.
IsSnapshotOfAny(result) == result.pack # 0

IsSnapshot(result) == result.verdict = "PASS" /\ result.pack # 0

\* shutil.copy2 empties what is there, and then copies.
SnapshotStarts ==
    /\ pc = "filing" /\ filed < Len(results)
    /\ IsSnapshot(results[filed + 1])
    /\ lastGreen' = [lastGreen EXCEPT ![results[filed + 1].dialect] = "torn"]
    /\ pc' = "copying"
    /\ UNCHANGED <<outside, packs, committed, root, sweeps, auto, stamp, results, filed, seenDrift, exit>>

SnapshotEnds ==
    /\ pc = "copying"
    /\ LET result == results[filed + 1]
       IN lastGreen' = [lastGreen EXCEPT
                          ![result.dialect] = packs[result.dialect][result.pack]]
    /\ filed' = filed + 1
    /\ pc' = "filing"
    /\ UNCHANGED <<outside, packs, committed, root, sweeps, auto, stamp, results, seenDrift, exit>>

\* A brief is written over the one of the same dialect and day, which is then no
\* longer what was committed.
FileBrief ==
    /\ pc = "filing" /\ filed < Len(results)
    /\ LET result == results[filed + 1]
           brief == <<result.dialect, day>>
       IN /\ ~IsSnapshot(result)
          /\ briefs' = IF NeedsBrief(result) THEN briefs \union {brief} ELSE briefs
          /\ tracked' = tracked \ {brief}
    /\ filed' = filed + 1
    /\ UNCHANGED <<outside, evidence, sweeps, pc, auto, stamp, results, seenDrift, exit>>

\* A log that cannot be read, or a line of it that cannot be parsed, is no event.
CollectDriftEvents ==
    /\ pc = "filing"
    /\ filed = Len(results)
    /\ seenDrift' \in {driftLog, FALSE}
    /\ pc' = "concluding"
    /\ UNCHANGED <<outside, evidence, root, sweeps, auto, stamp, results, filed, exit>>

\* Mutant: a target that ERRORed is not counted as failed.
SomeFailedIn(rs) == \E i \in DOMAIN rs : rs[i].verdict = "FAIL"

SomeFailed(rs) == \E i \in DOMAIN rs : rs[i].verdict # "PASS"

ShouldAutoCommit == auto /\ ~seenDrift /\ ~SomeFailed(results)

\* auto_commit_green takes the whole evidence subtree, or is refused.
Conclude ==
    /\ pc = "concluding"
    /\ \E refused \in {FALSE, ShouldAutoCommit} :
         /\ committed' = IF ShouldAutoCommit /\ ~refused
                         THEN [packs |-> packs, lastGreen |-> lastGreen] ELSE committed
         /\ exit' = IF SomeFailed(results) \/ seenDrift \/ refused THEN 1 ELSE 0
    /\ pc' = "done"
    /\ UNCHANGED <<outside, packs, lastGreen, root, sweeps, auto, stamp, results, filed, seenDrift>>

\* The unit's TimeoutStartSec, or an operator; a battery under way goes with it, with
\* its pack written or not, and a copy under way stays a fragment.
Killed ==
    /\ pc \notin Resting
    /\ \/ UNCHANGED packs
       \/ pc = "battery" /\ \E written \in Ends : packs' = PacksAfter(Job, written)
    /\ pc' = "killed"
    /\ UNCHANGED <<outside, lastGreen, committed, root, sweeps, auto, stamp, results, filed, seenDrift, exit>>

-----------------------------------------------------------------------------
(* Around the sweeps *)

DayPasses ==
    /\ day < MaxDays
    /\ WithinTheDay => pc # "battery"
    /\ day' = day + 1
    /\ UNCHANGED <<driftLog, drifts, evidence, root, sweep>>

\* emit_drift, of a daemon that runs all the while.
EmitDrift ==
    /\ drifts < MaxDrifts
    /\ drifts' = drifts + 1
    /\ driftLog' = TRUE
    /\ UNCHANGED <<day, evidence, root, sweep>>

ClearDriftLog ==
    /\ driftLog
    /\ driftLog' = FALSE
    /\ UNCHANGED <<day, drifts, evidence, root, sweep>>

CommitBriefs ==
    /\ pc \in Resting /\ Dirty
    /\ tracked' = briefs
    /\ UNCHANGED <<outside, evidence, briefs, sweep>>

\* The deletion of a committed brief is committed with it.
CloseBrief(b) ==
    /\ pc \in Resting /\ b \in briefs
    /\ briefs' = briefs \ {b}
    /\ tracked' = tracked \ {b}
    /\ UNCHANGED <<outside, evidence, sweep>>

\* factory.conformance by hand: a pack of the day, and nothing is filed.
HandRun(d) ==
    /\ pc \in Resting
    /\ \E ended \in Ends \ {"refused"} : packs' = PacksAfter(d, ended)
    /\ UNCHANGED <<outside, lastGreen, committed, root, sweep>>

\* A file that says PASS gets into last-green without a battery behind it: a hand
\* edit, or a fixture that escaped its test.
PlacePack(d) ==
    /\ pc \in Resting
    /\ lastGreen' = [lastGreen EXCEPT ![d] = "unproven"]
    /\ UNCHANGED <<outside, packs, committed, root, sweep>>

Next ==
    \/ Start \/ Abort \/ Spawn \/ BatteryEnds \/ BatteryTimesOut
    \/ SnapshotStarts \/ SnapshotEnds \/ FileBrief \/ CollectDriftEvents \/ Conclude \/ Killed
    \/ DayPasses \/ EmitDrift \/ ClearDriftLog \/ CommitBriefs
    \/ \E d \in Dialects : HandRun(d) \/ PlacePack(d)
    \/ \E b \in briefs : CloseBrief(b)

Spec == Init /\ [][Next]_vars

-----------------------------------------------------------------------------
(* The roster: conformance_state *)

OpenBriefs(d) == {b \in briefs : b[1] = d}

ConformanceState(d) ==
    CASE lastGreen[d] \in {NoPack, "unproven"} -> "pending"
      [] lastGreen[d] \in {"FAIL", "torn"}     -> "refused to emit"
      [] lastGreen[d] = "PASS"                 -> IF OpenBriefs(d) = {} THEN "passing" ELSE "drifted"

-----------------------------------------------------------------------------
(* Properties *)

\* The pack of a result, and the copy of it, are committed.
InHead(result) ==
    /\ result.pack # 0
    /\ committed.packs[result.dialect][result.pack] = "PASS"
    /\ committed.lastGreen[result.dialect] = "PASS"

\* A sweep that exits 0 ran every battery to a green end, found no event in the drift
\* log, or could not read it, and, where it was to commit, has the packs it found
\* green and their copies in HEAD; one that exits 1 has something to show for it
\* (main, should_auto_commit, auto_commit_green).
SweepTellsTheWorst ==
    pc = "done" =>
        /\ exit = 0 =>
              /\ Len(results) = Len(Jobs) /\ ~seenDrift
              /\ \A i \in DOMAIN results :
                    /\ results[i].ended = "green"
                    /\ auto => InHead(results[i])
        /\ exit = 1 => \/ seenDrift \/ auto
                       \/ \E i \in DOMAIN results : results[i].ended # "green"

\* When a sweep is done the roster says so: a dialect with a battery that was not
\* green is shown as drifted or pending, with a brief open against it, and one whose
\* batteries were all green is shown as passing unless an older brief is open (main,
\* write_repair_brief, conformance_state).
BoardShowsTheSweep ==
    [][pc # "done" /\ pc' = "done" =>
        \A d \in Dialects :
            LET mine == {i \in DOMAIN results : results[i].dialect = d}
            IN IF \E i \in mine : results[i].ended # "green"
               THEN OpenBriefs(d) # {} /\ ConformanceState(d) # "passing"
               ELSE mine # {} => ConformanceState(d) \in {"passing", "drifted"}]_vars

\* Last-green never holds a pack that failed, for which the roster would refuse to
\* emit; and though a sweep that is stopped in the copy leaves a fragment there, for
\* which it refuses as well, and others may leave what no battery wrote, what HEAD has
\* of last-green is whole and passed (snapshot_green, auto_commit_green).
LastGreenIsGreen ==
    \A d \in Dialects : /\ lastGreen[d] # "FAIL"
                        /\ committed.lastGreen[d] \in {NoPack, "PASS"}

\* Claim of the sweep's own documentation: a failing pack is not filed into history.
NoRedPackCommitted ==
    \A d \in Dialects : \A n \in Days : committed.packs[d][n] # "FAIL"
=============================================================================
