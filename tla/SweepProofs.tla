---------------------------- MODULE SweepProofs ----------------------------
(***************************************************************************)
(* Theorems about Sweep, for every list of targets, any number of days,    *)
(* sweeps and drift events.                                                *)
(***************************************************************************)
EXTENDS Sweep, TLAPS

PackKinds == {NoPack, "PASS", "FAIL"}
FileKinds == PackKinds \union {"torn", "unproven"}
Verdicts == {"PASS", "FAIL", "ERROR"}
Endings == {"green", "red", "refused", "timeout"}

AResult ==
    [dialect : Dialects, verdict : Verdicts, ended : Endings, pack : 0..MaxDays]

SweepTypes ==
    /\ day \in Days
    /\ packs \in [Dialects -> [Days -> PackKinds]]
    /\ lastGreen \in [Dialects -> FileKinds]
    /\ pc \in Resting \union {"target", "battery", "filing", "copying", "concluding"}
    /\ auto \in BOOLEAN
    /\ stamp \in 0..MaxDays
    /\ results \in Seq(AResult)
    /\ filed \in 0..Len(results)
    /\ driftLog \in BOOLEAN
    /\ seenDrift \in BOOLEAN
    /\ exit \in {0, 1}

\* What a result says of itself.
Consistent(result) ==
    /\ result.verdict = "PASS" <=> result.ended = "green"
    /\ result.verdict = "FAIL" => result.pack # 0

\* How far the sweep is.
Stage ==
    /\ pc \in {"target", "battery"} => Len(results) < Len(Jobs)
    /\ pc \in {"filing", "copying", "concluding", "done"} => Len(results) = Len(Jobs)
    /\ pc \in {"target", "battery"} => filed = 0
    /\ pc \in {"concluding", "done"} => filed = Len(results)
    /\ pc = "battery" => stamp \in Days
    /\ pc = "copying" => filed < Len(results) /\ IsSnapshot(results[filed + 1])

SweepInv ==
    /\ SweepTypes
    /\ Stage
    /\ \A i \in DOMAIN results : results[i].dialect = Jobs[i] /\ Consistent(results[i])

\* What the run of the sweep assumes: one table for each dialect, and batteries that
\* end on the day they started.
OneTableEach == \A i, j \in DOMAIN Jobs : Jobs[i] = Jobs[j] => i = j

\* While a sweep is under way, the packs of its green batteries stay as they are, and
\* what is filed shows.
FiledInv ==
    /\ pc = "battery" => stamp = day
    /\ pc \notin Resting =>
         \A i \in DOMAIN results :
           results[i].ended = "green" =>
             /\ results[i].pack # 0
             /\ packs[results[i].dialect][results[i].pack] = "PASS"
    /\ pc \notin Resting =>
         \A i \in 1..filed :
           IF results[i].ended = "green" THEN lastGreen[results[i].dialect] = "PASS"
           ELSE OpenBriefs(results[i].dialect) # {}
    /\ LastGreenIsGreen

-----------------------------------------------------------------------------
(* Types, and the stages of a sweep *)

LEMMA JobsAreTyped ==
  /\ Len(Jobs) \in Nat \ {0} /\ DOMAIN Jobs = 1..Len(Jobs)
  /\ \A i \in 1..Len(Jobs) : Jobs[i] \in Dialects
  BY SweepAssumption DEF Dialects

\* A result is appended: the ones before it stay.
LEMMA Appended ==
  ASSUME SweepTypes, NEW r \in AResult, results' = Append(results, r)
  PROVE  /\ results' \in Seq(AResult) /\ Len(results') = Len(results) + 1
         /\ DOMAIN results' = 1..(Len(results) + 1) /\ DOMAIN results = 1..Len(results)
         /\ Len(results) \in Nat
         /\ \A i \in 1..Len(results) : results'[i] = results[i]
         /\ results'[Len(results) + 1] = r
  BY DEF SweepTypes

LEMMA SweepInit == Init => SweepInv
  <1> SUFFICES ASSUME Init PROVE SweepInv
    OBVIOUS
  <1>1. results = <<>> /\ Len(results) = 0 /\ DOMAIN results = {}
    BY DEF Init
  <1>2. 1 \in 1..MaxDays /\ 0 \in 0..MaxDays /\ 0 \in 0..0
    BY SweepAssumption
  <1>3. results \in Seq(AResult)
    BY <1>1
  <1>4. SweepTypes
    BY <1>1, <1>2, <1>3 DEF Init, SweepTypes, Days, NoPacks, NoPack, PackKinds, FileKinds, Resting
  <1>5. Stage
    BY <1>1 DEF Init, Stage
  <1> QED
    BY <1>1, <1>4, <1>5 DEF SweepInv

\* The result of a battery is one of the job that was spawned, and says what it has.
LEMMA BatteryResult ==
  ASSUME SweepInv, pc = "battery", NEW ended \in Endings, NEW found \in BOOLEAN,
         NEW verdict \in Verdicts,
         verdict = "PASS" <=> ended = "green", verdict = "FAIL" => found
  PROVE  /\ Result(ended, verdict, found) \in AResult
         /\ Result(ended, verdict, found).dialect = Jobs[Len(results) + 1]
         /\ Consistent(Result(ended, verdict, found))
  <1>1. Job \in Dialects
    BY JobsAreTyped DEF Job, SweepInv, SweepTypes, Stage
  <1>2. stamp \in Days
    BY DEF SweepInv, Stage
  <1> QED
    BY <1>1, <1>2, SweepAssumption DEF Result, AResult, Consistent, Job, Days

\* The result of a battery, appended.
LEMMA BatteryStep ==
  ASSUME SweepInv, pc = "battery", NEW ended \in Endings, NEW found \in BOOLEAN,
         NEW verdict \in Verdicts,
         verdict = "PASS" <=> ended = "green", verdict = "FAIL" => found,
         results' = Append(results, Result(ended, verdict, found)), AfterJob,
         packs' \in [Dialects -> [Days -> PackKinds]],
         UNCHANGED <<day, driftLog, lastGreen, auto, stamp, filed, seenDrift, exit>>
  PROVE  SweepInv'
  <1> DEFINE r == Result(ended, verdict, found)
  <1>1. r \in AResult /\ r.dialect = Jobs[Len(results) + 1] /\ Consistent(r)
    BY BatteryResult
  <1>2. SweepTypes
    BY DEF SweepInv
  <1> HIDE DEF r
  <1>3. /\ results' \in Seq(AResult) /\ Len(results') = Len(results) + 1
        /\ DOMAIN results' = 1..(Len(results) + 1) /\ DOMAIN results = 1..Len(results)
        /\ Len(results) \in Nat
        /\ \A i \in 1..Len(results) : results'[i] = results[i]
        /\ results'[Len(results) + 1] = r
    BY <1>1, <1>2, Appended DEF r
  <1>4. filed = 0 /\ Len(results) < Len(Jobs)
    BY DEF SweepInv, Stage
  <1>5. SweepTypes'
    BY <1>2, <1>3, <1>4 DEF SweepTypes, AfterJob
  <1>6. Stage'
    <2>1. Len(results') = Len(results) + 1 /\ Len(results) \in Nat /\ Len(Jobs) \in Nat
      BY <1>3, JobsAreTyped
    <2> QED
      BY <2>1, <1>4 DEF Stage, AfterJob
  <1>7. \A i \in DOMAIN results' : results'[i].dialect = Jobs[i] /\ Consistent(results'[i])
    BY <1>1, <1>3 DEF SweepInv
  <1> QED
    BY <1>5, <1>6, <1>7 DEF SweepInv, Consistent

LEMMA PacksStayTyped ==
  ASSUME SweepTypes, NEW d, NEW ended, packs' = PacksAfter(d, ended)
  PROVE  packs' \in [Dialects -> [Days -> PackKinds]]
  BY DEF PacksAfter, SweepTypes, PackKinds

LEMMA SweepStep == SweepInv /\ [Next]_vars => SweepInv'
  <1> SUFFICES ASSUME SweepInv, [Next]_vars PROVE SweepInv'
    OBVIOUS
  <1>1. SweepTypes /\ Stage
    BY DEF SweepInv
  <1>2. /\ results \in Seq(AResult) /\ Len(results) \in Nat /\ DOMAIN results = 1..Len(results)
        /\ \A i \in DOMAIN results : results[i] \in AResult
    BY <1>1 DEF SweepTypes
  <1> USE JobsAreTyped
  <1>3. CASE Start
    <2>1. results' = <<>> /\ Len(results') = 0 /\ DOMAIN results' = {}
      BY <1>3 DEF Start
    <2>2. 0 \in 0..MaxDays /\ 0 \in 0..0 /\ results' \in Seq(AResult)
      BY <2>1, SweepAssumption
    <2>3. SweepTypes'
      BY <1>3, <1>1, <2>1, <2>2 DEF Start, SweepTypes, outside, evidence
    <2>4. Stage'
      BY <1>3, <2>1 DEF Start, Stage
    <2> QED
      BY <2>1, <2>3, <2>4 DEF SweepInv
  <1>4. CASE Abort
    BY <1>4, <1>1 DEF Abort, SweepInv, SweepTypes, Stage, outside, evidence, Resting, Consistent
  <1>5. CASE Spawn
    BY <1>5, <1>1, SweepAssumption
    DEF Spawn, SweepInv, SweepTypes, Stage, outside, evidence, Days, Consistent
  <1>6. CASE BatteryEnds
    <2>1. PICK ended \in Ends :
            LET after == PacksAfter(Job, ended)
                found == after[Job][stamp] # NoPack
            IN /\ packs' = after
               /\ results' = Append(results, Result(ended, VerdictOf(ended, found), found))
      BY <1>6 DEF BatteryEnds
    <2> DEFINE found == packs'[Job][stamp] # NoPack
               verdict == VerdictOf(ended, found)
    <2>2. /\ pc = "battery" /\ AfterJob
          /\ UNCHANGED <<day, driftLog, lastGreen, auto, stamp, filed, seenDrift, exit>>
      BY <1>6 DEF BatteryEnds, outside
    <2>3. ended \in Endings
      BY DEF Ends, Endings
    <2>4. found \in BOOLEAN /\ results' = Append(results, Result(ended, verdict, found))
      BY <2>1
    <2>5. /\ verdict \in Verdicts
          /\ verdict = "PASS" <=> ended = "green"
          /\ verdict = "FAIL" => found
      BY <2>3 DEF VerdictOf, Verdicts
    <2>6. packs' \in [Dialects -> [Days -> PackKinds]]
      <3>1. packs' = PacksAfter(Job, ended)
        BY <2>1
      <3> QED
        BY <3>1, <1>1, PacksStayTyped
    <2> HIDE DEF found, verdict
    <2> QED
      BY <2>2, <2>3, <2>4, <2>5, <2>6, BatteryStep
  <1>7. CASE BatteryTimesOut
    <2> DEFINE found == packs'[Job][stamp] # NoPack
    <2>1. /\ pc = "battery" /\ AfterJob
          /\ results' = Append(results, Result("timeout", "ERROR", found))
          /\ \E written \in Ends : packs' = PacksAfter(Job, written)
          /\ UNCHANGED <<day, driftLog, lastGreen, auto, stamp, filed, seenDrift, exit>>
      BY <1>7 DEF BatteryTimesOut, outside
    <2>2. found \in BOOLEAN
      OBVIOUS
    <2>3. packs' \in [Dialects -> [Days -> PackKinds]]
      BY <2>1, <1>1, PacksStayTyped
    <2> HIDE DEF found
    <2> QED
      BY <2>1, <2>2, <2>3, BatteryStep DEF Endings, Verdicts
  <1>8. CASE SnapshotStarts
    <2>1. /\ pc = "filing" /\ filed < Len(results) /\ IsSnapshot(results[filed + 1])
          /\ pc' = "copying"
          /\ UNCHANGED <<day, driftLog, packs, auto, stamp, results, filed, seenDrift, exit>>
      BY <1>8 DEF SnapshotStarts, outside
    <2>2. lastGreen' \in [Dialects -> FileKinds]
      BY <1>8, <1>1 DEF SnapshotStarts, SweepTypes, FileKinds
    <2>3. SweepTypes'
      BY <2>1, <2>2, <1>1 DEF SweepTypes
    <2>4. Stage'
      BY <2>1, <1>1 DEF Stage, IsSnapshot
    <2> QED
      BY <2>1, <2>3, <2>4 DEF SweepInv, Consistent
  <1>9. CASE SnapshotEnds
    <2> DEFINE r == results[filed + 1]
    <2>1. /\ pc = "copying" /\ filed' = filed + 1 /\ pc' = "filing"
          /\ UNCHANGED <<day, driftLog, packs, auto, stamp, results, seenDrift, exit>>
          /\ lastGreen' = [lastGreen EXCEPT ![r.dialect] = packs[r.dialect][r.pack]]
      BY <1>9 DEF SnapshotEnds, outside
    <2>2. filed < Len(results) /\ IsSnapshot(r)
      BY <2>1, <1>1 DEF Stage
    <2>3. filed' \in 0..Len(results) /\ filed + 1 \in DOMAIN results
      BY <2>1, <2>2, <1>1, <1>2 DEF SweepTypes
    <2>4. r.pack \in Days /\ r.dialect \in Dialects
      <3>1. r \in AResult
        BY <2>3, <1>2
      <3> QED
        BY <3>1, <2>2, SweepAssumption DEF IsSnapshot, AResult, Days
    <2>5. packs[r.dialect][r.pack] \in FileKinds
      BY <2>4, <1>1 DEF SweepTypes, FileKinds
    <2> HIDE DEF r
    <2>6. lastGreen' \in [Dialects -> FileKinds]
      BY <2>1, <2>5, <1>1 DEF SweepTypes
    <2>7. SweepTypes'
      BY <2>1, <2>3, <2>6, <1>1 DEF SweepTypes
    <2>8. Stage'
      BY <2>1, <1>1 DEF Stage
    <2> QED
      BY <2>1, <2>7, <2>8 DEF SweepInv, Consistent
  <1>10. CASE FileBrief
    <2>1. /\ pc = "filing" /\ filed < Len(results) /\ filed' = filed + 1
          /\ UNCHANGED <<day, driftLog, packs, lastGreen, pc, auto, stamp, results, seenDrift, exit>>
      BY <1>10 DEF FileBrief, outside, evidence
    <2>2. filed' \in 0..Len(results)
      BY <2>1, <1>1, <1>2 DEF SweepTypes
    <2>3. SweepTypes'
      BY <2>1, <2>2, <1>1 DEF SweepTypes
    <2>4. Stage'
      BY <2>1, <1>1 DEF Stage
    <2> QED
      BY <2>1, <2>3, <2>4 DEF SweepInv, Consistent
  <1>11. CASE CollectDriftEvents
    BY <1>11, <1>1
    DEF CollectDriftEvents, SweepInv, SweepTypes, Stage, outside, evidence, Consistent
  <1>12. CASE Conclude
    BY <1>12, <1>1 DEF Conclude, SweepInv, SweepTypes, Stage, outside, Resting, Consistent
  <1>13. CASE Killed
    <2>1. packs' \in [Dialects -> [Days -> PackKinds]]
      BY <1>13, <1>1, PacksStayTyped DEF Killed, SweepTypes
    <2>2. /\ pc' = "killed"
          /\ UNCHANGED <<day, driftLog, lastGreen, auto, stamp, results, filed, seenDrift, exit>>
      BY <1>13 DEF Killed, outside
    <2>3. SweepTypes'
      BY <2>1, <2>2, <1>1 DEF SweepTypes, Resting
    <2> QED
      BY <2>2, <2>3, <1>1 DEF SweepInv, Stage, Consistent
  <1>14. CASE DayPasses
    <2>1. day' \in Days
      BY <1>14, <1>1, SweepAssumption DEF DayPasses, SweepTypes, Days
    <2>2. UNCHANGED <<driftLog, packs, lastGreen, pc, auto, stamp, results, filed, seenDrift, exit>>
      BY <1>14 DEF DayPasses, evidence, sweep
    <2>3. SweepTypes'
      BY <2>1, <2>2, <1>1 DEF SweepTypes
    <2> QED
      BY <2>2, <2>3, <1>1 DEF SweepInv, Stage, Consistent
  <1>15. CASE EmitDrift \/ ClearDriftLog \/ CommitBriefs \/ \E b \in briefs : CloseBrief(b)
    <2>1. UNCHANGED <<day, packs, lastGreen, pc, auto, stamp, results, filed, seenDrift, exit>>
      BY <1>15
      DEF EmitDrift, ClearDriftLog, CommitBriefs, CloseBrief, outside, evidence, sweep
    <2>2. driftLog' \in BOOLEAN
      BY <1>15, <1>1
      DEF EmitDrift, ClearDriftLog, CommitBriefs, CloseBrief, outside, SweepTypes
    <2>3. SweepTypes'
      BY <2>1, <2>2, <1>1 DEF SweepTypes
    <2> QED
      BY <2>1, <2>3, <1>1 DEF SweepInv, Stage, Consistent
  <1>16. ASSUME NEW d \in Dialects, HandRun(d) PROVE SweepInv'
    <2>1. PICK ended : packs' = PacksAfter(d, ended)
      BY <1>16 DEF HandRun
    <2>2. packs' \in [Dialects -> [Days -> PackKinds]]
      BY <2>1, <1>1, PacksStayTyped
    <2>3. UNCHANGED <<day, driftLog, lastGreen, pc, auto, stamp, results, filed, seenDrift, exit>>
      BY <1>16 DEF HandRun, outside, sweep
    <2>4. SweepTypes'
      BY <2>2, <2>3, <1>1 DEF SweepTypes
    <2> QED
      BY <2>3, <2>4, <1>1 DEF SweepInv, Stage, Consistent
  <1>17. ASSUME NEW d \in Dialects, PlacePack(d) PROVE SweepInv'
    <2>1. UNCHANGED <<day, packs, driftLog, pc, auto, stamp, results, filed, seenDrift, exit>>
      BY <1>17 DEF PlacePack, outside, sweep
    <2>2. lastGreen' \in [Dialects -> FileKinds]
      BY <1>17, <1>1 DEF PlacePack, SweepTypes, FileKinds
    <2>3. SweepTypes'
      BY <2>1, <2>2, <1>1 DEF SweepTypes
    <2> QED
      BY <2>1, <2>3, <1>1 DEF SweepInv, Stage, Consistent
  <1>18. CASE UNCHANGED vars
    <2>1. UNCHANGED <<day, packs, lastGreen, driftLog, pc, auto, stamp, results, filed, seenDrift, exit>>
      BY <1>18 DEF vars, outside, evidence, sweep
    <2>2. SweepTypes'
      BY <2>1, <1>1 DEF SweepTypes
    <2> QED
      BY <2>1, <2>2, <1>1 DEF SweepInv, Stage, Consistent
  <1> QED
    BY <1>3, <1>4, <1>5, <1>6, <1>7, <1>8, <1>11, <1>12, <1>13, <1>14, <1>15, <1>16, <1>18, <1>9,
       <1>10, <1>17 DEF Next

\* The stages of a sweep, and what its results say of themselves.
THEOREM SweepIsSound == Spec => []SweepInv
  BY SweepInit, SweepStep, PTL DEF Spec

-----------------------------------------------------------------------------
(* What the sweep files *)

\* A battery writes the pack of its own dialect and the present day.
LEMMA PackIsOfItsDialect ==
  ASSUME SweepTypes, NEW d \in Dialects, NEW ended \in Ends, packs' = PacksAfter(d, ended)
  PROVE  /\ \A c \in Dialects \ {d} : packs'[c] = packs[c]
         /\ ended = "green" => packs'[d][day] = "PASS"
  BY DEF SweepTypes, PacksAfter

\* The packs of the results so far outlive a battery that adds one.
LEMMA GreenPacksStay ==
  ASSUME SweepInv, FiledInv, OneTableEach, pc = "battery",
         NEW r \in AResult, results' = Append(results, r), r.dialect = Jobs[Len(results) + 1],
         \A c \in Dialects \ {Job} : packs'[c] = packs[c],
         r.ended = "green" => r.pack # 0 /\ packs'[r.dialect][r.pack] = "PASS",
         UNCHANGED <<lastGreen, committed, filed>>, pc' # "battery"
  PROVE  FiledInv'
  <1>1. SweepTypes
    BY DEF SweepInv
  <1>2. /\ DOMAIN results' = 1..(Len(results) + 1) /\ DOMAIN results = 1..Len(results)
        /\ Len(results) \in Nat
        /\ \A i \in 1..Len(results) : results'[i] = results[i]
        /\ results'[Len(results) + 1] = r
    BY <1>1, Appended
  <1>3. filed' = 0 /\ Len(results) + 1 \in 1..Len(Jobs) /\ Len(results) < Len(Jobs)
    BY <1>2, JobsAreTyped DEF SweepInv, Stage
  <1>4. ASSUME NEW i \in DOMAIN results', results'[i].ended = "green"
        PROVE  /\ results'[i].pack # 0
               /\ packs'[results'[i].dialect][results'[i].pack] = "PASS"
    <2>1. CASE i = Len(results) + 1
      BY <1>2, <1>4, <2>1
    <2>2. CASE i # Len(results) + 1
      <3>1. i \in 1..Len(results) /\ results'[i] = results[i]
        BY <1>2, <2>2
      <3>2. results[i].dialect = Jobs[i] /\ Jobs[i] \in Dialects /\ i \in 1..Len(Jobs)
        BY <3>1, <1>2, <1>3, JobsAreTyped DEF SweepInv
      <3>3. Jobs[i] # Job
        BY <2>2, <3>2, <1>3, JobsAreTyped DEF OneTableEach, Job
      <3>4. /\ results[i].pack # 0
            /\ packs[results[i].dialect][results[i].pack] = "PASS"
        BY <3>1, <1>2, <1>4 DEF FiledInv, Resting
      <3> QED
        BY <3>1, <3>2, <3>3, <3>4
    <2> QED
      BY <2>1, <2>2
  <1>5. \A i \in 1..filed' : FALSE
    BY <1>3
  <1> QED
    BY <1>4, <1>5 DEF FiledInv, LastGreenIsGreen

\* When all is filed and nothing failed, every dialect has its last green pack.
LEMMA AllGreenFiled ==
  ASSUME SweepInv, FiledInv, pc = "concluding", ~SomeFailed(results)
  PROVE  /\ \A i \in DOMAIN results :
               /\ results[i].pack # 0
               /\ packs[results[i].dialect][results[i].pack] = "PASS"
               /\ lastGreen[results[i].dialect] = "PASS"
         /\ \A d \in Dialects : lastGreen[d] = "PASS"
  <1>1. /\ filed = Len(results) /\ Len(results) = Len(Jobs)
        /\ DOMAIN results = 1..Len(results)
    BY DEF SweepInv, SweepTypes, Stage
  <1>2. \A i \in DOMAIN results : results[i].ended = "green" /\ results[i].dialect = Jobs[i]
    BY DEF SweepInv, Consistent, SomeFailed
  <1>3. \A i \in DOMAIN results :
           /\ results[i].pack # 0
           /\ packs[results[i].dialect][results[i].pack] = "PASS"
           /\ lastGreen[results[i].dialect] = "PASS"
    BY <1>1, <1>2 DEF FiledInv, Resting
  <1>4. ASSUME NEW d \in Dialects PROVE lastGreen[d] = "PASS"
    <2>1. PICK i \in DOMAIN Jobs : d = Jobs[i]
      BY DEF Dialects
    <2>2. i \in DOMAIN results
      BY <1>1, JobsAreTyped
    <2> QED
      BY <2>1, <2>2, <1>2, <1>3
  <1> QED
    BY <1>3, <1>4

LEMMA FiledStep ==
  ASSUME OneTableEach, WithinTheDay
  PROVE  SweepInv /\ FiledInv /\ [Next]_vars => FiledInv'
  <1> SUFFICES ASSUME SweepInv, FiledInv, [Next]_vars PROVE FiledInv'
    OBVIOUS
  <1>1. SweepTypes
    BY DEF SweepInv
  <1>2. Len(results) \in Nat /\ DOMAIN results = 1..Len(results)
    BY <1>1 DEF SweepTypes
  <1>3. LastGreenIsGreen
    BY DEF FiledInv
  <1>4. CASE Start
    <2>1. DOMAIN results' = {} /\ \A i \in 1..filed' : FALSE
      BY <1>4 DEF Start
    <2> QED
      BY <1>4, <1>3, <2>1 DEF Start, evidence, FiledInv, LastGreenIsGreen
  <1>5. CASE Abort \/ Killed
    BY <1>5, <1>3 DEF Abort, Killed, evidence, Resting, FiledInv, LastGreenIsGreen
  <1>6. CASE Spawn \/ CollectDriftEvents
    BY <1>6 DEF Spawn, CollectDriftEvents, outside, evidence, root, Resting, FiledInv,
       LastGreenIsGreen, OpenBriefs
  <1>7. CASE BatteryEnds
    <2>1. PICK ended \in Ends :
            LET after == PacksAfter(Job, ended)
                found == after[Job][stamp] # NoPack
            IN /\ packs' = after
               /\ results' = Append(results, Result(ended, VerdictOf(ended, found), found))
      BY <1>7 DEF BatteryEnds
    <2> DEFINE found == packs'[Job][stamp] # NoPack
               verdict == VerdictOf(ended, found)
               r == Result(ended, verdict, found)
    <2>2. pc = "battery" /\ pc' # "battery" /\ UNCHANGED <<lastGreen, committed, filed>>
      BY <1>7 DEF BatteryEnds, AfterJob
    <2>3. ended \in Endings
      BY DEF Ends, Endings
    <2>4. packs' = PacksAfter(Job, ended) /\ results' = Append(results, r)
      BY <2>1
    <2>5. found \in BOOLEAN
      OBVIOUS
    <2>6. /\ verdict \in Verdicts
          /\ verdict = "PASS" <=> ended = "green"
          /\ verdict = "FAIL" => found
      BY <2>3 DEF VerdictOf, Verdicts
    <2>7. r \in AResult /\ r.dialect = Jobs[Len(results) + 1]
      <3> HIDE DEF found, verdict
      <3> QED
        BY <2>2, <2>3, <2>5, <2>6, BatteryResult
    <2>8. Job \in Dialects
      BY <2>2, <1>2, JobsAreTyped DEF Job, SweepInv, Stage
    <2>9. ended = "green" => packs'[Job][stamp] = "PASS" /\ stamp # 0
      BY <2>2, <2>4, <2>8, <1>1, PackIsOfItsDialect DEF FiledInv, SweepTypes, Days
    <2>10. r.ended = "green" => r.pack # 0 /\ packs'[r.dialect][r.pack] = "PASS"
      BY <2>9 DEF Result, NoPack
    <2>11. \A c \in Dialects \ {Job} : packs'[c] = packs[c]
      BY <2>4, <2>8, <1>1, PackIsOfItsDialect
    <2> HIDE DEF r
    <2> QED
      BY <2>2, <2>4, <2>7, <2>10, <2>11, GreenPacksStay
  <1>8. CASE BatteryTimesOut
    <2> DEFINE found == packs'[Job][stamp] # NoPack
               r == Result("timeout", "ERROR", found)
    <2>1. /\ pc = "battery" /\ pc' # "battery" /\ results' = Append(results, r)
          /\ \E written \in Ends : packs' = PacksAfter(Job, written)
          /\ UNCHANGED <<lastGreen, committed, filed>>
      BY <1>8 DEF BatteryTimesOut, AfterJob
    <2>2. \A c \in Dialects \ {Job} : packs'[c] = packs[c]
      <3>1. Job \in Dialects
        BY <2>1, <1>2, JobsAreTyped DEF Job, SweepInv, Stage
      <3> QED
        BY <2>1, <3>1, <1>1, PackIsOfItsDialect
    <2>3. r \in AResult /\ r.dialect = Jobs[Len(results) + 1]
      <3>1. found \in BOOLEAN
        OBVIOUS
      <3> HIDE DEF found
      <3> QED
        BY <2>1, <3>1, BatteryResult DEF Endings, Verdicts
    <2>4. r.ended # "green"
      BY DEF Result
    <2> HIDE DEF r
    <2> QED
      BY <2>1, <2>2, <2>3, <2>4, GreenPacksStay
  <1>9. CASE SnapshotStarts
    <2> DEFINE r == results[filed + 1]
    <2>1. /\ pc = "filing" /\ filed < Len(results) /\ filed \in Nat /\ pc' = "copying"
          /\ lastGreen' = [lastGreen EXCEPT ![r.dialect] = "torn"]
          /\ UNCHANGED <<packs, committed, briefs, results, filed>>
      BY <1>9, <1>1 DEF SnapshotStarts, root, SweepTypes
    <2>2. ASSUME NEW i \in 1..filed
          PROVE  /\ results[i].dialect \in Dialects
                 /\ results[i].dialect # r.dialect
      <3>1. i \in 1..Len(Jobs) /\ filed + 1 \in 1..Len(Jobs) /\ i # filed + 1
            /\ i \in DOMAIN results /\ filed + 1 \in DOMAIN results
        BY <2>1, <1>2 DEF SweepInv, Stage
      <3>2. results[i].dialect = Jobs[i] /\ r.dialect = Jobs[filed + 1]
        BY <3>1 DEF SweepInv
      <3> QED
        BY <3>1, <3>2, JobsAreTyped DEF OneTableEach
    <2>3. \A d \in Dialects : lastGreen'[d] = IF d = r.dialect THEN "torn" ELSE lastGreen[d]
      BY <2>1, <1>1 DEF SweepTypes
    <2> HIDE DEF r
    <2>4. LastGreenIsGreen'
      BY <2>1, <2>3, <1>3 DEF LastGreenIsGreen
    <2>5. ASSUME NEW i \in 1..filed'
          PROVE  IF results[i].ended = "green" THEN lastGreen'[results[i].dialect] = "PASS"
                 ELSE OpenBriefs(results[i].dialect)' # {}
      BY <2>1, <2>2, <2>3 DEF FiledInv, Resting, OpenBriefs
    <2> QED
      BY <2>1, <2>4, <2>5 DEF FiledInv, Resting, OpenBriefs
  <1>10. CASE SnapshotEnds
    <2> DEFINE r == results[filed + 1]
    <2>1. /\ pc = "copying" /\ filed' = filed + 1 /\ filed \in Nat /\ pc' = "filing"
          /\ lastGreen' = [lastGreen EXCEPT ![r.dialect] = packs[r.dialect][r.pack]]
          /\ UNCHANGED <<packs, committed, briefs, results>>
      BY <1>10, <1>1 DEF SnapshotEnds, root, SweepTypes
    <2>2. filed < Len(results) /\ IsSnapshot(r)
      BY <2>1 DEF SweepInv, Stage
    <2>3. filed + 1 \in DOMAIN results
      BY <2>1, <2>2, <1>2
    <2>4. r.ended = "green"
      BY <2>2, <2>3 DEF SweepInv, Consistent, IsSnapshot
    <2>5. packs[r.dialect][r.pack] = "PASS"
      BY <2>1, <2>3, <2>4 DEF FiledInv, Resting
    <2>6. \A d \in Dialects : lastGreen'[d] = IF d = r.dialect THEN "PASS" ELSE lastGreen[d]
      BY <2>1, <2>5, <1>1 DEF SweepTypes
    <2>7. \A i \in 1..filed' : results[i].dialect \in Dialects /\ (i = filed + 1 \/ i \in 1..filed)
      <3>1. \A i \in 1..Len(results) : results[i] \in AResult
        BY <1>1, <1>2 DEF SweepTypes
      <3>2. \A i \in 1..Len(results) : results[i].dialect \in Dialects
        BY <3>1 DEF AResult
      <3>3. \A i \in 1..filed' : i \in 1..Len(results) /\ (i = filed + 1 \/ i \in 1..filed)
        BY <2>1, <2>2, <1>2
      <3> QED
        BY <3>2, <3>3
    <2>8. ASSUME NEW i \in 1..filed'
          PROVE  IF results[i].ended = "green" THEN lastGreen'[results[i].dialect] = "PASS"
                 ELSE OpenBriefs(results[i].dialect)' # {}
      BY <2>1, <2>4, <2>6, <2>7 DEF FiledInv, Resting, OpenBriefs
    <2>9. LastGreenIsGreen'
      BY <2>1, <2>6, <1>3 DEF LastGreenIsGreen
    <2> HIDE DEF r
    <2> QED
      BY <2>1, <2>8, <2>9 DEF FiledInv, Resting, OpenBriefs
  <1>11. CASE FileBrief
    <2> DEFINE r == results[filed + 1]
    <2>1. /\ pc = "filing" /\ filed < Len(results) /\ filed' = filed + 1 /\ filed \in Nat
          /\ UNCHANGED <<packs, lastGreen, committed, pc, results>>
          /\ ~IsSnapshot(r)
          /\ briefs' = IF NeedsBrief(r) THEN briefs \union {<<r.dialect, day>>} ELSE briefs
      BY <1>11, <1>1 DEF FileBrief, evidence, SweepTypes
    <2>2. filed + 1 \in DOMAIN results
      BY <2>1, <1>2
    <2>3. r \in AResult /\ Consistent(r)
      BY <2>2, <1>1, <1>2 DEF SweepTypes, SweepInv
    <2>4. r.ended # "green"
      BY <2>1, <2>2, <2>3 DEF FiledInv, Resting, IsSnapshot, Consistent
    <2>5. NeedsBrief(r)
      BY <2>3, <2>4 DEF NeedsBrief, Consistent, Verdicts, AResult
    <2>6. briefs' = briefs \union {<<r.dialect, day>>}
      BY <2>1, <2>5
    <2>7. <<r.dialect, day>> \in briefs' /\ <<r.dialect, day>>[1] = r.dialect
      BY <2>6
    <2>8. \E b \in briefs' : b[1] = r.dialect
      BY <2>7
    <2>9. ASSUME NEW i \in 1..filed'
          PROVE  IF results[i].ended = "green" THEN lastGreen'[results[i].dialect] = "PASS"
                 ELSE OpenBriefs(results[i].dialect)' # {}
      <3>1. i = filed + 1 \/ i \in 1..filed
        BY <2>1
      <3>2. CASE i = filed + 1
        BY <3>2, <2>8, <2>1, <2>4 DEF OpenBriefs
      <3>3. CASE i \in 1..filed
        BY <3>3, <2>1, <2>6 DEF FiledInv, Resting, OpenBriefs
      <3> QED
        BY <3>1, <3>2, <3>3
    <2>10. LastGreenIsGreen'
      BY <2>1, <1>3 DEF LastGreenIsGreen
    <2> HIDE DEF r
    <2> QED
      BY <2>1, <2>9, <2>10 DEF FiledInv, Resting
  <1>12. CASE Conclude
    <2>1. pc = "concluding" /\ pc' = "done" /\ UNCHANGED lastGreen
      BY <1>12 DEF Conclude
    <2>2. \A d \in Dialects : committed'.lastGreen[d] \in {NoPack, "PASS"}
      <3>1. CASE UNCHANGED committed
        BY <3>1, <1>3 DEF LastGreenIsGreen
      <3>2. CASE ShouldAutoCommit /\ committed' = [packs |-> packs, lastGreen |-> lastGreen]
        BY <3>2, <2>1, AllGreenFiled DEF ShouldAutoCommit
      <3> QED
        BY <1>12, <3>1, <3>2 DEF Conclude
    <2> QED
      BY <2>1, <2>2, <1>3 DEF FiledInv, LastGreenIsGreen, Resting
  <1>13. CASE DayPasses
    BY <1>13, <1>3 DEF DayPasses, evidence, root, sweep, FiledInv, LastGreenIsGreen, OpenBriefs
  <1>14. CASE EmitDrift \/ ClearDriftLog
    BY <1>14, <1>3 DEF EmitDrift, ClearDriftLog, evidence, root, sweep, FiledInv,
       LastGreenIsGreen, OpenBriefs
  <1>15. CASE CommitBriefs \/ (\E b \in briefs : CloseBrief(b)) \/ \E d \in Dialects : HandRun(d)
    BY <1>15, <1>3 DEF CommitBriefs, CloseBrief, HandRun, evidence, sweep, Resting, FiledInv,
       LastGreenIsGreen
  <1>16. ASSUME NEW d \in Dialects, PlacePack(d) PROVE FiledInv'
    <2>1. pc \in Resting /\ pc' \in Resting /\ UNCHANGED committed
      BY <1>16 DEF PlacePack, sweep
    <2>2. \A c \in Dialects : lastGreen'[c] # "FAIL"
      BY <1>16, <1>1, <1>3 DEF PlacePack, SweepTypes, LastGreenIsGreen
    <2> QED
      BY <2>1, <2>2, <1>3 DEF FiledInv, LastGreenIsGreen, Resting
  <1>17. CASE UNCHANGED vars
    BY <1>17 DEF vars, outside, evidence, root, sweep, FiledInv, LastGreenIsGreen, OpenBriefs
  <1> QED
    BY <1>4, <1>5, <1>6, <1>7, <1>8, <1>9, <1>13, <1>14, <1>15, <1>17, <1>10, <1>11, <1>12, <1>16
    DEF Next

LEMMA FiledInit == Init => FiledInv
  BY DEF Init, FiledInv, LastGreenIsGreen, Resting, NoPack

\* A red pack never becomes the last green one of a dialect, and what HEAD has of
\* last-green is whole and passed, though a sweep can be stopped in the copy; as long
\* as each dialect has one table and a battery ends on the day it started.
THEOREM SnapshotsAreGreen ==
  ASSUME OneTableEach, WithinTheDay
  PROVE  Spec => []LastGreenIsGreen
  <1>1. SweepInv /\ FiledInv /\ [Next]_vars => FiledInv'
    BY FiledStep
  <1>2. FiledInv => LastGreenIsGreen
    BY DEF FiledInv
  <1> QED
    BY <1>1, <1>2, FiledInit, SweepIsSound, PTL DEF Spec

\* When a sweep concludes, the roster shows each dialect as its batteries left it.
THEOREM RosterShowsTheSweep ==
  ASSUME OneTableEach, WithinTheDay
  PROVE  Spec => BoardShowsTheSweep
  <1> DEFINE Shows ==
        pc # "done" /\ pc' = "done" =>
          \A d \in Dialects :
            LET mine == {i \in DOMAIN results : results[i].dialect = d}
            IN IF \E i \in mine : results[i].ended # "green"
               THEN OpenBriefs(d) # {} /\ ConformanceState(d) # "passing"
               ELSE mine # {} => ConformanceState(d) \in {"passing", "drifted"}
  <1>1. SweepInv /\ FiledInv /\ [Next]_vars => [Shows]_vars
    <2> SUFFICES ASSUME SweepInv, FiledInv, [Next]_vars, pc # "done", pc' = "done",
                        NEW d \in Dialects
        PROVE  LET mine == {i \in DOMAIN results : results[i].dialect = d}
               IN IF \E i \in mine : results[i].ended # "green"
                  THEN OpenBriefs(d) # {} /\ ConformanceState(d) # "passing"
                  ELSE mine # {} => ConformanceState(d) \in {"passing", "drifted"}
      OBVIOUS
    <2>1. pc = "concluding"
      BY DEF Next, vars, sweep, Start, Abort, Spawn, BatteryEnds, BatteryTimesOut, AfterJob,
         SnapshotStarts, SnapshotEnds, FileBrief, CollectDriftEvents, Conclude, Killed, DayPasses,
         EmitDrift, ClearDriftLog, CommitBriefs, HandRun, PlacePack, CloseBrief, Resting
    <2>2. filed = Len(results) /\ DOMAIN results = 1..Len(results)
      BY <2>1 DEF SweepInv, SweepTypes, Stage
    <2>3. \A i \in DOMAIN results :
            IF results[i].ended = "green" THEN lastGreen[results[i].dialect] = "PASS"
            ELSE OpenBriefs(results[i].dialect) # {}
      BY <2>1, <2>2 DEF FiledInv, Resting
    <2>4. lastGreen[d] \in FileKinds
      BY DEF SweepInv, SweepTypes
    <2>5. OpenBriefs(d) # {} => ConformanceState(d) # "passing"
      BY <2>4 DEF ConformanceState, FileKinds, PackKinds, NoPack
    <2>6. lastGreen[d] = "PASS" => ConformanceState(d) \in {"passing", "drifted"}
      BY DEF ConformanceState, NoPack
    <2> QED
      BY <2>3, <2>5, <2>6
  <1>2. SweepInv /\ FiledInv /\ [Next]_vars => FiledInv'
    BY FiledStep
  <1>3. Spec => [][Shows]_vars
    BY <1>1, <1>2, FiledInit, SweepIsSound, PTL DEF Spec
  <1> QED
    BY <1>3, PTL DEF BoardShowsTheSweep
-----------------------------------------------------------------------------
(* What the sweep tells *)

\* What is concluded, of the results, the drift log and HEAD.
ToldInv ==
    pc = "done" =>
        /\ exit = 0 => /\ ~seenDrift /\ ~SomeFailed(results)
                       /\ auto => \A i \in DOMAIN results : InHead(results[i])
        /\ exit = 1 => seenDrift \/ auto \/ SomeFailed(results)

LEMMA ToldStep == SweepInv /\ FiledInv /\ ToldInv /\ [Next]_vars => ToldInv'
  <1> SUFFICES ASSUME SweepInv, FiledInv, ToldInv, [Next]_vars PROVE ToldInv'
    OBVIOUS
  <1>1. CASE Conclude
    <2>1. PICK refused \in {FALSE, ShouldAutoCommit} :
             /\ committed' = IF ShouldAutoCommit /\ ~refused
                             THEN [packs |-> packs, lastGreen |-> lastGreen] ELSE committed
             /\ exit' = IF SomeFailed(results) \/ seenDrift \/ refused THEN 1 ELSE 0
      BY <1>1 DEF Conclude
    <2>2. pc = "concluding" /\ UNCHANGED <<auto, results, seenDrift>>
      BY <1>1 DEF Conclude
    <2>3. refused => auto
      BY <2>1 DEF ShouldAutoCommit
    <2>4. ASSUME exit' = 0, auto, NEW i \in DOMAIN results PROVE InHead(results[i])'
      <3>1. ~SomeFailed(results) /\ ~seenDrift /\ ~refused
        BY <2>1, <2>4
      <3>2. committed' = [packs |-> packs, lastGreen |-> lastGreen]
        BY <2>1, <2>4, <3>1 DEF ShouldAutoCommit
      <3>3. /\ results[i].pack # 0
            /\ packs[results[i].dialect][results[i].pack] = "PASS"
            /\ lastGreen[results[i].dialect] = "PASS"
        BY <2>2, <3>1, AllGreenFiled
      <3> QED
        BY <2>2, <3>2, <3>3 DEF InHead
    <2> QED
      BY <2>1, <2>2, <2>3, <2>4 DEF ToldInv, SomeFailed
  <1>2. CASE UNCHANGED <<sweep, committed>>
    BY <1>2 DEF sweep, ToldInv, SomeFailed, InHead
  <1>3. CASE pc' # "done"
    BY <1>3 DEF ToldInv
  <1>4. Conclude \/ UNCHANGED <<sweep, committed>> \/ pc' # "done"
    BY DEF Next, vars, sweep, evidence, Start, Abort, Spawn, BatteryEnds, BatteryTimesOut, AfterJob,
       SnapshotStarts, SnapshotEnds, FileBrief, CollectDriftEvents, Killed, DayPasses, EmitDrift,
       ClearDriftLog, CommitBriefs, HandRun, PlacePack, CloseBrief, Resting
  <1> QED
    BY <1>1, <1>2, <1>3, <1>4

\* An exit of 0 means that every battery was green, that no drift was read and that
\* what was to be committed is in HEAD; an exit of 1 has a cause.  For every list of
\* targets with one table for each dialect, and batteries that end on the day they
\* started.
THEOREM ExitTellsTheWorst ==
  ASSUME OneTableEach, WithinTheDay
  PROVE  Spec => []SweepTellsTheWorst
  <1>1. Init => ToldInv
    BY DEF Init, ToldInv
  <1>2. SweepInv /\ FiledInv /\ ToldInv /\ [Next]_vars => ToldInv'
    BY ToldStep
  <1>3. SweepInv /\ FiledInv /\ [Next]_vars => FiledInv'
    BY FiledStep
  <1>4. SweepInv /\ ToldInv => SweepTellsTheWorst
    <2> SUFFICES ASSUME SweepInv, ToldInv, pc = "done" PROVE SweepTellsTheWorst
      BY DEF SweepTellsTheWorst
    <2>1. Len(results) = Len(Jobs)
      BY DEF SweepInv, Stage
    <2>2. \A i \in DOMAIN results : results[i].verdict = "PASS" <=> results[i].ended = "green"
      BY DEF SweepInv, Consistent
    <2> QED
      BY <2>1, <2>2 DEF ToldInv, SomeFailed, SweepTellsTheWorst
  <1> QED
    BY <1>1, <1>2, <1>3, <1>4, FiledInit, SweepIsSound, PTL DEF Spec
=============================================================================
