-------------------------- MODULE SinkWriterProofs --------------------------
(***************************************************************************)
(* Theorems about SinkWriter, for every set of processes and of tables     *)
(* written, and any number of kills and power losses.                      *)
(***************************************************************************)
EXTENDS SinkWriter, FiniteSetTheorems, TLAPS

\* Past the encoder a tempfile is whole or gone, so that what is renamed is
\* whole; what a syncing sink can lose are names, not data.
WriterInv ==
    /\ TypeOK
    /\ PublishedIsWhole
    /\ Syncs => Torn \notin onDisk
    /\ published \in onDisk
    /\ \A p \in Processes : pc[p] \in Writing => frame[p] \in Frames
    /\ \A p \in Processes : pc[p] \in {"encoded", "synced"} => temp[p] # "partial"
    /\ \A p \in Processes : pc[p] \in {"synced", "renamed"} => Syncs
    /\ ReturnedSurvives
    /\ OnlyKillsLeaveTempfiles

LEMMA WriterInit == Init => WriterInv
  <1> SUFFICES ASSUME Init PROVE WriterInv
    OBVIOUS
  <1>1. TypeOK
    BY SinkAssumption DEF Init, TypeOK
  <1>2. OnlyKillsLeaveTempfiles
    BY DEF Init, OnlyKillsLeaveTempfiles, Tempfiles
  <1>3. Absent # Torn
    BY DEF Absent, Torn
  <1> QED
    BY <1>1, <1>2, <1>3 DEF Init, WriterInv, PublishedIsWhole, ReturnedSurvives, Writing, Syncs

\* The writing part of a step concerns one process.
LEMMA WriterProcessStep ==
  ASSUME WriterInv, NEW p \in Processes, ProcessStep(p)
  PROVE  WriterInv'
  <1> USE SinkAssumption DEF WriterInv, TypeOK, PublishedIsWhole, ReturnedSurvives,
         OnlyKillsLeaveTempfiles, Tempfiles, Writing, Syncs
  <1>1. CASE Start(p)
    BY <1>1 DEF Start
  <1>2. CASE \E f \in Frames : Begin(p, f)
    BY <1>2 DEF Begin
  <1>3. CASE Encode(p)
    BY <1>3 DEF Encode
  <1>4. CASE Raises(p)
    BY <1>4 DEF Raises, Leave
  <1>5. CASE SyncTempfile(p)
    BY <1>5 DEF SyncTempfile
  <1>6. CASE Rename(p)
    <2>1. /\ temp[p] = "whole" /\ published' = frame[p]
          /\ temp' = [temp EXCEPT ![p] = "none"]
          /\ UNCHANGED <<sink, frame, orphans, kills, powerLosses>>
      BY <1>6 DEF Rename, Leave
    <2>2. CASE Syncs
      <3>1. /\ pc' = [pc EXCEPT ![p] = "renamed"]
            /\ onDisk' = onDisk \union {published'}
            /\ recent' = recent \union {frame[p]}
        BY <1>6, <2>2 DEF Rename
      <3>2. frame[p] # Torn /\ frame[p] \in Frames
        BY <2>1
      <3> QED
        BY <2>1, <2>2, <3>1, <3>2
    <2>3. CASE ~Syncs
      <3>1. /\ pc' = [pc EXCEPT ![p] = "idle"]
            /\ onDisk' = (onDisk \union {published'}) \union {Torn}
            /\ recent' = {frame[p]}
        BY <1>6, <2>3 DEF Rename, Leave
      <3> QED
        BY <2>1, <2>3, <3>1
    <2> QED
      BY <2>2, <2>3
  <1>7. CASE SyncDirectory(p)
    BY <1>7 DEF SyncDirectory, Leave
  <1>8. CASE Terminate(p)
    BY <1>8 DEF Terminate
  <1>9. CASE Kill(p)
    BY <1>9 DEF Kill
  <1> QED
    BY <1>1, <1>2, <1>3, <1>4, <1>5, <1>6, <1>7, <1>8, <1>9 DEF ProcessStep

LEMMA WriterPowerLoss ==
  ASSUME WriterInv, PowerLoss
  PROVE  WriterInv'
  <1>1. Syncs' = Syncs /\ powerLosses' # 0
    BY SinkAssumption DEF Syncs, PowerLoss, WriterInv, TypeOK
  <1>2. Cardinality(Tempfiles) \in Nat
    <2>1. Tempfiles \in SUBSET Processes
      BY DEF Tempfiles
    <2> QED
      BY <2>1, SinkAssumption, FS_Subset, FS_CardinalityType
  <1>3. orphans' \in Nat /\ kills' \in 0..MaxKills /\ kills' # 0
        /\ powerLosses' \in 0..MaxPowerLosses
    BY <1>2, SinkAssumption DEF PowerLoss, WriterInv, TypeOK
  <1>4. /\ pc' = [p \in Processes |-> "down"]
        /\ temp' = [p \in Processes |-> "none"]
        /\ published' \in onDisk /\ onDisk' = {published'}
        /\ UNCHANGED <<sink, frame, recent>>
    BY DEF PowerLoss
  <1> QED
    BY <1>1, <1>3, <1>4 DEF WriterInv, TypeOK, PublishedIsWhole, ReturnedSurvives,
       OnlyKillsLeaveTempfiles, Tempfiles, Writing

LEMMA WriterStep == WriterInv /\ [Next]_vars => WriterInv'
  <1> SUFFICES ASSUME WriterInv, [Next]_vars PROVE WriterInv'
    OBVIOUS
  <1>1. CASE \E p \in Processes : ProcessStep(p)
    BY <1>1, WriterProcessStep
  <1>2. CASE WriteBack
    BY <1>2 DEF WriteBack, WriterInv, TypeOK, PublishedIsWhole, ReturnedSurvives,
       OnlyKillsLeaveTempfiles, Tempfiles, Syncs
  <1>3. CASE PowerLoss
    BY <1>3, WriterPowerLoss
  <1>4. CASE UNCHANGED vars
    BY <1>4 DEF vars, WriterInv, TypeOK, PublishedIsWhole, ReturnedSurvives,
       OnlyKillsLeaveTempfiles, Tempfiles, Syncs
  <1> QED
    BY <1>1, <1>2, <1>3, <1>4 DEF Next

\* The inductive invariant of a sink.
THEOREM WriterIsSound == Spec => []WriterInv
  <1>1. WriterInv /\ [Next]_vars => WriterInv'
    BY WriterStep
  <1> QED
    BY <1>1, WriterInit, PTL DEF Spec

\* A reader of the final path never finds a part of a table, whatever other
\* processes, exceptions, signals and kills do, if the sink syncs or the machine
\* has not failed.
THEOREM ReadersFindWholeTables == Spec => []PublishedIsWhole
  <1>1. WriterInv => PublishedIsWhole
    BY DEF WriterInv
  <1> QED
    BY <1>1, WriterIsSound, PTL

\* What the Arrow sink has returned from writing survives a power loss.
THEOREM WritesSurvive == Spec => []ReturnedSurvives
  <1>1. WriterInv => ReturnedSurvives
    BY DEF WriterInv
  <1> QED
    BY <1>1, WriterIsSound, PTL

\* Tempfiles outlive their write only when a process was killed.
THEOREM TempfilesAreRemoved == Spec => []OnlyKillsLeaveTempfiles
  <1>1. WriterInv => OnlyKillsLeaveTempfiles
    BY DEF WriterInv
  <1> QED
    BY <1>1, WriterIsSound, PTL

\* Every variable of the sink keeps its type: no start leaves a negative count of
\* orphans, and the counted faults stay within their bounds.
THEOREM SinkTypeCorrect == Spec => []TypeOK
  <1>1. WriterInv => TypeOK
    BY DEF WriterInv
  <1> QED
    BY <1>1, WriterIsSound, PTL
=============================================================================
