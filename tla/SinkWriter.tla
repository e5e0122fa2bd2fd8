----------------------------- MODULE SinkWriter -----------------------------
(***************************************************************************)
(* The write protocol of a sink (core/ramdb_writer.py, sinks/arrow_ipc.py) *)
(* for one target: a tempfile in the destination directory, a rename onto  *)
(* the final path, and what exceptions, signals, kills and power losses    *)
(* leave behind.  The Arrow sink syncs the tempfile before the rename and  *)
(* the directory after it; the ramdb sink does neither.                    *)
(*                                                                         *)
(* Tempfile names hold a fresh uuid, so that each write has a tempfile of  *)
(* its own; a process writes one target at a time, on the event loop.      *)
(***************************************************************************)
EXTENDS Integers, FiniteSets

CONSTANTS Processes,      \* engine processes on one directory: the unit, a run --once
          Frames,         \* the tables written
          Sinks,          \* the sinks a configuration may name
          MaxKills,       \* bound: SIGKILLs and failures of the machine
          MaxPowerLosses  \* bound: of these, failures that lose the page cache

\* What a path may hold besides a whole table.
Absent == "absent"
Torn   == "torn"

ASSUME SinkAssumption ==
    /\ IsFiniteSet(Processes)
    /\ Absent \notin Frames
    /\ Torn \notin Frames
    /\ Sinks \subseteq {"arrow", "ramdb"}
    /\ MaxKills \in Nat
    /\ MaxPowerLosses \in Nat

VARIABLES
    sink,       \* the sink of this installation
    published,  \* what a reader finds at the final path
    onDisk,     \* what it may find there after a power loss
    pc,         \* where each process is in write
    frame,      \* the table it writes
    temp,       \* the tempfile of that write
    orphans,    \* how many tempfiles outlive the process that made them
    recent,     \* what the last write to return published, and what came after it
    kills, powerLosses

vars == <<sink, published, onDisk, pc, frame, temp, orphans, recent, kills, powerLosses>>

Syncs == sink = "arrow"

Writing == {"encoding", "encoded", "synced", "renamed"}

TypeOK ==
    /\ sink \in Sinks
    /\ published \in Frames \union {Absent, Torn}
    /\ onDisk \subseteq Frames \union {Absent, Torn}
    /\ pc \in [Processes -> {"down", "idle"} \union Writing]
    /\ frame \in [Processes -> Frames \union {Absent}]
    /\ temp \in [Processes -> {"none", "partial", "whole"}]
    /\ orphans \in Nat
    /\ recent \subseteq Frames \union {Absent}
    /\ kills \in 0..MaxKills
    /\ powerLosses \in 0..MaxPowerLosses

Init ==
    /\ sink \in Sinks
    /\ published = Absent
    /\ onDisk = {Absent}
    /\ pc = [p \in Processes |-> "down"]
    /\ frame = [p \in Processes |-> Absent]
    /\ temp = [p \in Processes |-> "none"]
    /\ orphans = 0
    /\ recent = {Absent}
    /\ kills = 0
    /\ powerLosses = 0

Tempfiles == {p \in Processes : temp[p] # "none"}

\* write is left, with an exception or without; the finally removes the tempfile.
Leave(p) ==
    /\ pc' = [pc EXCEPT ![p] = "idle"]
    /\ temp' = [temp EXCEPT ![p] = "none"]

-----------------------------------------------------------------------------
\* run calls cleanup_orphan_tempfiles before anything else.  It tells an
\* orphan from the tempfile of another running process by nothing: both go.
Start(p) ==
    /\ pc[p] = "down"
    /\ pc' = [pc EXCEPT ![p] = "idle"]
    /\ temp' = [q \in Processes |-> "none"]
    /\ orphans' = 0
    /\ UNCHANGED <<sink, published, onDisk, frame, recent, kills, powerLosses>>

Begin(p, f) ==
    /\ pc[p] = "idle"
    /\ pc' = [pc EXCEPT ![p] = "encoding"]
    /\ frame' = [frame EXCEPT ![p] = f]
    /\ temp' = [temp EXCEPT ![p] = "partial"]
    /\ UNCHANGED <<sink, published, onDisk, orphans, recent, kills, powerLosses>>

\* The encoder has written its file; it may have been unlinked meanwhile.
Encode(p) ==
    /\ pc[p] = "encoding"
    /\ pc' = [pc EXCEPT ![p] = "encoded"]
    /\ temp' = [temp EXCEPT ![p] = IF @ = "partial" THEN "whole" ELSE @]
    /\ UNCHANGED <<sink, published, onDisk, frame, orphans, recent, kills, powerLosses>>

\* The encoder, a sync or the rename raises; all but the encoder do when the
\* tempfile is gone.
Raises(p) ==
    /\ pc[p] \in Writing
    /\ Leave(p)
    /\ UNCHANGED <<sink, published, onDisk, frame, orphans, recent, kills, powerLosses>>

SyncTempfile(p) ==
    /\ Syncs
    /\ pc[p] = "encoded" /\ temp[p] # "none"
    /\ pc' = [pc EXCEPT ![p] = "synced"]
    /\ UNCHANGED <<sink, published, onDisk, frame, temp, orphans, recent, kills, powerLosses>>

\* Mutant: the rename does not wait for the sync.
RenameUnsynced(p) ==
    /\ pc[p] = "encoded" /\ temp[p] # "none"
    /\ published' = frame[p]
    /\ onDisk' = onDisk \union {frame[p], Torn}
    /\ recent' = recent \union {frame[p]}
    /\ pc' = [pc EXCEPT ![p] = "renamed"]
    /\ temp' = [temp EXCEPT ![p] = "none"]
    /\ UNCHANGED <<sink, frame, orphans, kills, powerLosses>>

\* os.rename.  Until the directory is written back a power loss may undo it;
\* until the data is, the new name may be found on a torn file.  The ramdb
\* write returns.
Rename(p) ==
    /\ pc[p] = (IF Syncs THEN "synced" ELSE "encoded") /\ temp[p] # "none"
    /\ published' = IF temp[p] = "whole" THEN frame[p] ELSE Torn
    /\ onDisk' = onDisk \union {published'} \union (IF Syncs THEN {} ELSE {Torn})
    /\ \/ /\ Syncs
          /\ pc' = [pc EXCEPT ![p] = "renamed"]
          /\ temp' = [temp EXCEPT ![p] = "none"]
          /\ recent' = recent \union {frame[p]}
       \/ /\ ~Syncs
          /\ Leave(p)
          /\ recent' = {frame[p]}
    /\ UNCHANGED <<sink, frame, orphans, kills, powerLosses>>

\* Mutant: write returns without syncing the directory.
ReturnUnsynced(p) ==
    /\ pc[p] = "renamed"
    /\ recent' = {published}
    /\ Leave(p)
    /\ UNCHANGED <<sink, published, onDisk, frame, orphans, kills, powerLosses>>

SyncDirectory(p) ==
    /\ pc[p] = "renamed"
    /\ onDisk' = {published}
    /\ recent' = {published}
    /\ Leave(p)
    /\ UNCHANGED <<sink, published, frame, orphans, kills, powerLosses>>

\* The kernel writes back on its own too.
WriteBack ==
    /\ onDisk' = {published}
    /\ UNCHANGED <<sink, published, pc, frame, temp, orphans, recent, kills, powerLosses>>

-----------------------------------------------------------------------------
\* Mutant: the process exits at once on SIGTERM.
TerminateAtOnce(p) ==
    /\ pc[p] # "down"
    /\ pc' = [pc EXCEPT ![p] = "down"]
    /\ temp' = [temp EXCEPT ![p] = "none"]
    /\ orphans' = IF temp[p] = "none" THEN orphans ELSE orphans + 1
    /\ UNCHANGED <<sink, published, onDisk, frame, recent, kills, powerLosses>>

\* The process ends: after its last write, or in the middle of one, in the
\* SIGTERM handler that write installs.
Terminate(p) ==
    /\ pc[p] # "down"
    /\ pc' = [pc EXCEPT ![p] = "down"]
    /\ temp' = [temp EXCEPT ![p] = "none"]
    /\ UNCHANGED <<sink, published, onDisk, frame, orphans, recent, kills, powerLosses>>

Kill(p) ==
    /\ pc[p] # "down"
    /\ kills < MaxKills
    /\ kills' = kills + 1
    /\ pc' = [pc EXCEPT ![p] = "down"]
    /\ temp' = [temp EXCEPT ![p] = "none"]
    /\ orphans' = IF temp[p] = "none" THEN orphans ELSE orphans + 1
    /\ UNCHANGED <<sink, published, onDisk, frame, recent, powerLosses>>

\* Every process is gone; the tempfiles may or may not have reached the disk.
PowerLoss ==
    /\ kills < MaxKills /\ powerLosses < MaxPowerLosses
    /\ kills' = kills + 1
    /\ powerLosses' = powerLosses + 1
    /\ published' \in onDisk
    /\ onDisk' = {published'}
    /\ pc' = [p \in Processes |-> "down"]
    /\ temp' = [p \in Processes |-> "none"]
    /\ orphans' \in 0..(orphans + Cardinality(Tempfiles))
    /\ UNCHANGED <<sink, frame, recent>>

ProcessStep(p) ==
    \/ Start(p)
    \/ \E f \in Frames : Begin(p, f)
    \/ Encode(p) \/ Raises(p) \/ SyncTempfile(p) \/ Rename(p) \/ SyncDirectory(p)
    \/ Terminate(p) \/ Kill(p)

Next ==
    \/ \E p \in Processes : ProcessStep(p)
    \/ WriteBack \/ PowerLoss

Spec == Init /\ [][Next]_vars

-----------------------------------------------------------------------------
(* Properties *)

\* A reader finds a whole table or none, never a part of one: with a second
\* process starting, or writing, in the middle of a write, after any kill and,
\* when the sink syncs, after any power loss.
PublishedIsWhole == Syncs \/ powerLosses = 0 => published # Torn

\* The same of every sink and machine, as SPEC.md 7 has it: the server must
\* never see a half-written file.
NeverHalfWritten == published # Torn

\* What a write of the Arrow sink that has returned published is not undone by
\* a power loss: a reader finds that table or a later one.
ReturnedSurvives == Syncs => onDisk \subseteq recent

\* Exceptions, SIGTERM and normal ends leave no tempfile; a kill does, and the
\* next start removes it.
OnlyKillsLeaveTempfiles ==
    /\ kills = 0 => orphans = 0
    /\ \A p \in Tempfiles : pc[p] \in Writing
=============================================================================
