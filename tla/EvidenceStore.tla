---------------------------- MODULE EvidenceStore ----------------------------
(***************************************************************************)
(* One entry of the content-addressed evidence store: record_artifact and  *)
(* atomic_copy_verified of factory/evidence.py.  Entries of other digests  *)
(* are other files, so one is enough.                                      *)
(*                                                                         *)
(* A file is its bytes, and a digest identifies them.  A plain copy onto a *)
(* file goes through a fragment; a copy that is renamed into place does    *)
(* not.  Runs follow one another and may be killed at any step; between    *)
(* runs the archive may rot.  Two runs at a time are outside the promise   *)
(* of the code (CLOSURE_BOUNDARY).                                         *)
(***************************************************************************)
EXTENDS Integers

CONSTANTS Contents,       \* whole files
          Digest,         \* the one the entry is named after
          MaxKills,       \* bound: runs that are killed
          MaxRot,         \* bound: files of the store that change by themselves
          MaxRewrites     \* bound: pulls that replace the produced artifact

ASSUME EvidenceAssumption ==
    /\ Digest \in Contents
    /\ MaxKills \in Nat
    /\ MaxRot \in Nat
    /\ MaxRewrites \in Nat

\* What is on disk: all of a content, or the beginning of it.
Bytes == Contents \X {"whole", "part"}

Whole(c)    == <<c, "whole">>
Fragment(c) == <<c, "part">>
Absent      == <<>>
Named       == Whole(Digest)

Corrupt == Bytes \ {Named}

VARIABLES
    stored,     \* the entry: artifacts/<digest><suffix>
    preserved,  \* artifacts/<digest>.corrupt-<actual>, by actual
    artifact,   \* the produced file that the run records
    pc,         \* where record_artifact is
    repair,     \* --repair-store
    actual,     \* the hash it took of the entry
    found,      \* corrupt bytes that the code has to keep a trace of
    kills, rot, rewrites

bounds == <<kills, rot, rewrites>>
vars == <<stored, preserved, artifact, pc, repair, actual, found, bounds>>

TypeOK ==
    /\ stored \in Bytes \union {Absent}
    /\ preserved \in [Bytes -> Bytes \union {Absent}]
    /\ artifact \in Contents
    /\ pc \in {"idle", "look", "preserve", "verify", "overwrite", "copying",
               "claim", "recorded", "refused"}
    /\ repair \in BOOLEAN
    /\ actual \in Bytes
    /\ found \subseteq Corrupt
    /\ kills \in 0..MaxKills
    /\ rot \in 0..MaxRot
    /\ rewrites \in 0..MaxRewrites

Init ==
    /\ stored = Absent
    /\ preserved = [b \in Bytes |-> Absent]
    /\ artifact = Digest
    /\ pc = "idle"
    /\ repair = FALSE
    /\ actual = Named
    /\ found = {}
    /\ kills = 0
    /\ rot = 0
    /\ rewrites = 0

Goto(next) == pc' = next

-----------------------------------------------------------------------------
(* record_artifact *)

\* The produced artifact is hashed; its digest names the entry.
Begin ==
    /\ pc = "idle"
    /\ artifact = Digest
    /\ repair' \in BOOLEAN
    /\ Goto("look")
    /\ UNCHANGED <<stored, preserved, artifact, actual, found, bounds>>

EntryIsNew ==
    /\ pc = "look" /\ stored = Absent
    /\ Goto("overwrite")
    /\ UNCHANGED <<stored, preserved, artifact, repair, actual, found, bounds>>

EntryIsReused ==
    /\ pc = "look" /\ stored = Named
    /\ Goto("claim")
    /\ UNCHANGED <<stored, preserved, artifact, repair, actual, found, bounds>>

EntryIsRefused ==
    /\ pc = "look" /\ stored \in Corrupt /\ ~repair
    /\ Goto("refused")
    /\ UNCHANGED <<stored, preserved, artifact, repair, actual, found, bounds>>

\* Mutants: a file of the right name counts as preserved; the entry is hashed
\* before it is known to exist; a preserved copy is a reason to refuse.
EntryIsRepairedByName ==
    /\ pc = "look" /\ stored \in Corrupt /\ repair
    /\ actual' = stored
    /\ Goto(IF preserved[stored] # Absent THEN "overwrite" ELSE "preserve")
    /\ UNCHANGED <<stored, preserved, artifact, repair, found, bounds>>

EntryIsRepairedUnseen ==
    /\ pc = "look" /\ stored # Named /\ repair
    /\ actual' = stored
    /\ Goto("overwrite")
    /\ UNCHANGED <<stored, preserved, artifact, repair, found, bounds>>

EntryIsRepairedOnce ==
    /\ pc = "look" /\ stored \in Corrupt /\ repair
    /\ actual' = stored
    /\ Goto(IF preserved[stored] # Absent THEN "refused" ELSE "preserve")
    /\ UNCHANGED <<stored, preserved, artifact, repair, found, bounds>>

\* A preserved copy is hashed before it is taken for complete.
EntryIsRepaired ==
    /\ pc = "look" /\ stored \in Corrupt /\ repair
    /\ actual' = stored
    /\ Goto(IF preserved[stored] = stored THEN "overwrite" ELSE "preserve")
    /\ UNCHANGED <<stored, preserved, artifact, repair, found, bounds>>

\* atomic_copy_verified: tempfile, fsync, rename, fsync; then the hash.
Preserve ==
    /\ pc = "preserve"
    /\ preserved' = [preserved EXCEPT ![actual] = stored]
    /\ Goto("verify")
    /\ UNCHANGED <<stored, artifact, repair, actual, found, bounds>>

VerifyPreserved ==
    /\ pc = "verify"
    /\ Goto(IF preserved[actual] = actual THEN "overwrite" ELSE "refused")
    /\ UNCHANGED <<stored, preserved, artifact, repair, actual, found, bounds>>

\* shutil.copy2 onto the entry: truncated first.
Overwrite ==
    /\ pc = "overwrite"
    /\ stored' = Fragment(artifact)
    /\ Goto("copying")
    /\ UNCHANGED <<preserved, artifact, repair, actual, found, bounds>>

CopyEnds ==
    /\ pc = "copying"
    /\ stored' = Whole(artifact)
    /\ Goto("claim")
    /\ UNCHANGED <<preserved, artifact, repair, actual, found, bounds>>

\* The claim comes from the last read: of the copy, and of what was reused.
Claim ==
    /\ pc = "claim"
    /\ Goto(IF stored = Named THEN "recorded" ELSE "refused")
    /\ UNCHANGED <<stored, preserved, artifact, repair, actual, found, bounds>>

\* The run ends; the next one pulls its own artifact.
RunEnds ==
    /\ pc \in {"recorded", "refused"}
    /\ Goto("idle")
    /\ artifact' = Digest
    /\ UNCHANGED <<stored, preserved, repair, actual, found, bounds>>

\* What a kill leaves of a copy is corrupt bytes like any other.
Kill ==
    /\ pc \notin {"idle", "recorded", "refused"}
    /\ kills < MaxKills
    /\ kills' = kills + 1
    /\ Goto("idle")
    /\ artifact' = Digest
    /\ found' = IF pc = "copying" THEN found \union {stored} ELSE found
    /\ UNCHANGED <<stored, preserved, repair, actual, rot, rewrites>>

-----------------------------------------------------------------------------
(* The surroundings *)

\* Another pull writes the same artifact path while this run records it; a copy
\* that has begun reads the file it opened.
ArtifactRewritten(c) ==
    /\ pc \notin {"idle", "copying", "recorded", "refused"}
    /\ c # artifact
    /\ rewrites < MaxRewrites
    /\ rewrites' = rewrites + 1
    /\ artifact' = c
    /\ UNCHANGED <<stored, preserved, pc, repair, actual, found, kills, rot>>

\* Corrupt bytes of which no copy is left cannot be kept.
Surviving(s, kept) == {b \in found : s = b \/ kept[b] = b}

Rot(b) ==
    /\ pc = "idle"
    /\ rot < MaxRot
    /\ rot' = rot + 1
    /\ b \in Corrupt
    /\ \/ /\ stored # Absent
          /\ stored' = b
          /\ found' = Surviving(b, preserved) \union {b}
          /\ UNCHANGED preserved
       \/ /\ \E a \in Bytes :
                /\ preserved[a] # Absent
                /\ preserved' = [preserved EXCEPT ![a] = b]
          /\ found' = Surviving(stored, preserved')
          /\ UNCHANGED stored
    /\ UNCHANGED <<artifact, pc, repair, actual, kills, rewrites>>

Next ==
    \/ Begin
    \/ EntryIsNew \/ EntryIsReused \/ EntryIsRefused \/ EntryIsRepaired
    \/ Preserve \/ VerifyPreserved \/ Overwrite \/ CopyEnds \/ Claim
    \/ RunEnds \/ Kill
    \/ \E c \in Contents : ArtifactRewritten(c)
    \/ \E b \in Bytes : Rot(b)

Spec == Init /\ [][Next]_vars

\* Runs are made again and again, now and then with --repair-store, and a run
\* that is not killed goes on.
Continue ==
    \/ EntryIsNew \/ EntryIsReused \/ EntryIsRefused \/ EntryIsRepaired
    \/ Preserve \/ VerifyPreserved \/ Overwrite \/ CopyEnds \/ Claim \/ RunEnds

FairSpec ==
    /\ Spec
    /\ WF_vars(Continue)
    /\ WF_vars(Begin)
    /\ SF_vars(Begin /\ repair')

-----------------------------------------------------------------------------
(* Properties *)

\* No ordering of repairs and kills loses corrupt bytes: they are in the entry
\* still, or preserved in full under a name that says what they hash to.
CorruptionIsRecorded == \A b \in found : stored = b \/ preserved[b] = b

\* Whatever earlier kills and rot have left of the entry and of its preserved copies, a
\* run with --repair-store is refused only if an artifact was rewritten between its
\* hash and its copy (record_artifact, atomic_copy_verified).
OnlyRewritesStopARepair == repair /\ pc = "refused" => rewrites > 0

\* A corrupt entry, or one that a killed run left in pieces, is repaired.
RepairConverges == []<>(stored = Named)
=============================================================================
