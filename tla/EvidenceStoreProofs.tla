------------------------- MODULE EvidenceStoreProofs -------------------------
(***************************************************************************)
(* Theorems about EvidenceStore, for every set of contents and any number  *)
(* of kills, rot and rewritten artifacts: nothing found is lost, and what  *)
(* kills and rot have left does not stop a repair.                         *)
(***************************************************************************)
EXTENDS EvidenceStore, TLAPS

\* The pieces of record_artifact rely on what the ones before have left: the
\* bytes that were hashed are in the entry until it is overwritten, and by then
\* they are preserved; from then on every corrupt content known is preserved.
StoreInv ==
    /\ TypeOK
    /\ CorruptionIsRecorded
    /\ pc \in {"preserve", "verify"} => stored = actual
    /\ pc = "overwrite" => \A b \in found : preserved[b] = b
    /\ pc = "copying" => stored \in Corrupt /\ \A b \in found : preserved[b] = b

LEMMA ContentsAreBytes ==
  /\ \A c \in Contents : Whole(c) \in Bytes /\ Fragment(c) \in Bytes
  /\ \A c \in Contents : Fragment(c) \in Corrupt
  /\ Named \in Bytes
  BY EvidenceAssumption DEF Bytes, Whole, Fragment, Named, Corrupt

LEMMA StoreInit == Init => StoreInv
  <1> SUFFICES ASSUME Init PROVE StoreInv
    OBVIOUS
  <1>1. preserved \in [Bytes -> Bytes \union {Absent}]
    BY DEF Init
  <1>2. kills \in 0..MaxKills /\ rot \in 0..MaxRot /\ rewrites \in 0..MaxRewrites
    BY EvidenceAssumption DEF Init
  <1> QED
    BY <1>1, <1>2, EvidenceAssumption, ContentsAreBytes
       DEF Init, StoreInv, TypeOK, CorruptionIsRecorded

LEMMA StoreStep == StoreInv /\ [Next]_vars => StoreInv'
  <1> SUFFICES ASSUME StoreInv, [Next]_vars PROVE StoreInv'
    OBVIOUS
  <1> USE EvidenceAssumption, ContentsAreBytes
      DEF StoreInv, TypeOK, CorruptionIsRecorded, Goto, bounds
  <1>1. CASE Begin \/ EntryIsReused \/ EntryIsRefused \/ RunEnds
    BY <1>1 DEF Begin, EntryIsReused, EntryIsRefused, RunEnds
  <1>2. CASE EntryIsNew
    BY <1>2 DEF EntryIsNew, Corrupt, Absent, Bytes
  <1>3. CASE EntryIsRepaired
    BY <1>3 DEF EntryIsRepaired, Corrupt
  <1>4. CASE Preserve
    BY <1>4 DEF Preserve
  <1>5. CASE VerifyPreserved
    BY <1>5 DEF VerifyPreserved
  <1>6. CASE Overwrite
    BY <1>6 DEF Overwrite
  <1>7. CASE CopyEnds
    BY <1>7 DEF CopyEnds
  <1>8. CASE Claim
    BY <1>8 DEF Claim
  <1>9. CASE Kill
    BY <1>9 DEF Kill, Corrupt
  <1>10. CASE \E c \in Contents : ArtifactRewritten(c)
    BY <1>10 DEF ArtifactRewritten
  <1>11. CASE \E b \in Bytes : Rot(b)
    BY <1>11 DEF Rot, Surviving, Corrupt
  <1>12. CASE UNCHANGED vars
    BY <1>12 DEF vars
  <1> QED
    BY <1>1, <1>2, <1>3, <1>4, <1>5, <1>6, <1>7, <1>8, <1>9, <1>10, <1>11, <1>12 DEF Next

\* The store invariant holds of the evidence store.
THEOREM StoreIsSound == Spec => []StoreInv
  BY StoreInit, StoreStep, PTL DEF Spec

\* No order of repairs, kills and rot loses corrupt bytes that a run could still
\* have kept.
THEOREM CorruptionIsKept == Spec => []CorruptionIsRecorded
  <1>1. StoreInv => CorruptionIsRecorded
    BY DEF StoreInv
  <1> QED
    BY <1>1, StoreIsSound, PTL

\* Every variable of the evidence store keeps its type; what counts as found is
\* corrupt.
THEOREM StoreTypeCorrect == Spec => []TypeOK
  <1>1. StoreInv => TypeOK
    BY DEF StoreInv
  <1> QED
    BY <1>1, StoreIsSound, PTL

-----------------------------------------------------------------------------
(* What RepairConverges rests on: nothing that kills and rot have left      *)
(* stands in the way of a repair.                                           *)

\* The preserved copy is verified at once, and what has been copied, or was found
\* good, is what the entry is named for.
HealInv ==
    /\ pc = "verify" => preserved[actual] = actual
    /\ rewrites = 0 => artifact = Digest
    /\ rewrites = 0 /\ pc = "claim" => stored = Named
    /\ OnlyRewritesStopARepair

LEMMA HealStep == StoreInv /\ HealInv /\ [Next]_vars => HealInv'
  <1> SUFFICES ASSUME StoreInv, HealInv, [Next]_vars PROVE HealInv'
    OBVIOUS
  <1> USE DEF HealInv, OnlyRewritesStopARepair, Goto, bounds
  <1>0. rewrites \in Nat
    BY EvidenceAssumption DEF StoreInv, TypeOK
  <1>1. CASE Begin \/ EntryIsNew \/ EntryIsReused \/ EntryIsRefused \/ EntryIsRepaired
    BY <1>1 DEF Begin, EntryIsNew, EntryIsReused, EntryIsRefused, EntryIsRepaired
  <1>2. CASE Preserve
    <2>1. actual \in Bytes /\ preserved \in [Bytes -> Bytes \union {Absent}] /\ stored = actual
      BY <1>2 DEF StoreInv, TypeOK, Preserve
    <2> QED
      BY <1>2, <2>1 DEF Preserve
  <1>3. CASE VerifyPreserved \/ Overwrite
    BY <1>3 DEF VerifyPreserved, Overwrite
  <1>4. CASE CopyEnds
    BY <1>4 DEF CopyEnds, Named
  <1>5. CASE Claim
    BY <1>5, <1>0 DEF Claim
  <1>6. CASE RunEnds \/ Kill
    BY <1>6 DEF RunEnds, Kill
  <1>7. ASSUME NEW c \in Contents, ArtifactRewritten(c) PROVE HealInv'
    BY <1>7, <1>0 DEF ArtifactRewritten
  <1>8. ASSUME NEW b \in Bytes, Rot(b) PROVE HealInv'
    BY <1>8 DEF Rot
  <1>9. CASE UNCHANGED vars
    BY <1>9 DEF vars
  <1> QED
    BY <1>1, <1>2, <1>3, <1>4, <1>5, <1>6, <1>7, <1>8, <1>9 DEF Next

\* Whatever earlier kills and rot have left of entry and preserved copies, a run with
\* --repair-store that is not killed repairs the entry: it is refused only when another
\* pull has rewritten the artifact (record_artifact, atomic_copy_verified).
THEOREM RepairsSucceed == Spec => []OnlyRewritesStopARepair
  <1>1. Init => HealInv
    BY DEF Init, HealInv, OnlyRewritesStopARepair
  <1>2. HealInv => OnlyRewritesStopARepair
    BY DEF HealInv
  <1> QED
    BY <1>1, <1>2, HealStep, StoreInit, StoreStep, PTL DEF Spec

\* The same of a single run, whatever happened before it: it is refused after its copy
\* alone, and that copy was of an artifact that had changed since it was hashed.
RefusedForItsArtifact ==
    /\ repair /\ pc # "refused" /\ pc' = "refused" => pc = "claim" /\ stored # Named
    /\ pc # "claim" /\ pc' = "claim" /\ stored' # Named => pc = "copying" /\ artifact # Digest

\* A repair that is refused has met an artifact rewritten during that very run
\* (record_artifact).
THEOREM RefusalsHaveACause == Spec => [][RefusedForItsArtifact]_vars
  <1>1. HealInv /\ [Next]_vars => RefusedForItsArtifact
    <2> SUFFICES ASSUME HealInv, [Next]_vars PROVE RefusedForItsArtifact
      OBVIOUS
    <2> USE DEF RefusedForItsArtifact, Goto, bounds
    <2>1. CASE Begin \/ EntryIsNew \/ EntryIsReused \/ EntryIsRefused \/ EntryIsRepaired
      BY <2>1 DEF Begin, EntryIsNew, EntryIsReused, EntryIsRefused, EntryIsRepaired
    <2>2. CASE Preserve \/ VerifyPreserved \/ Overwrite
      BY <2>2 DEF HealInv, Preserve, VerifyPreserved, Overwrite
    <2>3. CASE CopyEnds
      BY <2>3 DEF CopyEnds, Named
    <2>4. CASE Claim \/ RunEnds \/ Kill
      BY <2>4 DEF Claim, RunEnds, Kill
    <2>5. CASE \E c \in Contents : ArtifactRewritten(c)
      BY <2>5 DEF ArtifactRewritten
    <2>6. CASE \E b \in Bytes : Rot(b)
      BY <2>6 DEF Rot
    <2>7. CASE UNCHANGED vars
      BY <2>7 DEF vars
    <2> QED
      BY <2>1, <2>2, <2>3, <2>4, <2>5, <2>6, <2>7 DEF Next
  <1>2. Init => HealInv
    BY DEF Init, HealInv, OnlyRewritesStopARepair
  <1> QED
    BY <1>1, <1>2, HealStep, StoreInit, StoreStep, PTL DEF Spec
=============================================================================
