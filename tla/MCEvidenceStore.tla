--------------------------- MODULE MCEvidenceStore ---------------------------
(* Instances of EvidenceStore for TLC. *)
EXTENDS EvidenceStore

CONSTANTS good, other

TwoContents == {good, other}
=============================================================================
