----------------------------- MODULE MCRestPull -----------------------------
(* Instances of RestPull for TLC. *)
EXTENDS RestPull

CONSTANTS geocode, archive

Book == {geocode, archive}
\* One recipe twice, so that a binding could meet the wrong run of it.
Walk == <<geocode, archive, geocode>>
WalkReads == <<{}, {geocode}, {geocode, archive}>>

AnyKind == {"none", "cursor", "page", "link-header"}
=============================================================================
