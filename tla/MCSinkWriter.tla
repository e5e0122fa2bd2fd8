---------------------------- MODULE MCSinkWriter ----------------------------
(* Instances of SinkWriter for TLC. *)
EXTENDS SinkWriter, TLC

CONSTANTS p1, p2, f1, f2

TwoProcesses == {p1, p2}
TwoFrames == {f1, f2}
BothSinks == {"arrow", "ramdb"}

Symmetry == Permutations(Processes) \union Permutations(Frames)
=============================================================================
