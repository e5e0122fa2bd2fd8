---------------------------- MODULE RepeatingCopy ----------------------------
(***************************************************************************)
(* What an incremental table promises its reader.  Until the first mishap  *)
(* every row the source commits is appended to the copy once and nothing   *)
(* else happens to the copy.  Each mishap (an interrupted pull, a lost     *)
(* file or state, a changed configuration) may repeat each row once more.  *)
(* Committed rows arrive as long as the mishaps have not broken the copy   *)
(* for good.                                                               *)
(***************************************************************************)
EXTENDS Naturals

CONSTANT Rows

VARIABLES source,   \* the committed rows
          copies,   \* how often the copy holds each row
          mishaps,  \* how many there were
          broken    \* the copy cannot be completed

vars == <<source, copies, mishaps, broken>>

Init ==
    /\ source \subseteq Rows
    /\ copies = [r \in Rows |-> 0]
    /\ mishaps = 0
    /\ broken = FALSE

Commit(r) ==
    /\ r \in Rows \ source
    /\ source' = source \union {r}
    /\ UNCHANGED <<copies, mishaps, broken>>

Missing == {r \in source : copies[r] = 0}

Append(S) ==
    /\ copies' = [r \in Rows |-> IF r \in S THEN 1 ELSE copies[r]]
    /\ UNCHANGED <<source, mishaps, broken>>

\* A mishap, or a later step that pays for one.  It copies committed rows only.
Disturb ==
    /\ mishaps' \in {mishaps, mishaps + 1}
    /\ mishaps' > 0
    /\ broken' \in BOOLEAN
    /\ broken' # broken => mishaps' # mishaps
    /\ copies' \in [Rows -> 0..(mishaps' + 1)]
    /\ \A r \in Rows \ source : copies'[r] = 0
    /\ UNCHANGED source

Next ==
    \/ \E r \in Rows : Commit(r)
    \/ \E S \in SUBSET Missing : Append(S)
    \/ Disturb

\* No committed row waits forever.
Progress ==
    \A r \in Rows :
      WF_vars(\E S \in SUBSET Missing : ~broken /\ r \in S /\ Append(S))

Spec == Init /\ [][Next]_vars /\ Progress
=============================================================================
