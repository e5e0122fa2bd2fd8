---------------------------- MODULE PullHistory ----------------------------
(***************************************************************************)
(* The pull_history table of the state store (core/state.py), one target   *)
(* at a time: a sequence of row statuses, newest first.                    *)
(*                                                                         *)
(* The code orders rows by their started_at text; this module is the case  *)
(* of a wall clock that never steps back, in which a new row always sorts  *)
(* first.                                                                  *)
(***************************************************************************)
EXTENDS Integers, Sequences, FiniteSets

CONSTANTS Retention,     \* _HISTORY_RETENTION_PER_TARGET
          FailureWindow  \* the LIMIT of consecutive_failures

ASSUME HistoryAssumption ==
    /\ Retention \in Nat \ {0}
    /\ FailureWindow \in Nat \ {0}

RowStatus == {"success", "error", "skipped_overlap"}

\* record_pull: insert a row, then delete all but the newest Retention rows.
Record(h, s) ==
    LET rows == <<s>> \o h
    IN  IF Len(rows) <= Retention THEN rows ELSE SubSeq(rows, 1, Retention)

\* The rows consecutive_failures counts: errors among the newest FailureWindow
\* rows that no success is newer than.
FailureRun(h) ==
    { i \in 1..FailureWindow :
        /\ i <= Len(h)
        /\ h[i] = "error"
        /\ \A j \in 1..i : h[j] # "success" }

ConsecutiveFailures(h) == Cardinality(FailureRun(h))
=============================================================================
