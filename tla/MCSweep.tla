------------------------------ MODULE MCSweep ------------------------------
(* The targets of the repository, one table each, and others TLC can try. *)
EXTENDS Sweep

Targets == <<"clickhouse", "rest">>
TwoTablesOfOne == <<"clickhouse", "clickhouse">>

\* What is done by hand after the last sweep leads to nothing that is checked.
SweepsAhead == pc \in Resting => sweeps < MaxSweeps
=============================================================================
