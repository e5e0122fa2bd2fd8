-------------------------- MODULE MCIncrementalPull --------------------------
(* Instances of IncrementalPull for TLC. *)
EXTENDS IncrementalPull

Row(k, p) == [key |-> k, pk |-> p]

\* Two rows tied at key 1, one at key 2 with the least primary key of all.
TiedRows == {Row(1, 2), Row(1, 3), Row(2, 1)}

\* Two rows tied at key 1, two at key 2, primary keys against the commit order.
FourRows == TiedRows \union {Row(2, 4)}

Pulls(m, l) == [mode |-> m, limit |-> l]

OneRow == {Pulls("incremental", 1)}
EverySetting == {Pulls("incremental", l) : l \in 0..2} \union {Pulls("full_refresh", 0)}
=============================================================================
