------------------------------ MODULE MCDaemon ------------------------------
(* Instances of Daemon for TLC. *)
EXTENDS Daemon

CONSTANTS t1, t2, t3

OneTable == {t1}
TwoTables == {t1, t2}
ThreeTables == {t1, t2, t3}

CadenceOnly == {FALSE}
BothModes == {TRUE, FALSE}
=============================================================================
