------------------------------- MODULE Config -------------------------------
(***************************************************************************)
(* What a configuration is, what refuses it and when: the validators of    *)
(* core/config.py in the order pydantic runs them, the registries of       *)
(* drivers/, sinks/ and profiles/, and what build_daemon and the           *)
(* constructor of Daemon check on top.  A document is a record             *)
(*                                                                         *)
(*   dialect     the name of the driver                                    *)
(*   blocks      the top-level keys that are no declared fields            *)
(*   profile     a profile, or "none"                                      *)
(*   sink        the type of the sink block, or "none"                     *)
(*   mode        defaults.mode                                             *)
(*   cadence     defaults.cadence                                          *)
(*   tables      a sequence of [target, mode, key, cadence], "unset" where *)
(*               the table leaves a field to the defaults                  *)
(*                                                                         *)
(* A cadence is its number of seconds; a negative number is a text that    *)
(* does not parse.                                                         *)
(***************************************************************************)
EXTENDS Integers, Sequences, FiniteSets

\* What ships.  Each registry maps a name to what the entry says of itself.
Drivers == [d \in {"clickhouse", "postgres", "rest"} |-> d]
Sinks == [ramdb |-> [appendable |-> TRUE], arrow_ipc |-> [appendable |-> FALSE]]
Profiles == [supabase |-> "postgres"]
DefaultSink == "ramdb"
MinCadence == 5

Tables(doc) == {doc.tables[i] : i \in DOMAIN doc.tables}

\* TableConfig._check_incremental looks at the table's own mode.
LacksItsKey(t) == t.mode = "incremental" /\ t.key = "unset"

DuplicateTargets(doc) ==
    Cardinality({t.target : t \in Tables(doc)}) < Len(doc.tables)

\* The first refusal of Config.model_validate against a registry of drivers.
Validation(doc, drivers) ==
    IF \E t \in Tables(doc) : LacksItsKey(t) THEN "no_incremental_key"
    ELSE IF DuplicateTargets(doc) THEN "duplicate_target"
    ELSE IF doc.dialect \notin DOMAIN drivers THEN "unknown_dialect"
    ELSE IF ~(doc.blocks \subseteq DOMAIN drivers) THEN "unknown_key"
    ELSE IF doc.dialect \notin doc.blocks THEN "no_driver_block"
    ELSE "valid"

\* resolve_table: a field of the table, or the default.
Resolved(doc, t) ==
    [mode    |-> IF t.mode = "unset" THEN doc.mode ELSE t.mode,
     cadence |-> IF t.cadence = 0 THEN doc.cadence ELSE t.cadence,
     key     |-> t.key]

\* parse_cadence raises on what it cannot parse and on less than the minimum.
CadenceRefused(c) == c < MinCadence

SinkOf(doc) == IF doc.sink = "none" THEN DefaultSink ELSE doc.sink

\* Mutant: the guard of the constructor looks at the tables' own modes.
AsksItself(doc) == \E t \in Tables(doc) : t.mode = "incremental"

\* What the guard of the constructor looks for.
AsksForIncremental(doc) ==
    \E t \in Tables(doc) : Resolved(doc, t).mode = "incremental"

\* build_daemon: the first refusal, or "built".  The guard against incremental
\* tables comes before the loop over the tables, and resolves them too, but only
\* for a sink that is not appendable.
Building(doc, drivers) ==
    LET resolved == {Resolved(doc, t) : t \in Tables(doc)}
    IN IF Validation(doc, drivers) # "valid" THEN Validation(doc, drivers)
       ELSE IF SinkOf(doc) \notin DOMAIN Sinks THEN "unknown_sink"
       ELSE IF \E r \in resolved : CadenceRefused(r.cadence) THEN "bad_cadence"
       ELSE IF ~Sinks[SinkOf(doc)].appendable /\ AsksForIncremental(doc)
            THEN "not_appendable"
       ELSE "built"

-----------------------------------------------------------------------------
(* Connection blocks.  A block is a record [host, port, tls, prepare]: the host *)
(* is "loopback", "direct" or "pooled", tls an sslmode.                         *)

TransactionPort == 6543
SslModes == {"disable", "allow", "prefer", "require", "verify-ca", "verify-full"}

\* What the profile replaces; it refuses "disable" beyond the machine.
Unencrypted == {"allow", "prefer"}

\* driver_config, on the way to the connection: the profile has the last word.
ProfileRefusal(doc, block) ==
    IF doc.profile = "none" THEN "allowed"
    ELSE IF doc.profile \notin DOMAIN Profiles THEN "unknown_profile"
    ELSE IF Profiles[doc.profile] # doc.dialect THEN "other_dialect"
    ELSE IF block.port = TransactionPort THEN "transaction_pooler"
    ELSE IF block.host # "loopback" /\ block.tls = "disable" THEN "plaintext"
    ELSE "allowed"

\* Mutant: only the sslmode named disable counts as unencrypted.
ProfiledTrustingPrefer(doc, block) ==
    IF doc.profile = "none" THEN block
    ELSE [block EXCEPT !.prepare = IF block.host = "pooled" THEN FALSE ELSE @]

\* SupabaseProfile.apply, of a block it does not refuse.
Profiled(doc, block) ==
    IF doc.profile = "none" THEN block
    ELSE [block EXCEPT
            !.prepare = IF block.host = "pooled" THEN FALSE ELSE @,
            !.tls = IF block.host # "loopback" /\ @ \in Unencrypted
                    THEN "require" ELSE @]

\* What the drivers make of a resolved table: without a key there is no WHERE
\* clause and no watermark, whatever the mode.
Pulled(r) ==
    IF r.mode = "incremental" /\ r.key # "unset" THEN "incremental" ELSE "full_refresh"
=============================================================================
