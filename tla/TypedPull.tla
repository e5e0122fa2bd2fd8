----------------------------- MODULE TypedPull -----------------------------
(***************************************************************************)
(* One column of one table, from the configuration document to the         *)
(* published file: the document is validated and the daemon built, the     *)
(* profile decides on the connection, and then every pull reads the rows,  *)
(* coerces them (Coercion), merges or replaces, lets the sink resolve the  *)
(* nulls, and compares the schema with the baseline.                       *)
(*                                                                         *)
(* Module Daemon has the concurrency of pulls and IncrementalPull the      *)
(* watermark; here a pull is one step and only values and types matter.    *)
(***************************************************************************)
EXTENDS Config, Coercion

CONSTANTS
    Documents,       \* the configuration documents, each with .block and .sanitize
    MaxRows,         \* bound on the rows of the source
    MaxPulls,        \* bound on the pulls that deliver
    MaxAlters        \* bound on the ALTERs of the source

ASSUME BoundAssumption == {MaxRows, MaxPulls, MaxAlters} \subseteq Nat

\* A document without tables has nothing to pull.
ASSUME DocumentAssumption ==
    \A d \in Documents :
        /\ 1 \in DOMAIN d.tables
        /\ d.block \in [host : {"loopback", "direct", "pooled"}, port : Nat,
                        tls : SslModes, prepare : BOOLEAN]

VARIABLES
    doc,             \* the configuration document
    phase,           \* "loading", "refused", "connecting", "connected"
    connection,      \* the connection block the driver was given
    class,           \* the class of the source column
    table,           \* the values of the source, in the order of the key
    read,            \* how many of them the watermark covers
    file,            \* the published column, a record [values, dtype]
    baseline,        \* the dtype in the schemas table of the state store
    drift,           \* schema_drift_detected
    shown,           \* history: the source when it was last published
    lost,            \* history: how many of its first rows a merge gave up
    kinds,           \* history: the dtypes of the classes published with rows
    emptied,         \* history: some pull delivered no rows
    pulls, alters

source == <<class, table, alters>>
output == <<read, file, baseline, drift, shown, lost, kinds, emptied, pulls>>
vars == <<doc, phase, connection, source, output>>

None == "none"
NoFile == [values |-> <<>>, dtype |-> None]
TheTable == Resolved(doc, doc.tables[1])
Incremental == Pulled(TheTable) = "incremental"

Init ==
    /\ doc \in Documents
    /\ phase = "loading"
    /\ connection = doc.block
    /\ class \in ClassesOf(doc.dialect)
    /\ table = <<>>
    /\ read = 0
    /\ file = NoFile
    /\ baseline = None
    /\ drift = FALSE
    /\ shown = <<>>
    /\ lost = 0
    /\ kinds = {}
    /\ emptied = FALSE
    /\ pulls = 0
    /\ alters = 0

\* load_config and build_daemon; an invalid document ends the command.
Load ==
    /\ phase = "loading"
    /\ phase' = IF Building(doc, Drivers) = "built" THEN "connecting" ELSE "refused"
    /\ UNCHANGED <<doc, connection, source, output>>

\* driver_config and connect.
Connect ==
    /\ phase = "connecting"
    /\ ProfileRefusal(doc, doc.block) = "allowed"
    /\ connection' = Profiled(doc, doc.block)
    /\ phase' = "connected"
    /\ UNCHANGED <<doc, source, output>>

\* A refusal of the profile is no permanent error: the loop tries again, for ever.
ConnectRefused ==
    /\ phase = "connecting"
    /\ ProfileRefusal(doc, doc.block) # "allowed"
    /\ UNCHANGED vars

-----------------------------------------------------------------------------
(* The source. *)

Insert(v) ==
    /\ phase = "connected" /\ Len(table) < MaxRows
    /\ table' = Append(table, v)
    /\ UNCHANGED <<doc, phase, connection, class, alters, output>>

\* An incremental copy does not follow deletions and is not meant to.
Truncate ==
    /\ phase = "connected" /\ ~Incremental /\ table # <<>>
    /\ table' = <<>>
    /\ UNCHANGED <<doc, phase, connection, class, alters, output>>

\* What pandas makes of two classes in one merged column is not modelled.
Alter(c) ==
    /\ phase = "connected" /\ ~Incremental /\ alters < MaxAlters
    /\ c \in ClassesOf(doc.dialect) \ {class}
    /\ class' = c
    /\ table' = <<>>
    /\ alters' = alters + 1
    /\ UNCHANGED <<doc, phase, connection, output>>

-----------------------------------------------------------------------------
(* The pull. *)

\* The rows a driver reads: past the watermark, or all of them.
Batch == IF Incremental THEN SubSeq(table, read + 1, Len(table)) ELSE table

CoercionRaises ==
    \/ Unsupported(class)
    \/ \E i \in DOMAIN Batch : Raises(Batch[i], class, doc.dialect)

\* _merge_incremental is called with a file that load_to_df could read.  Without a
\* watermark the pull replaces the file; a file of another sink is none to it.
Merges == Incremental /\ read > 0 /\ SinkOf(doc) = "ramdb"

\* The frame for the sink.  When the published file is gone or cannot be read back,
\* found is false and the new rows go on alone.
Merged(found) ==
    LET values == Coerced(class, Batch, doc.sanitize)
        dtype == Dtype(class, Batch)
    IN IF Merges /\ found
       THEN [values |-> file.values \o values, dtype |-> JoinDtype(file.dtype, dtype)]
       ELSE [values |-> values, dtype |-> dtype]

\* The rows the file will not hold: the watermark stays past all it covered.
Lost(found) == IF Merges THEN IF found THEN lost ELSE read ELSE 0

SinkRaises(found) ==
    SinkOf(doc) = "ramdb" /\ Overflows(Merged(found).values, Merged(found).dtype)

\* What the sink writes of a frame.
Written(frame) ==
    IF SinkOf(doc) = "ramdb"
    THEN [values |-> [i \in DOMAIN frame.values |-> Filled(frame.values[i], frame.dtype)],
          dtype  |-> FilledDtype(frame.dtype)]
    ELSE frame

\* The drift flag after a pull: it is raised by a difference and never lowered.
Drifted(flag, before, dtype) == flag \/ before \notin {None, dtype}

PullSucceeds(found) ==
    /\ phase = "connected" /\ pulls < MaxPulls
    /\ ~CoercionRaises /\ ~SinkRaises(found)
    /\ file' = Written(Merged(found))
    /\ read' = IF Incremental THEN Len(table) ELSE 0
    /\ baseline' = Merged(found).dtype
    /\ drift' = Drifted(drift, baseline, Merged(found).dtype)
    /\ shown' = table
    /\ lost' = Lost(found)
    /\ kinds' = IF Batch = <<>> THEN kinds ELSE kinds \union {PandasDtype[class]}
    /\ emptied' = (emptied \/ Batch = <<>>)
    /\ pulls' = pulls + 1
    /\ UNCHANGED <<doc, phase, connection, source>>

\* A coercer or the sink refuses a value: nothing is published or recorded but
\* the failure, and the table stays as it is until its rows change.
PullFails(found) ==
    /\ phase = "connected"
    /\ CoercionRaises \/ SinkRaises(found)
    /\ UNCHANGED vars

Next ==
    \/ Load
    \/ Connect
    \/ ConnectRefused
    \/ \E v \in ValuesOf[class] : Insert(v)
    \/ Truncate
    \/ \E c \in Classes : Alter(c)
    \/ \E found \in BOOLEAN : PullSucceeds(found) \/ PullFails(found)

Spec == Init /\ [][Next]_vars

-----------------------------------------------------------------------------
(* Properties *)

\* The published file has a row for each row of the source at the last pull that
\* succeeded, whatever mode and sink were configured, but for the rows a merge gave
\* up, which no later increment brings back: an increment takes the place of the
\* table only when the ramdb file it is merged with is gone or cannot be read
\* (_merge_incremental, and the guard of the constructor of Daemon against sinks
\* that cannot merge).
FileShowsTheTable ==
    /\ Len(file.values) = Len(shown) - lost
    /\ lost > 0 => Incremental /\ SinkOf(doc) = "ramdb"

Missing == {"null", "nan"}

\* A null or NaN of the source, and nothing else, is a null of the Arrow file:
\* no rule of the coercion layer fills it on the way (core/coercion.py).
ArrowKeepsNulls ==
    SinkOf(doc) = "arrow_ipc" =>
        \A i \in DOMAIN file.values : (file.values[i] = "null") <=> (shown[i] \in Missing)

\* The ramdb codec never meets what it cannot hold: no null outside floats and
\* timestamps, no nullable dtype, no integer outside int32 (apply_ramdb_null_fill
\* and _raise_on_codec_unsafe_int64).
RamdbFileIsSafe ==
    SinkOf(doc) = "ramdb" =>
        /\ file.dtype \notin {"Int64", "boolean"}
        /\ \A i \in DOMAIN file.values :
              /\ file.values[i] = "null" => file.dtype \in {"float64", "datetime64[ns]"}
              /\ file.dtype = "int64" => file.values[i] \notin {"large", "huge", "rounded"}

\* Once rows of two dtypes were published the drift flag is up, with whatever empty
\* and failed pulls in between; and it is only up when the column was altered, or
\* when some pull was empty, which is a false alarm of the code: values, nulls among
\* them, never change a dtype (Daemon._handle_success and compare_schemas over the
\* dtypes of apply_coercion).
DriftFlagIsRight ==
    /\ (\E d, e \in kinds : d # e) => drift
    /\ drift => alters > 0 \/ emptied

\* A connection under the supabase profile goes over TLS unless it stays on the
\* machine, never to the transaction-mode port, and never prepares statements
\* through a pooler (SupabaseProfile.apply, Config.driver_config).
SafeConnection ==
    phase = "connected" /\ doc.profile = "supabase" =>
        /\ connection.port # TransactionPort
        /\ connection.host = "pooled" => ~connection.prepare
        /\ connection.host # "loopback" =>
              connection.tls \in {"require", "verify-ca", "verify-full"}

\* Claim of core/coercion.py: integers above 2^53 are not rounded on the way to a
\* sink that holds int64 (the Arrow sink).
BigIntegersSurvive ==
    SinkOf(doc) = "arrow_ipc" /\ class = "integer" /\ shown = table =>
        \A i \in DOMAIN file.values : shown[i] = "huge" => file.values[i] = "huge"
=============================================================================
