---------------------------- MODULE MCTypedPull ----------------------------
(***************************************************************************)
(* The documents TypedPull is checked with: one family that varies what    *)
(* happens to values, and one that varies what refuses a document or a     *)
(* connection.                                                             *)
(***************************************************************************)
EXTENDS TypedPull

Local == [host |-> "loopback", port |-> 5432, tls |-> "prefer", prepare |-> TRUE]

Document(dialect, sink, mode, own, key, sanitize) ==
    [dialect |-> dialect, blocks |-> {dialect}, profile |-> "none", sink |-> sink,
     mode |-> mode, cadence |-> 60, block |-> Local, sanitize |-> sanitize,
     tables |-> <<[target |-> "t", mode |-> own, key |-> key, cadence |-> 0]>>]

\* Every driver and sink, the mode from the table or from the defaults, with a
\* key or without.
ValueDocuments ==
    {Document(dialect, sink, m[1], m[2], m[3], dialect = "postgres") :
        dialect \in {"postgres", "clickhouse"}, sink \in {"none", "arrow_ipc"},
        m \in {<<"full_refresh", "unset", "unset">>,
               <<"full_refresh", "incremental", "unset">>,
               <<"full_refresh", "incremental", "id">>,
               <<"incremental", "unset", "unset">>,
               <<"incremental", "unset", "id">>}}

Plain == Document("postgres", "arrow_ipc", "full_refresh", "unset", "unset", FALSE)
Twice == [Plain EXCEPT !.tables = @ \o @]

\* What each validator and each rule of the profile refuses.
RefusedDocuments ==
    {Twice, [Plain EXCEPT !.dialect = "clickhouse"], [Plain EXCEPT !.blocks = {"postgres", "telemtry"}],
     [Plain EXCEPT !.sink = "parquet"], [Plain EXCEPT !.cadence = 4]}

Supabase == [Document("postgres", "none", "incremental", "unset", "id", FALSE)
                EXCEPT !.profile = "supabase"]
Blocks(hosts, ports, modes) ==
    {[host |-> host, port |-> port, tls |-> tls, prepare |-> TRUE] :
        host \in hosts, port \in ports, tls \in modes}

ProfiledDocuments ==
    {[Plain EXCEPT !.profile = "nile"],
     [Supabase EXCEPT !.dialect = "clickhouse", !.blocks = {"clickhouse"}]}
    \union {[Supabase EXCEPT !.block = b] :
        b \in Blocks({"direct", "pooled"}, {5432}, SslModes \ {"require"})
              \union Blocks({"loopback"}, {5432}, {"disable", "prefer"})
              \union Blocks({"pooled"}, {6543}, {"require"})}

EveryDocument == ValueDocuments \union RefusedDocuments \union ProfiledDocuments
=============================================================================
