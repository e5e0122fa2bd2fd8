---------------------------- MODULE Conformance ----------------------------
(***************************************************************************)
(* Runs of factory/conformance.py: two pulls of one table by a one-shot    *)
(* daemon, the judges of Battery over what they published, the zero-copy   *)
(* serve gate of factory/serve_gate.py, and the evidence pack.             *)
(*                                                                         *)
(* One after the other, MaxRuns runs with the same arguments and the same  *)
(* work directory are made of a driver that may have a fault.  In between  *)
(* and during them the source changes, a pull, a probe or the gate fails,  *)
(* or the battery is killed, as the sweep's timeout does, which leaves the *)
(* served process behind.                                                  *)
(***************************************************************************)
EXTENDS Battery

CONSTANTS
    Invocations,        \* what a run can be called with
    Rows,               \* the rows the ground truth was captured of
    NewRow,             \* a row that is added later
    MaxRuns, MaxChanges, MaxOutages, MaxKills

ASSUME ConformanceAssumption ==
    {MaxRuns, MaxChanges, MaxOutages, MaxKills} \subseteq Nat

\* A row of the source; none of its values is a NaN.
TableRow ==
    [score : Nat \union {Null}, qty : Nat, name : Nat, time : Nat \union {Null}]
Fields == {"score", "qty", "name", "time"}

ASSUME RowsAssumption ==
    Rows \in Seq(TableRow) /\ Rows # <<>> /\ NewRow \in TableRow

\* What is committed as a list has its entries in an order.
ASSUME InvocationAssumption ==
    \A i \in Invocations :
        UNION {DOMAIN i.spec.columns, DOMAIN i.spec.aggregates, DOMAIN i.spec.discriminators,
               DOMAIN i.spec.boundary, DOMAIN i.attempts} \subseteq Nat

VARIABLES
    inv,          \* the arguments, and the fault of what is tested
    run,          \* how many runs have started
    pc,           \* where the run is
    source,       \* the rows of the live source
    artifact,     \* the file in the work directory: <<>> or <<file>>
    delivered,    \* pulls of this run that published
    reads,        \* what read_artifact returned
    results,      \* the CheckResult of each check
    server,       \* who listens on the address of the gate: <<>> or <<process>>
    own,          \* the process this run started
    cold,         \* the counters of the cold pass, and whether it was one
    json, md,     \* the two forms of the pack in the evidence directory
    exit,         \* how the run ended
    changes, outages, kills

gate == <<server, own, cold>>
work == <<artifact, delivered, reads>>
pack == <<json, md>>
bounds == <<changes, outages, kills>>
vars == <<inv, run, pc, source, artifact, delivered, reads, results, server, own,
          cold, json, md, exit, changes, outages, kills>>

Unjudged == [status |-> "NONE", code |-> ""]
Unwritten == [run |-> 0, results |-> [c \in Checks |-> Unjudged]]

-----------------------------------------------------------------------------
(* What the tested driver, sink and server do, with their fault *)

\* The columns of the published file, as written by the fault.
Written(fault, columns) ==
    LET Without(name) ==
            LET dropped == CHOOSE i \in DOMAIN columns : columns[i].name = name
            IN [i \in 1..(Len(columns) - 1) |-> columns[IF i < dropped THEN i ELSE i + 1]]
        Retyped(from, to) == [i \in DOMAIN columns |->
            IF columns[i].type = from THEN [columns[i] EXCEPT !.type = to] ELSE columns[i]]
    IN CASE fault = "retype"       -> Retyped("int64", "int32")
         [] fault = "widen_string" -> Retyped("string", "large_string")
         [] fault = "swap_columns" -> [columns EXCEPT ![1] = columns[2], ![2] = columns[1]]
         [] fault = "drop_time"    -> Without("time")
         [] fault = "drop_qty"     -> Without("qty")
         [] OTHER                  -> columns

\* The rows of the published file; pulls numbers the pulls of a run from 0.
Carried(fault, rows, pulls) ==
    LET Each(F(_)) == [i \in DOMAIN rows |-> F(rows[i])]
        Nulls(v) == Each(LAMBDA r : IF r.score = Null THEN [r EXCEPT !.score = v] ELSE r)
    IN CASE fault = "fill_zero"     -> Nulls(0)
         [] fault = "fill_nan"      -> Nulls(NaN)
         [] fault = "shift_time"    -> Each(LAMBDA r : IF r.time = Null THEN r
                                                       ELSE [r EXCEPT !.time = @ + 8])
         [] fault = "drop_row"      -> Tail(rows)
         [] fault = "repeat_row"    -> Append(rows, rows[1])
         [] fault = "unstable_rows" /\ pulls = 1 -> Append(Tail(rows), rows[1])
         [] OTHER                   -> rows

Published(fault, rows, columns, pulls) ==
    LET carried == Carried(fault, rows, pulls)
    IN [cols |-> Written(fault, columns),
        rows |-> carried,
        blocks |-> IF fault = "one_block" THEN <<Len(carried)>>
                   ELSE ExpectedBlockRows(Len(carried)),
        roundoff |-> IF fault = "roundoff" THEN 1 ELSE 0]

\* A registry whose refusal of an unknown dialect may leave out the known ones.
RegistryOf(fault) ==
    [resolves |-> TRUE, named |-> fault # "misfiled_driver", listed |-> TRUE,
     refusals |-> <<"lists", IF fault = "bare_refusal" THEN "omits" ELSE "lists">>]

\* What Daemon's constructor does when the table is incremental.
IncrementalOutcome(fault) == IF fault = "merges_arrow" THEN "accepted" ELSE "refused"

\* Deltas of the counters for one pass of the workload over a column, which is in
\* the cache of the server or is not.
Pass(fault, cached) ==
    LET decodes == ~cached \/ fault = "evicting_server"
    IN [decoded   |-> IF decodes THEN 1 ELSE 0,
        zero_copy |-> IF decodes THEN 1 ELSE 0,
        copied    |-> IF fault = "copying_server" THEN 1 ELSE 0,
        hits      |-> IF decodes THEN 0 ELSE 1,
        misses    |-> IF decodes THEN 1 ELSE 0]

-----------------------------------------------------------------------------
(* A run *)

Init ==
    /\ inv \in Invocations
    /\ run = 1 /\ pc = "start"
    /\ source = Rows
    /\ artifact = <<>> /\ delivered = 0 /\ reads = <<>>
    /\ results = Unwritten.results
    /\ server = <<>> /\ own = "none"
    /\ cold = [was_cached |-> FALSE, counters |-> Pass("none", TRUE)]
    /\ json = Unwritten /\ md = Unwritten
    /\ exit = "none"
    /\ changes = 0 /\ outages = 0 /\ kills = 0

Over(how) == pc' = "over" /\ exit' = how

\* The refusals of run() before any work: a dirty tree, a label or a table that
\* does not fit, a missing spec, inputs inside the evidence tree.
Admitted ==
    /\ inv.clean \/ inv.allow_dirty
    /\ inv.inputs_fit
    /\ inv.inputs_outside_evidence

Refuse ==
    /\ pc = "start"
    /\ ~Admitted
    /\ Over("refused")
    /\ UNCHANGED <<inv, run, source, work, results, gate, pack, bounds>>

\* apply_work_dir, and the first check.
Begin ==
    /\ pc = "start"
    /\ Admitted
    /\ pc' = "pull"
    /\ artifact' = IF inv.keeps_work_dir THEN artifact ELSE <<>>
    /\ results' = [results EXCEPT !["registry"] = RegistryAdmission(RegistryOf(inv.fault))]
    /\ UNCHANGED <<inv, run, source, delivered, reads, gate, pack, exit, bounds>>

\* run_pull: a one-shot daemon returns, whether its pull succeeded or failed.
PullPublishes ==
    /\ pc = "pull"
    /\ artifact' = <<Published(inv.fault, source, inv.columns, Len(reads))>>
    /\ delivered' = delivered + 1
    /\ pc' = "read"
    /\ UNCHANGED <<inv, run, source, reads, results, gate, pack, exit, bounds>>

PullFails ==
    /\ pc = "pull"
    /\ outages < MaxOutages
    /\ outages' = outages + 1
    /\ pc' = "read"
    /\ UNCHANGED <<inv, run, source, work, results, gate, pack, exit, changes, kills>>

Legible == artifact # <<>> /\ Readable(artifact[1], inv.spec)

ReadArtifact ==
    /\ pc = "read"
    /\ Legible
    /\ reads' = Append(reads, artifact[1])
    /\ pc' = IF reads = <<>> THEN "pull" ELSE "judge"
    /\ UNCHANGED <<inv, run, source, artifact, delivered, results, gate, pack, exit, bounds>>

\* There is no file, or compute_aggregates raises: nobody catches it.
ReadRaises ==
    /\ pc = "read"
    /\ ~Legible
    /\ Over("crash")
    /\ UNCHANGED <<inv, run, source, work, results, gate, pack, bounds>>

\* The data checks read the first pull.
JudgedFile == reads[1]

\* The checks from the schema to the security of the recipe book, given the one
\* that asks the live source.
Judged(b2) ==
    [results EXCEPT
       !["schema"] = SchemaExactness(JudgedFile, inv.spec),
       !["aggregate"] = AggregateParity(Aggregates(JudgedFile, inv.spec), inv.truth, inv.spec),
       !["rf002"] = NullDiscriminator(JudgedFile, inv.truth, inv.spec),
       !["b2"] = b2,
       !["pg011"] = IncrementalRefusal(IncrementalOutcome(inv.fault)),
       !["blocks"] = BlockStructure(JudgedFile),
       !["checksum"] = Checksum(reads[1], reads[2], inv.spec),
       !["recipe_security"] = RecipeSecurity(inv.has_book, inv.attempts)]

Judge ==
    /\ pc = "judge"
    /\ LET names == {inv.spec.boundary[i] : i \in DOMAIN inv.spec.boundary}
       IN results' = Judged(Boundary(JudgedFile, [n \in names |-> Bounds(source, n)], inv.spec))
    /\ pc' = "serve"
    /\ UNCHANGED <<inv, run, source, work, gate, pack, exit, bounds>>

\* A ProbeError is a FAIL, without a reason code.
ProbeFails ==
    /\ pc = "judge"
    /\ outages < MaxOutages
    /\ outages' = outages + 1
    /\ results' = Judged(Failed(""))
    /\ pc' = "serve"
    /\ UNCHANGED <<inv, run, source, work, gate, pack, exit, changes, kills>>

-----------------------------------------------------------------------------
(* The serve gate *)

GateResult(result) ==
    /\ results' = [results EXCEPT !["serve"] = result]
    /\ pc' = "archive"

\* Not asked for, or asked for with a spec that has no query.
SkipGate ==
    /\ pc = "serve"
    /\ ~inv.serve_gate \/ ~inv.spec.serve_gate_sql
    /\ GateResult(IF inv.serve_gate THEN Failed("") ELSE Skipped)
    /\ UNCHANGED <<inv, run, source, work, gate, pack, exit, bounds>>

\* ephemeral_serve: a process that finds the address taken is going to exit.
Launch ==
    /\ pc = "serve"
    /\ inv.serve_gate /\ inv.spec.serve_gate_sql
    /\ IF server = <<>>
       THEN server' = <<[cached |-> FALSE]>> /\ own' = "serves"
       ELSE server' = server /\ own' = "exits"
    /\ pc' = "await"
    /\ UNCHANGED <<inv, run, source, work, results, cold, pack, exit, bounds>>

ProcessExits ==
    /\ own = "exits"
    /\ own' = "gone"
    /\ UNCHANGED <<inv, run, pc, source, work, results, server, cold, pack, exit, bounds>>

\* _await_ready: an exit is seen before the address is asked; whoever answers there
\* makes the gate ready.
Ready ==
    /\ pc = "await"
    /\ own # "gone"
    /\ pc' = "cold"
    /\ UNCHANGED <<inv, run, source, work, results, gate, pack, exit, bounds>>

\* _terminate, by the process id of what this run started.
Terminated ==
    /\ own' = "none"
    /\ server' = IF own = "serves" THEN <<>> ELSE server

\* An exited process, or a server that is not ready in time or dies under the
\* workload: a FAIL, without a reason code.
GateRaises ==
    /\ \/ pc = "await" /\ own = "gone" /\ outages' = outages
       \/ /\ pc \in {"await", "cold", "warm"} /\ own = "serves"
          /\ outages < MaxOutages /\ outages' = outages + 1
    /\ Terminated
    /\ GateResult(Failed(""))
    /\ UNCHANGED <<inv, run, source, work, cold, pack, exit, changes, kills>>

\* A pass over the workload is one step: a server that a kill left with a part of its
\* columns decoded is outside the model.
ColdPass ==
    /\ pc = "cold"
    /\ cold' = [was_cached |-> server[1].cached,
                counters |-> Pass(inv.fault, server[1].cached)]
    /\ server' = <<[server[1] EXCEPT !.cached = TRUE]>>
    /\ pc' = "warm"
    /\ UNCHANGED <<inv, run, source, work, results, own, pack, exit, bounds>>

WarmPass ==
    /\ pc = "warm"
    /\ GateResult(ServeGate(cold.counters, Pass(inv.fault, TRUE)))
    /\ Terminated
    /\ UNCHANGED <<inv, run, source, work, cold, pack, exit, bounds>>

-----------------------------------------------------------------------------
(* The evidence pack *)

\* Mutant: the artifact is archived after the pack is written.
ArchiveRefusesLate ==
    /\ pc = "md"
    /\ outages < MaxOutages
    /\ outages' = outages + 1
    /\ Over("refused")
    /\ UNCHANGED <<inv, run, source, work, results, gate, pack, changes, kills>>

\* record_artifact refuses a stored entry whose bytes are not what it is named.
ArchiveRefuses ==
    /\ pc = "archive"
    /\ outages < MaxOutages
    /\ outages' = outages + 1
    /\ Over("refused")
    /\ UNCHANGED <<inv, run, source, work, results, gate, pack, changes, kills>>

Archive ==
    /\ pc = "archive"
    /\ pc' = "json"
    /\ UNCHANGED <<inv, run, source, work, results, gate, pack, exit, bounds>>

\* write_pack: each form whole, one after the other.
WriteJson ==
    /\ pc = "json"
    /\ json' = [run |-> run, results |-> results]
    /\ pc' = "md"
    /\ UNCHANGED <<inv, run, source, work, results, gate, md, exit, bounds>>

\* Mutant: the exit code looks at the data checks only.
ExitCodeOfData(r) == PackVerdict([c \in Checks \ {"serve"} |-> r[c]])

ExitCode(r) == PackVerdict(r)

WriteMd ==
    /\ pc = "md"
    /\ md' = json
    /\ Over(ExitCode(results))
    /\ UNCHANGED <<inv, run, source, work, results, gate, json, bounds>>

-----------------------------------------------------------------------------
(* What happens to a run, and the next one *)

SourceChanges ==
    /\ changes < MaxChanges
    /\ changes' = changes + 1
    /\ source' \in {Append(source, NewRow), [source EXCEPT ![1].qty = @ + 1]}
    /\ UNCHANGED <<inv, run, pc, work, results, gate, pack, exit, outages, kills>>

\* A server that was started outlives the battery.
Killed ==
    /\ pc \notin {"start", "over"}
    /\ kills < MaxKills
    /\ kills' = kills + 1
    /\ own' = "none"
    /\ Over("killed")
    /\ UNCHANGED <<inv, run, source, work, results, server, cold, pack, changes, outages>>

NextRun ==
    /\ pc = "over"
    /\ run < MaxRuns
    /\ run' = run + 1
    /\ pc' = "start" /\ exit' = "none"
    /\ delivered' = 0 /\ reads' = <<>>
    /\ results' = Unwritten.results
    /\ UNCHANGED <<inv, source, artifact, gate, pack, bounds>>

Next ==
    \/ Refuse \/ Begin \/ PullPublishes \/ PullFails \/ ReadArtifact \/ ReadRaises
    \/ Judge \/ ProbeFails
    \/ SkipGate \/ Launch \/ ProcessExits \/ Ready \/ GateRaises \/ ColdPass \/ WarmPass
    \/ ArchiveRefuses \/ Archive \/ WriteJson \/ WriteMd
    \/ SourceChanges \/ Killed \/ NextRun

Spec == Init /\ [][Next]_vars

-----------------------------------------------------------------------------
(* Properties *)

\* The checks a fault of the driver, the sink, the server or a committed file makes
\* fail when nothing else goes wrong.  The first four are tolerated: the width of
\* strings, the order of a float sum, a spec that explains that it names no
\* discriminator.
Blamed(fault) ==
    CASE fault \in {"none", "widen_string", "roundoff", "explained_zero"} -> {}
      [] fault \in {"retype", "swap_columns", "no_columns"} -> {"schema"}
      [] fault = "drop_time" -> {"schema", "b2"}
      [] fault \in {"drop_row", "repeat_row", "no_aggregates", "no_truth"} -> {"aggregate"}
      [] fault \in {"fill_zero", "fill_nan"} -> {"rf002", "aggregate"}
      [] fault \in {"silent_zero", "no_declaration", "stale_count"} -> {"rf002"}
      [] fault \in {"shift_time", "no_boundary"} -> {"b2"}
      [] fault = "merges_arrow" -> {"pg011"}
      [] fault = "one_block" -> {"blocks"}
      [] fault = "unstable_rows" -> {"checksum"}
      [] fault = "open_book" -> {"recipe_security"}
      [] fault \in {"bare_refusal", "misfiled_driver"} -> {"registry"}
      [] fault \in {"copying_server", "evicting_server", "no_query"} -> {"serve"}

\* What is committed about a table, for its checks to tell a fault from a faithful
\* driver: the entries describe the rows that were captured, and the one an entry
\* must be about for a fault to show in it is there.

ColumnsFit(i) ==
    /\ i.columns \in Seq([name : Fields, type : STRING])
    /\ Fields \subseteq {i.columns[c].name : c \in DOMAIN i.columns}
    /\ \A c, d \in DOMAIN i.columns : i.columns[c].name = i.columns[d].name => c = d
    /\ i.spec.columns = IF i.fault = "no_columns" THEN <<>> ELSE i.columns
    /\ i.fault = "retype" => \E c \in DOMAIN i.columns : i.columns[c].type = "int64"
    /\ i.fault = "widen_string" => i.spec.tolerant

\* A lost or repeated first row shows in an exact count of a value it has.
AggregatesFit(i) ==
    LET entries  == i.spec.aggregates
        faithful == Published("none", Rows, i.columns, 0)
        Known(e) == e.key \in DOMAIN i.truth
        Gate(op) == {e \in {entries[a] : a \in DOMAIN entries} :
                        ~e.corroborating /\ Known(e) /\ e.op = op}
    IN /\ entries = <<>> <=> i.fault = "no_aggregates"
       /\ \A a, b \in DOMAIN entries : entries[a].key = entries[b].key => a = b
       /\ \A a \in DOMAIN entries :
             LET e == entries[a]
             IN /\ e.tolerance \in Nat
                /\ e.op = "row_count" \/ e.column \in Fields \ {"time"}
                /\ Known(e) => /\ i.truth[e.key] \in Int
                               /\ i.truth[e.key] = Aggregate(faithful, e)
       /\ i.fault = "no_truth" <=> \E a \in DOMAIN entries : ~Known(entries[a])
       /\ i.fault = "roundoff" => Gate("scaled_sum_float") = {}
       /\ i.fault = "drop_qty" =>
             \E a \in DOMAIN entries : entries[a].op # "row_count" /\ entries[a].column = "qty"
       /\ i.fault \in {"fill_zero", "fill_nan"} =>
             \E e \in Gate("null_count") : e.column = "score" /\ i.truth[e.key] > e.tolerance
       /\ i.fault \in {"drop_row", "repeat_row"} =>
             \E e \in Gate("count_equals") :
                /\ e.tolerance = 0 /\ e.column # "qty"
                /\ e.value = Rows[1][e.column] /\ e.value # NewRow[e.column]

NullsFit(i) ==
    LET entries == i.spec.discriminators
        Agrees(e) == e.key # "" => e.key \in DOMAIN i.truth /\ i.truth[e.key] = e.nulls
    IN /\ i.spec.declares_discriminators <=> i.fault # "no_declaration"
       /\ entries = <<>> <=> i.fault \in {"silent_zero", "explained_zero"}
       /\ entries = <<>> => (i.spec.absent_reason <=> i.fault = "explained_zero")
       /\ i.fault = "stale_count" => \E d \in DOMAIN entries : ~Agrees(entries[d])
       /\ i.fault # "stale_count" =>
             \A d \in DOMAIN entries :
                /\ Agrees(entries[d])
                /\ entries[d].column \in Fields
                /\ entries[d].nulls = CountOf(Rows, entries[d].column, Null)
                /\ entries[d].nulls # 0
                /\ i.fault = "drop_time" => entries[d].column # "time"
                /\ i.fault \in {"drop_row", "repeat_row"} => Rows[1][entries[d].column] # Null
       /\ i.fault \in {"fill_zero", "fill_nan"} =>
             \E d \in DOMAIN entries : entries[d].column = "score"

\* A boundary column is not the one whose nulls are filled, and the first row is not
\* the only one at the boundary.
BoundaryFits(i) ==
    LET names == {i.spec.boundary[b] : b \in DOMAIN i.spec.boundary}
    IN /\ i.spec.boundary = <<>> <=> i.fault = "no_boundary"
       /\ names \subseteq Fields
       /\ i.fault \in {"drop_time", "shift_time"} => "time" \in names
       /\ i.fault = "shift_time" => \E r \in DOMAIN Rows : Rows[r].time # Null
       /\ i.fault \in {"fill_zero", "fill_nan"} => "score" \notin names
       /\ i.fault = "drop_row" => \A n \in names : Bounds(Tail(Rows), n) = Bounds(Rows, n)

OthersFit(i) ==
    /\ i.fault = "one_block" => Len(Rows) > BlockRows
    /\ i.fault = "unstable_rows" =>
          \E r \in DOMAIN Tail(Rows) : Rows[r].time # Rows[r + 1].time
    /\ i.has_book => i.attempts # <<>>
    /\ i.fault = "open_book" <=> i.has_book /\ \E a \in DOMAIN i.attempts : ~i.attempts[a]
    /\ i.fault \in {"copying_server", "evicting_server", "no_query"} => i.serve_gate
    /\ i.serve_gate => (i.spec.serve_gate_sql <=> i.fault # "no_query")

Faults ==
    {"none", "widen_string", "roundoff", "explained_zero", "retype", "swap_columns",
     "no_columns", "drop_time", "drop_qty", "drop_row", "repeat_row", "no_aggregates",
     "no_truth", "fill_zero", "fill_nan", "silent_zero", "no_declaration", "stale_count",
     "shift_time", "no_boundary", "merges_arrow", "one_block", "unstable_rows", "open_book",
     "bare_refusal", "misfiled_driver", "copying_server", "evicting_server", "no_query"}

Telling(i) ==
    /\ i.fault \in Faults
    /\ ColumnsFit(i) /\ AggregatesFit(i) /\ NullsFit(i) /\ BoundaryFits(i) /\ OthersFit(i)

FailedIn(p) == {c \in Checks : p.results[c].status = "FAIL"}

\* The pack of an undisturbed run blames a fault on the checks that own it and on no
\* other, so that a uniform shift of a time column, say, is found by the boundary
\* check alone; and a faithful driver is green (MECHANISMS, the module docs of
\* battery.py).
BlameIsExact ==
    json.run = run /\ changes = 0 /\ outages = 0 /\ kills = 0
    => FailedIn(json) = Blamed(inv.fault)

\* Whatever else goes wrong, a fault is never recorded as green, except that rows in
\* an unstable order need both pulls to show.
FaultsAreFound ==
    /\ json.run = run
    /\ inv.fault = "unstable_rows" => delivered = 2
    => Blamed(inv.fault) \subseteq FailedIn(json)

\* The serve gate passes no server that an earlier run had already warmed, although
\* it may measure the server that a killed run left on the address (ephemeral_serve,
\* check_serve_gate).
PassIsFromAColdServer == results["serve"].status = "PASS" => ~cold.was_cached

\* What a check may end with: a FAIL names a mechanism declared for it, unless the
\* source or the server could not be asked.
Outcomes(c) ==
    {Passed, Skipped} \union {Failed(code) : code \in Mechanisms[c]}
    \union IF c \in {"b2", "serve"} THEN {Failed("")} ELSE {}

\* A run that ends green, or red by a check, has left both forms of its own pack, with
\* every check judged, for a declared reason if red, and that verdict; a green one in a
\* fresh work directory read a file it had pulled.  A run that refused or raised has
\* left none (conformance.run, write_pack, MECHANISMS).
ExitTellsThePack ==
    /\ exit \in {"PASS", "FAIL"} =>
          /\ json.run = run /\ md = json
          /\ \A c \in Checks : json.results[c] \in Outcomes(c)
          /\ exit = "FAIL" <=> FailedIn(json) # {}
    /\ exit = "PASS" /\ ~inv.keeps_work_dir => delivered > 0
    /\ exit \in {"refused", "crash"} => json.run # run

\* Seen from outside a battery is its exit and the machine form of its pack, and keeps
\* the promise that the sweep relies on (conformance.run, write_pack, run_target).
LastPack ==
    [run |-> json.run,
     verdict |-> IF json.run = 0 THEN "none" ELSE PackVerdict(json.results)]

Promise == INSTANCE BatteryPromise WITH pack <- LastPack

KeepsThePromise == Promise!Spec

\* Claim of a comment of conformance.py: the checks run after two pulls that were
\* successful.
GreenMeansTwoPulls == exit = "PASS" => delivered = 2
=============================================================================
