------------------------------ MODULE Battery ------------------------------
(***************************************************************************)
(* The judges of factory/battery.py and the facts they read off a file     *)
(* (read_artifact and compute_aggregates of factory/conformance.py).       *)
(*                                                                         *)
(* A judge is a function of facts already gathered: it makes comparisons,  *)
(* and names the first one that failed.  A file is a record of columns,    *)
(* rows, block sizes, the rounding error of its float sums and whatever    *)
(* else moves its bytes (stamp); its sha256 is the file itself.            *)
(***************************************************************************)
EXTENDS Integers, Sequences, FiniteSets

LOCAL INSTANCE FiniteSetsExt

CONSTANT BlockRows      \* rows of a full block
ASSUME BlockRowsAssumption == BlockRows \in Nat \ {0}

Null == -1
NaN  == -2
Absent == -3            \* an entry of a committed file that is not there

CheckNames == <<"registry", "schema", "aggregate", "rf002", "b2", "pg011",
                "blocks", "checksum", "recipe_security", "serve">>
Checks == {CheckNames[i] : i \in DOMAIN CheckNames}

\* MECHANISMS: the reason codes declared for each check.
Mechanisms ==
    [registry  |-> {"registry.dialect_unresolvable", "registry.dialect_name_mismatch",
                    "registry.dialect_absent_from_listing",
                    "registry.refusal_omits_registry", "registry.unregistered_accepted"},
     schema    |-> {"schema.empty_spec", "schema.column_count",
                    "schema.column_set_or_order", "schema.type_mismatch"},
     aggregate |-> {"aggregate.empty_spec", "aggregate.missing_ground_truth_key",
                    "aggregate.not_computed", "aggregate.mismatch",
                    "aggregate.corroborating_mismatch"},
     rf002     |-> {"rf002.no_declaration", "rf002.empty_without_reason",
                    "rf002.table_not_declared", "rf002.spec_ground_truth_disagree",
                    "rf002.null_count_mismatch", "rf002.not_discriminating",
                    "rf002.nan_as_value"},
     b2        |-> {"b2.no_boundary_columns", "b2.source_not_probed",
                    "b2.column_absent", "b2.bounds_diverged"},
     pg011     |-> {"pg011.accepted", "pg011.wrong_error"},
     blocks    |-> {"blocks.count_mismatch", "blocks.rows_missing",
                    "blocks.layout_mismatch"},
     checksum  |-> {"checksum.data_layer_differs", "checksum.bytes_only"},
     recipe_security |-> {"recipe_security.no_mutations",
                          "recipe_security.mutation_accepted"},
     serve     |-> {"serve.copied_columns_cold", "serve.copied_columns_warm",
                    "serve.cold_zero_copy_mismatch", "serve.cold_no_decode",
                    "serve.warm_miss", "serve.warm_decoded"}]

-----------------------------------------------------------------------------
(* Verdicts *)

Comparison(ok, code) == [ok |-> ok, code |-> code]

Passed       == [status |-> "PASS", code |-> ""]
Skipped      == [status |-> "SKIPPED", code |-> ""]
Failed(code) == [status |-> "FAIL", code |-> code]

Least(S)    == CHOOSE i \in S : \A j \in S : i <= j
Greatest(S) == CHOOSE i \in S : \A j \in S : j <= i

\* The first of a list of verdicts that is not passed.
FirstOf(verdicts) ==
    LET failing == {i \in DOMAIN verdicts : verdicts[i] # Passed}
    IN IF failing = {} THEN Passed ELSE verdicts[Least(failing)]

\* _verdict and CheckResult.__post_init__.
Verdict(comparisons) ==
    FirstOf([i \in DOMAIN comparisons |->
                IF comparisons[i].ok THEN Passed ELSE Failed(comparisons[i].code)])

-----------------------------------------------------------------------------
(* The facts of a file *)

Columns(file)      == {file.cols[i].name : i \in DOMAIN file.cols}
TypeOf(file, name) == file.cols[CHOOSE i \in DOMAIN file.cols : file.cols[i].name = name].type

CountOf(rows, name, value) == Cardinality({i \in DOMAIN rows : rows[i][name] = value})
NullCount(file, name) == CountOf(file.rows, name, Null)
NaNCount(file, name)  == CountOf(file.rows, name, NaN)

Total(f) == MapThenSumSet(LAMBDA i : f[i], DOMAIN f)

Counted(rows, name)  == {i \in DOMAIN rows : rows[i][name] \notin {Null, NaN}}
SumOf(rows, name)    == Total([i \in Counted(rows, name) |-> rows[i][name]])
ValuesIn(rows, name) == {rows[i][name] : i \in Counted(rows, name)}

\* The least and the greatest value of a column that has one.
Bounds(rows, name) ==
    IF ValuesIn(rows, name) = {} THEN <<Null, Null>>
    ELSE <<Least(ValuesIn(rows, name)), Greatest(ValuesIn(rows, name))>>

\* compute_aggregates, one entry.
Aggregate(file, entry) ==
    LET col  == entry.column
        rows == file.rows
    IN CASE entry.op = "row_count"    -> Len(rows)
         [] entry.op = "nunique"      -> Cardinality({rows[i][col] : i \in DOMAIN rows} \ {Null})
         [] entry.op = "count_equals" -> CountOf(rows, col, entry.value)
         [] entry.op = "null_count"   -> NullCount(file, col)
         [] entry.op = "null_pct"     -> IF rows = <<>> THEN 0
                                         ELSE (100 * NullCount(file, col)) \div Len(rows)
         [] entry.op = "max_int"      -> Greatest(ValuesIn(rows, col))
         [] entry.op \in {"sum_int", "scaled_sum_exact_int"} -> SumOf(rows, col)
         [] entry.op = "scaled_sum_float" -> SumOf(rows, col) + file.roundoff

\* What compute_aggregates can evaluate: a column that is there, and for a sum
\* or a maximum of integers at least one value.  Otherwise it raises.
Computes(file, entry) ==
    \/ entry.op = "row_count"
    \/ /\ entry.column \in Columns(file)
       /\ entry.op \in {"sum_int", "max_int"} => ValuesIn(file.rows, entry.column) # {}

Readable(file, spec) == \A i \in DOMAIN spec.aggregates : Computes(file, spec.aggregates[i])

\* read_artifact: the aggregates by the key of the ground truth.
Aggregates(file, spec) ==
    LET entries == spec.aggregates
    IN [key \in {entries[i].key : i \in DOMAIN entries} |->
          Aggregate(file, entries[CHOOSE i \in DOMAIN entries : entries[i].key = key])]

-----------------------------------------------------------------------------
(* The judges *)

\* A dialect as the registry, its listing and the two refusals present it.
RegistryAdmission(registry) ==
    IF ~registry.resolves THEN Failed("registry.dialect_unresolvable")
    ELSE FirstOf(
        <<Verdict(<<Comparison(registry.named, "registry.dialect_name_mismatch"),
                    Comparison(registry.listed, "registry.dialect_absent_from_listing")>>),
          Verdict([i \in DOMAIN registry.refusals |->
             IF registry.refusals[i] = "accepts"
             THEN Comparison(FALSE, "registry.unregistered_accepted")
             ELSE Comparison(registry.refusals[i] = "lists",
                             "registry.refusal_omits_registry")])>>)

\* normalize_string_width: the one difference of type that is tolerated.
Normalized(type, tolerant) == IF tolerant /\ type = "large_string" THEN "string" ELSE type

\* Mutant: the columns are compared as a set.
SameColumnsInAnyOrder(file, spec) ==
    Columns(file) = {spec.columns[i].name : i \in DOMAIN spec.columns}

SameColumns(file, spec) ==
    [i \in DOMAIN file.cols |-> file.cols[i].name]
        = [i \in DOMAIN spec.columns |-> spec.columns[i].name]

SameType(file, column, tolerant) ==
    /\ column.name \in Columns(file)
    /\ Normalized(TypeOf(file, column.name), tolerant) = Normalized(column.type, tolerant)

SchemaExactness(file, spec) ==
    IF spec.columns = <<>> THEN Failed("schema.empty_spec")
    ELSE FirstOf(
        <<Verdict(<<Comparison(Len(file.cols) = Len(spec.columns), "schema.column_count"),
                    Comparison(SameColumns(file, spec), "schema.column_set_or_order")>>),
          Verdict([i \in DOMAIN spec.columns |->
             Comparison(SameType(file, spec.columns[i], spec.tolerant),
                        "schema.type_mismatch")])>>)

\* math.isclose: within the tolerance, or within its own relative one of 1e-9, which it
\* keeps; without a tolerance the values are compared.
Size(x) == IF x < 0 THEN -x ELSE x

IsClose(actual, expected, tolerance) ==
    IF tolerance = 0 THEN actual = expected
    ELSE \/ Size(actual - expected) <= tolerance
         \/ \E x \in {actual, expected} :
               Size(actual - expected) <= Size(x) \div 1000000000

\* The judge of one aggregate; truth holds what was captured at the source.
AggregateComparison(computed, truth, entry) ==
    IF entry.key \notin DOMAIN truth
    THEN Comparison(FALSE, "aggregate.missing_ground_truth_key")
    ELSE IF entry.key \notin DOMAIN computed
    THEN Comparison(FALSE, "aggregate.not_computed")
    ELSE Comparison(IsClose(computed[entry.key], truth[entry.key], entry.tolerance),
                    IF entry.corroborating THEN "aggregate.corroborating_mismatch"
                    ELSE "aggregate.mismatch")

\* Mutant: a corroborating aggregate gates like the others.
GatesAlways(comparison) == TRUE

\* A corroborating aggregate is recorded and does not gate.
Gates(comparison) == comparison.code # "aggregate.corroborating_mismatch"

Gating(comparison) ==
    Comparison(Gates(comparison) => comparison.ok, comparison.code)

AggregateParity(computed, truth, spec) ==
    IF spec.aggregates = <<>> THEN Failed("aggregate.empty_spec")
    ELSE Verdict([i \in DOMAIN spec.aggregates |->
            Gating(AggregateComparison(computed, truth, spec.aggregates[i]))])

\* One declared column: its null count in the spec, in the ground truth (if the
\* entry has a key there) and in the file, and the two ways a null is lost.
Discriminates(file, truth, entry) ==
    IF entry.nulls = Absent THEN Failed("rf002.table_not_declared")
    ELSE LET there == entry.column \in Columns(file)
             nulls == IF there THEN NullCount(file, entry.column) ELSE 0
         IN Verdict(
             <<Comparison(\/ entry.key = ""
                          \/ entry.key \in DOMAIN truth /\ truth[entry.key] = entry.nulls,
                          "rf002.spec_ground_truth_disagree"),
               Comparison(there /\ nulls = entry.nulls, "rf002.null_count_mismatch"),
               Comparison(nulls # 0, "rf002.not_discriminating"),
               Comparison(there => NaNCount(file, entry.column) = 0, "rf002.nan_as_value")>>)

NullDiscriminator(file, truth, spec) ==
    IF ~spec.declares_discriminators THEN Failed("rf002.no_declaration")
    ELSE IF spec.discriminators = <<>>
    THEN IF spec.absent_reason THEN Skipped ELSE Failed("rf002.empty_without_reason")
    ELSE FirstOf([i \in DOMAIN spec.discriminators |->
                    Discriminates(file, truth, spec.discriminators[i])])

\* Mutant: the span is compared instead of its ends.
BoundsSpan(file, probed, name) ==
    Bounds(file.rows, name)[2] - Bounds(file.rows, name)[1] = probed[name][2] - probed[name][1]

BoundsAgree(file, probed, name) == Bounds(file.rows, name) = probed[name]

BoundaryComparison(file, probed, name) ==
    IF name \notin DOMAIN probed THEN Comparison(FALSE, "b2.source_not_probed")
    ELSE IF name \notin Columns(file) THEN Comparison(FALSE, "b2.column_absent")
    ELSE Comparison(BoundsAgree(file, probed, name), "b2.bounds_diverged")

\* check_b2_boundary: probed holds the bounds the live source answered.
Boundary(file, probed, spec) ==
    IF spec.boundary = <<>> THEN Failed("b2.no_boundary_columns")
    ELSE Verdict([i \in DOMAIN spec.boundary |->
            BoundaryComparison(file, probed, spec.boundary[i])])

\* What building the daemon with the table set to incremental came to.
IncrementalRefusal(outcome) ==
    CASE outcome = "refused"     -> Passed
      [] outcome = "other_error" -> Failed("pg011.wrong_error")
      [] outcome = "accepted"    -> Failed("pg011.accepted")

ExpectedBlockRows(rows) ==
    [i \in 1..((rows + BlockRows - 1) \div BlockRows) |->
        IF i * BlockRows <= rows THEN BlockRows ELSE rows % BlockRows]

\* The rows of the blocks, added up one block after the other.
RowsIn(blocks) ==
    LET upto[i \in 0..Len(blocks)] == IF i = 0 THEN 0 ELSE upto[i - 1] + blocks[i]
    IN upto[Len(blocks)]

BlockStructure(file) ==
    LET expected == ExpectedBlockRows(Len(file.rows))
    IN Verdict(
        <<Comparison(Len(file.blocks) = Len(expected), "blocks.count_mismatch"),
          Comparison(RowsIn(file.blocks) = Len(file.rows), "blocks.rows_missing"),
          Comparison(file.blocks = expected, "blocks.layout_mismatch")>>)

\* Two pulls of one lane, byte for byte; on a mismatch the layer that differs.
Checksum(first, second, spec) ==
    IF first = second THEN Passed
    ELSE IF \/ Len(first.rows) # Len(second.rows)
            \/ first.cols # second.cols
            \/ first.blocks # second.blocks
            \/ Aggregates(first, spec) # Aggregates(second, spec)
    THEN Failed("checksum.data_layer_differs")
    ELSE Failed("checksum.bytes_only")

\* attempts: whether each mutation of the book was refused; <<>> of attempts
\* when there is no book.
RecipeSecurity(has_book, attempts) ==
    IF ~has_book THEN Skipped
    ELSE IF attempts = <<>> THEN Failed("recipe_security.no_mutations")
    ELSE Verdict([i \in DOMAIN attempts |->
                    Comparison(attempts[i], "recipe_security.mutation_accepted")])

\* Mutant: a pass that looked columns up counts as one that decoded them.
ExercisedByLookups(cold) == cold.hits + cold.misses > 0

\* A cold pass that decodes nothing did not exercise the reader.
Exercised(cold) == cold.decoded > 0

\* Deltas of the server's counters over a cold and a warm pass.  A pass with no
\* lookups has a miss rate of 0.
ServeGate(cold, warm) ==
    Verdict(
        <<Comparison(cold.copied = 0, "serve.copied_columns_cold"),
          Comparison(warm.copied = 0, "serve.copied_columns_warm"),
          Comparison(cold.zero_copy = cold.decoded, "serve.cold_zero_copy_mismatch"),
          Comparison(Exercised(cold), "serve.cold_no_decode"),
          Comparison(warm.misses = 0, "serve.warm_miss"),
          Comparison(warm.decoded = 0, "serve.warm_decoded")>>)

\* EvidencePack.verdict: red if any check failed, skips do not count.
PackVerdict(results) ==
    IF \E c \in DOMAIN results : results[c].status = "FAIL" THEN "FAIL" ELSE "PASS"
=============================================================================
