--------------------------- MODULE MCConformance ---------------------------
(***************************************************************************)
(* A table of three rows with one null, what is committed about it, and    *)
(* one fault at a time of the driver, the sink, the server or these files. *)
(***************************************************************************)
EXTENDS Conformance

Row(score, qty, name, time) == [score |-> score, qty |-> qty, name |-> name, time |-> time]

ThreeRows == <<Row(2, 4, 1, 5), Row(Null, 6, 2, 3), Row(1, 5, 1, 9)>>
LateRow == Row(3, 1, 2, 10)

Col(name, type) == [name |-> name, type |-> type]
FourColumns == <<Col("score", "double"), Col("qty", "int64"), Col("name", "string"),
                 Col("time", "timestamp")>>

Entry(key, op, column) ==
    [key |-> key, op |-> op, column |-> column, value |-> 1, tolerance |-> 0,
     corroborating |-> op = "scaled_sum_float"]

CommittedSpec ==
    [columns |-> FourColumns, tolerant |-> TRUE,
     aggregates |-> <<Entry("count", "row_count", ""), Entry("names", "nunique", "name"),
                      Entry("west", "count_equals", "name"), Entry("sum_qty", "sum_int", "qty"),
                      Entry("max_qty", "max_int", "qty"),
                      Entry("score_float", "scaled_sum_float", "score"),
                      Entry("score_exact", "scaled_sum_exact_int", "score"),
                      Entry("score_nulls", "null_count", "score"),
                      Entry("score_null_pct", "null_pct", "score")>>,
     declares_discriminators |-> TRUE,
     discriminators |-> <<[column |-> "score", nulls |-> 1, key |-> "score_nulls"]>>,
     absent_reason |-> FALSE,
     boundary |-> <<"time">>, serve_gate_sql |-> TRUE]

Captured ==
    [count |-> 3, names |-> 2, west |-> 2, sum_qty |-> 15, max_qty |-> 6,
     score_float |-> 3, score_exact |-> 3, score_nulls |-> 1, score_null_pct |-> 33]

SpecOf(fault) ==
    CASE fault = "no_columns"     -> [CommittedSpec EXCEPT !.columns = <<>>]
      [] fault = "no_aggregates"  -> [CommittedSpec EXCEPT !.aggregates = <<>>]
      [] fault = "no_declaration" -> [CommittedSpec EXCEPT !.declares_discriminators = FALSE]
      [] fault \in {"silent_zero", "explained_zero"} ->
            [CommittedSpec EXCEPT !.discriminators = <<>>,
                                  !.absent_reason = fault = "explained_zero"]
      [] fault = "stale_count"    -> [CommittedSpec EXCEPT !.discriminators[1].nulls = 2]
      [] fault = "no_boundary"    -> [CommittedSpec EXCEPT !.boundary = <<>>]
      [] fault = "no_query"       -> [CommittedSpec EXCEPT !.serve_gate_sql = FALSE]
      [] OTHER                    -> CommittedSpec

TruthOf(fault) ==
    IF fault = "no_truth" THEN [k \in DOMAIN Captured \ {"west"} |-> Captured[k]] ELSE Captured

Invocation(fault) ==
    [fault |-> fault, columns |-> FourColumns, spec |-> SpecOf(fault), truth |-> TruthOf(fault),
     clean |-> TRUE, allow_dirty |-> FALSE, inputs_fit |-> TRUE,
     inputs_outside_evidence |-> TRUE, serve_gate |-> TRUE, keeps_work_dir |-> FALSE,
     has_book |-> fault = "open_book", attempts |-> <<TRUE, FALSE>>]

Plain == Invocation("none")

PlainRuns == {Plain, [Plain EXCEPT !.keeps_work_dir = TRUE], [Plain EXCEPT !.serve_gate = FALSE]}

EveryInvocation ==
    {Invocation(fault) : fault \in Faults} \union PlainRuns
    \union {[Plain EXCEPT !.clean = FALSE], [Plain EXCEPT !.inputs_fit = FALSE],
            [Plain EXCEPT !.inputs_outside_evidence = FALSE],
            [Plain EXCEPT !.clean = FALSE, !.allow_dirty = TRUE]}

\* What the theorems about blame ask of the committed files.
ASSUME TellingAssumption == \A i \in EveryInvocation : Telling(i)
=============================================================================
