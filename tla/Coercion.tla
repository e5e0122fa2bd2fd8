------------------------------ MODULE Coercion ------------------------------
(***************************************************************************)
(* What happens to the values of one column between the source and the     *)
(* published file: the coercers of a driver (drivers/postgres/coercion.py  *)
(* over conformance/coercers.py, drivers/clickhouse/coercion.py), the      *)
(* column rules of core/coercion.py and the null policy of the sink.       *)
(*                                                                         *)
(* Source types are taken by the class the coercer maps give them; a       *)
(* class has the few values its rules tell apart.  "large" is an integer   *)
(* outside int32 and "huge" one above 2^53, "inexact" a decimal that       *)
(* float64 cannot hold, "rounded" what float64 makes of either of those,   *)
(* "accented" a text with a character outside ASCII.                       *)
(***************************************************************************)
EXTENDS Sequences

ValuesOf ==
    [integer   |-> {"null", "zero", "large", "huge"},
     float     |-> {"null", "nan", "zero"},
     decimal   |-> {"null", "nan", "zero", "inexact"},
     text      |-> {"null", "empty", "ascii", "accented"},
     flag      |-> {"null", "false", "true"},
     instant   |-> {"null", "instant"},
     interval  |-> {"null", "zero", "large"},
     compound  |-> {"null", "list"},
     wide      |-> {"null", "large"}]      \* UInt64, Int128, Map, Tuple

Classes == DOMAIN ValuesOf

\* PG_TYPE_TO_PANDAS and CLICKHOUSE_TYPE_TO_PANDAS.
PandasDtype ==
    [integer |-> "int64", float |-> "float64", decimal |-> "float64",
     text |-> "string", flag |-> "bool", instant |-> "datetime64[ns]",
     interval |-> "int64", compound |-> "string", wide |-> "unsupported"]

ClassesOf(dialect) ==
    IF dialect = "clickhouse" THEN Classes \ {"interval"} ELSE Classes \ {"wide"}

\* The values a coercer refuses.  Postgres refuses a decimal that float64 cannot
\* hold, NaN among them because it equals nothing; ClickHouse warns and rounds.
\* An interval is refused outside int32, whatever the sink.
Raises(v, class, dialect) ==
    \/ dialect = "postgres" /\ class = "decimal" /\ v \in {"inexact", "nan"}
    \/ class = "interval" /\ v = "large"

\* pandas_dtype_for raises before there are rows.
Unsupported(class) == PandasDtype[class] = "unsupported"

\* coerce_value: a NaN counts as missing.
CoerceValue(v, class) ==
    IF v \in {"null", "nan"} THEN "null"
    ELSE IF v = "inexact" THEN "rounded"
    ELSE IF class = "compound" THEN "ascii"
    ELSE v

\* The frame built from the rows, before any column rule: integers next to a
\* missing value become a column of float64.
Framed(class, values) ==
    [i \in DOMAIN values |->
       IF /\ class = "integer" /\ values[i] = "huge"
          /\ \E k \in DOMAIN values : values[k] = "null"
       THEN "rounded" ELSE values[i]]

\* Mutant: the mask of nulls is taken after the cast to str.
SanitizedLate(v) == IF v = "null" THEN "ascii" ELSE IF v = "accented" THEN "mark" ELSE v

\* coerce_string_column: transliterated where asked, the nulls restored.
Sanitized(v) == IF v = "accented" THEN "mark" ELSE v

\* apply_coercion on a frame with rows: nullable dtypes for integers and flags.
FullDtype(d) ==
    IF d = "int64" THEN "Int64" ELSE IF d = "bool" THEN "boolean" ELSE d

\* Mutant: a column of integers without nulls stays a numpy column.
DtypeByNulls(class, values) ==
    IF values = <<>> \/ \A i \in DOMAIN values : values[i] # "null"
    THEN PandasDtype[class] ELSE FullDtype(PandasDtype[class])

\* The dtype of the coerced column; a frame without rows has the numpy dtypes.
Dtype(class, values) ==
    IF values = <<>> THEN PandasDtype[class] ELSE FullDtype(PandasDtype[class])

\* The values of the coerced column.
Coerced(class, values, sanitize) ==
    [i \in DOMAIN values |->
       LET v == CoerceValue(Framed(class, values)[i], class)
       IN IF sanitize /\ PandasDtype[class] = "string" THEN Sanitized(v) ELSE v]

-----------------------------------------------------------------------------
(* The sinks. *)

\* apply_ramdb_null_fill.
Filled(v, dtype) ==
    IF v # "null" THEN v
    ELSE IF dtype \in {"int64", "Int64"} THEN "zero"
    ELSE IF dtype \in {"bool", "boolean"} THEN "false"
    ELSE IF dtype \in {"string", "object"} THEN "empty"
    ELSE v

FilledDtype(d) ==
    IF d = "Int64" THEN "int64" ELSE IF d = "boolean" THEN "bool" ELSE d

\* Mutant: the check looks for the numpy dtype before the fill has restored it.
OverflowsUnfilled(values, dtype) ==
    /\ dtype = "int64"
    /\ \E i \in DOMAIN values : values[i] \in {"large", "huge", "rounded"}

\* _raise_on_codec_unsafe_int64.
Overflows(values, dtype) ==
    /\ dtype \in {"int64", "Int64"}
    /\ \E i \in DOMAIN values : values[i] \in {"large", "huge", "rounded"}

\* The dtype pandas gives the concatenation of two columns of one class.
JoinDtype(d, e) == IF d = e THEN d ELSE FullDtype(d)
=============================================================================
