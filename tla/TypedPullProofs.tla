--------------------------- MODULE TypedPullProofs ---------------------------
(***************************************************************************)
(* Theorems about TypedPull, for every set of documents, each with a table *)
(* and a connection block, and every number of rows, pulls and ALTERs.     *)
(***************************************************************************)
EXTENDS TypedPull, SequenceTheorems, TLAPS

-----------------------------------------------------------------------------
(* What the validators and the profile let through. *)

\* The guard of the constructor of Daemon keeps increments from sinks that cannot
\* merge them, for every document with a table, defaults included.
LEMMA BuiltCanMerge ==
  ASSUME NEW d, 1 \in DOMAIN d.tables, Building(d, Drivers) = "built"
  PROVE  /\ SinkOf(d) \in {"ramdb", "arrow_ipc"}
         /\ SinkOf(d) # "ramdb" => Pulled(Resolved(d, d.tables[1])) = "full_refresh"
  <1>1. Validation(d, Drivers) = "valid"
    BY DEF Building, Validation
  <1>2. SinkOf(d) \in DOMAIN Sinks
    BY <1>1 DEF Building
  <1>3. DOMAIN Sinks = {"ramdb", "arrow_ipc"} /\ ~Sinks["arrow_ipc"].appendable
    BY DEF Sinks
  <1>4. ASSUME ~Sinks[SinkOf(d)].appendable PROVE ~AsksForIncremental(d)
    BY <1>1, <1>2, <1>4 DEF Building
  <1>5. d.tables[1] \in Tables(d)
    BY DEF Tables
  <1>6. ~AsksForIncremental(d) => Resolved(d, d.tables[1]).mode # "incremental"
    BY <1>5 DEF AsksForIncremental
  <1> QED
    BY <1>2, <1>3, <1>4, <1>6 DEF Pulled

\* What SupabaseProfile.apply allows is safe on the wire.
LEMMA ProfiledIsSafe ==
  ASSUME NEW d, d.profile = "supabase",
         NEW block \in [host : {"loopback", "direct", "pooled"}, port : Nat,
                        tls : SslModes, prepare : BOOLEAN],
         ProfileRefusal(d, block) = "allowed"
  PROVE  /\ Profiled(d, block).port # TransactionPort
         /\ Profiled(d, block).host = "pooled" => ~Profiled(d, block).prepare
         /\ Profiled(d, block).host # "loopback" =>
              Profiled(d, block).tls \in {"require", "verify-ca", "verify-full"}
  <1>1. /\ block.port # TransactionPort
        /\ block.host # "loopback" => block.tls # "disable"
    BY DEF ProfileRefusal, Profiles
  <1>2. /\ Profiled(d, block).port = block.port
        /\ Profiled(d, block).host = block.host
        /\ Profiled(d, block).prepare = IF block.host = "pooled" THEN FALSE ELSE block.prepare
        /\ Profiled(d, block).tls = IF block.host # "loopback" /\ block.tls \in Unencrypted
                                    THEN "require" ELSE block.tls
    BY DEF Profiled
  <1> QED
    BY <1>1, <1>2 DEF SslModes, Unencrypted

-----------------------------------------------------------------------------
(* What coercion does to a column. *)

\* The values of a frame: those of the classes and what coercion makes of them.
FrameValues == {"null", "nan", "zero", "large", "huge", "inexact", "empty", "ascii",
                "accented", "false", "true", "instant", "list", "rounded", "mark"}

NumpyDtypes == {"int64", "float64", "string", "bool", "datetime64[ns]"}
FrameDtypes == NumpyDtypes \union {"Int64", "boolean", None}

LEMMA SupportedDtypes ==
  ASSUME NEW c \in Classes, ~Unsupported(c)
  PROVE  PandasDtype[c] \in NumpyDtypes
  BY DEF Classes, ValuesOf, Unsupported, PandasDtype, NumpyDtypes

\* The nullable dtypes tell the numpy ones apart, and the fill of the ramdb sink undoes
\* them; joined to its nullable form a dtype becomes nullable.
LEMMA DtypesAreToldApart ==
  ASSUME NEW d \in NumpyDtypes
  PROVE  /\ \A e \in NumpyDtypes : FullDtype(d) = FullDtype(e) => d = e
         /\ FilledDtype(FullDtype(d)) = d /\ FilledDtype(d) = d
         /\ JoinDtype(d, FullDtype(d)) = FullDtype(d) /\ JoinDtype(d, d) = d
  BY DEF NumpyDtypes, FullDtype, FilledDtype, JoinDtype

\* A column of the length of another is a sequence.
LEMMA ColumnIsSequence ==
  ASSUME NEW s \in Seq(FrameValues), NEW f, DOMAIN f = DOMAIN s,
         f = [i \in DOMAIN f |-> f[i]], \A i \in DOMAIN f : f[i] \in FrameValues
  PROVE  f \in Seq(FrameValues) /\ Len(f) = Len(s)
  <1>1. Len(s) \in Nat /\ DOMAIN f = 1..Len(s)
    BY LenProperties
  <1>2. f \in [1..Len(s) -> FrameValues]
    BY <1>1
  <1>3. f \in Seq(FrameValues)
    BY <1>1, <1>2, SeqDef
  <1>4. Len(f) \in Nat /\ DOMAIN f = 1..Len(f)
    BY <1>3, LenProperties
  <1> QED
    BY <1>1, <1>3, <1>4

\* Row for row, a null or NaN and nothing else becomes a null.
LEMMA CoercionKeepsNulls ==
  ASSUME NEW c, NEW values \in Seq(FrameValues), NEW sanitize
  PROVE  /\ Coerced(c, values, sanitize) \in Seq(FrameValues)
         /\ Len(Coerced(c, values, sanitize)) = Len(values)
         /\ \A i \in DOMAIN values :
              (Coerced(c, values, sanitize)[i] = "null") <=> (values[i] \in Missing)
  <1> DEFINE f == Coerced(c, values, sanitize)
  <1>1. ASSUME NEW i \in DOMAIN values
        PROVE  f[i] \in FrameValues /\ (f[i] = "null" <=> values[i] \in Missing)
    <2> DEFINE w == Framed(c, values)[i]
               v == CoerceValue(w, c)
    <2>1. values[i] \in FrameValues
      BY <1>1, ElementOfSeq, LenProperties
    <2>2. w \in FrameValues /\ (w \in Missing <=> values[i] \in Missing)
      BY <1>1, <2>1 DEF Framed, Missing, FrameValues
    <2> HIDE DEF w
    <2>3. v \in FrameValues /\ (v = "null" <=> w \in Missing)
      BY <2>2 DEF CoerceValue, Missing, FrameValues
    <2>4. f[i] = IF sanitize /\ PandasDtype[c] = "string" THEN Sanitized(v) ELSE v
      BY <1>1 DEF Coerced, w
    <2> HIDE DEF v, f
    <2> QED
      BY <2>2, <2>3, <2>4 DEF Sanitized, FrameValues
  <1>2. DOMAIN f = DOMAIN values /\ f = [i \in DOMAIN f |-> f[i]]
    BY DEF Coerced
  <1> HIDE DEF f
  <1>3. f \in Seq(FrameValues) /\ Len(f) = Len(values)
    BY <1>1, <1>2, ColumnIsSequence
  <1> QED
    BY <1>1, <1>3 DEF f

-----------------------------------------------------------------------------
(* The invariant.  Length, nulls and dtype of the file are settled by the   *)
(* last pull alone, but only because increments are joined to a file that   *)
(* shows all the watermark covers but what merges gave up, in the dtype of  *)
(* their class; and the drift flag is right because of what the baseline    *)
(* was when it last was down.                                               *)

\* Nothing is built or connected that the validators or the profile refuse.
SettledInv ==
    /\ phase \in {"connecting", "connected"} => Building(doc, Drivers) = "built"
    /\ phase = "connected" =>
         ProfileRefusal(doc, doc.block) = "allowed" /\ connection = Profiled(doc, doc.block)

ColumnTypes ==
    /\ doc \in Documents
    /\ phase \in {"loading", "refused", "connecting", "connected"}
    /\ class \in Classes
    /\ table \in Seq(FrameValues)
    /\ shown \in Seq(FrameValues)
    /\ read \in Nat
    /\ lost \in Nat
    /\ file \in [values : Seq(FrameValues), dtype : FrameDtypes]
    /\ kinds \subseteq NumpyDtypes
    /\ alters \in Nat

\* The watermark covers what was shown and what was given up, and a table that is
\* copied by increments only grows.
CoveredInv ==
    /\ Incremental => read = Len(shown) /\ Len(shown) <= Len(table) /\ lost <= read
    /\ ~Incremental => read = 0

\* An increment is joined to a file of the numpy dtype of its own class.
JoinInv ==
    SinkOf(doc) = "ramdb" /\ read > 0 =>
        PandasDtype[class] \in NumpyDtypes /\ file.dtype = PandasDtype[class]

\* While the flag is down, every class published with rows has left the same baseline;
\* while nothing happened that may raise it, the class of the column has.
DriftInv ==
    /\ ~drift => \A d \in kinds : baseline = FullDtype(d)
    /\ alters = 0 /\ ~emptied =>
         ~drift /\ baseline \in {None, FullDtype(PandasDtype[class])}

ColumnInv ==
    /\ SettledInv
    /\ ColumnTypes
    /\ CoveredInv
    /\ JoinInv
    /\ DriftInv
    /\ FileShowsTheTable
    /\ ArrowKeepsNulls
    /\ RamdbFileIsSafe

LEMMA TheTableFits ==
  ASSUME ColumnTypes, SettledInv, phase = "connected"
  PROVE  /\ SinkOf(doc) \in {"ramdb", "arrow_ipc"}
         /\ SinkOf(doc) # "ramdb" => ~Incremental
  <1>1. 1 \in DOMAIN doc.tables
    BY DocumentAssumption DEF ColumnTypes
  <1>2. Building(doc, Drivers) = "built"
    BY DEF SettledInv
  <1> QED
    BY <1>1, <1>2, BuiltCanMerge DEF Incremental, TheTable

\* An incremental pull reads what the watermark does not cover.
LEMMA BatchIsTheRest ==
  ASSUME ColumnTypes, CoveredInv
  PROVE  /\ Batch \in Seq(FrameValues)
         /\ Len(Batch) = Len(table) - read
         /\ read = 0 => Batch = table
  <1>1. Len(table) \in Nat /\ table \in Seq(FrameValues) /\ read \in Nat
    BY LenProperties DEF ColumnTypes
  <1>2. CASE ~Incremental
    BY <1>1, <1>2 DEF Batch, CoveredInv
  <1>3. CASE Incremental
    <2>1. read <= Len(table)
      BY <1>3 DEF CoveredInv
    <2>2. Batch = SubSeq(table, read + 1, Len(table))
      BY <1>3 DEF Batch
    <2> QED
      BY <1>1, <2>1, <2>2
  <1> QED
    BY <1>2, <1>3

\* The frame a pull hands to the sink shows the whole table but the rows a merge gave
\* up, and every pull with rows has the same dtype for the same class.
LEMMA MergedShowsTheTable ==
  ASSUME ColumnInv, phase = "connected", ~Unsupported(class), NEW found \in BOOLEAN
  PROVE  /\ Merged(found).values \in Seq(FrameValues)
         /\ Len(Merged(found).values) = Len(table) - Lost(found)
         /\ Lost(found) \in Nat
         /\ Lost(found) > 0 => Incremental /\ SinkOf(doc) = "ramdb"
         /\ Incremental => Lost(found) <= Len(table)
         /\ PandasDtype[class] \in NumpyDtypes
         /\ Merged(found).dtype \in {PandasDtype[class], FullDtype(PandasDtype[class])}
         /\ Batch # <<>> => Merged(found).dtype = FullDtype(PandasDtype[class])
         /\ SinkOf(doc) # "ramdb" =>
              Merged(found).values = Coerced(class, table, doc.sanitize)
  <1> DEFINE p == PandasDtype[class]
             new == Coerced(class, Batch, doc.sanitize)
  <1>a. ColumnTypes /\ CoveredInv /\ SettledInv /\ FileShowsTheTable
    BY DEF ColumnInv
  <1>1. p \in NumpyDtypes
    BY <1>a, SupportedDtypes DEF ColumnTypes
  <1>2. /\ Batch \in Seq(FrameValues) /\ Len(Batch) = Len(table) - read
        /\ read = 0 => Batch = table
    BY <1>a, BatchIsTheRest
  <1>3. new \in Seq(FrameValues) /\ Len(new) = Len(Batch)
    BY <1>2, CoercionKeepsNulls
  <1>4. Dtype(class, Batch) = IF Batch = <<>> THEN p ELSE FullDtype(p)
    BY DEF Dtype
  <1>5. /\ read \in Nat /\ Len(table) \in Nat /\ Len(shown) \in Nat /\ lost \in Nat
        /\ file.values \in Seq(FrameValues) /\ Len(file.values) = Len(shown) - lost
    BY <1>a, LenProperties DEF ColumnTypes, FileShowsTheTable
  <1> HIDE DEF new, p
  <1>6. CASE Merges
    <2>a. Incremental /\ read > 0 /\ SinkOf(doc) = "ramdb"
      BY <1>6 DEF Merges
    <2>1. read = Len(shown) /\ read <= Len(table) /\ lost <= read
      BY <1>a, <2>a DEF CoveredInv
    <2>2. /\ Lost(found) = IF found THEN lost ELSE read
          /\ Lost(found) \in Nat /\ Lost(found) <= Len(table)
      BY <1>5, <1>6, <2>1 DEF Lost
    <2>3. CASE found
      <3>1. Merged(found) = [values |-> file.values \o new,
                             dtype |-> JoinDtype(file.dtype, Dtype(class, Batch))]
        BY <1>6, <2>3 DEF Merged, new
      <3>2. /\ Len(file.values \o new) = Len(file.values) + Len(new)
            /\ file.values \o new \in Seq(FrameValues)
        BY <1>3, <1>5, ConcatProperties
      <3>3. Len(Merged(found).values) = Len(table) - Lost(found)
        <4>1. Merged(found).values = file.values \o new
          BY <3>1
        <4>2. Lost(found) = lost
          BY <2>2, <2>3
        <4>3. Len(file.values \o new) = Len(table) - lost
          BY <1>2, <1>3, <1>5, <2>1, <3>2
        <4> QED
          BY <4>1, <4>2, <4>3
      <3>4. file.dtype = p
        BY <2>a DEF ColumnInv, JoinInv, p
      <3>5. /\ JoinDtype(p, p) = p
            /\ JoinDtype(p, FullDtype(p)) = FullDtype(p)
        BY <1>1, DtypesAreToldApart
      <3> QED
        BY <1>1, <1>4, <2>a, <2>2, <3>1, <3>2, <3>3, <3>4, <3>5 DEF p
    <2>4. CASE ~found
      <3>1. Merged(found) = [values |-> new, dtype |-> Dtype(class, Batch)]
        BY <2>4 DEF Merged, new
      <3>2. Len(Merged(found).values) = Len(table) - Lost(found)
        BY <1>2, <1>3, <2>2, <2>4, <3>1
      <3> QED
        BY <1>1, <1>3, <1>4, <2>a, <2>2, <3>1, <3>2 DEF p
    <2> QED
      BY <2>3, <2>4
  <1>7. CASE ~Merges
    <2>1. Merged(found) = [values |-> new, dtype |-> Dtype(class, Batch)] /\ Lost(found) = 0
      BY <1>7 DEF Merged, Lost, new
    <2>2. read = 0
      BY <1>a, <1>5, <1>7, TheTableFits DEF CoveredInv, Merges
    <2>3. new = Coerced(class, table, doc.sanitize)
      BY <1>2, <2>2 DEF new
    <2> QED
      BY <1>1, <1>2, <1>3, <1>4, <1>5, <2>1, <2>2, <2>3 DEF p
  <1> QED
    BY <1>6, <1>7

\* What the ramdb sink writes of a frame it does not refuse the codec can hold, in the
\* numpy dtype; the Arrow sink writes the frame.
LEMMA WrittenIsSafe ==
  ASSUME NEW d \in NumpyDtypes,
         NEW frame, frame.dtype \in {d, FullDtype(d)}, frame.values \in Seq(FrameValues)
  PROVE  /\ Written(frame).values \in Seq(FrameValues)
         /\ Written(frame).dtype \in FrameDtypes
         /\ Len(Written(frame).values) = Len(frame.values)
         /\ SinkOf(doc) # "ramdb" => Written(frame) = frame
         /\ SinkOf(doc) = "ramdb" =>
              /\ Written(frame).dtype = d
              /\ \A i \in DOMAIN Written(frame).values :
                    /\ Written(frame).values[i] = "null" => d \in {"float64", "datetime64[ns]"}
                    /\ ~Overflows(frame.values, frame.dtype) /\ d = "int64" =>
                         Written(frame).values[i] \notin {"large", "huge", "rounded"}
  <1>a. FrameDtypes = NumpyDtypes \union {"Int64", "boolean", "none"}
    BY DEF FrameDtypes, None
  <1>1. CASE SinkOf(doc) # "ramdb"
    <2>1. Written(frame) = frame
      BY <1>1 DEF Written
    <2>2. frame.dtype \in FrameDtypes
      BY <1>a DEF FullDtype
    <2> QED
      BY <1>1, <2>1, <2>2
  <1>2. CASE SinkOf(doc) = "ramdb"
    <2> DEFINE f == [i \in DOMAIN frame.values |-> Filled(frame.values[i], frame.dtype)]
    <2>1. Written(frame) = [values |-> f, dtype |-> FilledDtype(frame.dtype)]
      BY <1>2 DEF Written
    <2>2. FilledDtype(frame.dtype) = d
      BY DtypesAreToldApart
    <2>3. ASSUME NEW i \in DOMAIN f
          PROVE  /\ f[i] \in FrameValues
                 /\ f[i] = "null" => d \in {"float64", "datetime64[ns]"}
                 /\ f[i] \in {frame.values[i], "zero", "false", "empty"}
      <3>1. frame.values[i] \in FrameValues
        BY <2>3, ElementOfSeq, LenProperties
      <3>2. f[i] = Filled(frame.values[i], frame.dtype)
        BY <2>3
      <3> HIDE DEF f
      <3>3. f[i] \in {frame.values[i], "zero", "false", "empty"}
        BY <3>2 DEF Filled
      <3>4. frame.values[i] # "null" => f[i] = frame.values[i]
        BY <3>2 DEF Filled
      <3>5. frame.values[i] = "null" /\ f[i] = "null" =>
              frame.dtype \notin {"int64", "Int64", "bool", "boolean", "string"}
        BY <3>2 DEF Filled
      <3>6. frame.dtype \notin {"int64", "Int64", "bool", "boolean", "string"} =>
              d \in {"float64", "datetime64[ns]"}
        BY DEF FullDtype, NumpyDtypes
      <3> QED
        BY <3>1, <3>3, <3>4, <3>5, <3>6 DEF FrameValues
    <2>4. DOMAIN f = DOMAIN frame.values /\ f = [i \in DOMAIN f |-> f[i]]
      OBVIOUS
    <2>5. ASSUME ~Overflows(frame.values, frame.dtype), d = "int64", NEW i \in DOMAIN f
          PROVE  f[i] \notin {"large", "huge", "rounded"}
      <3>1. frame.dtype \in {"int64", "Int64"}
        BY <2>5 DEF FullDtype
      <3>2. frame.values[i] \notin {"large", "huge", "rounded"}
        BY <2>5, <3>1 DEF Overflows
      <3> QED
        BY <2>3, <3>2
    <2> HIDE DEF f
    <2>6. f \in Seq(FrameValues) /\ Len(f) = Len(frame.values)
      BY <2>3, <2>4, ColumnIsSequence
    <2> QED
      BY <1>2, <1>a, <2>1, <2>2, <2>3, <2>5, <2>6
  <1> QED
    BY <1>1, <1>2

LEMMA ColumnInit == Init => ColumnInv
  <1> SUFFICES ASSUME Init PROVE ColumnInv
    OBVIOUS
  <1>1. SettledInv
    BY DEF Init, SettledInv
  <1>2. class \in Classes
    BY DEF Init, ClassesOf
  <1>3. ColumnTypes
    BY <1>2 DEF Init, ColumnTypes, NoFile, FrameDtypes
  <1>4. CoveredInv /\ JoinInv /\ DriftInv
    BY DEF Init, CoveredInv, JoinInv, DriftInv
  <1>5. FileShowsTheTable /\ ArrowKeepsNulls /\ RamdbFileIsSafe
    BY DEF Init, NoFile, None, FileShowsTheTable, ArrowKeepsNulls, RamdbFileIsSafe
  <1> QED
    BY <1>1, <1>3, <1>4, <1>5 DEF ColumnInv

\* A pull that succeeds.
LEMMA PullKeepsColumn ==
  ASSUME ColumnInv, NEW found \in BOOLEAN, PullSucceeds(found)
  PROVE  ColumnInv'
  <1> DEFINE p == PandasDtype[class]
  <1>a. ColumnTypes /\ CoveredInv /\ SettledInv /\ DriftInv
    BY DEF ColumnInv
  <1>b. /\ phase = "connected" /\ ~CoercionRaises /\ ~SinkRaises(found)
        /\ file' = Written(Merged(found))
        /\ read' = IF Incremental THEN Len(table) ELSE 0
        /\ baseline' = Merged(found).dtype
        /\ drift' = Drifted(drift, baseline, Merged(found).dtype)
        /\ shown' = table
        /\ lost' = Lost(found)
        /\ kinds' = IF Batch = <<>> THEN kinds ELSE kinds \union {p}
        /\ emptied' = (emptied \/ Batch = <<>>)
        /\ UNCHANGED <<doc, phase, connection, class, table, alters>>
    BY DEF PullSucceeds, source
  <1>c. /\ Merged(found).values \in Seq(FrameValues)
        /\ Len(Merged(found).values) = Len(table) - Lost(found)
        /\ Lost(found) \in Nat
        /\ Lost(found) > 0 => Incremental /\ SinkOf(doc) = "ramdb"
        /\ Incremental => Lost(found) <= Len(table)
        /\ p \in NumpyDtypes
        /\ Merged(found).dtype \in {p, FullDtype(p)}
        /\ Batch # <<>> => Merged(found).dtype = FullDtype(p)
        /\ SinkOf(doc) # "ramdb" =>
             Merged(found).values = Coerced(class, table, doc.sanitize)
    BY <1>b, MergedShowsTheTable DEF CoercionRaises
  <1> HIDE DEF p
  <1>d. /\ SinkOf(doc) \in {"ramdb", "arrow_ipc"} /\ Len(table) \in Nat
        /\ table \in Seq(FrameValues)
    BY <1>a, <1>b, TheTableFits, LenProperties DEF ColumnTypes
  <1>e. UNCHANGED <<Incremental, SinkOf(doc), p>>
    BY <1>b DEF Incremental, TheTable, p
  <1>1. SettledInv'
    BY <1>a, <1>b DEF SettledInv
  <1>2. /\ file' \in [values : Seq(FrameValues), dtype : FrameDtypes]
        /\ Len(file'.values) = Len(table) - Lost(found)
        /\ SinkOf(doc) # "ramdb" => file' = Merged(found)
        /\ SinkOf(doc) = "ramdb" =>
             /\ file'.dtype = p
             /\ \A i \in DOMAIN file'.values :
                   /\ file'.values[i] = "null" => p \in {"float64", "datetime64[ns]"}
                   /\ p = "int64" => file'.values[i] \notin {"large", "huge", "rounded"}
    <2>1. SinkOf(doc) = "ramdb" => ~Overflows(Merged(found).values, Merged(found).dtype)
      BY <1>b DEF SinkRaises
    <2>2. Written(Merged(found)) = [values |-> Written(Merged(found)).values, dtype |-> Written(Merged(found)).dtype]
      <3>1. CASE SinkOf(doc) = "ramdb"
        BY <3>1 DEF Written
      <3>2. CASE SinkOf(doc) # "ramdb"
        BY <3>2 DEF Written, Merged
      <3> QED
        BY <3>1, <3>2
    <2> QED
      BY <1>b, <1>c, <2>1, <2>2, WrittenIsSafe
  <1>3. ColumnTypes'
    BY <1>a, <1>b, <1>c, <1>d, <1>2 DEF ColumnTypes
  <1>4. CoveredInv' /\ FileShowsTheTable'
    BY <1>b, <1>c, <1>d, <1>e, <1>2 DEF CoveredInv, FileShowsTheTable
  <1>5. JoinInv'
    BY <1>b, <1>c, <1>e, <1>2 DEF JoinInv, p
  <1>6. ArrowKeepsNulls'
    <2>1. CASE SinkOf(doc) = "arrow_ipc"
      <3>1. file'.values = Coerced(class, table, doc.sanitize)
        BY <1>c, <1>2, <2>1
      <3>2. Len(file'.values) = Len(table)
        BY <1>c, <1>d, <1>2, <2>1
      <3>3. DOMAIN file'.values = DOMAIN table
        BY <1>d, <1>2, <3>2, LenProperties
      <3>4. \A i \in DOMAIN table : (file'.values[i] = "null") <=> (table[i] \in Missing)
        BY <1>d, <3>1, CoercionKeepsNulls
      <3> QED
        BY <1>b, <3>3, <3>4 DEF ArrowKeepsNulls
    <2>2. CASE SinkOf(doc) # "arrow_ipc"
      BY <1>e, <2>2 DEF ArrowKeepsNulls
    <2> QED
      BY <2>1, <2>2
  <1>7. RamdbFileIsSafe'
    BY <1>b, <1>c, <1>e, <1>2 DEF RamdbFileIsSafe, NumpyDtypes
  <1>8. DriftInv'
    <2>1. ~drift' => ~drift /\ baseline \in {"none", Merged(found).dtype}
      BY <1>b DEF Drifted, None
    <2>2. \A d \in NumpyDtypes : FullDtype(d) # "none"
      BY DEF NumpyDtypes, FullDtype
    <2>3. ASSUME ~drift', NEW d \in kinds' PROVE baseline' = FullDtype(d)
      <3>1. CASE d \in kinds
        <4>1. baseline = FullDtype(d) /\ d \in NumpyDtypes
          BY <1>a, <2>1, <2>3, <3>1 DEF DriftInv, ColumnTypes
        <4> QED
          BY <1>b, <2>1, <2>2, <2>3, <4>1
      <3>2. CASE d \notin kinds
        BY <1>b, <1>c, <2>3, <3>2
      <3> QED
        BY <3>1, <3>2
    <2>4. ASSUME alters' = 0, ~emptied'
          PROVE  ~drift' /\ baseline' \in {None, FullDtype(PandasDtype[class])}'
      <3>1. alters = 0 /\ ~emptied /\ Batch # <<>>
        BY <1>b, <2>4
      <3>2. ~drift /\ baseline \in {"none", FullDtype(p)}
        BY <1>a, <3>1 DEF DriftInv, None, p
      <3>3. Merged(found).dtype = FullDtype(p)
        BY <1>c, <3>1
      <3>4. ~drift'
        BY <1>b, <3>2, <3>3 DEF Drifted, None
      <3> QED
        BY <1>b, <3>3, <3>4 DEF p
    <2> QED
      BY <2>3, <2>4 DEF DriftInv
  <1> QED
    BY <1>1, <1>3, <1>4, <1>5, <1>6, <1>7, <1>8 DEF ColumnInv

LEMMA ColumnStep == ColumnInv /\ [Next]_vars => ColumnInv'
  <1> SUFFICES ASSUME ColumnInv, [Next]_vars PROVE ColumnInv'
    OBVIOUS
  <1>a. ColumnTypes /\ CoveredInv /\ SettledInv /\ DriftInv /\ JoinInv
        /\ FileShowsTheTable /\ ArrowKeepsNulls /\ RamdbFileIsSafe
    BY DEF ColumnInv
  <1>b. Len(table) \in Nat /\ table \in Seq(FrameValues) /\ Len(shown) \in Nat
    BY <1>a, LenProperties DEF ColumnTypes
  \* What holds of the file when neither it nor the document changes.
  <1>c. ASSUME UNCHANGED <<doc, output>>
        PROVE  /\ FileShowsTheTable' /\ ArrowKeepsNulls' /\ RamdbFileIsSafe'
               /\ UNCHANGED <<doc, read, file, shown, lost, kinds, baseline, drift, emptied,
                              Incremental, SinkOf(doc)>>
    BY <1>a, <1>c DEF output, FileShowsTheTable, ArrowKeepsNulls, RamdbFileIsSafe,
                      Incremental, TheTable
  <1>1. CASE Load
    <2>1. /\ UNCHANGED <<doc, connection, class, table, alters, output>>
          /\ phase' = IF Building(doc, Drivers) = "built" THEN "connecting" ELSE "refused"
      BY <1>1 DEF Load, source
    <2>2. SettledInv' /\ ColumnTypes'
      BY <1>a, <1>c, <2>1 DEF SettledInv, ColumnTypes
    <2> QED
      BY <1>a, <1>c, <2>1, <2>2 DEF ColumnInv, CoveredInv, JoinInv, DriftInv
  <1>2. CASE Connect
    <2>1. /\ UNCHANGED <<doc, class, table, alters, output>>
          /\ phase = "connecting" /\ phase' = "connected"
          /\ ProfileRefusal(doc, doc.block) = "allowed"
          /\ connection' = Profiled(doc, doc.block)
      BY <1>2 DEF Connect, source
    <2>2. SettledInv' /\ ColumnTypes'
      BY <1>a, <1>c, <2>1 DEF SettledInv, ColumnTypes
    <2> QED
      BY <1>a, <1>c, <2>1, <2>2 DEF ColumnInv, CoveredInv, JoinInv, DriftInv
  <1>3. ASSUME NEW v \in ValuesOf[class], Insert(v) PROVE ColumnInv'
    <2>1. /\ UNCHANGED <<doc, phase, connection, class, alters, output>>
          /\ table' = Append(table, v)
      BY <1>3 DEF Insert
    <2>2. v \in FrameValues
      BY <1>a DEF ColumnTypes, Classes, ValuesOf, FrameValues
    <2>3. table' \in Seq(FrameValues) /\ Len(table') = Len(table) + 1
      BY <1>b, <2>1, <2>2
    <2>4. SettledInv' /\ ColumnTypes' /\ CoveredInv'
      BY <1>a, <1>b, <1>c, <2>1, <2>3 DEF SettledInv, ColumnTypes, CoveredInv
    <2> QED
      BY <1>a, <1>c, <2>1, <2>4 DEF ColumnInv, JoinInv, DriftInv
  <1>4. CASE Truncate
    <2>1. /\ UNCHANGED <<doc, phase, connection, class, alters, output>>
          /\ table' = <<>> /\ ~Incremental
      BY <1>4 DEF Truncate
    <2>2. SettledInv' /\ ColumnTypes' /\ CoveredInv'
      BY <1>a, <1>b, <1>c, <2>1 DEF SettledInv, ColumnTypes, CoveredInv
    <2> QED
      BY <1>a, <1>c, <2>1, <2>2 DEF ColumnInv, JoinInv, DriftInv
  <1>5. ASSUME NEW c \in Classes, Alter(c) PROVE ColumnInv'
    <2>1. /\ UNCHANGED <<doc, phase, connection, output>>
          /\ table' = <<>> /\ ~Incremental /\ class' = c /\ alters' = alters + 1
      BY <1>5 DEF Alter
    <2>2. SettledInv' /\ ColumnTypes' /\ CoveredInv'
      BY <1>a, <1>b, <1>c, <2>1 DEF SettledInv, ColumnTypes, CoveredInv
    <2>3. read' = 0 /\ alters' # 0
      BY <1>a, <1>c, <2>1 DEF CoveredInv, ColumnTypes
    <2> QED
      BY <1>a, <1>c, <2>1, <2>2, <2>3 DEF ColumnInv, JoinInv, DriftInv
  <1>6. ASSUME NEW found \in BOOLEAN, PullSucceeds(found) PROVE ColumnInv'
    BY <1>6, PullKeepsColumn
  <1>7. CASE ConnectRefused \/ (\E found \in BOOLEAN : PullFails(found)) \/ UNCHANGED vars
    <2>1. UNCHANGED <<doc, phase, connection, class, table, alters, output>>
      BY <1>7 DEF ConnectRefused, PullFails, vars, source
    <2> QED
      BY <1>a, <1>c, <2>1
      DEF ColumnInv, SettledInv, ColumnTypes, CoveredInv, JoinInv, DriftInv
  <1> QED
    BY <1>1, <1>2, <1>3, <1>4, <1>5, <1>6, <1>7 DEF Next

\* The inductive invariant of one column: what was built and connected, what the
\* watermark covers, and the dtypes of file and baseline.
THEOREM ColumnIsSound == Spec => []ColumnInv
  BY ColumnInit, ColumnStep, PTL DEF Spec

\* The file shows the whole source as of the last pull but for what merges gave up,
\* and they give up rows of increments into ramdb alone, for every document that the
\* validators and the constructor of Daemon accept.
THEOREM IncrementsAreMerged == Spec => []FileShowsTheTable
  <1>1. ColumnInv => FileShowsTheTable
    BY DEF ColumnInv
  <1> QED
    BY <1>1, ColumnIsSound, PTL

\* The Arrow sink publishes a null where the source has a null or NaN, and nowhere else.
THEOREM NullsReachArrow == Spec => []ArrowKeepsNulls
  <1>1. ColumnInv => ArrowKeepsNulls
    BY DEF ColumnInv
  <1> QED
    BY <1>1, ColumnIsSound, PTL

\* The ramdb sink publishes nothing its codec cannot hold.
THEOREM CodecIsFedSafely == Spec => []RamdbFileIsSafe
  <1>1. ColumnInv => RamdbFileIsSafe
    BY DEF ColumnInv
  <1> QED
    BY <1>1, ColumnIsSound, PTL

\* No published change of dtype leaves the drift flag down, however many pulls were
\* empty or failed in between; and only an ALTER or an empty pull raises it.
THEOREM DriftIsNoticed == Spec => []DriftFlagIsRight
  <1>1. ColumnInv => DriftFlagIsRight
    <2> SUFFICES ASSUME ColumnInv PROVE DriftFlagIsRight
      OBVIOUS
    <2>a. ColumnTypes /\ DriftInv
      BY DEF ColumnInv
    <2>1. ASSUME NEW d \in kinds, NEW e \in kinds, d # e, ~drift PROVE FALSE
      <3>1. d \in NumpyDtypes /\ e \in NumpyDtypes
        BY <2>a DEF ColumnTypes
      <3>2. FullDtype(d) = FullDtype(e)
        BY <2>a, <2>1 DEF DriftInv
      <3> QED
        BY <2>1, <3>1, <3>2, DtypesAreToldApart
    <2>2. drift => alters > 0 \/ emptied
      BY <2>a DEF DriftInv, ColumnTypes
    <2> QED
      BY <2>1, <2>2 DEF DriftFlagIsRight
  <1> QED
    BY <1>1, ColumnIsSound, PTL

\* What the profile lets through is encrypted beyond the machine, keeps off the
\* transaction pooler and prepares nothing behind a pooler.
THEOREM ProfileIsSafe == Spec => []SafeConnection
  <1>1. ColumnInv => SafeConnection
    <2> SUFFICES ASSUME ColumnInv, phase = "connected", doc.profile = "supabase"
                 PROVE  SafeConnection
      BY DEF SafeConnection
    <2>1. /\ doc \in Documents /\ ProfileRefusal(doc, doc.block) = "allowed"
          /\ connection = Profiled(doc, doc.block)
      BY DEF ColumnInv, ColumnTypes, SettledInv
    <2>2. doc.block \in [host : {"loopback", "direct", "pooled"}, port : Nat,
                         tls : SslModes, prepare : BOOLEAN]
      BY <2>1, DocumentAssumption
    <2> QED
      BY <2>1, <2>2, ProfiledIsSafe DEF SafeConnection
  <1> QED
    BY <1>1, ColumnIsSound, PTL
=============================================================================
