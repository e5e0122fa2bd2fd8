-------------------------- MODULE ConformanceProofs --------------------------
(***************************************************************************)
(* Theorems about Conformance, for every set of invocations: any spec,     *)
(* ground truth, recipe book and fault, any rows of the source, and any    *)
(* number of runs, changes, outages and kills.  The two theorems about     *)
(* blame, at the end, ask that what is committed about a table can tell    *)
(* the fault (Telling).                                                    *)
(***************************************************************************)
EXTENDS Conformance, FiniteSetTheorems, FunctionTheorems, WellFoundedInduction, TLAPS

-----------------------------------------------------------------------------
(* Verdicts. *)

LEMMA LeastIsElement ==
  ASSUME NEW S \in SUBSET Nat, S # {}
  PROVE  Least(S) \in S /\ \A y \in S : Least(S) <= y
  <1> DEFINE R == {p \in Nat \X Nat : p[1] < p[2]}
  <1>1. IsWellFoundedOn(R, Nat)
    BY NatLessThanWellFounded DEF OpToRel
  <1>2. PICK x \in S : \A y \in S : <<y, x>> \notin R
    <2> HIDE DEF R
    <2> QED
      BY <1>1, WFMin
  <1>3. ASSUME NEW y \in S PROVE x <= y
    <2>1. <<y, x>> \in Nat \X Nat
      OBVIOUS
    <2> QED
      BY <1>2, <2>1
  <1> QED
    BY <1>3 DEF Least

\* A list of verdicts passes when each does, and fails as one of them.
LEMMA FirstOfIsOneOfThem ==
  ASSUME NEW v, DOMAIN v \subseteq Nat, NEW S, \A i \in DOMAIN v : v[i] \in S
  PROVE  /\ FirstOf(v) \in S \union {Passed}
         /\ FirstOf(v) = Passed => \A i \in DOMAIN v : v[i] = Passed
  <1> DEFINE failing == {i \in DOMAIN v : v[i] # Passed}
  <1>1. FirstOf(v) = IF failing = {} THEN Passed ELSE v[Least(failing)]
    BY DEF FirstOf
  <1>2. failing # {} => Least(failing) \in failing
    BY LeastIsElement
  <1> QED
    BY <1>1, <1>2

\* A verdict passes when every comparison is ok, and names the code of one otherwise.
LEMMA VerdictIsExplained ==
  ASSUME NEW s, DOMAIN s \subseteq Nat, NEW codes, \A i \in DOMAIN s : s[i].code \in codes
  PROVE  /\ Verdict(s) \in {Passed} \union {Failed(code) : code \in codes}
         /\ Verdict(s).status = "PASS" => \A i \in DOMAIN s : s[i].ok
  <1> DEFINE v == [i \in DOMAIN s |-> IF s[i].ok THEN Passed ELSE Failed(s[i].code)]
             O == {Passed} \union {Failed(code) : code \in codes}
  <1>1. DOMAIN v = DOMAIN s /\ \A i \in DOMAIN s : v[i] \in O
    OBVIOUS
  <1>2. Verdict(s) = FirstOf(v)
    BY DEF Verdict
  <1>3. \A i \in DOMAIN s : v[i] = Passed => s[i].ok
    BY DEF Passed, Failed
  <1> HIDE DEF v
  <1>4. /\ Verdict(s) \in O \union {Passed}
        /\ Verdict(s) = Passed => \A i \in DOMAIN s : v[i] = Passed
    BY <1>1, <1>2, FirstOfIsOneOfThem
  <1>5. ASSUME NEW r \in O, r.status = "PASS" PROVE r = Passed
    <2>1. \A code : Failed(code).status = "FAIL"
      BY DEF Failed
    <2> QED
      BY <1>5, <2>1
  <1> QED
    BY <1>1, <1>3, <1>4, <1>5

-----------------------------------------------------------------------------
(* Each judge ends with a verdict that is declared for its check.          *)

LEMMA OutcomesOfACheck ==
  ASSUME NEW c
  PROVE  /\ Passed \in Outcomes(c) /\ Skipped \in Outcomes(c)
         /\ \A code \in Mechanisms[c] : Failed(code) \in Outcomes(c)
         /\ c \in {"b2", "serve"} => Failed("") \in Outcomes(c)
         /\ Unjudged \notin Outcomes(c)
  <1>1. Unjudged.status # Passed.status /\ Unjudged.status # Skipped.status
    BY DEF Unjudged, Passed, Skipped
  <1>2. \A code : Unjudged.status # Failed(code).status
    BY DEF Unjudged, Failed
  <1> QED
    BY <1>1, <1>2 DEF Outcomes

LEMMA VerdictIsAnOutcome ==
  ASSUME NEW c, NEW s, DOMAIN s \subseteq Nat, \A i \in DOMAIN s : s[i].code \in Mechanisms[c]
  PROVE  Verdict(s) \in Outcomes(c)
  <1> DEFINE codes == Mechanisms[c]
  <1>1. \A i \in DOMAIN s : s[i].code \in codes
    OBVIOUS
  <1> HIDE DEF codes
  <1>2. Verdict(s) \in {Passed} \union {Failed(code) : code \in codes}
    BY <1>1, VerdictIsExplained
  <1> QED
    BY <1>2, OutcomesOfACheck DEF codes

LEMMA TwoListsAreAnOutcome ==
  ASSUME NEW c,
         NEW s, DOMAIN s \subseteq Nat, \A i \in DOMAIN s : s[i].code \in Mechanisms[c],
         NEW t, DOMAIN t \subseteq Nat, \A i \in DOMAIN t : t[i].code \in Mechanisms[c]
  PROVE  FirstOf(<<Verdict(s), Verdict(t)>>) \in Outcomes(c)
  <1> DEFINE v == <<Verdict(s), Verdict(t)>>
  <1>1. Verdict(s) \in Outcomes(c) /\ Verdict(t) \in Outcomes(c)
    BY VerdictIsAnOutcome
  <1>2. DOMAIN v = 1..2 /\ \A i \in DOMAIN v : v[i] \in Outcomes(c)
    BY <1>1
  <1> HIDE DEF v
  <1>3. FirstOf(v) \in Outcomes(c) \union {Passed}
    BY <1>2, FirstOfIsOneOfThem
  <1> QED
    BY <1>3, OutcomesOfACheck DEF v

LEMMA RegistryIsJudged ==
  ASSUME NEW fault
  PROVE  RegistryAdmission(RegistryOf(fault)) \in Outcomes("registry")
  <1> DEFINE registry == RegistryOf(fault)
             a == <<Comparison(registry.named, "registry.dialect_name_mismatch"),
                    Comparison(registry.listed, "registry.dialect_absent_from_listing")>>
             b == [i \in DOMAIN registry.refusals |->
                     IF registry.refusals[i] = "accepts"
                     THEN Comparison(FALSE, "registry.unregistered_accepted")
                     ELSE Comparison(registry.refusals[i] = "lists",
                                     "registry.refusal_omits_registry")]
  <1>1. DOMAIN registry.refusals = 1..2 /\ registry.resolves
    BY DEF RegistryOf
  <1>2. DOMAIN a = 1..2 /\ \A i \in DOMAIN a : a[i].code \in Mechanisms["registry"]
    BY DEF Comparison, Mechanisms
  <1>3. DOMAIN b = 1..2 /\ \A i \in DOMAIN b : b[i].code \in Mechanisms["registry"]
    BY <1>1 DEF Comparison, Mechanisms
  <1>4. RegistryAdmission(registry) = FirstOf(<<Verdict(a), Verdict(b)>>)
    BY <1>1 DEF RegistryAdmission
  <1> HIDE DEF a, b
  <1> QED
    BY <1>2, <1>3, <1>4, TwoListsAreAnOutcome

LEMMA SchemaIsJudged ==
  ASSUME NEW file, NEW spec, DOMAIN spec.columns \subseteq Nat
  PROVE  SchemaExactness(file, spec) \in Outcomes("schema")
  <1> DEFINE a == <<Comparison(Len(file.cols) = Len(spec.columns), "schema.column_count"),
                    Comparison(SameColumns(file, spec), "schema.column_set_or_order")>>
             b == [i \in DOMAIN spec.columns |->
                     Comparison(SameType(file, spec.columns[i], spec.tolerant),
                                "schema.type_mismatch")]
  <1>1. DOMAIN a = 1..2 /\ \A i \in DOMAIN a : a[i].code \in Mechanisms["schema"]
    BY DEF Comparison, Mechanisms
  <1>2. DOMAIN b \subseteq Nat /\ \A i \in DOMAIN b : b[i].code \in Mechanisms["schema"]
    BY DEF Comparison, Mechanisms
  <1>3. SchemaExactness(file, spec)
          \in {Failed("schema.empty_spec"), FirstOf(<<Verdict(a), Verdict(b)>>)}
    BY DEF SchemaExactness
  <1>4. "schema.empty_spec" \in Mechanisms["schema"]
    BY DEF Mechanisms
  <1> HIDE DEF a, b
  <1>5. FirstOf(<<Verdict(a), Verdict(b)>>) \in Outcomes("schema")
    BY <1>1, <1>2, TwoListsAreAnOutcome
  <1> QED
    BY <1>3, <1>4, <1>5, OutcomesOfACheck

LEMMA AggregatesAreJudged ==
  ASSUME NEW computed, NEW truth, NEW spec, DOMAIN spec.aggregates \subseteq Nat
  PROVE  AggregateParity(computed, truth, spec) \in Outcomes("aggregate")
  <1> DEFINE s == [i \in DOMAIN spec.aggregates |->
                     Gating(AggregateComparison(computed, truth, spec.aggregates[i]))]
  <1>1. \A e : AggregateComparison(computed, truth, e).code \in Mechanisms["aggregate"]
    BY DEF AggregateComparison, Comparison, Mechanisms
  <1>2. DOMAIN s \subseteq Nat /\ \A i \in DOMAIN s : s[i].code \in Mechanisms["aggregate"]
    BY <1>1 DEF Gating, Comparison
  <1>3. AggregateParity(computed, truth, spec)
          \in {Failed("aggregate.empty_spec"), Verdict(s)}
    BY DEF AggregateParity
  <1>4. "aggregate.empty_spec" \in Mechanisms["aggregate"]
    BY DEF Mechanisms
  <1> HIDE DEF s
  <1> QED
    BY <1>2, <1>3, <1>4, VerdictIsAnOutcome, OutcomesOfACheck

LEMMA DiscriminatorsAreJudged ==
  ASSUME NEW file, NEW truth, NEW spec, DOMAIN spec.discriminators \subseteq Nat
  PROVE  NullDiscriminator(file, truth, spec) \in Outcomes("rf002")
  <1>1. ASSUME NEW e PROVE Discriminates(file, truth, e) \in Outcomes("rf002")
    <2> DEFINE there == e.column \in Columns(file)
               nulls == IF there THEN NullCount(file, e.column) ELSE 0
               s == <<Comparison(\/ e.key = ""
                                 \/ e.key \in DOMAIN truth /\ truth[e.key] = e.nulls,
                                 "rf002.spec_ground_truth_disagree"),
                      Comparison(there /\ nulls = e.nulls, "rf002.null_count_mismatch"),
                      Comparison(nulls # 0, "rf002.not_discriminating"),
                      Comparison(there => NaNCount(file, e.column) = 0, "rf002.nan_as_value")>>
    <2> HIDE DEF there, nulls
    <2>1. /\ DOMAIN s = 1..4
          /\ s[1].code \in Mechanisms["rf002"] /\ s[2].code \in Mechanisms["rf002"]
          /\ s[3].code \in Mechanisms["rf002"] /\ s[4].code \in Mechanisms["rf002"]
      <3>1. DOMAIN s = 1..4
        OBVIOUS
      <3>2. s[1].code = "rf002.spec_ground_truth_disagree"
        BY DEF Comparison
      <3>3. s[2].code = "rf002.null_count_mismatch"
        BY DEF Comparison
      <3>4. s[3].code = "rf002.not_discriminating"
        BY DEF Comparison
      <3>5. s[4].code = "rf002.nan_as_value"
        BY DEF Comparison
      <3> QED
        BY <3>1, <3>2, <3>3, <3>4, <3>5 DEF Mechanisms
    <2>2. Discriminates(file, truth, e)
            = IF e.nulls = Absent THEN Failed("rf002.table_not_declared") ELSE Verdict(s)
      BY Zenon DEF Discriminates, there, nulls
    <2>3. "rf002.table_not_declared" \in Mechanisms["rf002"]
      BY DEF Mechanisms
    <2> HIDE DEF s
    <2>4. \A i \in DOMAIN s : s[i].code \in Mechanisms["rf002"]
      BY <2>1
    <2>5. Verdict(s) \in Outcomes("rf002")
      BY <2>1, <2>4, VerdictIsAnOutcome
    <2> QED
      BY <2>2, <2>3, <2>5, OutcomesOfACheck
  <1> DEFINE v == [i \in DOMAIN spec.discriminators |->
                     Discriminates(file, truth, spec.discriminators[i])]
  <1>2. DOMAIN v \subseteq Nat /\ \A i \in DOMAIN v : v[i] \in Outcomes("rf002")
    BY <1>1
  <1>3. NullDiscriminator(file, truth, spec)
          \in {Failed("rf002.no_declaration"), Skipped, Failed("rf002.empty_without_reason"),
               FirstOf(v)}
    BY DEF NullDiscriminator
  <1>4. {"rf002.no_declaration", "rf002.empty_without_reason"} \subseteq Mechanisms["rf002"]
    BY DEF Mechanisms
  <1> HIDE DEF v
  <1>5. FirstOf(v) \in Outcomes("rf002") \union {Passed}
    BY <1>2, FirstOfIsOneOfThem
  <1> QED
    BY <1>3, <1>4, <1>5, OutcomesOfACheck

LEMMA BoundaryIsJudged ==
  ASSUME NEW file, NEW probed, NEW spec, DOMAIN spec.boundary \subseteq Nat
  PROVE  Boundary(file, probed, spec) \in Outcomes("b2")
  <1> DEFINE s == [i \in DOMAIN spec.boundary |->
                     BoundaryComparison(file, probed, spec.boundary[i])]
  <1>1. \A name : BoundaryComparison(file, probed, name).code \in Mechanisms["b2"]
    BY DEF BoundaryComparison, Comparison, Mechanisms
  <1>2. DOMAIN s \subseteq Nat /\ \A i \in DOMAIN s : s[i].code \in Mechanisms["b2"]
    BY <1>1
  <1>3. Boundary(file, probed, spec) \in {Failed("b2.no_boundary_columns"), Verdict(s)}
    BY DEF Boundary
  <1>4. "b2.no_boundary_columns" \in Mechanisms["b2"]
    BY DEF Mechanisms
  <1> HIDE DEF s
  <1> QED
    BY <1>2, <1>3, <1>4, VerdictIsAnOutcome, OutcomesOfACheck

LEMMA OthersAreJudged ==
  ASSUME NEW fault, NEW file, NEW first, NEW second, NEW spec, NEW has_book,
         NEW attempts, DOMAIN attempts \subseteq Nat
  PROVE  /\ IncrementalRefusal(IncrementalOutcome(fault)) \in Outcomes("pg011")
         /\ BlockStructure(file) \in Outcomes("blocks")
         /\ Checksum(first, second, spec) \in Outcomes("checksum")
         /\ RecipeSecurity(has_book, attempts) \in Outcomes("recipe_security")
  <1>1. IncrementalRefusal(IncrementalOutcome(fault)) \in {Passed, Failed("pg011.accepted")}
    BY DEF IncrementalRefusal, IncrementalOutcome
  <1>2. Checksum(first, second, spec)
          \in {Passed, Failed("checksum.data_layer_differs"), Failed("checksum.bytes_only")}
    BY DEF Checksum
  <1>3. BlockStructure(file) \in Outcomes("blocks")
    <2> DEFINE expected == ExpectedBlockRows(Len(file.rows))
               s == <<Comparison(Len(file.blocks) = Len(expected), "blocks.count_mismatch"),
                      Comparison(RowsIn(file.blocks) = Len(file.rows), "blocks.rows_missing"),
                      Comparison(file.blocks = expected, "blocks.layout_mismatch")>>
    <2>1. DOMAIN s = 1..3 /\ \A i \in DOMAIN s : s[i].code \in Mechanisms["blocks"]
      BY DEF Comparison, Mechanisms
    <2>2. BlockStructure(file) = Verdict(s)
      BY DEF BlockStructure
    <2> HIDE DEF s
    <2> QED
      BY <2>1, <2>2, VerdictIsAnOutcome
  <1>4. RecipeSecurity(has_book, attempts) \in Outcomes("recipe_security")
    <2> DEFINE s == [i \in DOMAIN attempts |->
                       Comparison(attempts[i], "recipe_security.mutation_accepted")]
    <2>1. DOMAIN s \subseteq Nat
          /\ \A i \in DOMAIN s : s[i].code \in Mechanisms["recipe_security"]
      BY DEF Comparison, Mechanisms
    <2>2. RecipeSecurity(has_book, attempts)
            \in {Skipped, Failed("recipe_security.no_mutations"), Verdict(s)}
      BY DEF RecipeSecurity
    <2>3. "recipe_security.no_mutations" \in Mechanisms["recipe_security"]
      BY DEF Mechanisms
    <2> HIDE DEF s
    <2> QED
      BY <2>1, <2>2, <2>3, VerdictIsAnOutcome, OutcomesOfACheck
  <1>5. /\ "pg011.accepted" \in Mechanisms["pg011"]
        /\ {"checksum.data_layer_differs", "checksum.bytes_only"} \subseteq Mechanisms["checksum"]
    BY DEF Mechanisms
  <1> QED
    BY <1>1, <1>2, <1>3, <1>4, <1>5, OutcomesOfACheck

-----------------------------------------------------------------------------
(* The invariant.  What a run leaves behind is settled by its last steps,   *)
(* but which checks are judged by then, whether the file is its own and     *)
(* which pack is there, depend on every step before them.                   *)

BeforeGate == {"start", "pull", "read", "judge", "serve", "await", "cold", "warm"}
Writing == {"archive", "json", "md"}
Stages == BeforeGate \union Writing \union {"over"}

AllJudged == \A c \in Checks : results[c] \in Outcomes(c)

\* Each stage has judged the checks before it, and the gate is the last one.
ResultsInv ==
    /\ results = [c \in Checks |-> results[c]]
    /\ pc \in BeforeGate => results["serve"] = Unjudged
    /\ pc \in Stages \ {"start", "over"} => results["registry"] \in Outcomes("registry")
    /\ pc \in {"serve", "await", "cold", "warm"} =>
         \A c \in Checks \ {"serve"} : results[c] \in Outcomes(c)
    /\ pc \in Writing => AllJudged

\* Between the passes of the gate, the counters are those of the cold one.
GateInv ==
    /\ pc = "warm" => cold.counters = Pass(inv.fault, cold.was_cached)
    /\ PassIsFromAColdServer

\* A file in a fresh work directory was pulled by this run.
FileInv ==
    /\ delivered \in Nat
    /\ ~inv.keeps_work_dir =>
         /\ pc \in {"pull", "read"} /\ artifact # <<>> => delivered > 0
         /\ pc \in {"judge", "serve", "await", "cold", "warm"} \union Writing => delivered > 0
         /\ exit = "PASS" => delivered > 0

OwnPack == [run |-> run, results |-> results]

\* The pack of this run is there in its first form from the next to last step on.
PackInv ==
    /\ run \in Nat /\ json.run \in Nat /\ json.run <= run
    /\ pc \in (BeforeGate \union Writing) \ {"md"} => json.run < run
    /\ pc = "md" => json = OwnPack
    /\ pc # "over" => exit = "none"
    /\ exit \in {"PASS", "FAIL"} =>
         json = OwnPack /\ md = json /\ exit = ExitCode(results) /\ AllJudged
    /\ exit \in {"refused", "crash"} => json.run < run

BatteryInv ==
    /\ inv \in Invocations
    /\ pc \in Stages
    /\ ResultsInv
    /\ GateInv
    /\ FileInv
    /\ PackInv

LEMMA ServeGateIsJudged ==
  ASSUME NEW first, NEW second
  PROVE  /\ ServeGate(first, second) \in Outcomes("serve")
         /\ ServeGate(first, second).status = "PASS" =>
              Exercised(first) /\ second.misses = 0
  <1> DEFINE s == <<Comparison(first.copied = 0, "serve.copied_columns_cold"),
                    Comparison(second.copied = 0, "serve.copied_columns_warm"),
                    Comparison(first.zero_copy = first.decoded, "serve.cold_zero_copy_mismatch"),
                    Comparison(Exercised(first), "serve.cold_no_decode"),
                    Comparison(second.misses = 0, "serve.warm_miss"),
                    Comparison(second.decoded = 0, "serve.warm_decoded")>>
  <1>1. DOMAIN s = 1..6 /\ \A i \in DOMAIN s : s[i].code \in Mechanisms["serve"]
    BY DEF Comparison, Mechanisms
  <1>2. (s[4].ok => Exercised(first)) /\ (s[5].ok => second.misses = 0)
    BY DEF Comparison
  <1>3. ServeGate(first, second) = Verdict(s)
    BY Zenon DEF ServeGate
  <1> HIDE DEF s
  <1>4. Verdict(s) \in Outcomes("serve")
    BY <1>1, VerdictIsAnOutcome
  <1>5. Verdict(s).status = "PASS" => \A i \in DOMAIN s : s[i].ok
    <2> DEFINE codes == Mechanisms["serve"]
    <2>1. \A i \in DOMAIN s : s[i].code \in codes
      BY <1>1
    <2> HIDE DEF codes
    <2> QED
      BY <1>1, <2>1, VerdictIsExplained
  <1> QED
    BY <1>1, <1>2, <1>3, <1>4, <1>5

\* A server that decodes a cached column in the cold pass does so in the warm one.
LEMMA GreenGateWasCold ==
  ASSUME NEW fault, NEW cached, ServeGate(Pass(fault, cached), Pass(fault, TRUE)).status = "PASS"
  PROVE  ~cached
  <1>1. Exercised(Pass(fault, cached)) /\ Pass(fault, TRUE).misses = 0
    BY ServeGateIsJudged
  <1>2. CASE fault = "evicting_server"
    BY <1>1, <1>2 DEF Pass
  <1>3. CASE fault # "evicting_server"
    BY <1>1, <1>3 DEF Pass, Exercised
  <1> QED
    BY <1>2, <1>3

LEMMA NamesOfChecks ==
  Checks = {"registry", "schema", "aggregate", "rf002", "b2", "pg011", "blocks",
            "checksum", "recipe_security", "serve"}
  BY DEF Checks, CheckNames

\* The data checks of an invocation, whatever was read and whatever the probe answered.
LEMMA DataIsJudged ==
  ASSUME BatteryInv, pc = "judge", NEW b2 \in Outcomes("b2")
  PROVE  /\ Judged(b2) = [c \in Checks |-> Judged(b2)[c]]
         /\ Judged(b2)["serve"] = results["serve"]
         /\ \A c \in Checks \ {"serve"} : Judged(b2)[c] \in Outcomes(c)
  <1>1. /\ DOMAIN inv.spec.columns \subseteq Nat /\ DOMAIN inv.spec.aggregates \subseteq Nat
        /\ DOMAIN inv.spec.discriminators \subseteq Nat /\ DOMAIN inv.attempts \subseteq Nat
    BY InvocationAssumption DEF BatteryInv
  <1>2. results = [c \in Checks |-> results[c]] /\ results["registry"] \in Outcomes("registry")
    BY DEF BatteryInv, ResultsInv, Stages, Writing
  <1> DEFINE file == JudgedFile
             schema == SchemaExactness(file, inv.spec)
             aggregate == AggregateParity(Aggregates(file, inv.spec), inv.truth, inv.spec)
             rf002 == NullDiscriminator(file, inv.truth, inv.spec)
             pg011 == IncrementalRefusal(IncrementalOutcome(inv.fault))
             blocks == BlockStructure(file)
             checksum == Checksum(reads[1], reads[2], inv.spec)
             security == RecipeSecurity(inv.has_book, inv.attempts)
  <1>3. Judged(b2) = [results EXCEPT
          !["schema"] = schema, !["aggregate"] = aggregate, !["rf002"] = rf002, !["b2"] = b2,
          !["pg011"] = pg011, !["blocks"] = blocks, !["checksum"] = checksum,
          !["recipe_security"] = security]
    BY DEF Judged
  <1>4. /\ schema \in Outcomes("schema") /\ rf002 \in Outcomes("rf002")
        /\ aggregate \in Outcomes("aggregate")
    BY <1>1, SchemaIsJudged, AggregatesAreJudged, DiscriminatorsAreJudged
  <1>5. /\ pg011 \in Outcomes("pg011") /\ blocks \in Outcomes("blocks")
        /\ checksum \in Outcomes("checksum") /\ security \in Outcomes("recipe_security")
    BY <1>1, OthersAreJudged
  <1> HIDE DEF schema, aggregate, rf002, pg011, blocks, checksum, security
  <1>6. DOMAIN results = Checks
    BY <1>2
  <1>7. /\ Judged(b2) = [c \in Checks |-> Judged(b2)[c]]
        /\ Judged(b2)["serve"] = results["serve"]
    <2>1. \A f, x, y : f = [c \in Checks |-> f[c]]
                          => [f EXCEPT ![x] = y] = [c \in Checks |-> [f EXCEPT ![x] = y][c]]
      OBVIOUS
    <2>2. Judged(b2) = [c \in Checks |-> Judged(b2)[c]]
      BY <1>2, <1>3, <2>1, Zenon
    <2>3. Judged(b2)["serve"] = results["serve"]
      BY <1>3, <1>6, NamesOfChecks
    <2> QED
      BY <2>2, <2>3
  <1>8. /\ Judged(b2)["registry"] = results["registry"] /\ Judged(b2)["schema"] = schema
        /\ Judged(b2)["aggregate"] = aggregate /\ Judged(b2)["rf002"] = rf002
        /\ Judged(b2)["b2"] = b2 /\ Judged(b2)["pg011"] = pg011
        /\ Judged(b2)["blocks"] = blocks /\ Judged(b2)["checksum"] = checksum
        /\ Judged(b2)["recipe_security"] = security
    BY <1>3, <1>6, NamesOfChecks
  <1> QED
    BY <1>2, <1>4, <1>5, <1>7, <1>8, NamesOfChecks

-----------------------------------------------------------------------------
(* Its proof: one lemma for the steps of each part of a run.               *)

LEMMA UnjudgedIsNoOutcome ==
  /\ Unwritten.results = [c \in Checks |-> Unwritten.results[c]]
  /\ Unwritten.results["serve"] = Unjudged /\ Unjudged.status # "PASS"
  BY NamesOfChecks DEF Unwritten, Unjudged

LEMMA BatteryInit == Init => BatteryInv
  <1> SUFFICES ASSUME Init PROVE BatteryInv
    OBVIOUS
  <1>1. ResultsInv
    BY UnjudgedIsNoOutcome DEF Init, ResultsInv, BeforeGate, Writing, Stages
  <1>2. GateInv
    BY UnjudgedIsNoOutcome DEF Init, GateInv, PassIsFromAColdServer
  <1>3. FileInv
    BY DEF Init, FileInv, Writing
  <1>4. PackInv
    BY DEF Init, PackInv, Unwritten, BeforeGate, Writing
  <1> QED
    BY <1>1, <1>2, <1>3, <1>4 DEF BatteryInv, Init, Stages, BeforeGate

LEMMA PullsKeepIt ==
  ASSUME BatteryInv, Refuse \/ Begin \/ PullPublishes \/ PullFails \/ ReadArtifact \/ ReadRaises
  PROVE  BatteryInv'
  <1> USE DEF BatteryInv, Stages, BeforeGate, Writing, work, gate, pack, bounds
  <1>1. CASE Refuse
    <2>1. ResultsInv'
      BY <1>1, NamesOfChecks DEF Refuse, Over, ResultsInv, AllJudged
    <2>2. GateInv'
      BY <1>1, NamesOfChecks DEF Refuse, Over, ResultsInv, GateInv, PassIsFromAColdServer
    <2>3. FileInv'
      BY <1>1 DEF Refuse, Over, FileInv
    <2>4. PackInv'
      BY <1>1, NamesOfChecks DEF Refuse, Over, PackInv, OwnPack, ResultsInv, AllJudged
    <2> QED
      BY <1>1, <2>1, <2>2, <2>3, <2>4 DEF Refuse, Over
  <1>2. CASE Begin
    <2>1. /\ results' = [c \in Checks |-> results'[c]]
          /\ results'["serve"] = results["serve"]
          /\ results'["registry"] \in Outcomes("registry")
      BY <1>2, NamesOfChecks, RegistryIsJudged DEF Begin, ResultsInv
    <2>2. ResultsInv'
      BY <1>2, <2>1, NamesOfChecks DEF Begin, ResultsInv, AllJudged
    <2>3. GateInv'
      BY <1>2, <2>1, NamesOfChecks DEF Begin, ResultsInv, GateInv, PassIsFromAColdServer
    <2>4. FileInv'
      BY <1>2, <2>1 DEF Begin, FileInv
    <2>5. PackInv'
      BY <1>2, <2>1, NamesOfChecks DEF Begin, PackInv, OwnPack, ResultsInv, AllJudged
    <2> QED
      BY <1>2, <2>1, <2>2, <2>3, <2>4, <2>5 DEF Begin
  <1>3. CASE PullPublishes
    <2>1. ResultsInv'
      BY <1>3, NamesOfChecks DEF PullPublishes, ResultsInv, AllJudged
    <2>2. GateInv'
      BY <1>3, NamesOfChecks DEF PullPublishes, ResultsInv, GateInv, PassIsFromAColdServer
    <2>3. FileInv'
      BY <1>3 DEF PullPublishes, FileInv
    <2>4. PackInv'
      BY <1>3, NamesOfChecks DEF PullPublishes, PackInv, OwnPack, ResultsInv, AllJudged
    <2> QED
      BY <1>3, <2>1, <2>2, <2>3, <2>4 DEF PullPublishes
  <1>4. CASE PullFails
    <2>1. ResultsInv'
      BY <1>4, NamesOfChecks DEF PullFails, ResultsInv, AllJudged
    <2>2. GateInv'
      BY <1>4, NamesOfChecks DEF PullFails, ResultsInv, GateInv, PassIsFromAColdServer
    <2>3. FileInv'
      BY <1>4 DEF PullFails, FileInv
    <2>4. PackInv'
      BY <1>4, NamesOfChecks DEF PullFails, PackInv, OwnPack, ResultsInv, AllJudged
    <2> QED
      BY <1>4, <2>1, <2>2, <2>3, <2>4 DEF PullFails
  <1>5. CASE ReadArtifact
    <2>1. ResultsInv'
      BY <1>5, NamesOfChecks DEF ReadArtifact, ResultsInv, AllJudged
    <2>2. GateInv'
      BY <1>5, NamesOfChecks DEF ReadArtifact, ResultsInv, GateInv, PassIsFromAColdServer
    <2>3. FileInv'
      BY <1>5 DEF ReadArtifact, Legible, FileInv
    <2>4. PackInv'
      BY <1>5, NamesOfChecks DEF ReadArtifact, PackInv, OwnPack, ResultsInv, AllJudged
    <2> QED
      BY <1>5, <2>1, <2>2, <2>3, <2>4 DEF ReadArtifact
  <1>6. CASE ReadRaises
    <2>1. ResultsInv'
      BY <1>6, NamesOfChecks DEF ReadRaises, Over, ResultsInv, AllJudged
    <2>2. GateInv'
      BY <1>6, NamesOfChecks DEF ReadRaises, Over, ResultsInv, GateInv, PassIsFromAColdServer
    <2>3. FileInv'
      BY <1>6 DEF ReadRaises, Over, FileInv
    <2>4. PackInv'
      BY <1>6, NamesOfChecks DEF ReadRaises, Over, PackInv, OwnPack, ResultsInv, AllJudged
    <2> QED
      BY <1>6, <2>1, <2>2, <2>3, <2>4 DEF ReadRaises, Over
  <1> QED
    BY <1>1, <1>2, <1>3, <1>4, <1>5, <1>6

LEMMA JudgesKeepIt ==
  ASSUME BatteryInv, Judge \/ ProbeFails
  PROVE  BatteryInv'
  <1> USE DEF BatteryInv, Stages, BeforeGate, Writing, work, gate, pack, bounds
  <1>1. CASE Judge
    <2>1. PICK b2 \in Outcomes("b2") : results' = Judged(b2)
      BY <1>1, BoundaryIsJudged, InvocationAssumption DEF Judge
    <2>2. /\ results' = [c \in Checks |-> results'[c]]
          /\ results'["serve"] = results["serve"]
          /\ \A c \in Checks \ {"serve"} : results'[c] \in Outcomes(c)
      BY <1>1, <2>1, DataIsJudged DEF Judge
    <2>3. ResultsInv'
      BY <1>1, <2>2, NamesOfChecks DEF Judge, ResultsInv, AllJudged
    <2>4. GateInv'
      BY <1>1, <2>2, NamesOfChecks DEF Judge, ResultsInv, GateInv, PassIsFromAColdServer
    <2>5. FileInv'
      BY <1>1, <2>2 DEF Judge, FileInv
    <2>6. PackInv'
      BY <1>1, <2>2, NamesOfChecks DEF Judge, PackInv, OwnPack, ResultsInv, AllJudged
    <2> QED
      BY <1>1, <2>2, <2>3, <2>4, <2>5, <2>6 DEF Judge
  <1>2. CASE ProbeFails
    <2>1. PICK b2 \in Outcomes("b2") : results' = Judged(b2)
      BY <1>2, OutcomesOfACheck DEF ProbeFails
    <2> HIDE DEF BatteryInv
    <2>2. /\ results' = [c \in Checks |-> results'[c]]
          /\ results'["serve"] = results["serve"]
          /\ \A c \in Checks \ {"serve"} : results'[c] \in Outcomes(c)
      <3>1. BatteryInv /\ pc = "judge"
        BY <1>2 DEF ProbeFails
      <3> QED
        BY <2>1, <3>1, DataIsJudged
    <2> USE DEF BatteryInv
    <2>3. ResultsInv'
      BY <1>2, <2>2, NamesOfChecks DEF ProbeFails, ResultsInv, AllJudged
    <2>4. GateInv'
      BY <1>2, <2>2, NamesOfChecks DEF ProbeFails, ResultsInv, GateInv, PassIsFromAColdServer
    <2>5. FileInv'
      BY <1>2, <2>2 DEF ProbeFails, FileInv
    <2>6. PackInv'
      BY <1>2, <2>2, NamesOfChecks DEF ProbeFails, PackInv, OwnPack, ResultsInv, AllJudged
    <2> QED
      BY <1>2, <2>2, <2>3, <2>4, <2>5, <2>6 DEF ProbeFails
  <1> QED
    BY <1>1, <1>2

\* The gate closes the judging: every check has an outcome by then.
LEMMA GateIsTheLast ==
  ASSUME BatteryInv, pc \in {"serve", "await", "cold", "warm"},
         NEW result \in Outcomes("serve"), GateResult(result)
  PROVE  /\ pc' = "archive"
         /\ results' = [c \in Checks |-> results'[c]]
         /\ results'["serve"] = result
         /\ \A c \in Checks : results'[c] \in Outcomes(c)
  <1>1. results = [c \in Checks |-> results[c]] /\ "serve" \in Checks
    BY NamesOfChecks DEF BatteryInv, ResultsInv
  <1>2. \A c \in Checks \ {"serve"} : results[c] \in Outcomes(c)
    BY DEF BatteryInv, ResultsInv
  <1> QED
    BY <1>1, <1>2 DEF GateResult

LEMMA GateKeepsIt ==
  ASSUME BatteryInv, SkipGate \/ Launch \/ ProcessExits \/ Ready \/ GateRaises \/ ColdPass \/ WarmPass
  PROVE  BatteryInv'
  <1> USE DEF BatteryInv, Stages, BeforeGate, Writing, work, gate, pack, bounds
  <1>1. CASE SkipGate
    <2>1. PICK result \in {Failed(""), Skipped} : GateResult(result)
      BY <1>1 DEF SkipGate
    <2>2. /\ pc' = "archive"
          /\ results' = [c \in Checks |-> results'[c]]
          /\ results'["serve"] = result
          /\ \A c \in Checks : results'[c] \in Outcomes(c)
      BY <1>1, <2>1, GateIsTheLast, OutcomesOfACheck DEF SkipGate
    <2>3. result.status # "PASS"
      <3>1. Failed("").status # "PASS" /\ Skipped.status # "PASS"
        BY DEF Failed, Skipped
      <3>2. result = Failed("") \/ result = Skipped
        BY <2>1
      <3> QED
        BY <3>1, <3>2, Zenon
    <2>4. ResultsInv'
      BY <1>1, <2>2, NamesOfChecks DEF SkipGate, ResultsInv, AllJudged
    <2>5. GateInv'
      BY <1>1, <2>2, <2>3, NamesOfChecks DEF SkipGate, ResultsInv, GateInv, PassIsFromAColdServer
    <2>6. FileInv'
      BY <1>1, <2>2 DEF SkipGate, FileInv
    <2>7. PackInv'
      BY <1>1, <2>2, NamesOfChecks DEF SkipGate, PackInv, OwnPack, ResultsInv, AllJudged
    <2> QED
      BY <1>1, <2>2, <2>4, <2>5, <2>6, <2>7 DEF SkipGate
  <1>2. CASE Launch
    <2>1. ResultsInv'
      BY <1>2, NamesOfChecks DEF Launch, ResultsInv, AllJudged
    <2>2. GateInv'
      BY <1>2, NamesOfChecks DEF Launch, ResultsInv, GateInv, PassIsFromAColdServer
    <2>3. FileInv'
      BY <1>2 DEF Launch, FileInv
    <2>4. PackInv'
      BY <1>2, NamesOfChecks DEF Launch, PackInv, OwnPack, ResultsInv, AllJudged
    <2> QED
      BY <1>2, <2>1, <2>2, <2>3, <2>4 DEF Launch
  <1>3. CASE ProcessExits
    <2>1. ResultsInv'
      BY <1>3, NamesOfChecks DEF ProcessExits, ResultsInv, AllJudged
    <2>2. GateInv'
      BY <1>3, NamesOfChecks DEF ProcessExits, ResultsInv, GateInv, PassIsFromAColdServer
    <2>3. FileInv'
      BY <1>3 DEF ProcessExits, FileInv
    <2>4. PackInv'
      BY <1>3, NamesOfChecks DEF ProcessExits, PackInv, OwnPack, ResultsInv, AllJudged
    <2> QED
      BY <1>3, <2>1, <2>2, <2>3, <2>4 DEF ProcessExits
  <1>4. CASE Ready
    <2>1. ResultsInv'
      BY <1>4, NamesOfChecks DEF Ready, ResultsInv, AllJudged
    <2>2. GateInv'
      BY <1>4, NamesOfChecks DEF Ready, ResultsInv, GateInv, PassIsFromAColdServer
    <2>3. FileInv'
      BY <1>4 DEF Ready, FileInv
    <2>4. PackInv'
      BY <1>4, NamesOfChecks DEF Ready, PackInv, OwnPack, ResultsInv, AllJudged
    <2> QED
      BY <1>4, <2>1, <2>2, <2>3, <2>4 DEF Ready
  <1>5. CASE GateRaises
    <2>1. GateResult(Failed("")) /\ Failed("").status # "PASS"
      BY <1>5 DEF GateRaises, Failed
    <2>2. /\ pc' = "archive"
          /\ results' = [c \in Checks |-> results'[c]]
          /\ results'["serve"] = Failed("")
          /\ \A c \in Checks : results'[c] \in Outcomes(c)
      BY <1>5, <2>1, GateIsTheLast, OutcomesOfACheck DEF GateRaises
    <2>3. ResultsInv'
      BY <1>5, <2>2, NamesOfChecks DEF GateRaises, Terminated, ResultsInv, AllJudged
    <2>4. GateInv'
      BY <1>5, <2>2, <2>1, NamesOfChecks DEF GateRaises, Terminated, ResultsInv, GateInv, PassIsFromAColdServer
    <2>5. FileInv'
      BY <1>5, <2>2 DEF GateRaises, Terminated, FileInv
    <2>6. PackInv'
      BY <1>5, <2>2, NamesOfChecks DEF GateRaises, Terminated, PackInv, OwnPack, ResultsInv, AllJudged
    <2> QED
      BY <1>5, <2>2, <2>3, <2>4, <2>5, <2>6 DEF GateRaises, Terminated
  <1>6. CASE ColdPass
    <2>1. ResultsInv'
      BY <1>6, NamesOfChecks DEF ColdPass, ResultsInv, AllJudged
    <2>2. GateInv'
      BY <1>6, UnjudgedIsNoOutcome, NamesOfChecks DEF ColdPass, ResultsInv, GateInv, PassIsFromAColdServer
    <2>3. FileInv'
      BY <1>6 DEF ColdPass, FileInv
    <2>4. PackInv'
      BY <1>6, NamesOfChecks DEF ColdPass, PackInv, OwnPack, ResultsInv, AllJudged
    <2> QED
      BY <1>6, <2>1, <2>2, <2>3, <2>4 DEF ColdPass
  <1>7. CASE WarmPass
    <2> DEFINE result == ServeGate(cold.counters, Pass(inv.fault, TRUE))
    <2>1. GateResult(result) /\ result \in Outcomes("serve")
      BY <1>7, ServeGateIsJudged DEF WarmPass
    <2>2. /\ pc' = "archive"
          /\ results' = [c \in Checks |-> results'[c]]
          /\ results'["serve"] = result
          /\ \A c \in Checks : results'[c] \in Outcomes(c)
      BY <1>7, <2>1, GateIsTheLast DEF WarmPass
    <2>3. result.status = "PASS" => ~cold.was_cached
      BY <1>7, GreenGateWasCold DEF WarmPass, GateInv
    <2> HIDE DEF result
    <2>4. ResultsInv'
      BY <1>7, <2>2, NamesOfChecks DEF WarmPass, Terminated, ResultsInv, AllJudged
    <2>5. GateInv'
      BY <1>7, <2>2, <2>3, NamesOfChecks DEF WarmPass, Terminated, ResultsInv, GateInv, PassIsFromAColdServer
    <2>6. FileInv'
      BY <1>7, <2>2 DEF WarmPass, Terminated, FileInv
    <2>7. PackInv'
      BY <1>7, <2>2, NamesOfChecks DEF WarmPass, Terminated, PackInv, OwnPack, ResultsInv, AllJudged
    <2> QED
      BY <1>7, <2>2, <2>4, <2>5, <2>6, <2>7 DEF WarmPass, Terminated
  <1> QED
    BY <1>1, <1>2, <1>3, <1>4, <1>5, <1>6, <1>7

LEMMA VerdictsAreTwo == \A r : ExitCode(r) \in {"PASS", "FAIL"}
  BY DEF ExitCode, PackVerdict

LEMMA PackKeepsIt ==
  ASSUME BatteryInv, ArchiveRefuses \/ Archive \/ WriteJson \/ WriteMd \/ SourceChanges \/ Killed \/ NextRun
  PROVE  BatteryInv'
  <1> USE DEF BatteryInv, Stages, BeforeGate, Writing, work, gate, pack, bounds
  <1>1. CASE ArchiveRefuses
    <2>1. ResultsInv'
      BY <1>1, NamesOfChecks DEF ArchiveRefuses, Over, ResultsInv, AllJudged
    <2>2. GateInv'
      BY <1>1, NamesOfChecks DEF ArchiveRefuses, Over, ResultsInv, GateInv, PassIsFromAColdServer
    <2>3. FileInv'
      BY <1>1 DEF ArchiveRefuses, Over, FileInv
    <2>4. PackInv'
      BY <1>1, NamesOfChecks DEF ArchiveRefuses, Over, PackInv, OwnPack, ResultsInv, AllJudged
    <2> QED
      BY <1>1, <2>1, <2>2, <2>3, <2>4 DEF ArchiveRefuses, Over
  <1>2. CASE Archive
    <2>1. ResultsInv'
      BY <1>2, NamesOfChecks DEF Archive, ResultsInv, AllJudged
    <2>2. GateInv'
      BY <1>2, NamesOfChecks DEF Archive, ResultsInv, GateInv, PassIsFromAColdServer
    <2>3. FileInv'
      BY <1>2 DEF Archive, FileInv
    <2>4. PackInv'
      BY <1>2, NamesOfChecks DEF Archive, PackInv, OwnPack, ResultsInv, AllJudged
    <2> QED
      BY <1>2, <2>1, <2>2, <2>3, <2>4 DEF Archive
  <1>3. CASE WriteJson
    <2>1. ResultsInv'
      BY <1>3, NamesOfChecks DEF WriteJson, ResultsInv, AllJudged
    <2>2. GateInv'
      BY <1>3, NamesOfChecks DEF WriteJson, ResultsInv, GateInv, PassIsFromAColdServer
    <2>3. FileInv'
      BY <1>3 DEF WriteJson, FileInv
    <2>4. PackInv'
      BY <1>3, NamesOfChecks DEF WriteJson, PackInv, OwnPack, ResultsInv, AllJudged
    <2> QED
      BY <1>3, <2>1, <2>2, <2>3, <2>4 DEF WriteJson
  <1>4. CASE WriteMd
    <2>1. ResultsInv'
      BY <1>4, NamesOfChecks DEF WriteMd, Over, ResultsInv, AllJudged
    <2>2. GateInv'
      BY <1>4, NamesOfChecks DEF WriteMd, Over, ResultsInv, GateInv, PassIsFromAColdServer
    <2>3. FileInv'
      BY <1>4 DEF WriteMd, Over, FileInv
    <2>4. PackInv'
      BY <1>4, NamesOfChecks, VerdictsAreTwo DEF WriteMd, Over, PackInv, OwnPack, ResultsInv, AllJudged
    <2> QED
      BY <1>4, <2>1, <2>2, <2>3, <2>4 DEF WriteMd, Over
  <1>5. CASE SourceChanges
    <2>1. ResultsInv'
      BY <1>5, NamesOfChecks DEF SourceChanges, ResultsInv, AllJudged
    <2>2. GateInv'
      BY <1>5, NamesOfChecks DEF SourceChanges, ResultsInv, GateInv, PassIsFromAColdServer
    <2>3. FileInv'
      BY <1>5 DEF SourceChanges, FileInv
    <2>4. PackInv'
      BY <1>5, NamesOfChecks DEF SourceChanges, PackInv, OwnPack, ResultsInv, AllJudged
    <2> QED
      BY <1>5, <2>1, <2>2, <2>3, <2>4 DEF SourceChanges
  <1>6. CASE Killed
    <2>1. ResultsInv'
      BY <1>6, NamesOfChecks DEF Killed, Over, ResultsInv, AllJudged
    <2>2. GateInv'
      BY <1>6, NamesOfChecks DEF Killed, Over, ResultsInv, GateInv, PassIsFromAColdServer
    <2>3. FileInv'
      BY <1>6 DEF Killed, Over, FileInv
    <2>4. PackInv'
      BY <1>6, NamesOfChecks DEF Killed, Over, PackInv, OwnPack, ResultsInv, AllJudged
    <2> QED
      BY <1>6, <2>1, <2>2, <2>3, <2>4 DEF Killed, Over
  <1>7. CASE NextRun
    <2>1. ResultsInv'
      BY <1>7, UnjudgedIsNoOutcome, NamesOfChecks DEF NextRun, ResultsInv, AllJudged
    <2>2. GateInv'
      BY <1>7, UnjudgedIsNoOutcome, NamesOfChecks DEF NextRun, ResultsInv, GateInv, PassIsFromAColdServer
    <2>3. FileInv'
      BY <1>7 DEF NextRun, FileInv
    <2>4. PackInv'
      BY <1>7, NamesOfChecks DEF NextRun, PackInv, OwnPack, ResultsInv, AllJudged
    <2> QED
      BY <1>7, <2>1, <2>2, <2>3, <2>4 DEF NextRun
  <1> QED
    BY <1>1, <1>2, <1>3, <1>4, <1>5, <1>6, <1>7
LEMMA BatteryStep ==
  BatteryInv /\ [Next]_vars => BatteryInv'
  <1> SUFFICES ASSUME BatteryInv, [Next]_vars PROVE BatteryInv'
    OBVIOUS
  <1>1. CASE Refuse \/ Begin \/ PullPublishes \/ PullFails \/ ReadArtifact \/ ReadRaises
    BY <1>1, PullsKeepIt
  <1>2. CASE Judge \/ ProbeFails
    BY <1>2, JudgesKeepIt
  <1>3. CASE SkipGate \/ Launch \/ ProcessExits \/ Ready \/ GateRaises \/ ColdPass \/ WarmPass
    BY <1>3, GateKeepsIt
  <1>4. CASE \/ ArchiveRefuses \/ Archive \/ WriteJson \/ WriteMd
             \/ SourceChanges \/ Killed \/ NextRun
    BY <1>4, PackKeepsIt
  <1>5. CASE UNCHANGED vars
    BY <1>5 DEF vars, BatteryInv, ResultsInv, AllJudged, GateInv, PassIsFromAColdServer,
                FileInv, PackInv, OwnPack, ExitCode
  <1> QED
    BY <1>1, <1>2, <1>3, <1>4, <1>5 DEF Next

-----------------------------------------------------------------------------
(* The theorems.                                                           *)

\* At every step of every run, each stage has judged the checks before it for a reason
\* declared for each, the pack on disk is the one of the run that wrote it, and the
\* file of a fresh work directory is the run's own (conformance.run, battery.py).
THEOREM BatteryIsSound == Spec => []BatteryInv
  <1>1. Init => BatteryInv
    BY BatteryInit
  <1>2. BatteryInv /\ [Next]_vars => BatteryInv'
    BY BatteryStep
  <1> QED
    BY <1>1, <1>2, PTL DEF Spec

\* The serve gate is green only for a server whose cold pass was cold, even when it
\* measures the server a killed run left behind: one that was warm decodes nothing in
\* its first pass, or misses in its second (ephemeral_serve, check_serve_gate).
THEOREM PassNeedsAColdServer == Spec => []PassIsFromAColdServer
  <1>1. BatteryInv => PassIsFromAColdServer
    BY DEF BatteryInv, GateInv
  <1> QED
    BY <1>1, BatteryIsSound, PTL

\* The exit code tells the pack on disk: green or red, both of its forms are of this
\* run, judge every check and have that verdict; refused or crashed, none is
\* (conformance.run, write_pack, EvidencePack.verdict).
THEOREM ExitIsThePack == Spec => []ExitTellsThePack
  <1>1. BatteryInv => ExitTellsThePack
    <2> SUFFICES ASSUME BatteryInv PROVE ExitTellsThePack
      OBVIOUS
    <2> USE DEF BatteryInv, ResultsInv, FileInv, PackInv
    <2>1. ASSUME exit \in {"PASS", "FAIL"}
          PROVE  /\ json.run = run /\ md = json
                 /\ \A c \in Checks : json.results[c] \in Outcomes(c)
                 /\ exit = "FAIL" <=> FailedIn(json) # {}
      <3>1. json = OwnPack /\ md = json /\ exit = ExitCode(results) /\ AllJudged
        BY <2>1
      <3>2. DOMAIN results = Checks
        OBVIOUS
      <3>3. json.run = run /\ json.results = results
        BY <3>1 DEF OwnPack
      <3>4. exit = "FAIL" <=> FailedIn(json) # {}
        BY <3>1, <3>2, <3>3 DEF ExitCode, PackVerdict, FailedIn
      <3> QED
        BY <3>1, <3>3, <3>4 DEF AllJudged
    <2>2. exit = "PASS" /\ ~inv.keeps_work_dir => delivered > 0
      OBVIOUS
    <2>3. exit \in {"refused", "crash"} => json.run # run
      OBVIOUS
    <2> QED
      BY <2>1, <2>2, <2>3 DEF ExitTellsThePack
  <1> QED
    BY <1>1, BatteryIsSound, PTL

-----------------------------------------------------------------------------
(* The promise of a battery, and its proof.                                *)

\* A run that is over has ended in some way, and runs count from one.
Ended ==
    /\ run \in Nat \ {0}
    /\ pc = "over" => exit # "none"

\* Seen from outside, a run does nothing but write its pack and end.
LEMMA OutsideUnchanged ==
  ASSUME [Next]_vars
  PROVE  \/ UNCHANGED <<run, pc, exit, json>>
         \/ /\ pc # "over" /\ pc' # "over"
            /\ UNCHANGED <<run, exit, json>>
         \/ Refuse \/ ReadRaises \/ ArchiveRefuses \/ WriteJson \/ WriteMd \/ Killed \/ NextRun
  BY DEF Next, vars, pack, Begin, PullPublishes, PullFails, ReadArtifact, Judge, ProbeFails,
     SkipGate, Launch, ProcessExits, Ready, GateRaises, GateResult, ColdPass, WarmPass, Archive,
     SourceChanges

LEMMA EndedStep == Ended /\ [Next]_vars => Ended'
  <1> SUFFICES ASSUME Ended, [Next]_vars PROVE Ended'
    OBVIOUS
  <1>1. CASE WriteMd
    BY <1>1, VerdictsAreTwo DEF WriteMd, Over, Ended
  <1>2. CASE Refuse \/ ReadRaises \/ ArchiveRefuses \/ WriteJson \/ Killed \/ NextRun
    <2>1. run' \in {run, run + 1}
      BY <1>2 DEF Refuse, ReadRaises, ArchiveRefuses, WriteJson, Killed, NextRun
    <2>2. pc' = "over" => exit' \in {"refused", "crash", "killed"}
      BY <1>2 DEF Refuse, ReadRaises, ArchiveRefuses, WriteJson, Killed, NextRun, Over
    <2> QED
      BY <2>1, <2>2 DEF Ended
  <1>3. CASE UNCHANGED <<run, exit>> /\ (pc' = pc \/ pc' # "over")
    BY <1>3 DEF Ended
  <1> QED
    BY <1>1, <1>2, <1>3, OutsideUnchanged

\* A step that shows outside is a step of the promise.
LEMMA PromiseStep ==
  ASSUME BatteryInv, Ended, [Next]_vars
  PROVE  [Promise!Next]_(Promise!vars)
  <1> USE DEF Promise!Next, Promise!vars
  <1>a. PackInv /\ pc \in Stages
    BY DEF BatteryInv
  <1>b. pc # "over" => exit = "none"
    BY <1>a DEF PackInv
  <1>c. LastPack.run = json.run
    BY DEF LastPack
  <1>1. CASE Refuse \/ ReadRaises \/ ArchiveRefuses
    <2>1. /\ pc \in {"start", "read", "archive"} /\ exit' \in {"refused", "crash"}
          /\ UNCHANGED <<run, json>>
      BY <1>1 DEF Refuse, ReadRaises, ArchiveRefuses, Over, pack
    <2>2. json.run # run
      BY <2>1, <1>a DEF PackInv, BeforeGate, Writing
    <2>3. UNCHANGED LastPack
      BY <2>1 DEF LastPack
    <2> QED
      BY <2>1, <2>2, <2>3, <1>b, <1>c DEF Promise!GiveUp
  <1>2. CASE WriteJson
    <2>1. /\ pc = "json" /\ json' = [run |-> run, results |-> results]
          /\ UNCHANGED <<run, exit>>
      BY <1>2 DEF WriteJson
    <2>2. json.run < run /\ json.run \in Nat /\ run \in Nat
      BY <2>1, <1>a DEF PackInv, BeforeGate, Writing
    <2>3. PICK v : v = PackVerdict(results)
      OBVIOUS
    <2>4. v \in {"PASS", "FAIL"}
      BY <2>3, VerdictsAreTwo DEF ExitCode
    <2>5. LastPack' = [run |-> run, verdict |-> v]
      BY <2>1, <2>2, <2>3 DEF LastPack
    <2> QED
      BY <2>1, <2>2, <2>4, <2>5, <1>b, <1>c DEF Promise!Write
  <1>3. CASE WriteMd
    <2>1. /\ pc = "md" /\ exit' = PackVerdict(results)
          /\ UNCHANGED <<run, json>>
      BY <1>3 DEF WriteMd, Over, ExitCode
    <2>2. json.run = run /\ json.results = results
      BY <2>1, <1>a DEF PackInv, OwnPack
    <2>3. run # 0
      BY DEF Ended
    <2>4. LastPack.verdict = PackVerdict(results) /\ UNCHANGED LastPack
      BY <2>1, <2>2, <2>3 DEF LastPack
    <2> QED
      BY <2>1, <2>2, <2>4, <1>b, <1>c DEF Promise!Conclude
  <1>4. CASE Killed
    <2>1. pc # "over" /\ exit' = "killed" /\ UNCHANGED <<run, json>>
      BY <1>4 DEF Killed, Over, pack
    <2>2. UNCHANGED LastPack
      BY <2>1 DEF LastPack
    <2> QED
      BY <2>1, <2>2, <1>b DEF Promise!Die
  <1>5. CASE NextRun
    <2>1. pc = "over" /\ run' = run + 1 /\ exit' = "none" /\ UNCHANGED json
      BY <1>5 DEF NextRun, pack
    <2>2. UNCHANGED LastPack
      BY <2>1 DEF LastPack
    <2> QED
      BY <2>1, <2>2 DEF Ended, Promise!NextRun
  <1>6. CASE UNCHANGED <<run, exit, json>>
    <2>1. UNCHANGED LastPack
      BY <1>6 DEF LastPack
    <2> QED
      BY <1>6, <2>1
  <1> QED
    BY <1>1, <1>2, <1>3, <1>4, <1>5, <1>6, OutsideUnchanged

\* Whoever starts a battery and looks at its exit and its pack sees no other behaviour
\* than BatteryPromise: one pack at most, with the verdict of the exit, and none from a
\* run that refused or crashed (conformance.run, write_pack, run_target).
THEOREM BatteriesKeepThePromise == Spec => KeepsThePromise
  <1>1. Init => Promise!Init /\ Ended
    <2> SUFFICES ASSUME Init PROVE Promise!Init /\ Ended
      OBVIOUS
    <2>1. json.run = 0
      BY DEF Init, Unwritten
    <2> QED
      BY <2>1 DEF Init, Ended, Promise!Init, LastPack
  <1>2. Ended /\ [Next]_vars => Ended'
    BY EndedStep
  <1>3. BatteryInv /\ Ended /\ [Next]_vars => [Promise!Next]_(Promise!vars)
    BY PromiseStep
  <1> QED
    BY <1>1, <1>2, <1>3, BatteryIsSound, PTL DEF Spec, KeepsThePromise, Promise!Spec

-----------------------------------------------------------------------------
(* What a green run is evidence of.                                        *)

\* What the data checks are there to say of a file.
ShowsColumns(file, spec) ==
    /\ SameColumns(file, spec)
    /\ \A i \in DOMAIN spec.columns : SameType(file, spec.columns[i], spec.tolerant)

ShowsAggregates(computed, truth, spec) ==
    \A i \in DOMAIN spec.aggregates :
        LET e == spec.aggregates[i]
        IN /\ e.key \in DOMAIN truth
           /\ \/ e.corroborating
              \/ IsClose(computed[e.key], truth[e.key], e.tolerance)

ShowsNulls(file, truth, spec) ==
    \A i \in DOMAIN spec.discriminators :
        LET e == spec.discriminators[i]
        IN /\ e.key # "" => e.key \in DOMAIN truth /\ truth[e.key] = e.nulls
           /\ NullCount(file, e.column) = e.nulls /\ e.nulls # 0
           /\ NaNCount(file, e.column) = 0

ShowsBounds(file, rows, spec) ==
    \A i \in DOMAIN spec.boundary :
        /\ spec.boundary[i] \in Columns(file)
        /\ Bounds(file.rows, spec.boundary[i]) = Bounds(rows, spec.boundary[i])

LEMMA Statuses ==
  Passed.status = "PASS" /\ Skipped.status = "SKIPPED" /\ \A code : Failed(code).status = "FAIL"
  BY DEF Passed, Skipped, Failed

LEMMA NotFailedIsOk ==
  ASSUME NEW s, DOMAIN s \subseteq Nat, Verdict(s).status # "FAIL"
  PROVE  Verdict(s) = Passed /\ \A i \in DOMAIN s : s[i].ok
  <1> DEFINE codes == {s[i].code : i \in DOMAIN s}
  <1>1. \A i \in DOMAIN s : s[i].code \in codes
    OBVIOUS
  <1> HIDE DEF codes
  <1>2. /\ Verdict(s) \in {Passed} \union {Failed(code) : code \in codes}
        /\ Verdict(s).status = "PASS" => \A i \in DOMAIN s : s[i].ok
    BY <1>1, VerdictIsExplained
  <1>3. Verdict(s) = Passed
    BY <1>2, Statuses
  <1> QED
    BY <1>2, <1>3, Statuses

LEMMA NoneFailed ==
  ASSUME NEW v, DOMAIN v \subseteq Nat,
         \A i \in DOMAIN v : v[i].status # "FAIL" => v[i] = Passed,
         FirstOf(v).status # "FAIL"
  PROVE  \A i \in DOMAIN v : v[i] = Passed
  <1> DEFINE S == {v[i] : i \in DOMAIN v}
  <1>1. \A i \in DOMAIN v : v[i] \in S
    OBVIOUS
  <1>2. \A r \in S : r.status # "FAIL" => r = Passed
    OBVIOUS
  <1> HIDE DEF S
  <1>3. /\ FirstOf(v) \in S \union {Passed}
        /\ FirstOf(v) = Passed => \A i \in DOMAIN v : v[i] = Passed
    BY <1>1, FirstOfIsOneOfThem
  <1> QED
    BY <1>2, <1>3

LEMMA TwoListsAreOk ==
  ASSUME NEW s, DOMAIN s \subseteq Nat, NEW t, DOMAIN t \subseteq Nat,
         FirstOf(<<Verdict(s), Verdict(t)>>).status # "FAIL"
  PROVE  (\A i \in DOMAIN s : s[i].ok) /\ (\A i \in DOMAIN t : t[i].ok)
  <1> DEFINE v == <<Verdict(s), Verdict(t)>>
  <1>1. DOMAIN v = 1..2 /\ v[1] = Verdict(s) /\ v[2] = Verdict(t)
    OBVIOUS
  <1>2. \A r \in {Verdict(s), Verdict(t)} : r.status # "FAIL" => r = Passed
    BY NotFailedIsOk
  <1> HIDE DEF v
  <1>3. \A i \in DOMAIN v : v[i] = Passed
    BY <1>1, <1>2, NoneFailed DEF v
  <1>4. Verdict(s) = Passed /\ Verdict(t) = Passed
    BY <1>1, <1>3
  <1> QED
    BY <1>4, Statuses, NotFailedIsOk

LEMMA GreenSchema ==
  ASSUME NEW file, NEW spec, DOMAIN spec.columns \subseteq Nat,
         SchemaExactness(file, spec).status # "FAIL"
  PROVE  ShowsColumns(file, spec)
  <1> DEFINE a == <<Comparison(Len(file.cols) = Len(spec.columns), "schema.column_count"),
                    Comparison(SameColumns(file, spec), "schema.column_set_or_order")>>
             b == [i \in DOMAIN spec.columns |->
                     Comparison(SameType(file, spec.columns[i], spec.tolerant),
                                "schema.type_mismatch")]
  <1>1. DOMAIN a = 1..2 /\ (a[2].ok => SameColumns(file, spec))
    BY DEF Comparison
  <1>2. /\ DOMAIN b = DOMAIN spec.columns
        /\ \A i \in DOMAIN b : b[i].ok => SameType(file, spec.columns[i], spec.tolerant)
    BY DEF Comparison
  <1>3. SchemaExactness(file, spec) = FirstOf(<<Verdict(a), Verdict(b)>>)
    BY DEF SchemaExactness, Failed
  <1> HIDE DEF a, b
  <1>4. (\A i \in DOMAIN a : a[i].ok) /\ (\A i \in DOMAIN b : b[i].ok)
    BY <1>1, <1>2, <1>3, TwoListsAreOk
  <1> QED
    BY <1>1, <1>2, <1>4 DEF ShowsColumns

LEMMA GreenAggregates ==
  ASSUME NEW computed, NEW truth, NEW spec, DOMAIN spec.aggregates \subseteq Nat,
         AggregateParity(computed, truth, spec).status # "FAIL"
  PROVE  ShowsAggregates(computed, truth, spec)
  <1> DEFINE s == [i \in DOMAIN spec.aggregates |->
                     Gating(AggregateComparison(computed, truth, spec.aggregates[i]))]
  <1>1. ASSUME NEW e, Gating(AggregateComparison(computed, truth, e)).ok
        PROVE  /\ e.key \in DOMAIN truth
               /\ \/ e.corroborating
                  \/ IsClose(computed[e.key], truth[e.key], e.tolerance)
    BY <1>1 DEF Gating, Gates, AggregateComparison, Comparison
  <1>2. DOMAIN s = DOMAIN spec.aggregates
    OBVIOUS
  <1>3. \A i \in DOMAIN s : s[i] = Gating(AggregateComparison(computed, truth, spec.aggregates[i]))
    OBVIOUS
  <1>4. AggregateParity(computed, truth, spec) = Verdict(s)
    BY DEF AggregateParity, Failed
  <1> HIDE DEF s
  <1>5. \A i \in DOMAIN s : s[i].ok
    BY <1>2, <1>4, NotFailedIsOk
  <1> QED
    BY <1>1, <1>2, <1>3, <1>5 DEF ShowsAggregates

LEMMA GreenDiscriminators ==
  ASSUME NEW file, NEW truth, NEW spec, DOMAIN spec.discriminators \subseteq Nat,
         NullDiscriminator(file, truth, spec).status # "FAIL"
  PROVE  ShowsNulls(file, truth, spec)
  <1>1. ASSUME NEW e, Discriminates(file, truth, e).status # "FAIL"
        PROVE  /\ Discriminates(file, truth, e) = Passed
               /\ e.key # "" => e.key \in DOMAIN truth /\ truth[e.key] = e.nulls
               /\ NullCount(file, e.column) = e.nulls /\ e.nulls # 0
               /\ NaNCount(file, e.column) = 0
    <2> DEFINE there == e.column \in Columns(file)
               nulls == IF there THEN NullCount(file, e.column) ELSE 0
               agrees == \/ e.key = ""
                         \/ e.key \in DOMAIN truth /\ truth[e.key] = e.nulls
               s == <<Comparison(agrees, "rf002.spec_ground_truth_disagree"),
                      Comparison(there /\ nulls = e.nulls, "rf002.null_count_mismatch"),
                      Comparison(nulls # 0, "rf002.not_discriminating"),
                      Comparison(there => NaNCount(file, e.column) = 0, "rf002.nan_as_value")>>
    <2>1. Discriminates(file, truth, e)
            = IF e.nulls = Absent THEN Failed("rf002.table_not_declared") ELSE Verdict(s)
      BY Zenon DEF Discriminates
    <2>2. Discriminates(file, truth, e) = Verdict(s)
      BY <1>1, <2>1, Statuses
    <2> HIDE DEF there, nulls, agrees
    <2>3. /\ DOMAIN s = 1..4
          /\ s[1].ok => agrees
          /\ s[2].ok => there /\ nulls = e.nulls
          /\ s[3].ok => nulls # 0
          /\ s[4].ok => (there => NaNCount(file, e.column) = 0)
      <3>1. DOMAIN s = 1..4
        OBVIOUS
      <3>2. s[2].ok => there /\ nulls = e.nulls
        BY DEF Comparison
      <3>3. s[3].ok => nulls # 0
        BY DEF Comparison
      <3>4. s[4].ok => (there => NaNCount(file, e.column) = 0)
        BY DEF Comparison
      <3>5. s[1].ok => agrees
        BY DEF Comparison
      <3> QED
        BY <3>1, <3>2, <3>3, <3>4, <3>5
    <2>4. DOMAIN s \subseteq Nat /\ {1, 2, 3, 4} \subseteq DOMAIN s
      BY <2>3
    <2> HIDE DEF s
    <2>5. Verdict(s) = Passed /\ \A i \in DOMAIN s : s[i].ok
      BY <1>1, <2>2, <2>4, NotFailedIsOk
    <2>6. agrees /\ there /\ nulls = e.nulls /\ nulls # 0 /\ NaNCount(file, e.column) = 0
      BY <2>3, <2>4, <2>5
    <2> QED
      BY <2>2, <2>5, <2>6 DEF nulls, agrees
  <1> DEFINE v == [i \in DOMAIN spec.discriminators |->
                     Discriminates(file, truth, spec.discriminators[i])]
  <1>2. CASE spec.discriminators = <<>>
    <2>1. DOMAIN spec.discriminators = {}
      BY <1>2
    <2> QED
      BY <2>1 DEF ShowsNulls
  <1>3. CASE spec.discriminators # <<>>
    <2>1. NullDiscriminator(file, truth, spec) = FirstOf(v)
      BY <1>3 DEF NullDiscriminator, Failed
    <2>2. DOMAIN v = DOMAIN spec.discriminators
          /\ \A i \in DOMAIN v : v[i] = Discriminates(file, truth, spec.discriminators[i])
      OBVIOUS
    <2> HIDE DEF v
    <2>3. \A i \in DOMAIN v : v[i] = Passed
      <3>1. \A i \in DOMAIN v : v[i].status # "FAIL" => v[i] = Passed
        BY <1>1, <2>2
      <3> QED
        BY <2>1, <2>2, <3>1, NoneFailed
    <2> QED
      BY <1>1, <2>2, <2>3, Statuses DEF ShowsNulls
  <1> QED
    BY <1>2, <1>3

LEMMA GreenBoundary ==
  ASSUME NEW file, NEW rows, NEW spec, NEW names, DOMAIN spec.boundary \subseteq Nat,
         \A i \in DOMAIN spec.boundary : spec.boundary[i] \in names,
         Boundary(file, [n \in names |-> Bounds(rows, n)], spec).status # "FAIL"
  PROVE  ShowsBounds(file, rows, spec)
  <1> DEFINE probed == [n \in names |-> Bounds(rows, n)]
             s == [i \in DOMAIN spec.boundary |->
                     BoundaryComparison(file, probed, spec.boundary[i])]
  <1>1. \A n \in names : probed[n] = Bounds(rows, n)
    OBVIOUS
  <1>2. Boundary(file, probed, spec) = Verdict(s)
    BY Statuses DEF Boundary
  <1>3. DOMAIN s = DOMAIN spec.boundary
        /\ \A i \in DOMAIN s : s[i] = BoundaryComparison(file, probed, spec.boundary[i])
    OBVIOUS
  <1>4. Verdict(s).status # "FAIL"
    BY <1>2
  <1> HIDE DEF probed, s
  <1>5. \A i \in DOMAIN s : s[i].ok
    BY <1>3, <1>4, NotFailedIsOk
  <1>6. \A n : BoundaryComparison(file, probed, n).ok
                 => n \in Columns(file) /\ Bounds(file.rows, n) = probed[n]
    BY DEF BoundaryComparison, BoundsAgree, Comparison
  <1> QED
    BY <1>1, <1>3, <1>5, <1>6 DEF ShowsBounds

LEMMA GreenBlocks ==
  ASSUME NEW file, BlockStructure(file).status # "FAIL"
  PROVE  file.blocks = ExpectedBlockRows(Len(file.rows))
  <1> DEFINE expected == ExpectedBlockRows(Len(file.rows))
             exact == file.blocks = expected
             s == <<Comparison(Len(file.blocks) = Len(expected), "blocks.count_mismatch"),
                    Comparison(RowsIn(file.blocks) = Len(file.rows), "blocks.rows_missing"),
                    Comparison(exact, "blocks.layout_mismatch")>>
  <1>1. BlockStructure(file) = Verdict(s)
    BY DEF BlockStructure
  <1> HIDE DEF expected, exact
  <1>2. DOMAIN s = 1..3
    OBVIOUS
  <1>3. s[3].ok => exact
    BY DEF Comparison
  <1> HIDE DEF s
  <1>4. s[3].ok
    BY <1>1, <1>2, NotFailedIsOk
  <1> QED
    BY <1>3, <1>4 DEF exact, expected

LEMMA GreenChecksum ==
  ASSUME NEW first, NEW second, NEW spec, Checksum(first, second, spec).status # "FAIL"
  PROVE  first = second
  BY Statuses DEF Checksum

\* A green run vouches for the file it judged: its columns are those of the spec, in
\* order and with their types, its gating aggregates are those captured at the source,
\* its declared columns have their nulls and no NaN, its blocks are laid out as the
\* server caches them, a second pull read the same, and where the source never changed
\* its bounds are those of the source (check_schema_exactness to check_checksum).
GreenIsEvidence ==
    exit = "PASS" =>
        LET file == reads[1]
        IN /\ ShowsColumns(file, inv.spec)
           /\ ShowsAggregates(Aggregates(file, inv.spec), inv.truth, inv.spec)
           /\ ShowsNulls(file, inv.truth, inv.spec)
           /\ changes = 0 => ShowsBounds(file, Rows, inv.spec)
           /\ file.blocks = ExpectedBlockRows(Len(file.rows))
           /\ reads[2] = file

\* From the judging to the end of a judged run, the data checks are those of its files.
FromJudging == pc \in {"serve", "await", "cold", "warm"} \union Writing
               \/ exit \in {"PASS", "FAIL"}

DataResults ==
    /\ results["schema"] = SchemaExactness(reads[1], inv.spec)
    /\ results["aggregate"]
         = AggregateParity(Aggregates(reads[1], inv.spec), inv.truth, inv.spec)
    /\ results["rf002"] = NullDiscriminator(reads[1], inv.truth, inv.spec)
    /\ changes = 0 /\ results["b2"].status # "FAIL" => ShowsBounds(reads[1], Rows, inv.spec)
    /\ results["blocks"] = BlockStructure(reads[1])
    /\ results["checksum"] = Checksum(reads[1], reads[2], inv.spec)

EvidenceInv ==
    /\ changes \in Nat
    /\ changes = 0 => source = Rows
    /\ FromJudging => DataResults

LEMMA JudgedData ==
  ASSUME BatteryInv, NEW b2
  PROVE  /\ Judged(b2)["schema"] = SchemaExactness(reads[1], inv.spec)
         /\ Judged(b2)["aggregate"]
              = AggregateParity(Aggregates(reads[1], inv.spec), inv.truth, inv.spec)
         /\ Judged(b2)["rf002"] = NullDiscriminator(reads[1], inv.truth, inv.spec)
         /\ Judged(b2)["b2"] = b2
         /\ Judged(b2)["blocks"] = BlockStructure(reads[1])
         /\ Judged(b2)["checksum"] = Checksum(reads[1], reads[2], inv.spec)
  <1>1. DOMAIN results = Checks
    BY DEF BatteryInv, ResultsInv
  <1> QED
    BY <1>1, NamesOfChecks DEF Judged, JudgedFile

LEMMA EvidenceStep ==
  ASSUME BatteryInv, EvidenceInv, [Next]_vars
  PROVE  EvidenceInv'
  <1> USE DEF EvidenceInv, FromJudging, Writing, work, gate, pack, bounds
  <1>1. CASE Judge \/ ProbeFails
    <2>1. PICK answer : /\ results' = Judged(answer)
                        /\ changes = 0 /\ answer.status # "FAIL"
                             => ShowsBounds(reads[1], Rows, inv.spec)
      <3>1. CASE Judge
        <4> DEFINE names == {inv.spec.boundary[i] : i \in DOMAIN inv.spec.boundary}
                   b2 == Boundary(reads[1], [n \in names |-> Bounds(source, n)], inv.spec)
        <4>1. results' = Judged(b2)
          BY <3>1 DEF Judge, JudgedFile
        <4>2. DOMAIN inv.spec.boundary \subseteq Nat
          BY InvocationAssumption DEF BatteryInv
        <4>3. \A i \in DOMAIN inv.spec.boundary : inv.spec.boundary[i] \in names
          OBVIOUS
        <4> HIDE DEF names
        <4>4. changes = 0 /\ b2.status # "FAIL" => ShowsBounds(reads[1], Rows, inv.spec)
          BY <4>2, <4>3, GreenBoundary
        <4> HIDE DEF b2
        <4> QED
          BY <4>1, <4>4
      <3>2. CASE ProbeFails
        BY <3>2, Statuses DEF ProbeFails
      <3> QED
        BY <1>1, <3>1, <3>2
    <2>2. UNCHANGED <<reads, inv, changes, source>>
      BY <1>1 DEF Judge, ProbeFails
    <2>3. /\ results'["schema"] = SchemaExactness(reads[1], inv.spec)
          /\ results'["aggregate"]
               = AggregateParity(Aggregates(reads[1], inv.spec), inv.truth, inv.spec)
          /\ results'["rf002"] = NullDiscriminator(reads[1], inv.truth, inv.spec)
          /\ results'["blocks"] = BlockStructure(reads[1])
          /\ results'["checksum"] = Checksum(reads[1], reads[2], inv.spec)
          /\ results'["b2"] = answer
      BY <2>1, JudgedData
    <2>4. changes' = 0 /\ results'["b2"].status # "FAIL"
            => ShowsBounds(reads'[1], Rows, inv'.spec)
      BY <2>1, <2>2, <2>3
    <2>5. DataResults'
      BY <2>2, <2>3, <2>4 DEF DataResults
    <2> QED
      BY <2>2, <2>5
  <1>2. CASE SkipGate \/ GateRaises \/ WarmPass
    <2>1. /\ FromJudging /\ UNCHANGED <<reads, inv, changes, source>>
          /\ \E result : results' = [results EXCEPT !["serve"] = result]
      BY <1>2 DEF SkipGate, GateRaises, WarmPass, GateResult, Terminated
    <2>2. \A c \in Checks \ {"serve"} : results'[c] = results[c]
      BY <2>1 DEF BatteryInv, ResultsInv
    <2>3. DataResults'
      BY <2>1, <2>2, NamesOfChecks DEF DataResults
    <2> QED
      BY <2>1, <2>3
  <1>3. CASE SourceChanges
    BY <1>3 DEF SourceChanges, DataResults
  <1>4. CASE Refuse \/ PullPublishes \/ PullFails \/ ReadRaises
    BY <1>4 DEF Refuse, PullPublishes, PullFails, ReadRaises, Over, BatteryInv, PackInv
  <1>5. CASE Begin \/ ReadArtifact \/ NextRun
    BY <1>5 DEF Begin, ReadArtifact, NextRun, BatteryInv, PackInv
  <1>6. CASE Launch \/ ProcessExits \/ Ready \/ ColdPass
    BY <1>6 DEF Launch, ProcessExits, Ready, ColdPass, DataResults
  <1>7. CASE ArchiveRefuses \/ Archive \/ WriteJson \/ WriteMd \/ Killed
    BY <1>7 DEF ArchiveRefuses, Archive, WriteJson, WriteMd, Killed, Over, DataResults
  <1>8. CASE UNCHANGED vars
    BY <1>8 DEF vars, DataResults
  <1> QED
    BY <1>1, <1>2, <1>3, <1>4, <1>5, <1>6, <1>7, <1>8 DEF Next

\* What a green exit is evidence of, for every spec, source and fault, and whatever
\* happened to the run.
THEOREM GreenVouches == Spec => []GreenIsEvidence
  <1>1. Init => EvidenceInv
    BY DEF Init, EvidenceInv, FromJudging, Writing
  <1>2. BatteryInv /\ EvidenceInv /\ [Next]_vars => EvidenceInv'
    BY EvidenceStep
  <1>3. BatteryInv /\ EvidenceInv => GreenIsEvidence
    <2> SUFFICES ASSUME BatteryInv, EvidenceInv, exit = "PASS" PROVE GreenIsEvidence
      BY DEF GreenIsEvidence
    <2>1. DataResults
      BY DEF EvidenceInv, FromJudging
    <2>2. \A c \in Checks : results[c].status # "FAIL"
      <3>1. ExitCode(results) = "PASS" /\ DOMAIN results = Checks
        BY DEF BatteryInv, ResultsInv, PackInv
      <3> QED
        BY <3>1 DEF ExitCode, PackVerdict
    <2>3. /\ DOMAIN inv.spec.columns \subseteq Nat /\ DOMAIN inv.spec.aggregates \subseteq Nat
          /\ DOMAIN inv.spec.discriminators \subseteq Nat
      BY InvocationAssumption DEF BatteryInv
    <2>4. ShowsColumns(reads[1], inv.spec)
      BY <2>1, <2>2, <2>3, GreenSchema, NamesOfChecks DEF DataResults
    <2>5. ShowsAggregates(Aggregates(reads[1], inv.spec), inv.truth, inv.spec)
      BY <2>1, <2>2, <2>3, GreenAggregates, NamesOfChecks DEF DataResults
    <2>6. ShowsNulls(reads[1], inv.truth, inv.spec)
      BY <2>1, <2>2, <2>3, GreenDiscriminators, NamesOfChecks DEF DataResults
    <2>7. changes = 0 => ShowsBounds(reads[1], Rows, inv.spec)
      BY <2>1, <2>2, NamesOfChecks DEF DataResults
    <2>8. reads[1].blocks = ExpectedBlockRows(Len(reads[1].rows))
      BY <2>1, <2>2, GreenBlocks, NamesOfChecks DEF DataResults
    <2>9. reads[2] = reads[1]
      BY <2>1, <2>2, GreenChecksum, NamesOfChecks DEF DataResults
    <2> QED
      BY <2>4, <2>5, <2>6, <2>7, <2>8, <2>9 DEF GreenIsEvidence
  <1> QED
    BY <1>1, <1>2, <1>3, BatteryIsSound, PTL DEF Spec

-----------------------------------------------------------------------------
(* Which fault is blamed on which check.                                   *)

LEMMA AllPassedPasses ==
  ASSUME NEW v, \A j \in DOMAIN v : v[j] = Passed
  PROVE  FirstOf(v) = Passed
  <1>1. {j \in DOMAIN v : v[j] # Passed} = {}
    OBVIOUS
  <1> QED
    BY <1>1 DEF FirstOf

LEMMA AllOkPasses ==
  ASSUME NEW s, \A j \in DOMAIN s : s[j].ok
  PROVE  Verdict(s) = Passed
  <1> DEFINE v == [j \in DOMAIN s |-> IF s[j].ok THEN Passed ELSE Failed(s[j].code)]
  <1>1. \A j \in DOMAIN v : v[j] = Passed
    OBVIOUS
  <1>2. Verdict(s) = FirstOf(v)
    BY DEF Verdict
  <1> HIDE DEF v
  <1> QED
    BY <1>1, <1>2, AllPassedPasses

LEMMA BlamedChecks ==
  ASSUME NEW f \in Faults, f # "drop_qty"
  PROVE  /\ "registry" \in Blamed(f) <=> f \in {"bare_refusal", "misfiled_driver"}
         /\ "schema" \in Blamed(f)
              <=> f \in {"retype", "swap_columns", "no_columns", "drop_time"}
         /\ "aggregate" \in Blamed(f)
              <=> f \in {"drop_row", "repeat_row", "no_aggregates", "no_truth", "fill_zero",
                         "fill_nan"}
         /\ "rf002" \in Blamed(f)
              <=> f \in {"fill_zero", "fill_nan", "silent_zero", "no_declaration",
                         "stale_count"}
         /\ "b2" \in Blamed(f) <=> f \in {"drop_time", "shift_time", "no_boundary"}
         /\ "pg011" \in Blamed(f) <=> f = "merges_arrow"
         /\ "blocks" \in Blamed(f) <=> f = "one_block"
         /\ "checksum" \in Blamed(f) <=> f = "unstable_rows"
         /\ "recipe_security" \in Blamed(f) <=> f = "open_book"
         /\ "serve" \in Blamed(f) <=> f \in {"copying_server", "evicting_server", "no_query"}
         /\ Blamed(f) \subseteq Checks
  <1>1. CASE f \in {"none", "widen_string", "roundoff", "explained_zero"}
    <2>1. Blamed(f) = {}
      BY <1>1 DEF Blamed
    <2> QED
      BY <1>1, <2>1
  <1>2. CASE f \in {"retype", "swap_columns", "no_columns"}
    <2>1. Blamed(f) = {"schema"}
      BY <1>2 DEF Blamed
    <2> QED
      BY <1>2, <2>1, NamesOfChecks
  <1>3. CASE f = "drop_time"
    <2>1. Blamed(f) = {"schema", "b2"}
      BY <1>3 DEF Blamed
    <2> QED
      BY <1>3, <2>1, NamesOfChecks
  <1>4. CASE f \in {"drop_row", "repeat_row", "no_aggregates", "no_truth"}
    <2>1. Blamed(f) = {"aggregate"}
      BY <1>4 DEF Blamed
    <2> QED
      BY <1>4, <2>1, NamesOfChecks
  <1>5. CASE f \in {"fill_zero", "fill_nan"}
    <2>1. Blamed(f) = {"rf002", "aggregate"}
      BY <1>5 DEF Blamed
    <2> QED
      BY <1>5, <2>1, NamesOfChecks
  <1>6. CASE f \in {"silent_zero", "no_declaration", "stale_count"}
    <2>1. Blamed(f) = {"rf002"}
      BY <1>6 DEF Blamed
    <2> QED
      BY <1>6, <2>1, NamesOfChecks
  <1>7. CASE f \in {"shift_time", "no_boundary"}
    <2>1. Blamed(f) = {"b2"}
      BY <1>7 DEF Blamed
    <2> QED
      BY <1>7, <2>1, NamesOfChecks
  <1>8. CASE f \in {"merges_arrow", "one_block", "unstable_rows", "open_book"}
    <2>1. /\ f = "merges_arrow" => Blamed(f) = {"pg011"}
          /\ f = "one_block" => Blamed(f) = {"blocks"}
          /\ f = "unstable_rows" => Blamed(f) = {"checksum"}
          /\ f = "open_book" => Blamed(f) = {"recipe_security"}
      BY DEF Blamed
    <2> QED
      BY <1>8, <2>1, NamesOfChecks
  <1>9. CASE f \in {"bare_refusal", "misfiled_driver"}
    <2>1. Blamed(f) = {"registry"}
      BY <1>9 DEF Blamed
    <2> QED
      BY <1>9, <2>1, NamesOfChecks
  <1>10. CASE f \in {"copying_server", "evicting_server", "no_query"}
    <2>1. Blamed(f) = {"serve"}
      BY <1>10 DEF Blamed
    <2> QED
      BY <1>10, <2>1, NamesOfChecks
  <1> QED
    BY <1>1, <1>2, <1>3, <1>4, <1>5, <1>6, <1>7, <1>8, <1>9, <1>10 DEF Faults

-----------------------------------------------------------------------------
(* The columns that a fault writes, and the schema check.                  *)

LEMMA WrittenBy ==
  ASSUME NEW columns
  PROVE  /\ Written("retype", columns)
              = [c \in DOMAIN columns |-> IF columns[c].type = "int64"
                                          THEN [columns[c] EXCEPT !.type = "int32"]
                                          ELSE columns[c]]
         /\ Written("widen_string", columns)
              = [c \in DOMAIN columns |-> IF columns[c].type = "string"
                                          THEN [columns[c] EXCEPT !.type = "large_string"]
                                          ELSE columns[c]]
         /\ Written("swap_columns", columns)
              = [columns EXCEPT ![1] = columns[2], ![2] = columns[1]]
         /\ \A f : f \notin {"retype", "widen_string", "swap_columns", "drop_time", "drop_qty"}
                     => Written(f, columns) = columns
  BY Zenon DEF Written

Without(columns, name) ==
    LET dropped == CHOOSE c \in DOMAIN columns : columns[c].name = name
    IN [c \in 1..(Len(columns) - 1) |-> columns[IF c < dropped THEN c ELSE c + 1]]

LEMMA WrittenWithout ==
  ASSUME NEW columns
  PROVE  /\ Written("drop_time", columns) = Without(columns, "time")
         /\ Written("drop_qty", columns) = Without(columns, "qty")
  BY Zenon DEF Written, Without

LEMMA ColumnsOfATable ==
  ASSUME NEW i, ColumnsFit(i)
  PROVE  /\ i.columns \in Seq([name : Fields, type : STRING])
         /\ Len(i.columns) >= 2
         /\ DOMAIN i.columns = 1..Len(i.columns)
         /\ {i.columns[c].name : c \in DOMAIN i.columns} = Fields
  <1>1. i.columns \in Seq([name : Fields, type : STRING])
    BY DEF ColumnsFit
  <1>2. PICK c \in DOMAIN i.columns, d \in DOMAIN i.columns :
          i.columns[c].name = "score" /\ i.columns[d].name = "qty"
    BY DEF ColumnsFit, Fields
  <1>3. c # d
    BY <1>2
  <1>4. DOMAIN i.columns = 1..Len(i.columns) /\ Len(i.columns) \in Nat
    BY <1>1
  <1>5. \A e \in DOMAIN i.columns : i.columns[e].name \in Fields
    <2> DEFINE Column == [name : Fields, type : STRING]
    <2>1. \A x \in Column : x.name \in Fields
      OBVIOUS
    <2>2. i.columns \in Seq(Column)
      BY <1>1
    <2> HIDE DEF Column
    <2> QED
      BY <1>4, <2>1, <2>2
  <1>6. {i.columns[e].name : e \in DOMAIN i.columns} = Fields
    <2>1. Fields \subseteq {i.columns[e].name : e \in DOMAIN i.columns}
      BY Zenon DEF ColumnsFit
    <2> HIDE DEF Fields
    <2> QED
      BY <1>5, <2>1
  <1>7. Len(i.columns) >= 2
    <2> DEFINE n == Len(i.columns)
    <2>1. n \in Nat /\ c \in 1..n /\ d \in 1..n
      BY <1>2, <1>4
    <2> HIDE DEF n
    <2>2. n >= 2
      BY <1>3, <2>1
    <2> QED
      BY <2>2 DEF n
  <1> QED
    BY <1>1, <1>4, <1>6, <1>7, Zenon

Named(columns) == {columns[c].name : c \in DOMAIN columns}

LEMMA NamesWithout ==
  ASSUME NEW columns, Len(columns) \in Nat, Len(columns) >= 2, DOMAIN columns = 1..Len(columns),
         Named(columns) = Fields, NEW name \in Fields,
         \A c, d \in DOMAIN columns : columns[c].name = columns[d].name => c = d,
         NEW file, file.cols = Without(columns, name)
  PROVE  Columns(file) = Fields \ {name}
  <1> DEFINE dropped == CHOOSE c \in DOMAIN columns : columns[c].name = name
  <1>1. {columns[c].name : c \in DOMAIN columns} = Fields
    BY DEF Named
  <1>2. dropped \in DOMAIN columns /\ columns[dropped].name = name
    BY <1>1
  <1>3. file.cols = [c \in 1..(Len(columns) - 1) |-> columns[IF c < dropped THEN c ELSE c + 1]]
    BY DEF Without
  <1>4. \A c \in DOMAIN columns : columns[c].name = name => c = dropped
    BY <1>2
  <1> HIDE DEF dropped
  <1>5. ASSUME NEW n \in Columns(file) PROVE n \in Fields \ {name}
    <2>1. PICK c \in 1..(Len(columns) - 1) : n = columns[IF c < dropped THEN c ELSE c + 1].name
      BY <1>3, <1>5 DEF Columns
    <2>2. PICK d \in DOMAIN columns : n = columns[d].name /\ d # dropped
      BY <1>2, <2>1
    <2> QED
      BY <1>4, <1>1, <2>2
  <1>6. ASSUME NEW n \in Fields \ {name} PROVE n \in Columns(file)
    <2>1. PICK d \in DOMAIN columns : columns[d].name = n
      BY <1>1
    <2>2. d # dropped
      BY <1>2, <2>1
    <2>3. CASE d < dropped
      BY <1>2, <1>3, <2>1, <2>3 DEF Columns
    <2>4. CASE d > dropped
      <3>1. d - 1 \in 1..(Len(columns) - 1) /\ ~(d - 1 < dropped) /\ d - 1 + 1 = d
        BY <1>2, <2>4
      <3>2. file.cols[d - 1] = columns[d] /\ d - 1 \in DOMAIN file.cols
        BY <1>3, <3>1
      <3> QED
        BY <2>1, <3>2 DEF Columns
    <2> QED
      BY <1>2, <2>2, <2>3, <2>4
  <1> QED
    BY <1>5, <1>6

\* No fault but a dropped column changes the set of the names of the columns.
LEMMA NamesWritten ==
  ASSUME NEW i, ColumnsFit(i), NEW file, file.cols = Written(i.fault, i.columns)
  PROVE  /\ i.fault \notin {"drop_time", "drop_qty"} => Columns(file) = Fields
         /\ i.fault = "drop_time" => Columns(file) = Fields \ {"time"}
         /\ i.fault = "drop_qty" => Columns(file) = Fields \ {"qty"}
  <1> DEFINE columns == i.columns
  <1>1. /\ columns \in Seq([name : Fields, type : STRING]) /\ Len(columns) >= 2
        /\ DOMAIN columns = 1..Len(columns)
    BY ColumnsOfATable
  <1>2. {columns[c].name : c \in DOMAIN columns} = Fields
    BY ColumnsOfATable
  <1> HIDE DEF columns
  <1>3. CASE i.fault \in {"retype", "widen_string"}
    <2> DEFINE Retyped(from, to) == [c \in DOMAIN columns |->
                 IF columns[c].type = from THEN [columns[c] EXCEPT !.type = to] ELSE columns[c]]
    <2>1. file.cols = Retyped("int64", "int32") \/ file.cols = Retyped("string", "large_string")
      <3>1. /\ Written("retype", columns) = Retyped("int64", "int32")
            /\ Written("widen_string", columns) = Retyped("string", "large_string")
        BY Zenon, WrittenBy
      <3>2. \/ file.cols = Written("retype", columns)
            \/ file.cols = Written("widen_string", columns)
        BY <1>3 DEF columns
      <3> HIDE DEF Retyped
      <3> QED
        BY <3>1, <3>2
    <2>2. \A from, to : /\ DOMAIN Retyped(from, to) = DOMAIN columns
                       /\ \A c \in DOMAIN columns : Retyped(from, to)[c].name = columns[c].name
      <3> DEFINE Column == [name : Fields, type : STRING]
      <3>1. columns \in Seq(Column) /\ DOMAIN columns = 1..Len(columns)
        BY <1>1
      <3>2. \A to : \A x \in Column : [x EXCEPT !.type = to].name = x.name
        OBVIOUS
      <3> HIDE DEF Column
      <3>3. \A c \in DOMAIN columns : columns[c] \in Column
        BY <3>1
      <3> QED
        BY <3>2, <3>3
    <2> HIDE DEF Retyped
    <2> QED
      BY <1>2, <1>3, <2>1, <2>2 DEF Columns
  <1>4. CASE i.fault = "swap_columns"
    <2>1. file.cols = [columns EXCEPT ![1] = columns[2], ![2] = columns[1]]
      BY <1>4, WrittenBy, Zenon DEF columns
    <2>2. 1 \in DOMAIN columns /\ 2 \in DOMAIN columns
      BY <1>1
    <2>3. /\ DOMAIN file.cols = DOMAIN columns
          /\ file.cols[1] = columns[2] /\ file.cols[2] = columns[1]
          /\ \A c \in DOMAIN columns \ {1, 2} : file.cols[c] = columns[c]
      BY <2>1, <2>2
    <2> QED
      BY <1>2, <1>4, <2>2, <2>3 DEF Columns
  <1>5. \A c, d \in DOMAIN columns : columns[c].name = columns[d].name => c = d
    BY DEF ColumnsFit, columns
  <1>6. CASE i.fault \in {"drop_time", "drop_qty"}
    <2>1. /\ i.fault = "drop_time" => file.cols = Without(columns, "time")
          /\ i.fault = "drop_qty" => file.cols = Without(columns, "qty")
      BY WrittenWithout DEF columns
    <2>2. "time" \in Fields /\ "qty" \in Fields /\ Len(columns) \in Nat
      BY <1>1 DEF Fields
    <2>3. Named(columns) = Fields
      BY <1>2 DEF Named
    <2>4. \A n \in Fields : file.cols = Without(columns, n) => Columns(file) = Fields \ {n}
      BY <1>1, <1>5, <2>2, <2>3, NamesWithout
    <2> QED
      BY <1>6, <2>1, <2>2, <2>4, Zenon
  <1>7. CASE i.fault \notin {"retype", "widen_string", "swap_columns", "drop_time", "drop_qty"}
    <2>1. file.cols = columns
      BY <1>7, WrittenBy DEF columns
    <2> QED
      BY <1>2, <1>7, <2>1 DEF Columns
  <1> QED
    BY <1>3, <1>4, <1>6, <1>7

LEMMA PassingSchema ==
  ASSUME NEW file, NEW spec, spec.columns # <<>>, Len(file.cols) = Len(spec.columns),
         SameColumns(file, spec),
         \A c \in DOMAIN spec.columns : SameType(file, spec.columns[c], spec.tolerant)
  PROVE  SchemaExactness(file, spec) = Passed
  <1> DEFINE count == Len(file.cols) = Len(spec.columns)
             same == SameColumns(file, spec)
             Typed(column) == SameType(file, column, spec.tolerant)
             a == <<Comparison(count, "schema.column_count"),
                    Comparison(same, "schema.column_set_or_order")>>
             b == [c \in DOMAIN spec.columns |->
                     Comparison(Typed(spec.columns[c]), "schema.type_mismatch")]
  <1>1. SchemaExactness(file, spec) = FirstOf(<<Verdict(a), Verdict(b)>>)
    BY DEF SchemaExactness
  <1>2. count /\ same /\ \A c \in DOMAIN spec.columns : Typed(spec.columns[c])
    OBVIOUS
  <1> HIDE DEF count, same, Typed
  <1>3. (\A c \in DOMAIN a : a[c].ok) /\ (\A c \in DOMAIN b : b[c].ok)
    BY <1>2 DEF Comparison
  <1> HIDE DEF a, b
  <1>4. Verdict(a) = Passed /\ Verdict(b) = Passed
    BY <1>3, AllOkPasses
  <1> DEFINE v == <<Verdict(a), Verdict(b)>>
  <1>5. \A c \in DOMAIN v : v[c] = Passed
    BY <1>4
  <1> HIDE DEF v
  <1>6. FirstOf(v) = Passed
    BY <1>5, AllPassedPasses
  <1> QED
    BY <1>1, <1>6 DEF v

\* Where no two columns have a name in common, the type of a column is its own.
LEMMA TypeIsItsOwn ==
  ASSUME NEW file, NEW c \in DOMAIN file.cols,
         \A d \in DOMAIN file.cols : file.cols[d].name = file.cols[c].name => d = c
  PROVE  /\ TypeOf(file, file.cols[c].name) = file.cols[c].type
         /\ file.cols[c].name \in Columns(file)
  <1> DEFINE d == CHOOSE d \in DOMAIN file.cols : file.cols[d].name = file.cols[c].name
  <1>1. d = c
    OBVIOUS
  <1> QED
    BY <1>1 DEF TypeOf, Columns

\* The schema check fails for the faults of the columns and for no other.
LEMMA SchemaBlame ==
  ASSUME NEW i, ColumnsFit(i), i.fault # "drop_qty",
         NEW file, file.cols = Written(i.fault, i.columns)
  PROVE  SchemaExactness(file, i.spec).status = "FAIL"
           <=> i.fault \in {"retype", "swap_columns", "no_columns", "drop_time"}
  <1> DEFINE columns == i.columns
             faulty == {"retype", "swap_columns", "no_columns", "drop_time"}
  <1>1. /\ columns \in Seq([name : Fields, type : STRING]) /\ Len(columns) >= 2
        /\ DOMAIN columns = 1..Len(columns) /\ 1 \in DOMAIN columns /\ 2 \in DOMAIN columns
    <2>1. /\ columns \in Seq([name : Fields, type : STRING]) /\ Len(columns) >= 2
          /\ DOMAIN columns = 1..Len(columns)
      BY ColumnsOfATable
    <2>2. Len(columns) \in Nat
      BY <2>1
    <2> HIDE DEF columns
    <2> QED
      BY <2>1, <2>2
  <1>2. \A c, d \in DOMAIN columns : columns[c].name = columns[d].name => c = d
    BY DEF ColumnsFit
  <1>3. i.fault # "no_columns" => i.spec.columns = columns
    BY DEF ColumnsFit
  <1> HIDE DEF columns
  <1>4. ASSUME i.fault \in faulty, SchemaExactness(file, i.spec).status # "FAIL"
        PROVE  FALSE
    <2>1. i.fault # "no_columns"
      BY <1>4, Statuses DEF ColumnsFit, SchemaExactness
    <2>2. /\ SameColumns(file, i.spec)
          /\ \A c \in DOMAIN columns : SameType(file, columns[c], i.spec.tolerant)
      BY <1>1, <1>3, <1>4, <2>1, GreenSchema DEF ShowsColumns
    <2>3. DOMAIN file.cols = DOMAIN columns
          /\ \A c \in DOMAIN columns : file.cols[c].name = columns[c].name
      <3> DEFINE names == [c \in DOMAIN columns |-> columns[c].name]
                 written == [c \in DOMAIN file.cols |-> file.cols[c].name]
      <3>1. written = names
        BY <1>3, <2>1, <2>2 DEF SameColumns
      <3>2. DOMAIN written = DOMAIN file.cols /\ DOMAIN names = DOMAIN columns
        OBVIOUS
      <3>3. \A c \in DOMAIN columns : written[c] = names[c]
        BY <3>1
      <3> QED
        BY <3>1, <3>2, <3>3
    <2>4. CASE i.fault = "swap_columns"
      <3>1. file.cols = [columns EXCEPT ![1] = columns[2], ![2] = columns[1]]
        BY <2>4, WrittenBy, Zenon DEF columns
      <3>2. file.cols[1] = columns[2]
        BY <1>1, <3>1
      <3> QED
        BY <1>1, <1>2, <2>3, <3>2
    <2>5. CASE i.fault = "drop_time"
      <3> DEFINE dropped == CHOOSE c \in DOMAIN columns : columns[c].name = "time"
      <3>1. file.cols = [c \in 1..(Len(columns) - 1) |-> columns[IF c < dropped THEN c ELSE c + 1]]
        BY <2>5, WrittenWithout, Zenon DEF Without, columns
      <3> HIDE DEF dropped
      <3>2. Len(columns) \in DOMAIN columns /\ Len(columns) \notin DOMAIN file.cols
        BY <1>1, <3>1
      <3> QED
        BY <2>3, <3>2
    <2>6. CASE i.fault = "retype"
      <3>1. PICK c \in DOMAIN columns : columns[c].type = "int64"
        BY <2>6 DEF ColumnsFit, columns
      <3>2. file.cols = [d \in DOMAIN columns |-> IF columns[d].type = "int64"
                                                 THEN [columns[d] EXCEPT !.type = "int32"]
                                                 ELSE columns[d]]
        BY <2>6, WrittenBy, Zenon DEF columns
      <3>3. file.cols[c].type = "int32"
        <4>1. file.cols[c] = [columns[c] EXCEPT !.type = "int32"]
          BY <3>1, <3>2
        <4>2. "type" \in DOMAIN columns[c]
          <5> DEFINE Column == [name : Fields, type : STRING]
          <5>1. \A x \in Column : "type" \in DOMAIN x
            OBVIOUS
          <5>2. columns \in Seq(Column)
            BY <1>1
          <5> HIDE DEF Column
          <5> QED
            BY <1>1, <3>1, <5>1, <5>2
        <4> QED
          BY <4>1, <4>2
      <3>4. TypeOf(file, columns[c].name) = "int32"
        BY <1>2, <2>3, <3>1, <3>3, TypeIsItsOwn
      <3>5. SameType(file, columns[c], i.spec.tolerant)
        BY <2>2, <3>1
      <3> QED
        BY <3>1, <3>4, <3>5 DEF SameType, Normalized
    <2> QED
      BY <1>4, <2>1, <2>4, <2>5, <2>6
  <1>5. ASSUME i.fault \notin faulty
        PROVE  SchemaExactness(file, i.spec).status # "FAIL"
    <2> DEFINE widened == [c \in DOMAIN columns |->
                 IF columns[c].type = "string"
                 THEN [columns[c] EXCEPT !.type = "large_string"] ELSE columns[c]]
    <2>1. file.cols = columns \/ (i.fault = "widen_string" /\ file.cols = widened)
      BY <1>5, WrittenBy, Zenon DEF columns
    <2>2. /\ DOMAIN file.cols = DOMAIN columns /\ Len(file.cols) = Len(columns)
          /\ \A c \in DOMAIN columns : file.cols[c].name = columns[c].name
      <3>1. /\ DOMAIN widened = DOMAIN columns
            /\ \A c \in DOMAIN columns : widened[c].name = columns[c].name
        OBVIOUS
      <3>2. Len(widened) = Len(columns)
        BY <1>1, <3>1
      <3> HIDE DEF widened
      <3> QED
        BY <2>1, <3>1, <3>2
    <2>3. ASSUME NEW c \in DOMAIN columns
          PROVE  Normalized(file.cols[c].type, i.spec.tolerant)
                   = Normalized(columns[c].type, i.spec.tolerant)
      <3>1. CASE file.cols = columns
        BY <3>1
      <3>2. CASE i.fault = "widen_string" /\ file.cols = widened
        <4>1. i.spec.tolerant
          BY <3>2 DEF ColumnsFit
        <4>2. "type" \in DOMAIN columns[c]
          <5> DEFINE Column == [name : Fields, type : STRING]
          <5>1. \A x \in Column : "type" \in DOMAIN x
            OBVIOUS
          <5>2. columns \in Seq(Column)
            BY <1>1
          <5> HIDE DEF Column
          <5> QED
            BY <1>1, <5>1, <5>2
        <4>3. columns[c].type = "string" => file.cols[c].type = "large_string"
          BY <3>2, <4>2
        <4>4. columns[c].type # "string" => file.cols[c] = columns[c]
          BY <3>2
        <4> QED
          BY <4>1, <4>3, <4>4 DEF Normalized
      <3> QED
        BY <2>1, <3>1, <3>2
    <2> HIDE DEF widened
    <2>4. SameColumns(file, i.spec)
      BY <1>3, <1>5, <2>2 DEF SameColumns
    <2>5. ASSUME NEW c \in DOMAIN columns
          PROVE  SameType(file, columns[c], i.spec.tolerant)
      <3>1. /\ TypeOf(file, columns[c].name) = file.cols[c].type
            /\ columns[c].name \in Columns(file)
        BY <1>2, <2>2, <2>5, TypeIsItsOwn
      <3> QED
        BY <2>3, <3>1 DEF SameType
    <2>6. SchemaExactness(file, i.spec) = Passed
      BY <1>1, <1>3, <1>5, <2>2, <2>4, <2>5, PassingSchema
    <2> QED
      BY <2>6, Statuses
  <1> QED
    BY <1>4, <1>5

-----------------------------------------------------------------------------
(* Counting the rows that have a value.                                    *)

LEMMA RowIsARecord ==
  ASSUME NEW r \in TableRow
  PROVE  /\ DOMAIN r = Fields
         /\ \A f \in Fields : r[f] \in Nat \union {Null} /\ r[f] # NaN
  BY DEF TableRow, Fields, Null, NaN

Having(rows, name, value) == {j \in DOMAIN rows : rows[j][name] = value}

LEMMA CountIsFinite ==
  ASSUME NEW rows, NEW n \in Nat, DOMAIN rows = 1..n, NEW name, NEW value
  PROVE  /\ IsFiniteSet(Having(rows, name, value))
         /\ CountOf(rows, name, value) = Cardinality(Having(rows, name, value))
         /\ CountOf(rows, name, value) \in Nat
         /\ CountOf(rows, name, value) = 0 <=> \A j \in DOMAIN rows : rows[j][name] # value
  <1> DEFINE A == Having(rows, name, value)
  <1>1. IsFiniteSet(1..n) /\ A \in SUBSET (1..n)
    BY FS_Interval DEF Having
  <1>2. IsFiniteSet(A)
    BY <1>1, FS_Subset
  <1>3. Cardinality(A) \in Nat /\ (Cardinality(A) = 0 <=> A = {})
    BY <1>2, FS_CardinalityType, FS_EmptySet
  <1> QED
    BY <1>2, <1>3 DEF CountOf, Having

LEMMA CountAfterTheFirst ==
  ASSUME NEW rows, NEW n \in Nat, n > 0, DOMAIN rows = 1..n, NEW name, NEW value,
         NEW rest, DOMAIN rest = 1..(n - 1), \A j \in 1..(n - 1) : rest[j] = rows[j + 1]
  PROVE  CountOf(rest, name, value)
           = CountOf(rows, name, value) - IF rows[1][name] = value THEN 1 ELSE 0
  <1> DEFINE A == Having(rows, name, value)
             B == Having(rest, name, value)
             shift == [j \in B |-> j + 1]
  <1>1. /\ IsFiniteSet(A) /\ CountOf(rows, name, value) = Cardinality(A)
        /\ IsFiniteSet(B) /\ CountOf(rest, name, value) = Cardinality(B)
    <2>1. n - 1 \in Nat
      OBVIOUS
    <2> QED
      BY <2>1, CountIsFinite
  <1>2. shift \in Bijection(B, A \ {1})
    <2>1. shift \in [B -> A \ {1}]
      BY DEF Having
    <2>2. \A j, k \in B : shift[j] = shift[k] => j = k
      BY DEF Having
    <2>3. ASSUME NEW k \in A \ {1} PROVE \E j \in B : shift[j] = k
      <3>1. k - 1 \in B /\ k - 1 + 1 = k
        BY DEF Having
      <3> QED
        BY <3>1
    <2> HIDE DEF shift, A, B
    <2> QED
      BY <2>1, <2>2, <2>3, Fun_IsBij
  <1> HIDE DEF shift
  <1>3. Cardinality(A \ {1}) = Cardinality(B)
    BY <1>1, <1>2, FS_Bijection DEF ExistsBijection
  <1>4. Cardinality(A \ {1}) = IF 1 \in A THEN Cardinality(A) - 1 ELSE Cardinality(A)
    BY <1>1, FS_RemoveElement
  <1>5. Cardinality(A) \in Nat
    BY <1>1, FS_CardinalityType
  <1>6. 1 \in A <=> rows[1][name] = value
    BY DEF Having
  <1> HIDE DEF A, B
  <1> QED
    BY <1>1, <1>3, <1>4, <1>5, <1>6

LEMMA CountWithOneMore ==
  ASSUME NEW rows, NEW n \in Nat, DOMAIN rows = 1..n, NEW name, NEW value,
         NEW more, DOMAIN more = 1..(n + 1), \A j \in 1..n : more[j] = rows[j]
  PROVE  CountOf(more, name, value)
           = CountOf(rows, name, value) + IF more[n + 1][name] = value THEN 1 ELSE 0
  <1> DEFINE A == Having(rows, name, value)
             B == Having(more, name, value)
  <1>1. IsFiniteSet(A) /\ CountOf(rows, name, value) = Cardinality(A)
    BY CountIsFinite
  <1>2. B = IF more[n + 1][name] = value THEN A \union {n + 1} ELSE A
    BY DEF Having
  <1>3. n + 1 \notin A
    BY DEF Having
  <1>4. CountOf(more, name, value) = Cardinality(B)
    BY DEF CountOf, Having
  <1> HIDE DEF A, B
  <1>5. Cardinality(A \union {n + 1}) = Cardinality(A) + 1 /\ Cardinality(A) \in Nat
    BY <1>1, <1>3, FS_AddElement, FS_CardinalityType
  <1> QED
    BY <1>1, <1>2, <1>4, <1>5

-----------------------------------------------------------------------------
(* The rows that a fault publishes.                                        *)

Filled(rows, v) ==
    [j \in DOMAIN rows |-> IF rows[j].score = Null THEN [rows[j] EXCEPT !.score = v] ELSE rows[j]]

Shifted(rows) ==
    [j \in DOMAIN rows |-> IF rows[j].time = Null THEN rows[j] ELSE [rows[j] EXCEPT !.time = @ + 8]]

Reordering == {"fill_zero", "fill_nan", "shift_time", "drop_row", "repeat_row", "unstable_rows"}

LEMMA CarriedBy ==
  ASSUME NEW rows
  PROVE  /\ \A pulls : Carried("fill_zero", rows, pulls) = Filled(rows, 0)
         /\ \A pulls : Carried("fill_nan", rows, pulls) = Filled(rows, NaN)
         /\ \A pulls : Carried("shift_time", rows, pulls) = Shifted(rows)
         /\ \A pulls : Carried("drop_row", rows, pulls) = Tail(rows)
         /\ \A pulls : Carried("repeat_row", rows, pulls) = Append(rows, rows[1])
         /\ Carried("unstable_rows", rows, 1) = Append(Tail(rows), rows[1])
         /\ Carried("unstable_rows", rows, 0) = rows
         /\ \A f, pulls : f \notin Reordering => Carried(f, rows, pulls) = rows
  <1>1. 0 # 1
    OBVIOUS
  <1>2. Carried("unstable_rows", rows, 0) = rows
    BY <1>1, Zenon DEF Carried
  <1> QED
    BY <1>2, Zenon DEF Carried, Filled, Shifted, Reordering

LEMMA FieldsOfARow ==
  ASSUME NEW rows \in Seq(TableRow)
  PROVE  /\ Len(rows) \in Nat /\ DOMAIN rows = 1..Len(rows)
         /\ \A j \in DOMAIN rows : DOMAIN rows[j] = Fields
         /\ \A j \in DOMAIN rows : \A f \in Fields :
              rows[j][f] \in Nat \union {Null} /\ rows[j][f] # NaN
         /\ rows # <<>> => Len(rows) > 0 /\ 1 \in DOMAIN rows
  <1>1. /\ Len(rows) \in Nat /\ DOMAIN rows = 1..Len(rows)
        /\ \A j \in DOMAIN rows : rows[j] \in TableRow
    OBVIOUS
  <1>2. rows # <<>> => Len(rows) > 0 /\ 1 \in DOMAIN rows
    BY <1>1
  <1> QED
    BY <1>1, <1>2, RowIsARecord

\* Rows that differ in one column only.
SameBut(column, others, rows) ==
    /\ DOMAIN others = DOMAIN rows /\ Len(others) = Len(rows)
    /\ \A j \in DOMAIN rows : \A n \in Fields \ {column} : others[j][n] = rows[j][n]

TimesMoved(others, rows) ==
    \A j \in DOMAIN rows :
        others[j]["time"] = IF rows[j]["time"] = Null THEN Null ELSE rows[j]["time"] + 8

FirstLost(others, rows) ==
    /\ DOMAIN others = 1..(Len(rows) - 1) /\ Len(others) = Len(rows) - 1
    /\ \A j \in 1..(Len(rows) - 1) : others[j] = rows[j + 1]

FirstRepeated(others, rows) ==
    /\ DOMAIN others = 1..(Len(rows) + 1) /\ Len(others) = Len(rows) + 1
    /\ \A j \in 1..Len(rows) : others[j] = rows[j]
    /\ others[Len(rows) + 1] = rows[1]

\* Losing the first row counts one less if it has the value, repeating it one more.
LEMMA CountWithoutFirst ==
  ASSUME NEW rows, Len(rows) \in Nat, Len(rows) > 0, DOMAIN rows = 1..Len(rows),
         NEW others, FirstLost(others, rows), NEW name, NEW value
  PROVE  CountOf(others, name, value)
           = CountOf(rows, name, value) - IF rows[1][name] = value THEN 1 ELSE 0
  <1> DEFINE n == Len(rows)
  <1>1. /\ n \in Nat /\ n > 0 /\ DOMAIN rows = 1..n
        /\ DOMAIN others = 1..(n - 1) /\ \A j \in 1..(n - 1) : others[j] = rows[j + 1]
    BY DEF FirstLost
  <1> HIDE DEF n
  <1> QED
    BY <1>1, CountAfterTheFirst

LEMMA CountWithFirstTwice ==
  ASSUME NEW rows, Len(rows) \in Nat, Len(rows) > 0, DOMAIN rows = 1..Len(rows),
         NEW others, FirstRepeated(others, rows), NEW name, NEW value
  PROVE  CountOf(others, name, value)
           = CountOf(rows, name, value) + IF rows[1][name] = value THEN 1 ELSE 0
  <1> DEFINE n == Len(rows)
  <1>1. /\ n \in Nat /\ DOMAIN rows = 1..n /\ DOMAIN others = 1..(n + 1)
        /\ \A j \in 1..n : others[j] = rows[j]
    BY DEF FirstRepeated
  <1>2. others[n + 1] = rows[1]
    BY DEF FirstRepeated
  <1> HIDE DEF n
  <1>3. CountOf(others, name, value)
          = CountOf(rows, name, value) + IF others[n + 1][name] = value THEN 1 ELSE 0
    BY <1>1, CountWithOneMore
  <1> QED
    BY <1>2, <1>3

LEMMA FilledRows ==
  ASSUME NEW rows \in Seq(TableRow), NEW v, v # Null, NEW file, file.rows = Filled(rows, v)
  PROVE  /\ SameBut("score", file.rows, rows)
         /\ \A j \in DOMAIN rows : file.rows[j]["score"] # Null
  <1>1. "score" \in Fields
    BY DEF Fields
  <1>2. DOMAIN file.rows = DOMAIN rows
    BY DEF Filled
  <1>3. ASSUME NEW j \in DOMAIN rows
        PROVE  /\ \A n \in Fields \ {"score"} : file.rows[j][n] = rows[j][n]
               /\ file.rows[j]["score"] # Null
    BY <1>1, FieldsOfARow DEF Filled
  <1>4. Len(file.rows) = Len(rows)
    BY <1>2, FieldsOfARow
  <1> QED
    BY <1>2, <1>3, <1>4 DEF SameBut

LEMMA FillsCarry ==
  ASSUME NEW f, f \in {"fill_zero", "fill_nan"}, NEW rows, NEW pulls
  PROVE  \E v : v # Null /\ Carried(f, rows, pulls) = Filled(rows, v)
  <1>1. 0 # Null /\ NaN # Null
    BY DEF Null, NaN
  <1>2. CASE f = "fill_zero"
    <2>1. Carried(f, rows, pulls) = Filled(rows, 0)
      BY <1>2, CarriedBy, Zenon
    <2> QED
      BY <1>1, <2>1
  <1>3. CASE f = "fill_nan"
    <2>1. Carried(f, rows, pulls) = Filled(rows, NaN)
      BY <1>3, CarriedBy, Zenon
    <2> QED
      BY <1>1, <2>1
  <1> QED
    BY <1>2, <1>3

LEMMA ShiftedRows ==
  ASSUME NEW rows \in Seq(TableRow), NEW pulls,
         NEW file, file.rows = Carried("shift_time", rows, pulls)
  PROVE  /\ SameBut("time", file.rows, rows)
         /\ TimesMoved(file.rows, rows)
  <1>1. file.rows = Shifted(rows)
    BY CarriedBy
  <1>2. "time" \in Fields
    BY DEF Fields
  <1>3. DOMAIN file.rows = DOMAIN rows
    BY <1>1 DEF Shifted
  <1>4. ASSUME NEW j \in DOMAIN rows
        PROVE  /\ \A n \in Fields \ {"time"} : file.rows[j][n] = rows[j][n]
               /\ file.rows[j]["time"]
                    = IF rows[j]["time"] = Null THEN Null ELSE rows[j]["time"] + 8
    BY <1>1, <1>2, FieldsOfARow DEF Shifted
  <1>5. Len(file.rows) = Len(rows)
    BY <1>1, <1>3, FieldsOfARow
  <1> QED
    BY <1>1, <1>3, <1>4, <1>5 DEF SameBut, TimesMoved

LEMMA DroppedRow ==
  ASSUME NEW rows \in Seq(TableRow), rows # <<>>, NEW pulls,
         NEW file, file.rows = Carried("drop_row", rows, pulls)
  PROVE  file.rows = Tail(rows) /\ FirstLost(file.rows, rows)
  <1>1. file.rows = Tail(rows)
    BY CarriedBy, Zenon
  <1> DEFINE rest == Tail(rows)
  <1>2. /\ Len(rest) = Len(rows) - 1 /\ DOMAIN rest = 1..(Len(rows) - 1)
        /\ \A j \in 1..(Len(rows) - 1) : rest[j] = rows[j + 1]
    OBVIOUS
  <1> HIDE DEF rest
  <1>3. FirstLost(rest, rows)
    BY <1>2 DEF FirstLost
  <1> QED
    BY <1>1, <1>3 DEF rest

LEMMA RepeatedRow ==
  ASSUME NEW rows \in Seq(TableRow), rows # <<>>, NEW pulls,
         NEW file, file.rows = Carried("repeat_row", rows, pulls)
  PROVE  FirstRepeated(file.rows, rows)
  <1>1. file.rows = Append(rows, rows[1])
    BY CarriedBy, Zenon
  <1> QED
    BY <1>1, FieldsOfARow DEF FirstRepeated

LEMMA RotatedRows ==
  ASSUME NEW rows \in Seq(TableRow), rows # <<>>,
         NEW file, file.rows = Carried("unstable_rows", rows, 1)
  PROVE  /\ Len(file.rows) = Len(rows)
         /\ \A j \in 1..(Len(rows) - 1) : file.rows[j] = rows[j + 1]
  <1>1. file.rows = Append(Tail(rows), rows[1])
    BY CarriedBy, Zenon
  <1>2. Tail(rows) \in Seq(TableRow) /\ Len(Tail(rows)) = Len(rows) - 1
    BY FieldsOfARow
  <1>3. \A j \in 1..(Len(rows) - 1) : Tail(rows)[j] = rows[j + 1]
    BY FieldsOfARow
  <1>4. rows[1] \in TableRow
    BY FieldsOfARow
  <1> DEFINE rest == Tail(rows)
  <1> HIDE DEF rest
  <1>5. Len(rest) \in Nat /\ Len(file.rows) = Len(rest) + 1
        /\ \A j \in 1..Len(rest) : file.rows[j] = rest[j]
    BY <1>1, <1>2, <1>4 DEF rest
  <1> QED
    BY <1>2, <1>3, <1>5, FieldsOfARow DEF rest

\* The length of what is published depends on the fault only.
LEMMA RowsPublished ==
  ASSUME NEW rows \in Seq(TableRow), rows # <<>>, NEW f, NEW pulls \in {0, 1},
         NEW file, file.rows = Carried(f, rows, pulls)
  PROVE  /\ f = "drop_row" => Len(file.rows) = Len(rows) - 1
         /\ f = "repeat_row" => Len(file.rows) = Len(rows) + 1
         /\ f \notin {"drop_row", "repeat_row"} => Len(file.rows) = Len(rows)
  <1>1. CASE f \in {"fill_zero", "fill_nan"}
    <2>1. PICK v : v # Null /\ file.rows = Filled(rows, v)
      BY <1>1, FillsCarry
    <2>2. Len(file.rows) = Len(rows)
      BY <2>1, FilledRows DEF SameBut
    <2> QED
      BY <1>1, <2>2
  <1>2. CASE f = "shift_time"
    <2>1. file.rows = Carried("shift_time", rows, pulls)
      BY <1>2
    <2>2. SameBut("time", file.rows, rows)
      BY <2>1, ShiftedRows
    <2> QED
      BY <1>2, <2>2 DEF SameBut
  <1>3. CASE f = "drop_row"
    <2>1. file.rows = Carried("drop_row", rows, pulls)
      BY <1>3
    <2>2. FirstLost(file.rows, rows)
      BY <2>1, DroppedRow
    <2> QED
      BY <1>3, <2>2 DEF FirstLost
  <1>4. CASE f = "repeat_row"
    <2>1. file.rows = Carried("repeat_row", rows, pulls)
      BY <1>4
    <2>2. FirstRepeated(file.rows, rows)
      BY <2>1, RepeatedRow
    <2> QED
      BY <1>4, <2>2 DEF FirstRepeated
  <1>5. CASE f = "unstable_rows" /\ pulls = 1
    BY <1>5, RotatedRows
  <1>6. CASE f = "unstable_rows" /\ pulls = 0
    BY <1>6, CarriedBy
  <1>7. CASE f \notin Reordering
    <2>1. file.rows = rows
      BY <1>7, CarriedBy
    <2> QED
      BY <1>7, <2>1 DEF Reordering
  <1> QED
    BY <1>1, <1>2, <1>3, <1>4, <1>5, <1>6, <1>7 DEF Reordering

-----------------------------------------------------------------------------
(* The discriminator check.                                                *)

LoseNulls == {"fill_zero", "fill_nan", "silent_zero", "no_declaration", "stale_count"}

LEMMA SameCount ==
  ASSUME NEW rows, NEW others, DOMAIN rows = DOMAIN others, NEW n, NEW value,
         \A j \in DOMAIN rows : rows[j][n] = value <=> others[j][n] = value
  PROVE  CountOf(rows, n, value) = CountOf(others, n, value)
  <1>1. {j \in DOMAIN rows : rows[j][n] = value} = {j \in DOMAIN others : others[j][n] = value}
    OBVIOUS
  <1> QED
    BY <1>1 DEF CountOf

\* Only a fill changes how many nulls a column has, if the first row has none there.
LEMMA NullsKept ==
  ASSUME NEW rows \in Seq(TableRow), rows # <<>>, NEW f, f \notin {"fill_zero", "fill_nan"},
         NEW file, file.rows = Carried(f, rows, 0), NEW n \in Fields, NEW value \in {Null, NaN},
         f \in {"drop_row", "repeat_row"} => rows[1][n] # value
  PROVE  CountOf(file.rows, n, value) = CountOf(rows, n, value)
  <1>1. /\ Len(rows) \in Nat /\ Len(rows) > 0 /\ DOMAIN rows = 1..Len(rows)
        /\ \A j \in DOMAIN rows : rows[j][n] \in Nat \union {Null}
    BY FieldsOfARow
  <1>2. CASE f = "shift_time"
    <2>1. file.rows = Carried("shift_time", rows, 0)
      BY <1>2
    <2>2. SameBut("time", file.rows, rows) /\ TimesMoved(file.rows, rows)
      BY <2>1, ShiftedRows
    <2>3. ASSUME NEW j \in DOMAIN rows PROVE file.rows[j][n] = value <=> rows[j][n] = value
      <3>1. CASE n # "time"
        BY <2>2, <3>1 DEF SameBut
      <3>2. CASE n = "time"
        BY <1>1, <2>2, <3>2 DEF TimesMoved, Null, NaN
      <3> QED
        BY <3>1, <3>2
    <2> QED
      BY <2>2, <2>3, SameCount DEF SameBut
  <1>3. CASE f = "drop_row"
    <2>1. file.rows = Carried("drop_row", rows, 0)
      BY <1>3
    <2>2. FirstLost(file.rows, rows)
      BY <2>1, DroppedRow
    <2>3. CountOf(file.rows, n, value)
            = CountOf(rows, n, value) - IF rows[1][n] = value THEN 1 ELSE 0
      BY <1>1, <2>2, CountWithoutFirst
    <2>4. CountOf(rows, n, value) \in Nat
      BY <1>1, CountIsFinite
    <2> QED
      BY <1>3, <2>3, <2>4
  <1>4. CASE f = "repeat_row"
    <2>1. file.rows = Carried("repeat_row", rows, 0)
      BY <1>4
    <2>2. FirstRepeated(file.rows, rows)
      BY <2>1, RepeatedRow
    <2>3. CountOf(file.rows, n, value)
            = CountOf(rows, n, value) + IF rows[1][n] = value THEN 1 ELSE 0
      BY <1>1, <2>2, CountWithFirstTwice
    <2>4. CountOf(rows, n, value) \in Nat
      BY <1>1, CountIsFinite
    <2> QED
      BY <1>4, <2>3, <2>4
  <1>5. CASE f \notin {"shift_time", "drop_row", "repeat_row"}
    <2>1. file.rows = rows
      <3>1. CASE f = "unstable_rows"
        <4>1. Carried("unstable_rows", rows, 0) = rows
          BY CarriedBy
        <4> QED
          BY <3>1, <4>1
      <3>2. CASE f # "unstable_rows"
        <4>1. f \notin Reordering
          BY <1>5, <3>2 DEF Reordering
        <4>2. Carried(f, rows, 0) = rows
          BY <4>1, CarriedBy
        <4> QED
          BY <4>2
      <3> QED
        BY <3>1, <3>2
    <2> QED
      BY <2>1
  <1> QED
    BY <1>2, <1>3, <1>4, <1>5

\* The discriminator check fails for a fault that loses nulls or their declaration,
\* whatever the source has become.
LEMMA LostNullsAreFound ==
  ASSUME NEW i, ColumnsFit(i), NullsFit(i), DOMAIN i.spec.discriminators \subseteq Nat,
         i.fault \in LoseNulls,
         NEW rows \in Seq(TableRow), NEW pulls,
         NEW file, file.rows = Carried(i.fault, rows, pulls)
  PROVE  NullDiscriminator(file, i.truth, i.spec).status = "FAIL"
  <1> SUFFICES ASSUME NullDiscriminator(file, i.truth, i.spec).status # "FAIL" PROVE FALSE
    OBVIOUS
  <1> DEFINE entries == i.spec.discriminators
  <1>1. ShowsNulls(file, i.truth, i.spec)
    BY GreenDiscriminators
  <1>2. CASE i.fault = "no_declaration"
    BY <1>2, Statuses DEF NullsFit, NullDiscriminator
  <1>3. CASE i.fault = "silent_zero"
    <2>1. entries = <<>> /\ ~i.spec.absent_reason /\ i.spec.declares_discriminators
      BY <1>3 DEF NullsFit
    <2> QED
      BY <2>1, Statuses DEF NullDiscriminator
  <1>4. CASE i.fault = "stale_count"
    BY <1>1, <1>4 DEF NullsFit, ShowsNulls
  <1>5. CASE i.fault \in {"fill_zero", "fill_nan"}
    <2>1. PICK d \in DOMAIN entries : entries[d].column = "score"
      BY <1>5 DEF NullsFit
    <2>2. NullCount(file, "score") # 0
      BY <1>1, <2>1 DEF ShowsNulls
    <2>3. PICK v : v # Null /\ file.rows = Filled(rows, v)
      BY <1>5, FillsCarry
    <2>4. /\ DOMAIN file.rows = 1..Len(rows) /\ Len(rows) \in Nat
          /\ \A j \in DOMAIN file.rows : file.rows[j]["score"] # Null
      BY <2>3, FilledRows, FieldsOfARow DEF SameBut
    <2>5. CountOf(file.rows, "score", Null) = 0
      BY <2>4, CountIsFinite
    <2> QED
      BY <2>2, <2>5 DEF NullCount
  <1> QED
    BY <1>2, <1>3, <1>4, <1>5 DEF LoseNulls

LEMMA AllFour ==
  ASSUME NEW a, NEW b, NEW c, NEW d, a.ok, b.ok, c.ok, d.ok, NEW s, s = <<a, b, c, d>>
  PROVE  \A j \in DOMAIN s : s[j].ok
  OBVIOUS

LEMMA PassingDiscriminator ==
  ASSUME NEW file, NEW truth, NEW e, e.nulls # Absent,
         e.key # "" => e.key \in DOMAIN truth /\ truth[e.key] = e.nulls,
         e.column \in Columns(file), NullCount(file, e.column) = e.nulls, e.nulls # 0,
         NaNCount(file, e.column) = 0
  PROVE  Discriminates(file, truth, e) = Passed
  <1> DEFINE there == e.column \in Columns(file)
             nulls == IF there THEN NullCount(file, e.column) ELSE 0
             agrees == \/ e.key = ""
                       \/ e.key \in DOMAIN truth /\ truth[e.key] = e.nulls
             same == there /\ nulls = e.nulls
             told == nulls # 0
             clean == there => NaNCount(file, e.column) = 0
             s == <<Comparison(agrees, "rf002.spec_ground_truth_disagree"),
                    Comparison(same, "rf002.null_count_mismatch"),
                    Comparison(told, "rf002.not_discriminating"),
                    Comparison(clean, "rf002.nan_as_value")>>
  <1>1. Discriminates(file, truth, e) = Verdict(s)
    BY Zenon DEF Discriminates
  <1>2. agrees /\ same /\ told /\ clean
    OBVIOUS
  <1> HIDE DEF agrees, same, told, clean
  <1> DEFINE C(code) == Comparison(TRUE, code)
  <1>3. \A j \in DOMAIN s : s[j].ok
    <2>1. s = <<C("rf002.spec_ground_truth_disagree"), C("rf002.null_count_mismatch"),
                C("rf002.not_discriminating"), C("rf002.nan_as_value")>>
      BY <1>2 DEF agrees, same, told, clean
    <2>2. \A code : C(code).ok
      BY DEF Comparison
    <2> HIDE DEF s, C
    <2> QED
      BY <2>1, <2>2, AllFour
  <1> HIDE DEF s
  <1> QED
    BY <1>1, <1>3, AllOkPasses

\* It fails for no other fault of a run over the rows that were captured.
LEMMA NullsAreNotBlamed ==
  ASSUME NEW i, ColumnsFit(i), NullsFit(i), i.fault \notin LoseNulls, i.fault # "drop_qty",
         NEW file, file.cols = Written(i.fault, i.columns),
         file.rows = Carried(i.fault, Rows, 0)
  PROVE  NullDiscriminator(file, i.truth, i.spec).status # "FAIL"
  <1> DEFINE entries == i.spec.discriminators
  <1>1. i.spec.declares_discriminators
    BY DEF NullsFit, LoseNulls
  <1>2. CASE i.fault = "explained_zero"
    <2>1. entries = <<>> /\ i.spec.absent_reason
      BY <1>2 DEF NullsFit
    <2> QED
      BY <1>1, <2>1, Statuses DEF NullDiscriminator
  <1>3. CASE i.fault # "explained_zero"
    <2>1. entries # <<>>
      BY <1>3 DEF NullsFit, LoseNulls
    <2>2. ASSUME NEW d \in DOMAIN entries
          PROVE  Discriminates(file, i.truth, entries[d]) = Passed
      <3> DEFINE e == entries[d]
      <3>1. /\ e.key # "" => e.key \in DOMAIN i.truth /\ i.truth[e.key] = e.nulls
            /\ e.column \in Fields /\ e.nulls = CountOf(Rows, e.column, Null) /\ e.nulls # 0
            /\ i.fault = "drop_time" => e.column # "time"
            /\ i.fault \in {"drop_row", "repeat_row"} => Rows[1][e.column] # Null
        BY DEF NullsFit, LoseNulls
      <3> HIDE DEF e
      <3>2. /\ Rows \in Seq(TableRow) /\ Rows # <<>> /\ Len(Rows) \in Nat
            /\ DOMAIN Rows = 1..Len(Rows) /\ 1 \in DOMAIN Rows
            /\ \A j \in DOMAIN Rows : Rows[j][e.column] # NaN
        BY <3>1, RowsAssumption, FieldsOfARow
      <3>3. e.column \in Columns(file)
        BY <3>1, NamesWritten
      <3> DEFINE f == i.fault
      <3>4. f \notin {"fill_zero", "fill_nan"} /\ file.rows = Carried(f, Rows, 0)
        BY DEF LoseNulls
      <3>5. f \in {"drop_row", "repeat_row"}
              => Rows[1][e.column] # Null /\ Rows[1][e.column] # NaN
        BY <3>1, <3>2
      <3> HIDE DEF f
      <3>6. ASSUME NEW value \in {Null, NaN}
            PROVE  CountOf(file.rows, e.column, value) = CountOf(Rows, e.column, value)
        <4> DEFINE n == e.column
        <4>1. n \in Fields /\ (f \in {"drop_row", "repeat_row"} => Rows[1][n] # value)
          BY <3>1, <3>6, <3>5
        <4> HIDE DEF n
        <4>2. CountOf(file.rows, n, value) = CountOf(Rows, n, value)
          BY <4>1, <3>2, <3>4, NullsKept
        <4> QED
          BY <4>2 DEF n
      <3>7. /\ CountOf(file.rows, e.column, Null) = CountOf(Rows, e.column, Null)
            /\ CountOf(file.rows, e.column, NaN) = CountOf(Rows, e.column, NaN)
        BY <3>6
      <3>8. CountOf(Rows, e.column, NaN) = 0 /\ CountOf(Rows, e.column, Null) \in Nat
        BY <3>2, CountIsFinite
      <3>9. e.nulls # Absent
        <4>1. e.nulls \in Nat
          BY <3>1, <3>8
        <4> QED
          BY <4>1 DEF Absent
      <3>10. NullCount(file, e.column) = e.nulls /\ NaNCount(file, e.column) = 0
        BY <3>1, <3>7, <3>8 DEF NullCount, NaNCount
      <3>11. Discriminates(file, i.truth, e) = Passed
        BY <3>1, <3>3, <3>9, <3>10, PassingDiscriminator
      <3> QED
        BY <3>11 DEF e
    <2> DEFINE v == [d \in DOMAIN entries |-> Discriminates(file, i.truth, entries[d])]
    <2>3. NullDiscriminator(file, i.truth, i.spec) = FirstOf(v)
      BY <1>1, <2>1 DEF NullDiscriminator
    <2>4. \A d \in DOMAIN v : v[d] = Passed
      BY <2>2
    <2> HIDE DEF v
    <2> QED
      BY <2>3, <2>4, AllPassedPasses, Statuses
  <1> QED
    BY <1>2, <1>3

-----------------------------------------------------------------------------
(* The aggregate check.                                                    *)

LEMMA AggregateBy ==
  ASSUME NEW file, NEW e
  PROVE  /\ e.op = "row_count" => Aggregate(file, e) = Len(file.rows)
         /\ e.op = "count_equals" => Aggregate(file, e) = CountOf(file.rows, e.column, e.value)
         /\ e.op = "null_count" => Aggregate(file, e) = CountOf(file.rows, e.column, Null)
  BY Zenon DEF Aggregate, NullCount

\* An aggregate reads one column, the number of rows and, for a float sum, the rounding.
LEMMA SameAggregate ==
  ASSUME NEW file, NEW other, NEW e,
         DOMAIN file.rows = DOMAIN other.rows, Len(file.rows) = Len(other.rows),
         file.rows # <<>>, other.rows # <<>>,
         e.op = "scaled_sum_float" => file.roundoff = other.roundoff,
         e.op # "row_count" =>
           \A j \in DOMAIN file.rows : file.rows[j][e.column] = other.rows[j][e.column]
  PROVE  Aggregate(file, e) = Aggregate(other, e)
  <1> DEFINE a == file.rows
             b == other.rows
             n == e.column
  <1>1. CASE e.op = "row_count"
    BY <1>1, AggregateBy
  <1>2. CASE e.op # "row_count"
    <2>1. DOMAIN a = DOMAIN b /\ \A j \in DOMAIN a : a[j][n] = b[j][n]
      BY <1>2
    <2> HIDE DEF a, b, n
    <2>2. \A value : CountOf(a, n, value) = CountOf(b, n, value)
      BY <2>1, SameCount
    <2>3. {a[j][n] : j \in DOMAIN a} = {b[j][n] : j \in DOMAIN b}
      BY <2>1
    <2>4. Counted(a, n) = Counted(b, n)
      BY <2>1 DEF Counted
    <2>5. \A j \in Counted(a, n) : a[j][n] = b[j][n]
      BY <2>1 DEF Counted
    <2>6. SumOf(a, n) = SumOf(b, n)
      <3>1. [j \in Counted(a, n) |-> a[j][n]] = [j \in Counted(b, n) |-> b[j][n]]
        BY <2>4, <2>5
      <3> QED
        BY <3>1 DEF SumOf
    <2>7. ValuesIn(a, n) = ValuesIn(b, n)
      BY <2>4, <2>5 DEF ValuesIn
    <2>8. CASE e.op = "scaled_sum_float"
      <3>1. /\ Aggregate(file, e) = SumOf(file.rows, e.column) + file.roundoff
            /\ Aggregate(other, e) = SumOf(other.rows, e.column) + other.roundoff
        BY <2>8, Zenon DEF Aggregate
      <3>2. file.roundoff = other.roundoff
        BY <2>8
      <3> QED
        BY <2>6, <3>1, <3>2 DEF a, b, n
    <2>9. CASE e.op # "scaled_sum_float"
      <3> DEFINE V(l, distinct, equal, nulls, pct, greatest, sum, float) ==
            CASE e.op = "row_count"    -> l
              [] e.op = "nunique"      -> distinct
              [] e.op = "count_equals" -> equal
              [] e.op = "null_count"   -> nulls
              [] e.op = "null_pct"     -> pct
              [] e.op = "max_int"      -> greatest
              [] e.op \in {"sum_int", "scaled_sum_exact_int"} -> sum
              [] e.op = "scaled_sum_float" -> float
            D(f) == Cardinality({f.rows[j][e.column] : j \in DOMAIN f.rows} \ {Null})
            E(f) == CountOf(f.rows, e.column, e.value)
            N(f) == CountOf(f.rows, e.column, Null)
            P(f) == IF f.rows = <<>> THEN 0 ELSE (100 * N(f)) \div Len(f.rows)
            G(f) == Greatest(ValuesIn(f.rows, e.column))
            S(f) == SumOf(f.rows, e.column)
            F(f) == S(f) + f.roundoff
      <3>1. \A f : Aggregate(f, e) = V(Len(f.rows), D(f), E(f), N(f), P(f), G(f), S(f), F(f))
        BY Zenon DEF Aggregate, NullCount
      <3>2. \A l, d, q, u, p, g, s, x, y :
               V(l, d, q, u, p, g, s, x) = V(l, d, q, u, p, g, s, y)
        BY <2>9
      <3>3. /\ D(file) = D(other) /\ E(file) = E(other) /\ N(file) = N(other)
            /\ G(file) = G(other) /\ S(file) = S(other)
        BY <2>2, <2>3, <2>6, <2>7 DEF a, b, n
      <3>4. P(file) = P(other)
        BY <3>3
      <3> HIDE DEF V, D, E, N, P, G, S, F
      <3> QED
        BY <3>1, <3>3, <3>4, <3>2
    <2> QED
      BY <2>8, <2>9
  <1> QED
    BY <1>1, <1>2

\* Where no two entries have a key in common, the aggregate of a key is that of its entry.
LEMMA AggregateOfItsKey ==
  ASSUME NEW file, NEW spec, NEW a \in DOMAIN spec.aggregates,
         \A b \in DOMAIN spec.aggregates :
           spec.aggregates[a].key = spec.aggregates[b].key => a = b
  PROVE  /\ spec.aggregates[a].key \in DOMAIN Aggregates(file, spec)
         /\ Aggregates(file, spec)[spec.aggregates[a].key] = Aggregate(file, spec.aggregates[a])
  <1> DEFINE entries == spec.aggregates
             key == entries[a].key
             chosen == CHOOSE b \in DOMAIN entries : entries[b].key = key
  <1>1. chosen = a
    OBVIOUS
  <1>2. Aggregates(file, spec) = [k \in {entries[b].key : b \in DOMAIN entries} |->
          Aggregate(file, entries[CHOOSE b \in DOMAIN entries : entries[b].key = k])]
    BY DEF Aggregates
  <1>3. key \in {entries[b].key : b \in DOMAIN entries}
    OBVIOUS
  <1> QED
    BY <1>1, <1>2, <1>3

\* What a source can have become: rows are added to those that were captured, and a
\* quantity changes.
IsSource(rows) ==
    /\ rows \in Seq(TableRow)
    /\ Len(Rows) <= Len(rows)
    /\ \A r \in DOMAIN Rows : \A f \in Fields \ {"qty"} : rows[r][f] = Rows[r][f]
    /\ \A r \in DOMAIN rows \ DOMAIN Rows : rows[r] = NewRow

LEMMA SourceShape ==
  ASSUME NEW rows, IsSource(rows)
  PROVE  /\ rows \in Seq(TableRow) /\ rows # <<>>
         /\ Len(rows) \in Nat /\ Len(rows) > 0 /\ DOMAIN rows = 1..Len(rows)
         /\ Rows \in Seq(TableRow) /\ Rows # <<>>
         /\ Len(Rows) \in Nat /\ Len(Rows) > 0 /\ DOMAIN Rows = 1..Len(Rows)
         /\ DOMAIN Rows \subseteq DOMAIN rows /\ 1 \in DOMAIN Rows /\ 1 \in DOMAIN rows
  BY RowsAssumption, FieldsOfARow DEF IsSource

LEMMA CountInASource ==
  ASSUME NEW rows, IsSource(rows), NEW n \in Fields \ {"qty"}, NEW value, value # NewRow[n]
  PROVE  CountOf(rows, n, value) = CountOf(Rows, n, value)
  <1>1. /\ DOMAIN Rows \subseteq DOMAIN rows
        /\ \A r \in DOMAIN Rows : rows[r][n] = Rows[r][n]
        /\ \A r \in DOMAIN rows \ DOMAIN Rows : rows[r][n] = NewRow[n]
    BY SourceShape DEF IsSource
  <1>2. {r \in DOMAIN rows : rows[r][n] = value} = {r \in DOMAIN Rows : Rows[r][n] = value}
    BY <1>1
  <1> QED
    BY <1>2 DEF CountOf

LoseRows == {"drop_row", "repeat_row", "no_aggregates", "no_truth", "fill_zero", "fill_nan"}

LEMMA CarriedAsItIs ==
  ASSUME NEW f, f \notin Reordering, NEW rows, NEW pulls
  PROVE  Carried(f, rows, pulls) = rows
  BY Zenon DEF Carried, Reordering

LEMMA EntryOfItsKey ==
  ASSUME NEW i, AggregatesFit(i), NEW file, NEW a \in DOMAIN i.spec.aggregates
  PROVE  LET e == i.spec.aggregates[a]
         IN /\ e.key \in DOMAIN Aggregates(file, i.spec)
            /\ Aggregates(file, i.spec)[e.key] = Aggregate(file, e)
  <1> DEFINE spec == i.spec
  <1>1. \A b \in DOMAIN spec.aggregates : spec.aggregates[a].key = spec.aggregates[b].key => a = b
    BY DEF AggregatesFit
  <1>2. a \in DOMAIN spec.aggregates
    OBVIOUS
  <1> HIDE DEF spec
  <1>3. /\ spec.aggregates[a].key \in DOMAIN Aggregates(file, spec)
        /\ Aggregates(file, spec)[spec.aggregates[a].key] = Aggregate(file, spec.aggregates[a])
    BY <1>1, <1>2, AggregateOfItsKey
  <1> QED
    BY <1>3 DEF spec

\* What is close, is equal without a tolerance, and near within one.
LEMMA CloseToItself ==
  ASSUME NEW a \in Int, NEW tolerance \in Nat
  PROVE  IsClose(a, a, tolerance)
  BY DEF IsClose, Size

LEMMA ZeroIsFar ==
  ASSUME NEW b \in Int, NEW tolerance \in Nat, b > tolerance
  PROVE  ~IsClose(0, b, tolerance)
  <1>1. b \div 1000000000 < b /\ 0 \div 1000000000 = 0
    OBVIOUS
  <1> QED
    BY <1>1 DEF IsClose, Size

\* What an entry that gates says, when the check does not fail.
LEMMA GatingEntry ==
  ASSUME NEW i, AggregatesFit(i), DOMAIN i.spec.aggregates \subseteq Nat, NEW file,
         AggregateParity(Aggregates(file, i.spec), i.truth, i.spec).status # "FAIL",
         NEW a \in DOMAIN i.spec.aggregates, ~i.spec.aggregates[a].corroborating
  PROVE  LET e == i.spec.aggregates[a]
         IN /\ e.tolerance \in Nat /\ i.truth[e.key] \in Int
            /\ IsClose(Aggregate(file, e), i.truth[e.key], e.tolerance)
  <1> DEFINE e == i.spec.aggregates[a]
  <1>1. ShowsAggregates(Aggregates(file, i.spec), i.truth, i.spec)
    BY GreenAggregates
  <1>2. e.key \in DOMAIN i.truth
        /\ IsClose(Aggregates(file, i.spec)[e.key], i.truth[e.key], e.tolerance)
    BY <1>1 DEF ShowsAggregates
  <1>3. Aggregates(file, i.spec)[e.key] = Aggregate(file, e)
    BY EntryOfItsKey
  <1>4. e.tolerance \in Nat /\ i.truth[e.key] \in Int
    BY <1>2 DEF AggregatesFit
  <1> QED
    BY <1>2, <1>3, <1>4

\* The aggregate check fails for rows or nulls that are lost and for files that are not
\* committed, whatever the source has become.
LEMMA LostRowsAreFound ==
  ASSUME NEW i, AggregatesFit(i), DOMAIN i.spec.aggregates \subseteq Nat,
         i.fault \in LoseRows,
         NEW rows, IsSource(rows), NEW pulls,
         NEW file, file.rows = Carried(i.fault, rows, pulls)
  PROVE  AggregateParity(Aggregates(file, i.spec), i.truth, i.spec).status = "FAIL"
  <1> DEFINE entries == i.spec.aggregates
             parity == AggregateParity(Aggregates(file, i.spec), i.truth, i.spec)
             faithful == Published("none", Rows, i.columns, 0)
  <1> SUFFICES ASSUME parity.status # "FAIL" PROVE FALSE
    OBVIOUS
  <1>1. /\ rows \in Seq(TableRow) /\ rows # <<>> /\ Len(rows) \in Nat /\ Len(rows) > 0
        /\ DOMAIN rows = 1..Len(rows) /\ 1 \in DOMAIN Rows
    BY SourceShape
  <1>2. CASE i.fault = "no_aggregates"
    BY <1>2, Statuses DEF AggregatesFit, AggregateParity
  <1>3. CASE i.fault = "no_truth"
    <2>1. PICK a \in DOMAIN entries : entries[a].key \notin DOMAIN i.truth
      BY <1>3 DEF AggregatesFit
    <2>2. ShowsAggregates(Aggregates(file, i.spec), i.truth, i.spec)
      BY GreenAggregates
    <2> QED
      BY <2>1, <2>2 DEF ShowsAggregates
  <1>4. CASE i.fault \in {"fill_zero", "fill_nan"}
    <2>1. PICK a \in DOMAIN entries :
            /\ ~entries[a].corroborating /\ entries[a].op = "null_count"
            /\ entries[a].column = "score" /\ i.truth[entries[a].key] > entries[a].tolerance
      BY <1>4 DEF AggregatesFit
    <2> DEFINE e == entries[a]
    <2>2. /\ e.tolerance \in Nat /\ i.truth[e.key] \in Int
          /\ IsClose(Aggregate(file, e), i.truth[e.key], e.tolerance)
      BY <2>1, GatingEntry
    <2>3. PICK v : v # Null /\ file.rows = Filled(rows, v)
      BY <1>4, FillsCarry
    <2>4. /\ DOMAIN file.rows = 1..Len(rows)
          /\ \A j \in DOMAIN file.rows : file.rows[j]["score"] # Null
      BY <1>1, <2>3, FilledRows DEF SameBut
    <2>5. CountOf(file.rows, "score", Null) = 0
      BY <1>1, <2>4, CountIsFinite
    <2>6. Aggregate(file, e) = CountOf(file.rows, "score", Null)
      BY <2>1, AggregateBy
    <2>7. i.truth[e.key] > e.tolerance
      BY <2>1
    <2> HIDE DEF e
    <2> QED
      BY <2>2, <2>5, <2>6, <2>7, ZeroIsFar
  <1>5. CASE i.fault \in {"drop_row", "repeat_row"}
    <2>1. PICK a \in DOMAIN entries :
            /\ ~entries[a].corroborating /\ entries[a].op = "count_equals"
            /\ entries[a].key \in DOMAIN i.truth
            /\ entries[a].tolerance = 0 /\ entries[a].column # "qty"
            /\ entries[a].value = Rows[1][entries[a].column]
            /\ entries[a].value # NewRow[entries[a].column]
      BY <1>5 DEF AggregatesFit
    <2> DEFINE e == entries[a]
               n == e.column
               value == e.value
    <2>2. /\ e.tolerance \in Nat /\ i.truth[e.key] \in Int
          /\ IsClose(Aggregate(file, e), i.truth[e.key], e.tolerance)
      BY <2>1, GatingEntry
    <2>3. n \in Fields \ {"qty"}
      BY <2>1 DEF AggregatesFit
    <2>4. i.truth[e.key] = Aggregate(faithful, e)
      BY <2>1 DEF AggregatesFit
    <2>5. faithful.rows = Rows
      <3>1. Carried("none", Rows, 0) = Rows
        BY CarriedAsItIs DEF Reordering
      <3> QED
        BY <3>1 DEF Published
    <2>6. Aggregate(faithful, e) = CountOf(Rows, n, value)
      BY <2>1, <2>5, AggregateBy
    <2>7. Aggregate(file, e) = CountOf(file.rows, n, value)
      BY <2>1, AggregateBy
    <2>8. /\ e.tolerance = 0 /\ value = Rows[1][n] /\ value # NewRow[n]
      BY <2>1
    <2> HIDE DEF e, n, value, faithful
    <2>9. CountOf(rows, n, value) = CountOf(Rows, n, value) /\ rows[1][n] = value
      <3>1. CountOf(rows, n, value) = CountOf(Rows, n, value)
        BY <2>3, <2>8, CountInASource
      <3>2. rows[1][n] = Rows[1][n]
        BY <1>1, <2>3 DEF IsSource
      <3> QED
        BY <2>8, <3>1, <3>2
    <2>10. CountOf(rows, n, value) \in Nat
      BY <1>1, CountIsFinite
    <2>11. Aggregate(file, e) = i.truth[e.key]
      BY <2>2, <2>8 DEF IsClose
    <2>12. CASE i.fault = "drop_row"
      <3>1. file.rows = Carried("drop_row", rows, pulls)
        BY <2>12
      <3>2. FirstLost(file.rows, rows)
        BY <1>1, <3>1, DroppedRow
      <3>3. CountOf(file.rows, n, value)
              = CountOf(rows, n, value) - IF rows[1][n] = value THEN 1 ELSE 0
        BY <1>1, <3>2, CountWithoutFirst
      <3> QED
        BY <2>11, <2>4, <2>6, <2>7, <2>8, <2>9, <2>10, <3>3
    <2>13. CASE i.fault = "repeat_row"
      <3>1. file.rows = Carried("repeat_row", rows, pulls)
        BY <2>13
      <3>2. FirstRepeated(file.rows, rows)
        BY <1>1, <3>1, RepeatedRow
      <3>3. CountOf(file.rows, n, value)
              = CountOf(rows, n, value) + IF rows[1][n] = value THEN 1 ELSE 0
        BY <1>1, <3>2, CountWithFirstTwice
      <3> QED
        BY <2>11, <2>4, <2>6, <2>7, <2>8, <2>9, <2>10, <3>3
    <2> QED
      BY <1>5, <2>12, <2>13
  <1> QED
    BY <1>2, <1>3, <1>4, <1>5 DEF LoseRows

\* A fault that moves neither rows nor nulls leaves the columns of the captured rows.
LEMMA FieldsKept ==
  ASSUME NEW f, f \notin {"drop_row", "repeat_row", "fill_zero", "fill_nan"},
         NEW rows \in Seq(TableRow), NEW file, file.rows = Carried(f, rows, 0)
  PROVE  /\ SameBut("time", file.rows, rows)
         /\ f # "shift_time" => file.rows = rows
  <1>1. CASE f = "shift_time"
    <2>1. file.rows = Carried("shift_time", rows, 0)
      BY <1>1
    <2>2. SameBut("time", file.rows, rows)
      BY <2>1, ShiftedRows
    <2> QED
      BY <1>1, <2>2
  <1>2. CASE f = "unstable_rows"
    <2>1. Carried("unstable_rows", rows, 0) = rows
      BY CarriedBy
    <2> QED
      BY <1>2, <2>1 DEF SameBut
  <1>3. CASE f \notin {"shift_time", "unstable_rows"}
    <2>1. f \notin Reordering
      BY <1>3 DEF Reordering
    <2>2. Carried(f, rows, 0) = rows
      BY <2>1, CarriedAsItIs
    <2> QED
      BY <1>3, <2>2 DEF SameBut
  <1> QED
    BY <1>1, <1>2, <1>3

\* It fails for no other fault of a run over the rows that were captured.
LEMMA AggregatesAreNotBlamed ==
  ASSUME NEW i, AggregatesFit(i), i.fault \notin LoseRows, i.fault # "drop_qty",
         NEW file, file = Published(i.fault, Rows, i.columns, 0)
  PROVE  AggregateParity(Aggregates(file, i.spec), i.truth, i.spec).status # "FAIL"
  <1> DEFINE entries == i.spec.aggregates
             computed == Aggregates(file, i.spec)
             faithful == Published("none", Rows, i.columns, 0)
             s == [a \in DOMAIN entries |->
                     Gating(AggregateComparison(computed, i.truth, entries[a]))]
  <1>1. AggregateParity(computed, i.truth, i.spec) = Verdict(s)
    BY DEF AggregateParity, AggregatesFit, LoseRows
  <1>2. faithful.rows = Rows /\ faithful.roundoff = 0
    <2>1. Carried("none", Rows, 0) = Rows
      BY CarriedAsItIs DEF Reordering
    <2> QED
      BY <2>1 DEF Published
  <1>3. file.rows = Carried(i.fault, Rows, 0) /\ (i.fault # "roundoff" => file.roundoff = 0)
    BY DEF Published
  <1> HIDE DEF computed, faithful
  <1>4. /\ DOMAIN file.rows = DOMAIN Rows /\ Len(file.rows) = Len(Rows)
        /\ \A j \in DOMAIN Rows : \A n \in Fields \ {"time"} : file.rows[j][n] = Rows[j][n]
        /\ file.rows # <<>> /\ Rows # <<>>
    <2> DEFINE f == i.fault
    <2>1. f \notin {"drop_row", "repeat_row", "fill_zero", "fill_nan"}
          /\ file.rows = Carried(f, Rows, 0)
      BY <1>3 DEF LoseRows
    <2> HIDE DEF f
    <2>2. SameBut("time", file.rows, Rows)
      BY <2>1, RowsAssumption, FieldsKept
    <2>3. Rows # <<>> /\ 1 \in DOMAIN Rows
      BY RowsAssumption, FieldsOfARow
    <2> QED
      BY <2>2, <2>3 DEF SameBut
  <1>5. ASSUME NEW a \in DOMAIN entries
        PROVE  Gating(AggregateComparison(computed, i.truth, entries[a])).ok
    <2> DEFINE e == entries[a]
    <2>1. /\ e.key \in DOMAIN i.truth /\ e.tolerance \in Nat
          /\ e.op = "row_count" \/ e.column \in Fields \ {"time"}
          /\ i.truth[e.key] \in Int
          /\ i.truth[e.key] = Aggregate(faithful, e)
          /\ i.fault = "roundoff" /\ e.op = "scaled_sum_float" => e.corroborating
      BY DEF AggregatesFit, LoseRows, faithful
    <2>2. e.key \in DOMAIN computed /\ computed[e.key] = Aggregate(file, e)
      BY EntryOfItsKey DEF computed
    <2> HIDE DEF e
    <2>3. CASE e.corroborating
      BY <2>1, <2>2, <2>3 DEF Gating, Gates, AggregateComparison, Comparison, e
    <2>4. CASE ~e.corroborating
      <3>1. e.op # "row_count" =>
              \A j \in DOMAIN file.rows : file.rows[j][e.column] = faithful.rows[j][e.column]
        BY <1>2, <1>4, <2>1
      <3>2. e.op = "scaled_sum_float" => file.roundoff = faithful.roundoff
        BY <1>2, <1>3, <2>1, <2>4
      <3>3. Aggregate(file, e) = Aggregate(faithful, e)
        BY <1>2, <1>4, <3>1, <3>2, SameAggregate
      <3>4. IsClose(computed[e.key], i.truth[e.key], e.tolerance)
        BY <2>1, <2>2, <3>3, CloseToItself
      <3> QED
        BY <2>1, <2>2, <3>4 DEF Gating, Gates, AggregateComparison, Comparison, e
    <2> QED
      BY <2>3, <2>4
  <1>6. \A a \in DOMAIN s : s[a].ok
    BY <1>5
  <1> HIDE DEF s
  <1> QED
    BY <1>1, <1>6, AllOkPasses, Statuses DEF computed

-----------------------------------------------------------------------------
(* The boundary check.                                                     *)

LEMMA SameBounds ==
  ASSUME NEW a, NEW b, NEW n, ValuesIn(a, n) = ValuesIn(b, n)
  PROVE  Bounds(a, n) = Bounds(b, n)
  BY DEF Bounds

LEMMA ValuesOfAColumn ==
  ASSUME NEW rows, NEW n
  PROVE  ValuesIn(rows, n)
           = {rows[j][n] : j \in DOMAIN rows} \ {Null, NaN}
  BY DEF ValuesIn, Counted

LEMMA ValuesAreNaturals ==
  ASSUME NEW rows \in Seq(TableRow), NEW n \in Fields
  PROVE  ValuesIn(rows, n) \subseteq Nat
  <1>1. \A j \in DOMAIN rows : rows[j][n] \in Nat \union {Null}
    BY FieldsOfARow
  <1> QED
    BY <1>1, ValuesOfAColumn

\* A uniform shift of the times is found, as the source only ever gains rows.
LEMMA ShiftedTimesDiffer ==
  ASSUME NEW rows, IsSource(rows), NEW later, IsSource(later), Len(rows) <= Len(later),
         \E r \in DOMAIN Rows : Rows[r].time # Null,
         NEW pulls, NEW file, file.rows = Carried("shift_time", rows, pulls)
  PROVE  Bounds(file.rows, "time") # Bounds(later, "time")
  <1> DEFINE n == "time"
             V == ValuesIn(rows, n)
             W == ValuesIn(later, n)
             M == ValuesIn(file.rows, n)
  <1>1. n \in Fields \ {"qty"}
    BY DEF Fields
  <1>2. /\ rows \in Seq(TableRow) /\ later \in Seq(TableRow)
        /\ DOMAIN rows = 1..Len(rows) /\ DOMAIN later = 1..Len(later)
        /\ DOMAIN Rows \subseteq DOMAIN rows /\ DOMAIN Rows \subseteq DOMAIN later
        /\ Len(rows) \in Nat /\ Len(later) \in Nat
    BY SourceShape
  <1>3. V \subseteq Nat /\ W \subseteq Nat
    BY <1>1, <1>2, ValuesAreNaturals
  <1>4. \A j \in DOMAIN rows : j \in DOMAIN later /\ rows[j][n] = later[j][n]
    BY <1>1, <1>2 DEF IsSource
  <1>5. V \subseteq W
    BY <1>4, ValuesOfAColumn
  <1>6. V # {}
    <2>1. PICK r \in DOMAIN Rows : Rows[r][n] # Null
      OBVIOUS
    <2>2. r \in DOMAIN rows /\ rows[r][n] = Rows[r][n] /\ rows[r][n] # NaN
      BY <1>1, <1>2, <2>1, FieldsOfARow DEF IsSource
    <2> QED
      BY <2>1, <2>2, ValuesOfAColumn
  <1>7. DOMAIN file.rows = DOMAIN rows
        /\ \A j \in DOMAIN rows : file.rows[j][n] = IF rows[j][n] = Null THEN Null
                                                   ELSE rows[j][n] + 8
    <2>1. SameBut("time", file.rows, rows) /\ TimesMoved(file.rows, rows)
      BY <1>2, ShiftedRows
    <2> QED
      BY <2>1 DEF SameBut, TimesMoved
  <1>8. M = {v + 8 : v \in V}
    <2>1. \A j \in DOMAIN rows : rows[j][n] \in Nat \union {Null}
      BY <1>1, <1>2, FieldsOfARow
    <2>2. ASSUME NEW m \in M PROVE m \in {v + 8 : v \in V}
      <3>1. PICK j \in DOMAIN rows : m = file.rows[j][n] /\ m # Null
        BY <1>7, ValuesOfAColumn
      <3>2. rows[j][n] \in Nat /\ m = rows[j][n] + 8
        BY <1>7, <2>1, <3>1
      <3>3. rows[j][n] \in V
        BY <3>2, ValuesOfAColumn DEF Null, NaN
      <3> QED
        BY <3>2, <3>3
    <2>3. ASSUME NEW v \in V PROVE v + 8 \in M
      <3>1. PICK j \in DOMAIN rows : v = rows[j][n] /\ v # Null
        BY ValuesOfAColumn
      <3>2. v \in Nat
        BY <1>3
      <3>3. file.rows[j][n] = v + 8 /\ v + 8 # Null /\ v + 8 # NaN
        BY <1>7, <3>1, <3>2 DEF Null, NaN
      <3> QED
        BY <1>7, <3>3, ValuesOfAColumn
    <2> QED
      BY <2>2, <2>3
  <1> HIDE DEF V, W, M
  <1>9. M \subseteq Nat /\ M # {} /\ W # {}
    <2>1. PICK v : v \in V
      BY <1>6
    <2>2. v + 8 \in M
      BY <1>8, <2>1
    <2>3. \A w \in V : w + 8 \in Nat
      BY <1>3
    <2> QED
      BY <1>3, <1>5, <1>8, <2>1, <2>2, <2>3
  <1>10. PICK v \in V : Least(M) = v + 8
    BY <1>8, <1>9, LeastIsElement
  <1>11. Least(W) <= v /\ Least(W) \in Nat
    BY <1>3, <1>5, <1>9, LeastIsElement
  <1>12. Bounds(file.rows, n)[1] = Least(M) /\ Bounds(later, n)[1] = Least(W)
    BY <1>9 DEF Bounds, M, W
  <1> QED
    BY <1>3, <1>10, <1>11, <1>12

Probed(rows, names) == [n \in names |-> Bounds(rows, n)]

MissTimes == {"drop_time", "shift_time", "no_boundary"}

\* The boundary check fails for times that are lost or moved and for a spec that names
\* no boundary, whatever the source has become.
LEMMA MovedTimesAreFound ==
  ASSUME NEW i, ColumnsFit(i), BoundaryFits(i), DOMAIN i.spec.boundary \subseteq Nat,
         i.fault \in MissTimes,
         NEW rows, IsSource(rows), NEW later, IsSource(later), Len(rows) <= Len(later),
         NEW pulls, NEW file, file.cols = Written(i.fault, i.columns),
         file.rows = Carried(i.fault, rows, pulls),
         NEW names, \A b \in DOMAIN i.spec.boundary : i.spec.boundary[b] \in names,
         NEW b2, b2 = Boundary(file, Probed(later, names), i.spec)
  PROVE  b2.status = "FAIL"
  <1> DEFINE verdict == Boundary(file, [n \in names |-> Bounds(later, n)], i.spec)
  <1> SUFFICES ASSUME verdict.status # "FAIL" PROVE FALSE
    BY DEF Probed
  <1>1. ShowsBounds(file, later, i.spec)
    BY GreenBoundary
  <1>2. CASE i.fault = "no_boundary"
    BY <1>2, Statuses DEF BoundaryFits, Boundary
  <1>3. CASE i.fault # "no_boundary"
    <2>1. PICK b \in DOMAIN i.spec.boundary : i.spec.boundary[b] = "time"
      BY <1>3 DEF BoundaryFits, MissTimes
    <2>2. "time" \in Columns(file) /\ Bounds(file.rows, "time") = Bounds(later, "time")
      BY <1>1, <2>1 DEF ShowsBounds
    <2>3. CASE i.fault = "drop_time"
      <3>1. Columns(file) = Fields \ {"time"}
        BY <2>3, NamesWritten
      <3> QED
        BY <2>2, <3>1
    <2>4. CASE i.fault = "shift_time"
      <3>1. file.rows = Carried("shift_time", rows, pulls)
        BY <2>4
      <3>2. \E r \in DOMAIN Rows : Rows[r].time # Null
        BY <2>4 DEF BoundaryFits
      <3> QED
        BY <2>2, <3>1, <3>2, ShiftedTimesDiffer
    <2> QED
      BY <1>3, <2>3, <2>4 DEF MissTimes
  <1> QED
    BY <1>2, <1>3

LEMMA BoundsKept ==
  ASSUME NEW f, f # "shift_time", NEW n \in Fields, NEW rows \in Seq(TableRow), rows # <<>>,
         f \in {"fill_zero", "fill_nan"} => n # "score",
         f = "drop_row" => Bounds(Tail(rows), n) = Bounds(rows, n),
         NEW file, file.rows = Carried(f, rows, 0)
  PROVE  Bounds(file.rows, n) = Bounds(rows, n)
  <1>1. /\ Len(rows) \in Nat /\ Len(rows) > 0 /\ DOMAIN rows = 1..Len(rows)
    BY FieldsOfARow
  <1>2. CASE f = "drop_row"
    <2>1. file.rows = Carried("drop_row", rows, 0)
      BY <1>2
    <2>2. file.rows = Tail(rows)
      BY <2>1, DroppedRow
    <2> QED
      BY <1>2, <2>2
  <1>3. CASE f = "repeat_row"
    <2>1. file.rows = Carried("repeat_row", rows, 0)
      BY <1>3
    <2>2. FirstRepeated(file.rows, rows)
      BY <2>1, RepeatedRow
    <2>3. {file.rows[j][n] : j \in DOMAIN file.rows} = {rows[j][n] : j \in DOMAIN rows}
      BY <1>1, <2>2 DEF FirstRepeated
    <2>4. ValuesIn(file.rows, n) = ValuesIn(rows, n)
      BY <2>3, ValuesOfAColumn
    <2> QED
      BY <2>4, SameBounds
  <1>4. CASE f \in {"fill_zero", "fill_nan"}
    <2>1. PICK v : v # Null /\ file.rows = Filled(rows, v)
      BY <1>4, FillsCarry
    <2>2. SameBut("score", file.rows, rows)
      BY <2>1, FilledRows
    <2>3. {file.rows[j][n] : j \in DOMAIN file.rows} = {rows[j][n] : j \in DOMAIN rows}
      BY <1>4, <2>2 DEF SameBut
    <2>4. ValuesIn(file.rows, n) = ValuesIn(rows, n)
      BY <2>3, ValuesOfAColumn
    <2> QED
      BY <2>4, SameBounds
  <1>5. CASE f \notin {"drop_row", "repeat_row", "fill_zero", "fill_nan"}
    <2>1. file.rows = rows
      BY <1>5, FieldsKept
    <2> QED
      BY <2>1
  <1> QED
    BY <1>2, <1>3, <1>4, <1>5

\* It fails for no other fault of a run over the rows that were captured.
LEMMA TimesAreNotBlamed ==
  ASSUME NEW i, ColumnsFit(i), BoundaryFits(i), i.fault \notin MissTimes, i.fault # "drop_qty",
         NEW file, file.cols = Written(i.fault, i.columns),
         file.rows = Carried(i.fault, Rows, 0),
         NEW names, \A b \in DOMAIN i.spec.boundary : i.spec.boundary[b] \in names
  PROVE  Boundary(file, [n \in names |-> Bounds(Rows, n)], i.spec).status # "FAIL"
  <1> DEFINE probed == [n \in names |-> Bounds(Rows, n)]
             s == [b \in DOMAIN i.spec.boundary |->
                     BoundaryComparison(file, probed, i.spec.boundary[b])]
  <1>1. Boundary(file, probed, i.spec) = Verdict(s)
    BY DEF Boundary, BoundaryFits, MissTimes
  <1>2. Columns(file) = Fields
    BY NamesWritten DEF MissTimes
  <1>3. DOMAIN probed = names /\ \A n \in names : probed[n] = Bounds(Rows, n)
    OBVIOUS
  <1> HIDE DEF probed
  <1>4. ASSUME NEW b \in DOMAIN i.spec.boundary
        PROVE  BoundaryComparison(file, probed, i.spec.boundary[b]).ok
    <2> DEFINE n == i.spec.boundary[b]
               f == i.fault
    <2>1. /\ n \in Fields
          /\ f \in {"fill_zero", "fill_nan"} => n # "score"
          /\ f = "drop_row" => Bounds(Tail(Rows), n) = Bounds(Rows, n)
          /\ f # "shift_time" /\ file.rows = Carried(f, Rows, 0)
      BY DEF BoundaryFits, MissTimes
    <2>2. n \in names
      OBVIOUS
    <2> HIDE DEF n, f
    <2>3. Bounds(file.rows, n) = Bounds(Rows, n)
      <3> DEFINE rows == Rows
      <3>1. rows \in Seq(TableRow) /\ rows # <<>>
        BY RowsAssumption
      <3>2. f = "drop_row" => Bounds(Tail(rows), n) = Bounds(rows, n)
        BY <2>1
      <3>3. file.rows = Carried(f, rows, 0)
        BY <2>1
      <3> HIDE DEF rows
      <3>4. Bounds(file.rows, n) = Bounds(rows, n)
        BY <2>1, <3>1, <3>2, <3>3, BoundsKept
      <3> QED
        BY <3>4 DEF rows
    <2>4. BoundaryComparison(file, probed, n).ok
      BY <1>2, <1>3, <2>1, <2>2, <2>3 DEF BoundaryComparison, BoundsAgree, Comparison
    <2> QED
      BY <2>4 DEF n
  <1>5. \A b \in DOMAIN s : s[b].ok
    BY <1>4
  <1> HIDE DEF s
  <1> QED
    BY <1>1, <1>5, AllOkPasses, Statuses DEF probed

-----------------------------------------------------------------------------
(* The block structure check.                                              *)

LEMMA Division ==
  ASSUME NEW n \in Nat, NEW d \in Nat \ {0}
  PROVE  /\ n \div d \in Nat /\ n % d \in 0..(d - 1)
         /\ n = d * (n \div d) + (n % d)
  OBVIOUS

LEMMA OneQuotient ==
  ASSUME NEW d \in Nat \ {0}, NEW p \in Int, NEW q \in Int, NEW r \in Int, NEW s \in Int,
         0 <= r, r < d, 0 <= s, s < d, d * p + r = d * q + s
  PROVE  p = q /\ r = s
  <1>1. d * (p - q) = s - r
    OBVIOUS
  <1>2. CASE p - q >= 1
    <2>1. d * (p - q) >= d
      BY <1>2
    <2> QED
      BY <1>1, <2>1
  <1>3. CASE p - q <= -1
    <2>1. d * (p - q) <= -d
      BY <1>3
    <2> QED
      BY <1>1, <2>1
  <1>4. CASE p = q
    BY <1>4
  <1> QED
    BY <1>2, <1>3, <1>4

LEMMA LayoutOf ==
  ASSUME NEW n \in Nat
  PROVE  LET q == (n + BlockRows - 1) \div BlockRows
         IN /\ q \in Nat
            /\ ExpectedBlockRows(n) = [j \in 1..q |-> IF j * BlockRows <= n THEN BlockRows
                                                     ELSE n % BlockRows]
            /\ Len(ExpectedBlockRows(n)) = q
            /\ (q - 1) * BlockRows < n \/ q = 0
            /\ n <= q * BlockRows
  <1> DEFINE q == (n + BlockRows - 1) \div BlockRows
             s == (n + BlockRows - 1) % BlockRows
  <1>1. BlockRows \in Nat \ {0}
    BY BlockRowsAssumption
  <1>2. n + BlockRows - 1 \in Nat
    BY <1>1
  <1>3. q \in Nat /\ s \in 0..(BlockRows - 1) /\ n + BlockRows - 1 = BlockRows * q + s
    BY <1>1, <1>2, Division
  <1>4. ExpectedBlockRows(n) = [j \in 1..q |-> IF j * BlockRows <= n THEN BlockRows
                                              ELSE n % BlockRows]
    BY DEF ExpectedBlockRows
  <1> HIDE DEF q, s
  <1>5. Len(ExpectedBlockRows(n)) = q
    BY <1>3, <1>4
  <1>6. /\ BlockRows * q \in Nat
        /\ (q - 1) * BlockRows = BlockRows * q - BlockRows
        /\ q * BlockRows = BlockRows * q
    BY <1>1, <1>3
  <1>7. (q - 1) * BlockRows < n /\ n <= q * BlockRows
    BY <1>1, <1>3, <1>6
  <1> QED
    BY <1>3, <1>4, <1>5, <1>7 DEF q

\* The blocks of a faithful file hold its rows.
LEMMA RowsOfTheLayout ==
  ASSUME NEW n \in Nat
  PROVE  RowsIn(ExpectedBlockRows(n)) = n
  <1> DEFINE q == (n + BlockRows - 1) \div BlockRows
             b == ExpectedBlockRows(n)
             upto[j \in 0..Len(b)] == IF j = 0 THEN 0 ELSE upto[j - 1] + b[j]
             g == [j \in 0..Len(b) |-> IF j < q THEN j * BlockRows ELSE n]
  <1>1. BlockRows \in Nat \ {0}
    BY BlockRowsAssumption
  <1>2. /\ q \in Nat /\ Len(b) = q
        /\ b = [j \in 1..q |-> IF j * BlockRows <= n THEN BlockRows ELSE n % BlockRows]
        /\ (q - 1) * BlockRows < n \/ q = 0
        /\ n <= q * BlockRows
    BY LayoutOf
  <1>3. RowsIn(b) = upto[q]
    BY <1>2 DEF RowsIn
  <1>4. upto = CHOOSE f : f = [j \in 0..Len(b) |-> IF j = 0 THEN 0 ELSE f[j - 1] + b[j]]
    BY DEF upto
  <1> HIDE DEF q, b, upto
  <1>5. ASSUME NEW j \in 0..q
        PROVE  g[j] = IF j = 0 THEN 0 ELSE g[j - 1] + b[j]
    <2>1. CASE j = 0
      BY <1>1, <1>2, <2>1
    <2>2. CASE j # 0 /\ j < q
      <3>1. j * BlockRows <= (q - 1) * BlockRows
        BY <1>1, <1>2, <2>2
      <3>2. j * BlockRows \in Nat /\ (q - 1) * BlockRows \in Nat
        BY <1>1, <1>2, <2>2
      <3>3. b[j] = BlockRows
        BY <1>2, <2>2, <3>1, <3>2
      <3>4. (j - 1) * BlockRows + BlockRows = j * BlockRows
        BY <1>1
      <3> QED
        BY <1>2, <2>2, <3>3, <3>4
    <2>3. CASE j # 0 /\ j = q
      <3> DEFINE m == (q - 1) * BlockRows
      <3>1. m \in Nat /\ m < n /\ n <= m + BlockRows /\ j * BlockRows = m + BlockRows
        BY <1>1, <1>2, <2>3
      <3>2. g[j - 1] = m /\ g[j] = n
        BY <1>2, <2>3
      <3>3. CASE n = m + BlockRows
        BY <1>1, <1>2, <2>3, <3>1, <3>2, <3>3
      <3>4. CASE n < m + BlockRows
        <4>1. n % BlockRows = n - m
          <5> DEFINE p == n \div BlockRows
                     r == n % BlockRows
          <5>1. p \in Nat /\ r \in 0..(BlockRows - 1) /\ n = BlockRows * p + r
            BY <1>1, Division
          <5>2. n = BlockRows * (q - 1) + (n - m)
            BY <1>1, <1>2
          <5> HIDE DEF p, r, m
          <5>3. p = q - 1 /\ r = n - m
            BY <1>1, <1>2, <3>1, <3>4, <5>1, <5>2, OneQuotient
          <5> QED
            BY <5>3 DEF r
        <4>2. b[j] = n % BlockRows
          BY <1>1, <1>2, <2>3, <3>1, <3>4
        <4> QED
          BY <2>3, <3>1, <3>2, <4>1, <4>2
      <3> QED
        BY <1>1, <3>1, <3>3, <3>4
    <2> QED
      BY <1>2, <2>1, <2>2, <2>3
  <1>6. g = [j \in 0..Len(b) |-> IF j = 0 THEN 0 ELSE g[j - 1] + b[j]]
    BY <1>2, <1>5
  <1> DEFINE Follows(f) == f = [j \in 0..Len(b) |-> IF j = 0 THEN 0 ELSE f[j - 1] + b[j]]
  <1>7. Follows(upto)
    <2>1. \E f : Follows(f)
      BY <1>6
    <2>2. upto = CHOOSE f : Follows(f)
      BY <1>4
    <2> HIDE DEF Follows
    <2> QED
      BY <2>1, <2>2
  <1>8. \A j \in 0..q : upto[j] = IF j = 0 THEN 0 ELSE upto[j - 1] + b[j]
    BY <1>2, <1>7
  <1>9. g[q] = n
    BY <1>2
  <1> HIDE DEF g, Follows
  <1> DEFINE differs == {j \in 0..q : upto[j] # g[j]}
  <1>10. differs = {}
    <2> SUFFICES ASSUME differs # {} PROVE FALSE
      OBVIOUS
    <2>1. differs \in SUBSET Nat
      BY <1>2
    <2> DEFINE k == Least(differs)
    <2>2. k \in differs /\ \A j \in differs : k <= j
      BY <2>1, LeastIsElement
    <2> HIDE DEF k
    <2>3. CASE k = 0
      BY <1>2, <1>5, <1>8, <2>2, <2>3
    <2>4. CASE k # 0
      <3>1. k - 1 \in 0..q /\ k - 1 \notin differs
        BY <1>2, <2>2, <2>4
      <3> QED
        BY <1>5, <1>8, <2>2, <2>4, <3>1
    <2> QED
      BY <2>3, <2>4
  <1>11. upto[q] = g[q]
    BY <1>2, <1>10
  <1> QED
    BY <1>3, <1>9, <1>11 DEF b

\* The block check fails for a file in one block and for no other.
LEMMA BlocksBlame ==
  ASSUME NEW f, NEW n \in Nat, f = "one_block" => n > BlockRows,
         NEW file, Len(file.rows) = n,
         file.blocks = IF f = "one_block" THEN <<n>> ELSE ExpectedBlockRows(n)
  PROVE  BlockStructure(file).status = "FAIL" <=> f = "one_block"
  <1>1. CASE f = "one_block"
    <2> SUFFICES ASSUME BlockStructure(file).status # "FAIL" PROVE FALSE
      BY <1>1
    <2>1. <<n>> = ExpectedBlockRows(n)
      BY <1>1, GreenBlocks
    <2> DEFINE q == (n + BlockRows - 1) \div BlockRows
    <2>2. q \in Nat /\ Len(ExpectedBlockRows(n)) = q /\ n <= q * BlockRows
      BY LayoutOf
    <2> HIDE DEF q
    <2>3. q = 1
      BY <2>1, <2>2
    <2> QED
      BY <1>1, <2>2, <2>3, BlockRowsAssumption
  <1>2. CASE f # "one_block"
    <2> DEFINE expected == ExpectedBlockRows(n)
               counted == Len(file.blocks) = Len(expected)
               held == RowsIn(file.blocks) = Len(file.rows)
               exact == file.blocks = expected
               s == <<Comparison(counted, "blocks.count_mismatch"),
                      Comparison(held, "blocks.rows_missing"),
                      Comparison(exact, "blocks.layout_mismatch")>>
    <2>1. BlockStructure(file) = Verdict(s)
      BY DEF BlockStructure
    <2>2. exact
      BY <1>2
    <2>3. counted /\ held
      BY <2>2, RowsOfTheLayout
    <2> HIDE DEF counted, held, exact
    <2>4. \A j \in DOMAIN s : s[j].ok
      BY <2>2, <2>3 DEF Comparison
    <2> HIDE DEF s
    <2> QED
      BY <1>2, <2>1, <2>4, AllOkPasses, Statuses
  <1> QED
    BY <1>1, <1>2

-----------------------------------------------------------------------------
(* The other checks.                                                       *)

\* Rows in an unstable order show in the second pull, whatever the source has become.
LEMMA UnstableRowsAreFound ==
  ASSUME NEW i, OthersFit(i), i.fault = "unstable_rows",
         NEW rows, IsSource(rows), NEW later, IsSource(later),
         NEW first, first.rows = Carried("unstable_rows", rows, 0),
         NEW second, second.rows = Carried("unstable_rows", later, 1)
  PROVE  first # second
  <1>1. PICK r \in DOMAIN Tail(Rows) : Rows[r].time # Rows[r + 1].time
    BY DEF OthersFit
  <1>2. /\ Len(Rows) \in Nat /\ DOMAIN Rows = 1..Len(Rows)
        /\ Len(rows) \in Nat /\ Len(rows) >= Len(Rows)
        /\ Len(later) \in Nat /\ Len(later) >= Len(Rows)
        /\ Rows \in Seq(TableRow) /\ Rows # <<>>
        /\ later \in Seq(TableRow) /\ later # <<>>
    BY SourceShape DEF IsSource
  <1>3. DOMAIN Tail(Rows) = 1..(Len(Rows) - 1)
    BY <1>2
  <1>4. r \in 1..(Len(Rows) - 1) /\ r \in DOMAIN Rows /\ r + 1 \in DOMAIN Rows
    BY <1>2, <1>3
  <1>5. "time" \in Fields \ {"qty"}
    BY DEF Fields
  <1>6. rows[r]["time"] = Rows[r]["time"] /\ later[r + 1]["time"] = Rows[r + 1]["time"]
    BY <1>4, <1>5 DEF IsSource
  <1>7. first.rows = rows
    <2>1. Carried("unstable_rows", rows, 0) = rows
      BY CarriedBy
    <2> QED
      BY <2>1
  <1>8. second.rows[r] = later[r + 1]
    <2>1. r \in 1..(Len(later) - 1)
      BY <1>2, <1>4
    <2>2. \A j \in 1..(Len(later) - 1) : second.rows[j] = later[j + 1]
      BY <1>2, RotatedRows
    <2> QED
      BY <2>1, <2>2
  <1> QED
    BY <1>1, <1>6, <1>7, <1>8

LEMMA PullsAreAlike ==
  ASSUME NEW f, f # "unstable_rows", NEW rows, NEW columns
  PROVE  Published(f, rows, columns, 0) = Published(f, rows, columns, 1)
  <1>1. Carried(f, rows, 0) = Carried(f, rows, 1)
    BY Zenon DEF Carried
  <1> QED
    BY <1>1, Zenon DEF Published

LEMMA MergeBlame ==
  ASSUME NEW f
  PROVE  IncrementalRefusal(IncrementalOutcome(f)).status = "FAIL" <=> f = "merges_arrow"
  <1>1. /\ IncrementalRefusal("accepted") = Failed("pg011.accepted")
        /\ IncrementalRefusal("refused") = Passed
    BY DEF IncrementalRefusal
  <1> QED
    BY <1>1, Statuses DEF IncrementalOutcome

LEMMA BookBlame ==
  ASSUME NEW i, OthersFit(i), DOMAIN i.attempts \subseteq Nat
  PROVE  RecipeSecurity(i.has_book, i.attempts).status = "FAIL" <=> i.fault = "open_book"
  <1> DEFINE s == [a \in DOMAIN i.attempts |->
                     Comparison(i.attempts[a], "recipe_security.mutation_accepted")]
             security == RecipeSecurity(i.has_book, i.attempts)
  <1>1. CASE ~i.has_book
    BY <1>1, Statuses DEF RecipeSecurity, OthersFit
  <1>2. CASE i.has_book
    <2>1. security = Verdict(s)
      BY <1>2 DEF RecipeSecurity, OthersFit
    <2>2. /\ DOMAIN s = DOMAIN i.attempts
          /\ \A a \in DOMAIN s : s[a].ok = i.attempts[a]
      BY DEF Comparison
    <2>3. i.fault = "open_book" <=> \E a \in DOMAIN i.attempts : ~i.attempts[a]
      BY <1>2 DEF OthersFit
    <2> HIDE DEF s
    <2>4. security.status # "FAIL" => \A a \in DOMAIN s : s[a].ok
      BY <2>1, <2>2, NotFailedIsOk
    <2>5. (\A a \in DOMAIN s : s[a].ok) => security = Passed
      BY <2>1, AllOkPasses
    <2> QED
      BY <2>2, <2>3, <2>4, <2>5, Statuses
  <1> QED
    BY <1>1, <1>2

LEMMA RegistryBlame ==
  ASSUME NEW f
  PROVE  RegistryAdmission(RegistryOf(f)).status = "FAIL"
           <=> f \in {"bare_refusal", "misfiled_driver"}
  <1> DEFINE registry == RegistryOf(f)
             known == f # "misfiled_driver"
             lists == f # "bare_refusal"
             a == <<Comparison(known, "registry.dialect_name_mismatch"),
                    Comparison(TRUE, "registry.dialect_absent_from_listing")>>
             b == [i \in DOMAIN registry.refusals |->
                     IF registry.refusals[i] = "accepts"
                     THEN Comparison(FALSE, "registry.unregistered_accepted")
                     ELSE Comparison(registry.refusals[i] = "lists",
                                     "registry.refusal_omits_registry")]
  <1>1. /\ registry.resolves /\ registry.named = known /\ registry.listed
        /\ DOMAIN registry.refusals = 1..2 /\ registry.refusals[1] = "lists"
        /\ registry.refusals[2] = IF lists THEN "lists" ELSE "omits"
    BY DEF RegistryOf
  <1>2. RegistryAdmission(registry) = FirstOf(<<Verdict(a), Verdict(b)>>)
    <2>1. registry.listed = TRUE
      BY DEF RegistryOf
    <2> QED
      BY <1>1, <2>1 DEF RegistryAdmission
  <1> HIDE DEF registry
  <1>3. /\ DOMAIN b = 1..2 /\ b[1].ok /\ (b[2].ok <=> lists)
    <2> DEFINE accepted == Comparison(FALSE, "registry.unregistered_accepted")
               Lists(i) == Comparison(registry.refusals[i] = "lists",
                                      "registry.refusal_omits_registry")
    <2>1. b = [i \in DOMAIN registry.refusals |->
                 IF registry.refusals[i] = "accepts" THEN accepted ELSE Lists(i)]
      OBVIOUS
    <2>2. \A i : Lists(i).ok <=> registry.refusals[i] = "lists"
      BY DEF Comparison
    <2> HIDE DEF accepted, Lists, b
    <2>3. b[1] = Lists(1) /\ b[2] = Lists(2) /\ DOMAIN b = 1..2
      BY <1>1, <2>1
    <2>4. registry.refusals[1] = "lists" /\ (registry.refusals[2] = "lists" <=> lists)
      BY <1>1
    <2> HIDE DEF lists
    <2> QED
      BY <2>2, <2>3, <2>4, Zenon
  <1>4. DOMAIN a = 1..2 /\ a[1].ok = known /\ a[2].ok = TRUE
    BY DEF Comparison
  <1> DEFINE v == <<Verdict(a), Verdict(b)>>
  <1>5. RegistryAdmission(registry).status # "FAIL" => known /\ lists
    <2> HIDE DEF a, b, known, lists
    <2> SUFFICES ASSUME FirstOf(<<Verdict(a), Verdict(b)>>).status # "FAIL"
                 PROVE  known /\ lists
      BY <1>2
    <2>1. (\A i \in DOMAIN a : a[i].ok) /\ (\A i \in DOMAIN b : b[i].ok)
      BY <1>3, <1>4, TwoListsAreOk
    <2> QED
      BY <1>3, <1>4, <2>1
  <1>6. known /\ lists => RegistryAdmission(registry) = Passed
    <2> HIDE DEF a, b, known, lists
    <2> SUFFICES ASSUME known, lists PROVE FirstOf(v) = Passed
      BY <1>2
    <2>1. a[1].ok /\ a[2].ok /\ b[1].ok /\ b[2].ok
      BY <1>3, <1>4, Zenon
    <2>2. (\A i \in DOMAIN a : a[i].ok) /\ (\A i \in DOMAIN b : b[i].ok)
      BY <1>3, <1>4, <2>1
    <2>3. Verdict(a) = Passed /\ Verdict(b) = Passed
      BY <2>2, AllOkPasses
    <2>4. \A i \in DOMAIN v : v[i] = Passed
      BY <2>3
    <2> HIDE DEF v
    <2> QED
      BY <2>4, AllPassedPasses
  <1> QED
    BY <1>5, <1>6, Statuses DEF registry

\* The serve gate fails for a server that copies or evicts, and for another only when
\* it measured one that was warm.
LEMMA ServeBlame ==
  ASSUME NEW f, NEW cached
  PROVE  /\ f \in {"copying_server", "evicting_server"} =>
              ServeGate(Pass(f, cached), Pass(f, TRUE)).status = "FAIL"
         /\ f \notin {"copying_server", "evicting_server"} /\ ~cached =>
              ServeGate(Pass(f, cached), Pass(f, TRUE)).status # "FAIL"
  <1> DEFINE first == Pass(f, cached)
             second == Pass(f, TRUE)
             uncopied == first.copied = 0
             uncopied2 == second.copied = 0
             zero == first.zero_copy = first.decoded
             used == Exercised(first)
             hit == second.misses = 0
             kept == second.decoded = 0
             s == <<Comparison(uncopied, "serve.copied_columns_cold"),
                    Comparison(uncopied2, "serve.copied_columns_warm"),
                    Comparison(zero, "serve.cold_zero_copy_mismatch"),
                    Comparison(used, "serve.cold_no_decode"),
                    Comparison(hit, "serve.warm_miss"),
                    Comparison(kept, "serve.warm_decoded")>>
  <1>1. ServeGate(first, second) = Verdict(s)
    BY Zenon DEF ServeGate
  <1>2. f = "copying_server" => ~uncopied
    BY DEF Pass
  <1>3. f = "evicting_server" => ~hit
    BY DEF Pass
  <1>4. f \notin {"copying_server", "evicting_server"} /\ ~cached =>
          uncopied /\ uncopied2 /\ zero /\ used /\ hit /\ kept
    BY DEF Pass, Exercised
  <1> HIDE DEF uncopied, uncopied2, zero, used, hit, kept, first, second
  <1>5. DOMAIN s = 1..6
    OBVIOUS
  <1>6. s[1].ok = uncopied /\ s[2].ok = uncopied2
    BY DEF Comparison
  <1>7. s[3].ok = zero /\ s[4].ok = used
    BY DEF Comparison
  <1>8. s[5].ok = hit /\ s[6].ok = kept
    BY DEF Comparison
  <1> HIDE DEF s
  <1>9. Verdict(s).status # "FAIL" => uncopied /\ hit
    <2>1. DOMAIN s \subseteq Nat /\ 1 \in DOMAIN s /\ 5 \in DOMAIN s
      BY <1>5
    <2> QED
      BY <1>6, <1>8, <2>1, NotFailedIsOk
  <1>10. uncopied /\ uncopied2 /\ zero /\ used /\ hit /\ kept => Verdict(s) = Passed
    <2> SUFFICES ASSUME uncopied, uncopied2, zero, used, hit, kept PROVE Verdict(s) = Passed
      OBVIOUS
    <2>1. s[1].ok /\ s[2].ok /\ s[3].ok /\ s[4].ok /\ s[5].ok /\ s[6].ok
      BY <1>6, <1>7, <1>8, Zenon
    <2>2. \A j \in DOMAIN s : s[j].ok
      BY <1>5, <2>1
    <2> QED
      BY <2>2, AllOkPasses
  <1> QED
    BY <1>1, <1>2, <1>3, <1>4, <1>9, <1>10, Statuses DEF first, second

-----------------------------------------------------------------------------
(* The judges of a file that was pulled from a source.                     *)

\* The state that a file was pulled in: by what, of how many rows at most, and whether
\* the source had not changed by then.
Origin == [inv |-> inv, size |-> Len(source), same |-> changes = 0]

Pulled(file, pulls, origin) ==
    \E rows : /\ IsSource(rows) /\ Len(rows) <= origin.size
              /\ origin.same => rows = Rows
              /\ file = Published(origin.inv.fault, rows, origin.inv.columns, pulls)

\* A pulled file that could be read lacks no column of an aggregate.
LEMMA QuantityIsThere ==
  ASSUME NEW i, ColumnsFit(i), AggregatesFit(i),
         NEW file, file.cols = Written(i.fault, i.columns), Readable(file, i.spec)
  PROVE  i.fault # "drop_qty"
  <1> SUFFICES ASSUME i.fault = "drop_qty" PROVE FALSE
    OBVIOUS
  <1>1. Columns(file) = Fields \ {"qty"}
    BY NamesWritten
  <1>2. PICK a \in DOMAIN i.spec.aggregates :
          i.spec.aggregates[a].op # "row_count" /\ i.spec.aggregates[a].column = "qty"
    BY DEF AggregatesFit
  <1>3. Computes(file, i.spec.aggregates[a])
    BY DEF Readable
  <1> QED
    BY <1>1, <1>2, <1>3 DEF Computes

LEMMA PublishedFile ==
  ASSUME NEW f, NEW rows, NEW columns, NEW pulls, NEW file,
         file = Published(f, rows, columns, pulls)
  PROVE  /\ file.cols = Written(f, columns)
         /\ file.rows = Carried(f, rows, pulls)
         /\ file.blocks = IF f = "one_block" THEN <<Len(file.rows)>>
                          ELSE ExpectedBlockRows(Len(file.rows))
  BY DEF Published

LEMMA InvocationLists ==
  ASSUME NEW i \in Invocations
  PROVE  /\ DOMAIN i.spec.columns \subseteq Nat /\ DOMAIN i.spec.aggregates \subseteq Nat
         /\ DOMAIN i.spec.discriminators \subseteq Nat /\ DOMAIN i.spec.boundary \subseteq Nat
         /\ DOMAIN i.attempts \subseteq Nat
  BY InvocationAssumption

LEMMA LengthPublished ==
  ASSUME NEW f, NEW rows, IsSource(rows), NEW pulls \in {0, 1},
         NEW file, file.rows = Carried(f, rows, pulls)
  PROVE  Len(file.rows) \in Nat /\ (f = "one_block" => Len(file.rows) >= Len(Rows))
  <1>1. /\ rows \in Seq(TableRow) /\ rows # <<>> /\ Len(rows) \in Nat /\ Len(rows) > 0
        /\ Len(Rows) \in Nat /\ Len(rows) >= Len(Rows)
    BY SourceShape DEF IsSource
  <1>2. /\ f = "drop_row" => Len(file.rows) = Len(rows) - 1
        /\ f = "repeat_row" => Len(file.rows) = Len(rows) + 1
        /\ f \notin {"drop_row", "repeat_row"} => Len(file.rows) = Len(rows)
    BY <1>1, RowsPublished
  <1> QED
    BY <1>1, <1>2

\* Whatever the source was and has become, a data check that is blamed fails.
LEMMA BlamedFails ==
  ASSUME NEW i \in Invocations, Telling(i),
         NEW rows, IsSource(rows), NEW pulls \in {0, 1},
         NEW file, file = Published(i.fault, rows, i.columns, pulls), Readable(file, i.spec)
  PROVE  /\ i.fault \in {"retype", "swap_columns", "no_columns", "drop_time"} =>
              SchemaExactness(file, i.spec).status = "FAIL"
         /\ i.fault \in LoseRows =>
              AggregateParity(Aggregates(file, i.spec), i.truth, i.spec).status = "FAIL"
         /\ i.fault \in LoseNulls =>
              NullDiscriminator(file, i.truth, i.spec).status = "FAIL"
         /\ BlockStructure(file).status = "FAIL" <=> i.fault = "one_block"
  <1>1. /\ ColumnsFit(i) /\ AggregatesFit(i) /\ NullsFit(i) /\ OthersFit(i)
    BY DEF Telling
  <1>2. /\ file.cols = Written(i.fault, i.columns)
        /\ file.rows = Carried(i.fault, rows, pulls)
        /\ file.blocks = IF i.fault = "one_block" THEN <<Len(file.rows)>>
                         ELSE ExpectedBlockRows(Len(file.rows))
    BY PublishedFile
  <1>3. i.fault # "drop_qty"
    BY <1>1, <1>2, QuantityIsThere
  <1>4. /\ DOMAIN i.spec.aggregates \subseteq Nat /\ DOMAIN i.spec.discriminators \subseteq Nat
    BY InvocationLists
  <1>5. rows \in Seq(TableRow)
    BY DEF IsSource
  <1>6. i.fault \in {"retype", "swap_columns", "no_columns", "drop_time"} =>
          SchemaExactness(file, i.spec).status = "FAIL"
    BY <1>1, <1>2, <1>3, SchemaBlame
  <1>7. i.fault \in LoseRows =>
          AggregateParity(Aggregates(file, i.spec), i.truth, i.spec).status = "FAIL"
    BY <1>1, <1>2, <1>4, LostRowsAreFound
  <1>8. i.fault \in LoseNulls => NullDiscriminator(file, i.truth, i.spec).status = "FAIL"
    BY <1>1, <1>2, <1>4, <1>5, LostNullsAreFound
  <1>9. BlockStructure(file).status = "FAIL" <=> i.fault = "one_block"
    <2> DEFINE f == i.fault
               n == Len(file.rows)
    <2>1. n \in Nat /\ (f = "one_block" => n >= Len(Rows))
      BY <1>2, LengthPublished
    <2>2. f = "one_block" => Len(Rows) > BlockRows
      BY <1>1 DEF OthersFit
    <2>3. file.blocks = IF f = "one_block" THEN <<n>> ELSE ExpectedBlockRows(n)
      BY <1>2
    <2>4. Len(Rows) \in Nat /\ BlockRows \in Nat
      BY RowsAssumption, FieldsOfARow, BlockRowsAssumption
    <2> HIDE DEF f
    <2>5. f = "one_block" => n > BlockRows
      BY <2>1, <2>2, <2>4
    <2>6. Len(file.rows) = n
      OBVIOUS
    <2> HIDE DEF n
    <2>7. BlockStructure(file).status = "FAIL" <=> f = "one_block"
      BY <2>1, <2>3, <2>5, <2>6, BlocksBlame
    <2> QED
      BY <2>7 DEF f
  <1> QED
    BY <1>6, <1>7, <1>8, <1>9

\* Over the rows that were captured, a data check that fails is blamed.
LEMMA FailingIsBlamed ==
  ASSUME NEW i \in Invocations, Telling(i),
         NEW file, file = Published(i.fault, Rows, i.columns, 0), Readable(file, i.spec),
         NEW names, \A b \in DOMAIN i.spec.boundary : i.spec.boundary[b] \in names
  PROVE  /\ SchemaExactness(file, i.spec).status = "FAIL" =>
              i.fault \in {"retype", "swap_columns", "no_columns", "drop_time"}
         /\ AggregateParity(Aggregates(file, i.spec), i.truth, i.spec).status = "FAIL" =>
              i.fault \in LoseRows
         /\ NullDiscriminator(file, i.truth, i.spec).status = "FAIL" => i.fault \in LoseNulls
         /\ Boundary(file, [n \in names |-> Bounds(Rows, n)], i.spec).status = "FAIL" =>
              i.fault \in MissTimes
  <1>1. /\ ColumnsFit(i) /\ AggregatesFit(i) /\ NullsFit(i) /\ BoundaryFits(i)
    BY DEF Telling
  <1>2. /\ file.cols = Written(i.fault, i.columns)
        /\ file.rows = Carried(i.fault, Rows, 0)
    BY DEF Published
  <1>3. i.fault # "drop_qty"
    BY <1>1, <1>2, QuantityIsThere
  <1>4. SchemaExactness(file, i.spec).status = "FAIL" =>
          i.fault \in {"retype", "swap_columns", "no_columns", "drop_time"}
    BY <1>1, <1>2, <1>3, SchemaBlame
  <1>5. AggregateParity(Aggregates(file, i.spec), i.truth, i.spec).status = "FAIL" =>
          i.fault \in LoseRows
    BY <1>1, <1>3, AggregatesAreNotBlamed
  <1>6. NullDiscriminator(file, i.truth, i.spec).status = "FAIL" => i.fault \in LoseNulls
    BY <1>1, <1>2, <1>3, NullsAreNotBlamed
  <1>7. Boundary(file, [n \in names |-> Bounds(Rows, n)], i.spec).status = "FAIL" =>
          i.fault \in MissTimes
    BY <1>1, <1>2, <1>3, TimesAreNotBlamed
  <1> QED
    BY <1>4, <1>5, <1>6, <1>7

-----------------------------------------------------------------------------
(* What the files of a run were pulled from.                               *)

LEMMA GrownSource ==
  ASSUME NEW rows, IsSource(rows)
  PROVE  IsSource(Append(rows, NewRow)) /\ Len(Append(rows, NewRow)) = Len(rows) + 1
  <1>1. /\ rows \in Seq(TableRow) /\ Len(rows) \in Nat /\ DOMAIN rows = 1..Len(rows)
        /\ Len(Rows) \in Nat /\ Len(Rows) <= Len(rows) /\ DOMAIN Rows \subseteq DOMAIN rows
        /\ NewRow \in TableRow
    BY SourceShape, RowsAssumption DEF IsSource
  <1> DEFINE more == Append(rows, NewRow)
  <1>2. /\ more \in Seq(TableRow) /\ Len(more) = Len(rows) + 1 /\ DOMAIN more = 1..(Len(rows) + 1)
        /\ \A r \in DOMAIN rows : more[r] = rows[r]
        /\ more[Len(rows) + 1] = NewRow
    BY <1>1
  <1> HIDE DEF more
  <1>3. \A r \in DOMAIN Rows : \A f \in Fields \ {"qty"} : more[r][f] = Rows[r][f]
    BY <1>1, <1>2 DEF IsSource
  <1>4. \A r \in DOMAIN more \ DOMAIN Rows : more[r] = NewRow
    BY <1>1, <1>2 DEF IsSource
  <1>5. Len(Rows) <= Len(more)
    BY <1>1, <1>2
  <1> QED
    BY <1>2, <1>3, <1>4, <1>5 DEF IsSource, more

LEMMA ChangedSource ==
  ASSUME NEW rows, IsSource(rows), NEW changed, changed = [rows EXCEPT ![1].qty = @ + 1]
  PROVE  IsSource(changed) /\ Len(changed) = Len(rows)
  <1>1. /\ rows \in Seq(TableRow) /\ Len(rows) \in Nat /\ DOMAIN rows = 1..Len(rows)
        /\ 1 \in DOMAIN rows /\ 1 \in DOMAIN Rows /\ DOMAIN Rows \subseteq DOMAIN rows
        /\ Len(Rows) <= Len(rows)
    BY SourceShape DEF IsSource
  <1> DEFINE row == [rows[1] EXCEPT !.qty = @ + 1]
  <1>2. rows[1] \in TableRow
    BY <1>1
  <1>3. row \in TableRow /\ \A f \in Fields \ {"qty"} : row[f] = rows[1][f]
    BY <1>2 DEF TableRow, Fields
  <1>4. changed = [rows EXCEPT ![1] = row]
    OBVIOUS
  <1> HIDE DEF row
  <1>5. /\ changed \in Seq(TableRow) /\ Len(changed) = Len(rows) /\ DOMAIN changed = DOMAIN rows
        /\ changed[1] = row /\ \A r \in DOMAIN rows \ {1} : changed[r] = rows[r]
    BY <1>1, <1>3, <1>4
  <1>6. \A r \in DOMAIN Rows : \A f \in Fields \ {"qty"} : changed[r][f] = Rows[r][f]
    BY <1>1, <1>3, <1>5 DEF IsSource
  <1>7. \A r \in DOMAIN changed \ DOMAIN Rows : changed[r] = NewRow
    BY <1>1, <1>5 DEF IsSource
  <1> QED
    BY <1>1, <1>5, <1>6, <1>7 DEF IsSource

Traced(file, origin) == \E pulls \in {0, 1} : Pulled(file, pulls, origin)
Sound(file, origin) == Traced(file, origin) /\ Readable(file, origin.inv.spec)

\* How often a run has pulled.
Attempts == Len(reads) + IF pc = "read" THEN 1 ELSE 0

\* Whatever is left in the work directory was pulled from the source as it was once.
SourceInv ==
    /\ IsSource(source)
    /\ changes \in Nat /\ outages \in Nat /\ kills \in Nat
    /\ changes = 0 => source = Rows
    /\ artifact = <<>> \/ (artifact = <<artifact[1]>> /\ Traced(artifact[1], Origin))

\* A run whose pulls all succeeded reads its own first and second pull; it cannot tell
\* when one failed and the file of another is still there.
ReadsInv ==
    /\ pc = "start" => reads = <<>> /\ delivered = 0
    /\ pc \in {"pull", "read"} =>
         /\ reads = <<>> \/ (reads = <<reads[1]>> /\ Sound(reads[1], Origin))
         /\ delivered <= Attempts
         /\ outages = 0 => delivered = Attempts
         /\ delivered = Attempts =>
              /\ reads # <<>> => Pulled(reads[1], 0, Origin)
              /\ pc = "read" => artifact # <<>> /\ Pulled(artifact[1], Len(reads), Origin)
    /\ pc = "judge" =>
         /\ Sound(reads[1], Origin)
         /\ outages = 0 => delivered = 2
         /\ delivered = 2 => Pulled(reads[1], 0, Origin) /\ Pulled(reads[2], 1, Origin)

PulledInv == SourceInv /\ ReadsInv

Grows(origin, later) ==
    /\ origin.inv = later.inv
    /\ origin.size \in Nat /\ later.size \in Nat /\ origin.size <= later.size
    /\ later.same => origin.same

LEMMA PulledStays ==
  ASSUME NEW origin, NEW later, Grows(origin, later), NEW file
  PROVE  /\ \A pulls : Pulled(file, pulls, origin) => Pulled(file, pulls, later)
         /\ Traced(file, origin) => Traced(file, later)
         /\ Sound(file, origin) => Sound(file, later)
  <1>1. ASSUME NEW pulls, Pulled(file, pulls, origin) PROVE Pulled(file, pulls, later)
    <2>1. PICK rows : /\ IsSource(rows) /\ Len(rows) <= origin.size
                      /\ origin.same => rows = Rows
                      /\ file = Published(origin.inv.fault, rows, origin.inv.columns, pulls)
      BY <1>1 DEF Pulled
    <2>2. Len(rows) \in Nat
      BY <2>1, SourceShape
    <2>3. Len(rows) <= later.size
      BY <2>1, <2>2 DEF Grows
    <2> QED
      BY <2>1, <2>3 DEF Grows, Pulled
  <1> QED
    BY <1>1 DEF Traced, Sound, Grows

LEMMA SourceChangesKeepsIt ==
  ASSUME PulledInv, SourceChanges
  PROVE  PulledInv'
  <1> USE DEF PulledInv, SourceInv, ReadsInv
  <1>1. UNCHANGED <<inv, pc, artifact, delivered, reads, outages, kills>>
        /\ changes' = changes + 1
    BY DEF SourceChanges, work, bounds
  <1>2. IsSource(source') /\ Len(source') >= Len(source)
        /\ Len(source') \in Nat /\ Len(source) \in Nat
    <2> DEFINE grown == Append(source, NewRow)
               changed == [source EXCEPT ![1].qty = @ + 1]
    <2>1. Len(source) \in Nat
      BY SourceShape
    <2>2. source' = grown \/ source' = changed
      BY DEF SourceChanges
    <2>3. IsSource(grown) /\ Len(grown) = Len(source) + 1
      BY GrownSource
    <2>4. IsSource(changed) /\ Len(changed) = Len(source)
      BY ChangedSource
    <2> HIDE DEF grown, changed
    <2> QED
      BY <2>1, <2>2, <2>3, <2>4
  <1>3. Grows(Origin, Origin')
    <2>1. /\ Origin.inv = inv /\ Origin.size = Len(source)
          /\ Origin'.inv = inv' /\ Origin'.size = Len(source')
      BY DEF Origin
    <2>2. (Origin.same <=> changes = 0) /\ (Origin'.same <=> changes' = 0)
      BY Zenon DEF Origin
    <2>3. changes' # 0
      BY <1>1
    <2> QED
      BY <1>1, <1>2, <2>1, <2>2, <2>3 DEF Grows
  <1>4. \A file : /\ \A pulls : Pulled(file, pulls, Origin) => Pulled(file, pulls, Origin')
                  /\ Traced(file, Origin) => Traced(file, Origin')
                  /\ Sound(file, Origin) => Sound(file, Origin')
    BY <1>3, PulledStays
  <1>5. SourceInv'
    BY <1>1, <1>2, <1>4
  <1>6. Attempts' = Attempts
    BY <1>1 DEF Attempts
  <1>7. ReadsInv'
    BY <1>1, <1>4, <1>6
  <1> QED
    BY <1>5, <1>7

LEMMA SecondRead ==
  ASSUME NEW a, NEW b, NEW s, s = <<a>>, NEW t, t = Append(s, b)
  PROVE  t[1] = a /\ t[2] = b
  <1> DEFINE both == {a, b}
  <1>1. s \in Seq(both) /\ Len(s) = 1 /\ s[1] = a /\ b \in both
    OBVIOUS
  <1> HIDE DEF both
  <1> QED
    BY <1>1

LEMMA PullsKeepOrigins ==
  ASSUME BatteryInv, PulledInv,
         Refuse \/ Begin \/ PullPublishes \/ PullFails \/ ReadArtifact \/ ReadRaises
  PROVE  PulledInv'
  <1> USE DEF PulledInv, SourceInv, ReadsInv, work, bounds
  <1>1. UNCHANGED <<inv, source, changes, kills>> /\ Origin' = Origin
    BY DEF Refuse, Begin, PullPublishes, PullFails, ReadArtifact, ReadRaises, Origin
  <1>2. delivered \in Nat
    BY DEF BatteryInv, FileInv
  <1>3. CASE Refuse \/ ReadRaises
    BY <1>1, <1>3 DEF Refuse, ReadRaises, Over
  <1>4. CASE Begin
    <2>1. /\ pc' = "pull" /\ reads' = <<>> /\ delivered' = 0 /\ outages' = outages
          /\ artifact' = artifact \/ artifact' = <<>>
      BY <1>4 DEF Begin
    <2>2. Attempts' = 0
      BY <2>1 DEF Attempts
    <2>3. SourceInv'
      BY <1>1, <2>1
    <2>4. ReadsInv'
      BY <2>1, <2>2
    <2> QED
      BY <2>3, <2>4
  <1>5. CASE PullPublishes
    <2> DEFINE file == Published(inv.fault, source, inv.columns, Len(reads))
    <2>1. /\ pc = "pull" /\ pc' = "read" /\ artifact' = <<file>>
          /\ delivered' = delivered + 1 /\ UNCHANGED <<reads, outages>>
      BY <1>5 DEF PullPublishes
    <2>2. Len(reads) \in {0, 1}
      BY <2>1
    <2>3. Pulled(file, Len(reads), Origin)
      <3>1. /\ Origin.inv = inv /\ Origin.size = Len(source)
        BY DEF Origin
      <3>2. Origin.same <=> changes = 0
        BY Zenon DEF Origin
      <3>3. Len(source) \in Nat /\ Len(source) <= Origin.size
        BY <3>1, SourceShape
      <3> QED
        BY <3>1, <3>2, <3>3 DEF Pulled
    <2> HIDE DEF file
    <2>4. artifact' = <<artifact'[1]>> /\ artifact' # <<>> /\ artifact'[1] = file
      BY <2>1
    <2>5. SourceInv'
      BY <1>1, <2>1, <2>2, <2>3, <2>4 DEF Traced
    <2>6. Attempts' = Attempts + 1 /\ Attempts \in Nat
      BY <2>1, <2>2 DEF Attempts
    <2>7. delivered' = Attempts' <=> delivered = Attempts
      BY <1>2, <2>1, <2>6
    <2>8. ReadsInv'
      BY <1>1, <1>2, <2>1, <2>3, <2>4, <2>6, <2>7
    <2> QED
      BY <2>5, <2>8
  <1>6. CASE PullFails
    <2>1. /\ pc = "pull" /\ pc' = "read" /\ outages' = outages + 1
          /\ UNCHANGED <<artifact, delivered, reads>>
      BY <1>6 DEF PullFails
    <2>2. Len(reads) \in {0, 1}
      BY <2>1
    <2>3. Attempts' = Attempts + 1 /\ Attempts \in Nat /\ delivered <= Attempts
      BY <2>1, <2>2 DEF Attempts
    <2>4. delivered' # Attempts' /\ delivered' <= Attempts' /\ outages' # 0 /\ outages' \in Nat
      BY <1>2, <2>1, <2>3
    <2>5. SourceInv'
      BY <1>1, <2>1, <2>4
    <2>6. ReadsInv'
      BY <1>1, <2>1, <2>4
    <2> QED
      BY <2>5, <2>6
  <1>7. CASE ReadArtifact
    <2> DEFINE file == artifact[1]
    <2>1. /\ pc = "read" /\ artifact # <<>> /\ Readable(file, inv.spec)
          /\ reads' = Append(reads, file)
          /\ pc' = IF reads = <<>> THEN "pull" ELSE "judge"
          /\ UNCHANGED <<artifact, delivered, outages>>
      BY <1>7 DEF ReadArtifact, Legible
    <2>2. Sound(file, Origin)
      BY <2>1 DEF Sound, Origin
    <2>3. SourceInv'
      BY <1>1, <2>1
    <2>4. CASE reads = <<>>
      <3>1. reads' = <<file>> /\ pc' = "pull" /\ reads'[1] = file /\ reads' # <<>>
        BY <2>1, <2>4
      <3>2. Attempts = 1 /\ Attempts' = 1 /\ Len(reads) = 0
        BY <2>1, <2>4, <3>1 DEF Attempts
      <3>3. delivered = 1 => Pulled(file, 0, Origin)
        BY <2>1, <3>2
      <3> HIDE DEF file
      <3>4. ReadsInv'
        BY <1>1, <2>1, <2>2, <3>1, <3>2, <3>3
      <3> QED
        BY <2>3, <3>4
    <2>5. CASE reads # <<>>
      <3> DEFINE first == reads[1]
      <3>1. reads = <<first>> /\ Sound(first, Origin) /\ pc' = "judge"
        BY <2>1, <2>5
      <3> HIDE DEF first, file
      <3>2. reads'[1] = first /\ reads'[2] = file
        <4>1. reads' = Append(reads, file)
          BY <2>1 DEF file
        <4> QED
          BY <3>1, <4>1, SecondRead
      <3>3. Len(reads) = 1 /\ Attempts = 2
        BY <2>1, <3>1 DEF Attempts
      <3>4. delivered = 2 => Pulled(first, 0, Origin) /\ Pulled(file, 1, Origin)
        BY <2>1, <2>5, <3>1, <3>3 DEF file, first
      <3>5. outages = 0 => delivered = 2
        BY <2>1, <3>3
      <3>6. ReadsInv'
        BY <1>1, <2>1, <2>2, <3>1, <3>2, <3>3, <3>4, <3>5
      <3> QED
        BY <2>3, <3>6
    <2> QED
      BY <2>4, <2>5
  <1> QED
    BY <1>3, <1>4, <1>5, <1>6, <1>7

LEMMA RestKeepsOrigins ==
  ASSUME PulledInv, [Next]_vars,
         ~(\/ Refuse \/ Begin \/ PullPublishes \/ PullFails \/ ReadArtifact \/ ReadRaises
           \/ SourceChanges)
  PROVE  PulledInv'
  <1> USE DEF PulledInv, SourceInv, ReadsInv, work, gate, pack, bounds
  <1>1. CASE Judge \/ ProbeFails
    <2>1. CASE Judge
      <3>1. /\ UNCHANGED <<inv, source, artifact, changes, kills, outages>> /\ pc' = "serve"
        BY <2>1 DEF Judge
      <3> QED
        BY <3>1 DEF Origin
    <2>2. CASE ProbeFails
      <3>1. /\ UNCHANGED <<inv, source, artifact, changes, kills>> /\ pc' = "serve"
            /\ outages' = outages + 1
        BY <2>2 DEF ProbeFails
      <3> QED
        BY <3>1 DEF Origin
    <2> QED
      BY <1>1, <2>1, <2>2
  <1>2. CASE SkipGate \/ Launch \/ ProcessExits \/ Ready \/ GateRaises \/ ColdPass \/ WarmPass
    <2>1. UNCHANGED <<inv, source, artifact, reads, delivered, changes, kills>>
      BY <1>2 DEF SkipGate, Launch, ProcessExits, Ready, GateRaises, ColdPass, WarmPass
    <2>2. outages' \in Nat /\ (pc' = pc \/ pc' \in {"archive", "await", "cold", "warm"})
          /\ (pc' = pc => outages' = outages)
      <3>1. CASE SkipGate \/ Launch \/ ProcessExits
        BY <3>1 DEF SkipGate, Launch, ProcessExits, GateResult
      <3>2. CASE Ready \/ ColdPass
        BY <3>2 DEF Ready, ColdPass
      <3>3. CASE GateRaises
        <4>1. outages' = outages \/ outages' = outages + 1
          BY <3>3 DEF GateRaises
        <4>2. pc' = "archive" /\ pc # "archive"
          BY <3>3 DEF GateRaises, GateResult
        <4> QED
          BY <4>1, <4>2
      <3>4. CASE WarmPass
        <4>1. outages' = outages /\ pc' = "archive" /\ pc # "archive"
          BY <3>4 DEF WarmPass, GateResult
        <4> QED
          BY <4>1
      <3> QED
        BY <1>2, <3>1, <3>2, <3>3, <3>4
    <2>3. Origin' = Origin
      BY <2>1 DEF Origin
    <2>4. pc' = pc => Attempts' = Attempts
      BY <2>1 DEF Attempts
    <2> QED
      BY <2>1, <2>2, <2>3, <2>4
  <1>3. CASE ArchiveRefuses \/ Archive \/ WriteJson \/ WriteMd \/ Killed
    <2>1. /\ UNCHANGED <<inv, source, artifact, changes>> /\ pc' \in {"json", "md", "over"}
          /\ outages' \in Nat /\ kills' \in Nat
      BY <1>3 DEF ArchiveRefuses, Archive, WriteJson, WriteMd, Killed, Over
    <2> QED
      BY <2>1 DEF Origin
  <1>4. CASE NextRun
    <2>1. /\ UNCHANGED <<inv, source, artifact, changes, outages, kills>>
          /\ pc' = "start" /\ reads' = <<>> /\ delivered' = 0
      BY <1>4 DEF NextRun
    <2> QED
      BY <2>1 DEF Origin
  <1>5. CASE UNCHANGED vars
    <2>1. UNCHANGED <<inv, pc, source, artifact, reads, delivered, changes, outages, kills>>
      BY <1>5 DEF vars
    <2>2. Origin' = Origin /\ Attempts' = Attempts
      BY <2>1 DEF Origin, Attempts
    <2> QED
      BY <2>1, <2>2
  <1> QED
    BY <1>1, <1>2, <1>3, <1>4, <1>5 DEF Next

LEMMA PulledInit == Init => PulledInv
  <1> SUFFICES ASSUME Init PROVE PulledInv
    OBVIOUS
  <1>1. IsSource(Rows)
    <2>1. Rows \in Seq(TableRow) /\ Len(Rows) \in Nat
      BY RowsAssumption, FieldsOfARow
    <2> QED
      BY <2>1 DEF IsSource
  <1> QED
    BY <1>1 DEF Init, PulledInv, SourceInv, ReadsInv

LEMMA PulledStep ==
  ASSUME BatteryInv, PulledInv, [Next]_vars
  PROVE  PulledInv'
  BY PullsKeepOrigins, RestKeepsOrigins, SourceChangesKeepsIt

-----------------------------------------------------------------------------
(* The results of a run and its fault.                                     *)

FoundIn(r, fault, pulls) ==
    \A c \in Checks \ {"serve"} :
        c \in Blamed(fault) /\ (fault = "unstable_rows" => pulls = 2) => r[c].status = "FAIL"
OnlyIn(r, fault) ==
    \A c \in Checks \ {"serve"} : r[c].status = "FAIL" => c \in Blamed(fault)

LEMMA JudgedOthers ==
  ASSUME BatteryInv, NEW b2
  PROVE  /\ Judged(b2)["registry"] = results["registry"]
         /\ Judged(b2)["pg011"] = IncrementalRefusal(IncrementalOutcome(inv.fault))
         /\ Judged(b2)["recipe_security"] = RecipeSecurity(inv.has_book, inv.attempts)
  <1>1. DOMAIN results = Checks
    BY DEF BatteryInv, ResultsInv
  <1> QED
    BY <1>1, NamesOfChecks DEF Judged

\* What the first pull of a run was pulled from, once it is judged.
LEMMA JudgedPull ==
  ASSUME PulledInv, pc = "judge"
  PROVE  \E rows : \E pulls \in {0, 1} :
           /\ IsSource(rows) /\ Len(rows) <= Len(source)
           /\ changes = 0 => rows = Rows
           /\ reads[1] = Published(inv.fault, rows, inv.columns, pulls)
           /\ Readable(reads[1], inv.spec)
  <1>1. Sound(reads[1], Origin)
    BY DEF PulledInv, ReadsInv
  <1>2. Origin.inv = inv /\ Origin.size = Len(source)
    BY DEF Origin
  <1>3. Origin.same <=> changes = 0
    BY Zenon DEF Origin
  <1>4. PICK pulls \in {0, 1} : Pulled(reads[1], pulls, Origin)
    BY <1>1 DEF Sound, Traced
  <1>5. PICK rows : /\ IsSource(rows) /\ Len(rows) <= Len(source)
                    /\ changes = 0 => rows = Rows
                    /\ reads[1] = Published(inv.fault, rows, inv.columns, pulls)
    BY <1>2, <1>3, <1>4 DEF Pulled
  <1>6. Readable(reads[1], inv.spec)
    BY <1>1, <1>2 DEF Sound
  <1> QED
    BY <1>5, <1>6

LEMMA MissedTimes ==
  ASSUME NEW i \in Invocations, Telling(i), i.fault \in MissTimes,
         NEW rows, IsSource(rows), NEW later, IsSource(later), Len(rows) <= Len(later),
         NEW pulls, NEW file, file = Published(i.fault, rows, i.columns, pulls),
         NEW names, \A b \in DOMAIN i.spec.boundary : i.spec.boundary[b] \in names,
         NEW b2, b2 = Boundary(file, Probed(later, names), i.spec)
  PROVE  b2.status = "FAIL"
  <1>1. file.cols = Written(i.fault, i.columns)
    BY DEF Published
  <1>2. file.rows = Carried(i.fault, rows, pulls)
    BY DEF Published
  <1>3. ColumnsFit(i) /\ BoundaryFits(i)
    BY DEF Telling
  <1>4. DOMAIN i.spec.boundary \subseteq Nat
    BY InvocationLists
  <1> QED
    BY <1>1, <1>2, <1>3, <1>4, MovedTimesAreFound

\* The bounds that the source answers with tell a fault that loses or moves times.
LEMMA ProbedBoundary ==
  ASSUME BatteryInv, PulledInv, Telling(inv), pc = "judge",
         NEW names, \A b \in DOMAIN inv.spec.boundary : inv.spec.boundary[b] \in names,
         NEW b2, b2 = Boundary(reads[1], Probed(source, names), inv.spec)
  PROVE  inv.fault \in MissTimes => b2.status = "FAIL"
  <1>1. PICK rows, pulls :
           /\ IsSource(rows) /\ Len(rows) <= Len(source)
           /\ reads[1] = Published(inv.fault, rows, inv.columns, pulls)
    BY JudgedPull
  <1>2. IsSource(source) /\ inv \in Invocations
    BY DEF PulledInv, SourceInv, BatteryInv
  <1> QED
    BY <1>1, <1>2, MissedTimes

LEMMA TwoPullsDiffer ==
  ASSUME PulledInv, OthersFit(inv), pc = "judge", delivered = 2, inv.fault = "unstable_rows"
  PROVE  reads[1] # reads[2]
  <1>1. Pulled(reads[1], 0, Origin) /\ Pulled(reads[2], 1, Origin)
    BY DEF PulledInv, ReadsInv
  <1>2. Origin.inv = inv
    BY DEF Origin
  <1>3. PICK rows : IsSource(rows) /\ reads[1] = Published(inv.fault, rows, inv.columns, 0)
    BY <1>1, <1>2 DEF Pulled
  <1>4. PICK later : IsSource(later) /\ reads[2] = Published(inv.fault, later, inv.columns, 1)
    BY <1>1, <1>2 DEF Pulled
  <1>5. /\ reads[1].rows = Carried("unstable_rows", rows, 0)
        /\ reads[2].rows = Carried("unstable_rows", later, 1)
    BY <1>3, <1>4 DEF Published
  <1> QED
    BY <1>3, <1>4, <1>5, UnstableRowsAreFound

LEMMA FaultIsFoundInData ==
  ASSUME BatteryInv, PulledInv, Telling(inv), pc = "judge",
         results["registry"] = RegistryAdmission(RegistryOf(inv.fault)),
         NEW b2, inv.fault \in MissTimes => b2.status = "FAIL"
  PROVE  inv.fault # "drop_qty" /\ FoundIn(Judged(b2), inv.fault, delivered)
  <1> DEFINE f == inv.fault
             file == reads[1]
             r == Judged(b2)
  <1>1. PICK rows, pulls :
           /\ pulls \in {0, 1}
           /\ IsSource(rows)
           /\ file = Published(inv.fault, rows, inv.columns, pulls)
           /\ Readable(file, inv.spec)
    BY JudgedPull
  <1>2. inv \in Invocations /\ f \in Faults /\ OthersFit(inv)
        /\ ColumnsFit(inv) /\ AggregatesFit(inv)
    BY DEF BatteryInv, Telling
  <1>3. f # "drop_qty"
    <2>1. file.cols = Written(inv.fault, inv.columns)
      BY <1>1 DEF Published
    <2> QED
      BY <1>1, <1>2, <2>1, QuantityIsThere
  <1>4. /\ f \in {"retype", "swap_columns", "no_columns", "drop_time"} =>
              r["schema"].status = "FAIL"
        /\ f \in LoseRows => r["aggregate"].status = "FAIL"
        /\ f \in LoseNulls => r["rf002"].status = "FAIL"
        /\ f = "one_block" => r["blocks"].status = "FAIL"
    BY <1>1, <1>2, BlamedFails, JudgedData
  <1>5. f \in MissTimes => r["b2"].status = "FAIL"
    BY JudgedData
  <1>6. f \in {"bare_refusal", "misfiled_driver"} => r["registry"].status = "FAIL"
    BY JudgedOthers, RegistryBlame
  <1>7. f = "merges_arrow" => r["pg011"].status = "FAIL"
    BY JudgedOthers, MergeBlame
  <1>8. f = "open_book" => r["recipe_security"].status = "FAIL"
    <2>1. DOMAIN inv.attempts \subseteq Nat
      BY <1>2, InvocationLists
    <2> QED
      BY <1>2, <2>1, JudgedOthers, BookBlame
  <1>9. f = "unstable_rows" /\ delivered = 2 => r["checksum"].status = "FAIL"
    <2>1. r["checksum"] = Checksum(reads[1], reads[2], inv.spec)
      BY JudgedData
    <2> QED
      BY <1>2, <2>1, TwoPullsDiffer, Statuses DEF Checksum
  <1> HIDE DEF r, f
  <1>10. FoundIn(r, f, delivered)
    BY <1>2, <1>3, <1>4, <1>5, <1>6, <1>7, <1>8, <1>9, BlamedChecks, NamesOfChecks
       DEF FoundIn, LoseRows, LoseNulls, MissTimes
  <1> QED
    BY <1>3, <1>10 DEF f, r

LEMMA OnlyTheFaultIsFound ==
  ASSUME BatteryInv, PulledInv, Telling(inv), pc = "judge", changes = 0, outages = 0,
         results["registry"] = RegistryAdmission(RegistryOf(inv.fault)),
         NEW names, \A b \in DOMAIN inv.spec.boundary : inv.spec.boundary[b] \in names,
         NEW b2, b2 = Boundary(reads[1], [n \in names |-> Bounds(source, n)], inv.spec)
  PROVE  OnlyIn(Judged(b2), inv.fault)
  <1> DEFINE f == inv.fault
             file == reads[1]
             r == Judged(b2)
  <1>1. inv \in Invocations /\ f \in Faults /\ OthersFit(inv)
        /\ ColumnsFit(inv) /\ AggregatesFit(inv)
    BY DEF BatteryInv, Telling
  <1>2. source = Rows
    BY DEF PulledInv, SourceInv
  <1>3. /\ file = Published(inv.fault, Rows, inv.columns, 0)
        /\ reads[2] = Published(inv.fault, Rows, inv.columns, 1)
        /\ Readable(file, inv.spec)
    <2>1. Pulled(reads[1], 0, Origin) /\ Pulled(reads[2], 1, Origin)
          /\ Sound(reads[1], Origin)
      BY DEF PulledInv, ReadsInv
    <2>2. Origin.inv = inv
      BY DEF Origin
    <2>3. Origin.same
      BY Zenon DEF Origin
    <2> QED
      BY <2>1, <2>2, <2>3 DEF Pulled, Sound
  <1>4. f # "drop_qty"
    <2>1. file.cols = Written(inv.fault, inv.columns)
      BY <1>3 DEF Published
    <2> QED
      BY <1>1, <1>3, <2>1, QuantityIsThere
  <1>5. /\ r["schema"].status = "FAIL" =>
              f \in {"retype", "swap_columns", "no_columns", "drop_time"}
        /\ r["aggregate"].status = "FAIL" => f \in LoseRows
        /\ r["rf002"].status = "FAIL" => f \in LoseNulls
        /\ r["b2"].status = "FAIL" => f \in MissTimes
    BY <1>1, <1>2, <1>3, FailingIsBlamed, JudgedData
  <1>6. r["blocks"].status = "FAIL" => f = "one_block"
    <2>1. IsSource(Rows)
      BY <1>2 DEF PulledInv, SourceInv
    <2> QED
      BY <1>1, <1>3, <2>1, BlamedFails, JudgedData
  <1>7. r["registry"].status = "FAIL" => f \in {"bare_refusal", "misfiled_driver"}
    BY JudgedOthers, RegistryBlame
  <1>8. r["pg011"].status = "FAIL" => f = "merges_arrow"
    BY JudgedOthers, MergeBlame
  <1>9. r["recipe_security"].status = "FAIL" => f = "open_book"
    <2>1. DOMAIN inv.attempts \subseteq Nat
      BY <1>1, InvocationLists
    <2> QED
      BY <1>1, <2>1, JudgedOthers, BookBlame
  <1>10. r["checksum"].status = "FAIL" => f = "unstable_rows"
    <2>1. r["checksum"] = Checksum(reads[1], reads[2], inv.spec)
      BY JudgedData
    <2>2. f # "unstable_rows" => reads[1] = reads[2]
      BY <1>3, PullsAreAlike
    <2>3. reads[1] = reads[2] => r["checksum"] = Passed
      BY <2>1 DEF Checksum
    <2> QED
      BY <2>2, <2>3, Statuses
  <1> HIDE DEF r, f
  <1>11. OnlyIn(r, f)
    BY <1>1, <1>4, <1>5, <1>6, <1>7, <1>8, <1>9, <1>10, BlamedChecks, NamesOfChecks
       DEF OnlyIn, LoseRows, LoseNulls, MissTimes
  <1> QED
    BY <1>11 DEF f, r

-----------------------------------------------------------------------------
(* The invariant of blame, and its proof.                                  *)

AtGate == {"await", "cold", "warm"}

\* Without a kill or an outage the gate of a run serves alone, from a cold start.
Undisturbed ==
    kills = 0 /\ outages = 0 =>
        /\ pc \notin AtGate => server = <<>>
        /\ pc \in AtGate => own = "serves"
        /\ pc \in {"await", "cold"} => server = <<[cached |-> FALSE]>>
        /\ pc = "warm" => ~cold.was_cached

DataBlamed ==
    /\ inv.fault # "drop_qty"
    /\ FoundIn(results, inv.fault, delivered)
    /\ outages = 0 => delivered = 2
    /\ changes = 0 /\ outages = 0 => OnlyIn(results, inv.fault)

ServeBlamed ==
    /\ "serve" \in Blamed(inv.fault) => results["serve"].status = "FAIL"
    /\ kills = 0 /\ outages = 0 =>
         (results["serve"].status = "FAIL" => "serve" \in Blamed(inv.fault))

\* Each stage has blamed the fault on the checks that are over, and what a pack of this
\* run holds is what they came to.
BlameInv ==
    /\ pc \in {"pull", "read", "judge"} =>
         results["registry"] = RegistryAdmission(RegistryOf(inv.fault))
    /\ pc \in {"serve"} \union AtGate \union Writing \/ json.run = run => DataBlamed
    /\ pc \in Writing \/ json.run = run => ServeBlamed
    /\ json.run = run => pc \in {"md", "over"} /\ json.results = results
    /\ pc \in AtGate => inv.serve_gate /\ inv.spec.serve_gate_sql

LEMMA UndisturbedStep ==
  ASSUME PulledInv, Undisturbed, BatteryInv, [Next]_vars
  PROVE  Undisturbed'
  <1> USE DEF Undisturbed, AtGate, work, gate, pack, bounds
  <1>1. kills \in Nat /\ outages \in Nat
    BY DEF PulledInv, SourceInv
  <1>2. CASE Refuse \/ Begin \/ PullPublishes \/ ReadArtifact \/ ReadRaises \/ Judge
    BY <1>2 DEF Refuse, Begin, PullPublishes, ReadArtifact, ReadRaises, Judge, Over
  <1>3. CASE PullFails \/ ProbeFails \/ ArchiveRefuses
    <2>1. outages' = outages + 1
      BY <1>3 DEF PullFails, ProbeFails, ArchiveRefuses
    <2> QED
      BY <1>1, <2>1
  <1>4. CASE SkipGate \/ Archive \/ WriteJson \/ WriteMd \/ NextRun \/ SourceChanges
    BY <1>4 DEF SkipGate, GateResult, Archive, WriteJson, WriteMd, NextRun, SourceChanges, Over
  <1>5. CASE Launch
    BY <1>5 DEF Launch
  <1>6. CASE ProcessExits \/ Ready
    BY <1>6 DEF ProcessExits, Ready
  <1>7. CASE GateRaises
    <2>1. outages' = outages + 1 \/ (own = "gone" /\ pc = "await" /\ UNCHANGED <<outages, kills>>)
      BY <1>7 DEF GateRaises
    <2> QED
      BY <1>1, <2>1
  <1>8. CASE ColdPass
    <2>1. pc = "cold" /\ pc' = "warm" /\ UNCHANGED <<own, kills, outages>>
          /\ cold'.was_cached = server[1].cached
      BY <1>8 DEF ColdPass
    <2>2. server = <<[cached |-> FALSE]>> => ~server[1].cached
      OBVIOUS
    <2> QED
      BY <2>1, <2>2, Zenon
  <1>9. CASE WarmPass
    <2>1. /\ pc = "warm" /\ pc' = "archive" /\ UNCHANGED <<kills, outages>>
          /\ own = "serves" => server' = <<>>
      BY <1>9 DEF WarmPass, GateResult, Terminated
    <2> QED
      BY <2>1
  <1>10. CASE Killed
    <2>1. kills' = kills + 1
      BY <1>10 DEF Killed
    <2> QED
      BY <1>1, <2>1
  <1>11. CASE UNCHANGED vars
    BY <1>11 DEF vars
  <1> QED
    BY <1>2, <1>3, <1>4, <1>5, <1>6, <1>7, <1>8, <1>9, <1>10, <1>11 DEF Next

\* The judging blames the fault on its data checks.
LEMMA JudgingBlames ==
  ASSUME BatteryInv, PulledInv, BlameInv, Telling(inv), Judge \/ ProbeFails
  PROVE  DataBlamed'
  <1>1. /\ pc = "judge" /\ UNCHANGED <<inv, delivered, changes>>
        /\ results["registry"] = RegistryAdmission(RegistryOf(inv.fault))
    BY DEF Judge, ProbeFails, BlameInv, work, bounds
  <1>2. CASE Judge
    <2> DEFINE names == {inv.spec.boundary[i] : i \in DOMAIN inv.spec.boundary}
               b2 == Boundary(reads[1], [n \in names |-> Bounds(source, n)], inv.spec)
    <2>1. results' = Judged(b2) /\ outages' = outages
      BY <1>2 DEF Judge, JudgedFile, bounds
    <2>2. \A b \in DOMAIN inv.spec.boundary : inv.spec.boundary[b] \in names
      OBVIOUS
    <2> HIDE DEF names
    <2>3. b2 = Boundary(reads[1], Probed(source, names), inv.spec)
      BY DEF Probed
    <2>4. changes = 0 /\ outages = 0 => OnlyIn(Judged(b2), inv.fault)
      BY <1>1, <2>2, OnlyTheFaultIsFound
    <2> HIDE DEF b2
    <2>5. inv.fault \in MissTimes => b2.status = "FAIL"
      BY <1>1, <2>2, <2>3, ProbedBoundary
    <2>6. inv.fault # "drop_qty" /\ FoundIn(Judged(b2), inv.fault, delivered)
      BY <1>1, <2>5, FaultIsFoundInData
    <2>7. outages = 0 => delivered = 2
      BY <1>1 DEF PulledInv, ReadsInv
    <2> QED
      BY <1>1, <2>1, <2>4, <2>6, <2>7 DEF DataBlamed
  <1>3. CASE ProbeFails
    <2> DEFINE b2 == Failed("")
    <2>1. results' = Judged(b2) /\ outages' = outages + 1
      BY <1>3 DEF ProbeFails
    <2>2. outages \in Nat
      BY DEF PulledInv, SourceInv
    <2>3. b2.status = "FAIL"
      BY Statuses
    <2> HIDE DEF b2
    <2>4. inv.fault # "drop_qty" /\ FoundIn(Judged(b2), inv.fault, delivered)
      BY <1>1, <2>3, FaultIsFoundInData
    <2> QED
      BY <1>1, <2>1, <2>2, <2>4 DEF DataBlamed
  <1> QED
    BY <1>2, <1>3

\* The gate blames the fault on its check, and leaves the others as they are.
LEMMA GateBlames ==
  ASSUME BatteryInv, PulledInv, Undisturbed, BlameInv, Telling(inv),
         SkipGate \/ GateRaises \/ WarmPass
  PROVE  DataBlamed' /\ ServeBlamed'
  <1> DEFINE f == inv.fault
  <1>1. DOMAIN results = Checks /\ outages \in Nat /\ kills \in Nat /\ OthersFit(inv)
    BY DEF BatteryInv, ResultsInv, PulledInv, SourceInv, Telling
  <1>2. DataBlamed
    BY DEF SkipGate, GateRaises, WarmPass, BlameInv, AtGate
  <1>3. /\ UNCHANGED <<inv, delivered, changes, kills>>
        /\ outages' = outages \/ outages' = outages + 1
    BY DEF SkipGate, GateRaises, WarmPass, work, bounds
  <1>4. PICK result : results' = [results EXCEPT !["serve"] = result]
    BY DEF SkipGate, GateRaises, WarmPass, GateResult
  <1>5. \A c \in Checks \ {"serve"} : results'[c] = results[c]
    BY <1>1, <1>4
  <1>6. DataBlamed'
    BY <1>1, <1>2, <1>3, <1>5 DEF DataBlamed, FoundIn, OnlyIn
  <1>7. "serve" \in Checks
    BY NamesOfChecks
  <1>8. f \in Faults /\ f # "drop_qty"
    BY <1>2 DEF Telling, DataBlamed
  <1>9. "serve" \in Blamed(f) <=> f \in {"copying_server", "evicting_server", "no_query"}
    <2> HIDE DEF f
    <2> QED
      BY <1>8, BlamedChecks
  <1>10. CASE SkipGate
    <2>1. /\ ~inv.serve_gate \/ ~inv.spec.serve_gate_sql
          /\ results'["serve"] = IF inv.serve_gate THEN Failed("") ELSE Skipped
      BY <1>1, <1>7, <1>10 DEF SkipGate, GateResult
    <2>2. CASE inv.serve_gate
      <3>1. f = "no_query" /\ results'["serve"].status = "FAIL"
        BY <1>1, <2>1, <2>2, Statuses DEF OthersFit
      <3> QED
        BY <1>3, <1>6, <1>9, <3>1 DEF ServeBlamed
    <2>3. CASE ~inv.serve_gate
      <3>1. f \notin {"copying_server", "evicting_server", "no_query"}
        BY <1>1, <2>3 DEF OthersFit
      <3>2. results'["serve"].status # "FAIL"
        BY <2>1, <2>3, Statuses
      <3> QED
        BY <1>3, <1>6, <1>9, <3>1, <3>2 DEF ServeBlamed
    <2> QED
      BY <2>2, <2>3
  <1>11. CASE GateRaises
    <2>1. results'["serve"].status = "FAIL"
      BY <1>1, <1>7, <1>11, Statuses DEF GateRaises, GateResult
    <2>2. ~(kills' = 0 /\ outages' = 0)
      <3>1. outages' = outages + 1 \/ (own = "gone" /\ pc = "await" /\ outages' = outages)
        BY <1>11 DEF GateRaises
      <3>2. own = "gone" /\ pc = "await" => ~(kills = 0 /\ outages = 0)
        BY DEF Undisturbed, AtGate
      <3> QED
        BY <1>1, <1>3, <3>1, <3>2
    <2> QED
      BY <1>6, <2>1, <2>2 DEF ServeBlamed
  <1>12. CASE WarmPass
    <2>1. pc = "warm" /\ outages' = outages
      BY <1>12 DEF WarmPass, bounds
    <2>2. results'["serve"] = ServeGate(Pass(f, cold.was_cached), Pass(f, TRUE))
      BY <1>1, <1>7, <1>12, <2>1 DEF WarmPass, GateResult, BatteryInv, GateInv
    <2>3. f # "no_query"
      BY <1>1, <2>1 DEF OthersFit, BlameInv, AtGate
    <2>4. kills = 0 /\ outages = 0 => ~cold.was_cached
      BY <2>1 DEF Undisturbed
    <2> DEFINE cached == cold.was_cached
    <2> HIDE DEF f, cached
    <2>5. /\ f \in {"copying_server", "evicting_server"} => results'["serve"].status = "FAIL"
          /\ f \notin {"copying_server", "evicting_server"} /\ ~cached =>
               results'["serve"].status # "FAIL"
      <3>1. results'["serve"] = ServeGate(Pass(f, cached), Pass(f, TRUE))
        BY <2>2 DEF cached
      <3>2. /\ f \in {"copying_server", "evicting_server"} =>
                   ServeGate(Pass(f, cached), Pass(f, TRUE)).status = "FAIL"
            /\ f \notin {"copying_server", "evicting_server"} /\ ~cached =>
                   ServeGate(Pass(f, cached), Pass(f, TRUE)).status # "FAIL"
        BY ServeBlame
      <3> QED
        BY <3>1, <3>2, Zenon
    <2>6. /\ "serve" \in Blamed(f) => results'["serve"].status = "FAIL"
          /\ kills = 0 /\ outages = 0 =>
               (results'["serve"].status = "FAIL" => "serve" \in Blamed(f))
      BY <1>9, <2>3, <2>4, <2>5 DEF cached
    <2> QED
      BY <1>3, <1>6, <2>1, <2>6 DEF ServeBlamed, f
  <1> QED
    BY <1>10, <1>11, <1>12

LEMMA BlameStep ==
  ASSUME BatteryInv, PulledInv, Undisturbed, BlameInv, Telling(inv), [Next]_vars
  PROVE  BlameInv'
  <1> USE DEF BlameInv, AtGate, Writing, BeforeGate, work, gate, pack, bounds
  <1>1. /\ changes \in Nat /\ outages \in Nat /\ kills \in Nat
        /\ run \in Nat /\ json.run \in Nat /\ json.run <= run
        /\ pc \in BeforeGate \union {"archive", "json"} => json.run < run
    BY DEF PulledInv, SourceInv, BatteryInv, PackInv
  <1>2. CASE Begin
    <2>1. results'["registry"] = RegistryAdmission(RegistryOf(inv.fault))
      BY <1>2, NamesOfChecks DEF Begin, BatteryInv, ResultsInv
    <2> QED
      BY <1>1, <1>2, <2>1 DEF Begin
  <1>3. CASE Refuse \/ PullPublishes \/ PullFails \/ ReadArtifact \/ ReadRaises
    <2>1. UNCHANGED <<inv, run, results, json>> /\ json.run < run
          /\ pc' \in {"pull", "read", "judge", "over"}
          /\ (pc \in {"pull", "read", "judge"} \/ pc' = "over")
      BY <1>1, <1>3 DEF Refuse, PullPublishes, PullFails, ReadArtifact, ReadRaises, Over
    <2> QED
      BY <1>1, <2>1
  <1>4. CASE Judge \/ ProbeFails
    <2>1. DataBlamed'
      BY <1>4, JudgingBlames
    <2>2. UNCHANGED <<run, json>> /\ json.run < run /\ pc' = "serve"
      BY <1>1, <1>4 DEF Judge, ProbeFails
    <2> QED
      BY <1>1, <2>1, <2>2
  <1>5. CASE SkipGate \/ GateRaises \/ WarmPass
    <2>1. DataBlamed' /\ ServeBlamed'
      BY <1>5, GateBlames
    <2>2. UNCHANGED <<run, json>> /\ json.run < run /\ pc' = "archive"
      BY <1>1, <1>5 DEF SkipGate, GateRaises, WarmPass, GateResult
    <2> QED
      BY <1>1, <2>1, <2>2
  <1>6. CASE Launch \/ ProcessExits \/ Ready \/ ColdPass
    <2>1. UNCHANGED <<inv, run, results, json, delivered, changes, outages, kills>>
          /\ (\/ pc' = pc
              \/ /\ pc' \in AtGate /\ pc \in {"serve"} \union AtGate /\ json.run < run
                 /\ inv.serve_gate /\ inv.spec.serve_gate_sql)
      BY <1>1, <1>6 DEF Launch, ProcessExits, Ready, ColdPass
    <2>2. (DataBlamed' <=> DataBlamed) /\ (ServeBlamed' <=> ServeBlamed)
      BY <2>1 DEF DataBlamed, ServeBlamed
    <2> QED
      BY <1>1, <2>1, <2>2
  <1>7. CASE ArchiveRefuses
    <2>1. UNCHANGED <<run, json>> /\ json.run < run /\ pc' = "over"
      BY <1>1, <1>7 DEF ArchiveRefuses, Over
    <2> QED
      BY <1>1, <2>1
  <1>8. CASE Archive \/ WriteJson \/ WriteMd
    <2>1. UNCHANGED <<inv, run, results, delivered, changes, outages, kills>>
          /\ pc \in Writing /\ pc' \in {"json", "md", "over"}
          /\ \/ pc' = "json" /\ json' = json /\ json.run < run
             \/ pc' \in {"md", "over"} /\ json' = [run |-> run, results |-> results]
      BY <1>1, <1>8 DEF Archive, WriteJson, WriteMd, Over, BatteryInv, PackInv, OwnPack
    <2>2. DataBlamed' /\ ServeBlamed'
      BY <2>1 DEF DataBlamed, ServeBlamed
    <2> QED
      BY <1>1, <2>1, <2>2
  <1>9. CASE SourceChanges \/ Killed
    <2>1. UNCHANGED <<inv, run, results, json, delivered, outages>>
          /\ changes' \in {changes, changes + 1} /\ kills' \in {kills, kills + 1}
          /\ (pc' = pc \/ pc' = "over")
      BY <1>9 DEF SourceChanges, Killed, Over
    <2>2. (DataBlamed => DataBlamed') /\ (ServeBlamed => ServeBlamed')
      BY <1>1, <2>1 DEF DataBlamed, ServeBlamed
    <2> QED
      BY <1>1, <2>1, <2>2
  <1>10. CASE NextRun
    <2>1. json' = json /\ run' = run + 1 /\ pc' = "start"
      BY <1>10 DEF NextRun
    <2> QED
      BY <1>1, <2>1
  <1>11. CASE UNCHANGED vars
    BY <1>11 DEF vars, DataBlamed, ServeBlamed
  <1> QED
    BY <1>2, <1>3, <1>4, <1>5, <1>6, <1>7, <1>8, <1>9, <1>10, <1>11 DEF Next

-----------------------------------------------------------------------------
(* The theorems about blame.                                               *)

\* At the start nothing is blamed.
LEMMA BlameInit == Init => PulledInv /\ Undisturbed /\ BlameInv
  <1> SUFFICES ASSUME Init PROVE Undisturbed /\ BlameInv
    BY PulledInit
  <1>1. json.run # run
    BY DEF Init, Unwritten
  <1> QED
    BY <1>1 DEF Init, Undisturbed, BlameInv, AtGate, Writing

\* The verdicts of a run that has written its pack tell its fault.
LEMMA BlameIsTold ==
  ASSUME BatteryInv, BlameInv, Telling(inv), json.run = run
  PROVE  /\ (inv.fault = "unstable_rows" => delivered = 2)
              => Blamed(inv.fault) \subseteq FailedIn(json)
         /\ changes = 0 /\ outages = 0 /\ kills = 0 => FailedIn(json) \subseteq Blamed(inv.fault)
  <1>1. DataBlamed /\ ServeBlamed /\ json.results = results
    BY DEF BlameInv
  <1>2. Blamed(inv.fault) \subseteq Checks
    <2> DEFINE f == inv.fault
    <2>1. f \in Faults /\ f # "drop_qty"
      BY <1>1 DEF Telling, DataBlamed
    <2> HIDE DEF f
    <2>2. Blamed(f) \subseteq Checks
      BY <2>1, BlamedChecks
    <2> QED
      BY <2>2 DEF f
  <1>3. FailedIn(json) = {c \in Checks : results[c].status = "FAIL"}
    BY <1>1 DEF FailedIn
  <1> QED
    BY <1>1, <1>2, <1>3 DEF DataBlamed, ServeBlamed, FoundIn, OnlyIn

\* The invariants of the battery, of its pulls, of the gate and of blame, together.
LEMMA BlameIsSound ==
  ASSUME \A i \in Invocations : Telling(i)
  PROVE  Spec => [](BatteryInv /\ BlameInv)
  <1>1. BatteryInv => Telling(inv)
    BY DEF BatteryInv
  <1>2. BatteryInv /\ PulledInv /\ Undisturbed /\ BlameInv /\ [Next]_vars
          => (PulledInv /\ Undisturbed /\ BlameInv)'
    BY <1>1, PulledStep, UndisturbedStep, BlameStep
  <1> QED
    BY <1>2, BlameInit, BatteryIsSound, PTL DEF Spec

\* No fault of a driver, a sink, a server or a committed file is ever recorded as green,
\* whatever else goes wrong, for every table whose committed entries can tell it
\* (MECHANISMS, conformance.run).
THEOREM FaultsAreNeverGreen ==
  ASSUME \A i \in Invocations : Telling(i)
  PROVE  Spec => []FaultsAreFound
  <1>1. BatteryInv /\ BlameInv => FaultsAreFound
    BY BlameIsTold DEF FaultsAreFound, BatteryInv
  <1> QED
    BY <1>1, BlameIsSound, PTL

\* The pack of an undisturbed run blames a fault on the checks that own it and on no
\* other, for every such table; a faithful driver is green (MECHANISMS).
THEOREM BlameIsOnItsChecks ==
  ASSUME \A i \in Invocations : Telling(i)
  PROVE  Spec => []BlameIsExact
  <1>1. BatteryInv /\ BlameInv => BlameIsExact
    <2> SUFFICES ASSUME BatteryInv, BlameInv, json.run = run, changes = 0, outages = 0, kills = 0
                 PROVE  FailedIn(json) = Blamed(inv.fault)
      BY DEF BlameIsExact
    <2>1. inv.fault = "unstable_rows" => delivered = 2
      BY DEF BlameInv, DataBlamed
    <2> QED
      BY <2>1, BlameIsTold DEF BatteryInv
  <1> QED
    BY <1>1, BlameIsSound, PTL
=============================================================================
