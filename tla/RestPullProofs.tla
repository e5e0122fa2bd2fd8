--------------------------- MODULE RestPullProofs ---------------------------
(***************************************************************************)
(* Theorems of RestPull, for every book, cap and number of retries: types, *)
(* whole tables, bindings that read the right payload, and pulls that only *)
(* go forward.                                                             *)
(***************************************************************************)
EXTENDS RestPull, SequenceTheorems, TLAPS

-----------------------------------------------------------------------------
(* The inductive invariant.                                                *)

\* A table that may be handed to the daemon.
Whole(run) ==
    \A i \in 1..Len(run) :
        /\ run[i].step = Len(Threading)
        /\ run[i].page = i
        /\ run[i].more <=> i < Len(run)

\* What a recipe has read so far: all pages before the one it asks for, none of
\* which the provider has called the last (unless it pages by number).
ReadSoFar ==
    pc = "paging" =>
        /\ Len(records) = page - 1
        /\ first = IF page = 1 THEN 0 ELSE 1
        /\ \A i \in 1..(page - 1) :
               /\ records[i].step = step
               /\ records[i].page = i
               /\ kind[Threading[step]] # "page" => records[i].more

Latest(r, j) ==
    /\ Threading[j] = r
    /\ \A k \in (j + 1)..(step - 1) : Threading[k] # r

\* Every recipe that has run in this attempt has left the first page of its latest run.
LatestPayloads ==
    pc \in {"binding", "paging"} =>
        \A r \in Recipes :
            (\E j \in 1..(step - 1) : Threading[j] = r)
                => \E j \in 1..(step - 1) : Latest(r, j) /\ payloads[r] = [step |-> j, page |-> 1]

PullInv ==
    /\ TypeOK
    /\ pc = "sleeping" => attempt < RetryLimit
    /\ ReadSoFar
    /\ pc = "converting" => Whole(records)
    /\ Whole(table)
    /\ LatestPayloads

-----------------------------------------------------------------------------
\* What one more page does to the pages read (run_recipe).
LEMMA PageIsAppended ==
    ASSUME NEW r \in Recipes, TypeOK, ReadPage(r)
    PROVE  /\ records' \in Seq(Records)
           /\ Len(records') = Len(records) + 1
           /\ \A i \in 1..Len(records) : records'[i] = records[i]
           /\ records'[Len(records) + 1] =
                  [step |-> step, page |-> page, more |-> page < extent[r]]
           /\ first' \in 0..MaxPages
  <1> DEFINE e == [step |-> step, page |-> page, more |-> page < extent[r]]
  <1>1. e \in Records
    BY DEF TypeOK, Records
  <1>2. records' = Append(records, e)
    BY DEF ReadPage
  <1>3. records \in Seq(Records)
    BY DEF TypeOK
  <1>4. first' \in 0..MaxPages
    BY RestAssumption DEF ReadPage, FirstPayload, TypeOK
  <1> HIDE DEF e
  <1>5. /\ records' \in Seq(Records)
        /\ Len(records') = Len(records) + 1
        /\ \A i \in 1..Len(records) : records'[i] = records[i]
        /\ records'[Len(records) + 1] = e
    BY <1>1, <1>2, <1>3, AppendProperties
  <1> QED BY <1>4, <1>5 DEF e

\* An attempt that fails changes nothing that was read (run_book).
LEMMA FailureKeepsTheInvariant ==
    ASSUME PullInv, AttemptFails, UNCHANGED <<kind, extent, changes>>,
           faults' \in 0..MaxFaults
    PROVE  PullInv'
  <1>1. pc' \in {"sleeping", "failed"}
    BY DEF AttemptFails
  <1>2. TypeOK'
    BY <1>1 DEF PullInv, TypeOK, AttemptFails, progress, Resting
  <1>3. Whole(table)'
    BY DEF PullInv, AttemptFails, Whole
  <1>4. pc' = "sleeping" => attempt' < RetryLimit
    BY DEF AttemptFails
  <1> QED BY <1>1, <1>2, <1>3, <1>4 DEF PullInv, ReadSoFar, LatestPayloads

\* An attempt starts with nothing of the one before it (run_book).
LEMMA AttemptsStartAnew ==
    ASSUME PullInv, RunBook, attempt' \in 0..RetryLimit, UNCHANGED <<book, table>>
    PROVE  PullInv'
  <1>1. /\ pc' = "binding"
        /\ step' = 1
        /\ page' = 1
        /\ first' = 0
        /\ records' = <<>>
        /\ payloads' = [r \in Recipes |-> NoPayload]
    BY DEF RunBook
  <1>2. 1 \in Steps /\ 1 \in 1..MaxPages
    BY RestAssumption DEF Steps
  <1>3. NoPayload \in [step : 0..Len(Threading), page : 0..MaxPages]
    BY RestAssumption DEF NoPayload
  <1>4. TypeOK'
    BY <1>1, <1>2, <1>3, RestAssumption DEF PullInv, TypeOK, book
  <1>5. LatestPayloads'
    BY <1>1 DEF LatestPayloads
  <1>6. Whole(table)'
    BY DEF PullInv, Whole
  <1> QED BY <1>1, <1>4, <1>5, <1>6 DEF PullInv, ReadSoFar

LEMMA InitEstablishes == Init => PullInv
  <1> SUFFICES ASSUME Init PROVE PullInv
    OBVIOUS
  <1>1. 1 \in Steps /\ 1 \in 1..MaxPages
    BY RestAssumption DEF Steps
  <1>2. NoPayload \in [step : 0..Len(Threading), page : 0..MaxPages]
    BY RestAssumption DEF NoPayload
  <1>3. TypeOK
    BY <1>1, <1>2, RestAssumption DEF Init, TypeOK, Resting
  <1> QED BY <1>3 DEF Init, PullInv, ReadSoFar, LatestPayloads, Whole

LEMMA NextPageKeeps == PullInv /\ NextPage => PullInv'
  <1> SUFFICES ASSUME PullInv, NextPage PROVE PullInv'
    OBVIOUS
  <1> DEFINE r == Threading[step]
  <1>1. r \in Recipes
    BY RestAssumption DEF PullInv, TypeOK, Steps
  <1>2. ReadPage(r)
    BY DEF NextPage
  <1>3. TypeOK /\ ReadSoFar /\ pc = "paging"
    BY DEF PullInv, NextPage
  <1>4. /\ records' \in Seq(Records)
        /\ Len(records') = Len(records) + 1
        /\ \A i \in 1..Len(records) : records'[i] = records[i]
        /\ records'[Len(records) + 1] =
               [step |-> step, page |-> page, more |-> page < extent[r]]
        /\ first' \in 0..MaxPages
    BY <1>1, <1>2, <1>3, PageIsAppended
  <1>5. /\ page' = page + 1
        /\ page # MaxPages
        /\ pc' = pc
        /\ UNCHANGED <<kind, extent, faults, changes, attempt, step, payloads, table>>
    BY DEF NextPage, ReachesCap, book
  <1>6. page \in 1..MaxPages /\ page' \in 1..MaxPages
    BY <1>3, <1>5, RestAssumption DEF TypeOK
  <1>7. TypeOK'
    BY <1>3, <1>4, <1>5, <1>6 DEF TypeOK
  <1>8. ReadSoFar'
    <2>1. Len(records') = page' - 1
      BY <1>3, <1>4, <1>5, <1>6 DEF ReadSoFar
    <2>2. first' = IF page' = 1 THEN 0 ELSE 1
      <3>1. first = IF page = 1 THEN 0 ELSE 1
        BY <1>3 DEF ReadSoFar
      <3>2. first' = IF first = 0 THEN page ELSE first
        BY <1>2 DEF ReadPage, FirstPayload
      <3>3. page \in Nat /\ page # 0 /\ page' = page + 1
        BY <1>5, <1>6, RestAssumption
      <3> QED BY <3>1, <3>2, <3>3
    <2>3. kind[r] # "page" => page < extent[r]
      BY DEF NextPage, HasNext
    <2>4. ASSUME NEW i \in 1..(page' - 1)
          PROVE  /\ records'[i].step = step'
                 /\ records'[i].page = i
                 /\ kind'[Threading[step']] # "page" => records'[i].more
      <3>1. CASE i = page
        <4>1. Len(records) + 1 = page
          BY <1>3, <1>6, RestAssumption DEF ReadSoFar
        <4>2. records'[i] = [step |-> step, page |-> page, more |-> page < extent[r]]
          BY <3>1, <4>1, <1>4
        <4>3. records'[i].step = step /\ records'[i].page = page
          BY <4>2
        <4>4. records'[i].more = (page < extent[r])
          BY <4>2
        <4> QED BY <3>1, <4>3, <4>4, <2>3, <1>5
      <3>2. CASE i # page
        <4>1. i \in 1..(page - 1) /\ i \in 1..Len(records)
          BY <3>2, <1>3, <1>5, <1>6 DEF ReadSoFar
        <4> QED BY <4>1, <1>3, <1>4, <1>5 DEF ReadSoFar
      <3> QED BY <3>1, <3>2
    <2> QED BY <2>1, <2>2, <2>4 DEF ReadSoFar
  <1>9. LatestPayloads'
    BY <1>3, <1>5 DEF PullInv, LatestPayloads, Latest
  <1>10. Whole(table)'
    BY <1>5 DEF PullInv, Whole
  <1> QED BY <1>3, <1>5, <1>7, <1>8, <1>9, <1>10 DEF PullInv

LEMMA RecipeEndsKeeps == PullInv /\ RecipeEnds => PullInv'
  <1> SUFFICES ASSUME PullInv, RecipeEnds PROVE PullInv'
    OBVIOUS
  <1> DEFINE r == Threading[step]
             last == [step |-> step, page |-> FirstPayload]
  <1>1. r \in Recipes /\ step \in 1..Len(Threading) /\ Len(Threading) \in Nat
    BY RestAssumption DEF PullInv, TypeOK, Steps
  <1>2. ReadPage(r) /\ ~HasNext(r)
    BY DEF RecipeEnds
  <1>3. TypeOK /\ ReadSoFar /\ LatestPayloads /\ pc = "paging"
    BY DEF PullInv, RecipeEnds
  <1>4. /\ records' \in Seq(Records)
        /\ Len(records') = Len(records) + 1
        /\ \A i \in 1..Len(records) : records'[i] = records[i]
        /\ records'[Len(records) + 1] =
               [step |-> step, page |-> page, more |-> page < extent[r]]
        /\ first' \in 0..MaxPages
    BY <1>1, <1>2, <1>3, PageIsAppended
  <1>5. /\ UNCHANGED <<kind, extent, faults, changes, attempt, page, table>>
        /\ payloads' = [payloads EXCEPT ![r] = last]
        /\ \/ step < Len(Threading) /\ step' = step + 1 /\ pc' = "binding"
           \/ step = Len(Threading) /\ step' = step /\ pc' = "converting"
    BY DEF RecipeEnds, book
  <1>6. last = [step |-> step, page |-> 1]
    BY <1>3, RestAssumption DEF ReadSoFar, FirstPayload, TypeOK
  <1>7. kind[r] # "page" /\ ~(page < extent[r])
    BY <1>2 DEF HasNext
  <1>8. TypeOK'
    <2>1. step' \in Steps
      BY <1>1, <1>5 DEF Steps
    <2>2. last \in [step : 0..Len(Threading), page : 0..MaxPages]
      BY <1>1, <1>6, RestAssumption
    <2>3. payloads' \in [Recipes -> [step : 0..Len(Threading), page : 0..MaxPages]]
      <3> HIDE DEF last
      <3> QED BY <1>1, <1>3, <1>5, <2>2 DEF TypeOK
    <2>4. pc' \in {"binding", "converting"}
      BY <1>5
    <2> QED BY <1>3, <1>4, <1>5, <2>1, <2>3, <2>4 DEF TypeOK
  <1>9. pc' = "converting" => Whole(records)'
    <2> SUFFICES ASSUME step = Len(Threading), NEW i \in 1..Len(records')
                 PROVE  /\ records'[i].step = Len(Threading)
                        /\ records'[i].page = i
                        /\ records'[i].more <=> i < Len(records')
      BY <1>5 DEF Whole
    <2>1. Len(records') = page /\ Len(records) = page - 1 /\ page \in 1..MaxPages
      BY <1>3, <1>4, RestAssumption DEF ReadSoFar, TypeOK
    <2>2. CASE i = page
      <3>1. records'[i] = [step |-> step, page |-> page, more |-> page < extent[r]]
        BY <2>1, <2>2, <1>4
      <3>2. records'[i].step = step /\ records'[i].page = page
        BY <3>1
      <3>3. records'[i].more = (page < extent[r])
        BY <3>1
      <3>4. ~records'[i].more
        BY <3>3, <1>7, Zenon
      <3>5. page = i /\ ~(i < Len(records'))
        BY <2>1, <2>2, RestAssumption
      <3> QED BY <3>2, <3>4, <3>5
    <2>3. CASE i # page
      <3>1. i \in 1..(page - 1) /\ i \in 1..Len(records) /\ i < Len(records')
        BY <2>1, <2>3, RestAssumption
      <3> QED BY <3>1, <1>3, <1>4, <1>7 DEF ReadSoFar
    <2> QED BY <2>2, <2>3
  <1>10. LatestPayloads'
    <2> SUFFICES ASSUME step < Len(Threading), step' = step + 1,
                        NEW q \in Recipes, NEW j \in 1..step, Threading[j] = q
                 PROVE  \E i \in 1..step : /\ Threading[i] = q
                                           /\ \A k \in (i + 1)..step : Threading[k] # q
                                           /\ payloads'[q] = [step |-> i, page |-> 1]
      BY <1>1, <1>5 DEF LatestPayloads, Latest
    <2>1. CASE q = r
      <3>1. payloads'[q] = [step |-> step, page |-> 1]
        BY <2>1, <1>1, <1>3, <1>5, <1>6 DEF TypeOK
      <3>2. step \in 1..step /\ \A k \in (step + 1)..step : FALSE
        BY <1>1
      <3> QED BY <2>1, <3>1, <3>2
    <2>2. CASE q # r
      <3>1. j \in 1..(step - 1)
        BY <2>2, <1>1
      <3>2. PICK i \in 1..(step - 1) : Latest(q, i) /\ payloads[q] = [step |-> i, page |-> 1]
        BY <3>1, <1>3 DEF LatestPayloads
      <3>3. payloads'[q] = payloads[q]
        BY <2>2, <1>3, <1>5 DEF TypeOK
      <3>4. \A k \in (i + 1)..step : Threading[k] # q
        BY <2>2, <3>2, <1>1 DEF Latest
      <3>5. i \in 1..step
        BY <3>2, <1>1
      <3> QED BY <3>2, <3>3, <3>4, <3>5 DEF Latest
    <2> QED BY <2>1, <2>2
  <1>11. Whole(table)'
    BY <1>5 DEF PullInv, Whole
  <1>12. pc' # "paging" /\ pc' # "sleeping"
    BY <1>5
  <1> QED BY <1>8, <1>9, <1>10, <1>11, <1>12 DEF PullInv, ReadSoFar

LEMMA StepKeeps == PullInv /\ [Next]_vars => PullInv'
  <1> SUFFICES ASSUME PullInv, [Next]_vars PROVE PullInv'
    OBVIOUS
  <1>1. CASE StartPull
    <2>1. attempt' \in 0..RetryLimit
      BY <1>1, RestAssumption DEF StartPull
    <2> QED BY <1>1, <2>1, AttemptsStartAnew DEF StartPull
  <1>2. CASE RetryDelayExpires
    <2>1. attempt' \in 0..RetryLimit
      BY <1>2, RestAssumption DEF RetryDelayExpires, PullInv, TypeOK
    <2> QED BY <1>2, <2>1, AttemptsStartAnew DEF RetryDelayExpires
  <1>3. CASE Bind
    <2>1. /\ pc = "binding" /\ pc' = "paging"
          /\ page' = 1 /\ first' = 0 /\ records' = <<>>
          /\ UNCHANGED <<kind, extent, faults, changes, attempt, step, payloads, table>>
      BY <1>3 DEF Bind, book
    <2>2. TypeOK'
      BY <2>1, RestAssumption DEF PullInv, TypeOK
    <2>3. LatestPayloads'
      BY <2>1 DEF PullInv, LatestPayloads, Latest
    <2>4. ReadSoFar'
      BY <2>1 DEF ReadSoFar
    <2>5. Whole(table)'
      BY <2>1 DEF PullInv, Whole
    <2> QED BY <2>1, <2>2, <2>3, <2>4, <2>5 DEF PullInv
  <1>4. CASE NextPage
    BY <1>4, NextPageKeeps
  <1>5. CASE RecipeEnds
    BY <1>5, RecipeEndsKeeps
  <1>6. CASE CapReached
    BY <1>6, FailureKeepsTheInvariant DEF CapReached, book, PullInv, TypeOK
  <1>7. CASE Deliver
    <2>1. /\ pc = "converting" /\ pc' = "delivered" /\ table' = records
          /\ UNCHANGED <<kind, extent, faults, changes, attempt>>
          /\ UNCHANGED <<step, page, first, records, payloads>>
      BY <1>7 DEF Deliver, book, progress
    <2>2. TypeOK'
      BY <2>1 DEF PullInv, TypeOK, Resting
    <2>3. Whole(table)'
      BY <2>1 DEF PullInv, Whole
    <2> QED BY <2>1, <2>2, <2>3 DEF PullInv, ReadSoFar, LatestPayloads
  <1>8. CASE BindingMissing \/ PageRefused \/ ConversionFails
    <2>1. Fault /\ AttemptFails
      BY <1>8 DEF BindingMissing, PageRefused, ConversionFails
    <2>2. faults' \in 0..MaxFaults
      BY <2>1, RestAssumption DEF Fault, PullInv, TypeOK
    <2> QED BY <2>1, <2>2, FailureKeepsTheInvariant DEF Fault
  <1>9. ASSUME NEW r \in Recipes, ProviderChanges(r) PROVE PullInv'
    <2>1. /\ UNCHANGED <<kind, faults, pc, attempt, table>>
          /\ UNCHANGED <<step, page, first, records, payloads>>
      BY <1>9 DEF ProviderChanges, progress
    <2>2. changes' \in 0..MaxChanges
      BY <1>9, RestAssumption DEF ProviderChanges, PullInv, TypeOK
    <2>3. extent' \in [Recipes -> 1..(MaxPages + 1)]
      <3>1. PICK n \in Extents(kind[r]) : extent' = [extent EXCEPT ![r] = n]
        BY <1>9 DEF ProviderChanges
      <3>2. n \in 1..(MaxPages + 1)
        BY RestAssumption DEF Extents
      <3> QED BY <3>1, <3>2 DEF PullInv, TypeOK
    <2>4. TypeOK'
      BY <2>1, <2>2, <2>3 DEF PullInv, TypeOK
    <2>5. ReadSoFar' /\ LatestPayloads' /\ Whole(table)' /\ (pc = "converting" => Whole(records)')
      BY <2>1 DEF PullInv, ReadSoFar, LatestPayloads, Latest, Whole
    <2> QED BY <2>1, <2>4, <2>5 DEF PullInv
  <1>10. CASE UNCHANGED vars
    BY <1>10 DEF PullInv, TypeOK, ReadSoFar, LatestPayloads, Latest, Whole, vars, book, progress
  <1> QED BY <1>1, <1>2, <1>3, <1>4, <1>5, <1>6, <1>7, <1>8, <1>9, <1>10 DEF Next, Pulls

THEOREM PullInvariant == Spec => []PullInv
  <1> QED BY InitEstablishes, StepKeeps, PTL DEF Spec

-----------------------------------------------------------------------------
(* The theorems.                                                           *)

\* No page, retry or recorded payload leaves its range, whatever the provider does
\* (run_recipe, _run_with_retries).
THEOREM RestTypeCorrect == Spec => []TypeOK
  <1>1. PullInv => TypeOK
    BY DEF PullInv
  <1> QED BY <1>1, PullInvariant, PTL

\* The table is never cut short, mixed or repeated, for any book, page cap, number of
\* retries, refusal or change at the provider (run_book, run_recipe).
THEOREM TablesAreWhole == Spec => []TableIsWhole
  <1>1. PullInv => TableIsWhole
    BY DEF PullInv, Whole, TableIsWhole
  <1> QED BY <1>1, PullInvariant, PTL

\* Bindings read the first page of the latest run of the recipe they name, for any
\* threading that the loader admits (run_book, parse_book).
THEOREM BindingsReadFirstPages == Spec => []BindingsAreFirstPages
  <1>1. PullInv => BindingsAreFirstPages
    <2> SUFFICES ASSUME PullInv, pc = "paging", NEW r \in Reads[step]
                 PROVE  \E j \in 1..(step - 1) :
                            /\ Threading[j] = r
                            /\ \A k \in (j + 1)..(step - 1) : Threading[k] # r
                            /\ payloads[r] = [step |-> j, page |-> 1]
      BY DEF BindingsAreFirstPages
    <2>1. step \in 1..Len(Threading)
      BY DEF PullInv, TypeOK, Steps
    <2>2. r \in Recipes /\ \E j \in 1..(step - 1) : Threading[j] = r
      BY <2>1, RestAssumption
    <2> QED BY <2>2 DEF PullInv, LatestPayloads, Latest
  <1> QED BY <1>1, PullInvariant, PTL

-----------------------------------------------------------------------------
(* What PullEnds rests on: within a pull there is only one direction.      *)

\* The attempt, its backoff, the step and its conversion, the page.
Place ==
    <<attempt,
      IF pc = "sleeping" THEN 1 ELSE 0,
      IF pc = "converting" THEN step + 1 ELSE step,
      IF pc = "paging" THEN page ELSE 0>>

Places == (0..RetryLimit) \X {0, 1} \X (1..(Len(Threading) + 1)) \X (0..MaxPages)

\* The lexicographic order of places, in which no place of Places has infinitely
\* many behind it.
Further(p, q) ==
    \/ p[1] < q[1]
    \/ p[1] = q[1] /\ p[2] < q[2]
    \/ p[1] = q[1] /\ p[2] = q[2] /\ p[3] < q[3]
    \/ p[1] = q[1] /\ p[2] = q[2] /\ p[3] = q[3] /\ p[4] < q[4]

Advances ==
    pc \notin Resting /\ pc' \notin Resting =>
        /\ Place \in Places /\ Place' \in Places
        /\ UNCHANGED <<pc, attempt, progress>> \/ Further(Place, Place')

LEMMA PlacesAreBounded == TypeOK => Place \in Places
  <1> SUFFICES ASSUME TypeOK PROVE Place \in Places
    OBVIOUS
  <1>1. attempt \in 0..RetryLimit /\ step \in 1..Len(Threading) /\ page \in 1..MaxPages
    BY DEF TypeOK, Steps
  <1>2. Len(Threading) \in Nat /\ MaxPages \in Nat
    BY RestAssumption, LenProperties
  <1>3. (IF pc = "converting" THEN step + 1 ELSE step) \in 1..(Len(Threading) + 1)
    BY <1>1, <1>2
  <1>4. (IF pc = "paging" THEN page ELSE 0) \in 0..MaxPages
    BY <1>1, <1>2
  <1> QED
    BY <1>1, <1>3, <1>4 DEF Place, Places

LEMMA StepsGoFurther ==
  ASSUME TypeOK, [Next]_vars, pc \notin Resting, pc' \notin Resting
  PROVE  UNCHANGED <<pc, attempt, progress>> \/ Further(Place, Place')
  <1>1. attempt \in Nat /\ step \in Nat /\ page \in Nat \ {0}
    BY RestAssumption, LenProperties DEF TypeOK, Steps
  <1>2. CASE StartPull \/ Deliver
    BY <1>2 DEF StartPull, Deliver, Resting
  <1>3. CASE RetryDelayExpires
    <2>1. attempt' = attempt + 1
      BY <1>3 DEF RetryDelayExpires
    <2> QED
      BY <1>1, <2>1 DEF Place, Further
  <1>4. CASE Bind
    <2>1. /\ pc = "binding" /\ pc' = "paging" /\ page' = 1
          /\ UNCHANGED <<attempt, step>>
      BY <1>4 DEF Bind
    <2> QED
      BY <1>1, <2>1 DEF Place, Further
  <1>5. CASE NextPage
    <2>1. /\ pc = "paging" /\ pc' = "paging" /\ page' = page + 1
          /\ UNCHANGED <<attempt, step>>
      BY <1>5 DEF NextPage
    <2> QED
      BY <1>1, <2>1 DEF Place, Further
  <1>6. CASE RecipeEnds
    <2>1. /\ pc = "paging" /\ attempt' = attempt
          /\ \/ pc' = "binding" /\ step' = step + 1
             \/ pc' = "converting" /\ step' = step
      BY <1>6 DEF RecipeEnds
    <2> QED
      BY <1>1, <2>1 DEF Place, Further
  <1>7. CASE BindingMissing \/ PageRefused \/ ConversionFails \/ CapReached
    <2>1. pc # "sleeping" /\ AttemptFails
      BY <1>7 DEF BindingMissing, PageRefused, ConversionFails, CapReached
    <2>2. pc' = "sleeping" /\ attempt' = attempt
      BY <2>1 DEF AttemptFails, Resting
    <2> QED
      BY <1>1, <2>1, <2>2 DEF Place, Further
  <1>8. ASSUME NEW r \in Recipes, ProviderChanges(r)
        PROVE  UNCHANGED <<pc, attempt, progress>>
    BY <1>8 DEF ProviderChanges
  <1>9. CASE UNCHANGED vars
    BY <1>9 DEF vars
  <1> QED
    BY <1>2, <1>3, <1>4, <1>5, <1>6, <1>7, <1>8, <1>9 DEF Next, Pulls

\* A pull under way never stands still and never goes back, and the places it may
\* reach are finitely many, although page cap and retries multiply and whatever the
\* provider changes under it (run_recipe, run_book, _run_with_retries).
THEOREM PullsOnlyAdvance == Spec => [][Advances]_vars
  <1>1. PullInv => Place \in Places
    BY PlacesAreBounded DEF PullInv
  <1>2. /\ PullInv
        /\ Place \in Places /\ (Place \in Places)'
        /\ [Next]_vars
        => Advances
    <2> SUFFICES ASSUME PullInv, [Next]_vars, pc \notin Resting, pc' \notin Resting
                 PROVE  UNCHANGED <<pc, attempt, progress>> \/ Further(Place, Place')
      BY DEF Advances, Places
    <2> QED
      BY StepsGoFurther DEF PullInv
  <1> QED
    BY <1>1, <1>2, PullInvariant, PTL DEF Spec
=============================================================================
