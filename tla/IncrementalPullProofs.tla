----------------------- MODULE IncrementalPullProofs -----------------------
(***************************************************************************)
(* Theorems about IncrementalPull, for every set of rows, every dialect,   *)
(* every set of settings and any number of faults.                         *)
(***************************************************************************)
EXTENDS IncrementalPull, FiniteSetTheorems, TLAPS

Mishaps == interrupts + switches

\* The driver's result is past the watermark, and the watermark it returned is
\* that of its greatest row.  A table that has a watermark and is a full refresh
\* has been switched.
PullInv ==
    /\ TypeOK
    /\ step # "idle" => NewWatermark(batch, next)
    /\ step # "idle" /\ Incremental => \A r \in batch : Past(r, wm)
    /\ wm # NoWatermark /\ ~Incremental => switches > 0
    /\ wm.kind = "none" => wm = NoWatermark

LEMMA RowsAreTyped ==
  \A r \in Rows : /\ r.key \in Nat /\ r.pk \in Nat
                  /\ KeyOf(r) \in Watermarks /\ CursorOf(r) \in Watermarks
  BY IncrementalAssumption DEF KeyOf, CursorOf, Watermarks

LEMMA NoWatermarkIsOne == NoWatermark \in Watermarks
  BY DEF NoWatermark, Watermarks

LEMMA WatermarksAreTyped ==
  \A w \in Watermarks : w.key \in Nat /\ w.pk \in Nat /\ w.kind \in {"none", "key", "cursor"}
  BY DEF Watermarks

\* What a pull returns is a watermark of the same kind of record.
LEMMA NewWatermarkIsOne ==
  ASSUME NEW S \in SUBSET Rows, wm \in Watermarks, NEW w, NewWatermark(S, w)
  PROVE  w \in Watermarks
  BY RowsAreTyped DEF NewWatermark

LEMMA PullInit == Init => PullInv
  <1> SUFFICES ASSUME Init PROVE PullInv
    OBVIOUS
  <1>1. TypeOK
    BY IncrementalAssumption, NoWatermarkIsOne DEF Init, TypeOK
  <1> QED
    BY <1>1 DEF Init, PullInv, NoWatermark

LEMMA PullStep == PullInv /\ [Next]_vars => PullInv'
  <1> SUFFICES ASSUME PullInv, [Next]_vars PROVE PullInv'
    OBVIOUS
  <1>a. TypeOK
    BY DEF PullInv
  <1>b. \A m \in Nat : \A i \in 0..m : i < m => i + 1 \in 0..m
    OBVIOUS
  <1>1. ASSUME NEW r \in Rows, Commit(r) PROVE PullInv'
    BY <1>1, <1>a DEF Commit, PullInv, TypeOK, bounds, NewWatermark, Incremental, UsesCursor,
       limit, Past
  <1>2. CASE Fetch
    <2>1. PICK S \in SUBSET source : Selects(S) /\ batch' = S /\ NewWatermark(S, next')
      BY <1>2 DEF Fetch
    <2>2. next' \in Watermarks
      BY <2>1, <1>a, NewWatermarkIsOne DEF TypeOK
    <2>3. /\ UNCHANGED <<source, setting, wm, file, interrupts, unmerged, stateLosses,
                         reconfigs, switches>>
          /\ step' = "fetched"
      BY <1>2 DEF Fetch, bounds
    <2>4. TypeOK'
      BY <2>1, <2>2, <2>3, <1>a DEF TypeOK
    <2>5. NewWatermark(batch, next)'
      BY <2>1, <2>3 DEF NewWatermark, Incremental, UsesCursor, limit
    <2>6. (Incremental => \A r \in batch : Past(r, wm))'
      BY <2>1, <2>3 DEF Selects, Incremental, Past
    <2> QED
      BY <2>3, <2>4, <2>5, <2>6 DEF PullInv, Incremental, NewWatermark, UsesCursor, limit
  <1>3. CASE Publish \/ PublishUnmerged
    <2>1. /\ step = "fetched" /\ step' = "published"
          /\ UNCHANGED <<source, setting, wm, batch, next, interrupts, stateLosses,
                         reconfigs, switches>>
      BY <1>3 DEF Publish, PublishUnmerged, bounds
    <2>2. file' \in [Rows -> Nat]
      BY <1>3, <1>a DEF Publish, PublishUnmerged, Extend, Replace, TypeOK
    <2>3. unmerged' \in 0..MaxUnmerged
      BY <1>3, <1>a, <1>b, IncrementalAssumption DEF Publish, PublishUnmerged, TypeOK, bounds
    <2>4. TypeOK'
      BY <2>1, <2>2, <2>3, <1>a DEF TypeOK
    <2> QED
      BY <2>1, <2>4 DEF PullInv, NewWatermark, Incremental, UsesCursor, limit, Past
  <1>4. CASE Advance
    <2>1. /\ step = "published" /\ wm' = next /\ step' = "idle" /\ batch' = {}
          /\ UNCHANGED <<source, setting, file, next, interrupts, unmerged, stateLosses,
                         reconfigs, switches>>
      BY <1>4 DEF Advance, bounds
    <2>2. TypeOK'
      BY <2>1, <1>a DEF TypeOK
    <2>3. next.kind = "none" => next = NoWatermark
      BY <2>1 DEF PullInv, NewWatermark, KeyOf, CursorOf
    <2>4. next # NoWatermark /\ ~Incremental => switches > 0
      BY <2>1 DEF PullInv, NewWatermark
    <2> QED
      BY <2>1, <2>2, <2>3, <2>4 DEF PullInv, Incremental
  <1>5. CASE Interrupt
    <2>1. interrupts' \in 0..MaxInterrupts
      BY <1>5, <1>a, <1>b, IncrementalAssumption DEF Interrupt, TypeOK
    <2> QED
      BY <1>5, <1>a, <2>1 DEF Interrupt, PullInv, TypeOK, Incremental
  <1>6. CASE LoseState
    <2>1. stateLosses' \in 0..MaxStateLosses
      BY <1>6, <1>a, <1>b, IncrementalAssumption DEF LoseState, TypeOK
    <2> QED
      BY <1>6, <1>a, <2>1, NoWatermarkIsOne DEF LoseState, PullInv, TypeOK, Incremental
  <1>7. ASSUME NEW st \in Settings, Reconfigure(st) PROVE PullInv'
    <2>1. reconfigs' \in 0..MaxReconfigs /\ switches' \in 0..MaxSwitches
      BY <1>7, <1>a, <1>b, IncrementalAssumption DEF Reconfigure, TypeOK
    <2>2. TypeOK'
      BY <1>7, <1>a, <2>1 DEF Reconfigure, TypeOK
    <2>3. step' = "idle" /\ wm' = wm /\ setting' = st
      BY <1>7 DEF Reconfigure
    <2>4. setting.mode # st.mode => switches' > 0
      BY <1>7, <1>a DEF Reconfigure, TypeOK
    <2>5. setting.mode = st.mode => switches' = switches
      BY <1>7 DEF Reconfigure
    <2> QED
      BY <2>2, <2>3, <2>4, <2>5 DEF PullInv, Incremental
  <1>8. CASE UNCHANGED vars
    BY <1>8, <1>a DEF vars, bounds, PullInv, TypeOK, NewWatermark, Incremental, UsesCursor,
       limit, Past
  <1> QED
    BY <1>1, <1>2, <1>3, <1>4, <1>5, <1>6, <1>7, <1>8 DEF Next

\* The shape of a pull under way.
THEOREM PullIsSound == Spec => []PullInv
  BY PullInit, PullStep, PTL DEF Spec

\* Every variable keeps its type; what a pull stores is a watermark.
THEOREM PullTypeCorrect == Spec => []TypeOK
  <1>1. PullInv => TypeOK
    BY DEF PullInv
  <1> QED
    BY <1>1, PullIsSound, PTL

-----------------------------------------------------------------------------
(* Order *)

\* Rows that differ differ in the order of the cursor.
LEMMA OrderIsTotal ==
  ASSUME NEW r \in Rows, NEW s \in Rows, r # s
  PROVE  Before(r, s) \/ Before(s, r)
  BY RowsAreTyped, IncrementalAssumption DEF Before

\* A result is not past its own watermark.
LEMMA BatchIsPassed ==
  ASSUME TypeOK, NewWatermark(batch, next), Incremental, NEW r \in batch
  PROVE  ~Past(r, next)
  <1>1. PICK last \in batch : /\ \A s \in batch : s = last \/ Before(s, last)
                              /\ next = IF UsesCursor THEN CursorOf(last) ELSE KeyOf(last)
    BY DEF NewWatermark
  <1>2. r = last \/ Before(r, last)
    BY <1>1
  <1>3. r \in Rows /\ last \in Rows
    BY DEF TypeOK
  <1>4. r.key \in Nat /\ r.pk \in Nat /\ last.key \in Nat /\ last.pk \in Nat
    BY <1>3, RowsAreTyped
  <1>5. /\ next.key = last.key
        /\ next.kind = "cursor" => next.pk = last.pk
        /\ next.kind # "none"
    <2>1. CASE UsesCursor
      BY <1>1, <2>1 DEF CursorOf
    <2>2. CASE ~UsesCursor
      BY <1>1, <2>2 DEF KeyOf
    <2> QED
      BY <2>1, <2>2
  <1>6. CASE r = last
    BY <1>4, <1>5, <1>6 DEF Past
  <1>7. CASE Before(r, last)
    BY <1>4, <1>5, <1>7 DEF Past, Before
  <1> QED
    BY <1>2, <1>6, <1>7

\* Watermarks go up: what is past the new one was past the old one.
LEMMA WatermarkGoesUp ==
  ASSUME TypeOK, NewWatermark(batch, next), Incremental => \A r \in batch : Past(r, wm),
         NEW r \in Rows, Past(r, next)
  PROVE  Past(r, wm)
  <1>1. CASE batch = {} \/ ~Incremental
    BY <1>1 DEF NewWatermark
  <1>2. CASE batch # {} /\ Incremental
    <2>1. PICK last \in batch : next = IF UsesCursor THEN CursorOf(last) ELSE KeyOf(last)
      BY <1>2 DEF NewWatermark
    <2>2. Past(last, wm) /\ last \in Rows
      BY <1>2 DEF TypeOK
    <2>3. r.key > last.key \/ (r.key = last.key /\ r.pk > last.pk)
      <3>1. CASE UsesCursor
        BY <3>1, <2>1 DEF Past, CursorOf
      <3>2. CASE ~UsesCursor
        BY <3>2, <2>1 DEF Past, KeyOf
      <3> QED
        BY <3>1, <3>2
    <2>4. wm.key \in Nat /\ wm.pk \in Nat
      BY WatermarksAreTyped DEF TypeOK
    <2> QED
      BY <2>2, <2>3, <2>4, RowsAreTyped DEF Past
  <1> QED
    BY <1>1, <1>2

-----------------------------------------------------------------------------
(* Repetitions *)

\* A row that the watermark has not passed may be appended once more; it is then
\* one below the bound.
CountInv ==
    \A r \in Rows :
      /\ wm = NoWatermark => file[r] <= Mishaps + 1
      /\ wm # NoWatermark /\ step # "published" =>
            file[r] <= Mishaps + (IF Past(r, wm) THEN 0 ELSE 1)
      /\ wm # NoWatermark /\ step = "published" =>
            /\ file[r] <= Mishaps + (IF Past(r, wm) /\ r \notin batch THEN 0 ELSE 1)
            /\ ~Incremental => file[r] <= Mishaps
      /\ wm = NoWatermark /\ step = "published" =>
            file[r] <= Mishaps + (IF r \in batch THEN 1 ELSE 0)

LEMMA CountInit == Init => CountInv
  BY DEF Init, CountInv, Mishaps

LEMMA CountStep == PullInv /\ PullInv' /\ CountInv /\ [Next]_vars => CountInv'
  <1> SUFFICES ASSUME PullInv, PullInv', CountInv, [Next]_vars PROVE CountInv'
    OBVIOUS
  <1>a. TypeOK
    BY DEF PullInv
  <1>b. /\ interrupts \in Nat /\ switches \in Nat /\ Mishaps \in Nat
        /\ \A r \in Rows : file[r] \in Nat
    BY <1>a DEF TypeOK, Mishaps
  <1>1. ASSUME NEW r \in Rows, Commit(r) PROVE CountInv'
    BY <1>1 DEF Commit, bounds, CountInv, Mishaps, Past, Incremental
  <1>2. CASE Fetch
    BY <1>2 DEF Fetch, bounds, CountInv, Mishaps, Past, Incremental
  <1>3. CASE Publish \/ PublishUnmerged
    <2>1. /\ step = "fetched" /\ step' = "published"
          /\ UNCHANGED <<setting, wm, batch, interrupts, switches>>
      BY <1>3 DEF Publish, PublishUnmerged, bounds
    <2>2. (Extend /\ Incremental /\ wm # NoWatermark) \/ Replace
      BY <1>3 DEF Publish, PublishUnmerged
    <2>3. Mishaps' = Mishaps
      BY <2>1 DEF Mishaps
    <2>4. ASSUME NEW r \in Rows, Replace
          PROVE  file'[r] <= Mishaps + (IF r \in batch THEN 1 ELSE 0)
      BY <2>4, <1>b DEF Replace
    <2>5. ASSUME NEW r \in Rows, Replace, wm # NoWatermark, ~Incremental
          PROVE  file'[r] <= Mishaps
      BY <2>5, <1>b DEF Replace, PullInv, Mishaps
    <2>6. ASSUME NEW r \in Rows, Extend, Incremental, wm # NoWatermark
          PROVE  file'[r] <= Mishaps + (IF Past(r, wm) /\ r \notin batch THEN 0 ELSE 1)
      <3>1. file[r] <= Mishaps + (IF Past(r, wm) THEN 0 ELSE 1)
        BY <2>1, <2>6 DEF CountInv
      <3>2. r \in batch => Past(r, wm)
        BY <2>1, <2>6 DEF PullInv
      <3>3. CASE r \in batch
        BY <3>1, <3>2, <3>3, <2>6, <1>b DEF Extend
      <3>4. CASE r \notin batch
        BY <3>1, <3>4, <2>6, <1>b DEF Extend
      <3> QED
        BY <3>3, <3>4
    <2>7. ASSUME NEW r \in Rows
          PROVE  /\ wm # NoWatermark =>
                      /\ file'[r] <= Mishaps + (IF Past(r, wm) /\ r \notin batch THEN 0 ELSE 1)
                      /\ ~Incremental => file'[r] <= Mishaps
                 /\ wm = NoWatermark => file'[r] <= Mishaps + (IF r \in batch THEN 1 ELSE 0)
      <3>1. file'[r] \in Nat
        BY DEF PullInv, TypeOK
      <3> QED
        BY <2>2, <2>4, <2>5, <2>6, <3>1, <1>b
    <2>8. /\ \A r \in Rows : Past(r, wm)' <=> Past(r, wm)
          /\ Incremental' <=> Incremental
      BY <2>1 DEF Past, Incremental
    <2>9. \A r \in Rows : wm = NoWatermark => file'[r] <= Mishaps + 1
      <3>1. \A r \in Rows : file'[r] \in Nat
        BY DEF PullInv, TypeOK
      <3> QED
        BY <2>7, <3>1, <1>b
    <2> QED
      BY <2>1, <2>3, <2>7, <2>8, <2>9 DEF CountInv
  <1>4. CASE Advance
    <2>1. /\ step = "published" /\ wm' = next /\ step' = "idle"
          /\ UNCHANGED <<setting, file, interrupts, switches>>
      BY <1>4 DEF Advance, bounds
    <2>2. Mishaps' = Mishaps
      BY <2>1 DEF Mishaps
    <2>3. NewWatermark(batch, next) /\ (Incremental => \A r \in batch : Past(r, wm))
      BY <2>1 DEF PullInv
    <2>4. ASSUME NEW r \in Rows PROVE file[r] <= Mishaps + 1
      BY <2>1, <1>b DEF CountInv
    <2>5. ASSUME NEW r \in Rows, next # NoWatermark, Past(r, next)
          PROVE  file[r] <= Mishaps
      <3>1. CASE ~Incremental
        BY <3>1, <2>1, <2>3, <2>5 DEF NewWatermark, CountInv
      <3>2. CASE Incremental
        <4>1. r \notin batch
          BY <3>2, <2>3, <2>5, <1>a, BatchIsPassed
        <4>2. Past(r, wm)
          BY <2>3, <2>5, <1>a, WatermarkGoesUp
        <4> QED
          BY <4>1, <4>2, <2>1, <1>b DEF CountInv
      <3> QED
        BY <3>1, <3>2
    <2>6. \A r \in Rows : Past(r, wm)' <=> Past(r, next)
      BY <2>1 DEF Past
    <2> QED
      BY <2>1, <2>2, <2>4, <2>5, <2>6, <1>b DEF CountInv
  <1>5. CASE Interrupt
    <2>1. ASSUME NEW r \in Rows PROVE file[r] <= Mishaps + 1
      BY <1>b DEF CountInv
    <2>2. Mishaps' = Mishaps + 1
      BY <1>5, <1>b DEF Interrupt, Mishaps
    <2> QED
      BY <1>5, <2>1, <2>2, <1>b DEF Interrupt, CountInv
  <1>6. CASE LoseState
    <2>1. ASSUME NEW r \in Rows PROVE file[r] <= Mishaps + 1
      BY <1>b DEF CountInv
    <2> QED
      BY <1>6, <2>1 DEF LoseState, CountInv, Mishaps
  <1>7. ASSUME NEW st \in Settings, Reconfigure(st) PROVE CountInv'
    <2>1. /\ step = "idle" /\ step' = "idle" /\ UNCHANGED <<wm, file, interrupts>>
      BY <1>7 DEF Reconfigure
    <2>2. switches' = switches \/ switches' = switches + 1
      BY <1>7 DEF Reconfigure
    <2>3. Mishaps' \in {Mishaps, Mishaps + 1}
      BY <2>1, <2>2, <1>b DEF Mishaps
    <2>4. \A r \in Rows : Past(r, wm)' <=> Past(r, wm)
      BY <2>1 DEF Past
    <2> QED
      BY <2>1, <2>3, <2>4, <1>b DEF CountInv
  <1>8. CASE UNCHANGED vars
    BY <1>8 DEF vars, bounds, CountInv, Mishaps, Past, Incremental
  <1> QED
    BY <1>1, <1>2, <1>3, <1>4, <1>5, <1>6, <1>7, <1>8 DEF Next

LEMMA CountImplies == PullInv /\ CountInv => DuplicatesBounded
  <1> SUFFICES ASSUME PullInv, CountInv, NEW r \in Rows
      PROVE file[r] <= interrupts + switches + 1
    BY DEF DuplicatesBounded
  <1>1. Mishaps \in Nat /\ file[r] \in Nat
    BY DEF PullInv, TypeOK, Mishaps
  <1>2. file[r] <= Mishaps + 1
    BY <1>1 DEF CountInv
  <1> QED
    BY <1>2 DEF Mishaps

\* A row is repeated at most once for each interruption and each switch of the mode,
\* whatever the dialect and the settings, and in whatever order rows become visible.
THEOREM RepetitionsBounded == Spec => []DuplicatesBounded
  <1>1. Init => CountInv
    BY CountInit
  <1>2. PullInv /\ PullInv' /\ CountInv /\ [Next]_vars => CountInv'
    BY CountStep
  <1>3. PullInv /\ CountInv => DuplicatesBounded
    BY CountImplies
  <1> QED
    BY <1>1, <1>2, <1>3, PullIsSound, PTL DEF Spec

-----------------------------------------------------------------------------
(* No gap *)

\* What no gap rests on: rows become visible in order, and the only bounded pulls
\* are the ones with a tie-breaker.
Covering ==
    /\ CommitsInOrder
    /\ \A st \in Settings : st.limit > 0 => Dialect = "postgres" /\ st.mode = "incremental"

\* A watermark is that of a committed row, or none.
OfTheSource(w) == w = NoWatermark \/ \E s \in source : w \in {KeyOf(s), CursorOf(s)}

\* Every row is past the watermark, or in the file, or about to be.
CoverInv ==
    /\ OfTheSource(wm)
    /\ step # "idle" => OfTheSource(next)
    /\ batch \subseteq source
    /\ unmerged = 0 => Covered
    /\ unmerged = 0 /\ step = "fetched" =>
         \A r \in source : Past(r, next) \/ r \in batch \/ (Incremental /\ ~Past(r, wm))
    /\ unmerged = 0 /\ step = "published" =>
         \A r \in source : Past(r, next) \/ file[r] > 0

LEMMA CoverInit == Init => CoverInv
  BY DEF Init, CoverInv, OfTheSource, Covered, Past, NoWatermark

\* The greatest row of a result that is not empty is one of its rows.
LEMMA NextIsOfTheSource ==
  ASSUME NEW S \in SUBSET source, NEW w, NewWatermark(S, w), OfTheSource(wm)
  PROVE  OfTheSource(w)
  <1>1. CASE w = wm
    BY <1>1
  <1>2. CASE w # wm
    BY <1>2 DEF NewWatermark, OfTheSource
  <1> QED
    BY <1>1, <1>2

\* What the query leaves out is past the watermark it returns.
LEMMA LeftOutIsPast ==
  ASSUME TypeOK, Covering, NEW S \in SUBSET source, Selects(S), NEW w, NewWatermark(S, w),
         NEW r \in source, r \notin S, Incremental => Past(r, wm)
  PROVE  Past(r, w)
  <1>a. setting \in Settings /\ limit \in Nat /\ r \in Rows
    BY IncrementalAssumption DEF TypeOK, limit
  <1>1. limit > 0 /\ S # {}
    <2>1. r \in {q \in source : Incremental => Past(q, wm)}
      BY DEF Incremental
    <2>2. S # {q \in source : Incremental => Past(q, wm)}
      BY <2>1
    <2>3. limit > 0
      BY <2>2, <1>a DEF Selects
    <2>4. ~(Cardinality(S) < limit)
      BY <2>2, <2>3 DEF Selects
    <2> QED
      BY <2>3, <2>4, FS_EmptySet
  <1>2. UsesCursor /\ Incremental
    BY <1>1, <1>a DEF Covering, UsesCursor, Incremental, limit
  <1>3. PICK last \in S : w = CursorOf(last)
    BY <1>1, <1>2 DEF NewWatermark
  <1>4. Before(last, r)
    BY <1>2, <1>3 DEF Selects
  <1>5. last \in Rows
    BY DEF TypeOK
  <1> QED
    BY <1>3, <1>4, <1>5, <1>a, RowsAreTyped DEF Past, CursorOf, Before

\* A row that becomes visible is past every watermark of the rows before it.
LEMMA CommitIsPast ==
  ASSUME TypeOK, Covering, NEW r \in Rows, Commit(r), NEW w, OfTheSource(w),
         UsesCursor /\ wm.kind # "key" => w.kind # "key"
  PROVE  Past(r, w)
  <1>1. CASE w = NoWatermark
    BY <1>1 DEF Past, NoWatermark
  <1>2. ASSUME NEW s \in source, w \in {KeyOf(s), CursorOf(s)} PROVE Past(r, w)
    <2>1. s \in Rows
      BY DEF TypeOK
    <2>2. r.key \in Nat /\ r.pk \in Nat /\ s.key \in Nat /\ s.pk \in Nat
      BY <2>1, RowsAreTyped
    <2>3. IF UsesCursor /\ wm.kind # "key" THEN Before(s, r) ELSE s.key < r.key
      BY DEF Commit, Covering
    <2>4. CASE w = CursorOf(s)
      BY <2>2, <2>3, <2>4 DEF Past, CursorOf, Before
    <2>5. CASE w = KeyOf(s)
      BY <2>2, <2>3, <2>5 DEF Past, KeyOf
    <2> QED
      BY <1>2, <2>4, <2>5
  <1> QED
    BY <1>1, <1>2 DEF OfTheSource

LEMMA CoverStep ==
  ASSUME Covering PROVE PullInv /\ CoverInv /\ [Next]_vars => CoverInv'
  <1> SUFFICES ASSUME PullInv, CoverInv, [Next]_vars PROVE CoverInv'
    OBVIOUS
  <1>a. TypeOK
    BY DEF PullInv
  <1>b. unmerged \in Nat /\ \A r \in Rows : file[r] \in Nat
    BY <1>a DEF TypeOK
  <1>1. ASSUME NEW r \in Rows, Commit(r) PROVE CoverInv'
    <2>1. source' = source \union {r} /\ UNCHANGED <<setting, wm, file, step, batch, next, unmerged>>
      BY <1>1 DEF Commit, bounds
    <2>2. Past(r, wm)
      BY <1>1, <1>a, CommitIsPast DEF CoverInv
    <2>3. step # "idle" /\ UsesCursor /\ wm.kind # "key" => next.kind # "key"
      BY DEF PullInv, NewWatermark, CursorOf
    <2>4. step # "idle" => Past(r, next)
      BY <1>1, <1>a, <2>3, CommitIsPast DEF CoverInv
    <2>5. \A q, w : Past(q, w)' <=> Past(q, w)
      BY DEF Past
    <2>6. OfTheSource(wm)' /\ (step # "idle" => OfTheSource(next))'
      BY <2>1 DEF CoverInv, OfTheSource
    <2> QED
      BY <2>1, <2>2, <2>4, <2>6 DEF CoverInv, Covered, Past, Incremental
  <1>2. CASE Fetch
    <2>1. PICK S \in SUBSET source : Selects(S) /\ batch' = S /\ NewWatermark(S, next')
      BY <1>2 DEF Fetch
    <2>2. /\ UNCHANGED <<source, setting, wm, file, unmerged>>
          /\ step' = "fetched"
      BY <1>2 DEF Fetch, bounds
    <2>3. OfTheSource(next')
      BY <2>1, NextIsOfTheSource DEF CoverInv
    <2>4. ASSUME NEW r \in source, r \notin S, Incremental => Past(r, wm)
          PROVE  Past(r, next')
      BY <2>1, <2>4, <1>a, LeftOutIsPast
    <2> QED
      BY <2>1, <2>2, <2>3, <2>4 DEF CoverInv, Covered, OfTheSource, Past, Incremental
  <1>3. CASE Publish
    <2>1. /\ step = "fetched" /\ step' = "published"
          /\ UNCHANGED <<source, setting, wm, batch, next, unmerged>>
      BY <1>3 DEF Publish, bounds
    <2>2. ASSUME NEW r \in source, unmerged = 0
          PROVE  /\ Past(r, wm) \/ file'[r] > 0
                 /\ Past(r, next) \/ file'[r] > 0
      <3>a. r \in Rows /\ file[r] \in Nat
        BY <1>a, <1>b DEF TypeOK
      <3>0. /\ Past(r, wm) \/ file[r] > 0
            /\ Past(r, next) \/ r \in batch \/ (Incremental /\ ~Past(r, wm))
        BY <2>1, <2>2 DEF CoverInv, Covered
      <3>1. CASE Incremental /\ wm # NoWatermark
        <4>1. file'[r] = IF r \in batch THEN file[r] + 1 ELSE file[r]
          BY <1>3, <3>1, <3>a DEF Publish, Extend
        <4> QED
          BY <4>1, <3>0, <3>a
      <3>2. CASE ~Incremental
        <4>1. file'[r] = IF r \in batch THEN 1 ELSE 0
          BY <1>3, <3>2, <3>a DEF Publish, Replace
        <4>2. next = wm
          BY <3>2, <2>1 DEF PullInv, NewWatermark
        <4> QED
          BY <4>1, <4>2, <3>0, <3>2
      <3>3. CASE Incremental /\ wm = NoWatermark
        <4>1. file'[r] = IF r \in batch THEN 1 ELSE 0
          BY <1>3, <3>3, <3>a DEF Publish, Replace
        <4>2. Past(r, wm)
          BY <3>3 DEF Past, NoWatermark
        <4> QED
          BY <4>1, <4>2, <3>0
      <3> QED
        BY <3>1, <3>2, <3>3
    <2> QED
      BY <2>1, <2>2 DEF CoverInv, Covered, OfTheSource, Past
  <1>4. CASE PublishUnmerged
    <2>1. unmerged' # 0
      BY <1>4, <1>b DEF PublishUnmerged
    <2> QED
      BY <1>4, <2>1 DEF PublishUnmerged, CoverInv, OfTheSource
  <1>5. CASE Advance
    BY <1>5 DEF Advance, bounds, CoverInv, Covered, OfTheSource, Past
  <1>6. CASE Interrupt
    BY <1>6 DEF Interrupt, CoverInv, Covered, OfTheSource, Past
  <1>7. CASE LoseState
    BY <1>7 DEF LoseState, CoverInv, Covered, OfTheSource, Past, NoWatermark
  <1>8. ASSUME NEW st \in Settings, Reconfigure(st) PROVE CoverInv'
    BY <1>8 DEF Reconfigure, CoverInv, Covered, OfTheSource, Past
  <1>9. CASE UNCHANGED vars
    BY <1>9 DEF vars, bounds, CoverInv, Covered, OfTheSource, Past, Incremental
  <1> QED
    BY <1>1, <1>2, <1>3, <1>4, <1>5, <1>6, <1>7, <1>8, <1>9 DEF Next

\* No committed row that the watermark has passed is missing from the file, whatever
\* was interrupted, lost and reconfigured on the way, as long as bounded pulls have
\* the tie-breaker and no row becomes visible late.
THEOREM NothingIsLeftOut ==
  ASSUME Covering PROVE Spec => []NoGap
  <1>1. Init => CoverInv
    BY CoverInit
  <1>2. PullInv /\ CoverInv /\ [Next]_vars => CoverInv'
    BY CoverStep
  <1>3. CoverInv => NoGap
    BY DEF CoverInv, NoGap
  <1> QED
    BY <1>1, <1>2, <1>3, PullIsSound, PTL DEF Spec

-----------------------------------------------------------------------------
(* The copy *)

\* A full refresh is not bounded: a bounded one may replace rows by others.
RefreshesAreWhole == \A st \in Settings : st.mode = "full_refresh" => st.limit = 0

AllMishaps == interrupts + unmerged + stateLosses + reconfigs + switches

\* The file holds committed rows, a full refresh brings back all of them, and until the
\* first mishap a table without a watermark has no file.
CopyInv ==
    /\ batch \subseteq source
    /\ \A r \in Rows \ source : file[r] = 0
    /\ step # "idle" => Readable(wm)
    /\ step = "fetched" /\ ~Incremental => \A r \in Rows : file[r] > 0 => r \in batch
    /\ AllMishaps = 0 /\ Incremental /\ wm = NoWatermark /\ step # "published" =>
         \A r \in Rows : file[r] = 0

LEMMA MishapsAreCounted ==
  ASSUME TypeOK
  PROVE  /\ AllMishaps \in Nat /\ Mishaps \in Nat /\ Mishaps <= AllMishaps
         /\ interrupts \in Nat /\ unmerged \in Nat /\ stateLosses \in Nat
         /\ reconfigs \in Nat /\ switches \in Nat
  <1>1. /\ interrupts \in Nat /\ unmerged \in Nat /\ stateLosses \in Nat
        /\ reconfigs \in Nat /\ switches \in Nat
    BY DEF TypeOK
  <1> QED
    BY <1>1 DEF AllMishaps, Mishaps

\* A fault or a change is one more mishap.
LEMMA MishapsGoUp ==
  ASSUME TypeOK,
         \/ PublishUnmerged \/ Interrupt \/ LoseState
         \/ \E st \in Settings : Reconfigure(st)
  PROVE  AllMishaps' = AllMishaps + 1
  <1>1. /\ interrupts \in Nat /\ unmerged \in Nat /\ stateLosses \in Nat
        /\ reconfigs \in Nat /\ switches \in Nat
    BY MishapsAreCounted
  <1>2. CASE PublishUnmerged
    BY <1>1, <1>2 DEF PublishUnmerged, AllMishaps
  <1>3. CASE Interrupt
    BY <1>1, <1>3 DEF Interrupt, AllMishaps
  <1>4. CASE LoseState
    BY <1>1, <1>4 DEF LoseState, AllMishaps
  <1>5. ASSUME NEW st \in Settings, Reconfigure(st) PROVE AllMishaps' = AllMishaps + 1
    BY <1>1, <1>5 DEF Reconfigure, AllMishaps
  <1> QED
    BY <1>2, <1>3, <1>4, <1>5

\* The watermark of a pull can be read by the settings it ran with.
LEMMA NextIsReadable ==
  ASSUME NewWatermark(batch, next), Readable(wm)
  PROVE  Readable(next)
  <1>1. CASE next = wm
    BY <1>1
  <1>2. CASE next # wm
    <2>1. PICK last \in batch : next = IF UsesCursor THEN CursorOf(last) ELSE KeyOf(last)
      BY <1>2 DEF NewWatermark
    <2> QED
      BY <2>1 DEF Readable, KeyOf
  <1> QED
    BY <1>1, <1>2

LEMMA CopyInvInit == Init => CopyInv
  BY DEF Init, CopyInv

LEMMA CopyInvStep ==
  ASSUME RefreshesAreWhole
  PROVE  PullInv /\ CountInv /\ CopyInv /\ [Next]_vars => CopyInv'
  <1> SUFFICES ASSUME PullInv, CountInv, CopyInv, [Next]_vars PROVE CopyInv'
    OBVIOUS
  <1>a. TypeOK
    BY DEF PullInv
  <1>b. /\ AllMishaps \in Nat /\ Mishaps \in Nat /\ Mishaps <= AllMishaps
        /\ \A r \in Rows : file[r] \in Nat
    BY <1>a, MishapsAreCounted DEF TypeOK
  <1>1. ASSUME NEW r \in Rows, Commit(r) PROVE CopyInv'
    BY <1>1 DEF Commit, bounds, CopyInv, AllMishaps, Incremental, Readable, UsesCursor, limit
  <1>2. CASE Fetch
    <2>1. PICK S \in SUBSET source : Selects(S) /\ batch' = S
      BY <1>2 DEF Fetch
    <2>2. /\ UNCHANGED <<source, setting, wm, file, interrupts, unmerged, stateLosses,
                         reconfigs, switches>>
          /\ step = "idle" /\ step' = "fetched" /\ Readable(wm)
      BY <1>2 DEF Fetch, bounds
    <2>3. Readable(wm)' /\ AllMishaps' = AllMishaps /\ (Incremental' <=> Incremental)
      BY <2>2 DEF Readable, Incremental, UsesCursor, limit, AllMishaps
    <2>4. ~Incremental => S = source
      <3>1. setting \in Settings /\ setting.mode \in {"incremental", "full_refresh"}
        BY <1>a, IncrementalAssumption DEF TypeOK
      <3>2. ~Incremental => limit = 0
        BY <3>1 DEF Incremental, limit, RefreshesAreWhole
      <3> QED
        BY <2>1, <3>2 DEF Selects
    <2> QED
      BY <2>1, <2>2, <2>3, <2>4, <1>b DEF CopyInv
  <1>3. CASE Publish \/ PublishUnmerged
    <2>1. /\ step = "fetched" /\ step' = "published"
          /\ UNCHANGED <<source, setting, wm, batch>>
      BY <1>3 DEF Publish, PublishUnmerged
    <2>2. \A r \in Rows \ source : file'[r] = 0
      BY <1>3 DEF Publish, PublishUnmerged, Extend, Replace, CopyInv
    <2>3. Readable(wm)'
      BY <2>1 DEF CopyInv, Readable, Incremental, UsesCursor, limit
    <2> QED
      BY <2>1, <2>2, <2>3 DEF CopyInv
  <1>4. CASE Advance
    <2>1. /\ step = "published" /\ wm' = next /\ step' = "idle" /\ batch' = {}
          /\ UNCHANGED <<source, setting, file, interrupts, unmerged, stateLosses, reconfigs,
                         switches>>
      BY <1>4 DEF Advance, bounds
    <2>2. ASSUME AllMishaps = 0, Incremental, next = NoWatermark, NEW r \in Rows
          PROVE  file[r] = 0
      <3>1. next = wm /\ batch = {}
        BY <2>1, <2>2 DEF PullInv, NewWatermark, NoWatermark, KeyOf, CursorOf
      <3>2. file[r] <= Mishaps
        BY <3>1, <2>1, <2>2, <1>b DEF CountInv
      <3> QED
        BY <3>2, <2>2, <1>b
    <2>3. AllMishaps' = AllMishaps /\ (Incremental' <=> Incremental)
      BY <2>1 DEF AllMishaps, Incremental
    <2> QED
      BY <2>1, <2>2, <2>3 DEF CopyInv
  <1>5. CASE Interrupt \/ LoseState \/ \E st \in Settings : Reconfigure(st)
    <2>1. AllMishaps' # 0
      BY <1>5, <1>a, <1>b, MishapsGoUp
    <2>2. step' = "idle" /\ batch' \subseteq batch /\ UNCHANGED <<source, file>>
      BY <1>5 DEF Interrupt, LoseState, Reconfigure
    <2> QED
      BY <2>1, <2>2 DEF CopyInv
  <1>6. CASE UNCHANGED vars
    BY <1>6 DEF vars, bounds, CopyInv, AllMishaps, Incremental, Readable, UsesCursor, limit
  <1> QED
    BY <1>1, <1>2, <1>3, <1>4, <1>5, <1>6 DEF Next

\* Until the first mishap a pull appends rows that the file does not have.
LEMMA PublishAppendsMissing ==
  ASSUME PullInv, CountInv, CopyInv, Publish, AllMishaps = 0
  PROVE  \E S \in SUBSET {r \in source : file[r] = 0} :
            file' = [r \in Rows |-> IF r \in S THEN 1 ELSE file[r]]
  <1> DEFINE S == {r \in batch : file[r] = 0}
  <1>a. TypeOK /\ step = "fetched"
    BY DEF PullInv, Publish
  <1>b. Mishaps = 0 /\ \A r \in Rows : file[r] \in Nat
    BY <1>a, MishapsAreCounted DEF TypeOK
  <1>1. S \in SUBSET {r \in source : file[r] = 0}
    BY DEF CopyInv
  <1>2. CASE Incremental /\ wm # NoWatermark
    <2>1. \A r \in batch : r \in Rows /\ Past(r, wm)
      BY <1>a, <1>2 DEF PullInv, TypeOK
    <2>2. \A r \in batch : file[r] = 0
      BY <1>a, <1>b, <1>2, <2>1 DEF CountInv
    <2>3. \A r \in Rows : (IF r \in batch THEN file[r] + 1 ELSE file[r])
                            = IF r \in S THEN 1 ELSE file[r]
      BY <2>2
    <2> QED
      BY <1>1, <1>2, <2>3 DEF Publish, Extend
  <1>3. CASE ~(Incremental /\ wm # NoWatermark)
    <2>1. \A r \in Rows : file[r] > 0 => r \in batch /\ file[r] = 1
      <3>1. \A r \in Rows : file[r] <= 1
        BY <1>a, <1>b DEF CountInv
      <3>2. \A r \in Rows : file[r] > 0 => r \in batch
        BY <1>a, <1>b, <1>3 DEF CopyInv
      <3> QED
        BY <3>1, <3>2, <1>b
    <2>2. \A r \in Rows : (IF r \in batch THEN 1 ELSE 0) = IF r \in S THEN 1 ELSE file[r]
      BY <1>b, <2>1
    <2> QED
      BY <1>1, <1>3, <2>2 DEF Publish, Replace
  <1> QED
    BY <1>2, <1>3

\* A fault, or a step after one, leaves a copy within its bound.
LEMMA MishapDisturbs ==
  ASSUME PullInv, PullInv', CountInv', CopyInv', UNCHANGED source,
         AllMishaps' = AllMishaps + 1 \/ (AllMishaps' = AllMishaps /\ AllMishaps > 0
                                          /\ (Broken' <=> Broken))
  PROVE  Copy!Disturb
  <1>a. TypeOK /\ TypeOK'
    BY DEF PullInv
  <1>b. AllMishaps \in Nat
    BY <1>a, MishapsAreCounted
  <1>c. /\ AllMishaps' \in Nat
        /\ interrupts' \in Nat /\ unmerged' \in Nat /\ stateLosses' \in Nat
        /\ reconfigs' \in Nat /\ switches' \in Nat
    <2>1. /\ interrupts' \in 0..MaxInterrupts /\ unmerged' \in 0..MaxUnmerged
          /\ stateLosses' \in 0..MaxStateLosses /\ reconfigs' \in 0..MaxReconfigs
          /\ switches' \in 0..MaxSwitches
      BY <1>a DEF TypeOK
    <2> QED
      BY <1>b, <2>1
  <1>1. AllMishaps' \in {AllMishaps, AllMishaps + 1} /\ AllMishaps' > 0
    BY <1>b
  <1>2. Broken' \in BOOLEAN /\ Broken \in BOOLEAN
    BY DEF Broken
  <1>3. Broken' # Broken => AllMishaps' # AllMishaps
    BY <1>b, <1>2
  <1>4. ASSUME NEW r \in Rows PROVE file'[r] \in 0..(AllMishaps' + 1)
    <2>1. file'[r] \in Nat
      BY <1>a DEF TypeOK
    <2>2. file'[r] <= interrupts' + switches' + 1
      BY <1>c, <2>1 DEF CountInv, Mishaps
    <2> QED
      BY <2>1, <2>2, <1>c DEF AllMishaps
  <1>5. file' \in [Rows -> 0..(AllMishaps' + 1)]
    BY <1>4, <1>a DEF TypeOK
  <1>6. \A r \in Rows \ source : file'[r] = 0
    BY DEF CopyInv
  <1> QED
    BY <1>1, <1>2, <1>3, <1>5, <1>6 DEF Copy!Disturb, AllMishaps

LEMMA CopyInit == Init => Copy!Init
  <1> SUFFICES ASSUME Init PROVE Copy!Init
    OBVIOUS
  <1>1. Broken = FALSE
    BY DEF Init, Broken, Readable, NoWatermark
  <1>2. interrupts + unmerged + stateLosses + reconfigs + switches = 0
    BY DEF Init
  <1> QED
    BY <1>1, <1>2 DEF Init, Copy!Init

LEMMA CopyStep ==
  PullInv /\ PullInv' /\ CountInv /\ CountInv' /\ CopyInv /\ CopyInv' /\ [Next]_vars
    => [Copy!Next]_(Copy!vars)
  <1> SUFFICES ASSUME PullInv, PullInv', CountInv, CountInv', CopyInv, CopyInv', [Next]_vars
      PROVE Copy!Next \/ UNCHANGED <<source, file, AllMishaps, Broken>>
    BY DEF Copy!vars, AllMishaps
  <1>a. TypeOK
    BY DEF PullInv
  <1>b. AllMishaps \in Nat
    BY <1>a, MishapsAreCounted
  <1>1. ASSUME NEW r \in Rows, Commit(r) PROVE Copy!Next
    <2>1. (Broken' <=> Broken) /\ UNCHANGED AllMishaps
      BY <1>1 DEF Commit, bounds, Broken, AllMishaps, Readable, Incremental, UsesCursor, limit
    <2>2. UNCHANGED Broken
      BY <2>1 DEF Broken
    <2>3. Copy!Commit(r)
      BY <1>1, <2>1, <2>2 DEF Commit, Copy!Commit, AllMishaps
    <2> QED
      BY <2>3 DEF Copy!Next
  <1>2. CASE Fetch
    <2>1. (Broken' <=> Broken) /\ UNCHANGED <<source, file, AllMishaps>>
      BY <1>2 DEF Fetch, bounds, Broken, AllMishaps, Readable, Incremental, UsesCursor, limit
    <2> QED
      BY <2>1 DEF Broken
  <1>3. CASE Publish
    <2>1. (Broken' <=> Broken) /\ UNCHANGED <<source, AllMishaps>>
      BY <1>3 DEF Publish, bounds, Broken, AllMishaps, Readable, Incremental, UsesCursor, limit
    <2>2. CASE AllMishaps = 0
      <3>1. UNCHANGED Broken
        BY <2>1 DEF Broken
      <3>2. PICK S \in SUBSET {r \in source : file[r] = 0} :
               file' = [r \in Rows |-> IF r \in S THEN 1 ELSE file[r]]
        BY <1>3, <2>2, PublishAppendsMissing
      <3>3. Copy!Append(S) /\ S \in SUBSET Copy!Missing
        BY <2>1, <3>1, <3>2 DEF Copy!Append, Copy!Missing, AllMishaps
      <3> QED
        BY <3>3 DEF Copy!Next
    <2>3. CASE AllMishaps # 0
      BY <2>1, <2>3, <1>b, MishapDisturbs DEF Copy!Next
    <2> QED
      BY <2>2, <2>3
  <1>4. CASE Advance
    <2>1. UNCHANGED <<source, file, AllMishaps, setting, unmerged>> /\ wm' = next
      BY <1>4 DEF Advance, bounds, AllMishaps
    <2>2. Readable(wm) /\ Readable(next)
      BY <1>4, NextIsReadable DEF Advance, PullInv, CopyInv
    <2>3. Readable(wm)'
      BY <2>1, <2>2 DEF Readable, Incremental, UsesCursor, limit
    <2>4. Broken' <=> Broken
      BY <2>1, <2>2, <2>3 DEF Broken
    <2> QED
      BY <2>1, <2>4 DEF Broken
  <1>5. CASE PublishUnmerged \/ Interrupt \/ LoseState \/ \E st \in Settings : Reconfigure(st)
    <2>1. UNCHANGED source
      BY <1>5 DEF PublishUnmerged, Interrupt, LoseState, Reconfigure
    <2> QED
      BY <1>5, <1>a, <2>1, MishapsGoUp, MishapDisturbs DEF Copy!Next
  <1>6. CASE UNCHANGED vars
    <2>1. (Broken' <=> Broken) /\ UNCHANGED <<source, file, AllMishaps>>
      BY <1>6 DEF vars, bounds, Broken, AllMishaps, Readable, Incremental, UsesCursor, limit
    <2> QED
      BY <2>1 DEF Broken
  <1> QED
    BY <1>1, <1>2, <1>3, <1>4, <1>5, <1>6 DEF Next

\* The two stores implement the copy, fairness apart: until the first mishap rows are
\* appended once and nothing else happens to the file, and each mishap may repeat a
\* row at most once more, for every dialect and all settings whose full refreshes are
\* whole.
THEOREM TwoStoresAreACopy ==
  ASSUME RefreshesAreWhole
  PROVE  Spec => Copy!Init /\ [][Copy!Next]_(Copy!vars)
  <1>1. PullInv /\ CountInv /\ CopyInv /\ [Next]_vars => CopyInv'
    BY CopyInvStep
  <1>2. Spec => []CountInv
    <2>1. Init => CountInv
      BY CountInit
    <2>2. PullInv /\ PullInv' /\ CountInv /\ [Next]_vars => CountInv'
      BY CountStep
    <2> QED
      BY <2>1, <2>2, PullIsSound, PTL DEF Spec
  <1>3. PullInv /\ PullInv' /\ CountInv /\ CountInv' /\ CopyInv /\ CopyInv' /\ [Next]_vars
          => [Copy!Next]_(Copy!vars)
    BY CopyStep
  <1>4. Init => CopyInv /\ Copy!Init
    BY CopyInvInit, CopyInit
  <1> QED
    BY <1>1, <1>2, <1>3, <1>4, PullIsSound, PTL DEF Spec
=============================================================================
