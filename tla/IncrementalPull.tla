--------------------------- MODULE IncrementalPull ---------------------------
(***************************************************************************)
(* One table in mode incremental, over the life of the installation: the   *)
(* driver selects rows past the stored watermark (drivers/postgres and     *)
(* drivers/clickhouse, _build_query and _compute_new_watermark), the       *)
(* daemon merges them into the published file and then stores the new      *)
(* watermark (core/daemon.py, _handle_success).  The file and the          *)
(* watermark are two stores; a fault or a kill may fall between them.  A   *)
(* restart may change the settings, also to full_refresh and back: the     *)
(* stored watermark stays.                                                 *)
(*                                                                         *)
(* A row is its incremental key and its primary key.  Rows are never       *)
(* changed or deleted in the source: an incremental table does not follow  *)
(* either.                                                                 *)
(***************************************************************************)
EXTENDS Integers, FiniteSets

CONSTANTS Rows,            \* records [key, pk]
          Dialect,         \* "postgres" or "clickhouse"
          Settings,        \* the configurations in use: [mode, limit], where
                           \* limit is max_rows and 0 is none
          CommitsInOrder,  \* rows become visible in the order the pull compares
          MaxInterrupts,   \* bound: faults and kills during a pull
          MaxUnmerged,     \* bound: merges that find no readable published file
          MaxStateLosses,  \* bound: deletions of state.db
          MaxReconfigs,    \* bound: changes of max_rows
          MaxSwitches      \* bound: changes of mode

ASSUME IncrementalAssumption ==
    /\ Rows \subseteq [key : Nat, pk : Nat]
    /\ \A r, s \in Rows : r.pk = s.pk => r = s
    /\ Dialect \in {"postgres", "clickhouse"}
    /\ Settings \subseteq [mode : {"incremental", "full_refresh"}, limit : Nat]
    /\ CommitsInOrder \in BOOLEAN
    /\ MaxInterrupts \in Nat
    /\ MaxUnmerged \in Nat
    /\ MaxStateLosses \in Nat
    /\ MaxReconfigs \in Nat
    /\ MaxSwitches \in Nat

VARIABLES
    source,     \* committed rows
    setting,    \* mode and max_rows of the running configuration
    wm,         \* the stored watermark
    file,       \* how often the published file holds each row
    step,       \* where the pull is
    batch,      \* the rows the driver returned
    next,       \* the watermark it returned
    interrupts, unmerged, stateLosses, reconfigs, switches

bounds == <<interrupts, unmerged, stateLosses, reconfigs, switches>>
vars == <<source, setting, wm, file, step, batch, next, bounds>>

Incremental == setting.mode = "incremental"
limit == setting.limit

-----------------------------------------------------------------------------
(* Watermarks.  A Postgres pull with max_rows stores a cursor of key and    *)
(* primary key; every other pull stores the key alone.                      *)

Watermarks == [kind : {"none", "key", "cursor"}, key : Nat, pk : Nat]

NoWatermark  == [kind |-> "none", key |-> 0, pk |-> 0]
KeyOf(r)     == [kind |-> "key", key |-> r.key, pk |-> 0]
\* Mutant: a look-back window is subtracted from the stored key.
CursorWithLookback(r) == [kind |-> "cursor", key |-> r.key - 2, pk |-> r.pk]
CursorOf(r)  == [kind |-> "cursor", key |-> r.key, pk |-> r.pk]

Before(r, s) == r.key < s.key \/ (r.key = s.key /\ r.pk < s.pk)

\* Mutants: the WHERE clause has no tie-breaker; it is not strict.
PastIgnoringTies(r, w) == w.kind = "none" \/ r.key > w.key

PastInclusive(r, w) ==
    \/ w.kind = "none"
    \/ r.key > w.key
    \/ r.key = w.key /\ r.pk >= w.pk

\* The WHERE clause: strictly past the watermark.
Past(r, w) ==
    \/ w.kind = "none"
    \/ r.key > w.key
    \/ w.kind = "cursor" /\ r.key = w.key /\ r.pk > w.pk

UsesCursor == Dialect = "postgres" /\ Incremental /\ limit > 0

\* A cursor can be decoded only by a pull that has a tie-breaker; without one it
\* is taken for a plain key and the query is never built.
Readable(w) == Incremental /\ w.kind = "cursor" => UsesCursor

\* The results the query may return: WHERE, ORDER BY and LIMIT.  A full refresh
\* has the last alone.
Selects(S) ==
    LET eligible == {r \in source : Incremental => Past(r, wm)}
        unordered == ~UsesCursor /\ (Incremental => wm.kind = "none")
    IN  /\ S \subseteq eligible
        /\ limit = 0 => S = eligible
        /\ limit > 0 => /\ Cardinality(S) <= limit
                        /\ Cardinality(S) < limit => S = eligible
        /\ \A s \in S, r \in eligible \ S :
             \/ UsesCursor /\ Before(s, r)
             \/ ~UsesCursor /\ s.key <= r.key
             \/ unordered

\* _compute_new_watermark: the greatest row of the result, or what was stored.  A
\* full refresh returns none, and what was stored stays.
NewWatermark(S, w) ==
    IF S = {} \/ ~Incremental THEN w = wm
    ELSE \E last \in S :
           /\ \A s \in S : s = last \/ Before(s, last)
           /\ w = IF UsesCursor THEN CursorOf(last) ELSE KeyOf(last)

-----------------------------------------------------------------------------
TypeOK ==
    /\ source \subseteq Rows
    /\ setting \in Settings
    /\ wm \in Watermarks
    /\ file \in [Rows -> Nat]
    /\ step \in {"idle", "fetched", "published"}
    /\ batch \subseteq Rows
    /\ next \in Watermarks
    /\ interrupts \in 0..MaxInterrupts
    /\ unmerged \in 0..MaxUnmerged
    /\ stateLosses \in 0..MaxStateLosses
    /\ reconfigs \in 0..MaxReconfigs
    /\ switches \in 0..MaxSwitches

Init ==
    /\ source \in SUBSET Rows
    /\ setting \in Settings
    /\ wm = NoWatermark
    /\ file = [r \in Rows |-> 0]
    /\ step = "idle"
    /\ batch = {}
    /\ next = NoWatermark
    /\ interrupts = 0
    /\ unmerged = 0
    /\ stateLosses = 0
    /\ reconfigs = 0
    /\ switches = 0

\* A transaction of the source.  CommitsInOrder is what the pull relies on and
\* cannot see: no row becomes visible late, behind rows that a watermark may
\* already have passed.
Commit(r) ==
    /\ r \in Rows \ source
    /\ CommitsInOrder =>
         \A s \in source : IF UsesCursor /\ wm.kind # "key"
                           THEN Before(s, r) ELSE s.key < r.key
    /\ source' = source \union {r}
    /\ UNCHANGED <<setting, wm, file, step, batch, next, bounds>>

\* get_watermark, and the driver's pull on one snapshot of the source.  When the
\* stored watermark is not Readable the pull fails and nothing changes.
Fetch ==
    /\ step = "idle"
    /\ Readable(wm)
    /\ \E S \in SUBSET source :
         /\ Selects(S)
         /\ batch' = S
         /\ NewWatermark(S, next')
    /\ step' = "fetched"
    /\ UNCHANGED <<source, setting, wm, file, bounds>>

\* writer.write of the new rows alone, or of the old file and the new rows.
Replace == file' = [r \in Rows |-> IF r \in batch THEN 1 ELSE 0]
Extend  == file' = [r \in Rows |-> IF r \in batch THEN file[r] + 1 ELSE file[r]]

\* Mutant: a pull without a watermark appends too.
PublishAppends ==
    /\ step = "fetched"
    /\ Extend
    /\ step' = "published"
    /\ UNCHANGED <<source, setting, wm, batch, next, bounds>>

\* _merge_incremental and write.  A full refresh, and a pull without a stored
\* watermark, replace the file.
Publish ==
    /\ step = "fetched"
    /\ IF Incremental /\ wm # NoWatermark THEN Extend ELSE Replace
    /\ step' = "published"
    /\ UNCHANGED <<source, setting, wm, batch, next, bounds>>

\* The published file is gone, or cannot be read back: the code goes on with the
\* new rows only.
PublishUnmerged ==
    /\ step = "fetched"
    /\ Incremental
    /\ wm # NoWatermark
    /\ unmerged < MaxUnmerged
    /\ unmerged' = unmerged + 1
    /\ Replace
    /\ step' = "published"
    /\ UNCHANGED <<source, setting, wm, batch, next, interrupts, stateLosses,
                   reconfigs, switches>>

\* set_watermark; the rest of the pull touches neither store.
Advance ==
    /\ step = "published"
    /\ wm' = next
    /\ step' = "idle"
    /\ batch' = {}
    /\ UNCHANGED <<source, setting, file, next, bounds>>

\* The write or set_watermark raises, or the process is killed: the pull is
\* abandoned where it is and a later one starts over.
Interrupt ==
    /\ step # "idle"
    /\ interrupts < MaxInterrupts
    /\ interrupts' = interrupts + 1
    /\ step' = "idle"
    /\ batch' = {}
    /\ UNCHANGED <<source, setting, wm, file, next, unmerged, stateLosses,
                   reconfigs, switches>>

\* state.db is deleted, or found corrupt at start and re-created.
LoseState ==
    /\ step = "idle"
    /\ wm # NoWatermark
    /\ stateLosses < MaxStateLosses
    /\ stateLosses' = stateLosses + 1
    /\ wm' = NoWatermark
    /\ UNCHANGED <<source, setting, file, step, batch, next, interrupts,
                   unmerged, reconfigs, switches>>

\* A restart with another max_rows, or with another mode.
Reconfigure(st) ==
    /\ step = "idle"
    /\ st # setting
    /\ IF st.mode = setting.mode
       THEN /\ reconfigs < MaxReconfigs
            /\ reconfigs' = reconfigs + 1
            /\ UNCHANGED switches
       ELSE /\ switches < MaxSwitches
            /\ switches' = switches + 1
            /\ UNCHANGED reconfigs
    /\ setting' = st
    /\ UNCHANGED <<source, wm, file, step, batch, next, interrupts,
                   unmerged, stateLosses>>

Next ==
    \/ \E r \in Rows : Commit(r)
    \/ Fetch \/ Publish \/ PublishUnmerged \/ Advance
    \/ Interrupt \/ LoseState
    \/ \E st \in Settings : Reconfigure(st)

Spec == Init /\ [][Next]_vars

\* The table is pulled at its cadence and a pull's steps run.
FairSpec == Spec /\ WF_vars(Fetch) /\ WF_vars(Publish) /\ WF_vars(Advance)

-----------------------------------------------------------------------------
(* Properties *)

Covered == \A r \in source : Past(r, wm) \/ file[r] > 0

\* At-least-once: between pulls, every committed row the watermark has passed
\* is in the file; no query will ask for it again.  Kills, write faults, losses of
\* state.db and full refreshes in between do not break this: the watermark is
\* stored after the file, an absent one replaces the file, and an old one only
\* repeats rows.
NoGap == step = "idle" /\ unmerged = 0 => Covered

\* A row is appended once, and however often pulls are interrupted, and however
\* often the table was a full refresh in between, repeated at most once for each; a
\* deleted state.db repeats nothing, for the pull after it replaces the file.
DuplicatesBounded == \A r \in Rows : file[r] <= interrupts + switches + 1

\* What the code does not recover from: a merge that lost the published file, and
\* a cursor that the present settings cannot read.
Broken == unmerged > 0 \/ ~Readable(wm)

Copy == INSTANCE RepeatingCopy WITH
          copies <- file,
          mishaps <- interrupts + unmerged + stateLosses + reconfigs + switches,
          broken <- Broken

\* The two-store protocol is an exactly-once copy until the first mishap, and
\* repeats a row at most once for each mishap after it; and no committed row waits
\* forever, in bounded bites and over interruptions, losses of state.db and changes
\* of the settings.
ImplementsCopy == Copy!Spec
=============================================================================
