# TLA+ specifications of r64-db-engine

This directory models r64-db-engine, the daemon that pulls tables from Postgres,
ClickHouse and REST sources into files for Row64 Server, and the conformance factory
that tests it.  It holds TLA+ modules, TLC configurations that check them on small
instances, and theorems that TLAPS checks for every instance.

    tlc -config MCDaemon.cfg MCDaemon.tla          # model-check
    tlapm DaemonProofs.tla                         # check proofs

Paths below are relative to the repository.  `PROJECT.json` maps each definition
to the lines it models.

## The system

| component | state | operations | interacts with |
|---|---|---|---|
| daemon (`core/daemon.py`) | shutdown event, semaphore, one task and one `TableRuntimeState` per table, `_pg_connected` | connect loop, table loop, pull with retries, success and failure handlers, shutdown, `--once`, status snapshot | awaits the driver; calls sink and state store synchronously; read by health and metrics |
| state store (`core/state.py`) | SQLite: watermarks, pull history, schema baselines | get/set watermark, record pull, consecutive failures, get/set schema, re-creation of a corrupt file | called by the daemon; survives the process |
| drivers (`drivers/*`) | a client or a connection per pull | connect, close, pull | Postgres on the event loop, ClickHouse and REST in worker threads |
| configuration (`core/config.py`), profiles, registries | none | validation, resolution of defaults, the profile's say on a connection | build the daemon |
| coercion (`core/coercion.py`, `drivers/*/coercion.py`) | none | values and dtypes of a column, schema comparison | used inside a pull and by the sinks |
| sinks (`core/ramdb_writer.py`, `sinks/*`) | final file, tempfiles | null policy, write, clean up | Row64 Server reads the final path at any time |
| health, metrics (`core/health.py`, `core/metrics.py`) | none | HTTP snapshots | read the daemon's memory |
| REST engine (`drivers/rest/`) | a page cursor within a pull, a drift log | recipes, bindings, pagination | used inside a pull |
| conformance battery (`factory/conformance.py`, `battery.py`, `serve_gate.py`) | a work directory, a served process, a pack | two pulls, ten checks, serve gate, evidence pack | runs the engine one-shot |
| evidence store (`factory/evidence.py`) | content-addressed archive, preserved corrupt copies | `record_artifact`, repair, refusals before a run | called by the battery |
| conformance sweep (`factory/bin/factory-conformance-sweep`, `repair.py`) | packs, last-green packs, repair briefs, HEAD | batteries of all targets, verdicts, briefs, commit | runs the battery as a process; started by a systemd timer |
| roster (`factory/generate_descriptor_artifacts.py`) | none | conformance state of a dialect | reads last-green packs and briefs |

What makes it hard: cancellation reaches a task in any of three suspended states;
the file and its watermark are two stores; the failure count lives in a database
and the status in memory; SIGTERM and SIGKILL fall between any two steps; a worker
thread is not cancelled with its task; a second process may start on the same
directory; an empty result has other dtypes than a full one; a one-shot daemon
returns normally from a failed pull, so that what is judged may be old; a sweep
knows its batteries by exit code and by the name of a file; corrupt bytes must
survive their own repair.  `PROJECT.json` lists the hazards one by one with the
properties that cover them.

What makes each component correct:

* daemon: no slot of the pool is lost; a waiting table is served; pulls use an
  open driver; a shutdown request ends the run; health says what is stored;
* incremental pull: no committed row is skipped, repetitions are bounded by the
  mishaps, and every row arrives;
* configuration and coercion: what is built publishes whole tables; nulls survive or
  are filled as the sink needs; drift is seen; a profile never connects unsafely;
* REST pull: a table is whole or not delivered; every pull ends; a book that signals
  its end within its caps is delivered;
* sink: a reader sees a whole file; what a write returned is durable;
* state store: the failure count is the run of newest errors;
* battery: each fault is blamed on its own check; none goes green; exit and pack agree;
* sweep: exit code, briefs, last-green packs and roster tell the same;
* evidence archive: corruption found is never lost; only a rewritten artifact stops a
  repair.

## Modules

**`PullHistory`** is `pull_history` of the state store for one table, newest row
first: `Record` inserts a row and cuts to the retention, `ConsecutiveFailures`
counts.  It takes the wall clock as monotonic; the code orders by text.

**`Daemon`** extends it.  asyncio runs one callback at a time, so an action is the
code between two awaits.  `loop[t]` says where the task of table t is suspended:

| `loop[t]` | the task is |
|---|---|
| `none` | not created yet, or gone with its process |
| `idle` | at the top of `_table_loop` or in its cadence sleep |
| `waiting` | in `async with self._semaphore` |
| `pulling` | in `driver.pull`, holding a slot |
| `retrying` | in a backoff sleep, still holding the slot |
| `wedged`, `dead` | ended by an exception before the `try`, or out of the handler |
| `done`, `cancelled` | ended by its loop, or by `run` |

`phase` is the place of `run` itself.  `queue` and `free` are `asyncio.Semaphore`:
a newcomer waits while others do, and a released slot goes to the first of them.
`PullSucceeds`, `HandlerRaises`, `PullFails` and `PullFailsRaises` are the whole
rest of `_pull_once` after the driver has ended, with every store it writes; the
handlers do not suspend.  `HandlerRaises` and `Crash` stop `_handle_success` at
each of its stages.  `lag` abstracts file and watermark to how they stand to each
other, and `marked` says whether a watermark is stored; `baseline` and `drift` are the
stored schema and the drift flag.  Where a watermark is stored, a pull is merged with the
published file or, when `_merge_incremental` does not find or cannot read that file, is
published alone (`LagBefore`).  The watermark goes on either way, so that the table is
then `behind` for good; the history variable `unmerged` remembers such tables.

**`IncrementalPull`** looks inside `lag`: the rows of one table, the query a driver
builds from the stored watermark (`Past`, `Selects`), the watermark it computes
(`NewWatermark`), the merge with the published file and the order of the two
stores.  Between pulls a restart may bring another `max_rows` or another mode
(`Reconfigure`); the stored watermark stays, and one that the new settings cannot
decode stops the table (`Readable`).  **`RepeatingCopy`** is the promise it is
compared with, under the mapping `copies <- file` and with all faults and changes as
`mishaps`: exactly once until the first mishap, at most one repetition for each, and
every committed row arrives unless the copy is `broken`.

**`Config`** and **`Coercion`** are pure operators.  `Config` has the validators of
`core/config.py` in the order pydantic runs them (`Validation`), what building a
daemon refuses on top (`Building`), the resolution of a table against the defaults,
and the profile's decision on a connection block (`ProfileRefusal`, `Profiled`).
`Coercion` takes source types by the class the coercer maps give them, each with the
few values its rules tell apart, and follows them through frame, coercer, column
rule, null fill and codec check.  **`TypedPull`** puts them in motion: a document is
loaded, the driver connects, and a column that grows, is emptied or altered is pulled,
merged, written and compared with the stored schema.  `found` is whether the merge finds
a readable file; the history variable `lost` counts the rows it gave up otherwise.

**`RestPull`** is one table of the REST driver.  `pc` is where the pull is:
`binding` and `paging` are `run_book` and `run_recipe` before their next request,
`converting` is `records_to_frame`, `sleeping` the backoff of the daemon, and
`idle`, `delivered`, `failed` the cadence sleep.  A page stands for its records and
carries whether the provider has more.  `PageRefused` is every way in which
`_request`, `validate_response`, `_extract` and `confine_next_url` raise; `CapReached`
is the `else` of the page loop.  A next link is taken to ask for the page it names.

**`SinkWriter`** is the write protocol of both sinks: tempfile, encoder, (sync,)
rename(, directory sync).  `onDisk` is the set of contents that a power loss may
bring back.  `recent` is a history variable: what the last returned write
published and anything renamed since.

**`Battery`** has the judges of `factory/battery.py` and the facts they read off a
file, as operators; a verdict is the first comparison that failed.  `IsClose` is
`math.isclose` with the relative tolerance that the code leaves at its default.
**`Conformance`**
runs them: `pc` goes through the two pulls, the judges, the serve gate, the archive and
the two forms of the pack, and every step has the ways in which it fails.  What is
tested has one planted `fault` of the driver, the sink, the server or the committed
files (`Written`, `Carried`, `Pass`).  `server` is who listens on the gate's address,
`own` the process this run started: after a kill they differ.  A ProbeError or a
failing gate is a FAIL without a reason code.  **`BatteryPromise`** is what a battery
promises to whoever starts it as a process and sees its exit and its pack alone: one
pack at most, with the verdict of the exit; none when it is refused or crashes; a battery
that was killed may have left its pack or not.  `Conformance` implements it under the
mapping `pack <- LastPack`, the machine form on disk.

**`Sweep`** is the sweep over the targets, with each battery as one action that keeps
`BatteryPromise` (`BatteryEnds`, `BatteryTimesOut`, `Killed`), and with the world around it: days,
the drift log, hand runs, an operator who commits and closes briefs, and systemd's
time limit.  `committed` is what HEAD holds of the evidence.  The copy to last-green has
two steps (`SnapshotStarts`, `SnapshotEnds`), between which a kill leaves it torn, and a
file that says PASS may get there without a battery (`PlacePack`).  `ConformanceState` is
what the roster shows of a dialect: such a file is pending, and a torn one has the roster
refuse to emit.  A drift log that cannot be read counts as no drift
(`CollectDriftEvents`).

**`EvidenceStore`** is one entry of the archive and the preserved copies of its
corrupt predecessors.  `found` is a history variable: corrupt bytes that appeared
in the entry, by rot or by a killed copy, as long as a run could still keep them.

Each `MC` module gives the constants of its component their values.  Definitions
commented as *Mutant* are plausible bugs of the definition that follows; each checked
property is known to fail with one of them (`PROJECT.json`, `mutants`).  They are no
part of `Next`.

## Runs

Runs that pass:

| run | instance | shows |
|---|---|---|
| `daemon` | an incremental and a full-refresh table, 1 slot, 1 retry, threshold 2, 1 fault, 1 kill, merges given up at any pull, both modes | all safety invariants of the daemon |
| `daemon_live` | 3 tables, 1 slot, 1 retry, worker threads, both modes | shutdown and `--once` end, waiters are served, tables keep being pulled |
| `pull` | Postgres, 3 rows with a tie, no bound or bites of 1 and 2, or a full refresh, 2 interruptions, a lost merge, a lost state.db, 1 change of bound, 2 of mode | no gap, bounded repetition, refinement of `RepeatingCopy` |
| `typed` | 2 drivers, 2 sinks, all classes of column, 40 documents of which some are refused; 2 rows, 3 pulls, 1 ALTER, a published file that may be gone | tables are whole but for the rows of a merge given up; nulls, int32, drift, connections |
| `rest` | 3 steps over 2 recipes, every kind of pagination, cap 2, 1 retry, 2 refused answers, 1 change at the provider | whole tables, right bindings, pulls end, books that signal their end are delivered |
| `sink` | either sink, 2 processes, 2 tables, 2 kills of which 1 power loss | whole files, durable Arrow writes, no stray tempfiles (its types: `SinkTypeCorrect` below) |
| `evidence` | 2 contents, 2 kills, 2 rots, 1 rewritten artifact | nothing found is lost, only rewritten artifacts stop a repair, repair converges |
| `conformance` | 28 faults, 2 runs, 1 change of the source, 2 outages, 1 kill | exact blame, no fault green, cold gates, exit and pack agree, refinement of `BatteryPromise` |
| `sweep` | 2 targets, 2 sweeps, 2 days, 1 drift event, misplaced packs, kills at any step and in the copy of a pack | exit code, HEAD, briefs, last-green packs and roster agree |

Runs that show where the code and what is said of it differ; each checks one
statement of a document or a comment and TLC finds it violated:

| run | the code | what is said |
|---|---|---|
| `daemon_dead_task` | a state-store exception ends a table task for good, health stays ok | `SPEC.md:501` |
| `pull_bounded` | bounded ClickHouse pulls cut off rows and move on | `drivers/postgres/driver.py:497` |
| `conformance_pulls` | a run whose second pull failed compares the first file with itself and is green | `factory/conformance.py:404` |

More disagreements are in the models and in no run.  A configuration that checks the
named property shows the first ones:

* `ConnectionRecovers` of `Daemon` under `HealthySpec`: `_pg_connected` is never set
  again after a lost connection ("until the process reconnects", `README.md:160`);
* `InFlightPullsGetTheGrace` of `Daemon`: tasks are cancelled before the grace period
  (`README.md:151`);
* `CloseFindsDriverIdle` with `ThreadOffload = TRUE`: the ClickHouse client is
  closed under a pull that goes on in its thread (`core/driver.py:110`);
* `DaemonPullsOnOpenDriver` without its `~once`: shutdown during the connect loop
  makes `--once` pull unconnected (`drivers/clickhouse/driver.py:249`);
* `NeverHalfWritten` of `SinkWriter`: the ramdb sink renames a tempfile it has not
  synced, so that a power loss may leave a torn file (`SPEC.md:424`);
* `EndingBooksDeliver` of `RestPull`: pagination by number has no end but the cap,
  which fails the pull (`drivers/rest/engine.py:287`);
* `BigIntegersSurvive` of `TypedPull`: an integer above 2^53 next to a NULL goes
  through float64;
* `NoRedPackCommitted` of `Sweep`: a green sweep commits the whole evidence subtree,
  with the red packs of earlier days in it;
* `LastGreenIsGreen` and `BoardShowsTheSweep` of `Sweep` with `Jobs <- TwoTablesOfOne`
  or `WithinTheDay = FALSE`: two tables of one dialect, and a battery that starts
  before midnight, share or miss the pack that the sweep looks for.

Others are steps or restrictions of a model:

* when the published file is missing or unreadable the new rows alone replace it, the
  watermark goes on and the table is reported ok, where `SPEC.md:314` has the rows
  concatenated to what is there (`IncrementalPull!PublishUnmerged`, `Daemon!unmerged`,
  `TypedPull!lost`);
* a drift log that cannot be read counts as no drift, so that the sweep may exit 0 and
  commit, where `factory/bin/factory-conformance-sweep:431` wants drift never to stay
  quiet (`CollectDriftEvents`);
* a sweep killed in `shutil.copy2` leaves a torn last-green pack, on which the roster
  refuses to emit until a green sweep writes it anew (`SnapshotStarts`);
* a cursor stays unreadable when a table's `max_rows` is removed (`Readable`), and a
  bounded full refresh between incremental pulls leaves a gap, which is why the
  settings of `pull` bound the incremental mode alone;
* a table that is incremental by `defaults.mode` without a key passes validation and
  is pulled as a full refresh (`Config!Pulled`);
* a refusal of the profile is retried for ever (`TypedPull!ConnectRefused`), and so is
  a REST pull refused for its key or for schema drift (`docs/connectors/rest.md:66`);
* in a work directory that is kept, both pulls may fail and the file of an earlier run
  is judged and may go green (the condition `~inv.keeps_work_dir` of `ExitTellsThePack`);
* a failed probe and a failed gate are FAILs without a reason code, where
  `factory/battery.py:181` wants every FAIL to have one;
* a brief at the root of the repository makes the tree dirty, and all later batteries
  are refused until somebody commits it (`Dirty`, `Ends`);
* the unit allows a sweep 45 minutes and the sweep each target 30 (`Sweep!Killed`).

### Bounds

In `Daemon`, `MaxFaults` counts exceptions of sink and state store and `MaxCrashes`
kills; one of each reaches every stage of `_handle_success`, every handler and a restart
over every stored state, and two in sequence add only repetitions of the same stores.
Merges given up are not bounded.  Two tables and one slot give waiting, holding and
cancelled tasks at once; one of them is incremental, since file and watermark of a table
do not depend on another table.  Three tables and one slot a queue of which the head or
the tail goes, and a task that could be overtaken.  One retry distinguishes first,
retried and last attempts.  The threshold of 2 (3 in the code) is reached step by step,
with a window and a retention as small as the threshold allows, so that history is cut
while failures are counted.  Driver errors are not bounded.

Three rows of which two tie, in bites of 1 and 2, put a boundary inside and behind a
tie, and the least primary key on the greatest key tells a cursor from a key.  Two
changes of mode go to a full refresh and back.  The theorems below lift these bounds.

In `TypedPull` a column of two rows has a null beside a value, three pulls have an
empty one between two full ones, and one ALTER separates two dtypes.  In `RestPull` a
cap of two pages has a first and a last page, and extents of one to three pages lie
below, at and above it; a walk that runs one recipe twice tells its runs apart.  Two
processes and two kills put a start between any two steps of a write, and a power loss
after a kill.  Two contents give an entry the right bytes, wrong bytes and fragments of
both.

In `Conformance` blocks of two rows give three rows a full block and a rest.  A second
run meets what the first left: its file, its pack, its server.  Two outages fail both
pulls.  In `Sweep` two sweeps on two days let a brief of the first meet the second,
with two dialects so that one may be green while the other is not.  `SweepsAhead` cuts
what is done by hand after the last sweep, of which no property speaks.

### Assumptions of the runs

A source whose transactions become visible out of key order loses rows by design of a
watermark; `pull` assumes (`CommitsInOrder`) that rows become visible in the order the
pull compares, the key or the key and the primary key.  The clock of the pull history
is monotonic.  `sweep` has one table for each dialect, as the repository's targets do,
takes a battery to end on the day it started, and lets an operator touch briefs between
sweeps only.  Of code outside the repository, `row64tools` is taken to give back the
dtypes it saved, pandas to infer float64 for integers beside a missing value, and the
server of the gate to count a lookup of a column as a hit or a miss and a miss as a
decoding.  A pass of the gate over its workload is one step: a battery killed inside it
leaves a server that is cold or warmed, never partly warmed, so that
`PassIsFromAColdServer` speaks of servers that are fully warmed.

### Fairness

`Daemon!FairSpec` assumes what the event loop gives: ready callbacks run, sleeps end,
and a driver call ends, because connecting and statements have timeouts.  Faults, kills,
restarts and shutdown requests are owed by nobody.  There is one condition for `run` and
one for each table task, since a task has one next step at a time (`RunGoesOn`,
`TaskGoesOn`): which way that step goes is not owed.  `HealthySpec` adds, for
`ConnectionRecovers` alone, a source that can be reached and answers again and again
(strong fairness).  `IncrementalPull!FairSpec` assumes that pulls go on at their
cadence; its bounds make interruptions finite.  `RestPull!FairSpec` assumes that sleeps
and requests end (the client has a timeout); refusals and changes are bounded.
`EvidenceStore!FairSpec` assumes that runs are made and that a repair is asked for
infinitely often; kills and rot are bounded.  The other specifications have no fairness:
their properties are safety.

Deadlock is checked where the system cannot stop: `sink`, `rest`, `evidence`.  The
daemon has a last state (`exited`); a cursor that cannot be read stops a table; the
engine stops at a refused document; the last run or sweep has no successor.

## Proofs

| module | theorems | argument |
|---|---|---|
| `DaemonProofs` | lemmas on `PullHistory` | a success ends the failure run, a recorded error is counted, the count saturates at the window |
| | `SlotsAreAccountedFor`, `QueueIsTheWaiting`, `InFlightFlagsAreExact` | `PoolInv` |
| | `NobodyIsOvertaken`, `SlotsComeBack`, `ShutdownGoesOneWay` | steps under `PoolInv` |
| | `TypeCorrect`, `StatusIsExplained`, `WatermarkFollowsTheFile`, `OkIsCommitted`, `DaemonPullsConnected`, `CloseIsLast` | `OutcomeInv`, `ProcessTypes`, `DriverInv` on top of `PoolInv` |
| `IncrementalPullProofs` | `PullTypeCorrect`, `RepetitionsBounded`, `NothingIsLeftOut` | `PullInv`, and `CountInv` or `CoverInv` on top of it |
| | `TwoStoresAreACopy` | `CopyInv` on top of `CountInv` |
| `TypedPullProofs` | `IncrementsAreMerged`, `NullsReachArrow`, `CodecIsFedSafely`, `DriftIsNoticed`, `ProfileIsSafe` | `ColumnInv` |
| `RestPullProofs` | `RestTypeCorrect`, `TablesAreWhole`, `BindingsReadFirstPages` | `PullInv` |
| | `PullsOnlyAdvance` | steps under `PullInv` |
| `SinkWriterProofs` | `SinkTypeCorrect`, `ReadersFindWholeTables`, `WritesSurvive`, `TempfilesAreRemoved` | `WriterInv` |
| `EvidenceStoreProofs` | `StoreTypeCorrect`, `CorruptionIsKept` | `StoreInv` |
| | `RepairsSucceed`, `RefusalsHaveACause` | `HealInv` on top of `StoreInv` |
| `ConformanceProofs` | `PassNeedsAColdServer`, `ExitIsThePack` | `BatteryInv` |
| | `GreenVouches` | `EvidenceInv` on top of `BatteryInv` |
| | `FaultsAreNeverGreen`, `BlameIsOnItsChecks` | `PulledInv`, `Undisturbed` and `BlameInv` on top of `BatteryInv` |
| | `BatteriesKeepThePromise` | `Ended` on top of `BatteryInv` |
| `SweepProofs` | `SnapshotsAreGreen`, `RosterShowsTheSweep` | `FiledInv` on top of `SweepInv` |
| | `ExitTellsTheWorst` | `ToldInv` on top of `FiledInv` |

*Pool.*  `SlotAccounting` is not inductive: releasing a slot keeps `free` below the
pool size only if the task is counted among the holders, granting one needs the head
of the queue to be a waiting task that is not, and a retry keeps the attempt count
in range only if a task that backs off has one left.  `PoolInv` adds the exact
correspondence of queue and waiting tasks, `RetriesBounded`, and that outside
serving and shutdown there are no tasks.  Cancellation takes a waiter out of the
middle of the queue (`WithoutProperties`).

*Waiting.*  That waiters are served is liveness and stays with the run, but what it rests
on is proved of every step.  `NobodyIsOvertaken`: while a table waits, the tables ahead of
it in the queue only become fewer, and a slot that is given out goes to one of them, which
is then ahead no more; a cancellation keeps the order of the others
(`WithoutKeepsOrder`).  `SlotsComeBack`: a table that holds a slot and keeps it has fewer
calls of the driver and backoff sleeps left after each of its steps, of at most
`2 * RetryLimit + 1`.  `ShutdownGoesOneWay` does the same for `RunEnds`: once a shutdown is
requested the phases follow `Course`, which has no cycle, no table begins another pull
(`--once` excepted, which owes each table one) and a cancelled task only ends.  What
fairness adds is that the next step is taken.

*Outcomes.*  `StatusMatchesHistory` needs the lemmas on the history, and that a
process starts with every table pending although the history is old
(`PendingBeforeServing`).  `OkMeansCommitted` needs `OnlyLostMergesLoseRows`: a pull
brings file and watermark together only if the table was not behind, and it is behind
just when one of its merges was given up.  A later pull does not mend that, because it
selects from the watermark on (`LagKeepsOrder`).

*Driver.*  `DriverInv` relates what `run` has done to what the tasks may do: a task
that started under `~shutdown` started after a successful connect, and `run` closes
the driver after every task has ended.  `CloseIsLast` assumes a driver without
worker threads; with them it does not hold.

*Repetitions.*  `RepetitionsBounded` holds for every dialect, all settings and any
order of commits.  The bound alone is not inductive: a merge adds one to the rows of
the batch.  `CountInv` keeps those rows one below it: a row past the watermark has not
used up its last repetition, the batch is past the watermark it was selected with, and
no row of the batch is past the new one (`BatchIsPassed`), while a row past the new one
was past the old one (`WatermarkGoesUp`).

*No gap.*  `NothingIsLeftOut` assumes `Covering`: rows become visible in order, and
whatever bounds a pull has a tie-breaker.  `CoverInv` follows a row from the source
through the batch into the file: one that the query left out is past the watermark it
returns (`LeftOutIsPast`: the only query that leaves rows out is ordered by the cursor),
and one that becomes visible later is past every watermark of an earlier row
(`CommitIsPast`).  `pull_bounded` is what happens without the tie-breaker.

*Refinement.*  `TwoStoresAreACopy` maps every step of the engine to a step of
`RepeatingCopy` or a stutter.  `CopyInv` is what the mapping needs: a fetched batch is
of committed rows, a full refresh brings back every row the file had, and a table
without a watermark has no file until the first mishap.  It assumes that full refreshes
are whole (`RefreshesAreWhole`, as in the run): a bounded one may replace rows by
others.  The fairness of the copy, that every row arrives, stays with the run.

*Typed columns.*  Length, nulls and dtype of a file are settled by the last pull, but
only because an increment is joined to a file of its own class that shows everything the
watermark covers but the rows `lost` to merges given up, which are its first ones
(`CoveredInv`, `JoinInv`).  The drift flag is right because of what the baseline was
when it last was down (`DriftInv`).  `SettledInv` keeps what was decided when the
document was loaded.

*Battery.*  `ExitTellsThePack` speaks of ended runs; `BatteryInv` says of each stage
which checks it has judged, that a file in a fresh work directory was pulled by this
run, and that no pack of this run is there before its first form is written.  The lemmas
on the judges show, for any spec, ground truth and file, that each ends in a verdict
declared for it in `MECHANISMS`; that the first failing comparison is one of the list
needs that a set of positions has a least one, which is the only use of well-founded
induction.  `PassIsFromAColdServer` rests on the server's counters: a pass over a column
in the cache decodes nothing (`serve.cold_no_decode`), and a server that evicts misses
in the second pass (`serve.warm_miss`).  `EvidenceInv` keeps the results of the data
checks equal to their judges on what was read, and `GreenVouches` says what their
silence proves of the file; a source that changed between pull and probe is excepted for
its bounds alone.

*Blame.*  That a fault is found depends on what is committed about the table: a lost
row does not show in a spec that counts nothing.  `Telling` says what is asked for each
fault: the entries of spec and ground truth describe the rows captured, and one in
which the fault shows is among them, such as an exact count of a value of the lost row.
TLC evaluates it on every invocation of `MCConformance` (`TellingAssumption`), so that
no theorem holds for want of a case.  From it one lemma for each check says with which
faults the judge of that check fails and with which it passes, on a file of the captured
rows; finding a fault needs no more than a file of rows the source once had
(`Traced`), because the source only gains rows (`Grows`).  `PulledInv` supplies that
file: `ReadsInv` says that a run whose two pulls succeeded judges what they published, in
their order, and that any other run judges files of earlier rows.
`Undisturbed` says of a run without changes, outages and kills that its gate measured
the server it started, and `BlameInv` carries the verdicts to the pack.

*Promise.*  `BatteriesKeepThePromise` maps every step of a run to a step of
`BatteryPromise` or a stutter.  Writing the machine form is `Write`, and its verdict is one
of the two (`VerdictsAreTwo`); ending is `Conclude` because `BatteryInv` has the exit code
follow the results in that pack, and `GiveUp` because before the pack no stage has written
one of this run.  `Ended` is what the start of the next run needs: a run that is over has
an exit.

*Sweep.*  `SweepInv` has the stages of a sweep and one result for each target in their
order.  `FiledInv` follows a result into the evidence: the pack of a green battery stays
green while its sweep is under way, and what is filed has its snapshot or its brief; a
copy under way is of another dialect than those filed.  When a sweep may commit, every
result was green and filed so (`AllGreenFiled`), which is why HEAD then has the packs and
whole copies of them (`ToldInv`).
Neither holds when two tables of a dialect share a pack, or a battery that ran over
midnight left its pack under another day than the sweep looks at.

*REST pull.*  `TableIsWhole` speaks of what was delivered; `PullInv` says of a recipe
under way that it has read every page before the one it asks for, and that the
provider ended none of them.  `LatestPayloads` says it of every recipe that has run,
not of those alone that the step reads, so that the next step finds it.

Within a pull every step goes forward (`PullsOnlyAdvance`): by attempt, then from its
requests to its backoff, then by step of the book, then by page.  The places are finitely
many, so that `PullEnds` needs no more than a next step; a change at the provider moves
nothing.

*Sink.*  `PublishedIsWhole` is conditional: the sink syncs, or the machine has not
failed.  What is renamed is whole because a tempfile past the encoder is whole or
gone; that another process may unlink it at any time does not matter.

*Evidence.*  From the moment the entry is overwritten all corrupt bytes known are
preserved; before, the entry still holds those that were hashed.  `RepairsSucceed` is what
`RepairConverges` rests on: a run with `--repair-store` that is not killed is never refused
for what earlier kills and rot have left, a fragment under the name of the preserved copy
included, because that copy is hashed before it is trusted.  Only an artifact rewritten
under the run stops it, and `RefusalsHaveACause` says so of each single run.

The assumptions are those of the modules on their constants: finitely many tables, a
positive pool and threshold, a threshold within the window and a window within the
retention (in the code 3, 20 and 100), primary keys that tell rows apart, documents
with a table and a well-typed connection block (`DocumentAssumption`), lists of a spec
that have an order (`InvocationAssumption`), rows that have the fields of the table
(`RowsAssumption`).  What a single theorem assumes beyond them
is in its statement: `Covering`, `RefreshesAreWhole`, `OneTableEach` and `WithinTheDay`,
`Telling` of every invocation, or a driver without worker threads.

Three attempts corrected the models.  The proof of `SafeConnection` failed on documents
with `verify-ca`, which is encrypted and which the profile lets through, while the
property asked for more than the code does; and operators whose `CASE` had overlapping
guards, where TLC takes the first and TLA+ does not say which, are now chains of `IF`.
And a battery killed by the time limit of its sweep or its unit may have written its pack,
as the promise says and the sweep did not have it.

Only model-checked: everything about liveness (TLAPS has no rules for fairness here),
which includes that every row arrives.  The properties of steps that `RunEnds`,
`WaitersAreServed`, `PullEnds` and `RepairConverges` rest on are proved, the way from them
to the eventualities is not.  Every invariant of a passing run has its theorem.

## Not modelled, and the plan

Not modelled because it has no state or is pure I/O: static descriptors and their
rendering, the generators of the conformance package, HTTP servers, logging, codecs,
benchmarks and scripts, the SQL of probes and of discovery, the substitution of
environment variables.  Of the REST driver the network fence, secrets and the row
limit are left out: they are checks of one value at a time.  Timing is left out
everywhere: a sleep ends at any time.  The order of the pull history by a wall clock
that steps back is left out, too.  In `TypedPull` values of a column are taken one
column at a time, so that columns mixed up between rows would not show; what pandas
makes of two classes in one merged column is not modelled, and an altered table is
therefore a full refresh.

Next:

1. `StateStore`: pull history ordered by a wall clock that may step back, and the
   re-creation of a corrupt file in the middle of a run; `Daemon` over it.
2. A refinement between `IncrementalPull` and `Daemon`: `lag` is meant to be what the two
   stores of rows show, and no mapping states it yet.
