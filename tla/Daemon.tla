------------------------------- MODULE Daemon -------------------------------
(***************************************************************************)
(* The supervised engine of core/daemon.py: the connect loop, one task per *)
(* table, the worker-pool semaphore they share, the retry policy, the      *)
(* outcome of a pull as the state store and the health endpoint see it,    *)
(* and shutdown.                                                           *)
(*                                                                         *)
(* One event loop runs everything, so a step of this module is the code    *)
(* between two awaits.  Time is left out: a sleep ends whenever its action *)
(* is taken.                                                               *)
(***************************************************************************)
EXTENDS PullHistory

CONSTANTS Tables,            \* the targets of the config (unique by validation)
          Incremental,       \* those with mode: incremental
          PoolSize,          \* runtime.worker_pool_size
          RetryLimit,        \* len(_RETRY_DELAYS)
          FailureThreshold,  \* the failures that turn degraded into error
          ThreadOffload,     \* the driver pulls in a worker thread (ClickHouse, REST)
          OnceModes,         \* the values of --once under consideration
          MaxFaults,         \* bound: sink and state-store exceptions
          MaxCrashes         \* bound: process kills

ASSUME DaemonAssumption ==
    /\ IsFiniteSet(Tables)
    /\ Incremental \subseteq Tables
    /\ PoolSize \in Nat \ {0}
    /\ RetryLimit \in Nat
    /\ FailureThreshold \in Nat \ {0}
    /\ FailureThreshold <= FailureWindow
    /\ FailureWindow <= Retention
    /\ ThreadOffload \in BOOLEAN
    /\ OnceModes \subseteq BOOLEAN
    /\ MaxFaults \in Nat
    /\ MaxCrashes \in Nat

VARIABLES
    \* the process
    phase,      \* where run() is
    once,       \* the --once flag
    shutdown,   \* the _shutdown event
    connected,  \* _pg_connected, what health reports of the source
    driver,     \* what the driver object has been asked to do last
    \* the table tasks and the semaphore they share
    loop,       \* where each table's task is
    attempt,    \* driver.pull calls made in the current _run_with_retries
    queue,      \* tasks suspended in Semaphore.acquire, first come first
    free,       \* the semaphore's value
    threads,    \* tables whose cancelled pull still runs in a worker thread
    \* TableRuntimeState
    inFlight, status, failures, drift,
    \* the state store and the published files; they survive the process
    hist,       \* pull_history
    baseline,   \* a row of schemas exists
    lag,        \* how the published file stands to the stored watermark
    marked,     \* the table has a stored watermark
    unmerged,   \* history: tables once published with the new rows alone, because
                \* the merge did not find its file or could not read it
    \* bounds
    faults, crashes

processVars == <<phase, once, shutdown, connected, driver>>
poolVars    == <<queue, free>>
taskVars    == <<loop, attempt, queue, free, threads>>
runtimeVars == <<inFlight, status, failures, drift>>
durableVars == <<hist, baseline, lag, marked, unmerged>>
vars == <<processVars, taskVars, runtimeVars, durableVars, faults, crashes>>

Phases == {"connecting", "backoff", "serving", "stopping", "draining",
           "exited", "failed", "crashed"}

\* Suspended inside _pull_once.  The last two hold a slot of the pool.
Active   == {"waiting", "pulling", "retrying"}
Holding  == {"pulling", "retrying"}
\* wedged: raised before _pull_once's try; dead: raised out of its handler.
Finished == {"wedged", "dead", "done", "cancelled"}
LoopStates == {"none", "idle"} \cup Active \cup Finished

\* none: file and watermark agree.  ahead: the file holds rows the watermark does
\* not cover.  behind: the watermark covers rows the file does not hold.
Lags == {"none", "ahead", "behind"}

Holders == {t \in Tables : loop[t] \in Holding}

TypeOK ==
    /\ phase \in Phases
    /\ once \in BOOLEAN
    /\ shutdown \in BOOLEAN
    /\ connected \in BOOLEAN
    /\ driver \in {"none", "open", "closed"}
    /\ loop \in [Tables -> LoopStates]
    /\ attempt \in [Tables -> 0..(RetryLimit + 1)]
    /\ queue \in Seq(Tables)
    /\ free \in 0..PoolSize
    /\ threads \subseteq Tables
    /\ inFlight \in [Tables -> BOOLEAN]
    /\ status \in [Tables -> {"pending", "ok", "degraded", "error"}]
    /\ failures \in [Tables -> Nat]
    /\ drift \in [Tables -> BOOLEAN]
    /\ hist \in [Tables -> Seq(RowStatus)]
    /\ baseline \in [Tables -> BOOLEAN]
    /\ lag \in [Tables -> Lags]
    /\ marked \in [Tables -> BOOLEAN]
    /\ unmerged \subseteq Tables
    /\ faults \in 0..MaxFaults
    /\ crashes \in 0..MaxCrashes

-----------------------------------------------------------------------------
(* A new process: Daemon.__init__ and the entry of run. *)

Init ==
    /\ phase = "connecting"
    /\ shutdown = FALSE
    /\ connected = FALSE
    /\ driver = "none"
    /\ once \in OnceModes
    /\ loop = [t \in Tables |-> "none"]
    /\ attempt = [t \in Tables |-> 0]
    /\ queue = <<>>
    /\ free = PoolSize
    /\ threads = {}
    /\ inFlight = [t \in Tables |-> FALSE]
    /\ status = [t \in Tables |-> "pending"]
    /\ failures = [t \in Tables |-> 0]
    /\ drift = [t \in Tables |-> FALSE]
    /\ hist = [t \in Tables |-> <<>>]
    /\ baseline = [t \in Tables |-> FALSE]
    /\ lag = [t \in Tables |-> "none"]
    /\ marked = [t \in Tables |-> FALSE]
    /\ unmerged = {}
    /\ faults = 0
    /\ crashes = 0

\* The process is gone, and its tasks, semaphore and threads with it.
ProcessEnds(p) ==
    /\ phase' = p
    /\ loop' = [t \in Tables |-> "none"]
    /\ attempt' = [t \in Tables |-> 0]
    /\ queue' = <<>>
    /\ free' = PoolSize
    /\ threads' = {}
    /\ inFlight' = [t \in Tables |-> FALSE]

-----------------------------------------------------------------------------
(* _connect_loop, and the creation of the table tasks that follows it.  A   *)
(* shutdown request is looked at only after a failed attempt; run then goes *)
(* on as if connected.                                                      *)

CreateTasks ==
    /\ phase' = "serving"
    /\ loop' = [t \in Tables |-> "idle"]

Connect ==
    /\ phase = "connecting"
    /\ connected' = TRUE
    /\ driver' = "open"
    /\ CreateTasks
    /\ UNCHANGED <<once, shutdown, attempt, poolVars, threads, runtimeVars,
                   durableVars, faults, crashes>>

\* Mutant: the failed attempt does not look at the shutdown event.
ConnectRetriesAfterShutdown ==
    /\ phase = "connecting"
    /\ connected' = FALSE
    /\ phase' = "backoff"
    /\ UNCHANGED <<once, shutdown, driver, loop, attempt, poolVars, threads,
                   runtimeVars, durableVars, faults, crashes>>

ConnectFailsTransient ==
    /\ phase = "connecting"
    /\ connected' = FALSE
    /\ \/ shutdown /\ CreateTasks
       \/ ~shutdown /\ phase' = "backoff" /\ UNCHANGED loop
    /\ UNCHANGED <<once, shutdown, driver, attempt, poolVars, threads,
                   runtimeVars, durableVars, faults, crashes>>

ConnectFailsPermanent ==
    /\ phase = "connecting"
    /\ connected' = FALSE
    /\ ProcessEnds("failed")
    /\ UNCHANGED <<once, shutdown, driver, status, failures, drift,
                   durableVars, faults, crashes>>

BackoffExpires ==
    /\ phase = "backoff"
    /\ phase' = "connecting"
    /\ UNCHANGED <<once, shutdown, connected, driver, taskVars, runtimeVars,
                   durableVars, faults, crashes>>

-----------------------------------------------------------------------------
(* _pull_once up to its first suspension.  An idle task is at the top of    *)
(* _table_loop or in its cadence sleep.  The two state-store reads come     *)
(* before the try, so an exception of theirs leaves in_flight set and ends  *)
(* the task; under --once it leaves gather and the process with it.         *)

\* Mutant: the loop condition forgets the shutdown event.
MayPullAfterShutdown(t) == phase = "serving" /\ loop[t] = "idle"

MayPull(t) == phase = "serving" /\ loop[t] = "idle" /\ (once \/ ~shutdown)

\* Mutant: a newcomer takes a free slot although others wait for it.
StartPullBarging(t) ==
    /\ MayPull(t)
    /\ ~inFlight[t]
    /\ inFlight' = [inFlight EXCEPT ![t] = TRUE]
    /\ \/ /\ free > 0
          /\ free' = free - 1
          /\ loop' = [loop EXCEPT ![t] = "pulling"]
          /\ attempt' = [attempt EXCEPT ![t] = 1]
          /\ UNCHANGED queue
       \/ /\ free = 0
          /\ queue' = Append(queue, t)
          /\ loop' = [loop EXCEPT ![t] = "waiting"]
          /\ UNCHANGED <<free, attempt>>
    /\ UNCHANGED <<processVars, threads, status, failures, drift, durableVars,
                   faults, crashes>>

StartPull(t) ==
    /\ MayPull(t)
    /\ ~inFlight[t]
    /\ inFlight' = [inFlight EXCEPT ![t] = TRUE]
    /\ \/ /\ free > 0 /\ queue = <<>>
          /\ free' = free - 1
          /\ loop' = [loop EXCEPT ![t] = "pulling"]
          /\ attempt' = [attempt EXCEPT ![t] = 1]
          /\ UNCHANGED queue
       \/ /\ ~(free > 0 /\ queue = <<>>)
          /\ queue' = Append(queue, t)
          /\ loop' = [loop EXCEPT ![t] = "waiting"]
          /\ UNCHANGED <<free, attempt>>
    /\ UNCHANGED <<processVars, threads, status, failures, drift, durableVars,
                   faults, crashes>>

StartPullRaises(t) ==
    /\ MayPull(t)
    /\ ~inFlight[t]
    /\ faults < MaxFaults
    /\ faults' = faults + 1
    /\ \/ /\ once
          /\ ProcessEnds("failed")
       \/ /\ ~once
          /\ loop' = [loop EXCEPT ![t] = "wedged"]
          /\ inFlight' = [inFlight EXCEPT ![t] = TRUE]
          /\ UNCHANGED <<phase, attempt, poolVars, threads>>
    /\ UNCHANGED <<once, shutdown, connected, driver, status, failures, drift,
                   durableVars, crashes>>

\* A released slot goes to the task that has waited longest.
Grant(t) ==
    /\ phase = "serving"
    /\ queue # <<>> /\ Head(queue) = t
    /\ free > 0
    /\ free' = free - 1
    /\ queue' = Tail(queue)
    /\ loop' = [loop EXCEPT ![t] = "pulling"]
    /\ attempt' = [attempt EXCEPT ![t] = 1]
    /\ UNCHANGED <<processVars, threads, runtimeVars, durableVars, faults, crashes>>

-----------------------------------------------------------------------------
(* The driver call ends.  The slot is released, the outcome handled and     *)
(* in_flight cleared without a suspension in between.                       *)

\* Mutant: the finally does not clear in_flight.
LeavePullInFlight(t, next) ==
    /\ loop' = [loop EXCEPT ![t] = next]
    /\ attempt' = [attempt EXCEPT ![t] = 0]
    /\ free' = free + 1
    /\ UNCHANGED <<queue, threads, inFlight>>

\* _pull_once is left with the task in state next.
LeavePull(t, next) ==
    /\ loop' = [loop EXCEPT ![t] = next]
    /\ attempt' = [attempt EXCEPT ![t] = 0]
    /\ free' = free + 1
    /\ inFlight' = [inFlight EXCEPT ![t] = FALSE]
    /\ UNCHANGED <<queue, threads>>

\* Mutant: the table loop leaves after one pull.
SettleDone(t) == LeavePull(t, "done") /\ UNCHANGED phase

Settle(t) == LeavePull(t, IF once THEN "done" ELSE "idle") /\ UNCHANGED phase

\* An exception leaves _pull_once: it ends the task, or under --once the run.
Escape(t) ==
    IF once THEN ProcessEnds("failed")
    ELSE LeavePull(t, "dead") /\ UNCHANGED phase

\* The steps of _handle_success, in order, named by the one that raises.
Stages == {"write", "watermark", "schema", "record"}

\* What the write of an incremental pull publishes.  Without a stored watermark
\* (reset_incremental) that is all rows of the table, if it has any: a first pull
\* of none stores no watermark.  With one it is the old file and the new rows, or
\* the new rows alone, when _merge_incremental finds no file or cannot read it.
Publishes == {"all", "nothing", "merged", "alone"}

Publishable(t) ==
    { how \in Publishes :
        /\ how \in {"merged", "alone"} <=> marked[t]
        /\ how = "nothing" => lag[t] = "none" }

AfterWrite(l, how) ==
    IF how = "alone" THEN "behind" ELSE IF l = "none" THEN "ahead" ELSE l
AfterWatermark(l)  == IF l = "ahead" THEN "none" ELSE "behind"

\* Mutants: the watermark is stored before the file is written; or not at all.
LagBeforeSwapped(stage, l, how) ==
    IF stage = "write" \/ how = "nothing" THEN l
    ELSE IF stage = "watermark" THEN AfterWatermark(l)
    ELSE AfterWatermark(AfterWrite(l, how))

LagBeforeUnstored(stage, l, how) ==
    IF stage = "write" \/ how = "nothing" THEN l ELSE AfterWrite(l, how)

LagBefore(stage, l, how) ==
    IF stage = "write" \/ how = "nothing" THEN l
    ELSE IF stage = "watermark" THEN AfterWrite(l, how)
    ELSE AfterWatermark(AfterWrite(l, how))

\* File and watermark of an incremental table when _handle_success reaches stage.
Stored(t, stage, how) ==
    /\ lag' = [lag EXCEPT ![t] = LagBefore(stage, @, how)]
    /\ marked' = [marked EXCEPT ![t] =
                     @ \/ (how # "nothing" /\ stage \notin {"write", "watermark"})]
    /\ unmerged' = IF how = "alone" /\ stage # "write"
                   THEN unmerged \union {t} ELSE unmerged

\* What _handle_success has made durable when it reaches stage.
Durable(t, stage) ==
    /\ \/ /\ t \in Incremental
          /\ \E how \in Publishable(t) : Stored(t, stage, how)
       \/ /\ t \notin Incremental
          /\ UNCHANGED <<lag, marked, unmerged>>
    /\ baseline' = [baseline EXCEPT ![t] = @ \/ stage \in {"record", "end"}]

\* compare_schemas against a baseline sets the flag; nothing clears it.
ObserveSchema(t, stage) ==
    \E changed \in BOOLEAN :
        drift' = [drift EXCEPT ![t] = @ \/ ( /\ changed /\ baseline[t]
                                            /\ stage \in {"schema", "record", "end"})]

PullSucceeds(t) ==
    /\ phase = "serving" /\ loop[t] = "pulling"
    /\ Durable(t, "end")
    /\ ObserveSchema(t, "end")
    /\ hist' = [hist EXCEPT ![t] = Record(@, "success")]
    /\ status' = [status EXCEPT ![t] = "ok"]
    /\ failures' = [failures EXCEPT ![t] = 0]
    /\ Settle(t)
    /\ UNCHANGED <<once, shutdown, connected, driver, faults, crashes>>

\* Mutant: the failures are counted before this one is recorded.
RecordFailureLate(t, permanent) ==
    LET n == ConsecutiveFailures(hist[t])
    IN  /\ hist' = [hist EXCEPT ![t] = Record(@, "error")]
        /\ failures' = [failures EXCEPT ![t] = n]
        /\ status' = [status EXCEPT ![t] =
                        IF n >= FailureThreshold \/ permanent
                        THEN "error" ELSE "degraded"]

\* _handle_failure
RecordFailure(t, permanent) ==
    LET rows == Record(hist[t], "error")
        n    == ConsecutiveFailures(rows)
    IN  /\ hist' = [hist EXCEPT ![t] = rows]
        /\ failures' = [failures EXCEPT ![t] = n]
        /\ status' = [status EXCEPT ![t] =
                        IF n >= FailureThreshold \/ permanent
                        THEN "error" ELSE "degraded"]

\* _handle_failure raises: at record_pull, or after it at consecutive_failures.
RecordFailureRaises(t) ==
    /\ hist' \in {hist, [hist EXCEPT ![t] = Record(@, "error")]}
    /\ UNCHANGED <<failures, status>>

\* The driver answered but a step of _handle_success raised; what it made
\* durable before stays.  The same outage may hit _handle_failure too.
HandlerRaises(t) ==
    /\ phase = "serving" /\ loop[t] = "pulling"
    /\ faults < MaxFaults
    /\ faults' = faults + 1
    /\ \E stage \in Stages :
          /\ stage = "watermark" => t \in Incremental
          /\ Durable(t, stage)
          /\ ObserveSchema(t, stage)
    /\ \/ RecordFailure(t, FALSE) /\ Settle(t)
       \/ RecordFailureRaises(t) /\ Escape(t)
    /\ UNCHANGED <<once, shutdown, connected, driver, crashes>>

\* What an exception of the driver is classified as.
Errors == {"transient", "disconnected", "permanent"}

NoteConnection(e) == connected' = (connected /\ e # "disconnected")

\* Mutant: one retry too many.
PullRetriesOnceMore(t) ==
    /\ phase = "serving" /\ loop[t] = "pulling"
    /\ attempt[t] <= RetryLimit + 1
    /\ \E e \in Errors \ {"permanent"} : NoteConnection(e)
    /\ loop' = [loop EXCEPT ![t] = "retrying"]
    /\ UNCHANGED <<phase, once, shutdown, driver, attempt, poolVars, threads,
                   runtimeVars, durableVars, faults, crashes>>

\* The backoff sleep between attempts keeps the slot.
PullRetries(t) ==
    /\ phase = "serving" /\ loop[t] = "pulling"
    /\ attempt[t] <= RetryLimit
    /\ \E e \in Errors \ {"permanent"} : NoteConnection(e)
    /\ loop' = [loop EXCEPT ![t] = "retrying"]
    /\ UNCHANGED <<phase, once, shutdown, driver, attempt, poolVars, threads,
                   runtimeVars, durableVars, faults, crashes>>

RetryDelayExpires(t) ==
    /\ phase = "serving" /\ loop[t] = "retrying"
    /\ loop' = [loop EXCEPT ![t] = "pulling"]
    /\ attempt' = [attempt EXCEPT ![t] = @ + 1]
    /\ UNCHANGED <<processVars, poolVars, threads, runtimeVars, durableVars,
                   faults, crashes>>

GivesUp(t, e) ==
    /\ phase = "serving" /\ loop[t] = "pulling"
    /\ e = "permanent" \/ attempt[t] = RetryLimit + 1
    /\ NoteConnection(e)
    /\ UNCHANGED <<once, shutdown, driver, drift, baseline, lag, marked, unmerged,
                   crashes>>

PullFails(t) ==
    /\ \E e \in Errors : GivesUp(t, e) /\ RecordFailure(t, e = "permanent")
    /\ Settle(t)
    /\ UNCHANGED faults

PullFailsRaises(t) ==
    /\ faults < MaxFaults
    /\ faults' = faults + 1
    /\ \E e \in Errors : GivesUp(t, e)
    /\ RecordFailureRaises(t)
    /\ Escape(t)

-----------------------------------------------------------------------------
(* Shutdown: run cancels every task and gathers them, waits for in_flight   *)
(* flags at most shutdown_grace_seconds, and closes the driver.             *)

RequestShutdown ==
    /\ phase \in {"connecting", "backoff", "serving"}
    /\ ~shutdown
    /\ shutdown' = TRUE
    /\ UNCHANGED <<phase, once, connected, driver, taskVars, runtimeVars,
                   durableVars, faults, crashes>>

\* _table_loop sees the event at its loop condition, or in its cadence wait.
LoopExits(t) ==
    /\ phase = "serving" /\ loop[t] = "idle"
    /\ shutdown /\ ~once
    /\ loop' = [loop EXCEPT ![t] = "done"]
    /\ UNCHANGED <<processVars, attempt, poolVars, threads, runtimeVars,
                   durableVars, faults, crashes>>

CancelTasks ==
    /\ phase = "serving"
    /\ shutdown /\ ~once
    /\ phase' = "stopping"
    /\ UNCHANGED <<once, shutdown, connected, driver, taskVars, runtimeVars,
                   durableVars, faults, crashes>>

\* A cancelled waiter leaves the deque where it stands.
Without(q, t) ==
    LET i == CHOOSE j \in 1..Len(q) : q[j] = t
    IN  [k \in 1..(Len(q) - 1) |-> IF k < i THEN q[k] ELSE q[k + 1]]

\* Mutant: the slot of a task cancelled in its backoff sleep is lost.
TaskCancelledLosesSlot(t) ==
    /\ phase = "stopping"
    /\ loop[t] \notin Finished
    /\ loop' = [loop EXCEPT ![t] = "cancelled"]
    /\ attempt' = [attempt EXCEPT ![t] = 0]
    /\ queue' = IF loop[t] = "waiting" THEN Without(queue, t) ELSE queue
    /\ free' = IF loop[t] = "pulling" THEN free + 1 ELSE free
    /\ inFlight' = [inFlight EXCEPT ![t] = FALSE]
    /\ UNCHANGED <<processVars, threads, status, failures, drift, durableVars,
                   faults, crashes>>

\* CancelledError at the task's await: a waiter leaves the queue, a holder
\* returns its slot, the finally clears in_flight.  A pull that runs in a
\* worker thread is not stopped by it.
TaskCancelled(t) ==
    /\ phase = "stopping"
    /\ loop[t] \notin Finished
    /\ loop' = [loop EXCEPT ![t] = "cancelled"]
    /\ attempt' = [attempt EXCEPT ![t] = 0]
    /\ queue' = IF loop[t] = "waiting" THEN Without(queue, t) ELSE queue
    /\ free' = IF loop[t] \in Holding THEN free + 1 ELSE free
    /\ inFlight' = [inFlight EXCEPT ![t] = FALSE]
    /\ threads' = IF ThreadOffload /\ loop[t] = "pulling"
                  THEN threads \union {t} ELSE threads
    /\ UNCHANGED <<processVars, status, failures, drift, durableVars, faults, crashes>>

\* Mutant: run does not wait for the tasks it cancelled.
GatherReturnsEarly ==
    /\ phase = "stopping"
    /\ phase' = "draining"
    /\ UNCHANGED <<once, shutdown, connected, driver, taskVars, runtimeVars,
                   durableVars, faults, crashes>>

GatherReturns ==
    /\ phase = "stopping"
    /\ \A t \in Tables : loop[t] \in Finished
    /\ phase' = "draining"
    /\ UNCHANGED <<once, shutdown, connected, driver, taskVars, runtimeVars,
                   durableVars, faults, crashes>>

\* _await_in_flight returns when no flag is set or the deadline has passed, and
\* driver.close follows.
CloseDriver ==
    /\ phase = "draining"
    /\ phase' = "exited"
    /\ driver' = "closed"
    /\ UNCHANGED <<once, shutdown, connected, taskVars, runtimeVars,
                   durableVars, faults, crashes>>

\* --once: gather has returned and run does, without closing the driver.
OnceReturns ==
    /\ phase = "serving" /\ once
    /\ \A t \in Tables : loop[t] = "done"
    /\ phase' = "exited"
    /\ UNCHANGED <<once, shutdown, connected, driver, taskVars, runtimeVars,
                   durableVars, faults, crashes>>

ThreadEnds(t) ==
    /\ t \in threads
    /\ threads' = threads \ {t}
    /\ UNCHANGED <<processVars, loop, attempt, poolVars, runtimeVars,
                   durableVars, faults, crashes>>

-----------------------------------------------------------------------------
(* A kill at any moment, in the middle of a table's _handle_success too, and *)
(* the next start; systemd restarts the unit after a failure.                *)

Crash ==
    /\ phase \notin {"exited", "failed", "crashed"}
    /\ crashes < MaxCrashes
    /\ crashes' = crashes + 1
    /\ \/ UNCHANGED durableVars
       \/ \E t \in Tables, stage \in Stages :
             /\ phase = "serving" /\ loop[t] = "pulling"
             /\ Durable(t, stage)
             /\ UNCHANGED hist
    /\ ProcessEnds("crashed")
    /\ UNCHANGED <<once, shutdown, connected, driver, status, failures, drift, faults>>

Restart ==
    /\ phase \in {"failed", "crashed"}
    /\ phase' = "connecting"
    /\ shutdown' = FALSE
    /\ connected' = FALSE
    /\ driver' = "none"
    /\ status' = [t \in Tables |-> "pending"]
    /\ failures' = [t \in Tables |-> 0]
    /\ drift' = [t \in Tables |-> FALSE]
    /\ UNCHANGED <<once, taskVars, inFlight, durableVars, faults, crashes>>

-----------------------------------------------------------------------------
TableStep(t) ==
    \/ StartPull(t) \/ StartPullRaises(t) \/ Grant(t)
    \/ PullSucceeds(t) \/ HandlerRaises(t)
    \/ PullRetries(t) \/ RetryDelayExpires(t)
    \/ PullFails(t) \/ PullFailsRaises(t)
    \/ LoopExits(t) \/ TaskCancelled(t) \/ ThreadEnds(t)

Next ==
    \/ Connect \/ ConnectFailsTransient \/ ConnectFailsPermanent \/ BackoffExpires
    \/ \E t \in Tables : TableStep(t)
    \/ RequestShutdown \/ CancelTasks \/ GatherReturns \/ CloseDriver \/ OnceReturns
    \/ Crash \/ Restart

Spec == Init /\ [][Next]_vars

\* What the event loop owes to run and to each table task: a ready callback runs, a
\* sleep ends, and a driver call ends because connects and statements have timeouts.
\* Nobody owes a fault, a crash, a restart or a shutdown request.
RunGoesOn ==
    \/ Connect \/ ConnectFailsTransient \/ ConnectFailsPermanent \/ BackoffExpires
    \/ CancelTasks \/ GatherReturns \/ CloseDriver \/ OnceReturns

DriverCallEnds(t) == PullSucceeds(t) \/ PullRetries(t) \/ PullFails(t)

TaskGoesOn(t) ==
    \/ StartPull(t) \/ Grant(t) \/ DriverCallEnds(t) \/ RetryDelayExpires(t)
    \/ LoopExits(t) \/ TaskCancelled(t)

Fairness == WF_vars(RunGoesOn) /\ \A t \in Tables : WF_vars(TaskGoesOn(t))

FairSpec == Spec /\ Fairness

\* A source that is reachable again and again, and answers again and again.
HealthySource ==
    /\ SF_vars(Connect)
    /\ \A t \in Tables : SF_vars(PullSucceeds(t))

HealthySpec == FairSpec /\ HealthySource

-----------------------------------------------------------------------------
(* Safety *)

\* The pool's slots are neither lost nor duplicated on any way out of a pull:
\* success, give-up, exception of the handler, cancellation while waiting,
\* running or backing off.
SlotAccounting == free + Cardinality(Holders) = PoolSize

\* A task waits in the semaphore exactly when it is queued, once.
QueueHoldsTheWaiting ==
    /\ \A t \in Tables : loop[t] = "waiting" <=> \E i \in DOMAIN queue : queue[i] = t
    /\ \A i, j \in DOMAIN queue : queue[i] = queue[j] => i = j

\* in_flight is set exactly while the table's task is inside _pull_once, or was
\* killed there by the state store.  So a task that is about to pull always
\* finds it clear: the skipped_overlap branch of _pull_once is dead code.
InFlightIsExact ==
    \A t \in Tables : inFlight[t] <=> loop[t] \in Active \union {"wedged"}

\* The daemon loop never calls pull on a driver that has not connected or that
\* run has closed, whatever the order of connect failures, shutdown and pulls.
DaemonPullsOnOpenDriver ==
    ~once => \A t \in Tables : loop[t] = "pulling" => driver = "open"

\* driver.close runs when no pull is under way, in a task or in a thread.
CloseFindsDriverIdle ==
    driver = "closed" => Holders = {} /\ threads = {}

\* The in-memory status health reports is the one the persisted history
\* explains, restarts and truncated history included, for every table whose
\* task has not died in its failure handler.
StatusMatchesHistory ==
    phase = "serving" =>
      \A t \in Tables : loop[t] # "dead" =>
        /\ status[t] = "ok" =>
             /\ hist[t] # <<>> /\ Head(hist[t]) = "success"
             /\ failures[t] = 0
        /\ status[t] = "degraded" =>
             failures[t] \in 1..(FailureThreshold - 1)
        /\ status[t] # "pending" => failures[t] = ConsecutiveFailures(hist[t])

\* A stored watermark covers rows that the published file does not hold if and
\* only if a merge of that table was once given up for the new rows alone: no
\* fault or kill between two steps of _handle_success ever has that effect, and
\* no later pull, retry or restart of the process undoes it.
OnlyLostMergesLoseRows == \A t \in Tables : lag[t] = "behind" <=> t \in unmerged

\* A table reported ok has its last pull's file and watermark both committed, and
\* they agree unless its merge was once given up; then it is reported ok all the
\* same.
OkMeansCommitted ==
    phase = "serving" =>
      \A t \in Tables : status[t] = "ok" /\ loop[t] # "dead" =>
        lag[t] = IF t \in unmerged THEN "behind" ELSE "none"

-----------------------------------------------------------------------------
(* Liveness *)

Stopped == phase \in {"exited", "failed", "crashed"}

\* A shutdown request ends the run, from any point of the connect loop or of a
\* pull; so does --once when every table has had its pull.
RunEnds == shutdown \/ (once /\ phase = "serving") ~> Stopped

\* First come, first served: a task that waits for a slot gets it or is stopped.
WaitersAreServed ==
    \A t \in Tables : loop[t] = "waiting" ~> loop[t] # "waiting"

\* A table is pulled again and again until shutdown, whatever the other tables'
\* pulls, retries and failures do to the pool.
TablesKeepPulling ==
    \A t \in Tables : phase = "serving" ~> loop[t] = "pulling" \/ shutdown \/ Stopped

-----------------------------------------------------------------------------
(* What documents say of the daemon. *)

\* status_snapshot's overall verdict.
Health ==
    IF ~connected \/ \E t \in Tables : status[t] = "error" THEN "error"
    ELSE IF \E t \in Tables : status[t] = "degraded" \/ drift[t] THEN "degraded"
    ELSE "ok"

\* README.md, error handling: after a lost connection health reports the source
\* disconnected until the process reconnects or is restarted.
ConnectionRecovers ==
    phase = "serving" /\ ~connected ~> connected \/ shutdown \/ Stopped

\* README.md, operations: SIGTERM waits up to shutdown_grace_seconds for
\* in-flight pulls; so none is cancelled before that wait.
InFlightPullsGetTheGrace ==
    [][\A t \in Tables : inFlight[t] /\ loop'[t] = "cancelled" => phase = "draining"]_vars

\* SPEC.md 8.2: ok means every table succeeded within 3 cadences.  A table whose
\* task is dead will not succeed again.
OkMeansEveryTableIsPulled ==
    phase = "serving" /\ ~shutdown /\ Health = "ok" =>
      \A t \in Tables : loop[t] \notin {"wedged", "dead"}
=============================================================================
