---------------------------- MODULE DaemonProofs ----------------------------
(***************************************************************************)
(* Theorems about Daemon, for every set of tables, pool size, retry limit, *)
(* failure threshold and number of faults and crashes: first what the      *)
(* history of pulls guarantees (PullHistory), then the pool of workers,    *)
(* then the outcomes of pulls: what the daemon keeps in memory for health, *)
(* in pull_history, in the watermark and in the published file, through    *)
(* faults, kills and restarts; last, properties of steps: the queue is     *)
(* served in its order, a slot is held for so many calls, and a run that   *)
(* shuts down goes one way.                                                *)
(***************************************************************************)
EXTENDS Daemon, FiniteSetTheorems, SequenceTheorems, TLAPS

-----------------------------------------------------------------------------
(* What record_pull and consecutive_failures (core/state.py) guarantee to   *)
(* the daemon, for every history, retention and window.                     *)

\* The rows counted are finitely many, whatever the history holds.
LEMMA FailureRunFinite ==
  ASSUME NEW h
  PROVE  IsFiniteSet(FailureRun(h)) /\ Cardinality(FailureRun(h)) <= FailureWindow
  <1>1. IsFiniteSet(1..FailureWindow) /\ Cardinality(1..FailureWindow) = FailureWindow
    BY HistoryAssumption, FS_Interval
  <1>2. FailureRun(h) \in SUBSET (1..FailureWindow)
    BY DEF FailureRun
  <1> QED
    BY <1>1, <1>2, FS_Subset

LEMMA FailuresAreCounted ==
  ASSUME NEW h
  PROVE  ConsecutiveFailures(h) \in Nat
  BY FailureRunFinite, FS_CardinalityType DEF ConsecutiveFailures

\* The count saturates at the window that consecutive_failures reads.
LEMMA FailuresSaturate ==
  ASSUME NEW h
  PROVE  ConsecutiveFailures(h) <= FailureWindow
  BY FailureRunFinite DEF ConsecutiveFailures

\* The recorded row is the newest, also when older rows are cut off.
LEMMA RecordProperties ==
  ASSUME NEW h \in Seq(RowStatus), NEW s \in RowStatus
  PROVE  /\ Record(h, s) \in Seq(RowStatus)
         /\ Len(Record(h, s)) \in 1..Retention
         /\ Record(h, s)[1] = s
  <1> DEFINE rows == <<s>> \o h
  <1>1. <<s>> \in Seq(RowStatus) /\ Len(<<s>>) = 1
    OBVIOUS
  <1>2. rows \in Seq(RowStatus) /\ Len(rows) = 1 + Len(h) /\ Len(h) \in Nat /\ rows[1] = s
    BY <1>1, ConcatProperties, LenProperties
  <1>3. CASE Len(rows) <= Retention
    BY <1>2, <1>3, HistoryAssumption DEF Record
  <1>4. CASE ~(Len(rows) <= Retention)
    <2>1. Record(h, s) = SubSeq(rows, 1, Retention)
      BY <1>4 DEF Record
    <2> HIDE DEF rows
    <2>2. Retention <= Len(rows) /\ Retention \in Nat /\ Retention >= 1
      BY <1>2, <1>4, HistoryAssumption
    <2>3. /\ SubSeq(rows, 1, Retention) \in Seq(RowStatus)
          /\ Len(SubSeq(rows, 1, Retention)) = Retention
          /\ SubSeq(rows, 1, Retention)[1] = rows[1]
      BY <1>2, <2>2, SubSeqProperties
    <2> QED
      BY <1>2, <2>1, <2>2, <2>3
  <1> QED
    BY <1>3, <1>4

\* A success ends the run of failures.
LEMMA SuccessEndsTheRun ==
  ASSUME NEW h \in Seq(RowStatus)
  PROVE  ConsecutiveFailures(Record(h, "success")) = 0
  <1>1. Record(h, "success")[1] = "success"
    BY RecordProperties DEF RowStatus
  <1>2. FailureRun(Record(h, "success")) = {}
    BY <1>1 DEF FailureRun
  <1> QED
    BY <1>2, FS_EmptySet DEF ConsecutiveFailures

\* A failure that has been recorded is counted.
LEMMA ErrorIsCounted ==
  ASSUME NEW h \in Seq(RowStatus)
  PROVE  ConsecutiveFailures(Record(h, "error")) \in Nat \ {0}
  <1> DEFINE r == Record(h, "error")
  <1>1. r[1] = "error" /\ Len(r) \in Nat /\ Len(r) >= 1
    BY RecordProperties, HistoryAssumption DEF RowStatus
  <1> HIDE DEF r
  <1>2. 1 \in FailureRun(r)
    BY <1>1, HistoryAssumption DEF FailureRun
  <1>3. Cardinality(FailureRun(r)) # 0 /\ Cardinality(FailureRun(r)) \in Nat
    BY <1>2, FailureRunFinite, FS_EmptySet, FS_CardinalityType
  <1> QED
    BY <1>3 DEF ConsecutiveFailures, r

-----------------------------------------------------------------------------
(* The pool: the tasks, the semaphore and the in_flight flags.  The slots   *)
(* add up because a task holds one exactly in the states Holding; the       *)
(* queue and the flags follow the state of the tasks; a task that backs off *)
(* has a retry left.                                                        *)

PoolTypes ==
    /\ phase \in Phases
    /\ loop \in [Tables -> LoopStates]
    /\ attempt \in [Tables -> 0..(RetryLimit + 1)]
    /\ queue \in Seq(Tables)
    /\ free \in 0..PoolSize
    /\ inFlight \in [Tables -> BOOLEAN]

RetriesBounded == \A t \in Tables : loop[t] = "retrying" => attempt[t] <= RetryLimit

\* Outside serving and shutdown there are no tasks.
TasksExistWhileServing ==
    phase \in {"connecting", "backoff", "failed", "crashed"} =>
      \A t \in Tables : loop[t] = "none"

PoolInv ==
    /\ PoolTypes
    /\ RetriesBounded
    /\ TasksExistWhileServing
    /\ SlotAccounting
    /\ QueueHoldsTheWaiting
    /\ InFlightIsExact

LEMMA HoldersFinite == IsFiniteSet(Holders) /\ Cardinality(Holders) \in Nat
  <1>1. Holders \in SUBSET Tables
    BY DEF Holders
  <1>2. IsFiniteSet(Holders)
    BY <1>1, DaemonAssumption, FS_Subset
  <1> QED
    BY <1>2, FS_CardinalityType

\* Slots are accounted for when the holders do not change, when one task starts
\* to hold and when one ceases to.
LEMMA SlotsKept ==
  ASSUME SlotAccounting, free' = free, Holders' = Holders
  PROVE  SlotAccounting'
  BY DEF SlotAccounting

LEMMA SlotTaken ==
  ASSUME NEW t, SlotAccounting, t \notin Holders, free \in Nat,
         free' = free - 1, Holders' = Holders \union {t}
  PROVE  SlotAccounting'
  <1>1. Cardinality(Holders') = Cardinality(Holders) + 1
    BY HoldersFinite, FS_AddElement
  <1> QED
    BY <1>1, HoldersFinite, DaemonAssumption DEF SlotAccounting

LEMMA SlotReturned ==
  ASSUME NEW t, SlotAccounting, t \in Holders, free \in Nat,
         free' = free + 1, Holders' = Holders \ {t}
  PROVE  SlotAccounting' /\ free < PoolSize
  <1>1. Cardinality(Holders') = Cardinality(Holders) - 1 /\ Cardinality(Holders') \in Nat
    <2>1. IsFiniteSet(Holders \ {t}) /\ Cardinality(Holders \ {t}) = Cardinality(Holders) - 1
      BY HoldersFinite, FS_RemoveElement
    <2> QED
      BY <2>1, FS_CardinalityType
  <1> QED
    BY <1>1, HoldersFinite, DaemonAssumption DEF SlotAccounting

LEMMA NoHolders ==
  ASSUME Holders = {}, free = PoolSize
  PROVE  SlotAccounting
  <1>1. Cardinality({}) = 0
    BY FS_EmptySet
  <1> QED
    BY <1>1, DaemonAssumption DEF SlotAccounting

-----------------------------------------------------------------------------
(* The ways the pool changes. *)

LEMMA PoolInit == Init => PoolInv
  <1> SUFFICES ASSUME Init PROVE PoolInv
    OBVIOUS
  <1>1. Holders = {}
    BY DEF Holders, Holding, Init
  <1>2. SlotAccounting
    BY <1>1, NoHolders DEF Init
  <1>3. PoolTypes
    BY DaemonAssumption, EmptySeq DEF Init, PoolTypes, Phases, LoopStates
  <1> QED
    BY <1>2, <1>3 DEF Init, PoolInv, RetriesBounded, TasksExistWhileServing,
       QueueHoldsTheWaiting, InFlightIsExact, Active

LEMMA PoolUnchanged ==
  ASSUME PoolInv, phase' \in Phases,
         UNCHANGED <<loop, attempt, queue, free, inFlight>>,
         TasksExistWhileServing'
  PROVE  PoolInv'
  <1>1. Holders' = Holders
    BY DEF Holders
  <1> QED
    BY <1>1 DEF PoolInv, PoolTypes, RetriesBounded, SlotAccounting,
       QueueHoldsTheWaiting, InFlightIsExact

LEMMA PoolProcessEnds ==
  ASSUME NEW p \in Phases, ProcessEnds(p)
  PROVE  PoolInv'
  <1>1. Holders' = {}
    BY DEF Holders, Holding, ProcessEnds
  <1>2. SlotAccounting'
    <2>1. Cardinality({}) = 0
      BY FS_EmptySet
    <2> QED
      BY <1>1, <2>1, DaemonAssumption DEF SlotAccounting, ProcessEnds
  <1>3. PoolTypes'
    BY DaemonAssumption, EmptySeq DEF ProcessEnds, PoolTypes, LoopStates
  <1> QED
    BY <1>2, <1>3 DEF ProcessEnds, PoolInv, RetriesBounded, TasksExistWhileServing,
       QueueHoldsTheWaiting, InFlightIsExact, Active

LEMMA PoolCreateTasks ==
  ASSUME PoolInv, phase = "connecting", CreateTasks,
         UNCHANGED <<attempt, queue, free, inFlight>>
  PROVE  PoolInv'
  <1>1. \A t \in Tables : loop[t] = "none"
    BY DEF PoolInv, TasksExistWhileServing
  <1>2. Holders = {} /\ Holders' = {}
    BY <1>1 DEF Holders, Holding, CreateTasks
  <1>3. SlotAccounting'
    BY <1>2, SlotsKept DEF PoolInv
  <1> QED
    BY <1>1, <1>3 DEF CreateTasks, PoolInv, PoolTypes, Phases, LoopStates, RetriesBounded,
       TasksExistWhileServing, QueueHoldsTheWaiting, InFlightIsExact, Active

LEMMA PoolLeavePull ==
  ASSUME PoolInv, NEW t \in Tables, loop[t] = "pulling", phase = "serving",
         NEW next \in {"idle", "done", "dead"},
         LeavePull(t, next), UNCHANGED phase
  PROVE  PoolInv'
  <1>1. t \in Holders /\ Holders' = Holders \ {t}
    BY DEF PoolInv, PoolTypes, Holders, Holding, LeavePull
  <1>2. SlotAccounting' /\ free < PoolSize
    BY <1>1, SlotReturned, DaemonAssumption DEF PoolInv, PoolTypes, LeavePull
  <1>3. PoolTypes'
    BY <1>2, DaemonAssumption DEF PoolInv, PoolTypes, LeavePull, LoopStates, Finished
  <1>4. RetriesBounded' /\ TasksExistWhileServing'
    BY DEF PoolInv, PoolTypes, RetriesBounded, TasksExistWhileServing, LeavePull
  <1>5. QueueHoldsTheWaiting'
    BY DEF PoolInv, PoolTypes, QueueHoldsTheWaiting, LeavePull
  <1>6. InFlightIsExact'
    BY DEF PoolInv, PoolTypes, InFlightIsExact, LeavePull, Active
  <1> QED
    BY <1>2, <1>3, <1>4, <1>5, <1>6 DEF PoolInv

LEMMA PoolStartPull ==
  ASSUME PoolInv, NEW t \in Tables, StartPull(t)
  PROVE  PoolInv'
  <1> USE DEF StartPull, MayPull, processVars
  <1>0. PoolTypes /\ SlotAccounting /\ QueueHoldsTheWaiting
    BY DEF PoolInv
  <1>1. CASE free > 0 /\ queue = <<>>
    <2>1. /\ free' = free - 1
          /\ loop' = [loop EXCEPT ![t] = "pulling"]
          /\ attempt' = [attempt EXCEPT ![t] = 1]
          /\ queue' = queue
      BY <1>1
    <2>2. t \notin Holders /\ Holders' = Holders \union {t}
      BY <1>0, <2>1 DEF PoolTypes, Holders, Holding
    <2>3. SlotAccounting'
      BY <1>0, <2>1, <2>2, SlotTaken, DaemonAssumption DEF PoolTypes
    <2>4. PoolTypes'
      BY <1>0, <1>1, <2>1, DaemonAssumption DEF PoolTypes, LoopStates, Active
    <2> QED
      BY <1>0, <2>1, <2>3, <2>4 DEF PoolInv, PoolTypes, RetriesBounded,
         TasksExistWhileServing, QueueHoldsTheWaiting, InFlightIsExact, Active
  <1>2. CASE ~(free > 0 /\ queue = <<>>)
    <2>1. /\ queue' = Append(queue, t)
          /\ loop' = [loop EXCEPT ![t] = "waiting"]
          /\ UNCHANGED <<free, attempt>>
      BY <1>2
    <2>2. Holders' = Holders
      BY <1>0, <2>1 DEF PoolTypes, Holders, Holding
    <2>3. SlotAccounting'
      BY <1>0, <2>1, <2>2, SlotsKept
    <2>4. /\ queue' \in Seq(Tables)
          /\ Len(queue') = Len(queue) + 1
          /\ \A i \in 1..Len(queue) : queue'[i] = queue[i]
          /\ queue'[Len(queue) + 1] = t
      BY <1>0, <2>1, AppendProperties DEF PoolTypes
    <2>5. PoolTypes'
      BY <1>0, <2>1, <2>4 DEF PoolTypes, LoopStates, Active
    <2>6. QueueHoldsTheWaiting'
      <3>1. \A i \in DOMAIN queue : queue[i] # t
        BY <1>0 DEF QueueHoldsTheWaiting
      <3>2. DOMAIN queue = 1..Len(queue) /\ DOMAIN queue' = 1..(Len(queue) + 1) /\ Len(queue) \in Nat
        BY <1>0, <2>4, LenProperties DEF PoolTypes
      <3>3. ASSUME NEW u \in Tables
            PROVE  loop'[u] = "waiting" <=> \E i \in DOMAIN queue' : queue'[i] = u
        <4>1. CASE u = t
          <5>1. loop'[u] = "waiting"
            BY <1>0, <2>1, <4>1 DEF PoolTypes
          <5>2. Len(queue) + 1 \in DOMAIN queue'
            BY <3>2
          <5> QED
            BY <2>4, <4>1, <5>1, <5>2
        <4>2. CASE u # t
          <5>1. loop'[u] = loop[u]
            BY <1>0, <2>1, <4>2 DEF PoolTypes
          <5>2. (\E i \in DOMAIN queue' : queue'[i] = u) <=> (\E i \in DOMAIN queue : queue[i] = u)
            BY <2>4, <3>2, <4>2
          <5> QED
            BY <1>0, <5>1, <5>2 DEF QueueHoldsTheWaiting
        <4> QED
          BY <4>1, <4>2
      <3>4. \A i, j \in DOMAIN queue' : queue'[i] = queue'[j] => i = j
        BY <1>0, <2>4, <3>1, <3>2 DEF QueueHoldsTheWaiting
      <3> QED
        BY <3>3, <3>4 DEF QueueHoldsTheWaiting
    <2> QED
      BY <1>0, <2>1, <2>3, <2>5, <2>6 DEF PoolInv, PoolTypes, RetriesBounded,
         TasksExistWhileServing, InFlightIsExact, Active
  <1> QED
    BY <1>1, <1>2

LEMMA PoolStartPullRaises ==
  ASSUME PoolInv, NEW t \in Tables, StartPullRaises(t)
  PROVE  PoolInv'
  <1>1. CASE ProcessEnds("failed")
    BY <1>1, PoolProcessEnds DEF Phases
  <1>2. CASE ~ProcessEnds("failed")
    <2>1. /\ loop[t] = "idle"
          /\ loop' = [loop EXCEPT ![t] = "wedged"]
          /\ inFlight' = [inFlight EXCEPT ![t] = TRUE]
          /\ UNCHANGED <<phase, attempt, queue, free>>
      BY <1>2 DEF StartPullRaises, MayPull, poolVars
    <2>2. Holders' = Holders
      BY <2>1 DEF PoolInv, PoolTypes, Holders, Holding
    <2>3. SlotAccounting'
      BY <2>1, <2>2, SlotsKept DEF PoolInv
    <2> QED
      BY <2>1, <2>3 DEF PoolInv, PoolTypes, RetriesBounded, TasksExistWhileServing,
         QueueHoldsTheWaiting, InFlightIsExact, LoopStates, Finished, Active
  <1> QED
    BY <1>1, <1>2

LEMMA PoolGrant ==
  ASSUME PoolInv, NEW t \in Tables, Grant(t)
  PROVE  PoolInv'
  <1> USE DEF Grant, processVars, runtimeVars
  <1>0. PoolTypes /\ SlotAccounting /\ QueueHoldsTheWaiting
    BY DEF PoolInv
  <1>1. /\ queue # <<>> /\ queue \in Seq(Tables)
        /\ queue' \in Seq(Tables)
        /\ Len(queue') = Len(queue) - 1 /\ Len(queue) \in Nat /\ Len(queue) > 0
        /\ DOMAIN queue = 1..Len(queue) /\ DOMAIN queue' = 1..(Len(queue) - 1)
        /\ \A i \in 1..(Len(queue) - 1) : queue'[i] = queue[i + 1]
        /\ queue[1] = t
    BY <1>0, HeadTailProperties, LenProperties DEF PoolTypes
  <1>2. loop[t] = "waiting"
    BY <1>0, <1>1 DEF QueueHoldsTheWaiting
  <1>3. t \notin Holders /\ Holders' = Holders \union {t}
    BY <1>0, <1>2 DEF PoolTypes, Holders, Holding
  <1>4. SlotAccounting'
    BY <1>0, <1>3, SlotTaken, DaemonAssumption DEF PoolTypes
  <1>5. PoolTypes'
    BY <1>0, <1>1, DaemonAssumption DEF PoolTypes, LoopStates, Active
  <1>6. QueueHoldsTheWaiting'
    <2>1. \A i \in 2..Len(queue) : queue[i] # t
      BY <1>0, <1>1 DEF QueueHoldsTheWaiting
    <2>2. ASSUME NEW u \in Tables
          PROVE  loop'[u] = "waiting" <=> \E i \in DOMAIN queue' : queue'[i] = u
      <3>1. CASE u = t
        BY <1>0, <1>1, <2>1, <3>1 DEF PoolTypes
      <3>2. CASE u # t
        <4>1. loop'[u] = loop[u]
          BY <1>0, <3>2 DEF PoolTypes
        <4>2. ASSUME NEW i \in DOMAIN queue, queue[i] = u
              PROVE  i - 1 \in DOMAIN queue' /\ queue'[i - 1] = u
          BY <1>1, <3>2, <4>2
        <4>3. ASSUME NEW i \in DOMAIN queue', queue'[i] = u
              PROVE  i + 1 \in DOMAIN queue /\ queue[i + 1] = u
          BY <1>1, <4>3
        <4> QED
          BY <1>0, <4>1, <4>2, <4>3 DEF QueueHoldsTheWaiting
      <3> QED
        BY <3>1, <3>2
    <2>3. \A i, j \in DOMAIN queue' : queue'[i] = queue'[j] => i = j
      BY <1>0, <1>1 DEF QueueHoldsTheWaiting
    <2> QED
      BY <2>2, <2>3 DEF QueueHoldsTheWaiting
  <1> QED
    BY <1>0, <1>2, <1>4, <1>5, <1>6 DEF PoolInv, PoolTypes, RetriesBounded,
       TasksExistWhileServing, InFlightIsExact, Active

LEMMA PoolRetries ==
  ASSUME PoolInv, NEW t \in Tables, PullRetries(t) \/ RetryDelayExpires(t)
  PROVE  PoolInv'
  <1>0. PoolTypes
    BY DEF PoolInv
  <1>1. Holders' = Holders
    BY <1>0 DEF PoolTypes, Holders, Holding, PullRetries, RetryDelayExpires
  <1>2. UNCHANGED <<phase, queue, free, inFlight>>
    BY DEF PullRetries, RetryDelayExpires, processVars, poolVars, runtimeVars
  <1>3. SlotAccounting'
    BY <1>1, <1>2, SlotsKept DEF PoolInv
  <1>4. PoolTypes' /\ RetriesBounded'
    <2>1. CASE PullRetries(t)
      BY <1>0, <1>2, <2>1, DaemonAssumption DEF PoolInv, PoolTypes, RetriesBounded,
         PullRetries, LoopStates, Active
    <2>2. CASE RetryDelayExpires(t)
      <3>1. attempt[t] \in 0..RetryLimit
        BY <1>0, <2>2, DaemonAssumption DEF PoolInv, PoolTypes, RetriesBounded,
           RetryDelayExpires
      <3>2. attempt' = [attempt EXCEPT ![t] = attempt[t] + 1]
        BY <2>2 DEF RetryDelayExpires
      <3>3. attempt' \in [Tables -> 0..(RetryLimit + 1)]
        BY <1>0, <3>1, <3>2, DaemonAssumption DEF PoolTypes
      <3> QED
        BY <1>0, <1>2, <2>2, <3>2, <3>3, DaemonAssumption DEF PoolInv, PoolTypes,
           RetriesBounded, RetryDelayExpires, LoopStates, Active
    <2> QED
      BY <2>1, <2>2
  <1> QED
    BY <1>0, <1>2, <1>3, <1>4 DEF PoolInv, PoolTypes, TasksExistWhileServing,
       QueueHoldsTheWaiting, InFlightIsExact, Active, PullRetries, RetryDelayExpires

LEMMA PoolLoopExits ==
  ASSUME PoolInv, NEW t \in Tables, LoopExits(t)
  PROVE  PoolInv'
  <1>0. PoolTypes
    BY DEF PoolInv
  <1>1. Holders' = Holders
    BY <1>0 DEF PoolTypes, Holders, Holding, LoopExits
  <1>2. UNCHANGED <<phase, attempt, queue, free, inFlight>>
    BY DEF LoopExits, processVars, poolVars, runtimeVars
  <1>3. SlotAccounting'
    BY <1>1, <1>2, SlotsKept DEF PoolInv
  <1> QED
    BY <1>0, <1>2, <1>3 DEF PoolInv, PoolTypes, TasksExistWhileServing, RetriesBounded,
       QueueHoldsTheWaiting, InFlightIsExact, Active, LoopStates, Finished, LoopExits

\* Taking a task out of a queue that holds it once.
LEMMA WithoutProperties ==
  ASSUME NEW S, NEW q \in Seq(S), NEW t \in S,
         \E i \in DOMAIN q : q[i] = t,
         \A i, j \in DOMAIN q : q[i] = q[j] => i = j
  PROVE  /\ Without(q, t) \in Seq(S)
         /\ \A u \in S : u # t =>
              ((\E i \in DOMAIN q : q[i] = u)
                 <=> \E i \in DOMAIN Without(q, t) : Without(q, t)[i] = u)
         /\ \A i \in DOMAIN Without(q, t) : Without(q, t)[i] # t
         /\ \A i, j \in DOMAIN Without(q, t) :
              Without(q, t)[i] = Without(q, t)[j] => i = j
  <1> DEFINE i == CHOOSE j \in 1..Len(q) : q[j] = t
             w == Without(q, t)
             m == Len(q) - 1
  <1>1. Len(q) \in Nat /\ DOMAIN q = 1..Len(q) /\ \A k \in 1..Len(q) : q[k] \in S
    BY LenProperties, ElementOfSeq
  <1>2. i \in 1..Len(q) /\ q[i] = t
    BY <1>1
  <1>3. m \in Nat
    BY <1>1, <1>2
  <1>4. w = [k \in 1..m |-> IF k < i THEN q[k] ELSE q[k + 1]]
    BY DEF Without
  <1> HIDE DEF i, w
  <1>5. DOMAIN w = 1..m /\ \A k \in 1..m : w[k] = IF k < i THEN q[k] ELSE q[k + 1]
    BY <1>4
  <1>6. w \in Seq(S)
    <2>1. \A k \in 1..m : (IF k < i THEN q[k] ELSE q[k + 1]) \in S
      BY <1>1, <1>2, <1>3
    <2>2. w \in [1..m -> S]
      BY <1>4, <2>1
    <2> QED
      BY <1>3, <2>2, SeqDef
  <1>7. \A k \in 1..m : w[k] # t
    BY <1>1, <1>2, <1>3, <1>5
  <1>8. ASSUME NEW k \in 1..m, NEW l \in 1..m, w[k] = w[l]
        PROVE  k = l
    <2> DEFINE At(n) == IF n < i THEN n ELSE n + 1
    <2>1. At(k) \in DOMAIN q /\ At(l) \in DOMAIN q
      BY <1>1, <1>2, <1>3
    <2>2. w[k] = q[At(k)] /\ w[l] = q[At(l)]
      BY <1>5
    <2>3. At(k) = At(l)
      BY <1>8, <2>1, <2>2
    <2> QED
      BY <1>2, <2>3
  <1>9. ASSUME NEW u \in S, u # t
        PROVE  (\E k \in DOMAIN q : q[k] = u) <=> \E k \in DOMAIN w : w[k] = u
    <2>1. ASSUME NEW k \in DOMAIN q, q[k] = u
          PROVE  \E l \in DOMAIN w : w[l] = u
      <3>1. CASE k < i
        <4>1. k \in 1..m /\ w[k] = u
          BY <1>1, <1>2, <1>3, <1>5, <2>1, <3>1
        <4> QED
          BY <1>5, <4>1
      <3>2. CASE k > i
        <4>1. k - 1 \in 1..m /\ w[k - 1] = u
          BY <1>1, <1>2, <1>3, <1>5, <2>1, <3>2
        <4> QED
          BY <1>5, <4>1
      <3> QED
        BY <1>1, <1>2, <1>9, <2>1, <3>1, <3>2
    <2>2. ASSUME NEW k \in DOMAIN w, w[k] = u
          PROVE  \E l \in DOMAIN q : q[l] = u
      <3>1. k \in DOMAIN q /\ k + 1 \in DOMAIN q
        BY <1>1, <1>3, <1>5, <2>2
      <3> QED
        BY <1>5, <2>2, <3>1
    <2> QED
      BY <2>1, <2>2
  <1> QED
    BY <1>5, <1>6, <1>7, <1>8, <1>9 DEF w

LEMMA PoolTaskCancelled ==
  ASSUME PoolInv, NEW t \in Tables, TaskCancelled(t)
  PROVE  PoolInv'
  <1>0. PoolTypes /\ SlotAccounting /\ QueueHoldsTheWaiting /\ InFlightIsExact
    BY DEF PoolInv
  <1>1. /\ phase = "stopping" /\ phase' = phase
        /\ loop[t] \notin Finished
        /\ loop' = [loop EXCEPT ![t] = "cancelled"]
        /\ attempt' = [attempt EXCEPT ![t] = 0]
        /\ inFlight' = [inFlight EXCEPT ![t] = FALSE]
    BY DEF TaskCancelled, processVars
  <1>2. SlotAccounting' /\ free' \in 0..PoolSize
    <2>1. CASE loop[t] \in Holding
      <3>1. t \in Holders /\ Holders' = Holders \ {t}
        BY <1>0, <1>1, <2>1 DEF PoolTypes, Holders, Holding
      <3>2. free' = free + 1
        BY <2>1 DEF TaskCancelled
      <3> QED
        BY <1>0, <3>1, <3>2, SlotReturned, DaemonAssumption DEF PoolTypes
    <2>2. CASE loop[t] \notin Holding
      <3>1. Holders' = Holders
        BY <1>0, <1>1, <2>2 DEF PoolTypes, Holders, Holding
      <3>2. free' = free
        BY <2>2 DEF TaskCancelled
      <3> QED
        BY <1>0, <3>1, <3>2, SlotsKept DEF PoolTypes
    <2> QED
      BY <2>1, <2>2
  <1>3. queue' \in Seq(Tables) /\ QueueHoldsTheWaiting'
    <2>1. CASE loop[t] = "waiting"
      <3>1. queue' = Without(queue, t)
        BY <2>1 DEF TaskCancelled
      <3>2. /\ queue' \in Seq(Tables)
            /\ \A u \in Tables : u # t =>
                 ((\E i \in DOMAIN queue : queue[i] = u)
                   <=> \E i \in DOMAIN queue' : queue'[i] = u)
            /\ \A i \in DOMAIN queue' : queue'[i] # t
            /\ \A i, j \in DOMAIN queue' : queue'[i] = queue'[j] => i = j
        <4>1. /\ queue \in Seq(Tables)
              /\ \E i \in DOMAIN queue : queue[i] = t
              /\ \A i, j \in DOMAIN queue : queue[i] = queue[j] => i = j
          BY <1>0, <2>1 DEF PoolTypes, QueueHoldsTheWaiting
        <4> DEFINE w == Without(queue, t)
        <4>2. /\ w \in Seq(Tables)
              /\ \A u \in Tables : u # t =>
                   ((\E i \in DOMAIN queue : queue[i] = u)
                     <=> \E i \in DOMAIN w : w[i] = u)
              /\ \A i \in DOMAIN w : w[i] # t
              /\ \A i, j \in DOMAIN w : w[i] = w[j] => i = j
          BY <4>1, WithoutProperties
        <4> HIDE DEF w
        <4>3. queue' = w
          BY <3>1 DEF w
        <4> QED
          BY <4>2, <4>3
      <3>3. \A u \in Tables : loop'[u] = IF u = t THEN "cancelled" ELSE loop[u]
        BY <1>0, <1>1 DEF PoolTypes
      <3> QED
        BY <1>0, <3>2, <3>3 DEF QueueHoldsTheWaiting
    <2>2. CASE loop[t] # "waiting"
      <3>1. queue' = queue
        BY <2>2 DEF TaskCancelled
      <3>2. \A u \in Tables : loop'[u] = IF u = t THEN "cancelled" ELSE loop[u]
        BY <1>0, <1>1 DEF PoolTypes
      <3> QED
        BY <1>0, <2>2, <3>1, <3>2 DEF PoolTypes, QueueHoldsTheWaiting
    <2> QED
      BY <2>1, <2>2
  <1>4. PoolTypes' /\ RetriesBounded' /\ TasksExistWhileServing'
    BY <1>0, <1>1, <1>2, <1>3, DaemonAssumption DEF PoolInv, PoolTypes, RetriesBounded,
       TasksExistWhileServing, LoopStates, Finished
  <1>5. InFlightIsExact'
    BY <1>0, <1>1 DEF PoolTypes, InFlightIsExact, Active
  <1> QED
    BY <1>2, <1>3, <1>4, <1>5 DEF PoolInv

LEMMA PoolOutcome ==
  ASSUME PoolInv, NEW t \in Tables, phase = "serving", loop[t] = "pulling",
         Settle(t) \/ Escape(t)
  PROVE  PoolInv'
  <1>1. CASE ProcessEnds("failed")
    BY <1>1, PoolProcessEnds DEF Phases
  <1>2. CASE ~ProcessEnds("failed")
    <2>1. PICK next \in {"idle", "done", "dead"} : LeavePull(t, next) /\ UNCHANGED phase
      BY <1>2 DEF Settle, Escape
    <2> QED
      BY <2>1, PoolLeavePull
  <1> QED
    BY <1>1, <1>2

LEMMA PoolTableStep ==
  ASSUME PoolInv, NEW t \in Tables, TableStep(t)
  PROVE  PoolInv'
  <1>1. CASE StartPull(t)
    BY <1>1, PoolStartPull
  <1>2. CASE StartPullRaises(t)
    BY <1>2, PoolStartPullRaises
  <1>3. CASE Grant(t)
    BY <1>3, PoolGrant
  <1>4. CASE PullSucceeds(t) \/ HandlerRaises(t)
    BY <1>4, PoolOutcome DEF PullSucceeds, HandlerRaises
  <1>5. CASE PullRetries(t) \/ RetryDelayExpires(t)
    BY <1>5, PoolRetries
  <1>6. CASE PullFails(t) \/ PullFailsRaises(t)
    BY <1>6, PoolOutcome DEF PullFails, PullFailsRaises, GivesUp
  <1>7. CASE LoopExits(t)
    BY <1>7, PoolLoopExits
  <1>8. CASE TaskCancelled(t)
    BY <1>8, PoolTaskCancelled
  <1>9. CASE ThreadEnds(t)
    <2>1. UNCHANGED <<phase, loop, attempt, queue, free, inFlight>>
      BY <1>9 DEF ThreadEnds, processVars, poolVars, runtimeVars
    <2> QED
      BY <2>1, PoolUnchanged DEF PoolInv, PoolTypes, TasksExistWhileServing
  <1> QED
    BY <1>1, <1>2, <1>3, <1>4, <1>5, <1>6, <1>7, <1>8, <1>9 DEF TableStep

LEMMA PoolStep == PoolInv /\ [Next]_vars => PoolInv'
  <1> SUFFICES ASSUME PoolInv, [Next]_vars PROVE PoolInv'
    OBVIOUS
  <1>1. CASE \E t \in Tables : TableStep(t)
    BY <1>1, PoolTableStep
  <1>2. CASE Connect \/ ConnectFailsTransient
    <2>1. phase = "connecting" /\ UNCHANGED <<attempt, queue, free, inFlight>>
      BY <1>2 DEF Connect, ConnectFailsTransient, poolVars, runtimeVars
    <2>2. CASE CreateTasks
      BY <2>1, <2>2, PoolCreateTasks
    <2>3. CASE ~CreateTasks
      <3>1. phase' = "backoff" /\ loop' = loop
        BY <1>2, <2>3 DEF Connect, ConnectFailsTransient
      <3> QED
        BY <2>1, <3>1, PoolUnchanged DEF PoolInv, TasksExistWhileServing, Phases
    <2> QED
      BY <2>2, <2>3
  <1>3. CASE ConnectFailsPermanent
    BY <1>3, PoolProcessEnds DEF ConnectFailsPermanent, Phases
  <1>4. CASE Crash
    BY <1>4, PoolProcessEnds DEF Crash, Phases
  <1>5. CASE BackoffExpires \/ RequestShutdown \/ CancelTasks \/ GatherReturns
             \/ CloseDriver \/ OnceReturns \/ Restart \/ UNCHANGED vars
    <2>1. UNCHANGED <<loop, attempt, queue, free, inFlight>>
      BY <1>5 DEF BackoffExpires, RequestShutdown, CancelTasks, GatherReturns, CloseDriver,
         OnceReturns, Restart, vars, taskVars, runtimeVars
    <2>2. phase' \in Phases
      BY <1>5 DEF BackoffExpires, RequestShutdown, CancelTasks, GatherReturns, CloseDriver,
         OnceReturns, Restart, vars, processVars, Phases, PoolInv, PoolTypes
    <2>3. phase' \in {"connecting", "backoff", "failed", "crashed"} =>
            phase \in {"connecting", "backoff", "failed", "crashed"}
      BY <1>5 DEF BackoffExpires, RequestShutdown, CancelTasks, GatherReturns, CloseDriver,
         OnceReturns, Restart, vars, processVars
    <2> QED
      BY <2>1, <2>2, <2>3, PoolUnchanged DEF PoolInv, TasksExistWhileServing
  <1> QED
    BY <1>1, <1>2, <1>3, <1>4, <1>5 DEF Next

\* The pool invariant holds of the daemon.
THEOREM PoolIsSound == Spec => []PoolInv
  BY PoolInit, PoolStep, PTL DEF Spec

\* No way out of a pull loses a slot of the worker pool or frees one twice.
THEOREM SlotsAreAccountedFor == Spec => []SlotAccounting
  <1>1. PoolInv => SlotAccounting
    BY DEF PoolInv
  <1> QED
    BY <1>1, PoolIsSound, PTL

\* The semaphore's queue is the tasks that wait for it, each once.
THEOREM QueueIsTheWaiting == Spec => []QueueHoldsTheWaiting
  <1>1. PoolInv => QueueHoldsTheWaiting
    BY DEF PoolInv
  <1> QED
    BY <1>1, PoolIsSound, PTL

\* in_flight says whether the table's task is inside _pull_once, so that the
\* skipped_overlap branch is never taken.
THEOREM InFlightFlagsAreExact == Spec => []InFlightIsExact
  <1>1. PoolInv => InFlightIsExact
    BY DEF PoolInv
  <1> QED
    BY <1>1, PoolIsSound, PTL

-----------------------------------------------------------------------------
(* Types of the variables that PoolTypes does not cover. *)

StoreTypes ==
    /\ baseline \in [Tables -> BOOLEAN]
    /\ lag \in [Tables -> Lags]
    /\ marked \in [Tables -> BOOLEAN]
    /\ unmerged \subseteq Tables

RecordTypes ==
    /\ status \in [Tables -> {"pending", "ok", "degraded", "error"}]
    /\ failures \in [Tables -> Nat]
    /\ drift \in [Tables -> BOOLEAN]
    /\ hist \in [Tables -> Seq(RowStatus)]
    /\ StoreTypes

ProcessTypes ==
    /\ once \in BOOLEAN
    /\ shutdown \in BOOLEAN
    /\ connected \in BOOLEAN
    /\ driver \in {"none", "open", "closed"}
    /\ threads \subseteq Tables
    /\ faults \in 0..MaxFaults
    /\ crashes \in 0..MaxCrashes

\* A process starts with every table pending, and connecting changes nothing.
PendingBeforeServing ==
    phase \in {"connecting", "backoff"} => \A t \in Tables : status[t] = "pending"

\* A table that is replaced at every pull has no watermark to disagree with.
OthersNeverLag == \A t \in Tables \ Incremental : lag[t] = "none"

\* The stores of the other tables stand as they stood.
OtherStoresKept(t) ==
    \A u \in Tables : u # t => /\ lag'[u] = lag[u]
                             /\ (u \in unmerged') = (u \in unmerged)

\* While the table tasks can run, a status is explained by the history, and ok
\* by a file and a watermark that agree, or by a merge once given up.  Without
\* OnlyLostMergesLoseRows the last part would not be inductive: a pull repairs a
\* file that is ahead only.
OutcomeInv ==
    /\ RecordTypes
    /\ PendingBeforeServing
    /\ StatusMatchesHistory
    /\ OthersNeverLag
    /\ OnlyLostMergesLoseRows
    /\ OkMeansCommitted

-----------------------------------------------------------------------------
(* The ways a pull ends. *)

\* What the three steps of _handle_success do to file and watermark of a table
\* whose lag tells whether its merge was ever given up: the file falls behind by a
\* merge given up alone, and when all steps are passed it is ahead no more.
LEMMA LagKeepsOrder ==
  ASSUME NEW stage \in Stages \union {"end"}, NEW l \in Lags, NEW how \in Publishes
  PROVE  /\ LagBefore(stage, l, how) \in Lags
         /\ LagBefore(stage, l, how) = "behind" <=>
              l = "behind" \/ (how = "alone" /\ stage # "write")
         /\ stage = "end" => LagBefore(stage, l, how) # "ahead" \/ how = "nothing"
  BY DEF LagBefore, AfterWrite, AfterWatermark, Stages, Lags, Publishes

\* Whatever step of _handle_success is reached, the file is at least as new as
\* the watermark unless a merge was given up, and when all are passed the two
\* agree or the file is behind for that reason.
LEMMA DurableKeepsOrder ==
  ASSUME RecordTypes, OnlyLostMergesLoseRows, OthersNeverLag, NEW t \in Tables,
         NEW stage \in Stages \union {"end"}, Durable(t, stage)
  PROVE  /\ StoreTypes'
         /\ OnlyLostMergesLoseRows' /\ OthersNeverLag'
         /\ OtherStoresKept(t)
         /\ stage = "end" => lag'[t] # "ahead"
  <1>1. baseline' \in [Tables -> BOOLEAN]
    <2>1. baseline' = [baseline EXCEPT ![t] = baseline[t] \/ stage \in {"record", "end"}]
      BY DEF Durable
    <2> QED
      BY <2>1 DEF RecordTypes, StoreTypes
  <1>2. CASE t \notin Incremental
    <2>1. UNCHANGED <<lag, marked, unmerged>>
      BY <1>2 DEF Durable
    <2>2. lag[t] = "none"
      BY <1>2 DEF OthersNeverLag
    <2> QED
      BY <1>1, <2>1, <2>2 DEF RecordTypes, StoreTypes, OnlyLostMergesLoseRows,
         OthersNeverLag, OtherStoresKept
  <1>3. CASE t \in Incremental
    <2>1. PICK how \in Publishable(t) : Stored(t, stage, how)
      BY <1>3 DEF Durable
    <2> DEFINE l == LagBefore(stage, lag[t], how)
               past == how # "nothing" /\ stage \notin {"write", "watermark"}
    <2>2. how \in Publishes /\ (how = "nothing" => lag[t] = "none")
      BY DEF Publishable
    <2>3. lag[t] \in Lags
      BY DEF RecordTypes, StoreTypes
    <2>4. /\ l \in Lags
          /\ l = "behind" <=> lag[t] = "behind" \/ (how = "alone" /\ stage # "write")
          /\ stage = "end" => l # "ahead" \/ how = "nothing"
      BY <2>2, <2>3, LagKeepsOrder
    <2>5. how = "nothing" => l = "none"
      BY <2>2 DEF LagBefore
    <2>6. /\ lag' = [lag EXCEPT ![t] = l]
          /\ marked' = [marked EXCEPT ![t] = marked[t] \/ past]
          /\ unmerged' = IF how = "alone" /\ stage # "write"
                         THEN unmerged \union {t} ELSE unmerged
      BY <2>1 DEF Stored
    <2> HIDE DEF l, past
    <2>7. /\ lag' \in [Tables -> Lags] /\ lag'[t] = l
          /\ \A u \in Tables : u # t => lag'[u] = lag[u]
      BY <2>4, <2>6 DEF RecordTypes, StoreTypes
    <2>8. marked' \in [Tables -> BOOLEAN]
      <3>1. (marked[t] \/ past) \in BOOLEAN
        OBVIOUS
      <3> QED
        BY <2>6, <3>1 DEF RecordTypes, StoreTypes
    <2>9. /\ unmerged' \subseteq Tables
          /\ \A u \in Tables : u # t => (u \in unmerged' <=> u \in unmerged)
          /\ t \in unmerged' <=> t \in unmerged \/ (how = "alone" /\ stage # "write")
      BY <2>6 DEF RecordTypes, StoreTypes
    <2>10. OnlyLostMergesLoseRows'
      BY <2>4, <2>7, <2>9 DEF OnlyLostMergesLoseRows
    <2>11. OthersNeverLag'
      BY <1>3, <2>7 DEF OthersNeverLag
    <2>12. OtherStoresKept(t)
      BY <2>7, <2>9 DEF OtherStoresKept
    <2>13. StoreTypes'
      BY <1>1, <2>7, <2>8, <2>9 DEF StoreTypes
    <2> QED
      BY <2>4, <2>5, <2>7, <2>10, <2>11, <2>12, <2>13
  <1> QED
    BY <1>2, <1>3

LEMMA SchemaTyped ==
  ASSUME RecordTypes, NEW t \in Tables, NEW stage, ObserveSchema(t, stage)
  PROVE  drift' \in [Tables -> BOOLEAN]
  BY DEF ObserveSchema, RecordTypes

\* _handle_failure leaves degraded or error, and the count the history has.
LEMMA FailureOutcome ==
  ASSUME RecordTypes, NEW t \in Tables, NEW permanent \in BOOLEAN,
         RecordFailure(t, permanent)
  PROVE  /\ hist' \in [Tables -> Seq(RowStatus)]
         /\ failures' \in [Tables -> Nat]
         /\ status' \in [Tables -> {"pending", "ok", "degraded", "error"}]
         /\ \A u \in Tables : u # t => /\ hist'[u] = hist[u]
                                      /\ failures'[u] = failures[u]
                                      /\ status'[u] = status[u]
         /\ failures'[t] = ConsecutiveFailures(hist'[t])
         /\ status'[t] \in {"degraded", "error"}
         /\ status'[t] = "degraded" => failures'[t] \in 1..(FailureThreshold - 1)
  <1> DEFINE rows == Record(hist[t], "error")
             n    == ConsecutiveFailures(rows)
             s    == IF n >= FailureThreshold \/ permanent THEN "error" ELSE "degraded"
  <1>1. rows \in Seq(RowStatus) /\ n \in Nat \ {0}
    BY RecordProperties, ErrorIsCounted DEF RecordTypes, RowStatus
  <1>2. /\ hist' = [hist EXCEPT ![t] = rows]
        /\ failures' = [failures EXCEPT ![t] = n]
        /\ status' = [status EXCEPT ![t] = s]
    BY DEF RecordFailure
  <1>3. n = ConsecutiveFailures(rows)
    OBVIOUS
  <1>4. s \in {"degraded", "error"} /\ (s = "degraded" => n \in 1..(FailureThreshold - 1))
    BY <1>1, DaemonAssumption
  <1> HIDE DEF rows, n, s
  <1> QED
    BY <1>1, <1>2, <1>3, <1>4 DEF RecordTypes

LEMMA SuccessOutcome ==
  ASSUME RecordTypes, NEW t \in Tables,
         hist' = [hist EXCEPT ![t] = Record(hist[t], "success")],
         status' = [status EXCEPT ![t] = "ok"],
         failures' = [failures EXCEPT ![t] = 0]
  PROVE  /\ hist' \in [Tables -> Seq(RowStatus)]
         /\ failures' \in [Tables -> Nat]
         /\ status' \in [Tables -> {"pending", "ok", "degraded", "error"}]
         /\ \A u \in Tables : u # t => /\ hist'[u] = hist[u]
                                      /\ failures'[u] = failures[u]
                                      /\ status'[u] = status[u]
         /\ failures'[t] = 0 /\ ConsecutiveFailures(hist'[t]) = 0
         /\ status'[t] = "ok"
         /\ hist'[t] # <<>> /\ Head(hist'[t]) = "success"
  <1> DEFINE rows == Record(hist[t], "success")
  <1>1. /\ rows \in Seq(RowStatus) /\ Len(rows) >= 1 /\ rows[1] = "success"
        /\ ConsecutiveFailures(rows) = 0
    <2>1. hist[t] \in Seq(RowStatus) /\ "success" \in RowStatus
      BY DEF RecordTypes, RowStatus
    <2>2. ConsecutiveFailures(rows) = 0
      BY <2>1, SuccessEndsTheRun
    <2>3. rows \in Seq(RowStatus) /\ Len(rows) \in 1..Retention /\ rows[1] = "success"
      BY <2>1, RecordProperties
    <2> HIDE DEF rows
    <2> QED
      BY <2>2, <2>3, HistoryAssumption
  <1>2. hist' = [hist EXCEPT ![t] = rows]
    OBVIOUS
  <1> HIDE DEF rows
  <1>3. rows # <<>> /\ Head(rows) = "success"
    BY <1>1
  <1> QED
    BY <1>1, <1>2, <1>3 DEF RecordTypes

-----------------------------------------------------------------------------
(* The steps. *)

\* Steps that leave the outcomes alone: a task that is dead stays so, and
\* serving is entered from connecting only.
LEMMA OutcomeUnchanged ==
  ASSUME OutcomeInv,
         UNCHANGED <<status, failures, drift, durableVars>>,
         phase' \in {"connecting", "backoff"} => phase \in {"connecting", "backoff"},
         phase' = "serving" =>
           \/ phase = "connecting"
           \/ phase = "serving" /\ \A u \in Tables : loop[u] = "dead" => loop'[u] = "dead"
  PROVE  OutcomeInv'
  BY DEF OutcomeInv, RecordTypes, StoreTypes, durableVars, PendingBeforeServing,
     StatusMatchesHistory, OthersNeverLag, OnlyLostMergesLoseRows, OkMeansCommitted

\* A step of one table's task leaves what is said of ok to that table.
LEMMA OkOfOthers ==
  ASSUME OkMeansCommitted, phase = "serving", NEW t \in Tables, OtherStoresKept(t),
         \A u \in Tables : u # t => status'[u] = status[u] /\ loop'[u] = loop[u],
         status'[t] = "ok" /\ loop'[t] # "dead" =>
           lag'[t] = IF t \in unmerged' THEN "behind" ELSE "none"
  PROVE  OkMeansCommitted'
  <1> SUFFICES ASSUME NEW u \in Tables, u # t, status'[u] = "ok", loop'[u] # "dead"
               PROVE  lag'[u] = IF u \in unmerged' THEN "behind" ELSE "none"
    BY DEF OkMeansCommitted
  <1>1. lag[u] = IF u \in unmerged THEN "behind" ELSE "none"
    BY DEF OkMeansCommitted
  <1>2. lag'[u] = lag[u] /\ (u \in unmerged') = (u \in unmerged)
    BY Zenon DEF OtherStoresKept
  <1>3. CASE u \in unmerged
    BY <1>1, <1>2, <1>3
  <1>4. CASE u \notin unmerged
    BY <1>1, <1>2, <1>4
  <1> QED
    BY <1>3, <1>4

LEMMA OutcomePullSucceeds ==
  ASSUME PoolInv, OutcomeInv, NEW t \in Tables, PullSucceeds(t)
  PROVE  OutcomeInv'
  <1>1. /\ phase = "serving" /\ phase' = "serving"
        /\ loop' = [loop EXCEPT ![t] = IF once THEN "done" ELSE "idle"]
    BY DEF PullSucceeds, Settle, LeavePull
  <1>2. /\ \A u \in Tables : u # t => loop'[u] = loop[u]
        /\ loop'[t] # "dead"
    BY <1>1 DEF PoolInv, PoolTypes
  <1>3. RecordTypes /\ OnlyLostMergesLoseRows /\ OthersNeverLag
    BY DEF OutcomeInv
  <1>4. /\ StoreTypes'
        /\ OnlyLostMergesLoseRows' /\ OthersNeverLag'
        /\ OtherStoresKept(t)
        /\ lag'[t] # "ahead"
    BY <1>3, DurableKeepsOrder DEF PullSucceeds
  <1>5. drift' \in [Tables -> BOOLEAN]
    BY <1>3, SchemaTyped DEF PullSucceeds
  <1>6. /\ hist' \in [Tables -> Seq(RowStatus)]
        /\ failures' \in [Tables -> Nat]
        /\ status' \in [Tables -> {"pending", "ok", "degraded", "error"}]
        /\ \A u \in Tables : u # t => /\ hist'[u] = hist[u]
                                     /\ failures'[u] = failures[u]
                                     /\ status'[u] = status[u]
        /\ failures'[t] = 0 /\ ConsecutiveFailures(hist'[t]) = 0
        /\ status'[t] = "ok"
        /\ hist'[t] # <<>> /\ Head(hist'[t]) = "success"
    BY <1>3, SuccessOutcome DEF PullSucceeds
  <1>7. StatusMatchesHistory'
    BY <1>1, <1>2, <1>6 DEF OutcomeInv, StatusMatchesHistory
  <1>8. OkMeansCommitted'
    <2>1. lag'[t] = IF t \in unmerged' THEN "behind" ELSE "none"
      BY <1>4 DEF StoreTypes, Lags, OnlyLostMergesLoseRows
    <2> QED
      BY <1>1, <1>2, <1>4, <1>6, <2>1, OkOfOthers DEF OutcomeInv
  <1> QED
    BY <1>1, <1>4, <1>5, <1>6, <1>7, <1>8 DEF OutcomeInv, RecordTypes, PendingBeforeServing

\* A failure that the handler records, after a driver error or its own.
LEMMA OutcomeFailureRecorded ==
  ASSUME PoolInv, OutcomeInv, NEW t \in Tables, phase = "serving",
         NEW permanent \in BOOLEAN, RecordFailure(t, permanent), Settle(t),
         drift' \in [Tables -> BOOLEAN], StoreTypes',
         OnlyLostMergesLoseRows', OthersNeverLag', OtherStoresKept(t)
  PROVE  OutcomeInv'
  <1>1. /\ phase' = "serving"
        /\ loop' = [loop EXCEPT ![t] = IF once THEN "done" ELSE "idle"]
    BY DEF Settle, LeavePull
  <1>2. \A u \in Tables : u # t => loop'[u] = loop[u]
    BY <1>1 DEF PoolInv, PoolTypes
  <1>3. /\ hist' \in [Tables -> Seq(RowStatus)]
        /\ failures' \in [Tables -> Nat]
        /\ status' \in [Tables -> {"pending", "ok", "degraded", "error"}]
        /\ \A u \in Tables : u # t => /\ hist'[u] = hist[u]
                                     /\ failures'[u] = failures[u]
                                     /\ status'[u] = status[u]
        /\ failures'[t] = ConsecutiveFailures(hist'[t])
        /\ status'[t] \in {"degraded", "error"}
        /\ status'[t] = "degraded" => failures'[t] \in 1..(FailureThreshold - 1)
    BY FailureOutcome DEF OutcomeInv
  <1>4. StatusMatchesHistory'
    BY <1>1, <1>2, <1>3 DEF OutcomeInv, StatusMatchesHistory
  <1>5. OkMeansCommitted'
    BY <1>2, <1>3, OkOfOthers DEF OutcomeInv
  <1> QED
    BY <1>1, <1>3, <1>4, <1>5 DEF OutcomeInv, RecordTypes, PendingBeforeServing

\* A failure handler that raises itself: the task or the process ends.
LEMMA OutcomeFailureRaises ==
  ASSUME PoolInv, OutcomeInv, NEW t \in Tables, phase = "serving",
         RecordFailureRaises(t), Escape(t),
         drift' \in [Tables -> BOOLEAN], StoreTypes',
         OnlyLostMergesLoseRows', OthersNeverLag', OtherStoresKept(t)
  PROVE  OutcomeInv'
  <1>1. /\ hist' \in [Tables -> Seq(RowStatus)]
        /\ \A u \in Tables : u # t => hist'[u] = hist[u]
    <2>1. Record(hist[t], "error") \in Seq(RowStatus)
      BY RecordProperties DEF OutcomeInv, RecordTypes, RowStatus
    <2> QED
      BY <2>1 DEF RecordFailureRaises, OutcomeInv, RecordTypes
  <1>2. UNCHANGED <<status, failures>>
    BY DEF RecordFailureRaises
  <1>3. CASE phase' = "failed"
    BY <1>1, <1>2, <1>3 DEF OutcomeInv, RecordTypes, PendingBeforeServing,
       StatusMatchesHistory, OkMeansCommitted
  <1>4. CASE phase' # "failed"
    <2>1. /\ phase' = "serving"
          /\ loop' = [loop EXCEPT ![t] = "dead"]
      BY <1>4 DEF Escape, ProcessEnds, LeavePull
    <2>2. /\ \A u \in Tables : u # t => loop'[u] = loop[u]
          /\ loop'[t] = "dead"
      BY <2>1 DEF PoolInv, PoolTypes
    <2>3. StatusMatchesHistory'
      BY <1>1, <1>2, <2>1, <2>2 DEF OutcomeInv, StatusMatchesHistory
    <2>4. OkMeansCommitted'
      BY <1>2, <2>2, OkOfOthers DEF OutcomeInv
    <2> QED
      BY <1>1, <1>2, <2>1, <2>3, <2>4 DEF OutcomeInv, RecordTypes, PendingBeforeServing
  <1> QED
    BY <1>3, <1>4

\* A kill may fall between two steps of _handle_success.
LEMMA OutcomeCrash ==
  ASSUME OutcomeInv, Crash
  PROVE  OutcomeInv'
  <1>1. phase' = "crashed" /\ UNCHANGED <<status, failures, drift, hist>>
    BY DEF Crash, ProcessEnds, durableVars
  <1>2. /\ StoreTypes'
        /\ OnlyLostMergesLoseRows' /\ OthersNeverLag'
    <2>1. CASE UNCHANGED durableVars
      BY <2>1 DEF durableVars, OutcomeInv, RecordTypes, StoreTypes, OnlyLostMergesLoseRows, OthersNeverLag
    <2>2. CASE \E t \in Tables, stage \in Stages : Durable(t, stage)
      BY <2>2, DurableKeepsOrder DEF OutcomeInv
    <2> QED
      BY <2>1, <2>2 DEF Crash
  <1> QED
    BY <1>1, <1>2 DEF OutcomeInv, RecordTypes, PendingBeforeServing,
       StatusMatchesHistory, OkMeansCommitted

LEMMA OutcomeTableStep ==
  ASSUME PoolInv, OutcomeInv, NEW t \in Tables, TableStep(t)
  PROVE  OutcomeInv'
  <1>1. CASE StartPull(t) \/ Grant(t) \/ PullRetries(t) \/ RetryDelayExpires(t)
             \/ LoopExits(t) \/ TaskCancelled(t) \/ ThreadEnds(t) \/ StartPullRaises(t)
    <2>1. UNCHANGED <<status, failures, drift, durableVars>>
      BY <1>1 DEF StartPull, Grant, PullRetries, RetryDelayExpires, LoopExits, TaskCancelled,
         ThreadEnds, StartPullRaises, runtimeVars, durableVars
    <2>2. phase' = phase \/ phase' = "failed"
      BY <1>1 DEF StartPull, Grant, PullRetries, RetryDelayExpires, LoopExits, TaskCancelled,
         ThreadEnds, StartPullRaises, processVars, ProcessEnds
    <2>3. ASSUME phase = "serving", phase' = "serving", NEW u \in Tables, loop[u] = "dead"
          PROVE  loop'[u] = "dead"
      <3>1. CASE Grant(t)
        <4>1. loop[t] = "waiting"
          BY <3>1, HeadTailProperties, LenProperties
             DEF Grant, PoolInv, PoolTypes, QueueHoldsTheWaiting
        <4> QED
          BY <2>3, <3>1, <4>1 DEF Grant, PoolInv, PoolTypes
      <3>2. CASE ~Grant(t)
        BY <1>1, <2>3, <3>2 DEF StartPull, PullRetries, RetryDelayExpires, LoopExits,
           TaskCancelled, ThreadEnds, StartPullRaises, MayPull, processVars, ProcessEnds,
           PoolInv, PoolTypes
      <3> QED
        BY <3>1, <3>2
    <2> QED
      BY <2>1, <2>2, <2>3, OutcomeUnchanged
  <1>2. CASE PullSucceeds(t)
    BY <1>2, OutcomePullSucceeds
  <1>3. CASE HandlerRaises(t)
    <2>1. PICK stage \in Stages : Durable(t, stage) /\ ObserveSchema(t, stage)
      BY <1>3 DEF HandlerRaises
    <2>2. /\ StoreTypes'
          /\ OnlyLostMergesLoseRows' /\ OthersNeverLag'
          /\ OtherStoresKept(t)
      BY <2>1, DurableKeepsOrder DEF OutcomeInv
    <2>3. drift' \in [Tables -> BOOLEAN]
      BY <2>1, SchemaTyped DEF OutcomeInv
    <2>4. phase = "serving"
      BY <1>3 DEF HandlerRaises
    <2>5. CASE RecordFailure(t, FALSE) /\ Settle(t)
      BY <2>2, <2>3, <2>4, <2>5, OutcomeFailureRecorded
    <2>6. CASE RecordFailureRaises(t) /\ Escape(t)
      BY <2>2, <2>3, <2>4, <2>6, OutcomeFailureRaises
    <2> QED
      BY <1>3, <2>5, <2>6 DEF HandlerRaises
  <1>4. CASE PullFails(t) \/ PullFailsRaises(t)
    <2>1. phase = "serving" /\ UNCHANGED <<drift, baseline, lag, marked, unmerged>>
      BY <1>4 DEF PullFails, PullFailsRaises, GivesUp
    <2>2. /\ drift' \in [Tables -> BOOLEAN]
          /\ StoreTypes'
          /\ OnlyLostMergesLoseRows' /\ OthersNeverLag'
          /\ OtherStoresKept(t)
      BY <2>1 DEF OutcomeInv, RecordTypes, StoreTypes, OnlyLostMergesLoseRows,
         OthersNeverLag, OtherStoresKept
    <2>3. CASE PullFails(t)
      <3>1. PICK permanent \in BOOLEAN : RecordFailure(t, permanent)
        BY <2>3 DEF PullFails
      <3>2. Settle(t)
        BY <2>3 DEF PullFails
      <3> QED
        BY <2>1, <2>2, <3>1, <3>2, OutcomeFailureRecorded
    <2>4. CASE PullFailsRaises(t)
      BY <2>1, <2>2, <2>4, OutcomeFailureRaises DEF PullFailsRaises
    <2> QED
      BY <1>4, <2>3, <2>4
  <1> QED
    BY <1>1, <1>2, <1>3, <1>4 DEF TableStep

LEMMA OutcomeInit == Init => OutcomeInv
  <1> SUFFICES ASSUME Init PROVE OutcomeInv
    OBVIOUS
  <1>1. RecordTypes
    BY EmptySeq DEF Init, RecordTypes, StoreTypes, Lags
  <1> QED
    BY <1>1 DEF Init, OutcomeInv, PendingBeforeServing, StatusMatchesHistory,
       OthersNeverLag, OnlyLostMergesLoseRows, OkMeansCommitted

LEMMA OutcomeStep == PoolInv /\ OutcomeInv /\ [Next]_vars => OutcomeInv'
  <1> SUFFICES ASSUME PoolInv, OutcomeInv, [Next]_vars PROVE OutcomeInv'
    OBVIOUS
  <1>1. CASE \E t \in Tables : TableStep(t)
    BY <1>1, OutcomeTableStep
  <1>2. CASE Crash
    BY <1>2, OutcomeCrash
  <1>3. CASE Restart
    <2>1. /\ phase' = "connecting"
          /\ status' = [t \in Tables |-> "pending"]
          /\ failures' = [t \in Tables |-> 0]
          /\ drift' = [t \in Tables |-> FALSE]
          /\ UNCHANGED durableVars
      BY <1>3 DEF Restart, durableVars
    <2> QED
      BY <2>1 DEF OutcomeInv, RecordTypes, StoreTypes, durableVars, PendingBeforeServing,
         StatusMatchesHistory, OthersNeverLag, OnlyLostMergesLoseRows, OkMeansCommitted
  <1>4. CASE Connect \/ ConnectFailsTransient \/ ConnectFailsPermanent \/ BackoffExpires
             \/ RequestShutdown \/ CancelTasks \/ GatherReturns \/ CloseDriver
             \/ OnceReturns \/ UNCHANGED vars
    <2>1. UNCHANGED <<status, failures, drift, durableVars>>
      BY <1>4 DEF Connect, ConnectFailsTransient, ConnectFailsPermanent, BackoffExpires,
         RequestShutdown, CancelTasks, GatherReturns, CloseDriver, OnceReturns, vars,
         runtimeVars, durableVars
    <2>2. phase' \in {"connecting", "backoff"} => phase \in {"connecting", "backoff"}
      BY <1>4 DEF Connect, ConnectFailsTransient, ConnectFailsPermanent, BackoffExpires,
         RequestShutdown, CancelTasks, GatherReturns, CloseDriver, OnceReturns, vars,
         processVars, ProcessEnds, CreateTasks
    <2>3. phase' = "serving" =>
            \/ phase = "connecting"
            \/ phase = "serving" /\ \A u \in Tables : loop[u] = "dead" => loop'[u] = "dead"
      BY <1>4 DEF Connect, ConnectFailsTransient, ConnectFailsPermanent, BackoffExpires,
         RequestShutdown, CancelTasks, GatherReturns, CloseDriver, OnceReturns, vars,
         processVars, taskVars, ProcessEnds
    <2> QED
      BY <2>1, <2>2, <2>3, OutcomeUnchanged
  <1> QED
    BY <1>1, <1>2, <1>3, <1>4 DEF Next

\* The outcome invariant holds of the daemon.
THEOREM OutcomesAreSound == Spec => []OutcomeInv
  <1>1. Init => PoolInv /\ OutcomeInv
    BY PoolInit, OutcomeInit
  <1>2. PoolInv /\ OutcomeInv /\ [Next]_vars => (PoolInv /\ OutcomeInv)'
    BY PoolStep, OutcomeStep
  <1> QED
    BY <1>1, <1>2, PTL DEF Spec

\* Health's status of a table is the one its persisted history explains.
THEOREM StatusIsExplained == Spec => []StatusMatchesHistory
  <1>1. OutcomeInv => StatusMatchesHistory
    BY DEF OutcomeInv
  <1> QED
    BY <1>1, OutcomesAreSound, PTL

\* No fault or kill lets the stored watermark pass the published file: that takes a
\* merge given up for the new rows alone, and then it stays so.
THEOREM WatermarkFollowsTheFile == Spec => []OnlyLostMergesLoseRows
  <1>1. OutcomeInv => OnlyLostMergesLoseRows
    BY DEF OutcomeInv
  <1> QED
    BY <1>1, OutcomesAreSound, PTL

\* A table reported ok has file and watermark of its last pull committed, and they
\* agree unless a merge of that table was given up.
THEOREM OkIsCommitted == Spec => []OkMeansCommitted
  <1>1. OutcomeInv => OkMeansCommitted
    BY DEF OutcomeInv
  <1> QED
    BY <1>1, OutcomesAreSound, PTL

-----------------------------------------------------------------------------
(* The process and the driver. *)

LEMMA ProcessInit == Init => ProcessTypes
  <1> SUFFICES ASSUME Init PROVE ProcessTypes
    OBVIOUS
  <1>1. once \in BOOLEAN
    BY DaemonAssumption DEF Init
  <1>2. faults \in 0..MaxFaults /\ crashes \in 0..MaxCrashes
    BY DaemonAssumption DEF Init
  <1> QED
    BY <1>1, <1>2 DEF Init, ProcessTypes

LEMMA ProcessTableStep ==
  ASSUME ProcessTypes, NEW t \in Tables, TableStep(t)
  PROVE  ProcessTypes'
  <1>1. CASE StartPull(t) \/ Grant(t) \/ RetryDelayExpires(t) \/ LoopExits(t)
             \/ PullRetries(t) \/ TaskCancelled(t) \/ ThreadEnds(t)
    BY <1>1 DEF StartPull, Grant, RetryDelayExpires, LoopExits, PullRetries, NoteConnection,
       TaskCancelled, ThreadEnds, processVars, ProcessTypes
  <1>2. CASE StartPullRaises(t)
    BY <1>2, DaemonAssumption DEF StartPullRaises, ProcessEnds, ProcessTypes
  <1>3. CASE PullSucceeds(t) \/ HandlerRaises(t) \/ PullFails(t) \/ PullFailsRaises(t)
    <2>1. threads' = threads \/ threads' = {}
      BY <1>3 DEF PullSucceeds, HandlerRaises, PullFails, PullFailsRaises, Settle, Escape,
         LeavePull, ProcessEnds
    <2>2. faults' = faults \/ (faults' = faults + 1 /\ faults < MaxFaults)
      BY <1>3 DEF PullSucceeds, HandlerRaises, PullFails, PullFailsRaises
    <2>3. faults' \in 0..MaxFaults
      BY <2>2, DaemonAssumption DEF ProcessTypes
    <2>4. connected' \in BOOLEAN
      BY <1>3 DEF PullSucceeds, HandlerRaises, PullFails, PullFailsRaises, GivesUp,
         NoteConnection, ProcessTypes
    <2>5. UNCHANGED <<once, shutdown, driver, crashes>>
      BY <1>3 DEF PullSucceeds, HandlerRaises, PullFails, PullFailsRaises, GivesUp
    <2> QED
      BY <2>1, <2>3, <2>4, <2>5 DEF ProcessTypes
  <1> QED
    BY <1>1, <1>2, <1>3 DEF TableStep

LEMMA ProcessStep == ProcessTypes /\ [Next]_vars => ProcessTypes'
  <1> SUFFICES ASSUME ProcessTypes, [Next]_vars PROVE ProcessTypes'
    OBVIOUS
  <1>1. CASE \E t \in Tables : TableStep(t)
    BY <1>1, ProcessTableStep
  <1>2. CASE Connect \/ ConnectFailsTransient \/ ConnectFailsPermanent \/ BackoffExpires
             \/ Restart
    BY <1>2 DEF Connect, ConnectFailsTransient, ConnectFailsPermanent, BackoffExpires,
       Restart, taskVars, ProcessEnds, ProcessTypes
  <1>3. CASE RequestShutdown \/ CancelTasks \/ GatherReturns \/ CloseDriver \/ OnceReturns
             \/ UNCHANGED vars
    BY <1>3 DEF RequestShutdown, CancelTasks, GatherReturns, CloseDriver, OnceReturns, vars,
       processVars, taskVars, ProcessTypes
  <1>4. CASE Crash
    BY <1>4, DaemonAssumption DEF Crash, ProcessEnds, ProcessTypes
  <1> QED
    BY <1>1, <1>2, <1>3, <1>4 DEF Next

\* Every variable keeps its type.
THEOREM TypeCorrect == Spec => []TypeOK
  <1>1. Init => PoolInv /\ OutcomeInv /\ ProcessTypes
    BY PoolInit, OutcomeInit, ProcessInit
  <1>2. PoolInv /\ OutcomeInv /\ ProcessTypes /\ [Next]_vars
          => (PoolInv /\ OutcomeInv /\ ProcessTypes)'
    BY PoolStep, OutcomeStep, ProcessStep
  <1>3. PoolInv /\ OutcomeInv /\ ProcessTypes => TypeOK
    BY DEF PoolInv, PoolTypes, OutcomeInv, RecordTypes, StoreTypes, ProcessTypes, TypeOK
  <1> QED
    BY <1>1, <1>2, <1>3, PTL DEF Spec

\* A daemon that serves and is not to stop has connected; one that has begun to
\* close the driver has no task left.
DriverInv ==
    /\ ~once /\ phase = "serving" /\ ~shutdown => driver = "open"
    /\ ~once => \A t \in Tables : loop[t] \in Active => driver = "open"
    /\ phase \in {"draining", "exited"} => \A t \in Tables : loop[t] \in Finished
    /\ driver = "closed" => phase = "exited"
    /\ ~ThreadOffload => threads = {}

LEMMA DriverInit == Init => DriverInv
  BY DEF Init, DriverInv, Active

LEMMA DriverTableStep ==
  ASSUME PoolInv, ProcessTypes, DriverInv, NEW t \in Tables, TableStep(t)
  PROVE  DriverInv'
  <1> USE DEF PoolInv, PoolTypes, ProcessTypes, DriverInv
  <1>1. CASE StartPull(t) \/ StartPullRaises(t) \/ LoopExits(t)
    BY <1>1 DEF StartPull, StartPullRaises, LoopExits, MayPull, ProcessEnds, processVars,
       Active, Finished
  <1>2. CASE Grant(t)
    <2>1. loop[t] = "waiting"
      BY <1>2, HeadTailProperties, LenProperties DEF Grant, QueueHoldsTheWaiting
    <2> QED
      BY <1>2, <2>1 DEF Grant, processVars, Active, Finished
  <1>3. CASE PullSucceeds(t) \/ HandlerRaises(t) \/ PullFails(t) \/ PullFailsRaises(t)
    <2>1. /\ phase = "serving" /\ loop[t] = "pulling"
          /\ UNCHANGED <<once, shutdown, driver>>
      BY <1>3 DEF PullSucceeds, HandlerRaises, PullFails, PullFailsRaises, GivesUp
    <2>2. CASE ProcessEnds("failed")
      BY <2>1, <2>2 DEF ProcessEnds, Active
    <2>3. CASE ~ProcessEnds("failed")
      <3>1. PICK s \in {"idle", "done", "dead"} : LeavePull(t, s) /\ UNCHANGED phase
        BY <1>3, <2>3 DEF PullSucceeds, HandlerRaises, PullFails, PullFailsRaises,
           Settle, Escape
      <3> QED
        BY <2>1, <3>1 DEF LeavePull, Active, Finished
    <2> QED
      BY <2>2, <2>3
  <1>4. CASE PullRetries(t) \/ RetryDelayExpires(t)
    BY <1>4 DEF PullRetries, RetryDelayExpires, processVars, Active, Finished
  <1>5. CASE TaskCancelled(t)
    BY <1>5 DEF TaskCancelled, processVars, Active, Finished
  <1>6. CASE ThreadEnds(t)
    BY <1>6 DEF ThreadEnds, processVars
  <1> QED
    BY <1>1, <1>2, <1>3, <1>4, <1>5, <1>6 DEF TableStep

LEMMA DriverStep == PoolInv /\ ProcessTypes /\ DriverInv /\ [Next]_vars => DriverInv'
  <1> SUFFICES ASSUME PoolInv, ProcessTypes, DriverInv, [Next]_vars PROVE DriverInv'
    OBVIOUS
  <1> USE DEF PoolInv, PoolTypes, ProcessTypes, DriverInv
  <1>1. CASE \E t \in Tables : TableStep(t)
    BY <1>1, DriverTableStep
  <1>2. CASE Connect \/ ConnectFailsTransient \/ BackoffExpires
    BY <1>2 DEF Connect, ConnectFailsTransient, BackoffExpires, CreateTasks, taskVars, Active,
       TasksExistWhileServing
  <1>3. CASE ConnectFailsPermanent \/ Crash
    BY <1>3 DEF ConnectFailsPermanent, Crash, ProcessEnds, Active
  <1>4. CASE RequestShutdown \/ CancelTasks \/ UNCHANGED vars
    BY <1>4 DEF RequestShutdown, CancelTasks, vars, processVars, taskVars
  <1>5. CASE GatherReturns \/ CloseDriver \/ OnceReturns
    BY <1>5 DEF GatherReturns, CloseDriver, OnceReturns, taskVars, Active, Finished
  <1>6. CASE Restart
    BY <1>6 DEF Restart, taskVars, TasksExistWhileServing, Active
  <1> QED
    BY <1>1, <1>2, <1>3, <1>4, <1>5, <1>6 DEF Next

\* The driver invariant holds of the daemon.
THEOREM DriverIsSound == Spec => []DriverInv
  <1>1. Init => PoolInv /\ ProcessTypes /\ DriverInv
    BY PoolInit, ProcessInit, DriverInit
  <1>2. PoolInv /\ ProcessTypes /\ DriverInv /\ [Next]_vars
          => (PoolInv /\ ProcessTypes /\ DriverInv)'
    BY PoolStep, ProcessStep, DriverStep
  <1> QED
    BY <1>1, <1>2, PTL DEF Spec

\* The daemon loop pulls on a driver that has connected and is not closed.
THEOREM DaemonPullsConnected == Spec => []DaemonPullsOnOpenDriver
  <1>1. DriverInv => DaemonPullsOnOpenDriver
    BY DEF DriverInv, DaemonPullsOnOpenDriver, Active
  <1> QED
    BY <1>1, DriverIsSound, PTL

\* A driver whose pulls run on the event loop is closed when none is under way.
\* The assumption is needed: a worker thread outlives its cancelled task.
THEOREM CloseIsLast ==
  ASSUME ~ThreadOffload
  PROVE  Spec => []CloseFindsDriverIdle
  <1>1. DriverInv => CloseFindsDriverIdle
    BY DEF DriverInv, CloseFindsDriverIdle, Holders, Holding, Finished
  <1> QED
    BY <1>1, DriverIsSound, PTL

-----------------------------------------------------------------------------
(* What the liveness of waiting tasks rests on: the queue is served in its  *)
(* order, and a slot is held for so many calls of the driver.               *)

Ahead(t) ==
    {u \in Tables : \E i, j \in DOMAIN queue : i < j /\ queue[i] = u /\ queue[j] = t}

\* While t waits, nobody gets ahead of it, and a slot goes to one ahead of it only.
MovesUp(t) ==
    loop[t] = "waiting" /\ loop'[t] = "waiting" =>
        /\ Ahead(t)' \subseteq Ahead(t)
        /\ \A u \in Tables :
              loop[u] \notin Holding /\ loop'[u] \in Holding => u \in Ahead(t) \ Ahead(t)'

\* Whoever was before another in the queue after a cancellation was so before it.
LEMMA WithoutKeepsOrder ==
  ASSUME NEW S, NEW q \in Seq(S), NEW t \in S, \E i \in DOMAIN q : q[i] = t,
         NEW k \in DOMAIN Without(q, t), NEW l \in DOMAIN Without(q, t), k < l
  PROVE  \E i, j \in DOMAIN q : i < j /\ q[i] = Without(q, t)[k] /\ q[j] = Without(q, t)[l]
  <1> DEFINE c == CHOOSE j \in 1..Len(q) : q[j] = t
             w == Without(q, t)
             m == Len(q) - 1
             At(n) == IF n < c THEN n ELSE n + 1
  <1>1. Len(q) \in Nat /\ DOMAIN q = 1..Len(q)
    BY LenProperties
  <1>2. c \in 1..Len(q)
    BY <1>1
  <1>3. w = [n \in 1..m |-> IF n < c THEN q[n] ELSE q[n + 1]]
    BY DEF Without
  <1> HIDE DEF c, w
  <1>4. DOMAIN w = 1..m /\ \A n \in 1..m : w[n] = q[At(n)]
    BY <1>3
  <1>5. k \in 1..m /\ l \in 1..m
    BY <1>4 DEF w
  <1>6. At(k) \in 1..Len(q) /\ At(l) \in 1..Len(q) /\ At(k) < At(l)
    BY <1>1, <1>2, <1>5
  <1>7. q[At(k)] = w[k] /\ q[At(l)] = w[l]
    BY <1>4, <1>5
  <1> HIDE DEF At
  <1> QED
    BY <1>1, <1>6, <1>7 DEF w

LEMMA GrantMovesUp ==
  ASSUME PoolInv, NEW u \in Tables, Grant(u), NEW t \in Tables
  PROVE  MovesUp(t)
  <1> SUFFICES ASSUME loop[t] = "waiting", loop'[t] = "waiting"
               PROVE  /\ Ahead(t)' \subseteq Ahead(t)
                      /\ \A v \in Tables : loop[v] \notin Holding /\ loop'[v] \in Holding
                                             => v \in Ahead(t) \ Ahead(t)'
    BY DEF MovesUp
  <1>0. PoolTypes /\ QueueHoldsTheWaiting
    BY DEF PoolInv
  <1>1. /\ DOMAIN queue = 1..Len(queue) /\ DOMAIN queue' = 1..(Len(queue) - 1)
        /\ Len(queue) \in Nat
        /\ \A i \in 1..(Len(queue) - 1) : queue'[i] = queue[i + 1]
        /\ queue[1] = u
    BY <1>0, HeadTailProperties, LenProperties DEF PoolTypes, Grant
  <1>2. loop' = [loop EXCEPT ![u] = "pulling"]
    BY DEF Grant
  <1>3. t # u
    BY <1>0, <1>2 DEF PoolTypes
  <1>4. Ahead(t)' \subseteq Ahead(t)
    <2> SUFFICES ASSUME NEW v \in Tables, NEW i \in DOMAIN queue', NEW j \in DOMAIN queue',
                        i < j, queue'[i] = v, queue'[j] = t
                 PROVE  \E k, l \in DOMAIN queue : k < l /\ queue[k] = v /\ queue[l] = t
      BY DEF Ahead
    <2>1. i + 1 \in DOMAIN queue /\ j + 1 \in DOMAIN queue /\ i + 1 < j + 1
      BY <1>1
    <2>2. queue[i + 1] = v /\ queue[j + 1] = t
      BY <1>1
    <2> QED
      BY <2>1, <2>2
  <1>5. u \in Ahead(t)
    <2>1. PICK k \in DOMAIN queue : queue[k] = t
      BY <1>0 DEF QueueHoldsTheWaiting
    <2>2. 1 \in DOMAIN queue /\ 1 < k
      BY <2>1, <1>1, <1>3
    <2> QED
      BY <2>1, <2>2, <1>1 DEF Ahead
  <1>6. u \notin Ahead(t)'
    <2> SUFFICES ASSUME NEW i \in DOMAIN queue', queue'[i] = u PROVE FALSE
      BY DEF Ahead
    <2>1. i + 1 \in DOMAIN queue /\ queue[i + 1] = queue[1] /\ 1 \in DOMAIN queue /\ i + 1 # 1
      BY <1>1
    <2> QED
      BY <2>1, <1>0 DEF QueueHoldsTheWaiting
  <1>7. \A v \in Tables : loop[v] \notin Holding /\ loop'[v] \in Holding => v = u
    BY <1>0, <1>2 DEF PoolTypes
  <1> QED
    BY <1>4, <1>5, <1>6, <1>7

LEMMA StartMovesUp ==
  ASSUME PoolInv, NEW u \in Tables, StartPull(u), NEW t \in Tables
  PROVE  MovesUp(t)
  <1> SUFFICES ASSUME loop[t] = "waiting", loop'[t] = "waiting"
               PROVE  /\ Ahead(t)' \subseteq Ahead(t)
                      /\ \A v \in Tables : loop[v] \notin Holding /\ loop'[v] \in Holding
                                             => v \in Ahead(t) \ Ahead(t)'
    BY DEF MovesUp
  <1>0. PoolTypes /\ QueueHoldsTheWaiting
    BY DEF PoolInv
  <1>1. PICK k \in DOMAIN queue : queue[k] = t
    BY <1>0 DEF QueueHoldsTheWaiting
  <1>2. queue # <<>>
    BY <1>1
  <1>3. queue' = Append(queue, u) /\ loop' = [loop EXCEPT ![u] = "waiting"] /\ loop[u] = "idle"
    BY <1>2 DEF StartPull, MayPull
  <1>4. t # u
    BY <1>3
  <1>5. /\ DOMAIN queue = 1..Len(queue) /\ DOMAIN queue' = 1..(Len(queue) + 1)
        /\ Len(queue) \in Nat
        /\ \A i \in 1..Len(queue) : queue'[i] = queue[i]
        /\ queue'[Len(queue) + 1] = u
    BY <1>0, <1>3, AppendProperties, LenProperties DEF PoolTypes
  <1>6. Ahead(t)' \subseteq Ahead(t)
    <2> SUFFICES ASSUME NEW v \in Tables, NEW i \in DOMAIN queue', NEW j \in DOMAIN queue',
                        i < j, queue'[i] = v, queue'[j] = t
                 PROVE  \E n, l \in DOMAIN queue : n < l /\ queue[n] = v /\ queue[l] = t
      BY DEF Ahead
    <2>1. j # Len(queue) + 1
      BY <1>4, <1>5
    <2>2. i \in DOMAIN queue /\ j \in DOMAIN queue
      BY <2>1, <1>5
    <2> QED
      BY <2>2, <1>5
  <1>7. \A v \in Tables : loop[v] \notin Holding => loop'[v] \notin Holding
    BY <1>0, <1>3 DEF PoolTypes, Holding
  <1> QED
    BY <1>6, <1>7

LEMMA CancelMovesUp ==
  ASSUME PoolInv, NEW u \in Tables, TaskCancelled(u), NEW t \in Tables
  PROVE  MovesUp(t)
  <1> SUFFICES ASSUME loop[t] = "waiting", loop'[t] = "waiting"
               PROVE  /\ Ahead(t)' \subseteq Ahead(t)
                      /\ \A v \in Tables : loop[v] \notin Holding /\ loop'[v] \in Holding
                                             => v \in Ahead(t) \ Ahead(t)'
    BY DEF MovesUp
  <1>0. PoolTypes /\ QueueHoldsTheWaiting
    BY DEF PoolInv
  <1>1. /\ loop' = [loop EXCEPT ![u] = "cancelled"]
        /\ queue' = IF loop[u] = "waiting" THEN Without(queue, u) ELSE queue
    BY DEF TaskCancelled
  <1>2. Ahead(t)' \subseteq Ahead(t)
    <2>1. CASE loop[u] = "waiting"
      <3>1. queue' = Without(queue, u) /\ \E i \in DOMAIN queue : queue[i] = u
        BY <1>0, <1>1, <2>1 DEF QueueHoldsTheWaiting
      <3>2. \A k, l \in DOMAIN queue' : k < l =>
              \E i, j \in DOMAIN queue : i < j /\ queue[i] = queue'[k] /\ queue[j] = queue'[l]
        BY <1>0, <3>1, WithoutKeepsOrder DEF PoolTypes
      <3> QED
        BY <3>2 DEF Ahead
    <2>2. CASE loop[u] # "waiting"
      BY <1>1, <2>2 DEF Ahead
    <2> QED
      BY <2>1, <2>2
  <1>3. \A v \in Tables : loop[v] \notin Holding => loop'[v] \notin Holding
    BY <1>0, <1>1 DEF PoolTypes, Holding
  <1> QED
    BY <1>2, <1>3

\* Every other step leaves the queue alone and gives out no slot, or ends the process.
LEMMA OthersMoveNobody ==
  ASSUME PoolInv, [Next]_vars,
         \A u \in Tables : ~Grant(u) /\ ~StartPull(u) /\ ~TaskCancelled(u)
  PROVE  \/ \A u \in Tables : loop'[u] \notin Holding \union {"waiting"}
         \/ /\ queue' = queue
            /\ \A u \in Tables : loop[u] \notin Holding => loop'[u] \notin Holding
  <1> USE DEF poolVars, taskVars
  <1>0. PoolTypes
    BY DEF PoolInv
  <1>1. CASE \E u \in Tables : TableStep(u)
    <2>1. PICK u \in Tables : TableStep(u)
      BY <1>1
    <2>2. CASE ProcessEnds("failed")
      BY <2>2 DEF ProcessEnds, Holding
    <2>3. CASE ~ProcessEnds("failed")
      <3>1. queue' = queue
        BY <2>1, <2>3 DEF TableStep, StartPullRaises, PullSucceeds, HandlerRaises, PullRetries,
           RetryDelayExpires, PullFails, PullFailsRaises, LoopExits, ThreadEnds, Settle,
           LeavePull, Escape
      <3>2. \/ UNCHANGED loop
            \/ loop[u] \in Holding /\ \E s : loop' = [loop EXCEPT ![u] = s]
            \/ \E s : s \notin Holding /\ loop' = [loop EXCEPT ![u] = s]
        <4>1. CASE StartPullRaises(u)
          BY <4>1, <2>3 DEF StartPullRaises, Holding
        <4>2. CASE PullSucceeds(u) \/ HandlerRaises(u)
          BY <4>2, <2>3 DEF PullSucceeds, HandlerRaises, Settle, LeavePull, Escape, Holding
        <4>3. CASE PullRetries(u) \/ RetryDelayExpires(u)
          BY <4>3 DEF PullRetries, RetryDelayExpires, Holding
        <4>4. CASE PullFails(u) \/ PullFailsRaises(u)
          BY <4>4, <2>3 DEF PullFails, PullFailsRaises, GivesUp, Settle, LeavePull, Escape, Holding
        <4>5. CASE LoopExits(u) \/ ThreadEnds(u)
          BY <4>5 DEF LoopExits, ThreadEnds, Holding
        <4> QED
          BY <2>1, <4>1, <4>2, <4>3, <4>4, <4>5 DEF TableStep
      <3> QED
        BY <3>1, <3>2, <1>0 DEF PoolTypes
    <2> QED
      BY <2>2, <2>3
  <1>2. CASE Connect \/ ConnectFailsTransient
    <2>1. queue' = queue /\ (UNCHANGED loop \/ CreateTasks)
      BY <1>2 DEF Connect, ConnectFailsTransient
    <2> QED
      BY <2>1 DEF CreateTasks, Holding
  <1>3. CASE ConnectFailsPermanent \/ Crash
    BY <1>3 DEF ConnectFailsPermanent, Crash, ProcessEnds, Holding
  <1>4. CASE BackoffExpires \/ RequestShutdown \/ CancelTasks \/ GatherReturns
             \/ CloseDriver \/ OnceReturns \/ Restart \/ UNCHANGED vars
    BY <1>4 DEF BackoffExpires, RequestShutdown, CancelTasks, GatherReturns, CloseDriver,
       OnceReturns, Restart, vars
  <1> QED
    BY <1>1, <1>2, <1>3, <1>4 DEF Next

\* First come, first served, as a property of steps: a task that waits only ever moves
\* up, and no slot goes past it to one that came later, whatever fails, retries or is
\* cancelled around it (asyncio.Semaphore in _pull_once).
THEOREM NobodyIsOvertaken == Spec => [][\A t \in Tables : MovesUp(t)]_vars
  <1>1. PoolInv /\ [Next]_vars => \A t \in Tables : MovesUp(t)
    <2> SUFFICES ASSUME PoolInv, [Next]_vars, NEW t \in Tables PROVE MovesUp(t)
      OBVIOUS
    <2>1. CASE \E u \in Tables : Grant(u) \/ StartPull(u) \/ TaskCancelled(u)
      BY <2>1, GrantMovesUp, StartMovesUp, CancelMovesUp
    <2>2. CASE \A u \in Tables : ~Grant(u) /\ ~StartPull(u) /\ ~TaskCancelled(u)
      BY <2>2, OthersMoveNobody DEF MovesUp, Ahead
    <2> QED
      BY <2>1, <2>2
  <1> QED
    BY <1>1, PoolIsSound, PTL DEF Spec

\* The steps that a task which holds a slot has left: a call of the driver, and a
\* backoff sleep after each but the last.
CallsLeft(t) ==
    2 * (RetryLimit + 1 - attempt[t]) + IF loop[t] = "pulling" THEN 1 ELSE 0

UsesUpItsCalls(t) ==
    loop'[t] \in Holding =>
        /\ CallsLeft(t)' \in Nat
        /\ IF loop[t] \in Holding
           THEN UNCHANGED <<loop[t], attempt[t]>> \/ CallsLeft(t)' < CallsLeft(t)
           ELSE CallsLeft(t)' = 2 * RetryLimit + 1

\* A task goes on holding its slot by a retry only, or because the step is another's.
LEMMA HoldersRetry ==
  ASSUME PoolInv, [Next]_vars, NEW t \in Tables, loop[t] \in Holding, loop'[t] \in Holding
  PROVE  \/ UNCHANGED <<loop[t], attempt[t]>>
         \/ /\ loop[t] = "pulling" /\ loop'[t] = "retrying"
            /\ attempt'[t] = attempt[t]
         \/ /\ loop[t] = "retrying" /\ loop'[t] = "pulling"
            /\ attempt'[t] = attempt[t] + 1
  <1> USE DEF poolVars, taskVars
  <1>0. PoolTypes /\ QueueHoldsTheWaiting /\ TasksExistWhileServing
    BY DEF PoolInv
  <1>1. ASSUME NEW u \in Tables, TableStep(u), u # t
        PROVE  UNCHANGED <<loop[t], attempt[t]>>
    <2>1. ~ProcessEnds("failed")
      BY <1>0 DEF ProcessEnds, Holding
    <2>2. /\ loop' = loop \/ \E s : loop' = [loop EXCEPT ![u] = s]
          /\ attempt' = attempt \/ \E n : attempt' = [attempt EXCEPT ![u] = n]
      <3>1. CASE StartPull(u) \/ StartPullRaises(u) \/ Grant(u)
        BY <3>1, <2>1 DEF StartPull, StartPullRaises, Grant
      <3>2. CASE PullSucceeds(u) \/ HandlerRaises(u) \/ PullFails(u) \/ PullFailsRaises(u)
        BY <3>2, <2>1 DEF PullSucceeds, HandlerRaises, PullFails, PullFailsRaises, Settle,
           LeavePull, Escape
      <3>3. CASE PullRetries(u) \/ RetryDelayExpires(u)
        BY <3>3 DEF PullRetries, RetryDelayExpires
      <3>4. CASE LoopExits(u) \/ TaskCancelled(u) \/ ThreadEnds(u)
        BY <3>4 DEF LoopExits, TaskCancelled, ThreadEnds
      <3> QED
        BY <1>1, <3>1, <3>2, <3>3, <3>4 DEF TableStep
    <2> QED
      BY <1>0, <1>1, <2>2 DEF PoolTypes
  <1>2. CASE TableStep(t)
    <2>1. ~ProcessEnds("failed")
      BY <1>0 DEF ProcessEnds, Holding
    <2>2. CASE StartPull(t) \/ StartPullRaises(t) \/ LoopExits(t)
      BY <2>2 DEF StartPull, StartPullRaises, LoopExits, MayPull, Holding
    <2>3. CASE Grant(t)
      <3>1. queue \in Seq(Tables) /\ queue # <<>> /\ Head(queue) = t
        BY <1>0, <2>3 DEF Grant, PoolTypes
      <3>2. 1 \in DOMAIN queue /\ queue[1] = t
        BY <3>1, HeadTailProperties, LenProperties
      <3> QED
        BY <1>0, <3>2 DEF QueueHoldsTheWaiting, Holding
    <2>4. CASE PullSucceeds(t) \/ HandlerRaises(t) \/ PullFails(t) \/ PullFailsRaises(t)
      BY <2>4, <2>1, <1>0 DEF PullSucceeds, HandlerRaises, PullFails, PullFailsRaises, Settle,
         LeavePull, Escape, PoolTypes, Holding
    <2>5. CASE PullRetries(t)
      BY <2>5, <1>0 DEF PullRetries, PoolTypes
    <2>6. CASE RetryDelayExpires(t)
      BY <2>6, <1>0 DEF RetryDelayExpires, PoolTypes
    <2>7. CASE TaskCancelled(t)
      BY <2>7, <1>0 DEF TaskCancelled, PoolTypes, Holding
    <2>8. CASE ThreadEnds(t)
      BY <2>8 DEF ThreadEnds
    <2> QED
      BY <1>2, <2>2, <2>3, <2>4, <2>5, <2>6, <2>7, <2>8 DEF TableStep
  <1>3. CASE Connect \/ ConnectFailsTransient
    <2>1. loop[t] = "none"
      BY <1>0, <1>3 DEF Connect, ConnectFailsTransient, TasksExistWhileServing
    <2> QED
      BY <2>1 DEF Holding
  <1>4. CASE ConnectFailsPermanent \/ Crash
    BY <1>4 DEF ConnectFailsPermanent, Crash, ProcessEnds, Holding
  <1>5. CASE BackoffExpires \/ RequestShutdown \/ CancelTasks \/ GatherReturns
             \/ CloseDriver \/ OnceReturns \/ Restart \/ UNCHANGED vars
    BY <1>5 DEF BackoffExpires, RequestShutdown, CancelTasks, GatherReturns, CloseDriver,
       OnceReturns, Restart, vars
  <1> QED
    BY <1>1, <1>2, <1>3, <1>4, <1>5 DEF Next

\* A slot comes with the first attempt.
LEMMA SlotsComeWithTheFirstAttempt ==
  ASSUME PoolInv, [Next]_vars, NEW t \in Tables, loop[t] \notin Holding, loop'[t] \in Holding
  PROVE  loop'[t] = "pulling" /\ attempt'[t] = 1
  <1> USE DEF poolVars, taskVars
  <1>0. PoolTypes
    BY DEF PoolInv
  <1>1. ASSUME NEW u \in Tables, Grant(u) \/ StartPull(u)
        PROVE  loop'[t] = "pulling" /\ attempt'[t] = 1
    <2>1. \E s \in {"waiting", "pulling"} : loop' = [loop EXCEPT ![u] = s]
      BY <1>1 DEF Grant, StartPull
    <2>2. u = t
      BY <2>1, <1>0 DEF PoolTypes
    <2>3. loop'[t] # "waiting"
      BY DEF Holding
    <2>4. loop' = [loop EXCEPT ![t] = "pulling"] /\ attempt' = [attempt EXCEPT ![t] = 1]
      BY <1>1, <2>2, <2>3, <1>0 DEF Grant, StartPull, PoolTypes
    <2> QED
      BY <2>4, <1>0 DEF PoolTypes
  <1>2. ASSUME NEW u \in Tables, TaskCancelled(u)
        PROVE  FALSE
    BY <1>2, <1>0 DEF TaskCancelled, PoolTypes, Holding
  <1>3. CASE \A u \in Tables : ~Grant(u) /\ ~StartPull(u) /\ ~TaskCancelled(u)
    BY <1>3, OthersMoveNobody
  <1> QED
    BY <1>1, <1>2, <1>3

\* A slot is held for no more than RetryLimit + 1 calls of the driver and the sleeps
\* between them, so that the queue behind it advances (_run_with_retries).
THEOREM SlotsComeBack == Spec => [][\A t \in Tables : UsesUpItsCalls(t)]_vars
  <1>1. PoolInv /\ PoolInv' /\ [Next]_vars => \A t \in Tables : UsesUpItsCalls(t)
    <2> SUFFICES ASSUME PoolInv, PoolInv', [Next]_vars, NEW t \in Tables, loop'[t] \in Holding
                 PROVE  UsesUpItsCalls(t)
      BY DEF UsesUpItsCalls
    <2>1. /\ attempt[t] \in 0..(RetryLimit + 1) /\ attempt'[t] \in 0..(RetryLimit + 1)
          /\ RetryLimit \in Nat
      BY DaemonAssumption DEF PoolInv, PoolTypes
    <2>2. CallsLeft(t) \in Nat /\ CallsLeft(t)' \in Nat
      BY <2>1 DEF CallsLeft
    <2>3. CASE loop[t] \in Holding
      <3>1. \/ UNCHANGED <<loop[t], attempt[t]>>
            \/ loop[t] = "pulling" /\ loop'[t] = "retrying" /\ attempt'[t] = attempt[t]
            \/ loop[t] = "retrying" /\ loop'[t] = "pulling" /\ attempt'[t] = attempt[t] + 1
        BY <2>3, HoldersRetry
      <3>2. UNCHANGED <<loop[t], attempt[t]>> \/ CallsLeft(t)' < CallsLeft(t)
        BY <2>1, <3>1 DEF CallsLeft
      <3> QED
        BY <2>2, <2>3, <3>2 DEF UsesUpItsCalls
    <2>4. CASE loop[t] \notin Holding
      <3>1. loop'[t] = "pulling" /\ attempt'[t] = 1
        BY <2>4, SlotsComeWithTheFirstAttempt
      <3>2. CallsLeft(t)' = 2 * RetryLimit + 1
        BY <2>1, <3>1 DEF CallsLeft
      <3> QED
        BY <2>2, <2>4, <3>2 DEF UsesUpItsCalls
    <2> QED
      BY <2>3, <2>4
  <1>2. PoolInv /\ [Next]_vars => PoolInv'
    BY PoolStep
  <1> QED
    BY <1>1, <1>2, PoolIsSound, PTL DEF Spec

-----------------------------------------------------------------------------
(* What RunEnds rests on: after a shutdown request the run goes one way.    *)

\* Where a run may still go once its shutdown has been requested.
Course ==
    {<<"backoff", "connecting">>, <<"connecting", "serving">>, <<"connecting", "failed">>,
     <<"serving", "stopping">>, <<"serving", "exited">>, <<"serving", "failed">>,
     <<"stopping", "draining">>, <<"draining", "exited">>}
    \union {"backoff", "connecting", "serving", "stopping", "draining"} \X {"crashed"}

\* Tasks that have ended stay so until the process ends, an idle one begins no pull
\* unless --once owes it, and one that is cancelled does nothing else.
GoesOneWay(t) ==
    /\ loop[t] \in Finished => loop'[t] \in {loop[t], "none"}
    /\ loop[t] = "idle" /\ ~once => loop'[t] \notin Active
    /\ phase = "stopping" => loop'[t] \in {loop[t], "none"} \union Finished

WindsUp ==
    shutdown /\ shutdown' =>
        /\ phase' = phase \/ <<phase, phase'>> \in Course
        /\ \A t \in Tables : GoesOneWay(t)

\* What a step of a table does to the phase and to its own task.
LEMMA TableStepsWindUp ==
  ASSUME PoolInv, NEW u \in Tables, TableStep(u), shutdown
  PROVE  \/ phase = "serving" /\ ProcessEnds("failed")
         \/ /\ phase' = phase
            /\ \E s \in LoopStates :
                  /\ loop' = [loop EXCEPT ![u] = s]
                  /\ loop[u] \in Finished => s = loop[u]
                  /\ loop[u] = "idle" /\ ~once => s \notin Active
                  /\ phase = "stopping" => s = loop[u] \/ s \in Finished
  <1> USE DEF poolVars, taskVars, processVars
  <1>0. PoolTypes /\ QueueHoldsTheWaiting
    BY DEF PoolInv
  <1>a. loop = [loop EXCEPT ![u] = loop[u]] /\ loop[u] \in LoopStates
    BY <1>0 DEF PoolTypes
  <1>1. CASE StartPull(u)
    BY <1>1 DEF StartPull, MayPull, LoopStates, Active, Holding, Finished
  <1>2. CASE StartPullRaises(u)
    BY <1>2 DEF StartPullRaises, MayPull, LoopStates, Active, Holding, Finished
  <1>3. CASE Grant(u)
    <2>1. queue \in Seq(Tables) /\ queue # <<>> /\ Head(queue) = u
      BY <1>0, <1>3 DEF Grant, PoolTypes
    <2>2. 1 \in DOMAIN queue /\ queue[1] = u
      BY <2>1, HeadTailProperties, LenProperties
    <2>3. loop[u] = "waiting"
      BY <1>0, <2>2 DEF QueueHoldsTheWaiting
    <2> QED
      BY <1>3, <2>3 DEF Grant, LoopStates, Active, Holding, Finished
  <1>4. CASE PullSucceeds(u) \/ HandlerRaises(u) \/ PullFails(u) \/ PullFailsRaises(u)
    <2>1. phase = "serving" /\ loop[u] = "pulling"
      BY <1>4 DEF PullSucceeds, HandlerRaises, PullFails, PullFailsRaises, GivesUp
    <2>2. \/ ProcessEnds("failed")
          \/ phase' = phase /\ \E s \in {"done", "idle", "dead"} : loop' = [loop EXCEPT ![u] = s]
      BY <1>4 DEF PullSucceeds, HandlerRaises, PullFails, PullFailsRaises, Settle, Escape, LeavePull
    <2> QED
      BY <2>1, <2>2 DEF LoopStates, Finished
  <1>5. CASE PullRetries(u) \/ RetryDelayExpires(u)
    BY <1>5 DEF PullRetries, RetryDelayExpires, LoopStates, Active, Holding, Finished
  <1>6. CASE LoopExits(u)
    BY <1>6 DEF LoopExits, LoopStates, Active, Holding, Finished
  <1>7. CASE TaskCancelled(u)
    BY <1>7 DEF TaskCancelled, LoopStates, Active, Holding, Finished
  <1>8. CASE ThreadEnds(u)
    <2>1. UNCHANGED <<phase, loop>>
      BY <1>8 DEF ThreadEnds
    <2>2. loop[u] = "idle" => loop[u] \notin Active
      BY DEF Active, Holding
    <2> QED
      BY <1>a, <2>1, <2>2
  <1> QED
    BY <1>1, <1>2, <1>3, <1>4, <1>5, <1>6, <1>7, <1>8 DEF TableStep

\* After a request nothing is taken up again: no connection attempt is put off once
\* more, no table begins another pull unless --once owes it, and a cancelled task only
\* ends, whatever fails meanwhile (run, _connect_loop, _table_loop).
THEOREM ShutdownGoesOneWay == Spec => [][WindsUp]_vars
  <1>1. PoolInv /\ [Next]_vars => WindsUp
    <2> SUFFICES ASSUME PoolInv, [Next]_vars, shutdown, shutdown'
                 PROVE  /\ phase' = phase \/ <<phase, phase'>> \in Course
                        /\ \A t \in Tables : GoesOneWay(t)
      BY DEF WindsUp
    <2> USE DEF poolVars, taskVars
    <2>0. PoolTypes /\ TasksExistWhileServing
      BY DEF PoolInv
    <2>a. ASSUME UNCHANGED loop PROVE \A t \in Tables : GoesOneWay(t)
      BY <2>a DEF GoesOneWay, Active, Holding
    <2>b. ASSUME \A t \in Tables : loop'[t] = "none" PROVE \A t \in Tables : GoesOneWay(t)
      BY <2>b DEF GoesOneWay, Active, Holding
    <2>1. CASE \E u \in Tables : TableStep(u)
      <3>1. PICK u \in Tables : TableStep(u)
        BY <2>1
      <3>2. CASE phase = "serving" /\ ProcessEnds("failed")
        BY <3>2, <2>b DEF ProcessEnds, Course
      <3>3. CASE phase' = phase /\ \E s \in LoopStates :
                    /\ loop' = [loop EXCEPT ![u] = s]
                    /\ loop[u] \in Finished => s = loop[u]
                    /\ loop[u] = "idle" /\ ~once => s \notin Active
                    /\ phase = "stopping" => s = loop[u] \/ s \in Finished
        <4>1. GoesOneWay(u)
          BY <3>3, <2>0 DEF GoesOneWay, PoolTypes
        <4>2. ASSUME NEW t \in Tables, t # u PROVE GoesOneWay(t)
          <5>1. loop'[t] = loop[t]
            BY <3>3, <4>2, <2>0 DEF PoolTypes
          <5> QED
            BY <5>1 DEF GoesOneWay, Active, Holding
        <4> QED
          BY <3>3, <4>1, <4>2
      <3> QED
        BY <3>1, <3>2, <3>3, TableStepsWindUp
    <2>2. CASE Connect \/ ConnectFailsTransient
      <3>1. phase = "connecting" /\ phase' = "serving" /\ \A t \in Tables : loop'[t] = "idle"
        BY <2>2 DEF Connect, ConnectFailsTransient, CreateTasks
      <3>2. \A t \in Tables : loop[t] = "none"
        BY <3>1, <2>0 DEF TasksExistWhileServing
      <3> QED
        BY <3>1, <3>2 DEF Course, GoesOneWay, Finished
    <2>3. CASE ConnectFailsPermanent
      BY <2>3, <2>b DEF ConnectFailsPermanent, ProcessEnds, Course
    <2>4. CASE Crash
      <3>1. phase \in Phases \ {"exited", "failed", "crashed"} /\ ProcessEnds("crashed")
        BY <2>4, <2>0 DEF Crash, PoolTypes
      <3> QED
        BY <3>1, <2>b DEF ProcessEnds, Course, Phases
    <2>5. CASE BackoffExpires \/ CancelTasks \/ GatherReturns \/ CloseDriver \/ OnceReturns
      <3>1. UNCHANGED loop
        BY <2>5 DEF BackoffExpires, CancelTasks, GatherReturns, CloseDriver, OnceReturns
      <3>2. <<phase, phase'>> \in Course
        BY <2>5 DEF BackoffExpires, CancelTasks, GatherReturns, CloseDriver, OnceReturns, Course
      <3> QED
        BY <3>1, <3>2, <2>a
    <2>6. CASE RequestShutdown \/ Restart
      BY <2>6 DEF RequestShutdown, Restart
    <2>7. CASE UNCHANGED vars
      <3>1. UNCHANGED <<phase, loop>>
        BY <2>7 DEF vars, processVars
      <3> QED
        BY <3>1, <2>a
    <2> QED
      BY <2>1, <2>2, <2>3, <2>4, <2>5, <2>6, <2>7 DEF Next
  <1> QED
    BY <1>1, PoolIsSound, PTL DEF Spec
=============================================================================
