----------------------------- MODULE WorkerPool -----------------------------
(***************************************************************************)
(* The bounded ingest queue of the engine and the threads around it: the   *)
(* worker threads that apply batches, the callers of enqueue, ingest,      *)
(* drain, stats and freeze, and the one thread that opens, closes, starts  *)
(* and stops the engine.                                                   *)
(*                                                                         *)
(* A critical section that takes one mutex and blocks on nothing else is   *)
(* one step. The places where a thread holds a mutex and waits are steps   *)
(* of their own: a worker between the test of its wait predicate and the   *)
(* wait, stats() and close() between the engine mutex and the queue mutex. *)
(* The stop flag is atomic and is written without either mutex.            *)
(***************************************************************************)
EXTENDS Naturals, Sequences, FiniteSets

CONSTANTS Workers,        \* worker_threads
          Callers,        \* threads that call enqueue, ingest, drain and stats
          Observations,   \* each is handed to the engine once
          MaxPending,     \* max_pending_observations
          MaxBatch,       \* max_ingest_batch, also used as drain's argument
          MaxCalls,       \* bound on the calls of drain and stats
          MaxOpens,       \* bound on the calls of open and start_workers
          MaxSpurious,    \* bound on the spurious wakeups
          NoThread        \* the owner of a free mutex

ASSUME PoolAssumption ==
  /\ MaxPending \in Nat \ {0} /\ MaxBatch \in Nat \ {0}
  /\ MaxCalls \in Nat /\ MaxOpens \in Nat /\ MaxSpurious \in Nat
  /\ NoThread \notin Workers \cup Callers /\ Workers \cap Callers = {}

VARIABLES
  open, frozen, running, stop,   \* the flags of Engine::Impl
  queue,       \* the ingest queue
  qOwner,      \* who holds queue_mutex between steps
  eWriter,     \* close() holds the engine mutex exclusively
  eReaders,    \* the callers inside stats(), holding it shared
  wpc,         \* where each worker is
  cpc,         \* where each caller is
  item,        \* the observation a caller is enqueueing
  batch,       \* the local batch of a worker or of a caller in drain
  ctl,         \* where the controlling thread is
  call,        \* the call it is in
  outcome,     \* the disposition returned for each observation
  applied,     \* history: how often each observation was applied
  lost,        \* history: accepted observations that were discarded
  barrier,     \* history: what was queued when the stop was called
  calls, opens, wakeups \* counters for the bounds

flags   == <<open, frozen, running, stop>>
locks   == <<qOwner, eWriter, eReaders>>
control == <<ctl, call, barrier, opens>>
counted == <<calls, wakeups>>
fates   == <<outcome, applied, lost>>
vars == <<open, frozen, running, stop, queue, qOwner, eWriter, eReaders, wpc, cpc, item,
          batch, ctl, call, outcome, applied, lost, barrier, calls, opens,
          wakeups>>

Threads == Workers \cup Callers

Elements(q) == {q[i] : i \in 1 .. Len(q)}

Take(q) == IF MaxBatch < Len(q) THEN MaxBatch ELSE Len(q)

EngineFree   == ~eWriter /\ eReaders = {}
EngineShared == ~eWriter
QueueFree    == qOwner = NoThread

-----------------------------------------------------------------------------
Init ==
  /\ open = FALSE /\ frozen = FALSE /\ running = FALSE /\ stop = FALSE
  /\ queue = <<>>
  /\ qOwner = NoThread /\ eWriter = FALSE /\ eReaders = {}
  /\ wpc = [w \in Workers |-> "none"]
  /\ cpc = [c \in Callers |-> "idle"]
  /\ item = [c \in Callers |-> {}]
  /\ batch = [t \in Threads |-> {}]
  /\ ctl = "idle" /\ call = "none"
  /\ outcome = [o \in Observations |-> "none"]
  /\ applied = [o \in Observations |-> 0]
  /\ lost = {} /\ barrier = {}
  /\ calls = 0 /\ opens = 0 /\ wakeups = 0

\* Both consumers move the head of the queue into a local batch.
TakeBatch(t) ==
  /\ batch' = [batch EXCEPT ![t] = Elements(SubSeq(queue, 1, Take(queue)))]
  /\ queue' = SubSeq(queue, Take(queue) + 1, Len(queue))

ApplyAll(S) == applied' = [o \in Observations |-> IF o \in S THEN applied[o] + 1 ELSE applied[o]]

-----------------------------------------------------------------------------
\* The worker loop: wait() tests its predicate with queue_mutex held.
WorkerTakes(w) ==
  /\ wpc[w] = "lock" /\ QueueFree
  /\ queue # <<>>
  /\ TakeBatch(w)
  /\ wpc' = [wpc EXCEPT ![w] = "apply"]
  /\ UNCHANGED <<flags, locks, cpc, item, control, fates, counted>>

Mutant_ExitOnStop(w) ==
  /\ wpc[w] = "lock" /\ QueueFree
  /\ stop
  /\ wpc' = [wpc EXCEPT ![w] = "exited"]
  /\ UNCHANGED <<flags, locks, queue, cpc, item, batch, control, fates, counted>>

WorkerExits(w) ==
  /\ wpc[w] = "lock" /\ QueueFree
  /\ queue = <<>> /\ stop
  /\ wpc' = [wpc EXCEPT ![w] = "exited"]
  /\ UNCHANGED <<flags, locks, queue, cpc, item, batch, control, fates, counted>>

\* The predicate is false: the worker still holds queue_mutex ...
WorkerFindsNothing(w) ==
  /\ wpc[w] = "lock" /\ QueueFree
  /\ queue = <<>> /\ ~stop
  /\ qOwner' = w
  /\ wpc' = [wpc EXCEPT ![w] = "block"]
  /\ UNCHANGED <<flags, eWriter, eReaders, queue, cpc, item, batch, control, fates, counted>>

Mutant_BlockHoldingMutex(w) ==
  /\ wpc[w] = "block"
  /\ wpc' = [wpc EXCEPT ![w] = "blocked"]
  /\ UNCHANGED <<flags, locks, queue, cpc, item, batch, control, fates, counted>>

\* ... and only the wait itself releases it, atomically with blocking.
WorkerBlocks(w) ==
  /\ wpc[w] = "block"
  /\ qOwner' = NoThread
  /\ wpc' = [wpc EXCEPT ![w] = "blocked"]
  /\ UNCHANGED <<flags, eWriter, eReaders, queue, cpc, item, batch, control, fates, counted>>

SpuriousWakeup(w) ==
  /\ wpc[w] = "blocked" /\ wakeups < MaxSpurious
  /\ wakeups' = wakeups + 1
  /\ wpc' = [wpc EXCEPT ![w] = "lock"]
  /\ UNCHANGED <<flags, locks, queue, cpc, item, batch, control, fates, calls>>

Mutant_KeepBatch(w) ==
  /\ wpc[w] = "apply" /\ EngineFree
  /\ ApplyAll(batch[w])
  /\ wpc' = [wpc EXCEPT ![w] = "lock"]
  /\ UNCHANGED <<flags, locks, queue, cpc, item, batch, control, outcome, lost, counted>>

\* The batch is applied under the engine mutex, whether or not it is open.
WorkerApplies(w) ==
  /\ wpc[w] = "apply" /\ EngineFree
  /\ ApplyAll(batch[w])
  /\ batch' = [batch EXCEPT ![w] = {}]
  /\ wpc' = [wpc EXCEPT ![w] = "lock"]
  /\ UNCHANGED <<flags, locks, queue, cpc, item, control, outcome, lost, counted>>

Worker(w) == \/ WorkerTakes(w) \/ WorkerExits(w) \/ WorkerFindsNothing(w)
             \/ WorkerBlocks(w) \/ WorkerApplies(w)

-----------------------------------------------------------------------------
\* enqueue: the flags are read under the shared engine mutex ...
EnqueueChecks(c, o) ==
  /\ cpc[c] = "idle" /\ outcome[o] = "none" /\ EngineShared
  /\ IF open /\ ~frozen
     THEN /\ cpc' = [cpc EXCEPT ![c] = "push"]
          /\ item' = [item EXCEPT ![c] = {o}]
          /\ outcome' = [outcome EXCEPT ![o] = "pending"]
     ELSE /\ outcome' = [outcome EXCEPT ![o] = "Refused"]
          /\ UNCHANGED <<cpc, item>>
  /\ UNCHANGED <<flags, locks, queue, wpc, batch, control, applied, lost, counted>>

Mutant_DropOldest(c) ==
  /\ cpc[c] = "push" /\ QueueFree
  /\ \E o \in item[c] :
       /\ queue' = Append(IF Len(queue) >= MaxPending THEN Tail(queue) ELSE queue, o)
       /\ lost' = IF Len(queue) >= MaxPending THEN lost \cup {Head(queue)} ELSE lost
       /\ outcome' = [outcome EXCEPT ![o] = "Queued"]
  /\ cpc' = [cpc EXCEPT ![c] = "notify"]
  /\ item' = [item EXCEPT ![c] = {}]
  /\ UNCHANGED <<flags, locks, wpc, batch, control, applied, counted>>

\* ... and released before the observation is pushed under queue_mutex.
EnqueuePushes(c) ==
  /\ cpc[c] = "push" /\ QueueFree
  /\ \E o \in item[c] :
       IF Len(queue) >= MaxPending
       THEN /\ outcome' = [outcome EXCEPT ![o] = "DroppedQueueFull"]
            /\ cpc' = [cpc EXCEPT ![c] = "idle"]
            /\ UNCHANGED queue
       ELSE /\ queue' = Append(queue, o)
            /\ outcome' = [outcome EXCEPT ![o] = "Queued"]
            /\ cpc' = [cpc EXCEPT ![c] = "notify"]
  /\ item' = [item EXCEPT ![c] = {}]
  /\ UNCHANGED <<flags, locks, wpc, batch, control, applied, lost, counted>>

Blocked == {w \in Workers : wpc[w] = "blocked"}

Mutant_NoNotify(c) ==
  /\ cpc[c] = "notify"
  /\ cpc' = [cpc EXCEPT ![c] = "idle"]
  /\ UNCHANGED <<flags, locks, queue, wpc, item, batch, control, fates, counted>>

\* notify_one wakes one of the blocked workers, if there is one.
EnqueueNotifies(c) ==
  /\ cpc[c] = "notify"
  /\ cpc' = [cpc EXCEPT ![c] = "idle"]
  /\ IF Blocked = {} THEN UNCHANGED wpc
     ELSE \E w \in Blocked : wpc' = [wpc EXCEPT ![w] = "lock"]
  /\ UNCHANGED <<flags, locks, queue, item, batch, control, fates, counted>>

\* ingest applies under one hold of the engine mutex; submit ends in it.
Ingest(c, o) ==
  /\ cpc[c] = "idle" /\ outcome[o] = "none" /\ EngineFree
  /\ IF open /\ ~frozen
     THEN outcome' = [outcome EXCEPT ![o] = "Ingested"] /\ ApplyAll({o})
     ELSE outcome' = [outcome EXCEPT ![o] = "Refused"] /\ UNCHANGED applied
  /\ UNCHANGED <<flags, locks, queue, wpc, cpc, item, batch, control, lost, counted>>

\* drain takes its batch without looking at open or frozen.
DrainTakes(c) ==
  /\ cpc[c] = "idle" /\ QueueFree /\ calls < MaxCalls
  /\ calls' = calls + 1
  /\ TakeBatch(c)
  /\ cpc' = IF queue = <<>> THEN cpc ELSE [cpc EXCEPT ![c] = "drain"]
  /\ UNCHANGED <<flags, locks, wpc, item, control, fates, wakeups>>

\* A batch that finds the engine closed is discarded with the error NotOpen.
DrainApplies(c) ==
  /\ cpc[c] = "drain" /\ EngineFree
  /\ IF open THEN ApplyAll(batch[c]) /\ UNCHANGED lost
             ELSE lost' = lost \cup batch[c] /\ UNCHANGED applied
  /\ batch' = [batch EXCEPT ![c] = {}]
  /\ cpc' = [cpc EXCEPT ![c] = "idle"]
  /\ UNCHANGED <<flags, locks, queue, wpc, item, control, outcome, counted>>

\* stats holds the engine mutex shared while it takes queue_mutex.
StatsEnters(c) ==
  /\ cpc[c] = "idle" /\ EngineShared /\ calls < MaxCalls
  /\ calls' = calls + 1
  /\ eReaders' = eReaders \cup {c}
  /\ cpc' = [cpc EXCEPT ![c] = "stats"]
  /\ UNCHANGED <<flags, qOwner, eWriter, queue, wpc, item, batch, control, fates,
                 wakeups>>

StatsLeaves(c) ==
  /\ cpc[c] = "stats" /\ QueueFree
  /\ eReaders' = eReaders \ {c}
  /\ cpc' = [cpc EXCEPT ![c] = "idle"]
  /\ UNCHANGED <<flags, qOwner, eWriter, queue, wpc, item, batch, control, fates, counted>>

Freeze ==
  /\ ~frozen
  /\ frozen' = TRUE
  /\ UNCHANGED <<open, running, stop, queue, locks, wpc, cpc, item, batch, control, fates, counted>>

\* What a caller inside a call does next.
Returns(c) == \/ EnqueuePushes(c) \/ EnqueueNotifies(c) \/ DrainApplies(c) \/ StatsLeaves(c)

-----------------------------------------------------------------------------
\* open: the workers are started before the engine is declared open.
StartThreads ==
  IF running \/ Workers = {} THEN UNCHANGED <<running, stop, wpc>>
  ELSE /\ running' = TRUE /\ stop' = FALSE
       /\ wpc' = [w \in Workers |-> "lock"]

Open ==
  /\ ctl = "idle" /\ ~open /\ EngineFree /\ opens < MaxOpens
  /\ opens' = opens + 1
  /\ StartThreads
  /\ frozen' = FALSE /\ open' = TRUE
  /\ UNCHANGED <<queue, locks, cpc, item, batch, ctl, call, barrier, fates, counted>>

StartWorkers ==
  /\ ctl = "idle" /\ open /\ ~running /\ EngineFree /\ opens < MaxOpens
  /\ opens' = opens + 1
  /\ StartThreads
  /\ UNCHANGED <<open, frozen, queue, locks, cpc, item, batch, ctl, call, barrier, fates, counted>>

\* stop_workers returns at once when no worker is running.
StopWorkers ==
  /\ ctl = "idle" /\ EngineFree /\ running
  /\ ctl' = "store" /\ call' = "stop_workers"
  /\ barrier' = Elements(queue)
  /\ UNCHANGED <<flags, queue, locks, wpc, cpc, item, batch, opens, fates, counted>>

CloseBegins ==
  /\ ctl = "idle" /\ EngineFree /\ open
  /\ open' = FALSE
  /\ ctl' = "store" /\ call' = "close"
  /\ barrier' = IF running THEN Elements(queue) ELSE {}
  /\ UNCHANGED <<frozen, running, stop, queue, locks, wpc, cpc, item, batch, opens, fates, counted>>

\* stop_workers_locked: the flag is stored and the workers are notified
\* without queue_mutex.
StopStores ==
  /\ ctl = "store"
  /\ stop' = TRUE /\ ctl' = "notify"
  /\ UNCHANGED <<open, frozen, running, queue, locks, wpc, cpc, item, batch, call, barrier,
                 opens, fates, counted>>

StopNotifies ==
  /\ ctl = "notify"
  /\ wpc' = [w \in Workers |-> IF wpc[w] = "blocked" THEN "lock" ELSE wpc[w]]
  /\ ctl' = "join"
  /\ UNCHANGED <<flags, queue, locks, cpc, item, batch, call, barrier, opens, fates, counted>>

StopJoins ==
  /\ ctl = "join"
  /\ \A w \in Workers : wpc[w] \in {"none", "exited"}
  /\ wpc' = [w \in Workers |-> "none"]
  /\ running' = FALSE
  /\ ctl' = IF call = "close" THEN "clear" ELSE "idle"
  /\ UNCHANGED <<open, frozen, stop, queue, locks, cpc, item, batch, call, barrier, opens, fates, counted>>

\* close takes the engine mutex again and clears the runtime ...
CloseLocks ==
  /\ ctl = "clear" /\ EngineFree
  /\ eWriter' = TRUE /\ ctl' = "clearQueue"
  /\ UNCHANGED <<flags, queue, qOwner, eReaders, wpc, cpc, item, batch, call, barrier, opens,
                 fates, counted>>

\* ... and then, still holding it, the queue.
CloseClears ==
  /\ ctl = "clearQueue" /\ QueueFree
  /\ queue' = <<>>
  /\ lost' = lost \cup Elements(queue)
  /\ eWriter' = FALSE /\ ctl' = "idle"
  /\ UNCHANGED <<flags, qOwner, eReaders, wpc, cpc, item, batch, call, barrier, opens,
                 outcome, applied, counted>>

\* The controlling thread inside stop_workers or close.
Stopping == StopStores \/ StopNotifies \/ StopJoins \/ CloseLocks \/ CloseClears

-----------------------------------------------------------------------------
Next ==
  \/ \E w \in Workers : Worker(w) \/ SpuriousWakeup(w)
  \/ \E c \in Callers, o \in Observations : EnqueueChecks(c, o) \/ Ingest(c, o)
  \/ \E c \in Callers : DrainTakes(c) \/ StatsEnters(c) \/ Returns(c)
  \/ Freeze \/ Open \/ StartWorkers \/ StopWorkers \/ CloseBegins
  \/ Stopping

\* Threads that can run do: no call has to be made, and no wakeup is free.
Fairness ==
  /\ \A w \in Workers : WF_vars(Worker(w))
  /\ \A c \in Callers : WF_vars(Returns(c))
  /\ WF_vars(Stopping)

Spec == Init /\ [][Next]_vars /\ Fairness

-----------------------------------------------------------------------------
Queued == {o \in Observations : outcome[o] = "Queued"}
InBatch == UNION {batch[t] : t \in Threads}

\* The threads, the mutexes and the queue are well formed, and the queue
\* stays within max_pending_observations.
TypeOK ==
  /\ open \in BOOLEAN /\ frozen \in BOOLEAN /\ running \in BOOLEAN /\ stop \in BOOLEAN
  /\ queue \in Seq(Observations) /\ Len(queue) <= MaxPending
  /\ qOwner \in Workers \cup {NoThread} /\ eWriter \in BOOLEAN /\ eReaders \subseteq Callers
  /\ wpc \in [Workers -> {"none", "lock", "block", "blocked", "apply", "exited"}]
  /\ cpc \in [Callers -> {"idle", "push", "notify", "drain", "stats"}]
  /\ item \in [Callers -> SUBSET Observations]
  /\ batch \in [Threads -> SUBSET Observations]
  /\ ctl \in {"idle", "store", "notify", "join", "clear", "clearQueue"}
  /\ call \in {"none", "stop_workers", "close"}
  /\ outcome \in [Observations -> {"none", "pending", "Refused", "DroppedQueueFull",
                                   "Queued", "Ingested"}]
  /\ applied \in [Observations -> Nat]
  /\ lost \subseteq Observations /\ barrier \subseteq Observations
  /\ calls \in 0 .. MaxCalls /\ opens \in 0 .. MaxOpens
  /\ wakeups \in 0 .. MaxSpurious

\* Every observation answered Queued is in exactly one place: in the queue,
\* in one batch, applied once, or lost; and nothing else is anywhere.
ExactlyOnePlace ==
  /\ \A i, j \in 1 .. Len(queue) : queue[i] = queue[j] => i = j
  /\ \A s, t \in Threads : s # t => batch[s] \cap batch[t] = {}
  /\ \A o \in Observations :
       LET places == (IF o \in Elements(queue) THEN 1 ELSE 0)
                   + (IF o \in InBatch THEN 1 ELSE 0)
                   + applied[o]
                   + (IF o \in lost THEN 1 ELSE 0)
       IN  places = IF outcome[o] \in {"Queued", "Ingested"} THEN 1 ELSE 0

\* stop_workers and close are completion barriers: when the join ends, all
\* that was queued when the call began has been applied, unless a concurrent
\* drain took it out of the queue.
CompletionBarrier ==
  [][ctl = "join" /\ ctl' # "join" =>
       \A o \in barrier : \/ applied[o] = 1 \/ o \in lost
                          \/ \E c \in Callers : o \in batch[c]]_vars

\* While workers run, nothing stays in the queue for ever: no notification
\* of enqueue is lost.
QueuedIsTaken ==
  \A o \in Observations :
    (o \in Elements(queue) /\ running /\ ~stop) ~> (o \notin Elements(queue) \/ stop)

\* Every call of enqueue, drain and stats returns: the engine mutex and the
\* queue mutex are never waited for in a circle.
CallsReturn == \A c \in Callers : cpc[c] # "idle" ~> cpc[c] = "idle"

\* stop_workers and close return.
StopReturns == ctl = "store" ~> ctl = "idle"

-----------------------------------------------------------------------------
\* The pool implements the contract of the ingest paths.
Fate(o) ==
  CASE applied[o] > 0 -> "applied"
    [] applied[o] = 0 /\ o \in lost -> "lost"
    [] OTHER -> CASE outcome[o] = "Refused"          -> "refused"
                  [] outcome[o] = "DroppedQueueFull" -> "dropped"
                  [] outcome[o] = "Queued"           -> "queued"
                  [] OTHER                           -> "new"

Contract == INSTANCE IngestContract WITH status <- [o \in Observations |-> Fate(o)]

ImplementsContract == Contract!Spec
=============================================================================
