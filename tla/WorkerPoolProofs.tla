-------------------------- MODULE WorkerPoolProofs --------------------------
(***************************************************************************)
(* The safety of the ingest queue and its threads for every number of      *)
(* workers, callers and observations and every bound: who holds which      *)
(* mutex, that an accepted observation is in exactly one place, that the   *)
(* join of stop_workers and close is a completion barrier, and that the    *)
(* pool implements IngestContract. IInv is the inductive invariant.        *)
(***************************************************************************)
EXTENDS WorkerPool, SequenceTheorems, TLAPS

\* An observation that is in the queue, in a batch, lost or applied is there
\* only, and the answer of the call that handed it in says so.
Accounted ==
  /\ \A i, j \in 1 .. Len(queue) : queue[i] = queue[j] => i = j
  /\ \A s, t \in Threads : s # t => batch[s] \cap batch[t] = {}
  /\ \A o \in Elements(queue) :
       /\ outcome[o] = "Queued" /\ applied[o] = 0 /\ o \notin lost
       /\ \A t \in Threads : o \notin batch[t]
  /\ \A t \in Threads : \A o \in batch[t] :
       outcome[o] = "Queued" /\ applied[o] = 0 /\ o \notin lost
  /\ \A o \in lost : outcome[o] = "Queued" /\ applied[o] = 0
  /\ \A o \in Observations :
       /\ applied[o] \in {0, 1}
       /\ applied[o] = 1 => outcome[o] \in {"Queued", "Ingested"}
       /\ outcome[o] = "Ingested" => applied[o] = 1
       /\ outcome[o] = "Queued" =>
            \/ o \in Elements(queue) \/ o \in lost \/ applied[o] = 1
            \/ \E t \in Threads : o \in batch[t]

\* What a thread holds locally, it holds at one place of its program only,
\* and two callers never hold the same observation.
LocalsMatch ==
  /\ \A w \in Workers : wpc[w] # "apply" => batch[w] = {}
  /\ \A c \in Callers : cpc[c] # "drain" => batch[c] = {}
  /\ \A c \in Callers : cpc[c] # "push" => item[c] = {}
  /\ \A c \in Callers : \A o \in item[c] : outcome[o] = "pending"
  /\ \A c, d \in Callers : c # d => item[c] \cap item[d] = {}

\* The queue mutex belongs to the one worker between its test and its wait,
\* the engine mutex to close or to the callers inside stats: at no time to
\* two threads that exclude each other.
MutexHeld ==
  /\ \A w \in Workers : wpc[w] = "block" <=> qOwner = w
  /\ eWriter <=> ctl = "clearQueue"
  /\ eReaders = {c \in Callers : cpc[c] = "stats"}
  /\ ~(eWriter /\ eReaders # {})

\* The phases of a stop: threads exist while the pool is running, leave only
\* under the flag of the stop in progress, and the first that leaves has
\* seen the queue without anything the barrier covers.
StopInProgress ==
  /\ \A w \in Workers : wpc[w] # "none" <=> running
  /\ running => Workers # {}
  /\ running /\ stop => ctl \in {"notify", "join"}
  /\ ctl \in {"clear", "clearQueue"} => ~open
  /\ ctl \in {"store", "notify", "join"} =>
       /\ call = "close" => ~open
       /\ ~running => barrier = {}
       /\ \A o \in barrier : outcome[o] = "Queued"
       /\ (\E w \in Workers : wpc[w] = "exited") => barrier \cap Elements(queue) = {}
  /\ \A w \in Workers : wpc[w] = "exited" => stop

\* The inductive invariant.
IInv == TypeOK /\ Accounted /\ LocalsMatch /\ MutexHeld /\ StopInProgress

-----------------------------------------------------------------------------
\* What TakeBatch does to a queue: the batch and the rest share no position.
LEMMA SplitQueue ==
  ASSUME NEW q \in Seq(Observations), NEW k \in 0 .. Len(q)
  PROVE  LET head == SubSeq(q, 1, k)
             rest == SubSeq(q, k + 1, Len(q))
         IN  /\ head \in Seq(Observations) /\ Len(head) = k
             /\ rest \in Seq(Observations) /\ Len(rest) = Len(q) - k
             /\ \A i \in 1 .. k : head[i] = q[i]
             /\ \A i \in 1 .. Len(q) - k : rest[i] = q[k + i]
             /\ Elements(head) \cup Elements(rest) = Elements(q)
             /\ (\A i, j \in 1 .. Len(q) : q[i] = q[j] => i = j) =>
                  /\ Elements(head) \cap Elements(rest) = {}
                  /\ \A i, j \in 1 .. Len(rest) : rest[i] = rest[j] => i = j
<1> DEFINE head == SubSeq(q, 1, k)
           rest == SubSeq(q, k + 1, Len(q))
<1>0. Len(q) \in Nat /\ k \in Nat /\ k <= Len(q)
  OBVIOUS
<1>1. /\ head \in Seq(Observations) /\ Len(head) = k
      /\ \A i \in 1 .. k : head[i] = q[i]
  BY <1>0, SubSeqProperties
<1>2. /\ rest \in Seq(Observations) /\ Len(rest) = Len(q) - k
      /\ \A i \in 1 .. Len(q) - k : rest[i] = q[k + i]
  <2>1. CASE k = Len(q)
    <3>1. rest = <<>>
      BY <2>1, <1>0, SubSeqEmpty
    <3> QED
      BY <2>1, <3>1, <1>0
  <2>2. CASE k < Len(q)
    <3>1. /\ rest \in Seq(Observations)
          /\ Len(rest) = Len(q) - (k + 1) + 1
          /\ \A i \in 1 .. Len(q) - (k + 1) + 1 : rest[i] = q[(k + 1) + i - 1]
      BY <2>2, <1>0, SubSeqProperties
    <3> QED
      BY <3>1, <1>0
  <2> QED
    BY <2>1, <2>2, <1>0
<1>3. Elements(head) \cup Elements(rest) = Elements(q)
  <2>1. ASSUME NEW o \in Elements(q) PROVE o \in Elements(head) \cup Elements(rest)
    <3>1. PICK i \in 1 .. Len(q) : o = q[i]
      BY <2>1 DEF Elements
    <3>2. CASE i <= k
      BY <3>1, <3>2, <1>0, <1>1 DEF Elements
    <3>3. CASE i > k
      <4>1. i - k \in 1 .. Len(rest) /\ rest[i - k] = q[k + (i - k)] /\ k + (i - k) = i
        <5>1. i \in Int /\ k \in Int /\ i <= Len(q) /\ Len(q) \in Int
          BY <1>0
        <5>2. i - k \in 1 .. Len(q) - k /\ k + (i - k) = i
          BY <3>3, <5>1
        <5> QED
          BY <1>2, <5>2
      <4> QED
        BY <4>1, <3>1 DEF Elements
    <3> QED
      BY <3>2, <3>3, <1>0
  <2>2. Elements(head) \subseteq Elements(q)
    BY <1>0, <1>1 DEF Elements
  <2>3. Elements(rest) \subseteq Elements(q)
    <3>1. \A i \in 1 .. Len(rest) : k + i \in 1 .. Len(q) /\ rest[i] = q[k + i]
      BY <1>0, <1>2
    <3> QED
      BY <3>1 DEF Elements
  <2> QED
    BY <2>1, <2>2, <2>3
<1>4. ASSUME \A i, j \in 1 .. Len(q) : q[i] = q[j] => i = j
      PROVE  /\ Elements(head) \cap Elements(rest) = {}
             /\ \A i, j \in 1 .. Len(rest) : rest[i] = rest[j] => i = j
  <2>1. \A i \in 1 .. Len(head), j \in 1 .. Len(rest) : head[i] # rest[j]
    <3> SUFFICES ASSUME NEW i \in 1 .. k, NEW j \in 1 .. Len(q) - k, q[i] = q[k + j]
                 PROVE  FALSE
      BY <1>1, <1>2
    <3> QED
      BY <1>0, <1>4
  <2>2. \A i, j \in 1 .. Len(rest) : rest[i] = rest[j] => i = j
    <3> SUFFICES ASSUME NEW i \in 1 .. Len(q) - k, NEW j \in 1 .. Len(q) - k,
                        q[k + i] = q[k + j]
                 PROVE  i = j
      BY <1>2
    <3> QED
      BY <1>0, <1>4
  <2> QED
    BY <2>1, <2>2 DEF Elements
<1> QED
  BY <1>1, <1>2, <1>3, <1>4

\* The queue and the batch after TakeBatch.
LEMMA TakeBatchSplits ==
  ASSUME TypeOK, NEW t \in Threads, TakeBatch(t), batch[t] = {},
         \A i, j \in 1 .. Len(queue) : queue[i] = queue[j] => i = j
  PROVE  /\ queue' \in Seq(Observations) /\ Len(queue') <= Len(queue)
         /\ batch' \in [Threads -> SUBSET Observations]
         /\ batch' = [batch EXCEPT ![t] = batch'[t]]
         /\ batch'[t] \cup Elements(queue') = Elements(queue)
         /\ batch'[t] \cap Elements(queue') = {}
         /\ \A i, j \in 1 .. Len(queue') : queue'[i] = queue'[j] => i = j
<1> DEFINE k == Take(queue)
<1>1. k \in 0 .. Len(queue) /\ queue \in Seq(Observations) /\ Len(queue) \in Nat
  BY PoolAssumption DEF TypeOK, Take
<1> HIDE DEF k
<1> DEFINE head == SubSeq(queue, 1, k)
           rest == SubSeq(queue, k + 1, Len(queue))
<1>2. /\ head \in Seq(Observations)
      /\ rest \in Seq(Observations) /\ Len(rest) = Len(queue) - k
      /\ Elements(head) \cup Elements(rest) = Elements(queue)
      /\ Elements(head) \cap Elements(rest) = {}
      /\ \A i, j \in 1 .. Len(rest) : rest[i] = rest[j] => i = j
  BY <1>1, SplitQueue
<1>3. queue' = rest /\ batch' = [batch EXCEPT ![t] = Elements(head)]
  BY DEF TakeBatch, k
<1>4. Elements(head) \subseteq Observations
  BY <1>2, ElementOfSeq DEF Elements
<1>5. batch'[t] = Elements(head)
  BY <1>3 DEF TypeOK
<1>6. batch' \in [Threads -> SUBSET Observations]
  BY <1>3, <1>4 DEF TypeOK
<1>7. Len(queue') <= Len(queue)
  BY <1>1, <1>2, <1>3
<1> HIDE DEF head, rest
<1> QED
  BY <1>2, <1>3, <1>5, <1>6, <1>7

\* The queue holds observations only.
LEMMA QueueElements ==
  ASSUME TypeOK
  PROVE  Elements(queue) \subseteq Observations
  BY ElementOfSeq DEF TypeOK, Elements

\* start_workers_locked leaves the flags and the threads well formed.
LEMMA StartThreadsType ==
  ASSUME TypeOK, StartThreads
  PROVE  /\ running' \in BOOLEAN /\ stop' \in BOOLEAN
         /\ wpc' \in [Workers -> {"none", "lock", "block", "blocked", "apply", "exited"}]
<1>1. CASE running \/ Workers = {}
  BY <1>1 DEF StartThreads, TypeOK
<1>2. CASE ~(running \/ Workers = {})
  BY <1>2 DEF StartThreads
<1> QED
  BY <1>1, <1>2

-----------------------------------------------------------------------------
\* One step keeps the types and the bounds.
LEMMA TypeOKStep ==
  ASSUME IInv, [Next]_vars
  PROVE  TypeOK'
<1> USE PoolAssumption DEF IInv
<1> USE DEF flags, locks, control, counted, fates
<1>1. ASSUME NEW w \in Workers, WorkerTakes(w) PROVE TypeOK'
  <2>1. TakeBatch(w) /\ batch[w] = {} /\ w \in Threads
    BY <1>1 DEF WorkerTakes, LocalsMatch, Threads
  <2>2. /\ queue' \in Seq(Observations) /\ Len(queue') <= Len(queue)
        /\ batch' \in [Threads -> SUBSET Observations]
    BY <2>1, TakeBatchSplits DEF Accounted
  <2> QED
    BY <1>1, <2>2 DEF WorkerTakes, TypeOK
<1>2. ASSUME NEW w \in Workers, WorkerExits(w) PROVE TypeOK'
  BY <1>2 DEF WorkerExits, TypeOK
<1>3. ASSUME NEW w \in Workers, WorkerFindsNothing(w) PROVE TypeOK'
  BY <1>3 DEF WorkerFindsNothing, TypeOK
<1>4. ASSUME NEW w \in Workers, WorkerBlocks(w) PROVE TypeOK'
  BY <1>4 DEF WorkerBlocks, TypeOK
<1>5. ASSUME NEW w \in Workers, WorkerApplies(w) PROVE TypeOK'
  BY <1>5 DEF WorkerApplies, ApplyAll, TypeOK, Threads
<1>6. ASSUME NEW w \in Workers, SpuriousWakeup(w) PROVE TypeOK'
  BY <1>6 DEF SpuriousWakeup, TypeOK
<1>7. ASSUME NEW c \in Callers, NEW o \in Observations, EnqueueChecks(c, o) PROVE TypeOK'
  <2>1. /\ cpc' \in [Callers -> {"idle", "push", "notify", "drain", "stats"}]
        /\ item' \in [Callers -> SUBSET Observations]
        /\ outcome' \in [Observations -> {"none", "pending", "Refused", "DroppedQueueFull",
                                         "Queued", "Ingested"}]
    <3>1. CASE open /\ ~frozen
      <4>1. /\ cpc' = [cpc EXCEPT ![c] = "push"]
            /\ item' = [item EXCEPT ![c] = {o}]
            /\ outcome' = [outcome EXCEPT ![o] = "pending"]
        BY <1>7, <3>1 DEF EnqueueChecks
      <4> QED
        BY <4>1 DEF TypeOK
    <3>2. CASE ~(open /\ ~frozen)
      BY <1>7, <3>2 DEF EnqueueChecks, TypeOK
    <3> QED
      BY <3>1, <3>2
  <2> QED
    BY <1>7, <2>1 DEF EnqueueChecks, TypeOK
<1>8. ASSUME NEW c \in Callers, NEW o \in Observations, Ingest(c, o) PROVE TypeOK'
  <2>1. /\ outcome' \in [Observations -> {"none", "pending", "Refused", "DroppedQueueFull",
                                         "Queued", "Ingested"}]
        /\ applied' \in [Observations -> Nat]
    <3>1. CASE open /\ ~frozen
      <4>1. outcome' = [outcome EXCEPT ![o] = "Ingested"] /\ ApplyAll({o})
        BY <1>8, <3>1 DEF Ingest
      <4> QED
        BY <4>1 DEF ApplyAll, TypeOK
    <3>2. CASE ~(open /\ ~frozen)
      BY <1>8, <3>2 DEF Ingest, TypeOK
    <3> QED
      BY <3>1, <3>2
  <2> QED
    BY <1>8, <2>1 DEF Ingest, TypeOK
<1>9. ASSUME NEW c \in Callers, DrainTakes(c) PROVE TypeOK'
  <2>1. TakeBatch(c) /\ batch[c] = {} /\ c \in Threads
    BY <1>9 DEF DrainTakes, LocalsMatch, Threads
  <2>2. /\ queue' \in Seq(Observations) /\ Len(queue') <= Len(queue)
        /\ batch' \in [Threads -> SUBSET Observations]
    BY <2>1, TakeBatchSplits DEF Accounted
  <2> QED
    BY <1>9, <2>2 DEF DrainTakes, TypeOK
<1>10. ASSUME NEW c \in Callers, StatsEnters(c) PROVE TypeOK'
  BY <1>10 DEF StatsEnters, TypeOK
<1>11. ASSUME NEW c \in Callers, EnqueuePushes(c) PROVE TypeOK'
  <2>1. PICK o \in item[c] :
          IF Len(queue) >= MaxPending
          THEN outcome' = [outcome EXCEPT ![o] = "DroppedQueueFull"]
               /\ cpc' = [cpc EXCEPT ![c] = "idle"] /\ UNCHANGED queue
          ELSE queue' = Append(queue, o) /\ outcome' = [outcome EXCEPT ![o] = "Queued"]
               /\ cpc' = [cpc EXCEPT ![c] = "notify"]
    BY <1>11 DEF EnqueuePushes
  <2>2. o \in Observations
    BY DEF TypeOK
  <2>3. queue' \in Seq(Observations) /\ Len(queue') <= MaxPending
    <3>1. CASE Len(queue) >= MaxPending
      BY <2>1, <3>1 DEF TypeOK
    <3>2. CASE ~(Len(queue) >= MaxPending)
      <4>1. queue \in Seq(Observations) /\ queue' = Append(queue, o)
        BY <2>1, <3>2 DEF TypeOK
      <4>2. queue' \in Seq(Observations) /\ Len(queue') = Len(queue) + 1
        BY <4>1, <2>2, AppendProperties
      <4> QED
        BY <4>1, <4>2, <3>2
    <3> QED
      BY <3>1, <3>2
  <2>4. /\ outcome' \in [Observations -> {"none", "pending", "Refused", "DroppedQueueFull",
                                          "Queued", "Ingested"}]
        /\ cpc' \in [Callers -> {"idle", "push", "notify", "drain", "stats"}]
    BY <2>1, <2>2 DEF TypeOK
  <2>5. /\ item' = [item EXCEPT ![c] = {}]
        /\ UNCHANGED <<flags, locks, wpc, batch, control, applied, lost, counted>>
    BY <1>11 DEF EnqueuePushes
  <2>6. item' \in [Callers -> SUBSET Observations]
    BY <2>5 DEF TypeOK
  <2> QED
    BY ONLY TypeOK, <2>3, <2>4, <2>5, <2>6 DEF TypeOK, flags, locks, control, counted
<1>12. ASSUME NEW c \in Callers, EnqueueNotifies(c) PROVE TypeOK'
  BY <1>12 DEF EnqueueNotifies, Blocked, TypeOK
<1>13. ASSUME NEW c \in Callers, DrainApplies(c) PROVE TypeOK'
  BY <1>13 DEF DrainApplies, ApplyAll, TypeOK, Threads
<1>14. ASSUME NEW c \in Callers, StatsLeaves(c) PROVE TypeOK'
  BY <1>14 DEF StatsLeaves, TypeOK
<1>15. CASE Freeze
  BY <1>15 DEF Freeze, TypeOK
<1>16. CASE Open
  <2>1. StartThreads
    BY <1>16 DEF Open
  <2> QED
    <3>1. /\ running' \in BOOLEAN /\ stop' \in BOOLEAN
          /\ wpc' \in [Workers -> {"none", "lock", "block", "blocked", "apply", "exited"}]
      BY <2>1, StartThreadsType
    <3>2. open' \in BOOLEAN /\ frozen' \in BOOLEAN
      BY <1>16 DEF Open
    <3>3. opens' \in 0 .. MaxOpens
      BY <1>16 DEF Open, TypeOK
    <3> QED
      BY <1>16, <3>1, <3>2, <3>3 DEF Open, TypeOK
<1>17. CASE StartWorkers
  <2>1. StartThreads
    BY <1>17 DEF StartWorkers
  <2> QED
    BY <1>17, <2>1, StartThreadsType DEF StartWorkers, TypeOK
<1>18. CASE StopWorkers
  BY <1>18, QueueElements DEF StopWorkers, TypeOK
<1>19. CASE CloseBegins
  <2>1. barrier' \subseteq Observations
    BY <1>19, QueueElements DEF CloseBegins
  <2> QED
    BY <1>19, <2>1 DEF CloseBegins, TypeOK
<1>20. CASE StopStores
  BY <1>20 DEF StopStores, TypeOK
<1>21. CASE StopNotifies
  BY <1>21 DEF StopNotifies, TypeOK
<1>22. CASE StopJoins
  BY <1>22 DEF StopJoins, TypeOK
<1>23. CASE CloseLocks
  BY <1>23 DEF CloseLocks, TypeOK
<1>24. CASE CloseClears
  <2>1. queue' \in Seq(Observations) /\ Len(queue') <= MaxPending
    BY <1>24 DEF CloseClears
  <2> QED
    BY <1>24, <2>1, QueueElements DEF CloseClears, TypeOK
<1>25. CASE UNCHANGED vars
  BY <1>25 DEF vars, TypeOK
<1> QED
  BY <1>1, <1>2, <1>3, <1>4, <1>5, <1>6, <1>7, <1>8, <1>9, <1>10, <1>11, <1>12, <1>13, <1>14,
     <1>15, <1>16, <1>17, <1>18, <1>19, <1>20, <1>21, <1>22, <1>23, <1>24, <1>25
     DEF Next, Worker, Returns, Stopping

-----------------------------------------------------------------------------
\* push_back adds its observation to the queue, once if it was not there.
LEMMA AppendToQueue ==
  ASSUME TypeOK, NEW o \in Observations, queue' = Append(queue, o)
  PROVE  /\ Elements(queue') = Elements(queue) \cup {o}
         /\ o \notin Elements(queue) /\ (\A i, j \in 1 .. Len(queue) : queue[i] = queue[j] => i = j)
              => \A i, j \in 1 .. Len(queue') : queue'[i] = queue'[j] => i = j
<1>1. /\ Len(queue) \in Nat /\ Len(queue') = Len(queue) + 1
      /\ \A i \in 1 .. Len(queue) : queue'[i] = queue[i]
      /\ queue'[Len(queue) + 1] = o
  BY AppendProperties DEF TypeOK
<1>2. 1 .. Len(queue') = (1 .. Len(queue)) \cup {Len(queue) + 1}
  BY <1>1
<1>3. Elements(queue') = Elements(queue) \cup {o}
  BY <1>1, <1>2 DEF Elements
<1>4. ASSUME o \notin Elements(queue), \A i, j \in 1 .. Len(queue) : queue[i] = queue[j] => i = j,
             NEW i \in 1 .. Len(queue'), NEW j \in 1 .. Len(queue'), queue'[i] = queue'[j]
      PROVE  i = j
  <2>1. \A n \in 1 .. Len(queue) : queue[n] # o
    BY <1>4 DEF Elements
  <2> QED
    BY <1>1, <1>2, <1>4, <2>1
<1> QED
  BY <1>3, <1>4

\* A batch taken out of the queue moves its observations.
LEMMA TakingMoves ==
  ASSUME TypeOK, Accounted, NEW t \in Threads, TakeBatch(t), batch[t] = {}, UNCHANGED fates
  PROVE  Accounted'
<1>1. /\ queue' \in Seq(Observations)
      /\ batch' = [batch EXCEPT ![t] = batch'[t]]
      /\ batch'[t] \cup Elements(queue') = Elements(queue)
      /\ batch'[t] \cap Elements(queue') = {}
      /\ \A i, j \in 1 .. Len(queue') : queue'[i] = queue'[j] => i = j
  BY TakeBatchSplits DEF Accounted
<1>2. UNCHANGED <<outcome, applied, lost>>
  BY DEF fates
<1>3. \A s \in Threads : s # t => batch'[s] = batch[s]
  BY <1>1 DEF TypeOK
<1>4. \A o \in Elements(queue) :
        /\ outcome[o] = "Queued" /\ applied[o] = 0 /\ o \notin lost
        /\ \A s \in Threads : o \notin batch[s]
  BY DEF Accounted
<1>5. \A r, s \in Threads : r # s => batch'[r] \cap batch'[s] = {}
  BY <1>1, <1>3, <1>4 DEF Accounted
<1>6. \A o \in Elements(queue') :
        /\ outcome'[o] = "Queued" /\ applied'[o] = 0 /\ o \notin lost'
        /\ \A s \in Threads : o \notin batch'[s]
  BY <1>1, <1>2, <1>3, <1>4
<1>7. \A s \in Threads : \A o \in batch'[s] :
        outcome'[o] = "Queued" /\ applied'[o] = 0 /\ o \notin lost'
  BY <1>1, <1>2, <1>3, <1>4 DEF Accounted
<1>8. ASSUME NEW o \in Observations, outcome'[o] = "Queued"
      PROVE  \/ o \in Elements(queue') \/ o \in lost' \/ applied'[o] = 1
             \/ \E s \in Threads : o \in batch'[s]
  <2>1. \/ o \in Elements(queue) \/ o \in lost \/ applied[o] = 1
        \/ \E s \in Threads : o \in batch[s]
    BY <1>2, <1>8 DEF Accounted
  <2> QED
    BY <1>1, <1>2, <1>3, <2>1
<1> QED
  BY <1>1, <1>2, <1>5, <1>6, <1>7, <1>8 DEF Accounted

\* A batch that is applied counts each of its observations once.
LEMMA ApplyingMoves ==
  ASSUME TypeOK, Accounted, NEW t \in Threads, ApplyAll(batch[t]),
         batch' = [batch EXCEPT ![t] = {}], UNCHANGED <<queue, outcome, lost>>
  PROVE  Accounted'
<1>1. /\ \A o \in batch[t] : o \in Observations /\ applied'[o] = applied[o] + 1
      /\ \A o \in Observations \ batch[t] : applied'[o] = applied[o]
  BY DEF ApplyAll, TypeOK
<1>2. /\ batch'[t] = {}
      /\ \A s \in Threads : s # t => batch'[s] = batch[s]
  BY DEF TypeOK
<1>3. Elements(queue') = Elements(queue) /\ Elements(queue) \subseteq Observations
  BY QueueElements DEF Elements
<1>4. \A o \in Elements(queue') :
        /\ outcome'[o] = "Queued" /\ applied'[o] = 0 /\ o \notin lost'
        /\ \A s \in Threads : o \notin batch'[s]
  BY <1>1, <1>2, <1>3 DEF Accounted
<1>5. \A s \in Threads : \A o \in batch'[s] :
        outcome'[o] = "Queued" /\ applied'[o] = 0 /\ o \notin lost'
  <2> SUFFICES ASSUME NEW s \in Threads, NEW o \in batch'[s]
               PROVE  outcome'[o] = "Queued" /\ applied'[o] = 0 /\ o \notin lost'
    OBVIOUS
  <2>1. s # t /\ o \in batch[s] /\ o \notin batch[t] /\ o \in Observations
    BY <1>2 DEF Accounted, TypeOK
  <2> QED
    BY <1>1, <2>1 DEF Accounted
<1>6. \A o \in lost' : outcome'[o] = "Queued" /\ applied'[o] = 0
  BY <1>1 DEF Accounted, TypeOK
<1>7. ASSUME NEW o \in Observations
      PROVE  /\ applied'[o] \in {0, 1}
             /\ applied'[o] = 1 => outcome'[o] \in {"Queued", "Ingested"}
             /\ outcome'[o] = "Ingested" => applied'[o] = 1
             /\ outcome'[o] = "Queued" =>
                  \/ o \in Elements(queue') \/ o \in lost' \/ applied'[o] = 1
                  \/ \E s \in Threads : o \in batch'[s]
  <2>1. CASE o \in batch[t]
    BY <2>1, <1>1 DEF Accounted
  <2>2. CASE o \notin batch[t]
    BY <2>2, <1>1, <1>2, <1>3 DEF Accounted
  <2> QED
    BY <2>1, <2>2
<1>8. /\ \A i, j \in 1 .. Len(queue') : queue'[i] = queue'[j] => i = j
      /\ \A r, s \in Threads : r # s => batch'[r] \cap batch'[s] = {}
  BY <1>2 DEF Accounted
<1> QED
  BY <1>4, <1>5, <1>6, <1>7, <1>8 DEF Accounted

\* An observation the call did not accept is nowhere, and stays nowhere.
LEMMA AnswerOnly ==
  ASSUME TypeOK, Accounted, NEW o \in Observations,
         outcome[o] \notin {"Queued", "Ingested"},
         NEW answer \in {"pending", "Refused", "DroppedQueueFull"},
         outcome' = [outcome EXCEPT ![o] = answer], UNCHANGED <<queue, batch, applied, lost>>
  PROVE  Accounted'
<1>1. /\ o \notin Elements(queue) /\ o \notin lost /\ applied[o] = 0
      /\ \A t \in Threads : o \notin batch[t]
  BY DEF Accounted
<1>2. /\ \A p \in Observations : p # o => outcome'[p] = outcome[p]
      /\ outcome'[o] = answer
  BY DEF TypeOK
<1>3. Elements(queue') = Elements(queue) /\ Elements(queue) \subseteq Observations
  BY QueueElements DEF Elements
<1>4. \A p \in Elements(queue') :
        /\ outcome'[p] = "Queued" /\ applied'[p] = 0 /\ p \notin lost'
        /\ \A t \in Threads : p \notin batch'[t]
  BY <1>1, <1>2, <1>3 DEF Accounted
<1>5. \A t \in Threads : \A p \in batch'[t] :
        outcome'[p] = "Queued" /\ applied'[p] = 0 /\ p \notin lost'
  BY <1>1, <1>2 DEF Accounted, TypeOK
<1>6. \A p \in lost' : outcome'[p] = "Queued" /\ applied'[p] = 0
  BY <1>1, <1>2 DEF Accounted, TypeOK
<1>7. ASSUME NEW p \in Observations
      PROVE  /\ applied'[p] \in {0, 1}
             /\ applied'[p] = 1 => outcome'[p] \in {"Queued", "Ingested"}
             /\ outcome'[p] = "Ingested" => applied'[p] = 1
             /\ outcome'[p] = "Queued" =>
                  \/ p \in Elements(queue') \/ p \in lost' \/ applied'[p] = 1
                  \/ \E t \in Threads : p \in batch'[t]
  BY <1>1, <1>2, <1>3 DEF Accounted
<1>8. /\ \A i, j \in 1 .. Len(queue') : queue'[i] = queue'[j] => i = j
      /\ \A r, t \in Threads : r # t => batch'[r] \cap batch'[t] = {}
  BY DEF Accounted
<1> QED
  BY <1>4, <1>5, <1>6, <1>7, <1>8 DEF Accounted

\* One step leaves every observation in one place.
LEMMA AccountedStep ==
  ASSUME IInv, [Next]_vars
  PROVE  Accounted'
<1> USE DEF IInv
<1>1. CASE UNCHANGED <<queue, batch, outcome, applied, lost>>
  BY <1>1 DEF Accounted, Elements
<1>2. ASSUME NEW w \in Workers, WorkerTakes(w) PROVE Accounted'
  <2>1. TakeBatch(w) /\ batch[w] = {} /\ w \in Threads /\ UNCHANGED fates
    BY <1>2 DEF WorkerTakes, LocalsMatch, Threads
  <2> QED
    BY <2>1, TakingMoves
<1>3. ASSUME NEW w \in Workers, WorkerApplies(w) PROVE Accounted'
  <2>1. /\ w \in Threads /\ ApplyAll(batch[w]) /\ batch' = [batch EXCEPT ![w] = {}]
        /\ UNCHANGED <<queue, outcome, lost>>
    BY <1>3 DEF WorkerApplies, Threads
  <2> QED
    BY <2>1, ApplyingMoves
<1>4. ASSUME NEW c \in Callers, NEW o \in Observations, EnqueueChecks(c, o) PROVE Accounted'
  <2>1. /\ outcome[o] = "none"
        /\ UNCHANGED <<queue, batch, applied, lost>>
    BY <1>4 DEF EnqueueChecks
  <2>2. \E answer \in {"pending", "Refused"} : outcome' = [outcome EXCEPT ![o] = answer]
    <3>1. CASE open /\ ~frozen
      BY <1>4, <3>1 DEF EnqueueChecks
    <3>2. CASE ~(open /\ ~frozen)
      BY <1>4, <3>2 DEF EnqueueChecks
    <3> QED
      BY <3>1, <3>2
  <2> QED
    BY <2>1, <2>2, AnswerOnly
<1>5. ASSUME NEW c \in Callers, NEW o \in Observations, Ingest(c, o) PROVE Accounted'
  <2>1. outcome[o] = "none" /\ UNCHANGED <<queue, batch, lost>>
    BY <1>5 DEF Ingest
  <2>2. CASE open /\ ~frozen
    <3>1. outcome' = [outcome EXCEPT ![o] = "Ingested"] /\ ApplyAll({o})
      BY <1>5, <2>2 DEF Ingest
    <3>2. /\ applied[o] = 0 /\ o \notin Elements(queue) /\ o \notin lost
          /\ \A t \in Threads : o \notin batch[t]
      BY <2>1 DEF Accounted
    <3>3. /\ applied'[o] = 1 /\ outcome'[o] = "Ingested"
          /\ \A p \in Observations \ {o} : applied'[p] = applied[p] /\ outcome'[p] = outcome[p]
      BY <3>1, <3>2 DEF ApplyAll, TypeOK
    <3>4. Elements(queue') = Elements(queue) /\ Elements(queue) \subseteq Observations
      BY <2>1, QueueElements DEF Elements
    <3>5. /\ \A p \in Elements(queue') :
               /\ outcome'[p] = "Queued" /\ applied'[p] = 0 /\ p \notin lost'
               /\ \A t \in Threads : p \notin batch'[t]
          /\ \A t \in Threads : \A p \in batch'[t] :
               outcome'[p] = "Queued" /\ applied'[p] = 0 /\ p \notin lost'
      BY <2>1, <3>2, <3>3, <3>4 DEF Accounted, TypeOK
    <3>6. \A p \in lost' : outcome'[p] = "Queued" /\ applied'[p] = 0
      BY <2>1, <3>2, <3>3 DEF Accounted, TypeOK
    <3>7. \A p \in Observations :
            /\ applied'[p] \in {0, 1}
            /\ applied'[p] = 1 => outcome'[p] \in {"Queued", "Ingested"}
            /\ outcome'[p] = "Ingested" => applied'[p] = 1
            /\ outcome'[p] = "Queued" =>
                 \/ p \in Elements(queue') \/ p \in lost' \/ applied'[p] = 1
                 \/ \E t \in Threads : p \in batch'[t]
      BY <2>1, <3>3, <3>4 DEF Accounted
    <3>8. /\ \A i, j \in 1 .. Len(queue') : queue'[i] = queue'[j] => i = j
          /\ \A r, t \in Threads : r # t => batch'[r] \cap batch'[t] = {}
      BY <2>1 DEF Accounted
    <3> QED
      BY <3>5, <3>6, <3>7, <3>8 DEF Accounted
  <2>3. CASE ~(open /\ ~frozen)
    <3>1. outcome' = [outcome EXCEPT ![o] = "Refused"] /\ UNCHANGED applied
      BY <1>5, <2>3 DEF Ingest
    <3> QED
      BY <2>1, <3>1, AnswerOnly
  <2> QED
    BY <2>2, <2>3
<1>6. ASSUME NEW c \in Callers, DrainTakes(c) PROVE Accounted'
  <2>1. TakeBatch(c) /\ batch[c] = {} /\ c \in Threads /\ UNCHANGED fates
    BY <1>6 DEF DrainTakes, LocalsMatch, Threads
  <2> QED
    BY <2>1, TakingMoves
<1>7. ASSUME NEW c \in Callers, EnqueuePushes(c) PROVE Accounted'
  <2>1. PICK o \in item[c] :
          IF Len(queue) >= MaxPending
          THEN outcome' = [outcome EXCEPT ![o] = "DroppedQueueFull"] /\ UNCHANGED queue
          ELSE queue' = Append(queue, o) /\ outcome' = [outcome EXCEPT ![o] = "Queued"]
    BY <1>7 DEF EnqueuePushes
  <2>2. /\ o \in Observations /\ outcome[o] = "pending" /\ applied[o] = 0
        /\ UNCHANGED <<batch, applied, lost>>
    BY <1>7 DEF EnqueuePushes, LocalsMatch, Accounted, TypeOK
  <2>3. /\ o \notin Elements(queue) /\ o \notin lost
        /\ \A t \in Threads : o \notin batch[t]
    BY <2>2 DEF Accounted
  <2>4. CASE Len(queue) >= MaxPending
    <3>1. outcome' = [outcome EXCEPT ![o] = "DroppedQueueFull"] /\ UNCHANGED queue
      BY <2>1, <2>4
    <3> QED
      BY <2>2, <3>1, AnswerOnly
  <2>5. CASE ~(Len(queue) >= MaxPending)
    <3>1. queue' = Append(queue, o) /\ outcome' = [outcome EXCEPT ![o] = "Queued"]
      BY <2>1, <2>5
    <3>2. /\ Elements(queue') = Elements(queue) \cup {o}
          /\ \A i, j \in 1 .. Len(queue') : queue'[i] = queue'[j] => i = j
      BY <2>2, <2>3, <3>1, AppendToQueue DEF Accounted
    <3> QED
      BY <2>2, <2>3, <3>1, <3>2, QueueElements DEF Accounted, TypeOK
  <2> QED
    BY <2>4, <2>5
<1>8. ASSUME NEW c \in Callers, DrainApplies(c) PROVE Accounted'
  <2>1. c \in Threads /\ batch' = [batch EXCEPT ![c] = {}] /\ UNCHANGED <<queue, outcome>>
    BY <1>8 DEF DrainApplies, Threads
  <2>2. CASE open
    <3>1. ApplyAll(batch[c]) /\ UNCHANGED lost
      BY <1>8, <2>2 DEF DrainApplies
    <3> QED
      BY <2>1, <3>1, ApplyingMoves
  <2>3. CASE ~open
    <3>1. lost' = lost \cup batch[c] /\ UNCHANGED applied
      BY <1>8, <2>3 DEF DrainApplies
    <3>2. /\ batch'[c] = {}
          /\ \A s \in Threads : s # c => batch'[s] = batch[s]
      BY <2>1 DEF TypeOK
    <3> QED
      BY <2>1, <3>1, <3>2 DEF Accounted, Elements
  <2> QED
    BY <2>2, <2>3
<1>9. CASE CloseClears
  <2>1. /\ queue' = <<>> /\ lost' = lost \cup Elements(queue)
        /\ UNCHANGED <<batch, outcome, applied>>
    BY <1>9 DEF CloseClears
  <2>2. Elements(queue') = {} /\ Len(queue') = 0
    BY <2>1 DEF Elements
  <2> QED
    BY <2>1, <2>2 DEF Accounted
<1> QED
  BY <1>1, <1>2, <1>3, <1>4, <1>5, <1>6, <1>7, <1>8, <1>9
     DEF Next, vars, Worker, Returns, Stopping, fates, WorkerExits, WorkerFindsNothing,
         WorkerBlocks, SpuriousWakeup, StatsEnters, EnqueueNotifies, StatsLeaves, Freeze, Open,
         StartWorkers, StopWorkers, CloseBegins, StopStores, StopNotifies, StopJoins, CloseLocks

-----------------------------------------------------------------------------
\* One step keeps what the threads hold in step with where they are.
LEMMA LocalsMatchStep ==
  ASSUME IInv, [Next]_vars
  PROVE  LocalsMatch'
<1> USE PoolAssumption DEF IInv, fates, control
<1>1. CASE UNCHANGED <<wpc, cpc, item, batch, outcome>>
  BY <1>1 DEF LocalsMatch
<1>2. ASSUME NEW w \in Workers, WorkerTakes(w) PROVE LocalsMatch'
  BY <1>2 DEF WorkerTakes, TakeBatch, LocalsMatch, TypeOK, Threads
<1>3. ASSUME NEW w \in Workers, WorkerExits(w) PROVE LocalsMatch'
  BY <1>3 DEF WorkerExits, LocalsMatch, TypeOK
<1>4. ASSUME NEW w \in Workers, WorkerFindsNothing(w) PROVE LocalsMatch'
  BY <1>4 DEF WorkerFindsNothing, LocalsMatch, TypeOK
<1>5. ASSUME NEW w \in Workers, WorkerBlocks(w) PROVE LocalsMatch'
  BY <1>5 DEF WorkerBlocks, LocalsMatch, TypeOK
<1>6. ASSUME NEW w \in Workers, WorkerApplies(w) PROVE LocalsMatch'
  BY <1>6 DEF WorkerApplies, LocalsMatch, TypeOK, Threads
<1>7. ASSUME NEW w \in Workers, SpuriousWakeup(w) PROVE LocalsMatch'
  BY <1>7 DEF SpuriousWakeup, LocalsMatch, TypeOK
<1>8. ASSUME NEW c \in Callers, NEW o \in Observations, EnqueueChecks(c, o) PROVE LocalsMatch'
  <2>1. CASE open /\ ~frozen
    <3>1. /\ cpc' = [cpc EXCEPT ![c] = "push"]
          /\ item' = [item EXCEPT ![c] = {o}]
          /\ outcome' = [outcome EXCEPT ![o] = "pending"]
          /\ outcome[o] = "none" /\ cpc[c] = "idle"
          /\ UNCHANGED <<wpc, batch>>
      BY <1>8, <2>1 DEF EnqueueChecks
    <3> QED
      BY <3>1 DEF LocalsMatch, TypeOK
  <2>2. CASE ~(open /\ ~frozen)
    <3>1. /\ outcome' = [outcome EXCEPT ![o] = "Refused"] /\ outcome[o] = "none"
          /\ UNCHANGED <<wpc, cpc, item, batch>>
      BY <1>8, <2>2 DEF EnqueueChecks
    <3> QED
      BY <3>1 DEF LocalsMatch, TypeOK
  <2> QED
    BY <2>1, <2>2
<1>9. ASSUME NEW c \in Callers, NEW o \in Observations, Ingest(c, o) PROVE LocalsMatch'
  <2>1. outcome[o] = "none" /\ UNCHANGED <<wpc, cpc, item, batch>>
    BY <1>9 DEF Ingest
  <2>2. \E answer \in {"Ingested", "Refused"} : outcome' = [outcome EXCEPT ![o] = answer]
    BY <1>9 DEF Ingest
  <2> QED
    BY <2>1, <2>2 DEF LocalsMatch, TypeOK
<1>10. ASSUME NEW c \in Callers, DrainTakes(c) PROVE LocalsMatch'
  <2>1. CASE queue = <<>>
    <3>1. TakeBatch(c) /\ batch[c] = {} /\ c \in Threads /\ UNCHANGED <<wpc, cpc, item, outcome>>
      BY <1>10, <2>1 DEF DrainTakes, LocalsMatch, Threads
    <3>2. Elements(queue) = {}
      BY <2>1 DEF Elements
    <3>3. batch' = [batch EXCEPT ![c] = batch'[c]] /\ batch'[c] = {}
      BY <3>1, <3>2, TakeBatchSplits DEF Accounted
    <3>4. \A t \in Threads : batch'[t] = batch[t]
      BY <3>1, <3>3 DEF TypeOK
    <3> QED
      BY <3>1, <3>4 DEF LocalsMatch, Threads
  <2>2. CASE queue # <<>>
    BY <1>10, <2>2 DEF DrainTakes, TakeBatch, LocalsMatch, TypeOK, Threads
  <2> QED
    BY <2>1, <2>2
<1>11. ASSUME NEW c \in Callers, StatsEnters(c) PROVE LocalsMatch'
  BY <1>11 DEF StatsEnters, LocalsMatch, TypeOK
<1>12. ASSUME NEW c \in Callers, EnqueuePushes(c) PROVE LocalsMatch'
  <2>1. PICK o \in item[c], answer \in {"DroppedQueueFull", "Queued"}, at \in {"idle", "notify"} :
          /\ outcome' = [outcome EXCEPT ![o] = answer]
          /\ cpc' = [cpc EXCEPT ![c] = at]
    BY <1>12 DEF EnqueuePushes
  <2>2. /\ cpc[c] = "push" /\ item' = [item EXCEPT ![c] = {}] /\ UNCHANGED <<wpc, batch>>
    BY <1>12 DEF EnqueuePushes
  <2>3. \A d \in Callers : d # c => o \notin item[d]
    BY DEF LocalsMatch
  <2> QED
    BY <2>1, <2>2, <2>3 DEF LocalsMatch, TypeOK
<1>13. ASSUME NEW c \in Callers, EnqueueNotifies(c) PROVE LocalsMatch'
  BY <1>13 DEF EnqueueNotifies, Blocked, LocalsMatch, TypeOK
<1>14. ASSUME NEW c \in Callers, DrainApplies(c) PROVE LocalsMatch'
  BY <1>14 DEF DrainApplies, LocalsMatch, TypeOK, Threads
<1>15. ASSUME NEW c \in Callers, StatsLeaves(c) PROVE LocalsMatch'
  BY <1>15 DEF StatsLeaves, LocalsMatch, TypeOK
<1>16. CASE StartThreads /\ UNCHANGED <<cpc, item, batch, outcome>>
  BY <1>16 DEF StartThreads, LocalsMatch, StopInProgress
<1>17. CASE StopNotifies
  BY <1>17 DEF StopNotifies, LocalsMatch, TypeOK
<1>18. CASE StopJoins
  BY <1>18 DEF StopJoins, LocalsMatch, TypeOK
<1> QED
  BY <1>1, <1>2, <1>3, <1>4, <1>5, <1>6, <1>7, <1>8, <1>9, <1>10, <1>11, <1>12, <1>13, <1>14,
     <1>15, <1>16, <1>17, <1>18
     DEF Next, vars, Worker, Returns, Stopping, Freeze, Open, StartWorkers, StopWorkers,
         CloseBegins, StopStores, CloseLocks, CloseClears

-----------------------------------------------------------------------------
\* One step keeps the mutexes with the threads that hold them.
LEMMA MutexHeldStep ==
  ASSUME IInv, [Next]_vars
  PROVE  MutexHeld'
<1> USE PoolAssumption DEF IInv, locks, control
<1>1. CASE UNCHANGED <<locks, ctl, wpc, cpc>>
  BY <1>1 DEF MutexHeld
<1>2. ASSUME NEW w \in Workers, WorkerTakes(w) \/ WorkerExits(w) \/ WorkerApplies(w) \/ SpuriousWakeup(w)
      PROVE  MutexHeld'
  <2>1. /\ wpc[w] # "block" /\ UNCHANGED <<locks, ctl, cpc>>
        /\ \E at \in {"lock", "apply", "exited"} : wpc' = [wpc EXCEPT ![w] = at]
    BY <1>2 DEF WorkerTakes, WorkerExits, WorkerApplies, SpuriousWakeup
  <2> QED
    BY <2>1 DEF MutexHeld, TypeOK
<1>3. ASSUME NEW w \in Workers, WorkerFindsNothing(w) PROVE MutexHeld'
  <2>1. /\ qOwner = NoThread /\ qOwner' = w /\ wpc' = [wpc EXCEPT ![w] = "block"]
        /\ UNCHANGED <<eWriter, eReaders, ctl, cpc>>
    BY <1>3 DEF WorkerFindsNothing, QueueFree
  <2> QED
    BY <2>1 DEF MutexHeld, TypeOK
<1>4. ASSUME NEW w \in Workers, WorkerBlocks(w) PROVE MutexHeld'
  <2>1. /\ wpc[w] = "block" /\ qOwner' = NoThread /\ wpc' = [wpc EXCEPT ![w] = "blocked"]
        /\ UNCHANGED <<eWriter, eReaders, ctl, cpc>>
    BY <1>4 DEF WorkerBlocks
  <2> QED
    BY <2>1 DEF MutexHeld, TypeOK
<1>5. ASSUME NEW c \in Callers, cpc[c] # "stats", UNCHANGED <<locks, ctl, wpc>>,
             NEW at \in {"idle", "push", "notify", "drain"}, cpc' = [cpc EXCEPT ![c] = at]
      PROVE  MutexHeld'
  BY <1>5 DEF MutexHeld, TypeOK
<1>6. ASSUME NEW c \in Callers, NEW o \in Observations, EnqueueChecks(c, o) PROVE MutexHeld'
  <2>1. cpc[c] = "idle" /\ UNCHANGED <<locks, ctl, wpc>>
    BY <1>6 DEF EnqueueChecks
  <2>2. CASE open /\ ~frozen
    <3>1. cpc' = [cpc EXCEPT ![c] = "push"]
      BY <1>6, <2>2 DEF EnqueueChecks
    <3> QED
      BY <2>1, <3>1, <1>5
  <2>3. CASE ~(open /\ ~frozen)
    BY <1>1, <1>6, <2>1, <2>3 DEF EnqueueChecks
  <2> QED
    BY <2>2, <2>3
<1>7. ASSUME NEW c \in Callers, DrainTakes(c) PROVE MutexHeld'
  <2>1. cpc[c] = "idle" /\ UNCHANGED <<locks, ctl, wpc>> /\ (UNCHANGED cpc \/ cpc' = [cpc EXCEPT ![c] = "drain"])
    BY <1>7 DEF DrainTakes
  <2> QED
    BY <2>1, <1>1, <1>5
<1>8. ASSUME NEW c \in Callers, EnqueuePushes(c) \/ DrainApplies(c) PROVE MutexHeld'
  <2>1. /\ cpc[c] # "stats" /\ UNCHANGED <<locks, ctl, wpc>>
        /\ \E at \in {"idle", "notify"} : cpc' = [cpc EXCEPT ![c] = at]
    BY <1>8 DEF EnqueuePushes, DrainApplies
  <2> QED
    BY <2>1, <1>5
<1>9. ASSUME NEW c \in Callers, EnqueueNotifies(c) PROVE MutexHeld'
  <2>1. cpc[c] = "notify" /\ cpc' = [cpc EXCEPT ![c] = "idle"] /\ UNCHANGED <<locks, ctl>>
    BY <1>9 DEF EnqueueNotifies
  <2>2. UNCHANGED wpc \/ \E w \in Workers : wpc[w] = "blocked" /\ wpc' = [wpc EXCEPT ![w] = "lock"]
    BY <1>9 DEF EnqueueNotifies, Blocked
  <2> QED
    BY <2>1, <2>2 DEF MutexHeld, TypeOK
<1>10. ASSUME NEW c \in Callers, StatsEnters(c) PROVE MutexHeld'
  <2>1. /\ ~eWriter /\ eReaders' = eReaders \cup {c} /\ cpc' = [cpc EXCEPT ![c] = "stats"]
        /\ UNCHANGED <<qOwner, eWriter, ctl, wpc>>
    BY <1>10 DEF StatsEnters, EngineShared
  <2> QED
    BY <2>1 DEF MutexHeld, TypeOK
<1>11. ASSUME NEW c \in Callers, StatsLeaves(c) PROVE MutexHeld'
  <2>1. /\ eReaders' = eReaders \ {c} /\ cpc' = [cpc EXCEPT ![c] = "idle"]
        /\ UNCHANGED <<qOwner, eWriter, ctl, wpc>> /\ cpc[c] = "stats"
    BY <1>11 DEF StatsLeaves
  <2> QED
    BY <2>1 DEF MutexHeld, TypeOK
<1>12. CASE StartThreads /\ UNCHANGED <<locks, ctl, cpc>>
  <2>1. CASE running \/ Workers = {}
    BY <1>1, <1>12, <2>1 DEF StartThreads
  <2>2. CASE ~(running \/ Workers = {})
    <3>1. wpc' = [w \in Workers |-> "lock"]
      BY <1>12, <2>2 DEF StartThreads
    <3>2. \A w \in Workers : wpc[w] = "none"
      BY <2>2 DEF StopInProgress
    <3> QED
      BY <1>12, <3>1, <3>2 DEF MutexHeld
  <2> QED
    BY <2>1, <2>2
<1>13. CASE StopWorkers \/ CloseBegins \/ StopStores
  <2>1. /\ ctl # "clearQueue" /\ ctl' # "clearQueue" /\ UNCHANGED <<locks, wpc, cpc>>
    BY <1>13 DEF StopWorkers, CloseBegins, StopStores
  <2> QED
    BY <2>1 DEF MutexHeld
<1>14. CASE StopNotifies
  <2>1. /\ ctl # "clearQueue" /\ ctl' # "clearQueue" /\ UNCHANGED <<locks, cpc>>
        /\ wpc' = [w \in Workers |-> IF wpc[w] = "blocked" THEN "lock" ELSE wpc[w]]
    BY <1>14 DEF StopNotifies
  <2> QED
    BY <2>1 DEF MutexHeld
<1>15. CASE StopJoins
  <2>1. /\ ctl # "clearQueue" /\ ctl' # "clearQueue" /\ UNCHANGED <<locks, cpc>>
        /\ wpc' = [w \in Workers |-> "none"]
        /\ \A w \in Workers : wpc[w] \in {"none", "exited"}
    BY <1>15 DEF StopJoins
  <2> QED
    BY <2>1 DEF MutexHeld
<1>16. CASE CloseLocks
  <2>1. /\ eReaders = {} /\ eWriter' = TRUE /\ ctl' = "clearQueue"
        /\ UNCHANGED <<qOwner, eReaders, wpc, cpc>>
    BY <1>16 DEF CloseLocks, EngineFree
  <2> QED
    BY <2>1 DEF MutexHeld
<1>17. CASE CloseClears
  <2>1. eWriter' = FALSE /\ ctl' = "idle" /\ UNCHANGED <<qOwner, eReaders, wpc, cpc>>
    BY <1>17 DEF CloseClears
  <2> QED
    BY <2>1 DEF MutexHeld
<1> QED
  BY <1>1, <1>2, <1>3, <1>4, <1>6, <1>7, <1>8, <1>9, <1>10, <1>11, <1>12, <1>13, <1>14, <1>15,
     <1>16, <1>17
     DEF Next, vars, Worker, Returns, Stopping, Freeze, Open, StartWorkers, Ingest

-----------------------------------------------------------------------------
\* A step that moves no thread in or out of the pool, takes observations from
\* the queue at most, and forgets no answer keeps the phases of the stop.
LEMMA StopPhaseKept ==
  ASSUME StopInProgress, UNCHANGED <<open, running, stop, ctl, call, barrier>>,
         \A w \in Workers : /\ wpc'[w] = "none" <=> wpc[w] = "none"
                            /\ wpc'[w] = "exited" => wpc[w] = "exited",
         barrier \cap Elements(queue') \subseteq Elements(queue),
         \A o \in barrier : outcome[o] = "Queued" => outcome'[o] = "Queued"
  PROVE  StopInProgress'
  BY DEF StopInProgress

\* One step keeps the phases of the stop.
LEMMA StopInProgressStep ==
  ASSUME IInv, [Next]_vars
  PROVE  StopInProgress'
<1> USE PoolAssumption DEF IInv, flags, control, fates
<1>1. CASE UNCHANGED <<open, running, stop, ctl, call, barrier, wpc, queue, outcome>>
  BY <1>1, StopPhaseKept DEF Elements
<1>2. ASSUME NEW w \in Workers, WorkerTakes(w) PROVE StopInProgress'
  <2>1. /\ UNCHANGED <<open, running, stop, ctl, call, barrier, outcome>>
        /\ wpc' = [wpc EXCEPT ![w] = "apply"] /\ wpc[w] = "lock"
        /\ TakeBatch(w) /\ batch[w] = {} /\ w \in Threads
    BY <1>2 DEF WorkerTakes, LocalsMatch, Threads
  <2>2. Elements(queue') \subseteq Elements(queue)
    BY <2>1, TakeBatchSplits DEF Accounted
  <2> QED
    BY <2>1, <2>2, StopPhaseKept DEF TypeOK
<1>3. ASSUME NEW w \in Workers, WorkerExits(w) PROVE StopInProgress'
  <2>1. /\ UNCHANGED <<open, running, stop, ctl, call, barrier, outcome, queue>>
        /\ wpc' = [wpc EXCEPT ![w] = "exited"] /\ wpc[w] = "lock" /\ queue = <<>> /\ stop
    BY <1>3 DEF WorkerExits
  <2>2. Elements(queue') = {}
    BY <2>1 DEF Elements
  <2> QED
    BY <2>1, <2>2 DEF StopInProgress, TypeOK
<1>4. ASSUME NEW w \in Workers,
             WorkerFindsNothing(w) \/ WorkerBlocks(w) \/ WorkerApplies(w) \/ SpuriousWakeup(w)
      PROVE  StopInProgress'
  <2>1. /\ UNCHANGED <<open, running, stop, ctl, call, barrier, outcome, queue>>
        /\ wpc[w] \in {"lock", "block", "apply", "blocked"}
        /\ \E at \in {"lock", "block", "blocked"} : wpc' = [wpc EXCEPT ![w] = at]
    BY <1>4 DEF WorkerFindsNothing, WorkerBlocks, WorkerApplies, SpuriousWakeup
  <2> QED
    BY <2>1, StopPhaseKept DEF TypeOK, Elements
<1>5. ASSUME NEW c \in Callers, NEW o \in Observations, EnqueueChecks(c, o) \/ Ingest(c, o)
      PROVE  StopInProgress'
  <2>1. /\ UNCHANGED <<open, running, stop, ctl, call, barrier, wpc, queue>>
        /\ outcome[o] = "none"
        /\ \E answer \in {"pending", "Refused", "Ingested"} : outcome' = [outcome EXCEPT ![o] = answer]
    BY <1>5 DEF EnqueueChecks, Ingest
  <2> QED
    BY <2>1, StopPhaseKept DEF TypeOK, Elements
<1>6. ASSUME NEW c \in Callers, DrainTakes(c) PROVE StopInProgress'
  <2>1. /\ UNCHANGED <<open, running, stop, ctl, call, barrier, wpc, outcome>>
        /\ TakeBatch(c) /\ batch[c] = {} /\ c \in Threads
    BY <1>6 DEF DrainTakes, LocalsMatch, Threads
  <2>2. Elements(queue') \subseteq Elements(queue)
    BY <2>1, TakeBatchSplits DEF Accounted
  <2> QED
    BY <2>1, <2>2, StopPhaseKept
<1>7. ASSUME NEW c \in Callers, EnqueuePushes(c) PROVE StopInProgress'
  <2>1. /\ UNCHANGED <<open, running, stop, ctl, call, barrier, wpc>>
        /\ ctl \notin {"store", "notify", "join"} \/ \A o \in barrier : outcome[o] = "Queued"
    BY <1>7 DEF EnqueuePushes, StopInProgress
  <2>2. PICK o \in item[c] :
          \/ outcome' = [outcome EXCEPT ![o] = "DroppedQueueFull"] /\ UNCHANGED queue
          \/ queue' = Append(queue, o) /\ outcome' = [outcome EXCEPT ![o] = "Queued"]
    BY <1>7 DEF EnqueuePushes
  <2>3. o \in Observations /\ outcome[o] = "pending"
    BY DEF LocalsMatch, TypeOK
  <2>4. Elements(queue') \subseteq Elements(queue) \cup {o}
    BY <2>2, <2>3, AppendToQueue DEF Elements
  <2>5. \A p \in barrier : outcome[p] = "Queued" => outcome'[p] = "Queued"
    BY <2>2, <2>3 DEF TypeOK
  <2>6. CASE ctl \notin {"store", "notify", "join"}
    BY <2>1, <2>6 DEF StopInProgress
  <2>7. CASE \A p \in barrier : outcome[p] = "Queued"
    <3>1. barrier \cap Elements(queue') \subseteq Elements(queue)
      BY <2>3, <2>4, <2>7
    <3> QED
      BY <2>1, <2>5, <3>1, StopPhaseKept
  <2> QED
    BY <2>1, <2>6, <2>7
<1>8. ASSUME NEW c \in Callers, EnqueueNotifies(c) PROVE StopInProgress'
  <2>1. /\ UNCHANGED <<open, running, stop, ctl, call, barrier, queue, outcome>>
        /\ UNCHANGED wpc \/ \E w \in Workers : wpc[w] = "blocked" /\ wpc' = [wpc EXCEPT ![w] = "lock"]
    BY <1>8 DEF EnqueueNotifies, Blocked
  <2> QED
    BY <2>1, StopPhaseKept DEF TypeOK, Elements
<1>9. CASE Open \/ StartWorkers
  <2>1. /\ ctl = "idle" /\ ctl' = "idle" /\ StartThreads
        /\ \A w \in Workers : wpc[w] = "none" <=> ~running
        /\ running => Workers # {} /\ ~stop
        /\ \A w \in Workers : wpc[w] = "exited" => stop
    BY <1>9 DEF Open, StartWorkers, StopInProgress, TypeOK
  <2>2. CASE running \/ Workers = {}
    <3>1. UNCHANGED <<running, stop, wpc>>
      BY <2>1, <2>2 DEF StartThreads
    <3> QED
      BY <2>1, <3>1 DEF StopInProgress, TypeOK
  <2>3. CASE ~(running \/ Workers = {})
    <3>1. running' = TRUE /\ stop' = FALSE /\ wpc' = [w \in Workers |-> "lock"] /\ Workers # {}
      BY <2>1, <2>3 DEF StartThreads
    <3> QED
      BY <2>1, <3>1 DEF StopInProgress
  <2> QED
    BY <2>2, <2>3
<1>10. CASE StopWorkers \/ CloseBegins
  <2>1. /\ ctl = "idle" /\ ctl' = "store" /\ UNCHANGED <<running, stop, wpc, queue, outcome>>
        /\ barrier' \subseteq Elements(queue)
        /\ ~running => barrier' = {}
    BY <1>10 DEF StopWorkers, CloseBegins
  <2>2. call' = "close" => ~open'
    BY <1>10 DEF StopWorkers, CloseBegins
  <2>3. \A o \in barrier' : outcome'[o] = "Queued"
    BY <2>1 DEF Accounted
  <2>4. \A w \in Workers : wpc[w] # "exited"
    BY <2>1 DEF StopInProgress
  <2> QED
    BY <2>1, <2>2, <2>3, <2>4 DEF StopInProgress
<1>11. CASE StopStores
  <2>1. /\ ctl = "store" /\ ctl' = "notify" /\ stop' = TRUE
        /\ UNCHANGED <<open, running, wpc, queue, call, barrier, outcome>>
    BY <1>11 DEF StopStores
  <2>2. Elements(queue') = Elements(queue)
    BY <2>1 DEF Elements
  <2> QED
    BY <2>1, <2>2 DEF StopInProgress
<1>12. CASE StopNotifies
  <2>1. /\ ctl = "notify" /\ ctl' = "join"
        /\ wpc' = [w \in Workers |-> IF wpc[w] = "blocked" THEN "lock" ELSE wpc[w]]
        /\ UNCHANGED <<open, running, stop, queue, call, barrier, outcome>>
    BY <1>12 DEF StopNotifies
  <2>2. Elements(queue') = Elements(queue)
    BY <2>1 DEF Elements
  <2> QED
    BY <2>1, <2>2 DEF StopInProgress
<1>13. CASE StopJoins
  <2>1. /\ ctl = "join" /\ running' = FALSE /\ wpc' = [w \in Workers |-> "none"]
        /\ ctl' \in {"clear", "idle"}
        /\ ctl' = "clear" => call = "close"
        /\ UNCHANGED open
    BY <1>13 DEF StopJoins
  <2> QED
    BY <2>1 DEF StopInProgress
<1>14. CASE CloseLocks
  <2>1. /\ ctl = "clear" /\ ctl' = "clearQueue"
        /\ UNCHANGED <<open, running, stop, wpc>>
    BY <1>14 DEF CloseLocks
  <2> QED
    BY <2>1 DEF StopInProgress
<1>15. CASE CloseClears
  <2>1. /\ ctl = "clearQueue" /\ ctl' = "idle"
        /\ UNCHANGED <<open, running, stop, wpc>>
    BY <1>15 DEF CloseClears
  <2> QED
    BY <2>1 DEF StopInProgress
<1> QED
  BY <1>1, <1>2, <1>3, <1>4, <1>5, <1>6, <1>7, <1>8, <1>9, <1>10, <1>11, <1>12, <1>13, <1>14,
     <1>15
     DEF Next, vars, Worker, Returns, Stopping, StatsEnters, StatsLeaves, DrainApplies, Freeze

-----------------------------------------------------------------------------
\* The engine starts in it and no step leaves it.
LEMMA IInvInit == Init => IInv
<1> SUFFICES ASSUME Init PROVE IInv
  OBVIOUS
<1> USE PoolAssumption
<1>2. Elements(queue) = {} /\ Len(queue) = 0 /\ queue \in Seq(Observations)
  BY DEF Init, Elements
<1>1. TypeOK
  <2>1. wpc \in [Workers -> {"none", "lock", "block", "blocked", "apply", "exited"}]
    BY DEF Init
  <2>2. /\ cpc \in [Callers -> {"idle", "push", "notify", "drain", "stats"}]
        /\ item \in [Callers -> SUBSET Observations]
        /\ batch \in [Threads -> SUBSET Observations]
    BY DEF Init
  <2>3. /\ outcome \in [Observations -> {"none", "pending", "Refused", "DroppedQueueFull",
                                          "Queued", "Ingested"}]
        /\ applied \in [Observations -> Nat]
    BY DEF Init
  <2>4. calls \in 0 .. MaxCalls /\ opens \in 0 .. MaxOpens /\ wakeups \in 0 .. MaxSpurious
    BY DEF Init
  <2>5. Len(queue) <= MaxPending
    BY <1>2
  <2> QED
    BY <1>2, <2>1, <2>2, <2>3, <2>4, <2>5 DEF Init, TypeOK
<1>3. Accounted
  BY <1>2 DEF Init, Accounted
<1>4. LocalsMatch
  BY DEF Init, LocalsMatch, Threads
<1>5. MutexHeld
  BY DEF Init, MutexHeld
<1>6. StopInProgress
  BY DEF Init, StopInProgress
<1> QED
  BY <1>1, <1>3, <1>4, <1>5, <1>6 DEF IInv

\* Every step preserves the five conjuncts of the inductive invariant.
LEMMA IInvStep == IInv /\ [Next]_vars => IInv'
  BY TypeOKStep, AccountedStep, LocalsMatchStep, MutexHeldStep, StopInProgressStep DEF IInv

\* The inductive invariant holds always.
THEOREM PoolInvariant == Spec => []IInv
<1>1. Init => IInv
  BY IInvInit
<1>2. IInv /\ [Next]_vars => IInv'
  BY IInvStep
<1> QED
  BY <1>1, <1>2, PTL DEF Spec

\* The flags, threads, mutexes and the queue of the pool stay well formed:
\* no push of enqueue takes the queue past max_pending_observations.
THEOREM PoolTypeOK == Spec => []TypeOK
  BY PoolInvariant, PTL DEF IInv

\* queue_mutex and the engine mutex exclude: whoever waits, tests or clears
\* under one of them is its one holder, and close never runs inside stats.
THEOREM PoolMutualExclusion == Spec => []MutexHeld
  BY PoolInvariant, PTL DEF IInv

\* An observation that is accounted for is in exactly one place.
LEMMA OnePlace == TypeOK /\ Accounted => ExactlyOnePlace
<1> SUFFICES ASSUME TypeOK, Accounted, NEW o \in Observations
             PROVE  (IF o \in Elements(queue) THEN 1 ELSE 0)
                      + (IF o \in InBatch THEN 1 ELSE 0)
                      + applied[o]
                      + (IF o \in lost THEN 1 ELSE 0)
                    = IF outcome[o] \in {"Queued", "Ingested"} THEN 1 ELSE 0
  BY DEF ExactlyOnePlace, Accounted
<1>1. o \in InBatch <=> \E t \in Threads : o \in batch[t]
  BY DEF InBatch
<1>2. o \in Elements(queue) => outcome[o] = "Queued" /\ applied[o] = 0 /\ o \notin lost /\ o \notin InBatch
  BY <1>1 DEF Accounted
<1>3. o \in InBatch => outcome[o] = "Queued" /\ applied[o] = 0 /\ o \notin lost
  BY <1>1 DEF Accounted
<1>4. o \in lost => outcome[o] = "Queued" /\ applied[o] = 0
  BY DEF Accounted
<1>5. /\ applied[o] \in {0, 1}
      /\ applied[o] = 1 => outcome[o] \in {"Queued", "Ingested"}
      /\ outcome[o] = "Ingested" => applied[o] = 1
      /\ outcome[o] = "Queued" =>
           o \in Elements(queue) \/ o \in lost \/ applied[o] = 1 \/ o \in InBatch
  BY <1>1 DEF Accounted
<1> QED
  BY <1>2, <1>3, <1>4, <1>5

\* However the calls of enqueue, ingest, drain, open, close, start_workers and
\* stop_workers interleave with the workers, an observation answered Queued
\* is in the queue, in one batch, applied once or lost, and in one of these
\* places only; nothing refused is in any.
THEOREM PoolExactlyOnePlace == Spec => []ExactlyOnePlace
  BY PoolInvariant, OnePlace, PTL DEF IInv

\* When the join of stop_workers or close ends, what was queued when the call
\* began has been applied, taken by a concurrent drain, or lost by one.
THEOREM PoolCompletionBarrier == Spec => CompletionBarrier
<1>1. ASSUME IInv, [Next]_vars, ctl = "join", ctl' # "join", NEW o \in barrier
      PROVE  applied[o] = 1 \/ o \in lost \/ \E c \in Callers : o \in batch[c]
  <2>1. \A w \in Workers : wpc[w] \in {"none", "exited"}
    <3>1. StopJoins
      BY <1>1 DEF Next, vars, Worker, Returns, Stopping, WorkerTakes, WorkerExits,
                  WorkerFindsNothing, WorkerBlocks, WorkerApplies, SpuriousWakeup, EnqueueChecks,
                  Ingest, DrainTakes, StatsEnters, EnqueuePushes, EnqueueNotifies, DrainApplies,
                  StatsLeaves, Freeze, Open, StartWorkers, StopWorkers, CloseBegins, StopStores,
                  StopNotifies, CloseLocks, CloseClears, control
    <3> QED
      BY <3>1 DEF StopJoins
  <2>2. running /\ Workers # {} /\ outcome[o] = "Queued" /\ o \in Observations
    BY <1>1 DEF IInv, StopInProgress, TypeOK
  <2>3. \E w \in Workers : wpc[w] = "exited"
    BY <1>1, <2>1, <2>2 DEF IInv, StopInProgress
  <2>4. o \notin Elements(queue)
    BY <1>1, <2>3 DEF IInv, StopInProgress
  <2>5. \A w \in Workers : batch[w] = {}
    BY <1>1, <2>1 DEF IInv, LocalsMatch
  <2> QED
    BY <1>1, <2>2, <2>4, <2>5 DEF IInv, Accounted, Threads
<1>2. IInv /\ [Next]_vars =>
        [ctl = "join" /\ ctl' # "join" =>
           \A o \in barrier : \/ applied[o] = 1 \/ o \in lost
                              \/ \E c \in Callers : o \in batch[c]]_vars
  BY <1>1
<1> QED
  BY <1>2, PoolInvariant, PTL DEF Spec, CompletionBarrier

-----------------------------------------------------------------------------
\* The fate of an observation, read from where it is.
LEMMA FateIs ==
  ASSUME TypeOK, NEW o \in Observations
  PROVE  /\ applied[o] > 0 => Fate(o) = "applied"
         /\ applied[o] = 0 /\ o \in lost => Fate(o) = "lost"
         /\ applied[o] = 0 /\ o \notin lost =>
              /\ outcome[o] = "Refused" => Fate(o) = "refused"
              /\ outcome[o] = "DroppedQueueFull" => Fate(o) = "dropped"
              /\ outcome[o] = "Queued" => Fate(o) = "queued"
              /\ outcome[o] \in {"none", "pending", "Ingested"} => Fate(o) = "new"
  BY DEF Fate, TypeOK

\* The same after a step.
LEMMA FateIsNext ==
  ASSUME TypeOK', NEW o \in Observations
  PROVE  /\ applied'[o] > 0 => Fate(o)' = "applied"
         /\ applied'[o] = 0 /\ o \in lost' => Fate(o)' = "lost"
         /\ applied'[o] = 0 /\ o \notin lost' =>
              /\ outcome'[o] = "Refused" => Fate(o)' = "refused"
              /\ outcome'[o] = "DroppedQueueFull" => Fate(o)' = "dropped"
              /\ outcome'[o] = "Queued" => Fate(o)' = "queued"
              /\ outcome'[o] \in {"none", "pending", "Ingested"} => Fate(o)' = "new"
  BY DEF Fate, TypeOK

\* Observations that change their fate together are one step of the contract.
LEMMA FatesMove ==
  ASSUME NEW S \in SUBSET Observations, NEW from, NEW to, S # {}, UNCHANGED open,
         \A o \in S : Fate(o) = from /\ Fate(o)' = to,
         \A o \in Observations \ S : Fate(o)' = Fate(o)
  PROVE  Contract!Move(S, from, to)
  BY DEF Contract!Move

\* A step that moves no observation and does not touch admission stutters in the contract.
LEMMA FatesStay ==
  ASSUME UNCHANGED open, \A o \in Observations : Fate(o)' = Fate(o)
  PROVE  UNCHANGED <<open, [o \in Observations |-> Fate(o)]>>
  OBVIOUS

\* One answer is one step of the contract.
LEMMA OneAnswer ==
  ASSUME NEW o \in Observations, NEW fate \in {"refused", "dropped", "queued", "applied"},
         UNCHANGED open, Fate(o) = "new", Fate(o)' = fate,
         \A p \in Observations \ {o} : Fate(p)' = Fate(p)
  PROVE  Contract!Next
<1>1. Contract!Move({o}, "new", fate)
  BY FatesMove
<1> QED
  BY <1>1 DEF Contract!Next, Contract!Answer

\* Applying a batch is one step of the contract, or none when it is empty.
LEMMA BatchApplied ==
  ASSUME IInv, TypeOK', NEW t \in Threads, ApplyAll(batch[t]), UNCHANGED <<open, outcome, lost>>
  PROVE  [Contract!Next]_<<open, [o \in Observations |-> Fate(o)]>>
<1>1. batch[t] \in SUBSET Observations
  BY DEF IInv, TypeOK
<1>2. \A o \in batch[t] : outcome[o] = "Queued" /\ applied[o] = 0 /\ o \notin lost
  BY DEF IInv, Accounted
<1>3. \A o \in batch[t] : Fate(o) = "queued"
  BY <1>1, <1>2, FateIs DEF IInv
<1>4. \A o \in batch[t] : applied'[o] = 1
  BY <1>1, <1>2 DEF ApplyAll
<1>5. \A o \in batch[t] : Fate(o)' = "applied"
  BY <1>1, <1>4, FateIsNext
<1>6. \A o \in Observations \ batch[t] : Fate(o)' = Fate(o)
  BY DEF Fate, ApplyAll
<1>7. CASE batch[t] = {}
  BY <1>6, <1>7, FatesStay
<1>8. CASE batch[t] # {}
  <2>1. Contract!Move(batch[t], "queued", "applied")
    BY <1>1, <1>3, <1>5, <1>6, <1>8, FatesMove
  <2> QED
    BY <1>1, <2>1 DEF Contract!Next, Contract!Apply
<1> QED
  BY <1>7, <1>8

\* Discarding a batch, or the queue, of a closed engine is one too.
LEMMA AcceptedLost ==
  ASSUME IInv, TypeOK', NEW S \in SUBSET Observations, ~open, lost' = lost \cup S,
         \A o \in S : outcome[o] = "Queued" /\ applied[o] = 0 /\ o \notin lost,
         UNCHANGED <<open, outcome, applied>>
  PROVE  [Contract!Next]_<<open, [o \in Observations |-> Fate(o)]>>
<1>1. \A o \in S : Fate(o) = "queued"
  BY FateIs DEF IInv
<1>2. \A o \in S : Fate(o)' = "lost"
  BY FateIsNext
<1>3. \A o \in Observations \ S : Fate(o)' = Fate(o)
  BY DEF Fate
<1>4. CASE S = {}
  BY <1>3, <1>4, FatesStay
<1>5. CASE S # {}
  <2>1. Contract!Move(S, "queued", "lost")
    BY <1>1, <1>2, <1>3, <1>5, FatesMove
  <2> QED
    BY <2>1 DEF Contract!Next, Contract!Lose
<1> QED
  BY <1>4, <1>5

\* Every step of the pool is a step of the contract, or changes nothing of it.
LEMMA ContractStep ==
  ASSUME IInv, TypeOK', [Next]_vars
  PROVE  [Contract!Next]_<<open, [o \in Observations |-> Fate(o)]>>
<1> DEFINE Goal == [Contract!Next]_<<open, [o \in Observations |-> Fate(o)]>>
<1> USE DEF IInv
<1>1. ASSUME UNCHANGED <<open, fates>> PROVE Goal
  BY <1>1 DEF Fate, fates
<1>2. ASSUME NEW w \in Workers, WorkerApplies(w) PROVE Goal
  <2>1. w \in Threads /\ ApplyAll(batch[w]) /\ UNCHANGED <<open, outcome, lost>>
    BY <1>2 DEF WorkerApplies, Threads, flags
  <2> QED
    BY <2>1, BatchApplied
<1>3. ASSUME NEW c \in Callers, NEW o \in Observations, EnqueueChecks(c, o) PROVE Goal
  <2>1. outcome[o] = "none" /\ UNCHANGED <<open, applied, lost>>
    BY <1>3 DEF EnqueueChecks, flags
  <2>2. o \notin lost /\ applied[o] = 0
    BY <2>1 DEF Accounted
  <2>3. PICK answer \in {"pending", "Refused"} : outcome' = [outcome EXCEPT ![o] = answer]
    <3>1. CASE open /\ ~frozen
      BY <1>3, <3>1 DEF EnqueueChecks
    <3>2. CASE ~(open /\ ~frozen)
      BY <1>3, <3>2 DEF EnqueueChecks
    <3> QED
      BY <3>1, <3>2
  <2>4. \A p \in Observations \ {o} : Fate(p)' = Fate(p)
    BY <2>1, <2>3 DEF Fate, TypeOK
  <2>5. outcome'[o] = answer
    BY <2>3 DEF TypeOK
  <2>6. Fate(o) = "new"
    BY <2>1, <2>2, FateIs
  <2>7. CASE answer = "pending"
    <3>1. Fate(o)' = "new"
      BY <2>1, <2>2, <2>5, <2>7, FateIsNext
    <3> QED
      BY <2>1, <2>4, <2>6, <3>1, FatesStay
  <2>8. CASE answer = "Refused"
    <3>1. Fate(o)' = "refused"
      BY <2>1, <2>2, <2>5, <2>8, FateIsNext
    <3> QED
      BY <2>1, <2>4, <2>6, <3>1, OneAnswer
  <2> QED
    BY <2>7, <2>8
<1>4. ASSUME NEW c \in Callers, NEW o \in Observations, Ingest(c, o) PROVE Goal
  <2>1. outcome[o] = "none" /\ UNCHANGED <<open, lost>>
    BY <1>4 DEF Ingest, flags
  <2>2. o \notin lost /\ applied[o] = 0
    BY <2>1 DEF Accounted
  <2>3. Fate(o) = "new"
    BY <2>1, <2>2, FateIs
  <2>4. CASE open /\ ~frozen
    <3>1. outcome' = [outcome EXCEPT ![o] = "Ingested"] /\ ApplyAll({o})
      BY <1>4, <2>4 DEF Ingest
    <3>2. applied'[o] = 1
      BY <2>2, <3>1 DEF ApplyAll
    <3>3. Fate(o)' = "applied"
      BY <3>2, FateIsNext
    <3>4. \A p \in Observations \ {o} : Fate(p)' = Fate(p)
      BY <2>1, <3>1 DEF Fate, ApplyAll, TypeOK
    <3> QED
      BY <2>1, <2>3, <3>3, <3>4, OneAnswer
  <2>5. CASE ~(open /\ ~frozen)
    <3>1. outcome' = [outcome EXCEPT ![o] = "Refused"] /\ UNCHANGED applied
      BY <1>4, <2>5 DEF Ingest
    <3>2. outcome'[o] = "Refused"
      BY <3>1 DEF TypeOK
    <3>3. Fate(o)' = "refused"
      BY <2>1, <2>2, <3>1, <3>2, FateIsNext
    <3>4. \A p \in Observations \ {o} : Fate(p)' = Fate(p)
      BY <2>1, <3>1 DEF Fate, TypeOK
    <3> QED
      BY <2>1, <2>3, <3>3, <3>4, OneAnswer
  <2> QED
    BY <2>4, <2>5
<1>5. ASSUME NEW c \in Callers, EnqueuePushes(c) PROVE Goal
  <2>1. PICK o \in item[c], answer \in {"DroppedQueueFull", "Queued"} :
          outcome' = [outcome EXCEPT ![o] = answer]
    BY <1>5 DEF EnqueuePushes
  <2>2. /\ o \in Observations /\ outcome[o] = "pending"
        /\ UNCHANGED <<open, applied, lost>>
    BY <1>5 DEF EnqueuePushes, LocalsMatch, TypeOK, flags
  <2>3. o \notin lost /\ applied[o] = 0 /\ outcome'[o] = answer
    BY <2>1, <2>2 DEF Accounted, TypeOK
  <2>4. Fate(o) = "new"
    BY <2>2, <2>3, FateIs
  <2>5. \E fate \in {"dropped", "queued"} : Fate(o)' = fate
    BY <2>2, <2>3, FateIsNext
  <2>6. \A p \in Observations \ {o} : Fate(p)' = Fate(p)
    BY <2>1, <2>2 DEF Fate, TypeOK
  <2> QED
    BY <2>2, <2>4, <2>5, <2>6, OneAnswer
<1>6. ASSUME NEW c \in Callers, DrainApplies(c) PROVE Goal
  <2>1. c \in Threads /\ UNCHANGED <<open, outcome>>
    BY <1>6 DEF DrainApplies, Threads, flags
  <2>2. CASE open
    <3>1. ApplyAll(batch[c]) /\ UNCHANGED lost
      BY <1>6, <2>2 DEF DrainApplies
    <3> QED
      BY <2>1, <3>1, BatchApplied
  <2>3. CASE ~open
    <3>1. lost' = lost \cup batch[c] /\ UNCHANGED applied
      BY <1>6, <2>3 DEF DrainApplies
    <3>2. batch[c] \in SUBSET Observations
      BY <2>1 DEF TypeOK
    <3>3. \A o \in batch[c] : outcome[o] = "Queued" /\ applied[o] = 0 /\ o \notin lost
      BY <2>1 DEF Accounted
    <3> QED
      BY <2>1, <2>3, <3>1, <3>2, <3>3, AcceptedLost
  <2> QED
    BY <2>2, <2>3
<1>7. ASSUME Open \/ CloseBegins PROVE Goal
  <2>1. open' = ~open /\ UNCHANGED fates
    BY <1>7 DEF Open, CloseBegins
  <2>2. UNCHANGED [o \in Observations |-> Fate(o)]
    BY <2>1 DEF Fate, fates
  <2> QED
    BY <2>1, <2>2 DEF Contract!Next, Contract!OpenOrClose
<1>8. ASSUME CloseClears PROVE Goal
  <2>1. ~open /\ lost' = lost \cup Elements(queue) /\ UNCHANGED <<open, outcome, applied>>
    BY <1>8 DEF CloseClears, StopInProgress, flags
  <2>2. Elements(queue) \in SUBSET Observations
    BY QueueElements
  <2>3. \A o \in Elements(queue) : outcome[o] = "Queued" /\ applied[o] = 0 /\ o \notin lost
    BY DEF Accounted
  <2> QED
    BY <2>1, <2>2, <2>3, AcceptedLost
<1> HIDE DEF Goal
<1> QED
  <2>1. Goal
    BY <1>1, <1>2, <1>3, <1>4, <1>5, <1>6, <1>7, <1>8
       DEF Next, vars, Worker, Returns, Stopping, flags, fates, WorkerTakes, WorkerExits,
           WorkerFindsNothing, WorkerBlocks, SpuriousWakeup, DrainTakes, StatsEnters,
           EnqueueNotifies, StatsLeaves, Freeze, StartWorkers, StopWorkers, StopStores,
           StopNotifies, StopJoins, CloseLocks
  <2> QED
    BY <2>1 DEF Goal

\* The pool implements the contract of the ingest paths: each observation is
\* answered once, a refused or dropped one is never applied, an accepted one
\* is applied at most once, and it is lost only while the engine is closed.
THEOREM PoolImplementsContract == Spec => ImplementsContract
<1>1. Init => Contract!Init
  BY DEF Init, Contract!Init, Fate
<1>2. IInv /\ TypeOK' /\ [Next]_vars => [Contract!Next]_<<open, [o \in Observations |-> Fate(o)]>>
  BY ContractStep
<1>3. IInv => TypeOK
  BY DEF IInv
<1> QED
  BY <1>1, <1>2, <1>3, PoolInvariant, PTL DEF Spec, ImplementsContract, Contract!Spec
=============================================================================
