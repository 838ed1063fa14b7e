# A TLA+ verification of Flow Observatory

Flow Observatory is a C++ library that turns observations of network flows
(counter readings, opens, closes, errors), delivered by several sources in any
order and more than once, into a bounded, explainable view of every flow: how
much it carried, what state it is in and who says so. This directory models the
parts of it whose correctness depends on order, repetition, concurrency and
failure, checks them with TLC and proves the central ones with TLAPS.

Paths below are relative to the repository's root.

## 1. The system

| Component | State | Operations | Interaction |
| --- | --- | --- | --- |
| Cumulative counters (`counters.cpp`) | baseline, last reading, accumulated units, unknown intervals, saturation flag | `observe`, `start_new_interval`, `seed` | one per direction and unit inside a fold |
| Source ledger (`reconcile.cpp`) | retained entries in canonical order, folded prefix, fence and duplicate window | `insert`, `folded_state`, `seed`, `fold_source_view` | one per (flow, generation, source); called by `apply_locked`, persisted by `persist_source` |
| Freshness, reconciliation, lifecycle decision (`reconcile.cpp`) | none (pure) | `classify_freshness`, `reconcile_generation`, `decide_generation_state` | called by `recompute_flow` over the cached folds |
| Engine (`engine.cpp`, `engine_api.cpp`) | flows, generations, bindings with cached folds, sources, identity registries, runtime epoch, flags | `ingest`, `submit`, `tick`, `register_source`, `retire_source`, `query`, `attribute`, `compact`, `load_snapshot` | one shared mutex; appends to the journal before it applies |
| Ingest queue and workers (`engine_api.cpp`, `engine.cpp`) | bounded queue, worker threads, stop flag, condition variable | `enqueue`, `drain`, `start_workers`, `stop_workers`, `open`, `close`, `freeze`, `stats` | queue mutex and engine mutex; workers apply batches |
| Journal (`persistence.cpp`) | file handle, size, header epoch, dirty flag, advisory lock | `open`, `append`, `flush`, `read_all`, `rewrite`, `close` | append-only log of observations with snapshot groups; replaced by compaction |
| State codec (`persistence.cpp`, `obs_codec.cpp`, `binary.hpp`) | none (pure) | `encode_state`, `decode_state`, `replay_records`, writers and readers | what compaction, `save_snapshot`, `load_snapshot` and `open` put into files and take out of them |
| Attribution (`attribution.cpp`) | none (pure) | `distribute`, `attribute_generation` | reads a reconciled generation |
| History ring (`history.cpp`) | bounded events, head, dropped count | `push`, `set_capacity`, `to_vector`, `tail` | one per flow, written by `transition` |
| Identity registries (`engine_impl.hpp`) | identity to canonical key | `observe` | consulted by `apply_locked` before evidence is recorded |
| Lock-order audit (`lockorder.cpp`) | thread-local rank stack | `enter`, `leave` | wraps every acquisition |
| Transport (`transport.cpp`) | listener, pending and active connections, handler threads, stop flag | `start`, `serve`, `stop`, `join`, framing, dispatch | calls the engine |
| Policies, limits, text protocol, export, statistics, `foctl` | none or configuration | parsing, hashing, formatting, validation | around the above |

What is hard here:

* *Order and repetition.* A source's evidence arrives reordered and duplicated,
  is folded away at a capacity, and may arrive again after it was folded.
* *Restarts of sources and of the runtime.* A new incarnation or epoch of a
  source must never be bridged; a snapshot must stand for the evidence behind it.
* *Threads.* Callers, workers and the thread that closes the engine meet on two
  mutexes, a condition variable and an atomic flag.
* *Crashes.* Between a write, its sync, a rename and the next append.
* *Limits.* Full tables evict, refuse or leave half a step behind; writers and
  readers of the durable state test different bounds.
* *Words.* Sums and products of 64-bit totals saturate and still have to split
  exactly.

What makes each component correct: the accounting is that of the accepted
evidence in canonical order, no key counts twice, nothing is applied out of
order (ledger); every accepted observation is applied exactly once, stopping is
a completion barrier and terminates (pool); recovery restores an ordered prefix
of what was appended with everything flushed in it, under one writer and a rising
epoch (journal); a state is never live without fresh, reconfirmed evidence and a
terminal generation is never reopened (lifecycle); the tables agree with one
another whatever was evicted, refused or late, and only finished work is evicted
(flow table); the ring holds the newest transitions and they explain every state
(history); what was written reads back, a damaged group is refused and a restart
restores what the journal covers (snapshots); shares sum to the total and what is
published was measured by a trusted source (attribution); `stop` and `join` return (transport). `PROJECT.json` lists the
places where these are at risk under `hazards`.

## 2. The modules

| Module | Models | Extends or instantiates |
| --- | --- | --- |
| `Counters` | `CounterAccumulator` as a record and its operations as operators | |
| `SourceLedger` | `insert`, `apply_observation`, `fold_mark`, `fold_contains`, the view and the snapshot round trip, as operators on a ledger record | `Counters` |
| `Ledger` | one ledger in one run of the engine: action `Deliver` is one call of `insert` | `SourceLedger` |
| `LedgerRestart` | the same ledger through snapshots: action `Restart` | `Ledger` |
| `IngestContract` | what the ingest paths promise of each observation | |
| `WorkerPool` | the queue, the workers, the callers and the controlling thread | instantiates `IngestContract` |
| `Journal` | the journal file, compaction, recovery, crashes, faults, a second runtime | |
| `Reconcile` | `classify_freshness`, the fold of a source's evidence, `reconcile_generation`'s conflict and `decide_generation_state`, as operators | |
| `Lifecycle` | one generation of one flow with its sources: ingest, registration, retirement, ticks, compaction, restart | `Reconcile` |
| `Transport` | the serve loop, the handlers, the clients and the thread that stops the server | |
| `History` | `HistoryRing` as a record and its operations as operators | |
| `FlowTable` | the tables of flows, generations, sources and endpoint identities: `apply_locked` with validation, evictions and refusals, `tick`, `retire_source`, `query`, the two steps of `attribute_current` | `History` |
| `Attribution` | `reconcile_generation`'s totals and correlation, the refusals of `attribute_generation`, `distribute` step by step | `Reconcile` |
| `StateCodec` | writers, readers, `encode_state`, `decode_state` and `replay_records` over token sequences | |
| `Snapshot` | what of an engine is durable: registration, ingest, retirement, compaction, `save_snapshot`, `load_snapshot`, restart | `StateCodec` |
| `LedgerProofs` | theorems about `Ledger` and `LedgerRestart` | `LedgerRestart`, `ProofLemmas` |
| `WorkerPoolProofs` | theorems about `WorkerPool`, the refinement among them | `WorkerPool` |
| `TransportProofs`, `JournalProofs`, `FlowTableProofs`, `SnapshotProofs` | theorems about the module of that name | that module, `ProofLemmas` |
| `ReconcileProofs` | theorems about `Lifecycle` and about `Attribution`, which extend `Reconcile` | both, `ProofLemmas` |
| `ProofLemmas` | numbers and finite sets: least and greatest elements, minimal subsets, induction over subsets, sums | |
| `MC...` | evidence sets, hash functions and symmetry for TLC | the modules they are named after |

### The ledger

A ledger is a record `[entries, prefix, mark, folded]`. `entries` is a set: the
code keeps a vector sorted by a total order with distinct keys, so the order is a
function of the set, and folds take `Lowest` of it. `prefix` is the `FoldState`
of what has been folded; `mark` is the folded region's highest key with the
64-wide window over the sequence numbers of its incarnation and epoch, whose
bits are the set of their positions. `InsertKind` is the decision of `insert`
(`Duplicate` or `Refused` inside the folded region, otherwise by key and
digest), `Insert` its effect, the folding of the one entry too many included.
`FoldAll` folds a set in canonical order, as `folded_state` and
`fold_source_view` do. `Restore` is `persist_source` followed by
`restore_locked`.

One counter stands for bytes, packets and retransmissions, which run three
copies of the same code over the same observation; `path` stands for the
correlation fields. Both abstractions drop no control: every branch of
`apply_observation` is taken by the one counter as it would be by each.

The variables besides `ledger` are history: what was folded, what was delivered,
and the answer of the last call.

### The worker pool

A critical section that takes one mutex and blocks on nothing is one action. The
places where a thread holds a mutex and waits are actions of their own: a worker
between the test of its wait predicate and the wait (`WorkerFindsNothing`, then
`WorkerBlocks`), `stats` between the two mutexes, `close` between the engine
mutex and the queue. `stop_workers_locked` is three actions (store, notify,
join), because it holds neither mutex. `applied` counts applications of each
observation, `lost` collects what `drain` and `close` discard.

### The journal

A file is a header and a sequence of cells: an observation record, a snapshot
group, or a fragment. A cell's bytes are not modelled; a complete cell passes its
checksum and a fragment does not. `Survivors` says what a crash may leave: what
was synced and any prefix of the rest, which may end in a fragment. `ReadAll` is
the set of answers of `read_all` followed by `replay_records`; bytes behind a
fragment are misread, as a torn tail or as corruption. `size` is the code's own
bookkeeping and may differ from `Bytes` of the file. The advisory lock belongs to
an inode.

### The lifecycle

`Decide` is `decide_generation_state` branch by branch: a terminal state stands,
an unresolved conflict of usable equals comes before a declaration, a declaration
of an entitled source before anything about freshness, and only then liveness.
`Usable`, `Fresh` and `Entitled` are the code's predicates over the bindings.
A binding's `view` is the cached fold. Every call that invalidates it ends in
`recompute_flow`, which computes it again, so between calls the cache is valid
and what can go wrong is that a call changes the evidence and does not
invalidate it; `Settles`, the conflicting copy, is such a call.

Only freshness `Fresh` is told from the rest, because nothing depends on the
other three; evidence of one incarnation and epoch with rising readings stands
for what `Ledger` models in full. `ReconciliationPolicy::method` selects a number
to report and no state. `clamp_future_timestamps` is on and the expiry window of
freshness plays no part.

`Compact` writes `[gen, sources, evidence]` of the runtime and empties the log;
`Restart` is `restore_locked`: descriptors, bindings with their fence, replay of
the log in its order at the instants of receipt through the same `ApplyLocked`,
and a last decision at the current instant.

### The transport

The threads are the one in `serve`, the handlers (as many as `max_connections`),
the clients and the thread that calls `stop` and `join`; in `foctl` the last is
the first, after `serve` has returned. `pending` and `active` hold descriptors as
in the code, and a descriptor is given out again once it is closed, because
`handle_connection` closes its descriptor first and then removes *every* equal
one from `active`. The condition variable is one action (test and block) here,
unlike in the pool: `stop` takes the mutex between the flag and the notification,
so a handler cannot be caught between test and wait. All requests to the engine
are one message that is answered or whose reply cannot be sent; `Bye` and
`Bye shutdown` are the others. Closing the listener does not wake a thread in
`accept` on every system; `AcceptFails` is therefore possible and not fair.

### The flow table and its history

A flow is a record with its key, current generation, state, time of the last
touch, generations with their bound sources, and the ring. `Ingest` is the
disjunction of the ways `apply_locked` can end, in the order of the code:
no room for the flow, a flow key that collides, an endpoint registry that
collides or is full, a skewed timestamp, no room for the generation or for the
binding, and the observation recorded. Each way keeps what was done before the
return: a flow created for an observation that is then refused stays. What a generation decides is `Lifecycle`'s subject;
here `PossibleDecisions` chooses any decision that respects a terminal state, so
the tables are checked against every policy. `IdOf` and `NameId` are arbitrary
functions from keys to identities, so that keys collide. `pushed` is history:
every transition a flow ever made, against which the ring is compared.

`AskCurrent` and `AnswerCurrent` are the two critical sections of
`attribute_current`. `Page` is the result of `query` on the tables as they are;
the loop over the map of flows meets them `InOrder` of their identities.

### Attribution

One request is a behaviour: `Reconciled` builds the view from the bindings,
`Refused` is the first refusal that applies, and otherwise `Scale`, `TakeBack`,
`GiveOne`, `Settled` and `Report` are the loops of `distribute` and the report.
`AInit`, `ANext` and `ASpec` are its specification, named so that one module can
speak of it and of `Lifecycle`'s. `MaxWord` is the largest value of a word, and every addition, product and wrap is
the code's for a word of that size. `First` is the source that `sort_source_views`
puts before a set of others; `Merged` lists each resource once, in the order in
which the loops of the code meet it. The branch of the code that splits equally when the weights sum to
zero is unreachable (a zero capacity is refused before) and left out.

### The state codec and snapshots

A payload is a sequence of tokens, one for each scalar or string; a list is its
length and its items. The writers are spelled out. A reader is a function from the
positions of a payload to what a read from there comes to: the position behind the
field and its value, or a failure. `Struct` puts the fields of a record behind one
another and `ListAt` repeats one, with the bound the code tests, so what the readers
test and the writers do not is visible side by side. Fields that are written and
read back without a test are represented by one of their kind. The group digest is
taken as perfect, record checksums hold, and the size of a group is within bounds.

In `Snapshot` sources deliver in order and once, evidence neither regresses nor runs
ahead of the clock, and nothing is terminal or
evicted, which the other modules cover; what remains is who writes what into the
journal. What `recompute_flow` decides depends on the clock: `Settled` leaves it open
which generations change their state, and how often, wherever the code calls it
(behind evidence, a retirement, a restore), so the ring of transitions a snapshot
carries is any it could be. A tick does that and nothing else and is left out. The
endpoint registry is bounded as in `observe` (`src/engine_impl.hpp:117`) and empty
after a restart, so what it refuses live a replay may accept. `UnregisteredKey` is the key made up for a source that is known by its
evidence alone (`src/engine.cpp:892`); it is persisted and nothing measures it before
a reader does. `covered` is history: it is true while everything in memory is also in
the journal and nothing was refused for what only the registry of this process
holds. `Restart` replays the journal from nothing and `Load` reads the
snapshot file, or what may have become of it (`Damaged`).

## 3. The runs

Every run is listed in `PROJECT.json` with its properties. Passing runs:

* `ledger`: eight observations (an advancing and a regressing counter, a second
  epoch, a second incarnation whose revisions start again, two copies of one
  key, a `Close` with evidence around it) in every order with repetitions,
  capacity 2, window 2, counters saturating at 4. Shows that the view's units
  and unknown intervals are those of a reference definition that knows nothing
  of folding, that the whole view is the fold of the accepted evidence as if
  nothing had ever been folded, that nothing counts twice or out of order, that
  before the first fold the order of arrival is irrelevant, and that evidence
  above all that was accepted is neither refused nor taken for a repetition. The
  sequence numbers leave the window, so all this is checked with wrong bits in it
  as well; what the wrong bits do break is `DuplicateIsExact`, below. The counter
  policy is the default one, which the folded prefix always uses.
* `ledger_restart`: two incarnations and up to two snapshots anywhere.
* `pool`: two workers, two callers, three observations, a queue of two, batches of
  two, two opens. Three observations overflow the queue and split into two
  batches. Includes the refinement of `IngestContract`.
* `pool_live`: the two liveness properties, with a spurious wakeup.
* `journal`: three observations, a bound of four units, snapshots of up to three
  units (so that one can be too big), two crashes, one fault, three epochs.
* `lifecycle`: two sources of equal authority, one entitled to complete and one
  to reset, which may also send evidence unregistered; readings that disagree by
  more than the tolerance; a clock of three instants with a fresh window and an
  idle threshold of none and expiry after one, so that a generation can be Active,
  Idle, stale and Expired in turn, and its sources stale at different instants; one retirement (of the source that may complete), one compaction, one restart. What
  this does not cover: more than two observations behind one snapshot, and two
  contents of one key or two descriptors of one source, for which see
  `CacheIsCurrent` below.
* `transport`: three clients and two handlers, so that a connection is refused at
  the limit and descriptors are reused while their old number is still listed.
* `transport_live`: two clients and two handlers. `RequestIsAnswered` leaves out
  the states where a connection in service has fallen off the active list
  (`Tracked` is false): then the limit admits one connection too many, which
  waits until a client leaves.

* `flowtable`: four flow keys over three identities and four endpoint names of
  which two collide, three sources of which one may retire, tables of two flows,
  two generations, two sources, one source per generation and two events, so that
  every table overflows and every refusal happens; two instants, four transitions.
* `attribution`: 4-bit words. One source with every total, up to three hops and
  weights that saturate products and their sum; two sources of every mix of
  authority, age, advice and reconfirmation under three reconciliation methods.
  Every behaviour of a request is finite and none is cut short.
* `snapshot`: two sources, two flows and two generations, readers' bounds of one
  link, one queue, one event and one anomaly, a peer registry of two, four
  observations and a journal of three; two restarts and two calls of retire, compact,
  save and load at any moment. The evidence merges links and queues beyond the bounds,
  makes peer keys collide and names more peers than the registry takes, and one source
  nobody registered has a made-up key that is too long. What is written reads back, or
  is refused for one of four reasons: the merged links or queues of a generation, the
  text of an anomaly, or that key. A restart brings back the sources, the accounting
  and the anomalies, but not the transitions, which a replay decides anew. Four
  observations are enough for every way a restart can find the journal: a source
  before and behind the evidence, a group with evidence behind it, the observation
  that is one too many, and a registry that is full live, in the replay, or in both.
  The second restart finds a registry and a ring that a replay left.

| Run with a violation | What it shows |
| --- | --- |
| `pool_stop` | a lost wakeup keeps `stop_workers` waiting for ever; `findings` in `PROJECT.json` quotes the document it contradicts |

### Further configurations

Six configurations exhibit a disagreement between the code and a document or
comment. They are not among the listed runs; TLC reports the violation of the one
property each names.

| Configuration | Property | What it shows |
| --- | --- | --- |
| `MCLedger_window.cfg` | `DuplicateIsExact` | when a sequence number passes the end of the duplicate window `fold_mark` shifts the bits away from the new low end and marks the number at bit 0 (`src/reconcile.cpp:169`), so evidence that was never accepted is answered `Duplicate`: a window of two, a capacity of one, five consecutive numbers. `docs/architecture.md:86-87`: a late copy is "either recognised exactly (when it lands in the 64-wide dedupe window over the source sequence) or refused". |
| `MCLifecycle_conflict.cfg` | `CacheIsCurrent` | a conflicting copy with the smaller digest replaces the retained one and the cached fold is not invalidated (`src/engine.cpp:1078`), so the view is that of the copy that arrived first. `docs/semantics.md:48-50`: "which copy wins does not depend on which arrived first". |
| `MCJournal_torn.cfg` | `FlushedSurvives` | `Journal::open` appends behind the fragment a torn write left (`src/persistence.cpp:895`); the next open stops at the fragment and the records flushed since are lost. `docs/persistence.md:75`: "torn tail: dropped when `TruncateTornTail`, refused otherwise". |
| `MCLifecycle_lost.cfg` | `EvidenceSurvivesRestart` | `restore_locked` fences a restored ledger at the persisted high-water mark (`src/engine.cpp:1293`); lower evidence accepted after the compaction and journalled behind it is refused by the replay. `docs/semantics.md:117-119`: "every accepted observation is rebuilt"; `README.md:120-122`: "a recovered view is the view the previous run computed". |
| `MCTransport_join.cfg` | `StopReleasesJoin` | a connection pushed behind `stop` (`src/transport.cpp:892`) is not shut down and keeps `join` waiting for its client. `docs/concurrency.md:68-71`: `stop` "shuts down every active connection socket, which makes the blocking reads in the connection handlers return". |
| `MCSnapshot_unreadable.cfg` | `EncodedIsReadable` | `encode_state` tests no bound of a field; links or queues merged from several sources, the text of a collision, or a made-up key, make a snapshot the engine wrote unreadable (`src/persistence.cpp:496`). `include/flowobs/persistence.hpp:293-294`: "refuses when the encoded size would exceed `limits.max_journal_bytes / 2` or any per-field bound". |

### Disagreements without a run of their own

The models contain the following behaviour of the code, the properties above are
stated so as to leave room for it, and no run singles it out:

* `rewrite` reopens the new journal without its advisory lock
  (`src/persistence.cpp:1170`), so after a compaction a second runtime can open it
  (the comment at `src/persistence.cpp:69-72` says it is refused).
* `Server::join` never waits for the serve loop: the accept thread it would join is
  never started, `start_background` only calls `start`
  (`include/flowobs/transport.hpp:148-151`).
* A descriptor reused before it is erased from the active list is erased with its
  predecessor; the connection is then neither counted against the limit
  (`src/transport.cpp:896-897`) nor shut down by `stop`.
* With `allow_writes` off only `Ingest` is refused, `Tick` is not
  (`include/flowobs/transport.hpp:97`).
* `insert` folds the prefix under the default counter policy (`set_counter_policy`
  has no caller), the retained entries are folded under the configured one; with
  `treat_regression_as_reset` off the capacity changes the accounting
  (`docs/architecture.md:81`).
* Evidence below the fence is refused, so at a small capacity arrival order does
  change the accounting (`docs/architecture.md:82`).
* A restored fence mixes the last incarnation with the high-water marks of earlier
  ones and can refuse new evidence (`src/engine.cpp:1288-1295`).
* A snapshot records no correlation fields of a source, and restores the baseline
  of an open interval, so it is not the gap `docs/semantics.md:117-119` calls it.
* `enqueue` checks `open` before it pushes; a push that falls behind the join of
  `close` is cleared uncounted (`docs/architecture.md:110`). `IngestContract` has
  the fate `lost` for it.
* `drain` does not look at the frozen flag (`include/flowobs/engine.hpp:251-252`).
* The size bookkeeping of a new journal leaves out its header, so the file can
  outgrow `max_journal_bytes` (`docs/persistence.md:85`).
* A generation whose only source is retired while it is Active stays Active through
  ticks and restarts; with expiry disabled a generation restored as Active does
  too (`src/engine.cpp:1358-1361` says restored generations are never Active).
* A generation whose progressing source is gone (retired, or voided by an earlier
  declaration that arrived late) while the others are stale has no progress to
  measure the idle threshold from: it stays Active until `expire_after`
  (`src/reconcile.cpp:1188-1198`; the comment at `src/reconcile.cpp:1127-1130` says
  liveness requires fresh evidence). `TickDeniesStaleLiveness` leaves room for it.
* A source that was retired before a compaction and is registered again is treated
  as an update and not journalled; after a restart it is unregistered, and a
  completion it declared is reopened.
* Ticks are not journalled, so an expiry they caused is not rebuilt, and the
  replayed history need not be "the history the previous run computed"
  (`docs/persistence.md:58-60`).

Flow table and identities:

* An observation refused after its flow was created (`src/engine.cpp:953`) leaves
  an empty flow in state Unknown that is never evicted.
* An identity collision sets the flow to Conflicting (`src/engine.cpp:945`) while
  its generation may be terminal; the flow is then not evictable until it is
  recomputed. `CurrentIsNewest` leaves room for it.
* The endpoint registry is bounded by `max_flows` and never shrinks, evictions
  included (`src/engine_impl.hpp:117`).
* The engine does not prove that every claimed identity matches its key, as
  `docs/architecture.md:59-60` says: the identity of the peer endpoint is never
  compared with its key, so two keys may claim it. `Collides` is that case.
* Evidence for a generation that was evicted creates it again, and its terminal
  state with it is forgotten. `HistoryExplainsState` leaves room for it.
* `HistoryRing::set_capacity(0)` drops the events without counting them.

Attribution:

* Where a product overflows, the hop has no remainder and what is missing goes to
  the hops unit by unit from index 0, which is not the largest-remainder rule of
  `docs/semantics.md:142-144`; the loop then takes as many steps as units are
  missing.
* The published denominator is a plain sum and wraps, while the weights it stands
  for were added with saturation.
* Without a usable source the freshness of the generation is that of its first
  dated source, so one that is advisory or not reconfirmed makes a generation
  Fresh (`include/flowobs/attribution.hpp:8-10`, `docs/semantics.md:147-149`).
  `PublishesTrustedTotals` names this case.
* A report refused with `LimitExceeded` still carries its targets and shares, the
  hop capacities of one source are applied to the links of all, and the two
  endpoint targets may be the same one (`docs/semantics.md:140`).

Snapshots and the journal's content:

* `retire_source`, the registration of a source that is already known, and
  `load_snapshot` are not journalled (`src/engine_api.cpp:219-223`, `:263`), so a
  restart undoes them. It even applies observations that were refused live
  because their source was retired: they are journalled before that test
  (`src/engine.cpp:870`), as are duplicates, which therefore grow the journal.
* A source that became known by its evidence has the key `unregistered:...` and
  can never be registered: `register_source` finds another key
  (`src/engine_api.cpp:216`).
* Registering a known source again changes its authority and leaves the folds
  cached under the old descriptor (`src/engine_api.cpp:223`).
* More observations than `max_ingest_records` since the last compaction make the
  journal unreadable for the next start (`src/persistence.cpp:1458`), and so does
  an endpoint, path, queue or link key longer than its reader allows: validation
  measures the flow key only.
* `load_snapshot` clears the tables before it looks at the records
  (`src/engine_api.cpp:676`); after a refused load the engine is empty and a
  compaction makes that durable. A file cut down to no record at all loads as an
  empty engine (`docs/persistence.md:76`).
* The number of a generation's sources is read without a bound
  (`src/persistence.cpp:529`); links, queues, path and endpoints of a source and
  the count of dropped events are not restored; identity registries are not
  persisted, so what was refused live, for a collision or because the registry was
  full, can be accepted after a compaction and a restart.
* A crash before the first flush leaves a file without a header, which every later
  open refuses (`src/persistence.cpp:856`).

### Bounds

`MaxRestarts`, `MaxCalls`, `MaxOpens`, `MaxSpurious`, `MaxCrashes`, `MaxFaults`,
`MaxEpoch`, `MaxSnapshot`, `MaxTime`, `MaxLog`, `MaxRetirements`,
`MaxCompactions` and `MaxEvents` bound what the environment does; they appear
only in guards. `MaxDropped` bounds how many transitions beyond its ring a flow has
made, which no reader tests. `Asked` and `Retirable` restrict who is asked about and who may
retire. The other `Max...` constants are the program's own limits, chosen so
small that each is reached. `MaxCount` is the width of the counters (2^64 - 1 in the code), small
enough in `ledger` for a sum to saturate. `Window` is 64 in the code; the
window's arithmetic is the same for every width. `MaxWord` is 2^64 - 1 in the code
and 15 in `attribution`. Deadlock is
not checked for the pool, the journal, the lifecycle, the snapshots and the
transport: an engine with no call left
to make, or a server nobody connects to, has stopped.

### Fairness

`WorkerPool` assumes weak fairness of each worker's step, of each caller that is
inside a call and of the controlling thread inside `stop_workers` or `close`:
the operating system schedules runnable threads, and the standard library's
mutexes are released after finitely many steps by everyone who holds them. No
fairness is assumed of the calls themselves, of spurious wakeups or of `freeze`.
With a bounded number of calls weak fairness of a mutex acquisition is enough:
nobody takes it for ever in between. `Transport` assumes the same of the serve
loop, of each handler and of the thread inside `stop` and `join`, that `accept`
returns a connection it is offered and that a client waiting for a reply learns
of the end of its connection; clients are never obliged to send or to close. The
other modules state safety only.

## 4. The proofs

For each component one inductive invariant, called `IInv` (`RInv` across the
restarts of a ledger, `AInv` for attribution, `EngineSound` and `RestartInv` for what
is durable), is proved to hold initially and to be preserved by every
action, and the properties are derived from it. The invariants were first checked by
TLC on the instances of the runs, as far as TLC can evaluate them. The theorems hold for every value of the
constants that satisfies the named assumption of the module they are about, which
says that fields have their types and that finite things are finite. Where a
theorem needs more it says so as a hypothesis:

| Hypothesis | Theorems | Why the code justifies it, and what happens without it |
| --- | --- | --- |
| `RegressionAsReset = TRUE` | `LedgerCapacityIrrelevant`, `LedgerAccountingMatches`, `RestartKeepsAccounting` | `insert` and `persist_source` fold under the default counter policy (`src/reconcile.cpp`), the retained entries are folded under the configured one. Under another policy the two differ and the statements are false; section 3 lists the divergence. |
| `OneRuntime` | all of `JournalProofs` | The advisory lock keeps a second process out until the first compaction; after it the file is not locked (section 3), and nothing is claimed for two. |
| `OneContentPerKey` | `TickDeniesStale`, `RestartKeepsTheRecorded`, `TerminationSurvives` | What a source promises by numbering its observations. Without it the code leaves the cached fold as it was (section 3), and of two contents the one with the smaller digest is kept, so a replay may bring back a copy that a retirement had dropped. |
| `OneDescriptor` | `TerminationSurvives` | A source that is registered again under another authority or with other capabilities keeps its folds, and the journal its first descriptor (section 3). |
| `OneDeclaration` | `TerminationSurvives` | What a flow ends with is declared once. Of two declarations a fold takes the lower one, and a replay may bring back one that a retirement had dropped and whose end its source may not declare. |
| `RequireCurrent` | `TablesStayCoherent` | The default (`include/flowobs/policy.hpp:132`). Without it a caller may ask for a superseded generation. `TablesAgreeAlways` needs no such hypothesis. |

### The ledger and its restarts

`LedgerTypeOK`, `LedgerNeverAppliesTwice`, `LedgerRetainedAboveFolded`,
`LedgerRefusedOnlyBelow`, `LedgerArrivalOrderIrrelevant` and the action property
`LedgerNeverOutOfOrder` rest on `LedgerInvariant`. The invariants are not inductive
one by one: that a redelivered key is not applied twice needs that everything
folded lies at or below the fence and everything retained above it, and that needs
that the fence *is* the highest folded key (`FenceIsHighestFolded`), which in turn
needs that `Lowest` picks a least element of a finite set that is not empty.

`LedgerCapacityIrrelevant` says that folding evidence away changes nothing that is
reported. Its core is that a fold of a set in canonical order is the fold of its
lower part followed by the fold of its upper part (`FoldAll` is a recursive
function on subsets; the lemma is by the least counterexample), and that the prefix
is the fold of everything that left the entries (`PrefixIsFold`).
That `Duplicate` is answered for accepted evidence only is not proved, because the
code does not keep it (`MCLedger_window.cfg`). What holds whatever bits the window
has is `LedgerRefusedOnlyBelow`: an answer of `Refused` or `Duplicate` is about
evidence at or below some that was accepted.

`LedgerAccountingMatches` compares the fold with a definition that knows nothing of
folding: a sum of gains over the readings of a direction, cut off at the largest
count, and the number of readings below their predecessor plus that of runs left
behind. The proof puts the evidence together one highest observation at a time
(`Grown`): what such an observation adds to the sum, the regressions and the closed
runs is what `apply_observation` adds to the fold (`ReportedGrows`), because the
last reading of the fold is the highest of its run and a terminal declaration ends
both. Saturating at each step or once at the end is the same, since gains are never
negative. With `LedgerCapacityIrrelevant` this reaches the view at any capacity.

Across restarts the fence is rebuilt from the high-water marks of the restored fold
rather than remembered. `RInv` therefore says that the marks of the prefix, and not
only the fence, bound everything the snapshot stands for; from it follow
`RestartCountsNothingTwice` and, with the default policy, `RestartKeepsAccounting`.

### The pool and its contract

`IInv` has five parts: types; where each observation is and what was answered of it
(`Accounted`); what a thread may hold at each place of its program (`LocalsMatch`);
that the program counters and the two mutexes agree (`MutexHeld`); and what a thread
inside `stop_workers` or `close` relies on (`StopInProgress`). Exclusivity alone is
not inductive: that a batch is applied once needs that the thread holds it only
between taking and applying it, and that no other thread takes from the queue in
between needs the mutex. `PoolMutualExclusion`, `PoolExactlyOnePlace` and
`PoolCompletionBarrier` follow; `PoolImplementsContract` is the refinement of
`IngestContract`: initial states map to initial states, and each action moves the
fates of a set of observations along one action of the contract or moves none.

### The journal

`Contents` is the heart of `IInv`. It says of the file at the path that every prefix
of its cells without a fragment holds a prefix of the log, that its synced cells hold
everything flushed unless a record lies behind a fragment, and, while a runtime is
up, that a file without such a record holds the whole log (`HoldsLog`, `Complete`).
It speaks of every prefix because a crash leaves any prefix that contains the synced
cells; and of the replacement, because a compaction may put it at the path at any
moment. `FilesInUse` ties handles, path and replacement to the runtime's place in
its program, `Epochs` its epoch to the header. From them
follow `RecoveryRestoresPrefix`, `FlushedDataIsRecovered`, `JournalMatchesRuntime`
and `EpochsGrow`.

### The lifecycle

`IInv` types the runtime, the snapshot and the log as far as the decisions read
them. The rest is a statement about one step (`StepKeeps`), proved for each action:
a terminal state stays, the bindings a restart leaves are unconfirmed, and cached
folds that are current stay so. `RestartIsNotLive` then follows from the order of
the branches of `Decide`: with no confirmed binding no source is usable, and the
branches that remain end in Observed, Expired or a declared state. Replaying the
log is a recursion over a sequence; that it confirms nothing is proved for the
least position at which it would.

`TickDeniesStale` is a state invariant about the decision a tick would take at any
instant. It needs that the cached folds are current and that a fold reports the
newest reading and the newest progress of its evidence (`Folded`). What a restart
rebuilds rests on the write-ahead order: everything a binding holds is in the
snapshot or in the log (`WriteAhead`), a replay only adds evidence (`Grows`), and
what it refuses lies below the fence the snapshot left. `RestartKeepsTheRecorded`
follows position by position; `TerminationSurvives` needs in addition that the
evidence a source gets back declares the same end (`DeclarationComesBack`), and that
nothing is usable after a restart, so that no conflict comes before it.

### The transport

A descriptor that is known at one place and belongs to one client
(`KnownOnce`, `ConnectedOnce`): what makes `ConnectionHasOneHolder` inductive is
that the serve loop, the pending list and the handlers hand a descriptor on and
never copy it. The list of active connections plays no part in the proof, which
says that what goes wrong there (section 3) costs the limit and the shutdown and
not the safety of descriptors. That there always is a free descriptor for `accept`
is a counting argument over finite sets.

### The flow table

`IInv` says of each flow that its generations, bindings, key and limits are sound
and that its ring holds the newest of the transitions made. It is proved once for
the helpers (`Transition`, `Settled`, `RecomputeFlow`, `AdmitFlow`,
`ObtainGeneration`, `Bind`, `Unbind`) and then for the actions, which compose them.
The ring lemmas unfold `Push`, `ToVector`, `RingTail` and `SetCapacity` to index
arithmetic without a division: an index runs over the end of the buffer at most
once. `OnlyFinishedIsEvicted` is proved from the two victims' definitions and from
the fact that no other step removes anything.

For `PagesPartitionMatches` the order of the map is a choice (`InOrder`), so it is
proved first that a finite set of numbers can be ordered and that the order, being
increasing, meets every element once (`InOrderIs`). A page is then an interval of
positions (`CutIs`), and the intervals at the multiples of the limit cover every
position once.

### Attribution

The sums are folds over finite sets (`SumFunction`), and what is proved of them is
that an element can be taken out, that they agree where their terms agree, and that
they are monotone and linear (`ProofLemmas`). `distribute` then balances: the floors never exceed
the total (`Leftover`), so with no overflow the clamp is never entered and what is
left is less than one unit for each hop, which is why a loop that picks the largest
remainder again and again gives each hop at most one (`Rounded`). With an overflow
the clamp and the loop still end at the total. `AttributionSharesSum`,
`AttributionLargestRemainder` and `AttributionPublishesTrusted` follow.

### Snapshots and restarts

The proof goes from the tokens to the engine in five steps.

*Readers and writers.* `Occurs(w, tokens, p)` says that the tokens of `w` stand at
`p`; `Reads` that a reader takes them wherever they occur and gives the value back,
`Rejects` that it never does. Both are proved for each kind of field, for a structure
from its fields (`StructReads`, `StructRejects`) and for a list from its items, and
so for sources, generations, flows and observations. Each writer of a typed record is
read back, or rejected exactly when one field is beyond its reader's bound.

*Groups.* `WrittenStateReplays`: the group `encode_state` writes replays to its state
or is refused, the latter if and only if some record of it is rejected
(`ReadableState`). `DamagedGroup`: in a replay that is not refused an end stands
behind as many records as it was written behind, with the payloads they had
(`EndMeetsItsGroup`), so what is left after one damage is the group itself or is
refused. The digest covers the payloads and not the kinds, so two records of the group
with one payload must be the same record; that no descriptor can be mistaken for a
flow follows from their lengths (`DescriptorLength`, `FlowLength`).

*The engine.* Both are about typed states, and a state is typed because of what the
engine may reach. That is `EngineSound`: sources, flows, generations and bindings
within their types and the engine's bounds, every binding of a known source, keys
that were validated; what the journal replays to typed, with no group open and no
source twice. It has to speak of the journal and of the snapshot file because `Restart`
and `Load` make the engine out of them, and it speaks of the *replay* of the journal
rather than its records, so that each append is one step of `ReplayOne`.
`SnapshotsRoundTrip` and `DamagedGroupsAreRefused` follow: sorting and merging lose
nothing (`InOrder` arranges every finite set, `ProofLemmas`).

*Restoring and running agree.* `Same(m, n)` relates engines with the same sources,
accounting and anomalies of which the second may know fewer peers and other
links and queues and have other transitions. `ApplySame`: an observation keeps engines
the same, unless the first finds a collision the second has no peer for, or a full
registry where the second has room, the exceptions of `RestartRestores`. That the
registry of the second is never the fuller one (`FullInBoth`) needs that its peers are
among those of the first and that neither registry exceeds its bound (`SoundPeers`). Deciding anew changes the
history of flows and nothing else (`LoggedSound`, `RecomputedSound`, `SettledIs`), so
it keeps engines the same and sound, whatever each decides (`SettledSame`). `StateBack`: with no retired source, what `persist_state` writes
restores an engine that is the same. `ApplyAllPlus` is about the order of the journal:
a replay has the descriptors before the observations and the engine may have
registered a source behind them; the two agree because the source is unknown to all
that came before and the table never gets full on the way.

*The restart.* `RestartInv` adds to `EngineSound` that the engine and what the journal
restores are the same while `covered` holds (`Accounted`), and that the replay is
refused if and only if the journal is `Unreadable`, having every observation otherwise
(`Reading`). It is inductive because each append is matched by one operation of both
engines and a compaction by `StateBack`. `RestartsRestore` is then one step.

The one assumption is that of the modules: limits are at least 1, as
`Limits::validate` requires, `MaxPathHops` is at most 4096, keys have lengths.

### Induction

The library's induction theorems take an operator as a parameter, which the
installed provers cannot instantiate. The proofs use its well-foundedness theorems
in another form: a set of numbers that is not empty has a least one, a *set* of
numbers with the first and with each next one up to a bound has all of them (`UpTo`), a
family of finite sets has a minimal one, a *set* of subsets that is closed under adding an
element contains the whole (`SubsetInduction`). What a recursive function or a fold
computes can be stated that way, one counterexample at a time; that is how the
folds of the ledger, the replay of the journal, of the lifecycle and of the durable
records, the readers, and the sums of attribution and of the ledger's reference
definition are treated.

### Checked by TLC only

* All liveness, and with it the fairness: `pool_live`, `transport_live`.
* The type invariants except those of the ledger and the pool: the inductive
  invariants contain the types the arguments need and leave out the bounds that
  guards impose on the environment.

## 5. Plan

1. *Done*: counters, ledger, worker pool, journal, reconciliation, the lifecycle of
   one generation, the transport, the flow table with its history ring,
   attribution, the state codec and snapshots.
2. *Proofs*: done for every safety property the passing runs check, the refinement
   included. Next: the type invariants of the modules whose inductive invariant types
   only the variables it needs.
3. *Composition*: the flow table behind the journal's append, so that the
   evictions of a replay, which depend on ticks that are not journalled, are
   compared with those of the live run.

## 6. Not modelled

* *Script protocol* (`textproto.cpp`): a parser of lines into observations that the
  engine validates again. It keeps no state.
* *Export, explanation and rendering* (`export_json.cpp`, `explain.cpp`,
  `render.hpp`), *`foctl`*: formatting and argument handling around calls that are
  modelled.
* *Policy, limits and semantics tables*: validation of a configuration and names of
  enumerators; the limits are constants of the modules.
* *Statistics*: numbers that are only reported. `stats` is in `WorkerPool` for the
  two mutexes it takes.
* *Lock audit*: the order it audits is the blocking structure of `WorkerPool`; its
  thread-local stack has one thread and no other state.
* *Bytes*: endianness, checksums, hashes, wire frames, `digest_state`. A checksum
  holds or does not, a hash is an arbitrary function, a digest is perfect.
* Two threads that stop the pool at the same time (both would join the same
  threads, `src/engine_api.cpp:368`), a server started again after `join`, and two
  readers of one journal handle in `verify_journal` (`src/engine_api.cpp:617`).
