------------------------------ MODULE Snapshot ------------------------------
(***************************************************************************)
(* What of a running engine is durable, and how it comes back: the journal *)
(* of source and observation records, compaction, save_snapshot and        *)
(* load_snapshot on a file that may be damaged, and a restart that         *)
(* restores the engine from the journal.                                   *)
(*                                                                         *)
(* Sources deliver in order and once, so a ledger is the number of its     *)
(* observations with what they named (late and repeated evidence is the    *)
(* subject of Ledger and Lifecycle). No generation ends, so nothing is     *)
(* evicted (see FlowTable), and a generation has room for every source.    *)
(* Evidence neither regresses nor runs ahead of the clock, so the          *)
(* anomalies are those of the tables and of the registries, and its links, *)
(* queues and paths carry no key, so of the registries only that of the    *)
(* endpoints is in use. What recompute_flow decides depends on the clock   *)
(* and is left open: any generation may change its state whenever it is    *)
(* decided anew. A tick does nothing else and is left out. File-level      *)
(* faults are in Journal; here a file holds complete records whose         *)
(* checksums hold.                                                         *)
(***************************************************************************)
EXTENDS StateCodec

CONSTANTS Descriptors,      \* what register_source is called with, one per source
          Observations,     \* what ingest is called with
          QueuesPerSource,  \* the 4 of the queue budget
          DetailOverhead,   \* the fixed text of a collision's detail
          UnregisteredKey,  \* the key made up for each source nobody registered
          MaxDropped,       \* bound on the events a history has dropped
          MaxRestarts,      \* bound on the restarts
          MaxCalls          \* bound on retire, compact, save and load together

ASSUME SnapshotAssumption ==
  /\ QueuesPerSource \in Nat /\ DetailOverhead \in Nat
  /\ MaxDropped \in Nat /\ MaxRestarts \in Nat /\ MaxCalls \in Nat
  /\ \A d \in Descriptors :
       /\ d = [id |-> d.id, key |-> d.key, authority |-> d.authority]
       /\ d.id \in Nat /\ d.key \in DOMAIN KeyBytes /\ d.authority \in Nat
  /\ \A o \in Observations :
       /\ o = [source |-> o.source, sequence |-> o.sequence, flow |-> o.flow,
               generation |-> o.generation, peer |-> o.peer, queue |-> o.queue,
               link |-> o.link, hops |-> o.hops, flowKey |-> o.flowKey, peerKey |-> o.peerKey]
       /\ {o.source, o.sequence, o.flow, o.generation, o.peer} \subseteq Nat
       /\ {o.queue, o.link} \subseteq Nat \cup {None} /\ o.hops \in Seq(Nat)
       /\ {o.flowKey, o.peerKey} \subseteq DOMAIN KeyBytes
       /\ UnregisteredKey[o.source] \in DOMAIN KeyBytes

VARIABLES mem,      \* the engine: sources, flows and the endpoint registry
          status,   \* "open", or "refused" when open() failed
          journal,  \* the records of the journal
          file,     \* the records of the snapshot file
          sent,     \* the observations ingested so far
          epoch,    \* 1 plus the restarts
          calls,    \* the operator's calls so far
          covered   \* history: the journal accounts for all of mem

vars == <<mem, status, journal, file, sent, epoch, calls, covered>>

Empty == [x \in {} |-> x]

With(f, x, y) == [z \in DOMAIN f \cup {x} |-> IF z = x THEN y ELSE f[z]]

\* The elements of a finite set, each before those it precedes.
InOrder(S, precedes) ==
  CHOOSE s \in [1 .. Cardinality(S) -> S] :
    \A i, j \in 1 .. Cardinality(S) : i < j => <<s[i], s[j]>> \in precedes

Sorted(S) == InOrder(S, {p \in S \X S : p[1] < p[2]})

\* A push into a bounded log that drops its oldest entry.
Pushed(log, x, max) == IF Len(log) < max THEN Append(log, x) ELSE Append(Tail(log), x)

-----------------------------------------------------------------------------
(* apply_locked *)

\* validate_observation: of the keys only the flow key is measured.
Valid(o) == KeyBytes[o.flowKey] <= MaxKeyBytes /\ Len(o.hops) <= MaxPathHops

Unregistered(s) == [key |-> UnregisteredKey[s], authority |-> 0, retired |-> FALSE]

\* The registry after an observation of a source; a full one refuses it.
WithSource(m, s) ==
  IF s \in DOMAIN m.sources \/ Cardinality(DOMAIN m.sources) >= MaxSources THEN m
  ELSE [m EXCEPT !.sources = With(@, s, Unregistered(s))]

SourceRefused(m, s) == s \notin DOMAIN m.sources \/ m.sources[s].retired

NewFlow(o) ==
  [key |-> o.flowKey, current |-> 0, generations |-> Empty, history |-> <<>>,
   historyDropped |-> 0, anomalies |-> <<>>, anomaliesDropped |-> 0]

Note(flow, detail) ==
  [flow EXCEPT !.anomalies = Pushed(@, detail, MaxAnomalies),
               !.anomaliesDropped = @ + (IF Len(flow.anomalies) < MaxAnomalies THEN 0 ELSE 1)]

NewBinding == [accepted |-> 0, hops |-> <<>>, links |-> <<>>, queues |-> <<>>]

Named(resources, x) ==
  IF x = None \/ Contains(resources, x) THEN resources ELSE Append(resources, x)

\* What the fold keeps of one more observation.
Extended(b, o) ==
  [accepted |-> b.accepted + 1,
   hops     |-> IF b.hops = <<>> THEN o.hops ELSE b.hops,
   links    |-> Named(b.links, o.link),
   queues   |-> Named(b.queues, o.queue)]

\* The flow after evidence that is neither refused nor a collision, before
\* it is decided anew.
Evidenced(flow, o) ==
  LET known  == o.generation \in DOMAIN flow.generations
      gen    == IF known THEN flow.generations[o.generation] ELSE Empty
      b      == IF o.source \in DOMAIN gen THEN gen[o.source] ELSE NewBinding
      noted  == IF o.generation < flow.current THEN Note(flow, 1) ELSE flow
  IN  [noted EXCEPT
         !.current = Max({@, o.generation}),
         !.generations = With(@, o.generation, With(gen, o.source, Extended(b, o)))]

\* The peer endpoint is the one identity whose key is not verified, so two
\* keys may claim it; the second is noted with the text of both.
Collides(m, o) == o.peer \in DOMAIN m.peers /\ m.peers[o.peer] # o.peerKey

\* register_identity has no room for a new peer; the registry is bounded by
\* the number of the flows.
RegistryFull(m, o) ==
  o.peer # 0 /\ o.peer \notin DOMAIN m.peers /\ Cardinality(DOMAIN m.peers) >= MaxFlows

ApplyToFlow(m, o) ==
  LET flow == IF o.flow \in DOMAIN m.flows THEN m.flows[o.flow] ELSE NewFlow(o) IN
  IF Collides(m, o)
  THEN [m EXCEPT !.flows = With(@, o.flow,
          Note(flow, KeyBytes[m.peers[o.peer]] + KeyBytes[o.peerKey] + DetailOverhead))]
  ELSE IF RegistryFull(m, o)
  THEN [m EXCEPT !.flows = With(@, o.flow, Note(flow, 1))]
  ELSE LET peers == IF o.peer = 0 THEN m.peers ELSE With(m.peers, o.peer, o.peerKey)
           full  == /\ o.generation \notin DOMAIN flow.generations
                    /\ Cardinality(DOMAIN flow.generations) >= MaxGenerations
       IN  [m EXCEPT !.peers = peers,
                     !.flows = With(@, o.flow, IF full THEN Note(flow, 1)
                                                       ELSE Evidenced(flow, o))]

Apply(m, o) ==
  LET n    == WithSource(m, o.source)
      full == o.flow \notin DOMAIN m.flows /\ Cardinality(DOMAIN m.flows) >= MaxFlows
  IN  IF ~Valid(o) THEN m
      ELSE IF SourceRefused(n, o.source) \/ full THEN n
      ELSE ApplyToFlow(n, o)

-----------------------------------------------------------------------------
(* recompute_flow *)

\* Events enter the bounded history behind those it has.
Logged(flow, events) ==
  LET log  == flow.history \o events
      over == IF Len(log) > MaxHistory THEN Len(log) - MaxHistory ELSE 0
  IN  [flow EXCEPT !.history = SubSeq(log, over + 1, Len(log)), !.historyDropped = @ + over]

\* What a flow may be once it was decided anew, any number of times: each
\* time an event enters for every generation that is decided differently.
Recomputed(flow) ==
  LET room == (MaxHistory - Len(flow.history)) + (MaxDropped - flow.historyDropped)
  IN  {Logged(flow, events) :
         events \in UNION {[1 .. n -> DOMAIN flow.generations] : n \in 0 .. room}}

\* The engines recompute_flow may leave of m when it runs over the flows fs.
Settled(m, fs) ==
  {[m EXCEPT !.flows = [f \in DOMAIN @ |-> IF f \in fs THEN later[f] ELSE @[f]]] :
     later \in {l \in [fs -> UNION {Recomputed(m.flows[f]) : f \in fs}] :
                  \A f \in fs : l[f] \in Recomputed(m.flows[f])}}

-----------------------------------------------------------------------------
(* persist_state and restore_locked *)

\* The links and queues of a generation are those of its sources together,
\* the highest authority first; the queues up to a budget that grows with
\* the sources.
Together(m, resources) ==
  LET sources  == DOMAIN resources
      authority(s) == m.sources[s].authority
      order    == InOrder(sources, {p \in sources \X sources :
                    \/ authority(p[1]) > authority(p[2])
                    \/ authority(p[1]) = authority(p[2]) /\ p[1] < p[2]})
      all      == FlattenSeq([i \in 1 .. Cardinality(sources) |-> resources[order[i]]])
      merged[i \in 0 .. Len(all)] == IF i = 0 THEN <<>> ELSE Named(merged[i - 1], all[i])
  IN  merged[Len(all)]

PersistGeneration(m, g, gen) ==
  LET order  == Sorted(DOMAIN gen)
      links  == Together(m, [s \in DOMAIN gen |-> gen[s].links])
      queues == Together(m, [s \in DOMAIN gen |-> gen[s].queues])
      budget == (Len(order) + 1) * QueuesPerSource
  IN  [id      |-> g,
       links   |-> links,
       queues  |-> SubSeq(queues, 1, IF Len(queues) <= budget THEN Len(queues) ELSE budget),
       sources |-> [i \in DOMAIN order |->
                      [id        |-> order[i],
                       key       |-> m.sources[order[i]].key,
                       authority |-> m.sources[order[i]].authority,
                       accepted  |-> gen[order[i]].accepted,
                       hops      |-> gen[order[i]].hops]]]

PersistFlow(m, f) ==
  LET flow  == m.flows[f]
      order == Sorted(DOMAIN flow.generations)
  IN  [id |-> f, key |-> flow.key, current |-> flow.current,
       generations |-> [i \in DOMAIN order |->
                          PersistGeneration(m, order[i], flow.generations[order[i]])],
       history |-> flow.history, historyDropped |-> flow.historyDropped,
       anomalies |-> flow.anomalies, anomaliesDropped |-> flow.anomaliesDropped]

\* A retired source is left out.
PersistState(m) ==
  LET active == Sorted({s \in DOMAIN m.sources : ~m.sources[s].retired})
      flows  == Sorted(DOMAIN m.flows)
  IN  [sources |-> [i \in DOMAIN active |-> [id        |-> active[i],
                                             key       |-> m.sources[active[i]].key,
                                             authority |-> m.sources[active[i]].authority]],
       flows   |-> [i \in DOMAIN flows |-> PersistFlow(m, flows[i])]]

Mutant_ForgetsHops(s) == [NewBinding EXCEPT !.accepted = s.accepted]

\* A restored binding has its accounting and its hop capacities back; the
\* links and queues of its evidence are not in the record.
RestoreBinding(s) == [NewBinding EXCEPT !.accepted = s.accepted, !.hops = s.hops]

\* The count of dropped events is read and not restored.
RestoreFlow(f) ==
  [key |-> f.key, current |-> f.current,
   generations |->
     [g \in {f.generations[i].id : i \in DOMAIN f.generations} |->
        LET gen == CHOOSE x \in ToSet(f.generations) : x.id = g
        IN  [s \in {x.id : x \in ToSet(gen.sources)} |->
               RestoreBinding(CHOOSE x \in ToSet(gen.sources) : x.id = s)]],
   history |-> f.history, historyDropped |-> 0,
   anomalies |-> f.anomalies, anomaliesDropped |-> f.anomaliesDropped]

\* The sources that the generations of the restored flows name.
Evident(state) ==
  UNION {UNION {ToSet(g.sources) : g \in ToSet(f.generations)} : f \in ToSet(state.flows)}

\* restore_locked on an engine with the sources m.sources and nothing else,
\* before the observations: descriptors replace what is registered, sources
\* that only a flow knows are added.
RestoreState(m, state) ==
  LET listed  == ToSet(state.sources)
      evident == Evident(state)
      AsSource(d) == [key |-> d.key, authority |-> d.authority, retired |-> FALSE]
  IN  [sources |->
         [s \in DOMAIN m.sources \cup {d.id : d \in listed} \cup {d.id : d \in evident} |->
            IF \E d \in listed : d.id = s THEN AsSource(CHOOSE d \in listed : d.id = s)
            ELSE IF s \in DOMAIN m.sources THEN m.sources[s]
            ELSE AsSource(CHOOSE d \in evident : d.id = s)],
       flows |->
         [f \in {x.id : x \in ToSet(state.flows)} |->
            RestoreFlow(CHOOSE x \in ToSet(state.flows) : x.id = f)],
       peers |-> Empty]

\* The observations one after the other.
ApplyAll(m, observations) ==
  LET applied[i \in 0 .. Len(observations)] ==
        IF i = 0 THEN m ELSE Apply(applied[i - 1], observations[i])
  IN  applied[Len(observations)]

Restore(m, replayed) == ApplyAll(RestoreState(m, replayed.state), replayed.observations)

Blank == [sources |-> Empty, flows |-> Empty, peers |-> Empty]

\* The engine m after the replay of a record sequence, or without it, its
\* flows not decided anew.
Reopened(m, replayed) == IF replayed.ok THEN Restore(m, replayed) ELSE m

-----------------------------------------------------------------------------
Init ==
  /\ mem = Blank /\ status = "open" /\ journal = <<>> /\ file = <<>>
  /\ sent = {} /\ epoch = 1 /\ calls = 0 /\ covered = TRUE

\* register_source. A known source is changed, and no longer retired, in
\* memory only; one that became known by its evidence alone has another key
\* and is refused, as is a key beyond the bound.
Register(d) ==
  LET new   == [key |-> d.key, authority |-> d.authority, retired |-> FALSE]
      known == d.id \in DOMAIN mem.sources
  IN  /\ status = "open" /\ KeyBytes[d.key] <= MaxKeyBytes
      /\ IF known THEN mem.sources[d.id].key = d.key
                  ELSE Cardinality(DOMAIN mem.sources) < MaxSources
      /\ mem' = [mem EXCEPT !.sources = With(@, d.id, new)]
      /\ journal' = IF known THEN journal
                    ELSE Append(journal, Record("SourceDescriptor", WriteDescriptor(d)))
      /\ covered' = (covered /\ (known => mem.sources[d.id] = new))
      /\ UNCHANGED <<status, file, sent, epoch, calls>>

\* A flow after the retirement of a source: the evidence of the source is
\* gone from every generation.
Retired(flow, s) ==
  [flow EXCEPT !.generations = [g \in DOMAIN @ |-> [r \in DOMAIN @[g] \ {s} |-> @[g][r]]]]

\* retire_source removes the evidence of the source, in memory only, and
\* decides every flow anew.
Retire(s) ==
  /\ status = "open" /\ calls < MaxCalls
  /\ s \in DOMAIN mem.sources
  /\ mem' \in Settled([mem EXCEPT !.sources[s].retired = TRUE,
                                   !.flows = [f \in DOMAIN @ |-> Retired(@[f], s)]],
                      DOMAIN mem.flows)
  /\ calls' = calls + 1
  /\ covered' = FALSE
  /\ UNCHANGED <<status, journal, file, sent, epoch>>

\* What the journal replays to.
Journalled == Reopened(Blank, ReplayRecords(journal))

\* The flows whose generations differ between two engines.
Touched(m, n) ==
  {f \in DOMAIN n.flows :
     f \in DOMAIN m.flows => n.flows[f].generations # m.flows[f].generations}

\* ingest. What passes validation is journalled, whatever happens to it
\* then; the flow is decided anew when one of its ledgers took the evidence.
Ingest(o) ==
  /\ status = "open" /\ o \notin sent
  /\ \A p \in Observations : p.source = o.source /\ p.sequence < o.sequence => p \in sent
  /\ \E applied \in {Apply(mem, o)} : mem' \in Settled(applied, Touched(mem, applied))
  /\ journal' = IF Valid(o) THEN Append(journal, Record("ObservationRecord", WriteObservation(o)))
                ELSE journal
  /\ sent' = sent \cup {o}
  /\ covered' = /\ covered
                 /\ (Collides(mem, o) => o.peer \in DOMAIN Journalled.peers)
                 /\ (RegistryFull(mem, o) => RegistryFull(Journalled, o))
  /\ UNCHANGED <<status, file, epoch, calls>>

\* compact: the journal becomes one snapshot group. A retirement is not in it.
Compact ==
  /\ status = "open" /\ calls < MaxCalls /\ Encodable(PersistState(mem))
  /\ journal' = EncodeState(PersistState(mem))
  /\ covered' = \A s \in DOMAIN mem.sources : ~mem.sources[s].retired
  /\ calls' = calls + 1
  /\ UNCHANGED <<mem, status, file, sent, epoch>>

\* save_snapshot truncates the file and writes one group.
Save ==
  /\ status = "open" /\ calls < MaxCalls /\ Encodable(PersistState(mem))
  /\ file' = EncodeState(PersistState(mem))
  /\ calls' = calls + 1
  /\ UNCHANGED <<mem, status, journal, sent, epoch, covered>>

\* What may become of a file: a record is lost, repeated or exchanged with
\* the next, or the file ends early.
Damaged(f) ==
  (UNION {{SubSeq(f, 1, i - 1) \o SubSeq(f, i + 1, Len(f)),
           SubSeq(f, 1, i) \o SubSeq(f, i, Len(f)),
           IF i < Len(f) THEN [f EXCEPT ![i] = f[i + 1], ![i + 1] = f[i]] ELSE f,
           SubSeq(f, 1, i - 1)} : i \in DOMAIN f}) \ {f}

\* load_snapshot, of the file or of what became of it: the flows and
\* registries are cleared before the records are looked at, the sources stay.
\* What was restored is decided anew.
Load ==
  /\ status = "open" /\ calls < MaxCalls /\ file # <<>>
  /\ \E f \in {file} \cup Damaged(file) :
       \E n \in {Reopened([mem EXCEPT !.flows = Empty, !.peers = Empty], ReplayRecords(f))} :
         mem' \in Settled(n, DOMAIN n.flows)
  /\ covered' = FALSE
  /\ calls' = calls + 1
  /\ UNCHANGED <<status, journal, file, sent, epoch>>

\* The process ends, by close or by a crash of a flushed engine, and the
\* next open restores the journal or refuses it. What was restored is
\* decided anew, with every replayed observation and at the end.
Restart ==
  /\ status = "open" /\ epoch <= MaxRestarts
  /\ status' = IF ReplayRecords(journal).ok THEN "open" ELSE "refused"
  /\ \E n \in {Journalled} : mem' \in Settled(n, DOMAIN n.flows)
  /\ epoch' = epoch + 1
  /\ covered' = TRUE
  /\ UNCHANGED <<journal, file, sent, calls>>

Next ==
  \/ \E d \in Descriptors : Register(d) \/ Retire(d.id)
  \/ \E o \in Observations : Ingest(o)
  \/ Compact \/ Save \/ Load \/ Restart

Spec == Init /\ [][Next]_vars

-----------------------------------------------------------------------------
\* What the readers test and the engine does not: the merged links and
\* queues of a generation, the text of an anomaly and the key made up for a
\* source nobody registered.
WithinReaderBounds(state) ==
  /\ \A d \in ToSet(state.sources) \cup Evident(state) : KeyBytes[d.key] <= MaxKeyBytes
  /\ \A f \in ToSet(state.flows) :
       /\ \A d \in ToSet(f.anomalies) : d <= MaxDetailBytes
       /\ \A g \in ToSet(f.generations) :
            Len(g.links) <= MaxPathHops /\ Len(g.queues) <= MaxQueues

\* A snapshot of any state the engine reaches reads back as it was written,
\* or is refused for one of four reasons only: the merged links or queues of
\* a generation, the text of an anomaly or the key of a source nobody
\* registered is beyond the reader's bound.
RoundTrip ==
  \A state \in {PersistState(mem)} : Encodable(state) =>
    \A decoded \in {ReplayRecords(EncodeState(state))} :
      IF WithinReaderBounds(state) THEN decoded.ok /\ decoded.state = state ELSE ~decoded.ok

\* docs/persistence.md: a group that was reordered, duplicated or truncated
\* is refused, of every group save_snapshot writes. A file cut down to no
\* record at all is an empty journal and loads as one.
DamagedGroupRefused ==
  [][file' # file => \A f \in Damaged(file') \ {<<>>} : ~ReplayRecords(f).ok]_vars

\* The part of the engine a restart has to bring back. Of the history only
\* what a snapshot holds comes back, and a replay decides on its own which
\* transitions follow.
Durable(m) ==
  [sources |-> m.sources,
   flows   |-> [f \in DOMAIN m.flows |->
      [key |-> m.flows[f].key, current |-> m.flows[f].current,
       generations |-> [g \in DOMAIN m.flows[f].generations |->
          [s \in DOMAIN m.flows[f].generations[g] |->
             [accepted |-> m.flows[f].generations[g][s].accepted,
              hops     |-> m.flows[f].generations[g][s].hops]]],
       anomalies |-> m.flows[f].anomalies,
       anomaliesDropped |-> m.flows[f].anomaliesDropped]]]

\* A journal the engine wrote and cannot open: more observations than
\* max_ingest_records since the last compaction, a key no append measures, or
\* a source or a flow beyond the bounds of its reader.
Unreadable ==
  LET of(kind) == {r \in ToSet(journal) : r.kind = kind}
      count    == Cardinality({i \in DOMAIN journal : journal[i].kind = "ObservationRecord"})
  IN  \/ count > MaxIngestRecords
      \/ \E r \in of("ObservationRecord") : KeyBytes[Last(r.payload)] > MaxKeyBytes
      \/ \E r \in of("SourceDescriptor") : ~DecodeDescriptor(r.payload).ok
      \/ \E r \in of("Flow") : ~DecodeFlow(r.payload).ok

\* docs/persistence.md: an engine that starts again has the sources, the
\* accounting and the anomalies of its tables, through any number of compactions,
\* unless a retirement, a loaded snapshot or the registration of a known
\* source, none of which is journalled, came in between, or an observation
\* was refused for what only the peer registry of the ended process held: a
\* key that collided, or the last free place. It is refused for the reasons
\* of Unreadable only.
RestartRestores ==
  [][epoch' # epoch =>
       /\ status' = IF Unreadable THEN "refused" ELSE "open"
       /\ (status' = "open" /\ covered) => Durable(mem') = Durable(mem)]_vars

\* persistence.hpp says of encode_state that it refuses a state beyond any
\* per-field bound: what it writes can be read back.
EncodedIsReadable ==
  Encodable(PersistState(mem)) => ReplayRecords(EncodeState(PersistState(mem))).ok
=============================================================================
