----------------------------- MODULE StateCodec -----------------------------
(***************************************************************************)
(* The durable projection: how flows, sources and observations are written *)
(* to record payloads, what the readers accept of them, the record group   *)
(* of a snapshot and the replay of a record sequence.                      *)
(*                                                                         *)
(* A payload is a sequence of tokens, one per scalar or string; a list is  *)
(* its length followed by its items, an optional its flag followed by its  *)
(* value. The writers are spelled out; a reader says, for every position   *)
(* of a payload, what the read of its fields from there on comes to, with  *)
(* the bound it tests at each. Fields that are written and read back       *)
(* without any test are represented by one of their kind. The group digest *)
(* is taken as perfect: it is the sequence it covers.                      *)
(***************************************************************************)
EXTENDS Naturals, Sequences, SequencesExt, FiniteSetsExt

CONSTANTS MaxSources, MaxFlows, MaxGenerations, MaxPathHops, MaxQueues, MaxHistory,
          MaxAnomalies, MaxKeyBytes, MaxDetailBytes, MaxIngestRecords,   \* Limits
          KeyBytes,    \* the length of each canonical key
          None         \* an absent optional

\* The hops read_persisted_source takes.
MaxSourceHops == 4096

\* Limits::validate.
ASSUME CodecAssumption ==
  /\ {MaxSources, MaxFlows, MaxGenerations, MaxPathHops, MaxQueues, MaxHistory,
      MaxAnomalies, MaxKeyBytes, MaxDetailBytes, MaxIngestRecords} \subseteq Nat \ {0}
  /\ MaxPathHops <= MaxSourceHops
  /\ \A k \in DOMAIN KeyBytes : k \in Nat /\ KeyBytes[k] \in Nat
  /\ None \notin Nat

-----------------------------------------------------------------------------
(* Writer *)

\* A list, from the payloads of its items.
WriteList(written) == <<Len(written)>> \o FlattenSeq(written)

WriteScalars(xs) == WriteList([i \in DOMAIN xs |-> <<xs[i]>>])

WriteOptional(x) == IF x = None THEN <<0>> ELSE <<1, x>>

WriteDescriptor(d) == FlattenSeq(<< <<d.id>>, <<d.key>>, <<d.authority>> >>)

WriteSource(s) ==
  FlattenSeq(<< <<s.id>>, <<s.key>>, <<s.authority>>, <<s.accepted>>, WriteScalars(s.hops) >>)

WriteGeneration(g) ==
  FlattenSeq(<< <<g.id>>, WriteScalars(g.links), WriteScalars(g.queues),
                WriteList([i \in DOMAIN g.sources |-> WriteSource(g.sources[i])]) >>)

\* A lifecycle event names its generation, an anomaly its detail's length.
WriteFlow(f) ==
  FlattenSeq(<< <<f.id>>, <<f.key>>, <<f.current>>,
                WriteList([i \in DOMAIN f.generations |-> WriteGeneration(f.generations[i])]),
                WriteScalars(f.history), <<f.historyDropped>>,
                WriteScalars(f.anomalies), <<f.anomaliesDropped>> >>)

WriteObservation(o) ==
  FlattenSeq(<< <<o.source>>, <<o.sequence>>, <<o.flow>>, <<o.generation>>, <<o.peer>>,
                WriteOptional(o.queue), WriteOptional(o.link), WriteScalars(o.hops),
                <<o.flowKey>>, <<o.peerKey>> >>)

-----------------------------------------------------------------------------
(* Reader *)

\* Where a read may begin: at a token or behind the last one.
Positions(tokens) == 1 .. Len(tokens) + 1

Failed == [ok |-> FALSE, at |-> 0, value |-> <<>>]
Got(at, value) == [ok |-> TRUE, at |-> at, value |-> value]

NumberAt(tokens) ==
  [p \in Positions(tokens) |-> IF p <= Len(tokens) THEN Got(p + 1, tokens[p]) ELSE Failed]

\* blob(out, max_key_bytes), the string told by its number
KeyAt(tokens) ==
  [p \in Positions(tokens) |->
     IF p <= Len(tokens) /\ KeyBytes[tokens[p]] <= MaxKeyBytes
     THEN Got(p + 1, tokens[p]) ELSE Failed]

\* blob(out, max_detail_bytes), the string told by its length
DetailAt(tokens) ==
  [p \in Positions(tokens) |->
     IF p <= Len(tokens) /\ tokens[p] <= MaxDetailBytes
     THEN Got(p + 1, tokens[p]) ELSE Failed]

OptionAt(tokens) ==
  [p \in Positions(tokens) |->
     IF p <= Len(tokens) /\ tokens[p] = 0 THEN Got(p + 1, None)
     ELSE IF p + 1 <= Len(tokens) THEN Got(p + 2, tokens[p + 1])
     ELSE Failed]

\* What was read so far, and one field more.
Joined(r, x) == IF x.ok THEN Got(x.at, Append(r.value, x.value)) ELSE Failed

ReadNext(r, field) == IF r.ok THEN Joined(r, field[r.at]) ELSE Failed

\* The fields one after the other.
Struct(tokens, fields) ==
  [p \in Positions(tokens) |->
     LET read[i \in 0 .. Len(fields)] ==
           IF i = 0 THEN Got(p, <<>>) ELSE ReadNext(read[i - 1], fields[i])
     IN  read[Len(fields)]]

\* As many items as the token before them says.
Items(tokens, item) ==
  [p \in Positions(tokens) |->
     IF p <= Len(tokens) THEN Struct(tokens, [i \in 1 .. tokens[p] |-> item])[p + 1]
                         ELSE Failed]

\* The same, when the number is tested.
ListAt(tokens, max, item) ==
  [p \in Positions(tokens) |->
     IF p <= Len(tokens) /\ tokens[p] <= max THEN Items(tokens, item)[p] ELSE Failed]

DescriptorAt(tokens) == Struct(tokens, <<NumberAt(tokens), KeyAt(tokens), NumberAt(tokens)>>)

SourceAt(tokens) ==
  Struct(tokens, <<NumberAt(tokens), KeyAt(tokens), NumberAt(tokens), NumberAt(tokens),
                   ListAt(tokens, MaxSourceHops, NumberAt(tokens))>>)

\* The number of the sources is not tested.
GenerationAt(tokens) ==
  Struct(tokens, <<NumberAt(tokens), ListAt(tokens, MaxPathHops, NumberAt(tokens)),
                   ListAt(tokens, MaxQueues, NumberAt(tokens)),
                   Items(tokens, SourceAt(tokens))>>)

FlowAt(tokens) ==
  Struct(tokens, <<NumberAt(tokens), KeyAt(tokens), NumberAt(tokens),
                   ListAt(tokens, MaxGenerations, GenerationAt(tokens)),
                   ListAt(tokens, MaxHistory, NumberAt(tokens)), NumberAt(tokens),
                   ListAt(tokens, MaxAnomalies, DetailAt(tokens)), NumberAt(tokens)>>)

ObservationAt(tokens) ==
  Struct(tokens, <<NumberAt(tokens), NumberAt(tokens), NumberAt(tokens), NumberAt(tokens),
                   NumberAt(tokens), OptionAt(tokens), OptionAt(tokens),
                   ListAt(tokens, MaxPathHops, NumberAt(tokens)),
                   KeyAt(tokens), KeyAt(tokens)>>)

\* Reader::finish: nothing may be left over.
Whole(tokens, r) == IF r.ok /\ r.at = Len(tokens) + 1 THEN r ELSE Failed

DecodeDescriptor(tokens) == Whole(tokens, DescriptorAt(tokens)[1])

DecodeFlow(tokens) == Whole(tokens, FlowAt(tokens)[1])

DecodeObservation(tokens) == Whole(tokens, ObservationAt(tokens)[1])

DescriptorOf(v) == [id |-> v[1], key |-> v[2], authority |-> v[3]]

SourceOf(v) == [id |-> v[1], key |-> v[2], authority |-> v[3], accepted |-> v[4], hops |-> v[5]]

GenerationOf(v) ==
  [id |-> v[1], links |-> v[2], queues |-> v[3],
   sources |-> [i \in DOMAIN v[4] |-> SourceOf(v[4][i])]]

Mutant_CountsSwapped(v) ==
  [id |-> v[1], key |-> v[2], current |-> v[3],
   generations |-> [i \in DOMAIN v[4] |-> GenerationOf(v[4][i])],
   history |-> v[5], historyDropped |-> v[8], anomalies |-> v[7], anomaliesDropped |-> v[6]]

FlowOf(v) ==
  [id |-> v[1], key |-> v[2], current |-> v[3],
   generations |-> [i \in DOMAIN v[4] |-> GenerationOf(v[4][i])],
   history |-> v[5], historyDropped |-> v[6], anomalies |-> v[7], anomaliesDropped |-> v[8]]

ObservationOf(v) ==
  [source |-> v[1], sequence |-> v[2], flow |-> v[3], generation |-> v[4], peer |-> v[5],
   queue |-> v[6], link |-> v[7], hops |-> v[8], flowKey |-> v[9], peerKey |-> v[10]]

-----------------------------------------------------------------------------
(* Records, snapshot groups and replay *)

Record(kind, payload) == [kind |-> kind, payload |-> payload]

\* The digest of encode_state and decode_state runs over the payloads in
\* their order.
Digest(records) == [i \in DOMAIN records |-> records[i].payload]

\* encode_state. It tests the number of flows and sources (and the size of
\* the group against half of max_journal_bytes, taken as large enough), and
\* no bound of a field.
Encodable(state) == Len(state.flows) <= MaxFlows /\ Len(state.sources) <= MaxSources

EncodeState(state) ==
  LET body ==
        <<Record("SnapshotBegin", <<>>), Record("LimitsRecord", <<MaxFlows>>)>>
          \o [i \in DOMAIN state.sources |->
                Record("SourceDescriptor", WriteDescriptor(state.sources[i]))]
          \o [i \in DOMAIN state.flows |-> Record("Flow", WriteFlow(state.flows[i]))]
  IN  Append(body, Record("SnapshotEnd",
                          <<Digest(body), Len(state.sources), Len(state.flows)>>))

\* ReplayResult, with the records of a group that is still open.
Replayed(sources, flows, observations, group) ==
  [ok |-> TRUE, state |-> [sources |-> sources, flows |-> flows],
   observations |-> observations, group |-> group]

Refusal ==
  [ok |-> FALSE, state |-> [sources |-> <<>>, flows |-> <<>>], observations |-> <<>>,
   group |-> <<>>]

Mutant_AnyDigest(group) == TRUE

\* The digest SnapshotEnd declares is the one of the records before it.
DigestHolds(group) == group[Len(group)].payload[1] = Digest(SubSeq(group, 1, Len(group) - 1))

\* One record inside a group, read into the state so far.
Collect(r, record) ==
  LET sources == r.state.sources
      flows   == r.state.flows
      d       == DecodeDescriptor(record.payload)
      f       == DecodeFlow(record.payload)
  IN  IF ~r.ok THEN Refusal
      ELSE CASE record.kind = "LimitsRecord" -> r
             [] record.kind = "SourceDescriptor" ->
                  IF d.ok /\ Len(sources) < MaxSources
                  THEN Replayed(Append(sources, DescriptorOf(d.value)), flows, <<>>, <<>>)
                  ELSE Refusal
             [] record.kind = "Flow" ->
                  IF f.ok /\ Len(flows) < MaxFlows
                  THEN Replayed(sources, Append(flows, FlowOf(f.value)), <<>>, <<>>)
                  ELSE Refusal
             [] OTHER -> Refusal

\* decode_state, of a group that begins with SnapshotBegin and ends with
\* SnapshotEnd.
DecodeState(group) ==
  LET last == Len(group) - 1
      end  == group[Len(group)].payload
      collected[i \in 1 .. last] ==
        IF i = 1 THEN Replayed(<<>>, <<>>, <<>>, <<>>) ELSE Collect(collected[i - 1], group[i])
      r    == collected[last]
  IN  IF /\ DigestHolds(group) /\ r.ok
         /\ Len(r.state.sources) = end[2] /\ Len(r.state.flows) = end[3]
      THEN r ELSE Refusal

\* Replaces the entry with the same identity or appends a new one.
Upsert(entries, new, max) ==
  LET same == {i \in DOMAIN entries : entries[i].id = new.id}
  IN  IF same # {} THEN [ok |-> TRUE, entries |-> [entries EXCEPT ![Min(same)] = new]]
      ELSE [ok |-> Len(entries) < max, entries |-> Append(entries, new)]

\* One record behind or before the groups.
ReplayAlone(r, record) ==
  LET sources == r.state.sources
      flows   == r.state.flows
      d       == DecodeDescriptor(record.payload)
      f       == DecodeFlow(record.payload)
      o       == DecodeObservation(record.payload)
      source  == Upsert(sources, DescriptorOf(d.value), MaxSources)
      flow    == Upsert(flows, FlowOf(f.value), MaxFlows)
  IN  CASE record.kind = "SnapshotBegin" ->
             Replayed(sources, flows, r.observations, <<record>>)
        [] record.kind = "SnapshotEnd" -> Refusal
        [] record.kind = "SourceDescriptor" ->
             IF d.ok /\ source.ok
             THEN Replayed(source.entries, flows, r.observations, <<>>) ELSE Refusal
        [] record.kind = "Flow" ->
             IF f.ok /\ flow.ok
             THEN Replayed(sources, flow.entries, r.observations, <<>>) ELSE Refusal
        [] record.kind = "ObservationRecord" ->
             IF o.ok /\ Len(r.observations) < MaxIngestRecords
             THEN Replayed(sources, flows, Append(r.observations, ObservationOf(o.value)), <<>>)
             ELSE Refusal
        [] OTHER -> r

\* One record while a group is open: its records are gathered until its end.
ReplayInGroup(r, record) ==
  CASE record.kind = "SnapshotBegin" -> Refusal
    [] record.kind = "SnapshotEnd"   -> DecodeState(Append(r.group, record))
    [] OTHER -> Replayed(r.state.sources, r.state.flows, r.observations, Append(r.group, record))

ReplayOne(r, record) ==
  IF ~r.ok THEN Refusal
  ELSE IF r.group = <<>> THEN ReplayAlone(r, record) ELSE ReplayInGroup(r, record)

\* The replay as far as the last record.
ReplayUpTo(records) ==
  LET r[i \in 0 .. Len(records)] ==
        IF i = 0 THEN Replayed(<<>>, <<>>, <<>>, <<>>) ELSE ReplayOne(r[i - 1], records[i])
  IN  r[Len(records)]

\* replay_records: a group still open at the end is refused.
Closed(r) == IF r.ok /\ r.group = <<>> THEN r ELSE Refusal

ReplayRecords(records) == Closed(ReplayUpTo(records))
=============================================================================
