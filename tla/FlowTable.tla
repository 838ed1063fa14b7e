----------------------------- MODULE FlowTable -----------------------------
(***************************************************************************)
(* The tables of the engine: flows, their generations, the sources bound   *)
(* to a generation, the source registry and the identity registry, each    *)
(* with its bound, and what apply_locked, tick, retire_source and the      *)
(* readers do to them or learn from them.                                  *)
(*                                                                         *)
(* What the ledger says of an observation is the subject of module Ledger  *)
(* and what recompute_flow decides for a generation that of Reconcile;     *)
(* here both are any outcome those modules allow. A flow is a record       *)
(*   key       canonical_key                                               *)
(*   gens      the generations it retains, each [state, bound]; bound      *)
(*             gives, for each bound source, the keys its evidence named   *)
(*   current   current_generation, 0 while it is invalid                   *)
(*   state     the state eviction and statistics look at                   *)
(*   touched   last_touched                                                *)
(*   history   the ring of its transitions                                 *)
(*   pushed    all transitions since it was created (history variable)     *)
(* Anomalies, revisions and statistics are left out: nothing here reads    *)
(* them. The four identity registries are alike; one stands for them.      *)
(***************************************************************************)
EXTENDS History, FiniteSets, FiniteSetsExt, SequencesExt

CONSTANTS Keys, IdOf,          \* canonical flow keys and the identity each hashes to
          Names, NameId,       \* endpoint keys and the identity each hashes to
          Sources,             \* source identities
          Observations,        \* [flow, key, gen, pathGen, src, names, skewed]
          Decisions,           \* the states recompute_flow may decide on
          Terminal,            \* is_terminal
          MaxSources, MaxFlows, MaxGenerations, MaxSourcesPerFlow, MaxHistory,
          Clamps,              \* FreshnessPolicy::clamp_future_timestamps
          RequireCurrent,      \* AttributionPolicy::require_current_generation
          MaxTime,             \* bound on the clock
          MaxEvents,           \* bound on the transitions of all flows
          Retirable,           \* the sources retire_source is called for
          Asked, NoQuestion    \* the flows attribute_current is called for

ASSUME FlowTableAssumption ==
  /\ MaxSources \in Nat \ {0} /\ MaxFlows \in Nat \ {0} /\ MaxGenerations \in Nat \ {0}
  /\ MaxSourcesPerFlow \in Nat \ {0} /\ MaxHistory \in Nat
  /\ MaxTime \in Nat \ {0} /\ MaxEvents \in Nat
  /\ IdOf \in [Keys -> Nat \ {0}] /\ NameId \in [Names -> Nat \ {0}]
  /\ Retirable \subseteq Sources
  /\ Clamps \in BOOLEAN /\ RequireCurrent \in BOOLEAN
  /\ "Unknown" \notin Terminal \cup Decisions /\ "Conflicting" \notin Terminal
  /\ \A o \in Observations : /\ o.flow \in Nat /\ o.gen \in Nat /\ o.pathGen \in Nat
                             /\ o.key \in Keys /\ o.src \in Sources
                             /\ o.names \in Seq(Names) /\ o.skewed \in BOOLEAN

VARIABLES now,
          flows,      \* flow identity -> flow
          sources,    \* the known sources
          retired,    \* those that were retired
          endpoints,  \* endpoint identity -> the key that registered it
          asked       \* attribute_current between its two critical sections

vars == <<now, flows, sources, retired, endpoints, asked>>

Instants == 1 .. MaxTime

IsTerminal(state) == state \in Terminal

Without(f, x) == [y \in DOMAIN f \ {x} |-> f[y]]

With(f, x, v) == [y \in DOMAIN f \cup {x} |-> IF y = x THEN v ELSE f[y]]

EmptyFlow(key, at) ==
  [key |-> key, gens |-> [g \in {} |-> 0], current |-> 0, state |-> "Unknown", touched |-> at,
   history |-> SetCapacity(EmptyRing, MaxHistory), pushed |-> <<>>]

-----------------------------------------------------------------------------
(* Lifecycle transitions.                                                  *)

\* transition, one generation: nothing happens unless the state changes.
Transition(flow, g, next) ==
  IF flow.gens[g].state = next THEN flow
  ELSE LET event == [gen |-> g, from |-> flow.gens[g].state, to |-> next]
       IN  [flow EXCEPT !.history = Push(@, event),
                        !.pushed = Append(@, event),
                        !.gens[g].state = next]

Mutant_Reopens(flow) == [DOMAIN flow.gens -> Decisions]

\* The decisions recompute_flow may take: a terminal generation stays as it is.
PossibleDecisions(flow) ==
  {d \in [DOMAIN flow.gens -> Decisions \cup Terminal] :
     \A g \in DOMAIN flow.gens :
       IF IsTerminal(flow.gens[g].state) THEN d[g] = flow.gens[g].state
                                         ELSE d[g] \in Decisions}

\* The loop of recompute_flow over the generations, in ascending order.
Settled(flow, decisions) ==
  LET upTo[n \in 0 .. Max(DOMAIN flow.gens)] ==
        IF n = 0 THEN flow
        ELSE IF n \in DOMAIN flow.gens THEN Transition(upTo[n - 1], n, decisions[n])
        ELSE upTo[n - 1]
  IN  upTo[Max(DOMAIN flow.gens)]

\* recompute_flow: every generation is settled, then the flow takes the state
\* of the current one.
RecomputeFlow(flow, decisions) ==
  LET settled == Settled(flow, decisions)
      current == IF settled.current \in DOMAIN settled.gens THEN settled.current
                                                            ELSE Max(DOMAIN settled.gens)
  IN  IF DOMAIN flow.gens = {} THEN flow
      ELSE [settled EXCEPT !.current = current, !.state = settled.gens[current].state]

EventsOf(table) == MapThenSumSet(LAMBDA f : Len(table[f].pushed), DOMAIN table)

-----------------------------------------------------------------------------
(* The stages of apply_locked.                                             *)

\* validate_observation: the checks that relate two fields. 0 is a field left
\* out. Without them nothing else of the observation is looked at.
Validates(o) ==
  /\ o.gen # 0
  /\ o.flow \in {0, IdOf[o.key]}
  /\ o.pathGen \in {0, o.gen}

\* The identity the observation is filed under: its own, or else its key's.
Subject(o) == IF o.flow = 0 THEN IdOf[o.key] ELSE o.flow

SourceRefused(o) ==
  \/ o.src \notin sources /\ Cardinality(sources) >= MaxSources
  \/ o.src \in retired

Mutant_MostRecent ==
  {f \in DOMAIN flows :
     /\ IsTerminal(flows[f].state)
     /\ \A e \in DOMAIN flows : IsTerminal(flows[e].state) => flows[e].touched <= flows[f].touched}

\* evict_one_flow_locked: the terminal flow touched the longest ago, the
\* lowest identity among equals.
FlowVictims ==
  {f \in DOMAIN flows :
     /\ IsTerminal(flows[f].state)
     /\ \A e \in DOMAIN flows \ {f} : IsTerminal(flows[e].state) =>
          \/ flows[f].touched < flows[e].touched
          \/ flows[f].touched = flows[e].touched /\ f < e}

FlowTableFull == Cardinality(DOMAIN flows) >= MaxFlows

NoRoomForFlow(o) == Subject(o) \notin DOMAIN flows /\ FlowTableFull /\ FlowVictims = {}

\* The flow table once the flow of the observation is in it.
AdmitFlow(o) ==
  IF Subject(o) \in DOMAIN flows THEN flows
  ELSE LET kept == IF FlowTableFull THEN Without(flows, CHOOSE f \in FlowVictims : TRUE)
                                    ELSE flows
       IN  With(kept, Subject(o), EmptyFlow(o.key, now))

\* IdentityRegistry::observe for one endpoint key.
Observe(registry, name) ==
  IF NameId[name] \in DOMAIN registry
  THEN IF registry[NameId[name]] = name THEN "Known" ELSE "Collision"
  ELSE IF Cardinality(DOMAIN registry) >= MaxFlows THEN "Full" ELSE "Registered"

\* register_identity: the names in order, up to the first that is refused.
RegisterIdentity(names) ==
  LET step(acc, name) ==
        IF ~acc.ok THEN acc
        ELSE CASE Observe(acc.registry, name) = "Known"      -> acc
               [] Observe(acc.registry, name) = "Registered" ->
                    [acc EXCEPT !.registry = With(@, NameId[name], name)]
               [] OTHER -> [acc EXCEPT !.ok = FALSE]
      upTo[i \in 0 .. Len(names)] ==
        IF i = 0 THEN [ok |-> TRUE, registry |-> endpoints] ELSE step(upTo[i - 1], names[i])
  IN  upTo[Len(names)]

\* evict_one_generation_locked: the lowest terminal generation that is not
\* the current one.
GenerationVictims(flow) ==
  LET candidates == {g \in DOMAIN flow.gens : g # flow.current /\ IsTerminal(flow.gens[g].state)}
  IN  {g \in candidates : \A h \in candidates : g <= h}

NewGeneration == [state |-> "Unknown", bound |-> [s \in {} |-> {}]]

NoRoomForGeneration(flow, o) ==
  /\ o.gen \notin DOMAIN flow.gens
  /\ Cardinality(DOMAIN flow.gens) >= MaxGenerations
  /\ GenerationVictims(flow) = {}

Mutant_LateTakesOver(flow, o) ==
  IF o.gen \in DOMAIN flow.gens THEN flow
  ELSE LET kept == IF Cardinality(DOMAIN flow.gens) >= MaxGenerations
                   THEN Without(flow.gens, CHOOSE g \in GenerationVictims(flow) : TRUE)
                   ELSE flow.gens
       IN  [flow EXCEPT !.gens = With(kept, o.gen, NewGeneration),
                        !.current = o.gen]

\* obtain_generation behind the eviction it may need, and the current
\* generation moving to one that is newer or the first.
ObtainGeneration(flow, o) ==
  IF o.gen \in DOMAIN flow.gens THEN flow
  ELSE LET kept == IF Cardinality(DOMAIN flow.gens) >= MaxGenerations
                   THEN Without(flow.gens, CHOOSE g \in GenerationVictims(flow) : TRUE)
                   ELSE flow.gens
       IN  [flow EXCEPT !.gens = With(kept, o.gen, NewGeneration),
                        !.current = IF o.gen > @ THEN o.gen ELSE @]

Bound(flow, o) == DOMAIN flow.gens[o.gen].bound

NoRoomForBinding(flow, o) ==
  o.src \notin Bound(flow, o) /\ Cardinality(Bound(flow, o)) >= MaxSourcesPerFlow

\* obtain_binding and the ledger's answer: new evidence adds its key to what
\* the source said of the generation.
Bind(flow, o) ==
  LET bound == flow.gens[o.gen].bound
      said  == IF o.src \in DOMAIN bound THEN bound[o.src] ELSE {}
  IN  [flow EXCEPT !.gens[o.gen].bound = With(bound, o.src, said \cup {o.key})]

-----------------------------------------------------------------------------
(* apply_locked by the stage at which it returns. An observation that is   *)
(* not valid, or whose source is refused, changes nothing of these tables. *)

Admitted(o)   == Validates(o) /\ ~SourceRefused(o) /\ ~NoRoomForFlow(o)
Identified(o) == Admitted(o) /\ AdmitFlow(o)[Subject(o)].key = o.key
Named(o)      == Identified(o) /\ RegisterIdentity(o.names).ok
Timely(o)     == Named(o) /\ (o.skewed => Clamps)
Placed(o)     == Timely(o) /\ ~NoRoomForGeneration(AdmitFlow(o)[Subject(o)], o)

\* The flow of the observation, with its generation.
Placement(o) == ObtainGeneration(AdmitFlow(o)[Subject(o)], o)

\* What every return behind the source stage leaves: the source is known.
Leaves(o, table, registry) ==
  /\ sources' = sources \cup {o.src}
  /\ flows' = table
  /\ endpoints' = registry
  /\ UNCHANGED <<now, retired, asked>>

\* The flow table is full and no flow of it is terminal.
IngestNoFlow(o) ==
  /\ Validates(o) /\ ~SourceRefused(o) /\ NoRoomForFlow(o)
  /\ Leaves(o, flows, endpoints)

\* Another key owns the identity: the flow is marked, without recompute_flow.
IngestCollides(o) ==
  /\ Admitted(o) /\ ~Identified(o)
  /\ Leaves(o, [flows EXCEPT ![Subject(o)].state = "Conflicting"], endpoints)

\* An endpoint is refused: a flow created for the observation remains.
IngestUnnamed(o) ==
  /\ Identified(o) /\ ~Named(o)
  /\ Leaves(o, AdmitFlow(o), RegisterIdentity(o.names).registry)

\* The observation is too far ahead of its receipt and clamping is off.
IngestSkewed(o) ==
  /\ Named(o) /\ ~Timely(o)
  /\ Leaves(o, AdmitFlow(o), RegisterIdentity(o.names).registry)

\* The generation table is full and nothing of it can be evicted.
IngestNoGeneration(o) ==
  /\ Timely(o) /\ ~Placed(o)
  /\ Leaves(o, AdmitFlow(o), RegisterIdentity(o.names).registry)

\* The source table of the generation is full, or the ledger of a source
\* that is bound refuses the observation: neither reaches recompute_flow.
IngestRefused(o) ==
  /\ Placed(o)
  /\ NoRoomForBinding(Placement(o), o) \/ o.src \in Bound(Placement(o), o)
  /\ Leaves(o, [AdmitFlow(o) EXCEPT ![Subject(o)] = Placement(o)],
            RegisterIdentity(o.names).registry)

\* The ledger takes the observation or knows it already.
IngestRecorded(o) ==
  /\ Placed(o) /\ ~NoRoomForBinding(Placement(o), o)
  /\ LET bound == [Bind(Placement(o), o) EXCEPT !.touched = now] IN
     \E decisions \in PossibleDecisions(bound) :
       Leaves(o, [AdmitFlow(o) EXCEPT ![Subject(o)] = RecomputeFlow(bound, decisions)],
              RegisterIdentity(o.names).registry)
  /\ EventsOf(flows') <= MaxEvents

Ingest(o) ==
  \/ IngestNoFlow(o)
  \/ IngestCollides(o)
  \/ IngestUnnamed(o)
  \/ IngestSkewed(o)
  \/ IngestNoGeneration(o)
  \/ IngestRefused(o)
  \/ IngestRecorded(o)

-----------------------------------------------------------------------------
(* The other operations.                                                   *)

Init ==
  /\ now = 1
  /\ flows = [f \in {} |-> 0] /\ sources = {} /\ retired = {}
  /\ endpoints = [e \in {} |-> 0]
  /\ asked = NoQuestion

TimePasses ==
  /\ now < MaxTime
  /\ now' = now + 1
  /\ UNCHANGED <<flows, sources, retired, endpoints, asked>>

\* recompute_flow on the flows of a set.
RecomputeAll(table, changing) ==
  \E decisions \in [changing -> UNION {PossibleDecisions(table[f]) : f \in changing}] :
    /\ \A f \in changing : decisions[f] \in PossibleDecisions(table[f])
    /\ flows' = [f \in DOMAIN table |->
                   IF f \in changing THEN RecomputeFlow(table[f], decisions[f]) ELSE table[f]]
    /\ EventsOf(flows') <= MaxEvents

\* tick_locked: a flow whose generations are all terminal is skipped, one
\* without generations is not.
Tick ==
  /\ RecomputeAll(flows, {f \in DOMAIN flows :
                            \/ DOMAIN flows[f].gens = {}
                            \/ \E g \in DOMAIN flows[f].gens :
                                 ~IsTerminal(flows[f].gens[g].state)})
  /\ UNCHANGED <<now, sources, retired, endpoints, asked>>

\* The bindings of a source leave the generations of a flow.
Unbind(flow, s) ==
  [flow EXCEPT !.gens = [g \in DOMAIN flow.gens |->
     [flow.gens[g] EXCEPT !.bound = Without(flow.gens[g].bound, s)]]]

\* retire_source: its bindings go and every flow is recomputed.
RetireSource(s) ==
  /\ s \in sources
  /\ retired' = retired \cup {s}
  /\ RecomputeAll([f \in DOMAIN flows |-> Unbind(flows[f], s)], DOMAIN flows)
  /\ UNCHANGED <<now, sources, endpoints, asked>>

\* attribute_current reads the current generation and releases the lock.
AskCurrent(f) ==
  /\ asked = NoQuestion
  /\ f \in DOMAIN flows
  /\ asked' = [flow |-> f, gen |-> flows[f].current]
  /\ UNCHANGED <<now, flows, sources, retired, endpoints>>

\* What attribute finds when it looks the generation up again.
Attributes(question) ==
  IF question.flow \notin DOMAIN flows THEN "NotFound"
  ELSE IF question.gen \notin DOMAIN flows[question.flow].gens THEN "GenerationNotFound"
  ELSE IF RequireCurrent /\ question.gen # flows[question.flow].current
       THEN "NotCurrentGeneration"
  ELSE "Ok"

\* The second critical section, which answers Attributes(asked).
AnswerCurrent ==
  /\ asked # NoQuestion
  /\ asked' = NoQuestion
  /\ UNCHANGED <<now, flows, sources, retired, endpoints>>

Next ==
  \/ TimePasses
  \/ \E o \in Observations : Ingest(o)
  \/ Tick
  \/ \E s \in Retirable : RetireSource(s)
  \/ \E f \in Asked : AskCurrent(f)
  \/ AnswerCurrent

Spec == Init /\ [][Next]_vars

-----------------------------------------------------------------------------
(* Queries.                                                                *)

\* The state snapshot_of reports: that of the current generation.
ReportedState(flow) ==
  IF DOMAIN flow.gens = {} THEN flow.state
  ELSE IF flow.current \in DOMAIN flow.gens THEN flow.gens[flow.current].state
  ELSE flow.gens[Max(DOMAIN flow.gens)].state

\* flow_matches, for a query about states, a generation and a source; 0 is a
\* filter left out.
FlowMatches(flow, query) ==
  /\ query.gen = 0 \/ query.gen \in DOMAIN flow.gens
  /\ query.src = 0 \/ \E g \in DOMAIN flow.gens : query.src \in DOMAIN flow.gens[g].bound
  /\ query.terminal \/ ~IsTerminal(ReportedState(flow))

\* The order in which a loop over the map of flows meets these identities.
InOrder(ids) ==
  CHOOSE s \in [1 .. Cardinality(ids) -> ids] :
    \A i, j \in 1 .. Cardinality(ids) : i < j => s[i] < s[j]

Mutant_TruncatedWhenFull(query, offset, limit) ==
  LET matching == InOrder({f \in DOMAIN flows : FlowMatches(flows[f], query)})
      behind   == SubSeq(matching, offset + 1, Len(matching))
  IN  [flows     |-> SubSeq(behind, 1, Min({limit, Len(behind)})),
       matched   |-> Len(matching),
       truncated |-> Len(behind) >= limit]

\* query: the matching flows in the order of their identities, the first
\* offset of them skipped, at most limit returned.
Page(query, offset, limit) ==
  LET matching == InOrder({f \in DOMAIN flows : FlowMatches(flows[f], query)})
      behind   == SubSeq(matching, offset + 1, Len(matching))
  IN  [flows     |-> SubSeq(behind, 1, Min({limit, Len(behind)})),
       matched   |-> Len(matching),
       truncated |-> Len(behind) > limit]

-----------------------------------------------------------------------------
\* Every table stays within its bound, the identity registry within that of
\* the flow table, and only known sources that are not retired are bound.
WithinBounds ==
  /\ Cardinality(sources) <= MaxSources /\ retired \subseteq sources
  /\ Cardinality(DOMAIN flows) <= MaxFlows /\ Cardinality(DOMAIN endpoints) <= MaxFlows
  /\ \A f \in DOMAIN flows :
       /\ Cardinality(DOMAIN flows[f].gens) <= MaxGenerations
       /\ flows[f].history.size <= MaxHistory
       /\ \A g \in DOMAIN flows[f].gens :
            /\ Cardinality(Bound(flows[f], [gen |-> g])) <= MaxSourcesPerFlow
            /\ Bound(flows[f], [gen |-> g]) \subseteq sources \ retired

\* Whatever was evicted, arrived late or was refused half way, the current
\* generation is retained and is the newest one, and the state that eviction
\* looks at is that generation's, except after an identity collision.
CurrentIsNewest ==
  \A f \in DOMAIN flows :
    LET flow == flows[f] IN
    IF DOMAIN flow.gens = {} THEN flow.current = 0 /\ ~IsTerminal(flow.state)
    ELSE /\ flow.current = Max(DOMAIN flow.gens)
         /\ flow.state \in {flow.gens[flow.current].state, "Conflicting"}

\* Two keys that hash to one identity are never merged: a flow holds evidence
\* of the key it was created for only, under the identity of that key, and
\* an endpoint identity belongs to one key.
KeysNeverMerge ==
  /\ \A f \in DOMAIN flows :
       /\ IdOf[flows[f].key] = f
       /\ \A g \in DOMAIN flows[f].gens : \A s \in DOMAIN flows[f].gens[g].bound :
            flows[f].gens[g].bound[s] = {flows[f].key}
  /\ \A e \in DOMAIN endpoints : NameId[endpoints[e]] = e

\* attribute_current reads the current generation in one critical section and
\* attributes it in another: whenever that one runs, it succeeds exactly when
\* the generation is still the current one of a flow still in the table.
AttributionFollowsCurrent ==
  asked # NoQuestion =>
    (Attributes(asked) = "Ok" <=> /\ asked.flow \in DOMAIN flows
                                  /\ asked.gen # 0
                                  /\ asked.gen = flows[asked.flow].current)

\* The tables agree with one another, and with what a reader does in two
\* steps, after any order of evidence, evictions, refusals, collisions,
\* retirements and ticks.
TablesCoherent ==
  WithinBounds /\ CurrentIsNewest /\ KeysNeverMerge /\ AttributionFollowsCurrent

Newest(events, n) == SubSeq(events, Len(events) - Min({n, Len(events)}) + 1, Len(events))

\* The ring holds the newest transitions in their order and counts the others,
\* history returns the newest rows of it and says when there are more, and
\* resizing keeps the newest.
RingKeepsNewest ==
  \A f \in DOMAIN flows :
    LET ring == flows[f].history
        all  == flows[f].pushed
        kept == Newest(all, MaxHistory)
    IN  /\ ToVector(ring) = kept
        /\ ring.dropped = Len(all) - Len(kept)
        /\ \A limit \in 0 .. MaxHistory + 1 :
             LET report == HistoryReport(ring, limit, MaxHistory) IN
             /\ report.events = IF limit = 0 THEN kept ELSE Newest(kept, limit)
             /\ report.truncated = (Len(report.events) < Len(kept))
        /\ \A capacity \in 1 .. MaxHistory + 1 :
             LET resized == SetCapacity(ring, capacity) IN
             /\ ToVector(resized) = Newest(kept, capacity)
             /\ resized.dropped + resized.size = Len(all)

\* The state of generation g after the first n of these transitions.
Said(events, g, n) ==
  LET last == Max({0} \cup {i \in 1 .. n : events[i].gen = g})
  IN  IF last = 0 THEN "Unknown" ELSE events[last].to

\* The transitions of a generation chain up to the state it is in. A terminal
\* state is left only by a generation that was evicted and then recreated.
HistoryExplainsState ==
  \A f \in DOMAIN flows :
    LET all == flows[f].pushed IN
    /\ \A g \in DOMAIN flows[f].gens : flows[f].gens[g].state = Said(all, g, Len(all))
    /\ \A i \in 1 .. Len(all) :
         LET said == Said(all, all[i].gen, i - 1) IN
         \/ all[i].from = said /\ ~IsTerminal(said)
         \/ all[i].from = "Unknown" /\ IsTerminal(said)

\* Making room takes only what is finished: a flow leaves the table only when
\* it is full and its current generation is terminal, and no terminal flow
\* that stays was touched earlier; a generation leaves its flow only when it
\* is terminal and superseded.
EvictionTakesOnlyFinished ==
  [][/\ \A f \in DOMAIN flows \ DOMAIN flows' :
          /\ Cardinality(DOMAIN flows) = MaxFlows
          /\ IsTerminal(ReportedState(flows[f]))
          /\ \A e \in DOMAIN flows \cap DOMAIN flows' :
               IsTerminal(flows[e].state) => flows[f].touched <= flows[e].touched
     /\ \A f \in DOMAIN flows \cap DOMAIN flows' :
          \A g \in DOMAIN flows[f].gens \ DOMAIN flows'[f].gens :
            IsTerminal(flows[f].gens[g].state) /\ g < flows'[f].current]_vars

Queries == {[gen |-> 0, src |-> 0, terminal |-> FALSE], [gen |-> 1, src |-> 0, terminal |-> TRUE],
            [gen |-> 0, src |-> 1, terminal |-> TRUE]}

\* The pages of a query that follow one another until one is not truncated
\* return every matching flow once and in the order of the identities, whatever
\* the size of a page.
PagesPartition ==
  \A query \in Queries : \A limit \in 1 .. MaxFlows :
    LET matching == {f \in DOMAIN flows : FlowMatches(flows[f], query)}
        pages    == [i \in 0 .. Cardinality(matching) |-> Page(query, i * limit, limit)]
    IN  /\ UNION {Range(pages[i].flows) : i \in DOMAIN pages} = matching
        /\ \A i, j \in DOMAIN pages :
             \A k \in DOMAIN pages[i].flows, l \in DOMAIN pages[j].flows :
               (i < j \/ (i = j /\ k < l)) => pages[i].flows[k] < pages[j].flows[l]
        /\ \A i \in DOMAIN pages :
             /\ Len(pages[i].flows) <= limit /\ pages[i].matched = Cardinality(matching)
             /\ pages[i].truncated <=> (i + 1) * limit < Cardinality(matching)

=============================================================================
