----------------------------- MODULE Lifecycle -----------------------------
(***************************************************************************)
(* One generation of one flow in the engine: evidence of several sources   *)
(* is ingested, sources are registered and retired, ticks advance the      *)
(* state, compaction writes a snapshot, and a restart rebuilds everything  *)
(* from the snapshot and the observations journalled behind it.            *)
(*                                                                         *)
(* The runtime is a record                                                 *)
(*   gen       [state, cause] of the generation                            *)
(*   sources   the descriptors of the known sources                        *)
(*   retired   the sources that were retired                               *)
(*   bind      the bindings, one per source that sent evidence:            *)
(*     evidence     what its ledger retains or has folded                  *)
(*     fence        the highest key a snapshot stands for, or 0            *)
(*     view         the cached fold; a call that invalidates it also       *)
(*                  recomputes it, so it is valid between calls. A copy of *)
(*                  a key with another content and another descriptor of   *)
(*                  the source do not invalidate it                        *)
(*     restored, reconfirmed                                               *)
(***************************************************************************)
EXTENDS Reconcile, Sequences

CONSTANTS Sources,        \* source identities, positive numbers
          Observations,   \* [src, key, digest, kind, count, at]
          Descriptor,     \* the descriptors each source may register with
          Retirable,      \* the sources an operator may retire
          MaxSkew,        \* Limits::max_clock_skew
          MaxTime,        \* bound on the clock
          MaxLog,         \* bound on the observations journalled behind a snapshot
          MaxRetirements, MaxCompactions, MaxRestarts

ASSUME LifecycleAssumption ==
  /\ Sources \subseteq Nat \ {0} /\ Retirable \subseteq Sources
  /\ MaxSkew \in Nat /\ MaxTime \in Nat \ {0} /\ MaxLog \in Nat
  /\ MaxRetirements \in Nat /\ MaxCompactions \in Nat /\ MaxRestarts \in Nat
  /\ \A o \in Observations : /\ o.src \in Sources /\ o.key \in Nat \ {0}
                             /\ o.at \in Nat \ {0} /\ o.count \in Nat
  /\ \A o, p \in Observations :
       o.src = p.src => /\ o.key < p.key => o.count <= p.count
                        /\ o.key = p.key /\ o.digest = p.digest => o = p
  /\ \A s \in Sources : \A d \in Descriptor[s] : d.authority \in Nat

VARIABLES now,        \* the clock of the engine
          rt,         \* the runtime
          snap,       \* the snapshot group in the journal
          log,        \* the observations behind it, as [obs, received]
          journaled,  \* the source descriptors behind it
          retirements, compactions, restarts

vars == <<now, rt, snap, log, journaled, retirements, compactions, restarts>>

Instants == 1 .. MaxTime

Unregistered == [registered |-> FALSE, authority |-> 0, advisory |-> FALSE,
                 completes |-> FALSE, resets |-> FALSE]

NoFunction == [s \in {} |-> 0]

EmptyRuntime == [gen |-> Decision("Unknown", "None"), sources |-> NoFunction,
                 retired |-> {}, bind |-> NoFunction]

NoSnapshot == [gen |-> Decision("Unknown", "None"), sources |-> NoFunction,
               evidence |-> NoFunction]

Without(f, s) == [r \in DOMAIN f \ {s} |-> f[r]]

With(f, s, v) == [r \in DOMAIN f \cup {s} |-> IF r = s THEN v ELSE f[r]]

-----------------------------------------------------------------------------
\* The observation as the ledger retains it: received at t, its own instant
\* clamped when it is further ahead than the tolerated skew.
Stored(o, t) ==
  [key |-> o.key, digest |-> o.digest, kind |-> o.kind, count |-> o.count,
   at |-> IF o.at > t + MaxSkew THEN t ELSE o.at, received |-> t]

\* recompute_flow.
Recompute(r, t) == [r EXCEPT !.gen = Decide(r.gen, r.bind, t)]

\* The same for a flow that may not exist: its first evidence moves it out
\* of Unknown.
Settle(r, t) == IF r.gen.state = "Unknown" THEN r ELSE Recompute(r, t)

Binding(r, s, replaying) ==
  IF s \in DOMAIN r.bind THEN r.bind[s]
  ELSE [evidence |-> {}, fence |-> 0, view |-> SourceView({}, r.sources[s]),
        restored |-> replaying, reconfirmed |-> ~replaying]

\* The ledger accepts: the cached fold is recomputed, and evidence that is
\* not replayed reconfirms the source.
Accepts(r, o, t, replaying) ==
  LET b        == Binding(r, o.src, replaying)
      evidence == b.evidence \cup {Stored(o, t)}
  IN  [b EXCEPT !.evidence = evidence,
                !.view = SourceView(evidence, r.sources[o.src]),
                !.reconfirmed = @ \/ ~replaying]

\* The ledger holds the key with another content: the smaller digest is
\* retained, and the cached fold stays as it is.
Settles(r, o, t, replaying) ==
  LET b == Binding(r, o.src, replaying) IN
  [b EXCEPT !.evidence = {IF e.key = o.key /\ o.digest < e.digest THEN Stored(o, t) ELSE e :
                            e \in @}]

\* An unknown source gets an entry without authority or capabilities.
WithSource(r, s) ==
  IF s \in DOMAIN r.sources THEN r
  ELSE [r EXCEPT !.sources = With(@, s, Unregistered)]

\* apply_locked at instant t, behind the journal.
ApplyLocked(incoming, o, t, replaying) ==
  LET r          == WithSource(incoming, o.src)
      b          == Binding(r, o.src, replaying)
      incumbents == {e \in b.evidence : e.key = o.key}
      bound(c)   == Recompute([r EXCEPT !.bind = With(@, o.src, c)], t)
  IN  IF o.src \in r.retired \/ o.key <= b.fence THEN r
      ELSE IF incumbents = {} THEN bound(Accepts(r, o, t, replaying))
      ELSE IF \E e \in incumbents : e.digest = o.digest THEN Recompute(r, t)
      ELSE bound(Settles(r, o, t, replaying))

-----------------------------------------------------------------------------
Init ==
  /\ now = 1
  /\ rt = EmptyRuntime /\ snap = NoSnapshot
  /\ log = <<>> /\ journaled = NoFunction
  /\ retirements = 0 /\ compactions = 0 /\ restarts = 0

TimePasses ==
  /\ now < MaxTime
  /\ now' = now + 1
  /\ UNCHANGED <<rt, snap, log, journaled, retirements, compactions, restarts>>

\* ingest: the observation is journalled before anything else is known of it.
Ingest(o) ==
  /\ Len(log) < MaxLog
  /\ log' = Append(log, [obs |-> o, received |-> now])
  /\ rt' = ApplyLocked(rt, o, now, FALSE)
  /\ UNCHANGED <<now, snap, journaled, retirements, compactions, restarts>>

\* register_source: a new source is journalled, an update of its descriptor
\* is not, and a source that sent evidence unregistered cannot be registered.
RegisterSource(s, d) ==
  /\ IF s \in DOMAIN rt.sources
     THEN /\ rt.sources[s].registered
          /\ rt' = [rt EXCEPT !.sources[s] = d, !.retired = @ \ {s}]
          /\ UNCHANGED journaled
     ELSE /\ rt' = [rt EXCEPT !.sources = With(@, s, d)]
          /\ journaled' = With(journaled, s, d)
  /\ UNCHANGED <<now, snap, log, retirements, compactions, restarts>>

\* retire_source: the bindings of the source are removed.
RetireSource(s) ==
  /\ s \in DOMAIN rt.sources
  /\ retirements < MaxRetirements
  /\ retirements' = retirements + 1
  /\ rt' = Settle([rt EXCEPT !.retired = @ \cup {s}, !.bind = Without(@, s)], now)
  /\ UNCHANGED <<now, snap, log, journaled, compactions, restarts>>

\* tick: any instant may be given, a terminal flow is skipped.
Tick(t) ==
  /\ rt.gen.state \notin Terminal \cup {"Unknown"}
  /\ rt' = Recompute(rt, t)
  /\ UNCHANGED <<now, snap, log, journaled, retirements, compactions, restarts>>

\* compact: persist_state replaces the journal.
Compact ==
  /\ compactions < MaxCompactions
  /\ compactions' = compactions + 1
  /\ snap' = [gen      |-> rt.gen,
              sources  |-> [s \in DOMAIN rt.sources \ rt.retired |-> rt.sources[s]],
              evidence |-> [s \in DOMAIN rt.bind |-> rt.bind[s].evidence]]
  /\ log' = <<>> /\ journaled' = NoFunction
  /\ UNCHANGED <<now, rt, retirements, restarts>>

Fence(evidence) == Latest({e.key : e \in evidence})

Mutant_RestoredIsConfirmed(evidence, descriptor) ==
  [evidence |-> evidence, fence |-> Fence(evidence), view |-> SourceView(evidence, descriptor),
   restored |-> TRUE, reconfirmed |-> TRUE]

Mutant_LosesNewest(evidence, descriptor) ==
  [evidence |-> {e \in evidence : e.key < Fence(evidence)}, fence |-> Fence(evidence),
   view |-> SourceView(evidence, descriptor), restored |-> TRUE, reconfirmed |-> FALSE]

\* A binding of the snapshot: its evidence is folded, so its highest key is a
\* fence, and nothing of it is reconfirmed.
RestoredBinding(evidence, descriptor) ==
  [evidence |-> evidence, fence |-> Fence(evidence), view |-> SourceView(evidence, descriptor),
   restored |-> TRUE, reconfirmed |-> FALSE]

\* The first half of restore_locked: the sources and the bindings.
Materialised ==
  LET sources == [s \in DOMAIN journaled \cup DOMAIN snap.sources |->
                    IF s \in DOMAIN journaled THEN journaled[s] ELSE snap.sources[s]] IN
  [gen |-> snap.gen, sources |-> sources, retired |-> {},
   bind |-> [s \in DOMAIN snap.evidence |-> RestoredBinding(snap.evidence[s], sources[s])]]

\* The second half: the observations are replayed in their order, each at the
\* instant it was received, and the flow is settled at the current one.
Replayed(r, observations) ==
  LET upTo[i \in 0 .. Len(observations)] ==
        IF i = 0 THEN r
        ELSE ApplyLocked(upTo[i - 1], observations[i].obs, observations[i].received, TRUE)
  IN  upTo[Len(observations)]

Restart ==
  /\ restarts < MaxRestarts
  /\ restarts' = restarts + 1
  /\ rt' = Settle(Replayed(Materialised, log), now)
  /\ UNCHANGED <<now, snap, log, journaled, retirements, compactions>>

Next ==
  \/ TimePasses
  \/ \E o \in Observations : Ingest(o)
  \/ \E s \in Retirable : RetireSource(s)
  \/ \E s \in Sources : \E d \in Descriptor[s] : RegisterSource(s, d)
  \/ \E t \in Instants : Tick(t)
  \/ Compact
  \/ Restart

Spec == Init /\ [][Next]_vars

-----------------------------------------------------------------------------
Restarting == restarts' # restarts

\* The runtime is well formed: a bound source is known, has evidence and is
\* not retired, and the bounds of the model hold.
TypeOK ==
  /\ now \in Instants
  /\ rt.gen.state \in States /\ rt.gen.cause \in Causes
  /\ DOMAIN rt.bind \subseteq DOMAIN rt.sources
  /\ DOMAIN rt.sources \subseteq Sources
  /\ rt.retired \subseteq DOMAIN rt.sources \ DOMAIN rt.bind
  /\ \A s \in DOMAIN rt.bind : rt.bind[s].evidence # {}
  /\ Len(log) <= MaxLog /\ retirements \in 0 .. MaxRetirements
  /\ compactions \in 0 .. MaxCompactions /\ restarts \in 0 .. MaxRestarts

\* "The smaller-digest rule is what makes the outcome independent of arrival
\* order; which copy wins does not depend on which arrived first"
\* (docs/semantics.md:48-50): the cached fold that every decision and every query
\* reads is the fold of the evidence retained under the source's descriptor. The
\* code does not keep this: when the copy with the smaller digest arrives second
\* the ledger exchanges the entry, and the conflict (src/engine.cpp:1078)
\* leaves the cache valid. MCLifecycle_conflict.cfg shows it.
CacheIsCurrent ==
  \A s \in DOMAIN rt.bind : rt.bind[s].view = SourceView(rt.bind[s].evidence, rt.sources[s])

\* A restart never resurrects liveness: with expiry enabled, what
\* restore_locked leaves behind is not Active, whatever the snapshot said and
\* whatever was replayed, unless every source of the generation was retired.
LivenessNotResurrected ==
  [][Restarting /\ ExpiryEnabled /\ rt'.gen.state = "Active" => DOMAIN rt'.bind = {}]_vars

\* With expiry enabled a tick at any instant leaves a generation Active only
\* if the newest progress of its sources lies within idle_after, or none is left
\* (the source that made it was retired, or declared an earlier end), and only
\* while the newest evidence, if there is any, lies within expire_after.
TickDeniesStaleLiveness ==
  \A t \in Instants :
    LET evidence == UNION {rt.bind[s].evidence : s \in DOMAIN rt.bind}
        progress == UNION {Progresses(rt.bind[s].evidence) : s \in DOMAIN rt.bind}
    IN  /\ ExpiryEnabled
        /\ rt.gen.state \notin Terminal \cup {"Unknown"}
        /\ Recompute(rt, t).gen.state = "Active"
        => /\ progress # {} => \E e \in progress : t - e.at <= IdleAfter
           /\ evidence # {} => \E e \in evidence : t - e.at <= ExpireAfter

\* A terminal state is never reopened within a run, and neither by a restart
\* once a snapshot records it.
TerminalIsFinal ==
  [][rt.gen.state \in Terminal /\ (Restarting => snap.gen.state = rt.gen.state)
       => rt'.gen.state = rt.gen.state]_vars

\* What the journal can rebuild of a source's evidence: the snapshot's and
\* all that lies above it.
Contents(S) == {<<e.key, e.digest>> : e \in S}

Rebuildable(s) ==
  LET recorded == IF s \in DOMAIN snap.evidence THEN snap.evidence[s] ELSE {}
  IN  {e \in rt.bind[s].evidence : e \in recorded \/ e.key > Fence(recorded)}

\* The descriptor and all the evidence of a source can be rebuilt.
Durable(s) ==
  /\ s \in DOMAIN Materialised.sources
  /\ Materialised.sources[s] = rt.sources[s]
  /\ Rebuildable(s) = rt.bind[s].evidence

\* A proven termination is a historical fact: a restart does not reopen a
\* generation that a source whose descriptor and evidence are durable has
\* declared terminated, however old the declaration is.
TerminationSurvivesRestart ==
  [][Restarting /\ rt.gen.state \in Terminal /\ (\E s \in Entitled(rt.bind) : Durable(s))
       => rt'.gen.state \in Terminal]_vars

\* A restart loses nothing of the evidence that the snapshot holds or that
\* was accepted above it.
RestartKeepsEvidence ==
  [][Restarting => \A s \in DOMAIN rt.bind : Rebuildable(s) # {} =>
       /\ s \in DOMAIN rt'.bind
       /\ Contents(Rebuildable(s)) \subseteq Contents(rt'.bind[s].evidence)]_vars

\* A restart loses no accepted evidence at all.
EvidenceSurvivesRestart ==
  [][Restarting => \A s \in DOMAIN rt.bind :
       /\ s \in DOMAIN rt'.bind
       /\ Contents(rt.bind[s].evidence) \subseteq Contents(rt'.bind[s].evidence)]_vars
=============================================================================
