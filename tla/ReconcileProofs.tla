--------------------------- MODULE ReconcileProofs ---------------------------
(***************************************************************************)
(* Proofs about the two components that weigh the evidence of a generation *)
(* source by source.                                                       *)
(*                                                                         *)
(* Lifecycle: what a restart and a long run of the engine may not do to    *)
(* the state of a generation, for every set of sources, descriptors and    *)
(* observations and any number of retirements, compactions and restarts.   *)
(*                                                                         *)
(* Attribution: the safety of one attribution for every word, generation   *)
(* and policy. The shares sum to the total, without saturation they are    *)
(* those of the largest-remainder rule, and what is published was measured *)
(* by a trusted source. Sums are folds over finite sets; what is said of   *)
(* them is proved by induction over the subsets of a finite set.           *)
(***************************************************************************)
EXTENDS Lifecycle, Attribution, SequenceTheorems, FiniteSetTheorems, ProofLemmas, TLAPS

\* No source sends two contents under one key.
OneContentPerKey ==
  \A o, p \in Observations : o.src = p.src /\ o.key = p.key => o.digest = p.digest

\* No source changes its descriptor.
OneDescriptor ==
  \A s \in Sources : \A d, e \in Descriptor[s] : d = e

\* No source declares both ends of a flow.
OneDeclaration ==
  \A o, p \in Observations :
    o.src = p.src /\ o.kind \in {"Close", "Reset"} /\ p.kind \in {"Close", "Reset"}
      => o.kind = p.kind

\* A descriptor the engine may hold for a source.
Known(s, d) == d \in Descriptor[s] \/ d = Unregistered

\* Evidence of a source is something it sent, at a known instant.
Sent(s, e) ==
  /\ e.at \in Nat \ {0}
  /\ \E o \in Observations : /\ o.src = s /\ o.key = e.key
                             /\ o.digest = e.digest /\ o.kind = e.kind

\* An observation in the journal.
Entry == [obs : Observations, received : Nat \ {0}]

\* A binding of a source.
SoundBinding(s, b) ==
  /\ b = [evidence |-> b.evidence, fence |-> b.fence, view |-> b.view,
          restored |-> b.restored, reconfirmed |-> b.reconfirmed]
  /\ IsFiniteSet(b.evidence)
  /\ \A e \in b.evidence : Sent(s, e)
  /\ Known(s, b.view.descriptor)

\* The runtime: its bindings are of known sources that are not retired.
SoundRuntime(r) ==
  /\ r = [gen |-> r.gen, sources |-> r.sources, retired |-> r.retired, bind |-> r.bind]
  /\ r.sources = [s \in DOMAIN r.sources |-> r.sources[s]]
  /\ r.bind = [s \in DOMAIN r.bind |-> r.bind[s]]
  /\ DOMAIN r.sources \subseteq Sources
  /\ \A s \in DOMAIN r.sources : Known(s, r.sources[s])
  /\ IsFiniteSet(DOMAIN r.bind)
  /\ DOMAIN r.bind \subseteq DOMAIN r.sources \ r.retired
  /\ \A s \in DOMAIN r.bind : SoundBinding(s, r.bind[s])

\* The journal: the snapshot and what lies behind it.
SoundJournal ==
  /\ IsFiniteSet(DOMAIN snap.evidence)
  /\ DOMAIN snap.evidence \subseteq DOMAIN snap.sources
  /\ DOMAIN snap.sources \subseteq Sources
  /\ \A s \in DOMAIN snap.sources : Known(s, snap.sources[s])
  /\ \A s \in DOMAIN snap.evidence : /\ IsFiniteSet(snap.evidence[s])
                                     /\ \A e \in snap.evidence[s] : Sent(s, e)
  /\ DOMAIN journaled \subseteq Sources
  /\ \A s \in DOMAIN journaled : Known(s, journaled[s])
  /\ now \in Nat \ {0} /\ restarts \in Nat /\ log \in Seq(Entry)

\* The inductive invariant.
IInv == SoundRuntime(rt) /\ SoundJournal

\* Nothing of the runtime was seen after a restart.
NothingConfirmed(r) ==
  \A s \in DOMAIN r.bind : r.bind[s].restored = TRUE /\ r.bind[s].reconfirmed = FALSE

\* The cached folds of a runtime are those of its evidence.
Current(r) ==
  \A s \in DOMAIN r.bind : r.bind[s].view = SourceView(r.bind[s].evidence, r.sources[s])

\* They are those of its evidence, under some descriptor.
Folded(r) ==
  \A s \in DOMAIN r.bind :
    r.bind[s].view = SourceView(r.bind[s].evidence, r.bind[s].view.descriptor)

-----------------------------------------------------------------------------
\* recompute_flow changes the state of the generation only.
LEMMA RecomputeKeeps ==
  ASSUME NEW r, NEW t, SoundRuntime(r)
  PROVE  LET q == Recompute(r, t) IN
         /\ SoundRuntime(q) /\ q.sources = r.sources /\ q.retired = r.retired /\ q.bind = r.bind
         /\ q.gen = Decide(r.gen, r.bind, t)
         /\ r.gen.state \in Terminal => q.gen = r.gen
<1> DEFINE q == Recompute(r, t)
<1>1. r = [gen |-> r.gen, sources |-> r.sources, retired |-> r.retired, bind |-> r.bind]
  BY DEF SoundRuntime
<1>2. q = [gen |-> Decide(r.gen, r.bind, t), sources |-> r.sources, retired |-> r.retired,
           bind |-> r.bind]
  BY <1>1 DEF Recompute
<1> HIDE DEF q
<1>3. /\ q.sources = r.sources /\ q.retired = r.retired /\ q.bind = r.bind
      /\ q.gen = Decide(r.gen, r.bind, t)
  BY <1>2
<1>4. q = [gen |-> q.gen, sources |-> q.sources, retired |-> q.retired, bind |-> q.bind]
  BY <1>2
<1>5. SoundRuntime(q)
  BY <1>3, <1>4 DEF SoundRuntime
<1>6. r.gen.state \in Terminal => q.gen = r.gen
  BY <1>3 DEF Decide
<1> QED
  BY <1>3, <1>5, <1>6 DEF q

\* Settle is recompute_flow, or nothing.
LEMMA SettleKeeps ==
  ASSUME NEW r, NEW t, SoundRuntime(r)
  PROVE  LET q == Settle(r, t) IN
         /\ SoundRuntime(q) /\ q.sources = r.sources /\ q.retired = r.retired /\ q.bind = r.bind
         /\ q.gen = IF r.gen.state = "Unknown" THEN r.gen ELSE Decide(r.gen, r.bind, t)
         /\ r.gen.state \in Terminal => q.gen = r.gen
  BY RecomputeKeeps DEF Settle

\* An unknown source gets an entry.
LEMMA WithSourceKeeps ==
  ASSUME NEW r, NEW s \in Sources, SoundRuntime(r)
  PROVE  LET q == WithSource(r, s) IN
         /\ SoundRuntime(q) /\ q.gen = r.gen /\ q.retired = r.retired /\ q.bind = r.bind
         /\ s \in DOMAIN q.sources
         /\ \A u \in DOMAIN r.sources : u \in DOMAIN q.sources /\ q.sources[u] = r.sources[u]
<1> DEFINE q == WithSource(r, s)
<1>1. CASE s \in DOMAIN r.sources
  BY <1>1 DEF WithSource
<1>2. CASE s \notin DOMAIN r.sources
  <2>1. r = [gen |-> r.gen, sources |-> r.sources, retired |-> r.retired, bind |-> r.bind]
    BY DEF SoundRuntime
  <2>2. q = [gen |-> r.gen, sources |-> With(r.sources, s, Unregistered),
             retired |-> r.retired, bind |-> r.bind]
    BY <1>2, <2>1 DEF WithSource
  <2> HIDE DEF q
  <2>3. /\ q.sources = With(r.sources, s, Unregistered) /\ q.retired = r.retired
        /\ q.bind = r.bind /\ q.gen = r.gen
        /\ q = [gen |-> q.gen, sources |-> q.sources, retired |-> q.retired, bind |-> q.bind]
    BY <2>2
  <2>4. /\ DOMAIN q.sources = DOMAIN r.sources \cup {s}
        /\ q.sources = [u \in DOMAIN q.sources |-> q.sources[u]]
        /\ \A u \in DOMAIN r.sources : q.sources[u] = r.sources[u]
        /\ q.sources[s] = Unregistered
    BY <1>2, <2>3 DEF With
  <2>5. \A u \in DOMAIN q.sources : Known(u, q.sources[u])
    BY <2>4 DEF SoundRuntime, Known
  <2>6. DOMAIN q.bind \subseteq DOMAIN q.sources \ q.retired
    BY <2>3, <2>4 DEF SoundRuntime
  <2>7. SoundRuntime(q)
    BY <2>3, <2>4, <2>5, <2>6 DEF SoundRuntime
  <2> QED
    BY <2>3, <2>4, <2>7 DEF q
<1> QED
  BY <1>1, <1>2

\* The binding of a source, old or new, and what insert makes of it.
LEMMA BindingIsSound ==
  ASSUME NEW r, SoundRuntime(r), NEW s \in DOMAIN r.sources, NEW replaying \in BOOLEAN
  PROVE  LET b == Binding(r, s, replaying) IN
         /\ SoundBinding(s, b)
         /\ replaying /\ NothingConfirmed(r) => b.restored = TRUE /\ b.reconfirmed = FALSE
         /\ s \in DOMAIN r.bind => b = r.bind[s]
         /\ s \notin DOMAIN r.bind => b.evidence = {} /\ b.fence = 0
<1> DEFINE b == Binding(r, s, replaying)
<1>1. CASE s \in DOMAIN r.bind
  BY <1>1 DEF Binding, SoundRuntime, NothingConfirmed
<1>2. CASE s \notin DOMAIN r.bind
  <2>1. b = [evidence |-> {}, fence |-> 0, view |-> SourceView({}, r.sources[s]),
             restored |-> replaying, reconfirmed |-> ~replaying]
    BY <1>2 DEF Binding
  <2>2. SourceView({}, r.sources[s]).descriptor = r.sources[s]
    BY DEF SourceView
  <2> HIDE DEF b
  <2>3. /\ b.evidence = {} /\ b.fence = 0 /\ b.view = SourceView({}, r.sources[s])
        /\ b.restored = replaying /\ b.reconfirmed = ~replaying
        /\ b = [evidence |-> b.evidence, fence |-> b.fence, view |-> b.view,
                restored |-> b.restored, reconfirmed |-> b.reconfirmed]
    BY <2>1
  <2>4. Known(s, b.view.descriptor)
    BY <2>2, <2>3 DEF SoundRuntime
  <2>5. SoundBinding(s, b)
    BY <2>3, <2>4, FS_EmptySet DEF SoundBinding
  <2> QED
    BY <1>2, <2>3, <2>5 DEF b
<1> QED
  BY <1>1, <1>2

\* Evidence is kept as its source sent it, whatever the instant.
LEMMA StoredIsSent ==
  ASSUME NEW o \in Observations, NEW t \in Nat \ {0}
  PROVE  Sent(o.src, Stored(o, t))
  BY LifecycleAssumption DEF Sent, Stored

\* The binding that accepted evidence leaves behind is sound, and evidence replayed into
\* a runtime without confirmed bindings confirms none.
LEMMA AcceptsIsSound ==
  ASSUME NEW r, SoundRuntime(r), NEW o \in Observations, NEW t \in Nat \ {0},
         NEW replaying \in BOOLEAN,
         o.src \in DOMAIN r.sources
  PROVE  LET c == Accepts(r, o, t, replaying) IN
         /\ SoundBinding(o.src, c)
         /\ replaying /\ NothingConfirmed(r) => c.restored = TRUE /\ c.reconfirmed = FALSE
         /\ c.view = SourceView(c.evidence, r.sources[o.src])
         /\ c.view.descriptor = r.sources[o.src]
<1> DEFINE b == Binding(r, o.src, replaying)
           evidence == b.evidence \cup {Stored(o, t)}
           c == Accepts(r, o, t, replaying)
<1>1. /\ SoundBinding(o.src, b)
      /\ replaying /\ NothingConfirmed(r) => b.restored = TRUE /\ b.reconfirmed = FALSE
  BY BindingIsSound
<1>2. b = [evidence |-> b.evidence, fence |-> b.fence, view |-> b.view,
           restored |-> b.restored, reconfirmed |-> b.reconfirmed]
  BY <1>1 DEF SoundBinding
<1>3. c = [b EXCEPT !.evidence = evidence, !.view = SourceView(evidence, r.sources[o.src]),
                    !.reconfirmed = @ \/ ~replaying]
  BY DEF Accepts
<1> HIDE DEF b, evidence
<1>4. c = [evidence |-> evidence, fence |-> b.fence,
           view |-> SourceView(evidence, r.sources[o.src]),
           restored |-> b.restored, reconfirmed |-> b.reconfirmed \/ ~replaying]
  BY <1>2, <1>3
<1> HIDE DEF c
<1>5. /\ c.evidence = evidence /\ c.view = SourceView(evidence, r.sources[o.src])
      /\ c.restored = b.restored /\ c.reconfirmed = (b.reconfirmed \/ ~replaying)
      /\ c = [evidence |-> c.evidence, fence |-> c.fence, view |-> c.view,
              restored |-> c.restored, reconfirmed |-> c.reconfirmed]
  BY <1>4
<1>6. IsFiniteSet(evidence) /\ \A e \in evidence : Sent(o.src, e)
  <2>1. IsFiniteSet(b.evidence) /\ \A e \in b.evidence : Sent(o.src, e)
    BY <1>1 DEF SoundBinding
  <2>2. Sent(o.src, Stored(o, t))
    BY StoredIsSent
  <2> QED
    BY <2>1, <2>2, FS_AddElement DEF evidence
<1>7. c.view.descriptor = r.sources[o.src]
  BY <1>5 DEF SourceView
<1>8. Known(o.src, c.view.descriptor)
  BY <1>7 DEF SoundRuntime
<1>9. SoundBinding(o.src, c)
  BY <1>5, <1>6, <1>8 DEF SoundBinding
<1> QED
  BY <1>1, <1>5, <1>7, <1>9 DEF c

\* What the ledger holds after it: the evidence is added and the fence stays.
LEMMA AcceptsIs ==
  ASSUME NEW r, SoundRuntime(r), NEW o \in Observations, NEW t, NEW replaying \in BOOLEAN,
         o.src \in DOMAIN r.sources
  PROVE  LET b == Binding(r, o.src, replaying)
             c == Accepts(r, o, t, replaying)
         IN  c.evidence = b.evidence \cup {Stored(o, t)} /\ c.fence = b.fence
<1> DEFINE b == Binding(r, o.src, replaying)
           evidence == b.evidence \cup {Stored(o, t)}
           seen == SourceView(evidence, r.sources[o.src])
           c == Accepts(r, o, t, replaying)
<1>1. b = [evidence |-> b.evidence, fence |-> b.fence, view |-> b.view,
           restored |-> b.restored, reconfirmed |-> b.reconfirmed]
  BY BindingIsSound DEF SoundBinding
<1>2. c = [b EXCEPT !.evidence = evidence, !.view = seen, !.reconfirmed = @ \/ ~replaying]
  BY DEF Accepts
<1> HIDE DEF b, c, evidence, seen
<1>3. c.evidence = evidence /\ c.fence = b.fence
  BY <1>1, <1>2
<1> QED
  BY <1>3 DEF b, c, evidence

\* The binding that a second copy of a retained key leaves behind is sound, likewise.
LEMMA SettlesIsSound ==
  ASSUME NEW r, SoundRuntime(r), NEW o \in Observations, NEW t \in Nat \ {0},
         NEW replaying \in BOOLEAN,
         o.src \in DOMAIN r.sources
  PROVE  LET c == Settles(r, o, t, replaying) IN
         /\ SoundBinding(o.src, c)
         /\ replaying /\ NothingConfirmed(r) => c.restored = TRUE /\ c.reconfirmed = FALSE
<1> DEFINE b == Binding(r, o.src, replaying)
           evidence == {IF e.key = o.key /\ o.digest < e.digest THEN Stored(o, t) ELSE e :
                          e \in b.evidence}
           c == Settles(r, o, t, replaying)
<1>1. /\ SoundBinding(o.src, b)
      /\ replaying /\ NothingConfirmed(r) => b.restored = TRUE /\ b.reconfirmed = FALSE
  BY BindingIsSound
<1>2. b = [evidence |-> b.evidence, fence |-> b.fence, view |-> b.view,
           restored |-> b.restored, reconfirmed |-> b.reconfirmed]
  BY <1>1 DEF SoundBinding
<1>3. c = [b EXCEPT !.evidence = evidence]
  BY DEF Settles
<1>4. IsFiniteSet(evidence) /\ \A e \in evidence : Sent(o.src, e)
  <2>1. IsFiniteSet(b.evidence) /\ \A e \in b.evidence : Sent(o.src, e)
    BY <1>1 DEF SoundBinding
  <2>2. Sent(o.src, Stored(o, t))
    BY StoredIsSent
  <2>3. IsFiniteSet(evidence)
    <3> DEFINE f == [e \in b.evidence |->
                      IF e.key = o.key /\ o.digest < e.digest THEN Stored(o, t) ELSE e]
    <3>1. f \in Surjection(b.evidence, evidence)
      BY DEF Surjection
    <3> HIDE DEF evidence, f
    <3> QED
      BY <2>1, <3>1, FS_Surjection
  <2> QED
    BY <2>1, <2>2, <2>3
<1> HIDE DEF b, evidence
<1>5. c = [evidence |-> evidence, fence |-> b.fence, view |-> b.view,
           restored |-> b.restored, reconfirmed |-> b.reconfirmed]
  BY <1>2, <1>3
<1> HIDE DEF c
<1>6. /\ c.evidence = evidence /\ c.view = b.view
      /\ c.restored = b.restored /\ c.reconfirmed = b.reconfirmed
      /\ c = [evidence |-> c.evidence, fence |-> c.fence, view |-> c.view,
              restored |-> c.restored, reconfirmed |-> c.reconfirmed]
  BY <1>5
<1>7. SoundBinding(o.src, c)
  BY <1>1, <1>4, <1>6 DEF SoundBinding
<1> QED
  BY <1>1, <1>6, <1>7 DEF c

\* A binding put into the runtime.
LEMMA BindPutKeeps ==
  ASSUME NEW r, SoundRuntime(r), NEW s \in DOMAIN r.sources, s \notin r.retired,
         NEW c, SoundBinding(s, c)
  PROVE  LET p == [r EXCEPT !.bind = With(@, s, c)] IN
         /\ SoundRuntime(p)
         /\ p.sources = r.sources /\ p.retired = r.retired /\ p.gen = r.gen
         /\ DOMAIN p.bind = DOMAIN r.bind \cup {s} /\ p.bind[s] = c
         /\ \A u \in DOMAIN r.bind : u # s => p.bind[u] = r.bind[u]
<1> DEFINE p == [r EXCEPT !.bind = With(@, s, c)]
<1>1. r = [gen |-> r.gen, sources |-> r.sources, retired |-> r.retired, bind |-> r.bind]
  BY DEF SoundRuntime
<1>2. p = [gen |-> r.gen, sources |-> r.sources, retired |-> r.retired,
           bind |-> With(r.bind, s, c)]
  BY <1>1
<1> HIDE DEF p
<1>3. /\ p.sources = r.sources /\ p.retired = r.retired /\ p.gen = r.gen
      /\ p.bind = With(r.bind, s, c)
      /\ p = [gen |-> p.gen, sources |-> p.sources, retired |-> p.retired, bind |-> p.bind]
  BY <1>2
<1>4. /\ DOMAIN p.bind = DOMAIN r.bind \cup {s} /\ p.bind[s] = c
      /\ \A u \in DOMAIN r.bind : u # s => p.bind[u] = r.bind[u]
      /\ p.bind = [u \in DOMAIN p.bind |-> p.bind[u]]
  BY <1>3 DEF With
<1>5. IsFiniteSet(DOMAIN p.bind)
  BY <1>4, FS_AddElement DEF SoundRuntime
<1>6. DOMAIN p.bind \subseteq DOMAIN p.sources \ p.retired
  BY <1>3, <1>4 DEF SoundRuntime
<1>7. \A u \in DOMAIN p.bind : SoundBinding(u, p.bind[u])
  BY <1>4 DEF SoundRuntime
<1>8. SoundRuntime(p)
  BY <1>3, <1>4, <1>5, <1>6, <1>7 DEF SoundRuntime
<1> QED
  BY <1>3, <1>4, <1>8 DEF p

\* And the flow recomputed.
LEMMA BindKeeps ==
  ASSUME NEW r, SoundRuntime(r), NEW s \in DOMAIN r.sources, s \notin r.retired,
         NEW c, SoundBinding(s, c), NEW t
  PROVE  LET q == Recompute([r EXCEPT !.bind = With(@, s, c)], t) IN
         /\ SoundRuntime(q) /\ q.sources = r.sources /\ q.retired = r.retired
         /\ DOMAIN q.bind = DOMAIN r.bind \cup {s} /\ q.bind[s] = c
         /\ \A u \in DOMAIN r.bind : u # s => q.bind[u] = r.bind[u]
         /\ r.gen.state \in Terminal => q.gen = r.gen
<1> DEFINE p == [r EXCEPT !.bind = With(@, s, c)]
<1>1. /\ SoundRuntime(p)
      /\ p.sources = r.sources /\ p.retired = r.retired /\ p.gen = r.gen
      /\ DOMAIN p.bind = DOMAIN r.bind \cup {s} /\ p.bind[s] = c
      /\ \A u \in DOMAIN r.bind : u # s => p.bind[u] = r.bind[u]
  BY BindPutKeeps
<1> HIDE DEF p
<1>2. LET q == Recompute(p, t) IN
      /\ SoundRuntime(q) /\ q.sources = p.sources /\ q.retired = p.retired /\ q.bind = p.bind
      /\ p.gen.state \in Terminal => q.gen = p.gen
  BY <1>1, RecomputeKeeps
<1> QED
  BY <1>1, <1>2 DEF p

\* apply_locked: the runtime stays sound, a terminal generation stays as it
\* is, a replay confirms nothing, and the cached folds stay current unless a
\* second content of a key is settled.
LEMMA ApplyKeeps ==
  ASSUME NEW incoming, SoundRuntime(incoming), NEW o \in Observations, NEW t \in Nat \ {0},
         NEW replaying \in BOOLEAN
  PROVE  LET q == ApplyLocked(incoming, o, t, replaying) IN
         /\ SoundRuntime(q)
         /\ incoming.gen.state \in Terminal => q.gen = incoming.gen
         /\ replaying /\ NothingConfirmed(incoming) => NothingConfirmed(q)
         /\ OneContentPerKey /\ Current(incoming) => Current(q)
         /\ OneContentPerKey /\ Folded(incoming) => Folded(q)
<1> DEFINE q == ApplyLocked(incoming, o, t, replaying)
           r == WithSource(incoming, o.src)
           b == Binding(r, o.src, replaying)
           incumbents == {e \in b.evidence : e.key = o.key}
           bound(c) == Recompute([r EXCEPT !.bind = With(@, o.src, c)], t)
<1>1. o.src \in Sources
  BY LifecycleAssumption
<1>2. /\ SoundRuntime(r) /\ r.gen = incoming.gen /\ r.bind = incoming.bind
      /\ o.src \in DOMAIN r.sources
      /\ \A u \in DOMAIN incoming.sources : r.sources[u] = incoming.sources[u]
  BY <1>1, WithSourceKeeps
<1>3. /\ NothingConfirmed(incoming) => NothingConfirmed(r)
      /\ Current(incoming) => Current(r)
      /\ Folded(incoming) => Folded(r)
  <2>1. DOMAIN incoming.bind \subseteq DOMAIN incoming.sources
    BY DEF SoundRuntime
  <2> QED
    BY <1>2, <2>1 DEF NothingConfirmed, Current, Folded
<1>4. q = IF o.src \in r.retired \/ o.key <= b.fence THEN r
          ELSE IF incumbents = {} THEN bound(Accepts(r, o, t, replaying))
          ELSE IF \E e \in incumbents : e.digest = o.digest THEN Recompute(r, t)
          ELSE bound(Settles(r, o, t, replaying))
  BY Zenon DEF ApplyLocked
<1>5. ASSUME NEW c, SoundBinding(o.src, c), o.src \notin r.retired, q = bound(c)
      PROVE  /\ SoundRuntime(q)
             /\ incoming.gen.state \in Terminal => q.gen = incoming.gen
             /\ q.sources = r.sources
             /\ DOMAIN q.bind = DOMAIN r.bind \cup {o.src} /\ q.bind[o.src] = c
             /\ \A u \in DOMAIN r.bind : u # o.src => q.bind[u] = r.bind[u]
  <2> HIDE DEF q, r
  <2> QED BY <1>2, <1>5, BindKeeps
<1>6. CASE q = r
  BY <1>2, <1>3, <1>6
<1>7. CASE q = Recompute(r, t)
  <2> HIDE DEF q, r
  <2>1. /\ SoundRuntime(q) /\ q.sources = r.sources /\ q.bind = r.bind
        /\ r.gen.state \in Terminal => q.gen = r.gen
    BY <1>2, <1>7, RecomputeKeeps
  <2>2. /\ NothingConfirmed(r) => NothingConfirmed(q)
        /\ Current(r) => Current(q)
        /\ Folded(r) => Folded(q)
    BY <2>1 DEF NothingConfirmed, Current, Folded
  <2>3. /\ SoundRuntime(q)
        /\ incoming.gen.state \in Terminal => q.gen = incoming.gen
        /\ replaying /\ NothingConfirmed(incoming) => NothingConfirmed(q)
        /\ OneContentPerKey /\ Current(incoming) => Current(q)
        /\ OneContentPerKey /\ Folded(incoming) => Folded(q)
    BY <1>2, <1>3, <2>1, <2>2
  <2> QED
    BY <2>3 DEF q
<1>8. CASE o.src \notin r.retired /\ q = bound(Accepts(r, o, t, replaying))
  <2> DEFINE c == Accepts(r, o, t, replaying)
  <2>1. /\ SoundBinding(o.src, c)
        /\ replaying /\ NothingConfirmed(r) => c.restored = TRUE /\ c.reconfirmed = FALSE
        /\ c.view = SourceView(c.evidence, r.sources[o.src])
        /\ c.view.descriptor = r.sources[o.src]
    <3> HIDE DEF r
    <3>1. SoundRuntime(r) /\ o.src \in DOMAIN r.sources
      BY <1>2
    <3> QED
      BY ONLY <3>1, o \in Observations, t \in Nat \ {0}, replaying \in BOOLEAN, AcceptsIsSound
  <2>2. /\ SoundRuntime(q)
        /\ incoming.gen.state \in Terminal => q.gen = incoming.gen
        /\ q.sources = r.sources
        /\ DOMAIN q.bind = DOMAIN r.bind \cup {o.src} /\ q.bind[o.src] = c
        /\ \A u \in DOMAIN r.bind : u # o.src => q.bind[u] = r.bind[u]
    BY <1>5, <1>8, <2>1
  <2> HIDE DEF q, c, r
  <2>3. /\ replaying /\ NothingConfirmed(r) => NothingConfirmed(q)
        /\ Current(r) => Current(q)
        /\ Folded(r) => Folded(q)
    BY <2>1, <2>2 DEF NothingConfirmed, Current, Folded
  <2>4. /\ SoundRuntime(q)
        /\ incoming.gen.state \in Terminal => q.gen = incoming.gen
        /\ replaying /\ NothingConfirmed(incoming) => NothingConfirmed(q)
        /\ OneContentPerKey /\ Current(incoming) => Current(q)
        /\ OneContentPerKey /\ Folded(incoming) => Folded(q)
    BY <1>3, <2>2, <2>3
  <2> QED
    BY <2>4 DEF q
<1>9. CASE /\ o.src \notin r.retired /\ q = bound(Settles(r, o, t, replaying))
           /\ \E e \in incumbents : e.digest # o.digest
  <2> DEFINE c == Settles(r, o, t, replaying)
  <2>1. /\ SoundBinding(o.src, c)
        /\ replaying /\ NothingConfirmed(r) => c.restored = TRUE /\ c.reconfirmed = FALSE
    BY <1>2, SettlesIsSound
  <2>2. /\ SoundRuntime(q)
        /\ incoming.gen.state \in Terminal => q.gen = incoming.gen
        /\ q.sources = r.sources
        /\ DOMAIN q.bind = DOMAIN r.bind \cup {o.src} /\ q.bind[o.src] = c
        /\ \A u \in DOMAIN r.bind : u # o.src => q.bind[u] = r.bind[u]
    BY <1>5, <1>9, <2>1
  <2>3. ~OneContentPerKey
    <3>1. SoundBinding(o.src, b)
      BY <1>2, BindingIsSound
    <3>2. PICK e \in b.evidence : e.key = o.key /\ e.digest # o.digest
      BY <1>9
    <3>3. PICK p \in Observations : p.src = o.src /\ p.key = e.key /\ p.digest = e.digest
      BY <3>1, <3>2 DEF SoundBinding, Sent
    <3> QED
      BY <3>2, <3>3 DEF OneContentPerKey
  <2> HIDE DEF q, c, r
  <2>4. replaying /\ NothingConfirmed(r) => NothingConfirmed(q)
    BY <2>1, <2>2 DEF NothingConfirmed
  <2>5. /\ SoundRuntime(q)
        /\ incoming.gen.state \in Terminal => q.gen = incoming.gen
        /\ replaying /\ NothingConfirmed(incoming) => NothingConfirmed(q)
        /\ OneContentPerKey /\ Current(incoming) => Current(q)
        /\ OneContentPerKey /\ Folded(incoming) => Folded(q)
    BY <1>3, <2>2, <2>3, <2>4
  <2> QED
    BY <2>5 DEF q
<1> QED
  <2> HIDE DEF q, r, b, bound
  <2> QED BY <1>4, <1>6, <1>7, <1>8, <1>9 DEF q

\* The runtimes a replay passes through.
Replays(f, r, observations) ==
  /\ f[0] = r
  /\ \A i \in 1 .. Len(observations) :
       f[i] = ApplyLocked(f[i - 1], observations[i].obs, observations[i].received, TRUE)
  /\ Replayed(r, observations) = f[Len(observations)]

\* The recursion of a replay is defined: it runs through apply_locked, one
\* observation after the other.
LEMMA ReplayRecurs ==
  ASSUME NEW r, NEW observations, Len(observations) \in Nat
  PROVE  \E f : Replays(f, r, observations)
<1> DEFINE n == Len(observations)
           Step(q, i) == ApplyLocked(q, observations[i].obs, observations[i].received, TRUE)
           upTo[i \in 0 .. n] == IF i = 0 THEN r
             ELSE ApplyLocked(upTo[i - 1], observations[i].obs, observations[i].received, TRUE)
           Defines(f, k) == f = [i \in 0 .. k |-> IF i = 0 THEN r ELSE Step(f[i - 1], i)]
           Undefined == {k \in 0 .. n : ~ \E f : Defines(f, k)}
<1>1. Replayed(r, observations) = upTo[n]
  BY DEF Replayed
<1>2. \E f : Defines(f, n)
  <2> SUFFICES ASSUME ~ \E f : Defines(f, n) PROVE FALSE
    OBVIOUS
  <2>1. Undefined \in SUBSET Nat /\ n \in Undefined
    <3> HIDE DEF Defines, n
    <3>1. n \in 0 .. n /\ Undefined \in SUBSET Nat
      BY DEF n
    <3> QED BY <3>1, Zenon
  <2> HIDE DEF Undefined
  <2>2. PICK k \in Undefined : \A j \in Undefined : k <= j
    BY <2>1, LeastNumber
  <2>3. k \in 0 .. n /\ ~ \E f : Defines(f, k)
    BY DEF Undefined
  <2> HIDE DEF Step
  <2>4. k # 0
    <3> DEFINE zero == [i \in 0 .. 0 |-> r]
    <3>1. zero = [i \in 0 .. 0 |-> IF i = 0 THEN r ELSE Step(zero[i - 1], i)]
      OBVIOUS
    <3> QED
      BY <2>3, <3>1
  <2>5. k - 1 \in 0 .. n /\ ~(k <= k - 1) /\ k \in Nat
    BY <2>3, <2>4
  <2>6. PICK f : Defines(f, k - 1)
    BY <2>2, <2>5 DEF Undefined
  <2> DEFINE g == [i \in 0 .. k |-> IF i = k THEN Step(f[k - 1], k) ELSE f[i]]
  <2>7. ASSUME NEW i \in 0 .. k
        PROVE  g[i] = IF i = 0 THEN r ELSE Step(g[i - 1], i)
    <3>1. CASE i = k
      BY <2>4, <2>5, <3>1
    <3>2. CASE i # k
      <4>1. i \in 0 .. (k - 1) /\ i \in 0 .. k /\ g[i] = f[i]
        BY <2>5, <3>2
      <4>2. f[i] = IF i = 0 THEN r ELSE Step(f[i - 1], i)
        BY <2>6, <4>1
      <4>3. i # 0 => g[i - 1] = f[i - 1]
        BY <2>5, <4>1
      <4> QED
        BY <4>1, <4>2, <4>3
    <3> QED
      BY <3>1, <3>2
  <2>8. Defines(g, k)
    BY <2>7
  <2> QED
    BY <2>3, <2>8
<1>3. upTo = [i \in 0 .. n |-> IF i = 0 THEN r ELSE Step(upTo[i - 1], i)]
  BY <1>2
<1> HIDE DEF upTo
<1>4. upTo[0] = r
  BY <1>3
<1>5. \A i \in 1 .. n : upTo[i] = Step(upTo[i - 1], i)
  BY <1>3
<1> QED
  BY <1>1, <1>4, <1>5, Zenon DEF Replays

\* The replay of restore_locked keeps what apply_locked keeps.
LEMMA ReplayKeeps ==
  ASSUME NEW r, SoundRuntime(r), NEW observations, Len(observations) \in Nat,
         \A i \in 1 .. Len(observations) : /\ observations[i].obs \in Observations
                                           /\ observations[i].received \in Nat \ {0}
  PROVE  LET q == Replayed(r, observations) IN
         /\ SoundRuntime(q)
         /\ r.gen.state \in Terminal => q.gen = r.gen
         /\ NothingConfirmed(r) => NothingConfirmed(q)
         /\ OneContentPerKey /\ Current(r) => Current(q)
         /\ OneContentPerKey /\ Folded(r) => Folded(q)
<1> DEFINE n == Len(observations)
           Step(q, i) == ApplyLocked(q, observations[i].obs, observations[i].received, TRUE)
<1>0. PICK upTo : Replays(upTo, r, observations)
  BY ReplayRecurs
<1>1. /\ upTo[0] = r
      /\ \A i \in 1 .. n : upTo[i] = Step(upTo[i - 1], i)
      /\ Replayed(r, observations) = upTo[n]
  BY <1>0, Zenon DEF Replays
<1> DEFINE Kept(q) == /\ SoundRuntime(q)
                      /\ r.gen.state \in Terminal => q.gen = r.gen
                      /\ NothingConfirmed(r) => NothingConfirmed(q)
                      /\ OneContentPerKey /\ Current(r) => Current(q)
                      /\ OneContentPerKey /\ Folded(r) => Folded(q)
           Wrong == {i \in 0 .. n : ~Kept(upTo[i])}
<1>4. Kept(r)
  OBVIOUS
<1>5. ASSUME NEW i \in 1 .. n, NEW q, Kept(q) PROVE Kept(Step(q, i))
  <2>1. observations[i].obs \in Observations /\ observations[i].received \in Nat \ {0}
    OBVIOUS
  <2> QED
    BY <1>5, <2>1, ApplyKeeps
<1>6. Kept(upTo[n])
  <2> HIDE DEF Kept, Step
  <2> SUFFICES ASSUME ~Kept(upTo[n]) PROVE FALSE
    OBVIOUS
  <2>1. Wrong \in SUBSET Nat /\ n \in Wrong
    OBVIOUS
  <2> HIDE DEF Wrong
  <2>2. PICK k \in Wrong : \A j \in Wrong : k <= j
    BY <2>1, LeastNumber
  <2>3. k \in 0 .. n /\ ~Kept(upTo[k])
    BY DEF Wrong
  <2>4. k \in 1 .. n => upTo[k] = Step(upTo[k - 1], k)
    BY <1>1
  <2>5. k # 0
    BY <1>1, <1>4, <2>3
  <2>6. k - 1 \in 0 .. n /\ ~(k <= k - 1) /\ k \in 1 .. n
    BY <2>3, <2>5
  <2>7. Kept(upTo[k - 1])
    BY <2>2, <2>6 DEF Wrong
  <2> QED
    BY <1>5, <2>3, <2>4, <2>5, <2>6, <2>7
<1> QED
  BY <1>1, <1>6

\* The first half of restore_locked.
LEMMA MaterialisedIsSound ==
  ASSUME IInv
  PROVE  /\ SoundRuntime(Materialised) /\ NothingConfirmed(Materialised)
         /\ Current(Materialised) /\ Folded(Materialised) /\ Materialised.gen = snap.gen
<1> DEFINE m == Materialised
           sources == [s \in DOMAIN journaled \cup DOMAIN snap.sources |->
                         IF s \in DOMAIN journaled THEN journaled[s] ELSE snap.sources[s]]
           b(s) == RestoredBinding(snap.evidence[s], sources[s])
<1>1. m = [gen |-> snap.gen, sources |-> sources, retired |-> {},
           bind |-> [s \in DOMAIN snap.evidence |-> b(s)]]
  BY DEF Materialised
<1>2. /\ DOMAIN sources \subseteq Sources /\ DOMAIN snap.evidence \subseteq DOMAIN sources
      /\ sources = [s \in DOMAIN sources |-> sources[s]]
      /\ \A s \in DOMAIN sources : Known(s, sources[s])
  BY DEF IInv, SoundJournal
<1> HIDE DEF m, sources
<1>3. ASSUME NEW s \in DOMAIN snap.evidence
      PROVE  /\ SoundBinding(s, b(s)) /\ b(s).restored = TRUE /\ b(s).reconfirmed = FALSE
             /\ b(s).view = SourceView(b(s).evidence, sources[s])
             /\ b(s).view.descriptor = sources[s]
  <2>1. b(s) = [evidence |-> snap.evidence[s], fence |-> Fence(snap.evidence[s]),
                view |-> SourceView(snap.evidence[s], sources[s]),
                restored |-> TRUE, reconfirmed |-> FALSE]
    BY DEF RestoredBinding
  <2> HIDE DEF b
  <2>2. /\ b(s).evidence = snap.evidence[s] /\ b(s).view = SourceView(snap.evidence[s], sources[s])
        /\ b(s).restored = TRUE /\ b(s).reconfirmed = FALSE
        /\ b(s) = [evidence |-> b(s).evidence, fence |-> b(s).fence, view |-> b(s).view,
                   restored |-> b(s).restored, reconfirmed |-> b(s).reconfirmed]
    BY <2>1
  <2>3. b(s).view.descriptor = sources[s]
    BY <2>2 DEF SourceView
  <2>4. Known(s, b(s).view.descriptor)
    BY <1>2, <2>3
  <2>5. IsFiniteSet(b(s).evidence) /\ \A e \in b(s).evidence : Sent(s, e)
    BY <2>2 DEF IInv, SoundJournal
  <2>6. SoundBinding(s, b(s))
    BY <2>2, <2>4, <2>5 DEF SoundBinding
  <2> QED
    BY <2>2, <2>3, <2>6
<1> HIDE DEF b
<1>4. /\ m.gen = snap.gen /\ m.sources = sources /\ m.retired = {}
      /\ m.bind = [s \in DOMAIN snap.evidence |-> b(s)]
      /\ m = [gen |-> m.gen, sources |-> m.sources, retired |-> m.retired, bind |-> m.bind]
  BY <1>1
<1>5. /\ DOMAIN m.bind = DOMAIN snap.evidence /\ \A s \in DOMAIN m.bind : m.bind[s] = b(s)
      /\ m.bind = [s \in DOMAIN m.bind |-> m.bind[s]]
  BY <1>4
<1>6. IsFiniteSet(DOMAIN m.bind)
  BY <1>5 DEF IInv, SoundJournal
<1>7. SoundRuntime(m)
  BY <1>2, <1>3, <1>4, <1>5, <1>6 DEF SoundRuntime
<1>8. NothingConfirmed(m) /\ Current(m) /\ Folded(m)
  <2>1. NothingConfirmed(m)
    BY <1>3, <1>5 DEF NothingConfirmed
  <2>3. Current(m)
    BY <1>3, <1>4, <1>5 DEF Current
  <2>2. ASSUME NEW s \in DOMAIN m.bind
        PROVE  m.bind[s].view = SourceView(m.bind[s].evidence, m.bind[s].view.descriptor)
    <3>1. m.bind[s] = b(s) /\ s \in DOMAIN snap.evidence
      BY <1>5
    <3>2. b(s).view = SourceView(b(s).evidence, b(s).view.descriptor)
      BY <1>3, <3>1
    <3> QED
      BY <3>1, <3>2
  <2> QED
    BY <2>1, <2>2, <2>3 DEF Folded
<1> QED
  BY <1>4, <1>7, <1>8 DEF m

\* The entries of the journal.
LEMMA LogEntries ==
  ASSUME IInv
  PROVE  Len(log) \in Nat /\ \A i \in 1 .. Len(log) : /\ log[i].obs \in Observations
                                                      /\ log[i].received \in Nat \ {0}
<1>1. log \in Seq(Entry)
  BY DEF IInv, SoundJournal
<1>2. \A e \in Entry : e.obs \in Observations /\ e.received \in Nat \ {0}
  BY DEF Entry
<1>3. Len(log) \in Nat /\ \A i \in 1 .. Len(log) : log[i] \in Entry
  BY <1>1, LenProperties, ElementOfSeq
<1> QED
  BY <1>2, <1>3

\* What a restart leaves behind.
LEMMA RestartOutcome ==
  ASSUME IInv
  PROVE  \E q :
           /\ Settle(Replayed(Materialised, log), now) = Settle(q, now)
           /\ SoundRuntime(q) /\ NothingConfirmed(q)
           /\ snap.gen.state \in Terminal => q.gen = snap.gen
           /\ OneContentPerKey => Current(q) /\ Folded(q)
<1>1. Len(log) \in Nat /\ \A i \in 1 .. Len(log) : /\ log[i].obs \in Observations
                                                     /\ log[i].received \in Nat \ {0}
  BY LogEntries
<1> DEFINE m == Materialised
           q == Replayed(m, log)
<1>2. SoundRuntime(m) /\ NothingConfirmed(m) /\ Current(m) /\ Folded(m) /\ m.gen = snap.gen
  BY MaterialisedIsSound
<1> HIDE DEF m
<1>3. /\ SoundRuntime(q)
      /\ m.gen.state \in Terminal => q.gen = m.gen
      /\ NothingConfirmed(m) => NothingConfirmed(q)
      /\ OneContentPerKey /\ Current(m) => Current(q)
      /\ OneContentPerKey /\ Folded(m) => Folded(q)
  BY <1>1, <1>2, ReplayKeeps
<1> HIDE DEF q
<1>4. /\ SoundRuntime(q) /\ NothingConfirmed(q)
      /\ snap.gen.state \in Terminal => q.gen = snap.gen
      /\ OneContentPerKey => Current(q) /\ Folded(q)
  BY <1>2, <1>3
<1> QED
  BY <1>4 DEF q, m

-----------------------------------------------------------------------------
\* The initial states satisfy the invariant.
LEMMA IInvInit ==
  Init => IInv /\ Current(rt) /\ Folded(rt)
<1> SUFFICES ASSUME Init PROVE IInv /\ Current(rt) /\ Folded(rt)
  OBVIOUS
<1>1. DOMAIN NoFunction = {} /\ NoFunction = [s \in {} |-> NoFunction[s]]
  BY DEF NoFunction
<1>2. /\ rt.sources = NoFunction /\ rt.bind = NoFunction
      /\ rt = [gen |-> rt.gen, sources |-> rt.sources, retired |-> rt.retired, bind |-> rt.bind]
      /\ snap.sources = NoFunction /\ snap.evidence = NoFunction
      /\ journaled = NoFunction /\ log = <<>> /\ now = 1 /\ restarts = 0
  BY DEF Init, EmptyRuntime, NoSnapshot
<1>3. IsFiniteSet({})
  BY FS_EmptySet
<1>4. SoundRuntime(rt) /\ Current(rt) /\ Folded(rt)
  BY <1>1, <1>2, <1>3 DEF SoundRuntime, Current, Folded
<1>5. SoundJournal
  BY <1>1, <1>2, <1>3 DEF SoundJournal
<1> QED
  BY <1>4, <1>5 DEF IInv

\* Every step preserves it. A terminal generation stays as it is, except that
\* a restart starts from that of the snapshot. The cached folds stay current.
StepKeeps ==
  /\ IInv'
  /\ rt.gen.state \in Terminal /\ (Restarting => snap.gen.state = rt.gen.state)
       => rt'.gen.state = rt.gen.state
  /\ OneContentPerKey /\ OneDescriptor /\ Current(rt) => Current(rt')
  /\ OneContentPerKey /\ Folded(rt) => Folded(rt')

\* Ingesting an observation preserves the invariant and what a step may not do.
LEMMA IngestKeeps ==
  ASSUME IInv, NEW o \in Observations, Ingest(o)
  PROVE  StepKeeps
<1>1. /\ rt' = ApplyLocked(rt, o, now, FALSE)
      /\ log' = Append(log, [obs |-> o, received |-> now])
      /\ UNCHANGED <<now, snap, journaled, restarts>>
  BY DEF Ingest
<1>2. /\ SoundRuntime(rt')
      /\ rt.gen.state \in Terminal => rt'.gen = rt.gen
      /\ OneContentPerKey /\ Current(rt) => Current(rt')
      /\ OneContentPerKey /\ Folded(rt) => Folded(rt')
  <2>1. now \in Nat \ {0} /\ SoundRuntime(rt) /\ FALSE \in BOOLEAN
    BY DEF IInv, SoundJournal
  <2> QED
    BY <1>1, <2>1, ApplyKeeps
<1>3. log' \in Seq(Entry)
  <2>1. [obs |-> o, received |-> now] \in Entry
    BY DEF IInv, SoundJournal, Entry
  <2> QED
    BY <1>1, <2>1, AppendProperties DEF IInv, SoundJournal
<1>4. SoundJournal'
  BY <1>1, <1>3 DEF IInv, SoundJournal
<1> QED
  BY <1>2, <1>4 DEF StepKeeps, IInv

\* Registering a source does, with its entry in the journal or without.
LEMMA RegisterKeeps ==
  ASSUME IInv, NEW s \in Sources, NEW d \in Descriptor[s], RegisterSource(s, d)
  PROVE  StepKeeps
<1>1. /\ rt = [gen |-> rt.gen, sources |-> rt.sources, retired |-> rt.retired, bind |-> rt.bind]
      /\ rt.sources = [u \in DOMAIN rt.sources |-> rt.sources[u]]
      /\ SoundRuntime(rt) /\ UNCHANGED <<now, snap, log, restarts>>
  BY DEF IInv, SoundRuntime, RegisterSource
<1>2. Known(s, d)
  BY DEF Known
<1>3. CASE s \in DOMAIN rt.sources
  <2>1. /\ rt.sources[s].registered /\ UNCHANGED journaled
        /\ rt' = [rt EXCEPT !.sources[s] = d, !.retired = @ \ {s}]
    BY <1>3 DEF RegisterSource
  <2>2. rt' = [gen |-> rt.gen, sources |-> [rt.sources EXCEPT ![s] = d],
               retired |-> rt.retired \ {s}, bind |-> rt.bind]
    BY <1>1, <2>1
  <2>3. /\ rt'.gen = rt.gen /\ rt'.sources = [rt.sources EXCEPT ![s] = d]
        /\ rt'.retired = rt.retired \ {s} /\ rt'.bind = rt.bind
        /\ rt' = [gen |-> rt'.gen, sources |-> rt'.sources, retired |-> rt'.retired,
                  bind |-> rt'.bind]
    BY <2>2
  <2>4. /\ DOMAIN rt'.sources = DOMAIN rt.sources
        /\ rt'.sources = [u \in DOMAIN rt'.sources |-> rt'.sources[u]]
        /\ rt'.sources[s] = d /\ \A u \in DOMAIN rt.sources : u # s => rt'.sources[u] = rt.sources[u]
    BY <1>1, <1>3, <2>3
  <2>5. \A u \in DOMAIN rt'.sources : Known(u, rt'.sources[u])
    BY <1>1, <1>2, <2>4 DEF SoundRuntime
  <2>6. DOMAIN rt'.bind \subseteq DOMAIN rt'.sources \ rt'.retired
    BY <1>1, <2>3, <2>4 DEF SoundRuntime
  <2>7. SoundRuntime(rt')
    BY <1>1, <2>3, <2>4, <2>5, <2>6 DEF SoundRuntime
  <2>8. OneDescriptor => rt'.sources[s] = rt.sources[s]
    <3>1. ~Unregistered.registered
      BY DEF Unregistered
    <3>2. rt.sources[s] \in Descriptor[s]
      BY <1>1, <1>3, <2>1, <3>1 DEF SoundRuntime, Known
    <3> QED
      BY <2>4, <3>2 DEF OneDescriptor
  <2>9. OneDescriptor /\ Current(rt) => Current(rt')
    <3>1. DOMAIN rt.bind \subseteq DOMAIN rt.sources
      BY <1>1 DEF SoundRuntime
    <3> QED
      BY <2>3, <2>4, <2>8, <3>1 DEF Current
  <2>10. SoundJournal'
    BY <1>1, <2>1 DEF IInv, SoundJournal
  <2> QED
    BY <2>3, <2>7, <2>9, <2>10 DEF StepKeeps, IInv, Folded
<1>4. CASE s \notin DOMAIN rt.sources
  <2>1. /\ rt' = [rt EXCEPT !.sources = With(@, s, d)]
        /\ journaled' = With(journaled, s, d)
    BY <1>4 DEF RegisterSource
  <2>2. rt' = [gen |-> rt.gen, sources |-> With(rt.sources, s, d),
               retired |-> rt.retired, bind |-> rt.bind]
    BY <1>1, <2>1
  <2>3. /\ rt'.gen = rt.gen /\ rt'.sources = With(rt.sources, s, d)
        /\ rt'.retired = rt.retired /\ rt'.bind = rt.bind
        /\ rt' = [gen |-> rt'.gen, sources |-> rt'.sources, retired |-> rt'.retired,
                  bind |-> rt'.bind]
    BY <2>2
  <2>4. /\ DOMAIN rt'.sources = DOMAIN rt.sources \cup {s}
        /\ rt'.sources = [u \in DOMAIN rt'.sources |-> rt'.sources[u]]
        /\ rt'.sources[s] = d /\ \A u \in DOMAIN rt.sources : rt'.sources[u] = rt.sources[u]
    BY <1>4, <2>3 DEF With
  <2>5. \A u \in DOMAIN rt'.sources : Known(u, rt'.sources[u])
    BY <1>1, <1>2, <2>4 DEF SoundRuntime
  <2>6. DOMAIN rt.bind \subseteq DOMAIN rt.sources \ rt.retired
    BY <1>1 DEF SoundRuntime
  <2>7. SoundRuntime(rt')
    BY <1>1, <2>3, <2>4, <2>5, <2>6 DEF SoundRuntime
  <2>8. Current(rt) => Current(rt')
    BY <2>3, <2>4, <2>6 DEF Current
  <2>9. /\ DOMAIN journaled' = DOMAIN journaled \cup {s} /\ journaled'[s] = d
        /\ \A u \in DOMAIN journaled : u # s => journaled'[u] = journaled[u]
    BY <2>1 DEF With
  <2>10. SoundJournal'
    BY <1>1, <1>2, <2>9 DEF IInv, SoundJournal
  <2> QED
    BY <2>3, <2>7, <2>8, <2>10 DEF StepKeeps, IInv, Folded
<1> QED
  BY <1>3, <1>4

\* What retiring a source leaves to settle.
LEMMA RetireOutcome ==
  ASSUME IInv, NEW s, RetireSource(s)
  PROVE  \E p : /\ rt' = Settle(p, now) /\ SoundRuntime(p)
                /\ p.gen = rt.gen /\ p.sources = rt.sources
                /\ DOMAIN p.bind = DOMAIN rt.bind \ {s}
                /\ \A u \in DOMAIN p.bind : p.bind[u] = rt.bind[u]
<1> DEFINE p == [rt EXCEPT !.retired = @ \cup {s}, !.bind = Without(@, s)]
<1>1. /\ rt' = Settle(p, now)
      /\ SoundRuntime(rt)
  BY DEF IInv, RetireSource
<1>2. rt = [gen |-> rt.gen, sources |-> rt.sources, retired |-> rt.retired, bind |-> rt.bind]
  BY <1>1 DEF SoundRuntime
<1>3. p = [gen |-> rt.gen, sources |-> rt.sources, retired |-> rt.retired \cup {s},
           bind |-> Without(rt.bind, s)]
  <2> DEFINE rest == Without(rt.bind, s)
  <2>1. p = [rt EXCEPT !.retired = rt.retired \cup {s}, !.bind = rest]
    OBVIOUS
  <2> HIDE DEF p, rest
  <2>2. p = [gen |-> rt.gen, sources |-> rt.sources, retired |-> rt.retired \cup {s},
             bind |-> rest]
    BY <1>2, <2>1
  <2> QED
    BY <2>2 DEF rest
<1> HIDE DEF p
<1>4. /\ p.gen = rt.gen /\ p.sources = rt.sources /\ p.retired = rt.retired \cup {s}
      /\ p.bind = Without(rt.bind, s)
      /\ p = [gen |-> p.gen, sources |-> p.sources, retired |-> p.retired, bind |-> p.bind]
  BY <1>3
<1>5. /\ DOMAIN p.bind = DOMAIN rt.bind \ {s}
      /\ \A u \in DOMAIN p.bind : p.bind[u] = rt.bind[u]
      /\ p.bind = [u \in DOMAIN p.bind |-> p.bind[u]]
  BY <1>4 DEF Without
<1>6. IsFiniteSet(DOMAIN p.bind)
  BY <1>1, <1>5, FS_RemoveElement DEF SoundRuntime
<1>7. DOMAIN p.bind \subseteq DOMAIN p.sources \ p.retired
  BY <1>1, <1>4, <1>5 DEF SoundRuntime
<1>8. \A u \in DOMAIN p.bind : SoundBinding(u, p.bind[u])
  BY <1>1, <1>5 DEF SoundRuntime
<1>9. SoundRuntime(p)
  BY <1>1, <1>4, <1>5, <1>6, <1>7, <1>8 DEF SoundRuntime
<1> QED
  BY <1>1, <1>4, <1>5, <1>9

\* Retiring a source does: its evidence leaves memory and nothing else.
LEMMA RetireKeeps ==
  ASSUME IInv, NEW s, RetireSource(s)
  PROVE  StepKeeps
<1>1. UNCHANGED <<now, snap, log, journaled, restarts>>
  BY DEF RetireSource
<1>2. PICK p : /\ rt' = Settle(p, now) /\ SoundRuntime(p)
               /\ p.gen = rt.gen /\ p.sources = rt.sources
               /\ DOMAIN p.bind = DOMAIN rt.bind \ {s}
               /\ \A u \in DOMAIN p.bind : p.bind[u] = rt.bind[u]
  BY RetireOutcome
<1>3. /\ SoundRuntime(rt') /\ rt'.sources = p.sources /\ rt'.bind = p.bind
      /\ p.gen.state \in Terminal => rt'.gen = p.gen
  BY <1>2, SettleKeeps
<1>4. /\ Current(rt) => Current(rt')
      /\ Folded(rt) => Folded(rt')
  BY <1>2, <1>3 DEF Current, Folded
<1>5. SoundJournal'
  BY <1>1 DEF IInv, SoundJournal
<1> QED
  BY <1>1, <1>2, <1>3, <1>4, <1>5 DEF StepKeeps, IInv, Restarting

\* A tick does: it only ages what is there.
LEMMA TickKeeps ==
  ASSUME IInv, NEW t, Tick(t)
  PROVE  StepKeeps
<1>1. /\ rt' = Recompute(rt, t)
      /\ SoundRuntime(rt) /\ UNCHANGED <<now, snap, log, journaled, restarts>>
  BY DEF IInv, Tick
<1>2. /\ SoundRuntime(rt') /\ rt'.sources = rt.sources /\ rt'.bind = rt.bind
      /\ rt.gen.state \in Terminal => rt'.gen = rt.gen
  BY <1>1, RecomputeKeeps
<1>3. /\ Current(rt) => Current(rt')
      /\ Folded(rt) => Folded(rt')
  BY <1>2 DEF Current, Folded
<1>4. SoundJournal'
  BY <1>1 DEF IInv, SoundJournal
<1> QED
  BY <1>2, <1>3, <1>4 DEF StepKeeps, IInv

\* Writing a snapshot does: it moves what is live to the disk.
LEMMA CompactKeeps ==
  ASSUME IInv, Compact
  PROVE  StepKeeps
<1>1. /\ snap' = [gen      |-> rt.gen,
                  sources  |-> [s \in DOMAIN rt.sources \ rt.retired |-> rt.sources[s]],
                  evidence |-> [s \in DOMAIN rt.bind |-> rt.bind[s].evidence]]
      /\ log' = <<>> /\ journaled' = NoFunction
      /\ SoundRuntime(rt) /\ UNCHANGED <<now, rt, restarts>>
  BY DEF IInv, Compact
<1>2. /\ DOMAIN snap'.sources = DOMAIN rt.sources \ rt.retired
      /\ \A s \in DOMAIN snap'.sources : snap'.sources[s] = rt.sources[s]
      /\ DOMAIN snap'.evidence = DOMAIN rt.bind
      /\ \A s \in DOMAIN rt.bind : snap'.evidence[s] = rt.bind[s].evidence
  BY <1>1
<1>3. DOMAIN journaled' = {}
  BY <1>1 DEF NoFunction
<1>4. log' \in Seq(Entry)
  BY <1>1
<1>5. \A s \in DOMAIN rt.bind : /\ IsFiniteSet(rt.bind[s].evidence)
                                /\ \A e \in rt.bind[s].evidence : Sent(s, e)
  BY <1>1 DEF SoundRuntime, SoundBinding
<1>6. /\ IsFiniteSet(DOMAIN rt.bind) /\ DOMAIN rt.sources \subseteq Sources
      /\ DOMAIN rt.bind \subseteq DOMAIN rt.sources \ rt.retired
      /\ \A s \in DOMAIN rt.sources : Known(s, rt.sources[s])
  BY <1>1 DEF SoundRuntime
<1>7. now' \in Nat \ {0} /\ restarts' \in Nat
  BY <1>1 DEF IInv, SoundJournal
<1>8. SoundJournal'
  BY <1>2, <1>3, <1>4, <1>5, <1>6, <1>7 DEF SoundJournal
<1> QED
  BY <1>1, <1>8 DEF StepKeeps, IInv

\* A restart does: replay rebuilds the runtime and confirms nothing.
LEMMA RestartKeeps ==
  ASSUME IInv, Restart
  PROVE  StepKeeps
<1>1. /\ rt' = Settle(Replayed(Materialised, log), now)
      /\ UNCHANGED <<now, snap, log, journaled>>
      /\ restarts' \in Nat /\ Restarting
  BY DEF Restart, Restarting, IInv, SoundJournal
<1>2. PICK q : /\ rt' = Settle(q, now)
               /\ SoundRuntime(q)
               /\ snap.gen.state \in Terminal => q.gen = snap.gen
               /\ OneContentPerKey => Current(q) /\ Folded(q)
  BY <1>1, RestartOutcome
<1>3. /\ SoundRuntime(rt') /\ rt'.sources = q.sources /\ rt'.bind = q.bind
      /\ q.gen.state \in Terminal => rt'.gen = q.gen
  BY <1>2, SettleKeeps
<1>4. OneContentPerKey => Current(rt') /\ Folded(rt')
  BY <1>2, <1>3 DEF Current, Folded
<1>5. SoundJournal'
  BY <1>1 DEF IInv, SoundJournal
<1> QED
  BY <1>1, <1>2, <1>3, <1>4, <1>5 DEF StepKeeps, IInv

\* Every step does.
LEMMA IInvStep ==
  ASSUME IInv, [Next]_vars
  PROVE  StepKeeps
<1>1. CASE TimePasses
  <2>1. UNCHANGED <<rt, snap, log, journaled, restarts>> /\ now' \in Nat \ {0}
    BY <1>1 DEF TimePasses, IInv, SoundJournal
  <2> QED
    BY <2>1 DEF StepKeeps, IInv, SoundJournal, Restarting
<1>2. CASE UNCHANGED vars
  BY <1>2 DEF vars, StepKeeps, IInv, SoundJournal, Restarting
<1> QED
  BY <1>1, <1>2, IngestKeeps, RetireKeeps, RegisterKeeps, TickKeeps, CompactKeeps, RestartKeeps
  DEF Next

-----------------------------------------------------------------------------
\* decide_generation_state honours the first of the sources entitled to their
\* declaration in the order of sort_source_views, and there is one.
LEMMA FirstDeclaredIsTerminal ==
  ASSUME NEW r, SoundRuntime(r), Entitled(r.bind) # {}
  PROVE  FirstDeclared(r.bind) \in Terminal
<1> DEFINE held == r.bind
           E == Entitled(held)
           Prior(s) == \A u \in E \ {s} : SortsBefore(held, s, u)
<1>1. /\ E \subseteq DOMAIN held
      /\ \A s \in E : held[s].view.terminal \in Terminal
  BY DEF Entitled, Terminal
<1>2. IsFiniteSet(E)
  BY <1>1, FS_Subset DEF SoundRuntime
<1>3. E \subseteq Nat
  BY <1>1, LifecycleAssumption DEF SoundRuntime
<1>4. \A s \in E : Authority(held, s) \in Nat
  <2> SUFFICES ASSUME NEW s \in E PROVE Authority(held, s) \in Nat
    OBVIOUS
  <2>1. s \in Sources /\ Known(s, held[s].view.descriptor)
    BY <1>1 DEF SoundRuntime, SoundBinding
  <2>2. Unregistered.authority = 0
    BY DEF Unregistered
  <2> QED
    BY <2>1, <2>2, LifecycleAssumption DEF Known, Authority
<1> HIDE DEF E
<1> DEFINE authorities == {Authority(held, s) : s \in E}
<1>5. PICK a \in authorities : \A c \in authorities : c <= a
  <2>1. authorities \in SUBSET Nat /\ authorities # {}
    BY <1>4 DEF E
  <2>2. IsFiniteSet(authorities)
    <3> DEFINE f == [s \in E |-> Authority(held, s)]
    <3>1. authorities = {f[s] : s \in E}
      OBVIOUS
    <3> HIDE DEF authorities, f
    <3> QED
      BY <1>2, <3>1, ImageIsFinite
  <2> HIDE DEF authorities
  <2> QED
    BY <2>1, <2>2, GreatestNumber
<1> DEFINE top == {s \in E : Authority(held, s) = a}
<1>6. PICK s \in top : \A u \in top : s <= u
  <2>1. top \in SUBSET Nat /\ top # {}
    BY <1>3, <1>5
  <2> HIDE DEF top
  <2> QED
    BY <2>1, LeastNumber
<1>7. Prior(s)
  <2> SUFFICES ASSUME NEW u \in E, u # s PROVE SortsBefore(held, s, u)
    OBVIOUS
  <2>1. /\ Authority(held, s) = a /\ Authority(held, u) <= a
        /\ a \in Nat /\ Authority(held, u) \in Nat /\ s \in Nat /\ u \in Nat
    BY <1>3, <1>4, <1>5, <1>6
  <2>2. Authority(held, u) = a => s <= u
    BY <1>6
  <2> QED
    BY <2>1, <2>2 DEF SortsBefore
<1> DEFINE first == CHOOSE v \in E : Prior(v)
<1>8. first \in E
  <2> HIDE DEF Prior
  <2> QED BY <1>6, <1>7
<1>9. FirstDeclared(held) = held[first].view.terminal
  BY DEF FirstDeclared, E
<1> QED
  BY <1>1, <1>8, <1>9 DEF E

\* Without a source seen since the restart nothing is usable, and with expiry
\* enabled what was restored is Observed, Expired or declared terminated.
LEMMA RestoredIsNotActive ==
  ASSUME NEW r, SoundRuntime(r), NothingConfirmed(r), NEW t, ExpiryEnabled,
         Settle(r, t).gen.state = "Active"
  PROVE  DOMAIN Settle(r, t).bind = {}
<1> SUFFICES ASSUME DOMAIN r.bind # {} PROVE FALSE
  BY SettleKeeps
<1> DEFINE g == r.gen
           held == r.bind
<1>1. /\ Settle(r, t).gen = IF g.state = "Unknown" THEN g ELSE Decide(g, held, t)
      /\ g.state \notin Terminal
  BY SettleKeeps DEF Terminal
<1>2. Decide(g, held, t).state = "Active"
  BY <1>1
<1>3. Usable(held, t) = {}
  BY DEF NothingConfirmed, Usable
<1>4. ~UnresolvedConflict(held, t)
  BY <1>3 DEF UnresolvedConflict
<1>5. Entitled(held) = {}
  <2> SUFFICES ASSUME Entitled(held) # {} PROVE FALSE
    OBVIOUS
  <2>1. Decide(g, held, t).state = FirstDeclared(held)
    BY <1>1, <1>4 DEF Decide, Decision
  <2> QED
    BY <1>2, <2>1, FirstDeclaredIsTerminal DEF Terminal
<1>6. Decide(g, held, t) = DecideUnusable(g, held, t)
  BY <1>1, <1>3, <1>4, <1>5 DEF Decide
<1>7. \E s \in DOMAIN held : held[s].restored
  BY DEF NothingConfirmed
<1>8. DecideUnusable(g, held, t).state \in {"Expired", "Observed"}
  BY <1>7 DEF DecideUnusable, Decision
<1> QED
  BY <1>2, <1>6, <1>8

-----------------------------------------------------------------------------
(* What a replay rebuilds.                                                 *)

\* What a runtime holds of a source.
Evidence(r, s) == IF s \in DOMAIN r.bind THEN r.bind[s].evidence ELSE {}
FenceOf(r, s)  == IF s \in DOMAIN r.bind THEN r.bind[s].fence ELSE 0

\* The generation of a runtime with evidence has left Unknown.
Begun(r) == DOMAIN r.bind # {} => r.gen.state # "Unknown"

\* One runtime follows another without losing anything, or moving a fence.
Grows(p, q) ==
  /\ q.retired = p.retired
  /\ \A u \in DOMAIN p.sources : u \in DOMAIN q.sources /\ q.sources[u] = p.sources[u]
  /\ \A s \in Sources : /\ s \in DOMAIN p.bind => s \in DOMAIN q.bind
                        /\ Evidence(p, s) \subseteq Evidence(q, s)
                        /\ FenceOf(q, s) = FenceOf(p, s)
  /\ Begun(p) => Begun(q)

\* Evidence with the key and the content of an observation of its source.
Copies(s, e, o) == s = o.src /\ e.key = o.key /\ e.digest = o.digest

\* decide_generation_state leaves no generation Unknown.
LEMMA DecideBegins ==
  ASSUME NEW r, SoundRuntime(r), NEW t
  PROVE  Decide(r.gen, r.bind, t).state # "Unknown"
<1> DEFINE g == r.gen
           held == r.bind
<1>1. CASE g.state \in Terminal
  BY <1>1 DEF Decide, Terminal
<1>2. CASE g.state \notin Terminal /\ UnresolvedConflict(held, t)
  BY <1>2 DEF Decide, Decision
<1>3. CASE g.state \notin Terminal /\ ~UnresolvedConflict(held, t) /\ Entitled(held) # {}
  <2>1. Decide(g, held, t).state = FirstDeclared(held)
    BY <1>3 DEF Decide, Decision
  <2> QED
    BY <1>3, <2>1, FirstDeclaredIsTerminal DEF Terminal
<1>4. CASE g.state \notin Terminal /\ ~UnresolvedConflict(held, t) /\ Entitled(held) = {}
  <2>1. Decide(g, held, t) = IF Usable(held, t) = {} THEN DecideUnusable(g, held, t)
                             ELSE DecideUsable(g, held, t)
    BY <1>4 DEF Decide
  <2>2. DecideUnusable(g, held, t).state # "Unknown"
    BY DEF DecideUnusable, Decision
  <2>3. DecideUsable(g, held, t).state # "Unknown"
    BY DEF DecideUsable, Decision
  <2> QED
    BY <2>1, <2>2, <2>3
<1> QED
  BY <1>1, <1>2, <1>3, <1>4

\* apply_locked loses nothing. What lies above the fence of a source that is
\* not retired is held afterwards, and what is held was held or is that.
LEMMA ApplyGrows ==
  ASSUME OneContentPerKey,
         NEW incoming, SoundRuntime(incoming), NEW o \in Observations, NEW t \in Nat \ {0},
         NEW replaying \in BOOLEAN
  PROVE  LET q == ApplyLocked(incoming, o, t, replaying) IN
         /\ Grows(incoming, q)
         /\ o.src \notin incoming.retired /\ ~(o.key <= FenceOf(incoming, o.src))
              => \E e \in Evidence(q, o.src) : Copies(o.src, e, o)
         /\ \A s \in Sources : \A e \in Evidence(q, s) :
              e \in Evidence(incoming, s) \/ Copies(s, e, o)
<1> DEFINE q == ApplyLocked(incoming, o, t, replaying)
           r == WithSource(incoming, o.src)
           b == Binding(r, o.src, replaying)
           c == Accepts(r, o, t, replaying)
           incumbents == {e \in b.evidence : e.key = o.key}
           bound(x) == Recompute([r EXCEPT !.bind = With(@, o.src, x)], t)
<1>1. o.src \in Sources
  BY LifecycleAssumption
<1>2. /\ SoundRuntime(r) /\ r.gen = incoming.gen /\ r.bind = incoming.bind
      /\ r.retired = incoming.retired /\ o.src \in DOMAIN r.sources
      /\ \A u \in DOMAIN incoming.sources : u \in DOMAIN r.sources
                                              /\ r.sources[u] = incoming.sources[u]
  BY <1>1, WithSourceKeeps
<1>3. q = IF o.src \in r.retired \/ o.key <= b.fence THEN r
          ELSE IF incumbents = {} THEN bound(c)
          ELSE IF \E e \in incumbents : e.digest = o.digest THEN Recompute(r, t)
          ELSE bound(Settles(r, o, t, replaying))
  BY Zenon DEF ApplyLocked
<1>4. /\ SoundBinding(o.src, b)
      /\ b.evidence = Evidence(incoming, o.src) /\ b.fence = FenceOf(incoming, o.src)
  <2> HIDE DEF r
  <2>1. /\ SoundBinding(o.src, b)
        /\ o.src \in DOMAIN r.bind => b = r.bind[o.src]
        /\ o.src \notin DOMAIN r.bind => b.evidence = {} /\ b.fence = 0
    <3>1. SoundRuntime(r) /\ o.src \in DOMAIN r.sources
      BY <1>2
    <3>2. SoundBinding(o.src, b)
      BY ONLY <3>1, replaying \in BOOLEAN, BindingIsSound
    <3>3. o.src \in DOMAIN r.bind => b = r.bind[o.src]
      BY DEF Binding
    <3>4. o.src \notin DOMAIN r.bind => b.evidence = {} /\ b.fence = 0
      BY DEF Binding
    <3> QED
      BY <3>2, <3>3, <3>4
  <2> HIDE DEF b
  <2> QED
    BY <1>2, <2>1 DEF Evidence, FenceOf
<1>5. \A e \in incumbents : e.digest = o.digest
  <2> SUFFICES ASSUME NEW e \in b.evidence, e.key = o.key PROVE e.digest = o.digest
    OBVIOUS
  <2>1. PICK p \in Observations : p.src = o.src /\ p.key = e.key /\ p.digest = e.digest
    BY <1>4 DEF SoundBinding, Sent
  <2> QED
    BY <2>1 DEF OneContentPerKey
<1> HIDE DEF q, r, b, c, bound
<1>6. CASE (o.src \in r.retired \/ o.key <= b.fence) /\ q = r
  <2>1. Grows(incoming, q)
    BY <1>2, <1>6 DEF Grows, Evidence, FenceOf, Begun
  <2>2. ~(o.src \notin incoming.retired /\ ~(o.key <= FenceOf(incoming, o.src)))
    BY <1>2, <1>4, <1>6
  <2>3. \A s \in Sources : Evidence(q, s) = Evidence(incoming, s)
    BY <1>2, <1>6 DEF Evidence
  <2> QED
    BY <2>1, <2>2, <2>3 DEF q
<1>7. CASE incumbents # {} /\ q = Recompute(r, t)
  <2>1. /\ q.sources = r.sources /\ q.retired = r.retired /\ q.bind = r.bind
        /\ q.gen = Decide(r.gen, r.bind, t)
    BY <1>2, <1>7, RecomputeKeeps
  <2>2. q.gen.state # "Unknown"
    BY <1>2, <2>1, DecideBegins
  <2>3. Grows(incoming, q)
    BY <1>2, <2>1, <2>2 DEF Grows, Evidence, FenceOf, Begun
  <2>4. \A s \in Sources : Evidence(q, s) = Evidence(incoming, s)
    BY <1>2, <2>1 DEF Evidence
  <2>5. \E e \in Evidence(q, o.src) : Copies(o.src, e, o)
    <3>1. PICK e \in b.evidence : e.key = o.key
      BY <1>7
    <3>2. e.digest = o.digest
      BY <1>5, <3>1
    <3>3. e \in Evidence(q, o.src)
      BY <1>1, <1>4, <2>4, <3>1
    <3> QED
      BY <3>1, <3>2, <3>3 DEF Copies
  <2> QED
    BY <2>3, <2>4, <2>5 DEF q
<1>8. CASE o.src \notin r.retired /\ q = bound(c)
  <2>1. SoundBinding(o.src, c)
    BY <1>2, AcceptsIsSound DEF c
  <2>2. c.evidence = b.evidence \cup {Stored(o, t)} /\ c.fence = b.fence
    BY <1>2, AcceptsIs DEF b, c
  <2>3. /\ q.sources = r.sources /\ q.retired = r.retired
        /\ DOMAIN q.bind = DOMAIN r.bind \cup {o.src} /\ q.bind[o.src] = c
        /\ \A u \in DOMAIN r.bind : u # o.src => q.bind[u] = r.bind[u]
    <3>1. q = Recompute([r EXCEPT !.bind = With(@, o.src, c)], t)
      BY <1>8 DEF bound
    <3> QED
      BY <1>2, <1>8, <2>1, <3>1, BindKeeps
  <2>4. q.gen.state # "Unknown"
    <3> DEFINE p == [r EXCEPT !.bind = With(@, o.src, c)]
    <3>1. q = Recompute(p, t)
      BY <1>8 DEF bound
    <3>2. SoundRuntime(p)
      BY <1>2, <1>8, <2>1, BindPutKeeps
    <3> HIDE DEF p
    <3>3. q.gen = Decide(p.gen, p.bind, t)
      BY <3>1, <3>2, RecomputeKeeps
    <3> QED
      BY <3>2, <3>3, DecideBegins
  <2>5. ASSUME NEW s \in Sources, s # o.src
        PROVE  Evidence(q, s) = Evidence(incoming, s) /\ FenceOf(q, s) = FenceOf(incoming, s)
    BY <1>2, <2>3, <2>5 DEF Evidence, FenceOf
  <2>6. /\ Evidence(q, o.src) = Evidence(incoming, o.src) \cup {Stored(o, t)}
        /\ FenceOf(q, o.src) = FenceOf(incoming, o.src)
    <3>1. Evidence(q, o.src) = c.evidence /\ FenceOf(q, o.src) = c.fence
      BY <2>3 DEF Evidence, FenceOf
    <3> QED
      BY <1>4, <2>2, <3>1
  <2>7. Stored(o, t).key = o.key /\ Stored(o, t).digest = o.digest
    BY DEF Stored
  <2>8. Grows(incoming, q)
    <3>1. \A s \in Sources : /\ s \in DOMAIN incoming.bind => s \in DOMAIN q.bind
                             /\ Evidence(incoming, s) \subseteq Evidence(q, s)
                             /\ FenceOf(q, s) = FenceOf(incoming, s)
      BY <1>2, <2>3, <2>5, <2>6
    <3> QED
      BY <1>2, <2>3, <2>4, <3>1 DEF Grows, Begun
  <2>9. \E e \in Evidence(q, o.src) : Copies(o.src, e, o)
    BY <2>6, <2>7 DEF Copies
  <2>10. \A s \in Sources : \A e \in Evidence(q, s) :
           e \in Evidence(incoming, s) \/ Copies(s, e, o)
    BY <2>5, <2>6, <2>7 DEF Copies
  <2> QED
    BY <2>8, <2>9, <2>10 DEF q
<1> QED
  BY <1>3, <1>5, <1>6, <1>7, <1>8

\* Growth composes.
LEMMA GrowsOn ==
  ASSUME NEW p, NEW q, NEW w, Grows(p, q), Grows(q, w)
  PROVE  Grows(p, w)
<1>1. \A u \in DOMAIN p.sources : u \in DOMAIN w.sources /\ w.sources[u] = p.sources[u]
  BY DEF Grows
<1>2. ASSUME NEW s \in Sources
      PROVE  /\ s \in DOMAIN p.bind => s \in DOMAIN w.bind
             /\ Evidence(p, s) \subseteq Evidence(w, s)
             /\ FenceOf(w, s) = FenceOf(p, s)
  <2>1. /\ s \in DOMAIN p.bind => s \in DOMAIN q.bind
        /\ Evidence(p, s) \subseteq Evidence(q, s) /\ FenceOf(q, s) = FenceOf(p, s)
    BY Zenon DEF Grows
  <2>2. /\ s \in DOMAIN q.bind => s \in DOMAIN w.bind
        /\ Evidence(q, s) \subseteq Evidence(w, s) /\ FenceOf(w, s) = FenceOf(q, s)
    BY Zenon DEF Grows
  <2> QED
    BY <2>1, <2>2
<1>3. w.retired = p.retired /\ (Begun(p) => Begun(w))
  BY DEF Grows
<1> QED
  BY <1>1, <1>2, <1>3 DEF Grows

\* A replay without retired sources loses nothing of what was restored. It
\* brings back every observation above the fence of its source, and nothing
\* that is not in the journal.
LEMMA ReplayGrows ==
  ASSUME OneContentPerKey, NEW r, SoundRuntime(r), r.retired = {},
         NEW observations, Len(observations) \in Nat,
         \A i \in 1 .. Len(observations) : /\ observations[i].obs \in Observations
                                           /\ observations[i].received \in Nat \ {0}
  PROVE  LET q == Replayed(r, observations) IN
         /\ Grows(r, q)
         /\ \A i \in 1 .. Len(observations) :
              LET o == observations[i].obs IN
              ~(o.key <= FenceOf(r, o.src)) => \E e \in Evidence(q, o.src) : Copies(o.src, e, o)
         /\ \A s \in Sources : \A e \in Evidence(q, s) :
              \/ e \in Evidence(r, s)
              \/ \E i \in 1 .. Len(observations) : Copies(s, e, observations[i].obs)
<1> DEFINE n == Len(observations)
           obs(i) == observations[i].obs
<1>0. PICK upTo : Replays(upTo, r, observations)
  BY ReplayRecurs
<1> DEFINE Back(i, q) == ~(obs(i).key <= FenceOf(r, obs(i).src))
                           => \E e \in Evidence(q, obs(i).src) : Copies(obs(i).src, e, obs(i))
           From(k, q) == \A s \in Sources : \A e \in Evidence(q, s) :
                           e \in Evidence(r, s) \/ \E i \in 1 .. k : Copies(s, e, obs(i))
           Kept(k) == /\ SoundRuntime(upTo[k]) /\ Grows(r, upTo[k])
                      /\ \A i \in 1 .. k : Back(i, upTo[k])
                      /\ From(k, upTo[k])
           Wrong == {k \in 0 .. n : ~Kept(k)}
<1>1. Kept(0)
  <2>1. upTo[0] = r
    BY <1>0 DEF Replays
  <2>2. Grows(r, r)
    BY DEF Grows
  <2> QED
    BY <2>1, <2>2
<1>2. ASSUME NEW k \in 1 .. n, Kept(k - 1) PROVE Kept(k)
  <2> DEFINE p == upTo[k - 1]
             q == upTo[k]
             o == obs(k)
             t == observations[k].received
  <2>1. o \in Observations /\ t \in Nat \ {0} /\ o.src \in Sources
    BY LifecycleAssumption
  <2>2. q = ApplyLocked(p, o, t, TRUE)
    BY <1>0, Zenon DEF Replays
  <2>3. SoundRuntime(p) /\ Grows(r, p)
    BY <1>2
  <2>4. /\ \A i \in 1 .. k - 1 : Back(i, p)
        /\ From(k - 1, p)
    BY <1>2, Zenon
  <2> HIDE DEF p, q, o, t
  <2>5. PICK yes \in BOOLEAN : q = ApplyLocked(p, o, t, yes)
    BY <2>2, Zenon
  <2>6. /\ Grows(p, q)
        /\ o.src \notin p.retired /\ ~(o.key <= FenceOf(p, o.src))
             => \E e \in Evidence(q, o.src) : Copies(o.src, e, o)
        /\ \A s \in Sources : \A e \in Evidence(q, s) : e \in Evidence(p, s) \/ Copies(s, e, o)
    BY <2>1, <2>3, <2>5, ApplyGrows
  <2>7. SoundRuntime(q)
    BY <2>1, <2>3, <2>5, ApplyKeeps
  <2>8. Grows(r, q)
    BY <2>3, <2>6, GrowsOn
  <2>9. Back(k, q)
    <3>1. p.retired = {} /\ FenceOf(p, o.src) = FenceOf(r, o.src)
      BY <2>1, <2>3, Zenon DEF Grows
    <3>2. ~(o.key <= FenceOf(r, o.src)) => \E e \in Evidence(q, o.src) : Copies(o.src, e, o)
      BY <2>6, <3>1
    <3> QED
      BY <3>2 DEF o
  <2>10. ASSUME NEW i \in 1 .. k - 1 PROVE Back(i, q)
    <3>1. Back(i, p)
      BY <2>4
    <3>2. obs(i).src \in Sources
      BY LifecycleAssumption
    <3>3. Evidence(p, obs(i).src) \subseteq Evidence(q, obs(i).src)
      BY <2>6, <3>2, Zenon DEF Grows
    <3> QED
      BY <3>1, <3>3
  <2>11. From(k, q)
    <3> SUFFICES ASSUME NEW s \in Sources, NEW e \in Evidence(q, s)
                 PROVE  e \in Evidence(r, s) \/ \E i \in 1 .. k : Copies(s, e, obs(i))
      OBVIOUS
    <3>1. CASE e \in Evidence(p, s)
      <4>1. e \in Evidence(r, s) \/ \E i \in 1 .. k - 1 : Copies(s, e, obs(i))
        BY <2>4, <3>1
      <4>2. \A i \in 1 .. k - 1 : i \in 1 .. k
        OBVIOUS
      <4> QED
        BY <4>1, <4>2
    <3>2. CASE Copies(s, e, o)
      <4>1. k \in 1 .. k
        OBVIOUS
      <4> QED
        BY <3>2, <4>1 DEF o
    <3> QED
      BY <2>6, <3>1, <3>2
  <2>12. \A i \in 1 .. k : i = k \/ i \in 1 .. k - 1
    OBVIOUS
  <2>13. \A i \in 1 .. k : Back(i, q)
    BY <2>9, <2>10, <2>12
  <2> HIDE DEF Back, From
  <2> QED
    BY <2>7, <2>8, <2>11, <2>13 DEF q
<1>3. Kept(n)
  <2> HIDE DEF Kept
  <2> SUFFICES ASSUME ~Kept(n) PROVE FALSE
    OBVIOUS
  <2>1. Wrong \in SUBSET Nat /\ n \in Wrong
    OBVIOUS
  <2> HIDE DEF Wrong
  <2>2. PICK k \in Wrong : \A j \in Wrong : k <= j
    BY <2>1, LeastNumber
  <2>3. k \in 0 .. n /\ ~Kept(k)
    BY DEF Wrong
  <2>4. k # 0
    BY <1>1, <2>3
  <2>5. k - 1 \in 0 .. n /\ ~(k <= k - 1) /\ k \in 1 .. n
    BY <2>3, <2>4
  <2>6. Kept(k - 1)
    BY <2>2, <2>5 DEF Wrong
  <2> QED
    BY <1>2, <2>3, <2>5, <2>6
<1>4. Replayed(r, observations) = upTo[n]
  BY <1>0 DEF Replays
<1> QED
  BY <1>3, <1>4

\* What the snapshot holds of a source.
Snapped(s) == IF s \in DOMAIN snap.evidence THEN snap.evidence[s] ELSE {}

\* Evidence is on disk: in the snapshot, or in the journal behind it.
Recorded(s, e) == e \in Snapped(s) \/ \E i \in 1 .. Len(log) : Copies(s, e, log[i].obs)

\* Write-ahead: what is held is on disk. And where there is evidence, in
\* memory or in the snapshot, the generation has left Unknown.
WriteAhead ==
  /\ \A s \in Sources : \A e \in Evidence(rt, s) : Recorded(s, e)
  /\ Begun(rt)
  /\ DOMAIN snap.evidence # {} => snap.gen.state # "Unknown"

\* Settling keeps a generation out of Unknown.
LEMMA SettleBegins ==
  ASSUME NEW r, SoundRuntime(r), Begun(r), NEW t
  PROVE  Begun(Settle(r, t))
<1>1. /\ Settle(r, t).bind = r.bind
      /\ Settle(r, t).gen = IF r.gen.state = "Unknown" THEN r.gen ELSE Decide(r.gen, r.bind, t)
  BY SettleKeeps
<1> QED
  BY <1>1, DecideBegins DEF Begun

\* The restored half of a restart.
LEMMA MaterialisedHolds ==
  ASSUME IInv
  PROVE  /\ SoundRuntime(Materialised) /\ NothingConfirmed(Materialised)
         /\ Current(Materialised) /\ Materialised.gen = snap.gen
         /\ Materialised.retired = {} /\ DOMAIN Materialised.bind = DOMAIN snap.evidence
         /\ \A s \in Sources :
              /\ Evidence(Materialised, s) = Snapped(s)
              /\ FenceOf(Materialised, s) = IF s \in DOMAIN snap.evidence
                                           THEN Fence(snap.evidence[s]) ELSE 0
<1> DEFINE m == Materialised
           sources == [s \in DOMAIN journaled \cup DOMAIN snap.sources |->
                         IF s \in DOMAIN journaled THEN journaled[s] ELSE snap.sources[s]]
           b(s) == RestoredBinding(snap.evidence[s], sources[s])
<1>1. m = [gen |-> snap.gen, sources |-> sources, retired |-> {},
           bind |-> [s \in DOMAIN snap.evidence |-> b(s)]]
  BY DEF Materialised
<1>2. \A s \in DOMAIN snap.evidence :
        b(s).evidence = snap.evidence[s] /\ b(s).fence = Fence(snap.evidence[s])
  BY DEF RestoredBinding
<1> HIDE DEF m, sources, b
<1>3. m.retired = {} /\ m.bind = [s \in DOMAIN snap.evidence |-> b(s)]
  BY <1>1
<1>4. DOMAIN m.bind = DOMAIN snap.evidence /\ \A s \in DOMAIN m.bind : m.bind[s] = b(s)
  BY <1>3
<1>5. \A s \in Sources : /\ Evidence(m, s) = Snapped(s)
                         /\ FenceOf(m, s) = IF s \in DOMAIN snap.evidence
                                            THEN Fence(snap.evidence[s]) ELSE 0
  BY <1>2, <1>4 DEF Evidence, FenceOf, Snapped
<1> QED
  BY <1>3, <1>4, <1>5, MaterialisedIsSound DEF m

\* What a restart rebuilds.
LEMMA RestartRebuilds ==
  ASSUME OneContentPerKey, IInv
  PROVE  LET m == Materialised
             q == Replayed(m, log)
         IN  /\ SoundRuntime(q) /\ NothingConfirmed(q) /\ Current(q) /\ Grows(m, q)
             /\ \A i \in 1 .. Len(log) :
                  LET o == log[i].obs IN
                  ~(o.key <= FenceOf(m, o.src)) => \E e \in Evidence(q, o.src) : Copies(o.src, e, o)
             /\ \A s \in Sources : \A e \in Evidence(q, s) : Recorded(s, e)
<1> DEFINE m == Materialised
           q == Replayed(m, log)
<1>1. Len(log) \in Nat /\ \A i \in 1 .. Len(log) : /\ log[i].obs \in Observations
                                                   /\ log[i].received \in Nat \ {0}
  BY LogEntries
<1>2. /\ SoundRuntime(m) /\ NothingConfirmed(m) /\ Current(m) /\ m.retired = {}
      /\ \A s \in Sources : Evidence(m, s) = Snapped(s)
  BY MaterialisedHolds
<1> HIDE DEF m
<1>3. /\ SoundRuntime(q)
      /\ NothingConfirmed(m) => NothingConfirmed(q)
      /\ OneContentPerKey /\ Current(m) => Current(q)
  BY <1>1, <1>2, ReplayKeeps
<1>4. /\ Grows(m, q)
      /\ \A i \in 1 .. Len(log) :
           LET o == log[i].obs IN
           ~(o.key <= FenceOf(m, o.src)) => \E e \in Evidence(q, o.src) : Copies(o.src, e, o)
      /\ \A s \in Sources : \A e \in Evidence(q, s) :
           e \in Evidence(m, s) \/ \E i \in 1 .. Len(log) : Copies(s, e, log[i].obs)
  BY <1>1, <1>2, ReplayGrows
<1> HIDE DEF q
<1>5. \A s \in Sources : \A e \in Evidence(q, s) : Recorded(s, e)
  BY <1>2, <1>4 DEF Recorded
<1>6. SoundRuntime(q) /\ NothingConfirmed(q) /\ Current(q) /\ Grows(m, q)
  BY <1>2, <1>3, <1>4
<1> QED
  BY <1>4, <1>5, <1>6, Zenon DEF q, m

\* Nothing is held before anything was ingested.
LEMMA WriteAheadInit ==
  Init => WriteAhead
<1> SUFFICES ASSUME Init PROVE WriteAhead
  OBVIOUS
<1>1. rt.bind = NoFunction /\ snap.evidence = NoFunction
  BY DEF Init, EmptyRuntime, NoSnapshot
<1>2. DOMAIN NoFunction = {}
  BY DEF NoFunction
<1> QED
  BY <1>1, <1>2 DEF WriteAhead, Evidence, Begun

\* Every step keeps what is held on disk.
LEMMA WriteAheadStep ==
  ASSUME OneContentPerKey, IInv, WriteAhead, [Next]_vars
  PROVE  WriteAhead'
<1>0. SoundRuntime(rt) /\ now \in Nat \ {0} /\ log \in Seq(Entry)
  BY DEF IInv, SoundJournal
<1>1. ASSUME /\ UNCHANGED <<snap, log>> /\ Begun(rt')
             /\ \A s \in Sources : Evidence(rt', s) \subseteq Evidence(rt, s)
      PROVE  WriteAhead'
  <2>1. \A s \in Sources : \A e \in Evidence(rt', s) : Recorded(s, e)
    BY <1>1 DEF WriteAhead
  <2>2. \A s, e : Recorded(s, e) <=> Recorded(s, e)'
    BY <1>1 DEF Recorded, Snapped
  <2>3. (DOMAIN snap.evidence # {} => snap.gen.state # "Unknown")'
    BY <1>1 DEF WriteAhead
  <2> QED
    BY <1>1, <2>1, <2>2, <2>3 DEF WriteAhead
<1>2. ASSUME UNCHANGED <<snap, log>>, rt'.bind = rt.bind, rt'.gen = rt.gen
      PROVE  WriteAhead'
  <2>1. Begun(rt') /\ \A s \in Sources : Evidence(rt', s) = Evidence(rt, s)
    BY <1>2 DEF WriteAhead, Begun, Evidence
  <2> QED
    BY <1>1, <1>2, <2>1
<1>3. CASE TimePasses \/ UNCHANGED vars
  BY <1>2, <1>3 DEF TimePasses, vars
<1>4. ASSUME NEW o \in Observations, Ingest(o) PROVE WriteAhead'
  <2>1. /\ rt' = ApplyLocked(rt, o, now, FALSE) /\ UNCHANGED snap
        /\ log' = Append(log, [obs |-> o, received |-> now])
    BY <1>4 DEF Ingest
  <2>2. PICK no \in BOOLEAN : rt' = ApplyLocked(rt, o, now, no)
    BY <2>1, Zenon
  <2>3. /\ Grows(rt, rt')
        /\ \A s \in Sources : \A e \in Evidence(rt', s) :
             e \in Evidence(rt, s) \/ Copies(s, e, o)
    BY <1>0, <2>2, ApplyGrows
  <2>4. /\ Len(log) \in Nat /\ Len(log') = Len(log) + 1
        /\ log'[Len(log) + 1].obs = o /\ \A i \in 1 .. Len(log) : log'[i] = log[i]
    <3> DEFINE x == [obs |-> o, received |-> now]
    <3>1. x \in Entry /\ x.obs = o
      BY <1>0 DEF Entry
    <3> HIDE DEF x
    <3>2. log' = Append(log, x)
      BY <2>1 DEF x
    <3> QED
      BY <1>0, <3>1, <3>2, AppendProperties, LenProperties
  <2>5. ASSUME NEW s \in Sources, NEW e \in Evidence(rt', s) PROVE Recorded(s, e)'
    <3>1. CASE Copies(s, e, o)
      <4>1. Len(log) + 1 \in 1 .. Len(log')
        BY <2>4
      <4> QED
        BY <2>4, <3>1, <4>1 DEF Recorded
    <3>2. CASE e \in Evidence(rt, s)
      <4>1. Recorded(s, e)
        BY <3>2 DEF WriteAhead
      <4>2. Snapped(s)' = Snapped(s)
        BY <2>1 DEF Snapped
      <4>3. \A i \in 1 .. Len(log) : i \in 1 .. Len(log')
        BY <2>4
      <4> QED
        BY <2>4, <4>1, <4>2, <4>3 DEF Recorded
    <3> QED
      BY <2>3, <3>1, <3>2
  <2>6. Begun(rt')
    BY <2>3 DEF Grows, WriteAhead
  <2>7. (DOMAIN snap.evidence # {} => snap.gen.state # "Unknown")'
    BY <2>1 DEF WriteAhead
  <2> QED
    BY <2>5, <2>6, <2>7 DEF WriteAhead
<1>5. ASSUME NEW s \in Sources, NEW d \in Descriptor[s], RegisterSource(s, d) PROVE WriteAhead'
  <2>1. rt = [gen |-> rt.gen, sources |-> rt.sources, retired |-> rt.retired, bind |-> rt.bind]
    BY <1>0 DEF SoundRuntime
  <2>2. rt'.bind = rt.bind /\ rt'.gen = rt.gen /\ UNCHANGED <<snap, log>>
    BY <1>5, <2>1 DEF RegisterSource
  <2> QED
    BY <1>2, <2>2
<1>6. ASSUME NEW s, RetireSource(s) PROVE WriteAhead'
  <2>1. PICK p : /\ rt' = Settle(p, now) /\ SoundRuntime(p) /\ p.gen = rt.gen
                 /\ DOMAIN p.bind = DOMAIN rt.bind \ {s}
                 /\ \A u \in DOMAIN p.bind : p.bind[u] = rt.bind[u]
    BY <1>6, RetireOutcome
  <2>2. Begun(p)
    BY <2>1 DEF Begun, WriteAhead
  <2>3. Begun(rt') /\ rt'.bind = p.bind
    BY <2>1, <2>2, SettleBegins, SettleKeeps
  <2>4. \A u \in Sources : Evidence(rt', u) \subseteq Evidence(rt, u)
    BY <2>1, <2>3 DEF Evidence
  <2> QED
    BY <1>1, <1>6, <2>3, <2>4 DEF RetireSource
<1>7. ASSUME NEW t, Tick(t) PROVE WriteAhead'
  <2>1. rt' = Recompute(rt, t) /\ UNCHANGED <<snap, log>>
    BY <1>7 DEF Tick
  <2>2. rt'.bind = rt.bind /\ rt'.gen = Decide(rt.gen, rt.bind, t)
    BY <1>0, <2>1, RecomputeKeeps
  <2>3. Begun(rt')
    BY <1>0, <2>2, DecideBegins DEF Begun
  <2> QED
    BY <1>1, <2>1, <2>2, <2>3 DEF Evidence
<1>8. CASE Compact
  <2>1. /\ snap' = [gen      |-> rt.gen,
                    sources  |-> [s \in DOMAIN rt.sources \ rt.retired |-> rt.sources[s]],
                    evidence |-> [s \in DOMAIN rt.bind |-> rt.bind[s].evidence]]
        /\ rt' = rt
    BY <1>8 DEF Compact
  <2>2. /\ snap'.gen = rt.gen /\ DOMAIN snap'.evidence = DOMAIN rt.bind
        /\ \A s \in DOMAIN rt.bind : snap'.evidence[s] = rt.bind[s].evidence
    BY <2>1
  <2>3. \A s \in Sources : Evidence(rt', s) = Snapped(s)'
    BY <2>1, <2>2 DEF Evidence, Snapped
  <2>4. \A s \in Sources : \A e \in Evidence(rt', s) : Recorded(s, e)'
    BY <2>3 DEF Recorded
  <2>5. Begun(rt') /\ (DOMAIN snap.evidence # {} => snap.gen.state # "Unknown")'
    BY <2>1, <2>2 DEF WriteAhead, Begun
  <2> QED
    BY <2>4, <2>5 DEF WriteAhead
<1>9. CASE Restart
  <2> DEFINE m == Materialised
             q == Replayed(m, log)
  <2>1. rt' = Settle(q, now) /\ UNCHANGED <<snap, log>>
    BY <1>9 DEF Restart
  <2>2. /\ SoundRuntime(q) /\ Grows(m, q)
        /\ \A s \in Sources : \A e \in Evidence(q, s) : Recorded(s, e)
    BY RestartRebuilds
  <2>3. m.gen = snap.gen /\ DOMAIN m.bind = DOMAIN snap.evidence
    BY MaterialisedHolds
  <2> HIDE DEF q, m
  <2>4. Begun(q)
    BY <2>2, <2>3 DEF Grows, Begun, WriteAhead
  <2>5. Begun(rt') /\ rt'.bind = q.bind
    BY <2>1, <2>2, <2>4, SettleBegins, SettleKeeps
  <2>6. \A s \in Sources : Evidence(rt', s) = Evidence(q, s)
    BY <2>5 DEF Evidence
  <2>7. \A s, e : Recorded(s, e) <=> Recorded(s, e)'
    BY <2>1 DEF Recorded, Snapped
  <2>8. (DOMAIN snap.evidence # {} => snap.gen.state # "Unknown")'
    BY <2>1 DEF WriteAhead
  <2> QED
    BY <2>2, <2>5, <2>6, <2>7, <2>8 DEF WriteAhead
<1> QED
  BY <1>3, <1>4, <1>5, <1>6, <1>7, <1>8, <1>9 DEF Next

-----------------------------------------------------------------------------
\* The latest of a finite set of instants.
LEMMA LatestIsGreatest ==
  ASSUME NEW T \in SUBSET Nat, IsFiniteSet(T)
  PROVE  Latest(T) \in T \cup {0} /\ Latest(T) \in Nat /\ \A x \in T : x <= Latest(T)
<1> DEFINE all == T \cup {0}
<1>1. all \in SUBSET Nat /\ all # {} /\ IsFiniteSet(all)
  BY FS_AddElement
<1>2. \E x \in all : \A y \in all : x >= y
  BY <1>1, GreatestNumber
<1>3. Max(all) \in all /\ \A y \in all : Max(all) >= y
  BY <1>2 DEF Max
<1>4. Latest(T) = Max(all)
  BY DEF Latest
<1> QED
  BY <1>1, <1>3, <1>4

\* The latest instant of some evidence is that of one of its records.
LEMMA LatestOfEvidence ==
  ASSUME NEW S, IsFiniteSet(S), \A e \in S : e.at \in Nat \ {0}
  PROVE  LET last == Latest({e.at : e \in S}) IN
         /\ last \in Nat
         /\ S # {} => last # 0
         /\ last # 0 => \E e \in S : e.at = last
<1> DEFINE instants == {e.at : e \in S}
           f == [e \in S |-> e.at]
<1>1. instants = {f[e] : e \in S}
  OBVIOUS
<1>2. IsFiniteSet(instants)
  <2> HIDE DEF f, instants
  <2> QED BY <1>1, ImageIsFinite
<1>3. instants \in SUBSET Nat /\ \A x \in instants : x # 0
  OBVIOUS
<1>4. /\ Latest(instants) \in instants \cup {0} /\ Latest(instants) \in Nat
      /\ \A x \in instants : x <= Latest(instants)
  <2> HIDE DEF instants
  <2> QED BY <1>2, <1>3, LatestIsGreatest
<1>5. ASSUME S # {} PROVE Latest(instants) # 0
  <2>1. PICK e \in S : TRUE
    BY <1>5
  <2>2. e.at \in Nat /\ e.at # 0 /\ e.at <= Latest(instants)
    BY <1>4
  <2> HIDE DEF instants
  <2> QED
    BY <1>4, <2>2
<1> QED
  BY <1>4, <1>5

\* The latest of several instants of some evidence, unknown ones among them.
LEMMA LatestOfLasts ==
  ASSUME NEW lasts \in SUBSET Nat, IsFiniteSet(lasts), NEW all,
         \A x \in lasts : x # 0 => \E e \in all : e.at = x,
         NEW known \in lasts, known # 0
  PROVE  /\ Latest(lasts) \in Nat \ {0}
         /\ \E e \in all : e.at = Latest(lasts)
<1>1. /\ Latest(lasts) \in lasts \cup {0} /\ Latest(lasts) \in Nat
      /\ \A x \in lasts : x <= Latest(lasts)
  BY LatestIsGreatest
<1>2. known \in Nat /\ known <= Latest(lasts)
  BY <1>1
<1>3. Latest(lasts) # 0
  BY <1>1, <1>2
<1> QED
  BY <1>1, <1>3

\* LastObserved and LastProgress are instants of evidence and of progress.
LEMMA LastsAreEvidence ==
  ASSUME NEW r, SoundRuntime(r), Folded(r)
  PROVE  LET held     == r.bind
             evidence == UNION {held[s].evidence : s \in DOMAIN held}
             progress == UNION {Progresses(held[s].evidence) : s \in DOMAIN held}
         IN  /\ evidence # {} => /\ LastObserved(held) \in Nat \ {0}
                                 /\ \E e \in evidence : e.at = LastObserved(held)
             /\ progress # {} => /\ LastProgress(held) \in Nat \ {0}
                                 /\ \E e \in progress : e.at = LastProgress(held)
<1> DEFINE held == r.bind
           D == DOMAIN held
           f == [s \in D |-> held[s].evidence]
           g == [s \in D |-> Progresses(held[s].evidence)]
           observed == [s \in D |-> held[s].view.lastObserved]
           moved == [s \in D |-> held[s].view.lastProgress]
<1>1. IsFiniteSet(D)
  BY DEF SoundRuntime
<1>2. ASSUME NEW s \in D
      PROVE  /\ observed[s] \in Nat
             /\ f[s] # {} => observed[s] # 0
             /\ observed[s] # 0 => \E e \in f[s] : e.at = observed[s]
             /\ moved[s] \in Nat
             /\ g[s] # {} => moved[s] # 0
             /\ moved[s] # 0 => \E e \in g[s] : e.at = moved[s]
  <2> DEFINE S == held[s].evidence
             P == Progresses(S)
             v == held[s].view
  <2>1. IsFiniteSet(S) /\ \A e \in S : e.at \in Nat \ {0}
    BY DEF SoundRuntime, SoundBinding, Sent
  <2>2. P \subseteq S
    BY DEF Progresses, Accounted
  <2>3. IsFiniteSet(P) /\ \A e \in P : e.at \in Nat \ {0}
    BY <2>1, <2>2, FS_Subset
  <2>4. v = SourceView(S, v.descriptor)
    BY DEF Folded
  <2>5. /\ f[s] = S /\ g[s] = P
        /\ observed[s] = v.lastObserved /\ moved[s] = v.lastProgress
    OBVIOUS
  <2> HIDE DEF v, S, f, g, observed, moved
  <2>6. v.lastObserved = Latest({e.at : e \in S}) /\ v.lastProgress = Latest({e.at : e \in P})
    BY <2>4 DEF SourceView
  <2> HIDE DEF P
  <2>7. /\ observed[s] \in Nat
        /\ S # {} => observed[s] # 0
        /\ observed[s] # 0 => \E e \in S : e.at = observed[s]
    <3>1. v.lastObserved = Latest({e.at : e \in S}) /\ observed[s] = v.lastObserved
      BY <2>5, <2>6
    <3> QED
      BY ONLY <2>1, <3>1, LatestOfEvidence
  <2>8. /\ moved[s] \in Nat
        /\ P # {} => moved[s] # 0
        /\ moved[s] # 0 => \E e \in P : e.at = moved[s]
    <3>1. v.lastProgress = Latest({e.at : e \in P}) /\ moved[s] = v.lastProgress
      BY <2>5, <2>6
    <3> QED
      BY ONLY <2>3, <3>1, LatestOfEvidence
  <2> QED
    BY <2>5, <2>7, <2>8
<1>3. /\ UNION {f[s] : s \in D} = UNION {held[s].evidence : s \in D}
      /\ UNION {g[s] : s \in D} = UNION {Progresses(held[s].evidence) : s \in D}
      /\ Latest({observed[s] : s \in D}) = LastObserved(held)
      /\ Latest({moved[s] : s \in D}) = LastProgress(held)
  <2>1. /\ {f[s] : s \in D} = {held[s].evidence : s \in D}
        /\ {g[s] : s \in D} = {Progresses(held[s].evidence) : s \in D}
        /\ {observed[s] : s \in D} = {held[s].view.lastObserved : s \in D}
        /\ {moved[s] : s \in D} = {held[s].view.lastProgress : s \in D}
    OBVIOUS
  <2> QED
    BY <2>1, Zenon DEF LastObserved, LastProgress
<1> DEFINE F == UNION {f[s] : s \in D}
           G == UNION {g[s] : s \in D}
           O == {observed[s] : s \in D}
           M == {moved[s] : s \in D}
<1>4. F # {} => Latest(O) \in Nat \ {0} /\ \E e \in F : e.at = Latest(O)
  <2> SUFFICES ASSUME F # {}
               PROVE  Latest(O) \in Nat \ {0} /\ \E e \in F : e.at = Latest(O)
    OBVIOUS
  <2> HIDE DEF D, f, observed
  <2>1. IsFiniteSet(O)
    BY <1>1, ImageIsFinite
  <2>2. O \in SUBSET Nat
    BY <1>2
  <2>3. PICK s \in D : f[s] # {}
    OBVIOUS
  <2>4. observed[s] \in O /\ observed[s] # 0
    BY <1>2, <2>3
  <2>5. \A i \in O : i # 0 => \E e \in F : e.at = i
    BY <1>2
  <2> HIDE DEF F, O
  <2> QED
    BY <2>1, <2>2, <2>4, <2>5, LatestOfLasts
<1>5. G # {} => Latest(M) \in Nat \ {0} /\ \E e \in G : e.at = Latest(M)
  <2> SUFFICES ASSUME G # {}
               PROVE  Latest(M) \in Nat \ {0} /\ \E e \in G : e.at = Latest(M)
    OBVIOUS
  <2> HIDE DEF D, g, moved
  <2>1. IsFiniteSet(M)
    BY <1>1, ImageIsFinite
  <2>2. M \in SUBSET Nat
    BY <1>2
  <2>3. PICK s \in D : g[s] # {}
    OBVIOUS
  <2>4. moved[s] \in M /\ moved[s] # 0
    BY <1>2, <2>3
  <2>5. \A i \in M : i # 0 => \E e \in G : e.at = i
    BY <1>2
  <2> HIDE DEF G, M
  <2> QED
    BY <2>1, <2>2, <2>4, <2>5, LatestOfLasts
<1> QED
  BY <1>3, <1>4, <1>5

\* The fence a snapshot stands for.
LEMMA SnapshotFence ==
  ASSUME IInv, NEW s \in DOMAIN snap.evidence
  PROVE  Fence(snap.evidence[s]) \in Nat
<1> DEFINE S == snap.evidence[s]
           f == [e \in S |-> e.key]
           keys == {e.key : e \in S}
<1>1. IsFiniteSet(S) /\ \A e \in S : e.key \in Nat
  <2>1. IsFiniteSet(S) /\ \A e \in S : Sent(s, e)
    BY DEF IInv, SoundJournal
  <2>2. \A e \in S : \E o \in Observations : o.key = e.key
    BY <2>1 DEF Sent
  <2> QED
    BY <2>1, <2>2, LifecycleAssumption
<1>2. keys \in SUBSET Nat /\ keys = {f[e] : e \in S}
  BY <1>1
<1>3. IsFiniteSet(keys)
  <2> HIDE DEF S, f, keys
  <2> QED BY <1>1, <1>2, ImageIsFinite
<1>4. Latest(keys) \in Nat
  <2> HIDE DEF keys
  <2> QED BY <1>2, <1>3, LatestIsGreatest
<1> QED
  BY <1>4 DEF Fence

\* A generation that a recomputation finds Active, whatever led there, has
\* recent progress, or none at all, and recent evidence.
LEMMA ActiveIsRecent ==
  ASSUME NEW r, SoundRuntime(r), Folded(r), NEW t \in Nat, ExpiryEnabled,
         r.gen.state \notin Terminal \cup {"Unknown"}, Decide(r.gen, r.bind, t).state = "Active"
  PROVE  LET evidence == UNION {r.bind[s].evidence : s \in DOMAIN r.bind}
             progress == UNION {Progresses(r.bind[s].evidence) : s \in DOMAIN r.bind}
         IN  /\ progress # {} => \E e \in progress : t - e.at <= IdleAfter
             /\ evidence # {} => \E e \in evidence : t - e.at <= ExpireAfter
<1> DEFINE g == r.gen
           held == r.bind
           evidence == UNION {held[s].evidence : s \in DOMAIN held}
           progress == UNION {Progresses(held[s].evidence) : s \in DOMAIN held}
           lo == LastObserved(held)
           lp == LastProgress(held)
<1>1. /\ evidence # {} => lo \in Nat \ {0} /\ \E e \in evidence : e.at = lo
      /\ progress # {} => lp \in Nat \ {0} /\ \E e \in progress : e.at = lp
  BY LastsAreEvidence
<1>2. IdleAfter \in Nat /\ ExpireAfter \in Nat /\ IdleAfter <= ExpireAfter
  BY PolicyAssumption
<1>3. ~UnresolvedConflict(held, t) /\ Entitled(held) = {}
  <2>1. ~UnresolvedConflict(held, t)
    BY DEF Decide, Decision
  <2>2. ASSUME Entitled(held) # {} PROVE FALSE
    <3>1. Decide(g, held, t).state = FirstDeclared(held)
      BY <2>1, <2>2 DEF Decide, Decision
    <3> QED
      BY <2>2, <3>1, FirstDeclaredIsTerminal DEF Terminal
  <2> QED
    BY <2>1, <2>2
<1>4. Decide(g, held, t) = IF Usable(held, t) = {} THEN DecideUnusable(g, held, t)
                           ELSE DecideUsable(g, held, t)
  BY <1>3 DEF Decide
<1>5. ASSUME progress # {}, ~Aged(lp, t, IdleAfter)
      PROVE  \E e \in progress : t - e.at <= IdleAfter
  <2>1. lp \in Nat /\ lp # 0 /\ t - lp <= IdleAfter
    BY <1>1, <1>2, <1>5 DEF Aged
  <2> QED
    BY <1>1, <1>5, <2>1
<1>6. CASE Usable(held, t) = {}
  <2>1. DecideUnusable(g, held, t).state = "Active"
    BY <1>4, <1>6
  <2>2. ~Aged(lo, t, ExpireAfter)
    BY <2>1 DEF DecideUnusable, Decision
  <2>3. ~Aged(lp, t, IdleAfter)
    BY <2>1, <2>2 DEF DecideUnusable, Decision
  <2>4. ASSUME evidence # {} PROVE \E e \in evidence : t - e.at <= ExpireAfter
    <3>1. lo \in Nat /\ lo # 0 /\ t - lo <= ExpireAfter
      BY <1>1, <1>2, <2>2, <2>4 DEF Aged
    <3> QED
      BY <1>1, <2>4, <3>1
  <2> QED
    BY <1>5, <2>3, <2>4
<1>7. CASE Usable(held, t) # {}
  <2>1. DecideUsable(g, held, t).state = "Active"
    BY <1>4, <1>7
  <2>2. PICK s \in Usable(held, t) : held[s].view.progress
    BY <2>1 DEF DecideUsable, Decision
  <2>3. ~Aged(lp, t, IdleAfter)
    BY <2>1, <2>2 DEF DecideUsable, Decision
  <2>4. s \in DOMAIN held /\ Progresses(held[s].evidence) # {}
    <3>1. s \in DOMAIN held
      BY DEF Usable
    <3>2. held[s].view = SourceView(held[s].evidence, held[s].view.descriptor)
      BY <3>1 DEF Folded
    <3>3. held[s].view.progress = (Progresses(held[s].evidence) # {})
      BY <3>2 DEF SourceView
    <3> QED
      BY <2>2, <3>1, <3>3
  <2>5. progress # {}
    BY <2>4
  <2>6. PICK e \in progress : t - e.at <= IdleAfter
    BY <1>5, <2>3, <2>5
  <2>7. PICK u \in DOMAIN held : e \in Progresses(held[u].evidence)
    OBVIOUS
  <2>8. e \in held[u].evidence /\ e.at \in Nat
    BY <2>7 DEF Progresses, Accounted, SoundRuntime, SoundBinding, Sent
  <2>9. e \in evidence /\ t - e.at <= ExpireAfter
    BY <1>2, <2>6, <2>7, <2>8
  <2> QED
    BY <2>6, <2>9
<1> QED
  BY <1>6, <1>7

-----------------------------------------------------------------------------
\* The invariant holds in every reachable state.
THEOREM LifecycleInvariant ==
  Spec => []IInv
<1>1. IInv /\ [Next]_vars => IInv'
  BY IInvStep DEF StepKeeps
<1> QED
  BY <1>1, IInvInit, PTL DEF Spec

\* A generation that was found terminated stays so: no ingest, registration,
\* retirement, tick or compaction changes the state decide_generation_state
\* reached, and neither does a restart that restores it from a snapshot,
\* whatever the journal replays behind it.
THEOREM TerminalStaysTerminal ==
  Spec => TerminalIsFinal
<1>1. IInv /\ [Next]_vars
        => [rt.gen.state \in Terminal /\ (Restarting => snap.gen.state = rt.gen.state)
              => rt'.gen.state = rt.gen.state]_vars
  BY IInvStep DEF StepKeeps
<1> QED
  BY <1>1, LifecycleInvariant, PTL DEF Spec, TerminalIsFinal

\* restore_locked never resurrects liveness. Every binding it leaves is
\* restored and unconfirmed, so no source is usable and, with expiry enabled,
\* the generation is Observed, Expired or declared terminated, for every
\* snapshot, every journal behind it and every policy.
THEOREM RestartIsNotLive ==
  Spec => LivenessNotResurrected
<1>1. IInv /\ [Next]_vars
        => [Restarting /\ ExpiryEnabled /\ rt'.gen.state = "Active"
              => DOMAIN rt'.bind = {}]_vars
  <2> SUFFICES ASSUME IInv, Next, Restarting, ExpiryEnabled, rt'.gen.state = "Active"
               PROVE  DOMAIN rt'.bind = {}
    BY DEF vars
  <2>1. Restart
    BY DEF Next, Restarting, TimePasses, Ingest, RetireSource, RegisterSource, Tick, Compact
  <2>2. PICK q : /\ rt' = Settle(q, now)
                 /\ SoundRuntime(q) /\ NothingConfirmed(q)
    BY <2>1, RestartOutcome DEF Restart
  <2> QED
    BY <2>2, RestoredIsNotActive
<1> QED
  BY <1>1, LifecycleInvariant, PTL DEF Spec, LivenessNotResurrected

\* With expiry enabled a tick at any instant leaves a generation Active only
\* while its newest evidence is recent and, if it shows progress at all, its
\* newest progress is: for every set of sources, whatever was retired, voided
\* or restored, and whoever is usable.
THEOREM TickDeniesStale ==
  ASSUME OneContentPerKey
  PROVE  Spec => []TickDeniesStaleLiveness
<1>1. Init => IInv /\ Folded(rt)
  BY IInvInit
<1>2. IInv /\ Folded(rt) /\ [Next]_vars => (IInv /\ Folded(rt))'
  <2> SUFFICES ASSUME IInv, Folded(rt), [Next]_vars PROVE IInv' /\ Folded(rt')
    BY DEF Folded, IInv
  <2> QED
    BY IInvStep DEF StepKeeps
<1>3. IInv /\ Folded(rt) => TickDeniesStaleLiveness
  <2> SUFFICES ASSUME SoundRuntime(rt), Folded(rt), NEW t \in Instants, ExpiryEnabled,
                      rt.gen.state \notin Terminal \cup {"Unknown"},
                      Recompute(rt, t).gen.state = "Active"
               PROVE  LET evidence == UNION {rt.bind[s].evidence : s \in DOMAIN rt.bind}
                          progress == UNION {Progresses(rt.bind[s].evidence) : s \in DOMAIN rt.bind}
                      IN  /\ progress # {} => \E e \in progress : t - e.at <= IdleAfter
                          /\ evidence # {} => \E e \in evidence : t - e.at <= ExpireAfter
    BY DEF IInv, TickDeniesStaleLiveness
  <2>1. t \in Nat
    BY LifecycleAssumption DEF Instants
  <2>2. Decide(rt.gen, rt.bind, t).state = "Active"
    BY RecomputeKeeps
  <2> QED
    BY <2>1, <2>2, ActiveIsRecent
<1> QED
  BY <1>1, <1>2, <1>3, PTL DEF Spec

\* Evidence a source still holds after a restart: the fence of a binding that
\* a snapshot restored is its highest key, so whatever lies above it or in it
\* comes back.
LEMMA RebuildableComesBack ==
  ASSUME OneContentPerKey, IInv, WriteAhead, NEW s \in DOMAIN rt.bind, NEW e \in Rebuildable(s)
  PROVE  \E f \in Evidence(Replayed(Materialised, log), s) : f.key = e.key /\ f.digest = e.digest
<1> DEFINE m == Materialised
           q == Replayed(m, log)
<1>1. /\ SoundRuntime(rt) /\ s \in Sources /\ e \in rt.bind[s].evidence
      /\ e \in Snapped(s) \/ e.key > Fence(Snapped(s))
  BY DEF IInv, SoundRuntime, Rebuildable, Snapped
<1>2. /\ DOMAIN m.bind = DOMAIN snap.evidence
      /\ \A u \in Sources : /\ Evidence(m, u) = Snapped(u)
                            /\ FenceOf(m, u) = IF u \in DOMAIN snap.evidence
                                               THEN Fence(snap.evidence[u]) ELSE 0
  BY MaterialisedHolds
<1>3. /\ Grows(m, q)
      /\ \A i \in 1 .. Len(log) :
           LET o == log[i].obs IN
           ~(o.key <= FenceOf(m, o.src)) => \E f \in Evidence(q, o.src) : Copies(o.src, f, o)
  BY RestartRebuilds
<1> HIDE DEF q, m
<1>4. CASE e \in Snapped(s)
  <2>1. Snapped(s) \subseteq Evidence(q, s)
    BY <1>1, <1>2, <1>3 DEF Grows
  <2> QED
    BY <1>4, <2>1 DEF q, m
<1>5. CASE e \notin Snapped(s)
  <2>1. Recorded(s, e)
    BY <1>1 DEF WriteAhead, Evidence
  <2>2. PICK i \in 1 .. Len(log) : Copies(s, e, log[i].obs)
    BY <1>5, <2>1 DEF Recorded
  <2> DEFINE o == log[i].obs
  <2>3. s = o.src /\ o.key = e.key /\ o.digest = e.digest /\ o \in Observations
    BY <2>2, LogEntries DEF Copies
  <2>4. o.key \in Nat \ {0}
    BY <2>3, LifecycleAssumption
  <2>5. ~(o.key <= FenceOf(m, s))
    <3>1. CASE s \in DOMAIN snap.evidence
      <4>1. FenceOf(m, s) = Fence(Snapped(s))
        BY <1>1, <1>2, <3>1 DEF Snapped
      <4>2. Fence(Snapped(s)) \in Nat
        BY <1>1, <3>1, SnapshotFence DEF Snapped
      <4>3. e.key > Fence(Snapped(s))
        BY <1>1, <1>5
      <4> QED
        BY <2>3, <2>4, <4>1, <4>2, <4>3
    <3>2. CASE s \notin DOMAIN snap.evidence
      <4>1. FenceOf(m, s) = 0
        BY <1>1, <1>2, <3>2
      <4> QED
        BY <2>4, <4>1
    <3> QED
      BY <3>1, <3>2
  <2>6. \E f \in Evidence(q, s) : Copies(s, f, o)
    BY <1>3, <2>3, <2>5
  <2> QED
    BY <2>3, <2>6 DEF Copies, q, m
<1> QED
  BY <1>4, <1>5

\* A restart loses nothing of the evidence the snapshot holds or that was
\* accepted above it, for any number of sources, restarts and compactions,
\* when no source sends two contents under one key. (Of two contents the one
\* with the smaller digest is kept, so a replay may bring back a copy that a
\* retirement had dropped in place of the one that is held.)
THEOREM RestartKeepsTheRecorded ==
  ASSUME OneContentPerKey
  PROVE  Spec => RestartKeepsEvidence
<1>1. Init => IInv /\ WriteAhead
  BY IInvInit, WriteAheadInit
<1>2. IInv /\ WriteAhead /\ [Next]_vars => (IInv /\ WriteAhead)'
  BY IInvStep, WriteAheadStep DEF StepKeeps
<1>3. IInv /\ WriteAhead /\ [Next]_vars
        => [Restarting => \A s \in DOMAIN rt.bind : Rebuildable(s) # {} =>
              /\ s \in DOMAIN rt'.bind
              /\ Contents(Rebuildable(s)) \subseteq Contents(rt'.bind[s].evidence)]_vars
  <2> SUFFICES ASSUME IInv, WriteAhead, Next, Restarting,
                      NEW s \in DOMAIN rt.bind, Rebuildable(s) # {}
               PROVE  /\ s \in DOMAIN rt'.bind
                      /\ Contents(Rebuildable(s)) \subseteq Contents(rt'.bind[s].evidence)
    BY DEF vars
  <2> DEFINE q == Replayed(Materialised, log)
  <2>1. rt' = Settle(q, now)
    BY DEF Next, Restarting, TimePasses, Ingest, RetireSource, RegisterSource, Tick, Compact,
           Restart
  <2>2. SoundRuntime(q)
    BY RestartRebuilds
  <2>3. \A e \in Rebuildable(s) : \E f \in Evidence(q, s) : f.key = e.key /\ f.digest = e.digest
    BY RebuildableComesBack
  <2> HIDE DEF q
  <2>4. rt'.bind = q.bind
    BY <2>1, <2>2, SettleKeeps
  <2>5. s \in DOMAIN rt'.bind /\ Evidence(q, s) = rt'.bind[s].evidence
    BY <2>3, <2>4 DEF Evidence
  <2>6. Contents(Rebuildable(s)) \subseteq Contents(rt'.bind[s].evidence)
    BY <2>3, <2>5 DEF Contents
  <2> QED
    BY <2>5, <2>6
<1> QED
  BY <1>1, <1>2, <1>3, PTL DEF Spec, RestartKeepsEvidence

\* What a source declared, when it declares one end only.
LEMMA DeclaredIsKind ==
  ASSUME OneDeclaration, NEW s, NEW S, IsFiniteSet(S), \A e \in S : Sent(s, e),
         NEW x \in Declarations(S)
  PROVE  DeclaredTerminal(S) = IF x.kind = "Close" THEN "Completed" ELSE "Reset"
<1> DEFINE D == Declarations(S)
           keys == {e.key : e \in D}
           IsFirst(e) == \A f \in D : e.key <= f.key
           first == CHOOSE e \in D : IsFirst(e)
<1>1. /\ D \subseteq S /\ \A e \in D : e.kind \in {"Close", "Reset"}
      /\ \A e \in D : e.key \in Nat
  <2>1. D \subseteq S /\ \A e \in D : e.kind \in {"Close", "Reset"}
    BY DEF Declarations
  <2>2. \A e \in S : \E o \in Observations : o.key = e.key
    BY DEF Sent
  <2> QED
    BY <2>1, <2>2, LifecycleAssumption
<1>2. \E e \in D : IsFirst(e)
  <2>1. keys \in SUBSET Nat /\ keys # {}
    BY <1>1
  <2>2. PICK k \in keys : \A j \in keys : k <= j
    <3> HIDE DEF keys
    <3> QED BY <2>1, LeastNumber
  <2> QED
    BY <2>2
<1>3. first \in D
  <2> HIDE DEF IsFirst
  <2> QED BY <1>2
<1> HIDE DEF first
<1>4. first.kind = x.kind
  <2>1. PICK o \in Observations : o.src = s /\ o.kind = first.kind
    BY <1>1, <1>3 DEF Sent
  <2>2. PICK p \in Observations : p.src = s /\ p.kind = x.kind
    BY <1>1 DEF Sent
  <2> QED
    BY <1>1, <1>3, <2>1, <2>2 DEF OneDeclaration
<1>5. DeclaredTerminal(S) = IF first.kind = "Close" THEN "Completed" ELSE "Reset"
  BY DEF DeclaredTerminal, first
<1> QED
  BY <1>4, <1>5

\* A declared end that the journal holds is declared again after a restart.
LEMMA DeclarationComesBack ==
  ASSUME OneContentPerKey, OneDeclaration, IInv, WriteAhead, NEW s \in DOMAIN rt.bind,
         Rebuildable(s) = rt.bind[s].evidence,
         DeclaredTerminal(rt.bind[s].evidence) # "none"
  PROVE  LET q == Replayed(Materialised, log) IN
         /\ s \in DOMAIN q.bind
         /\ DeclaredTerminal(q.bind[s].evidence) = DeclaredTerminal(rt.bind[s].evidence)
<1> DEFINE q == Replayed(Materialised, log)
           S == rt.bind[s].evidence
           T == q.bind[s].evidence
<1>1. SoundRuntime(q)
  BY RestartRebuilds
<1>2. IsFiniteSet(S) /\ \A e \in S : Sent(s, e)
  BY DEF IInv, SoundRuntime, SoundBinding
<1>3. PICK e \in S : e \in Declarations(S)
  BY DEF DeclaredTerminal, Declarations
<1>4. PICK f \in Evidence(q, s) : f.key = e.key /\ f.digest = e.digest
  BY <1>3, RebuildableComesBack
<1>5. s \in DOMAIN q.bind /\ f \in T
  BY <1>4 DEF Evidence
<1> HIDE DEF q
<1>6. IsFiniteSet(T) /\ \A x \in T : Sent(s, x)
  BY <1>1, <1>5 DEF SoundRuntime, SoundBinding
<1> HIDE DEF S, T
<1>7. f.kind = e.kind
  <2>1. PICK o \in Observations : /\ o.src = s /\ o.key = e.key
                                  /\ o.digest = e.digest /\ o.kind = e.kind
    BY <1>2, <1>3 DEF Sent
  <2>2. PICK p \in Observations : /\ p.src = s /\ p.key = f.key
                                  /\ p.digest = f.digest /\ p.kind = f.kind
    BY <1>5, <1>6 DEF Sent
  <2>3. o = p
    BY <1>4, <2>1, <2>2, LifecycleAssumption
  <2> QED
    BY <2>1, <2>2, <2>3
<1>8. f \in Declarations(T)
  BY <1>3, <1>5, <1>7 DEF Declarations
<1>9. DeclaredTerminal(T) = DeclaredTerminal(S)
  <2>1. DeclaredTerminal(S) = IF e.kind = "Close" THEN "Completed" ELSE "Reset"
    BY <1>2, <1>3, DeclaredIsKind
  <2>2. DeclaredTerminal(T) = IF f.kind = "Close" THEN "Completed" ELSE "Reset"
    BY <1>6, <1>8, DeclaredIsKind
  <2> QED
    BY <1>7, <2>1, <2>2
<1> QED
  BY <1>5, <1>9 DEF S, T, q

\* A generation whose end was declared by a source that may declare it, whose
\* descriptor and evidence are on disk, is terminated after a restart: nothing
\* is usable then, so no disagreement hides the declaration, however old it
\* is. No source may send two contents under one key, change its descriptor or
\* declare both ends.
THEOREM TerminationSurvives ==
  ASSUME OneContentPerKey, OneDescriptor, OneDeclaration
  PROVE  Spec => TerminationSurvivesRestart
<1>1. Init => IInv /\ WriteAhead /\ Current(rt)
  BY IInvInit, WriteAheadInit
<1>2. IInv /\ WriteAhead /\ Current(rt) /\ [Next]_vars => (IInv /\ WriteAhead /\ Current(rt))'
  <2> SUFFICES ASSUME IInv, WriteAhead, Current(rt), [Next]_vars
               PROVE  IInv' /\ WriteAhead' /\ Current(rt')
    BY DEF Current, IInv, WriteAhead
  <2> QED
    BY IInvStep, WriteAheadStep DEF StepKeeps
<1>3. IInv /\ WriteAhead /\ Current(rt) /\ [Next]_vars
        => [Restarting /\ rt.gen.state \in Terminal /\ (\E s \in Entitled(rt.bind) : Durable(s))
              => rt'.gen.state \in Terminal]_vars
  <2> SUFFICES ASSUME IInv, WriteAhead, Current(rt), Next, Restarting,
                      NEW s \in Entitled(rt.bind), Durable(s)
               PROVE  rt'.gen.state \in Terminal
    BY DEF vars
  <2> DEFINE m == Materialised
             q == Replayed(m, log)
             S == rt.bind[s].evidence
             T == q.bind[s].evidence
             d == rt.sources[s]
  <2>1. rt' = Settle(q, now)
    BY DEF Next, Restarting, TimePasses, Ingest, RetireSource, RegisterSource, Tick, Compact,
           Restart
  <2>2. SoundRuntime(q) /\ NothingConfirmed(q) /\ Current(q) /\ Grows(m, q)
    BY RestartRebuilds
  <2>3. s \in DOMAIN m.sources /\ m.sources[s] = d /\ Rebuildable(s) = S
    BY DEF Durable
  <2>4. /\ s \in DOMAIN rt.bind /\ ~d.advisory
        /\ \/ DeclaredTerminal(S) = "Completed" /\ d.completes
           \/ DeclaredTerminal(S) = "Reset" /\ d.resets
    <3>1. s \in DOMAIN rt.bind
      BY DEF Entitled
    <3>2. rt.bind[s].view = SourceView(S, d)
      BY <3>1 DEF Current
    <3>3. rt.bind[s].view.terminal = DeclaredTerminal(S) /\ rt.bind[s].view.descriptor = d
      BY <3>2 DEF SourceView
    <3> QED
      BY <3>1, <3>3 DEF Entitled
  <2>5. s \in DOMAIN q.bind /\ DeclaredTerminal(T) = DeclaredTerminal(S)
    BY <2>3, <2>4, DeclarationComesBack
  <2>6. m.gen = snap.gen /\ DOMAIN m.bind = DOMAIN snap.evidence
    BY MaterialisedHolds
  <2> HIDE DEF q, m
  <2>7. q.sources[s] = d
    BY <2>2, <2>3 DEF Grows
  <2>8. s \in Entitled(q.bind)
    <3>1. q.bind[s].view = SourceView(T, d)
      BY <2>2, <2>5, <2>7 DEF Current
    <3>2. q.bind[s].view.terminal = DeclaredTerminal(T) /\ q.bind[s].view.descriptor = d
      BY <3>1 DEF SourceView
    <3> HIDE DEF S, T, d
    <3> QED
      BY <2>4, <2>5, <3>2 DEF Entitled
  <2>9. q.gen.state # "Unknown"
    BY <2>2, <2>5, <2>6 DEF Grows, Begun, WriteAhead
  <2>10. rt'.gen = Decide(q.gen, q.bind, now)
    BY <2>1, <2>2, <2>9, SettleKeeps
  <2>11. ~UnresolvedConflict(q.bind, now)
    BY <2>2 DEF NothingConfirmed, Usable, UnresolvedConflict
  <2>12. FirstDeclared(q.bind) \in Terminal
    BY <2>2, <2>8, FirstDeclaredIsTerminal
  <2> QED
    BY <2>8, <2>10, <2>11, <2>12 DEF Decide, Decision
<1> QED
  BY <1>1, <1>2, <1>3, PTL DEF Spec, TerminationSurvivesRestart

-----------------------------------------------------------------------------
(* Division, and the leftover of a proportional split.                     *)

LEMMA Division ==
  ASSUME NEW a \in Nat, NEW b \in Nat \ {0}
  PROVE  /\ a \div b \in Nat /\ (a % b) \in Nat
         /\ a = b * (a \div b) + (a % b)
         /\ (a % b) < b
  OBVIOUS

\* A positive factor on both sides of a comparison cancels.
LEMMA Cancel ==
  ASSUME NEW a \in Nat, NEW b \in Nat, NEW c \in Nat \ {0}
  PROVE  /\ c * a <= c * b => a <= b
         /\ c * a < c * b => a < b
  OBVIOUS

\* A product distributes over a sum, and grows with its factors.
LEMMA Distributes ==
  ASSUME NEW a \in Nat, NEW b \in Nat, NEW c \in Nat
  PROVE  /\ c * (a + b) = c * a + c * b
         /\ c * a \in Nat /\ c * b \in Nat /\ c * a = a * c
         /\ a <= b => c * a <= c * b
  OBVIOUS

\* A product within the word is not taken for an overflow.
LEMMA NoOverflow ==
  ASSUME NEW a \in Nat, NEW b \in Nat, a * b <= MaxWord
  PROVE  ~MulOverflows(a, b)
<1> SUFFICES ASSUME b # 0, a > MaxWord \div b PROVE FALSE
  BY DEF MulOverflows
<1> DEFINE q == MaxWord \div b
<1>1. MaxWord \in Nat
  BY AttributionAssumption
<1>2. q \in Nat /\ MaxWord = b * q + (MaxWord % b) /\ (MaxWord % b) < b
      /\ (MaxWord % b) \in Nat
  BY <1>1, Division
<1>3. q + 1 \in Nat /\ q + 1 <= a
  BY <1>2
<1> HIDE DEF q
<1>4. b * (q + 1) <= b * a /\ b * (q + 1) = b * q + b * 1 /\ b * a = a * b
  BY <1>2, <1>3, Distributes
<1>5. b * q \in Nat /\ b * a \in Nat
  BY <1>2, Distributes
<1> QED
  BY <1>1, <1>2, <1>4, <1>5

\* The parts of a total: base the whole units of each element, rem what is left
\* of its exact share, w its weight.
Parts(S, total, w, base, rem) ==
  \A i \in S : /\ w[i] \in Nat /\ base[i] \in Nat /\ rem[i] \in Nat
               /\ total * w[i] = Over(w, S) * base[i] + rem[i]
               /\ rem[i] < Over(w, S)

\* The floors of distribute and their remainders add up: the total, times the sum of
\* the weights, is what the floors hand out plus the sum of the remainders.
LEMMA Leftover ==
  ASSUME NEW S, IsFiniteSet(S), NEW total \in Nat, NEW w, NEW base, NEW rem,
         Parts(S, total, w, base, rem)
  PROVE  /\ Over(w, S) \in Nat /\ Over(base, S) \in Nat /\ Over(rem, S) \in Nat
         /\ Over(w, S) * total = Over(w, S) * Over(base, S) + Over(rem, S)
<1> DEFINE W == Over(w, S)
           exact == [i \in S |-> total * w[i]]
           zero == [i \in S |-> IF i \in {} THEN 1 ELSE 0]
<1>1. \A i \in S : w[i] \in Nat /\ base[i] \in Nat /\ rem[i] \in Nat
  BY DEF Parts
<1>2. W \in Nat /\ Over(base, S) \in Nat /\ Over(rem, S) \in Nat
  BY <1>1, OverRemove
<1>3. \A i \in S : exact[i] \in Nat /\ exact[i] = W * base[i] + rem[i]
  BY <1>1, Distributes DEF Parts
<1>4. \A i \in S : zero[i] \in Nat /\ zero[i] = 0 /\ exact[i] = total * w[i] + zero[i]
  BY <1>1, <1>3
<1>7. Over(zero, S) = 0
  <2>1. Over(zero, S) = Cardinality(S \cap {})
    BY OverCounts
  <2> HIDE DEF zero
  <2> QED
    BY <2>1, FS_EmptySet
<1> HIDE DEF exact, zero, W
<1>5. Over(exact, S) = W * Over(base, S) + Over(rem, S)
  <2>1. \A x \in S : /\ exact[x] \in Nat /\ base[x] \in Nat /\ rem[x] \in Nat
                     /\ exact[x] = W * base[x] + rem[x]
    BY <1>1, <1>3
  <2> QED
    BY ONLY <1>2, <2>1, IsFiniteSet(S), OverLinear
<1>6. Over(exact, S) = total * Over(w, S) + Over(zero, S)
  BY <1>1, <1>3, <1>4, OverLinear
<1> QED
  BY <1>2, <1>5, <1>6, <1>7, Distributes DEF W

\* A unit that is still to be handed out has an element with a remainder that
\* has not been rounded up yet.
LEMMA LeftoverIsReachable ==
  ASSUME NEW S, IsFiniteSet(S), NEW total \in Nat, NEW w, NEW base, NEW rem,
         Parts(S, total, w, base, rem), Over(w, S) # 0,
         NEW T \in SUBSET S, Over(base, S) + Cardinality(T) < total
  PROVE  \E j \in S \ T : rem[j] > 0
<1> SUFFICES ASSUME \A j \in S \ T : ~(rem[j] > 0) PROVE FALSE
  OBVIOUS
<1> DEFINE W == Over(w, S)
           B == Over(base, S)
           R == Over(rem, S)
           c == Cardinality(T)
           one == [i \in S |-> IF i \in T THEN 1 ELSE 0]
           zero == [i \in S |-> IF i \in {} THEN 1 ELSE 0]
           most == [i \in S |-> IF i \in T THEN W ELSE 0]
<1>1. W \in Nat \ {0} /\ B \in Nat /\ R \in Nat /\ W * total = W * B + R
  BY Leftover
<1>2. Over(one, S) = c /\ c \in Nat
  <2>1. S \cap T = T
    OBVIOUS
  <2> QED
    BY <2>1, OverCounts
<1>3. Over(zero, S) = 0
  <2>1. Over(zero, S) = Cardinality(S \cap {})
    BY OverCounts
  <2> HIDE DEF zero
  <2> QED
    BY <2>1, FS_EmptySet
<1>4. \A i \in S : rem[i] \in Nat /\ rem[i] < W
  BY DEF Parts
<1>5. \A i \in S : /\ most[i] \in Nat /\ one[i] \in Nat /\ zero[i] \in Nat
                   /\ most[i] = W * one[i] + zero[i]
  BY <1>1
<1>6. \A i \in S : rem[i] \in Nat /\ most[i] \in Nat /\ rem[i] <= most[i]
  BY <1>1, <1>4
<1> HIDE DEF W, B, R, c, one, zero, most
<1>7. R <= Over(most, S)
  <2>1. Over(rem, S) <= Over(most, S)
    BY ONLY <1>6, IsFiniteSet(S), OverMonotone
  <2> QED
    BY <2>1 DEF R
<1>8. Over(most, S) = W * Over(one, S) + Over(zero, S)
  BY ONLY <1>1, <1>5, IsFiniteSet(S), OverLinear
<1>9. W * total <= W * (B + c)
  BY <1>1, <1>2, <1>3, <1>7, <1>8, Distributes
<1>10. total <= B + c /\ B + c \in Nat
  BY <1>1, <1>2, <1>9, Cancel
<1>11. B + c < total
  BY DEF B, c
<1> QED
  BY <1>1, <1>2, <1>10, <1>11

\* There is less than one unit per element to hand out.
LEMMA LeftoverIsSmall ==
  ASSUME NEW S, IsFiniteSet(S), NEW total \in Nat, NEW w, NEW base, NEW rem,
         Parts(S, total, w, base, rem), Over(w, S) # 0, S # {}
  PROVE  /\ Over(base, S) <= total
         /\ total < Over(base, S) + Cardinality(S)
<1> DEFINE W == Over(w, S)
           B == Over(base, S)
           R == Over(rem, S)
           c == Cardinality(S)
           one == [i \in S |-> IF i \in S THEN 1 ELSE 0]
           zero == [i \in S |-> IF i \in {} THEN 1 ELSE 0]
           most == [i \in S |-> W - 1]
<1>1. W \in Nat \ {0} /\ B \in Nat /\ R \in Nat /\ W * total = W * B + R
  BY Leftover
<1>2. Over(one, S) = c /\ c \in Nat /\ c # 0
  <2>1. S \cap S = S
    OBVIOUS
  <2>2. Cardinality(S) # 0
    BY FS_EmptySet
  <2> QED
    BY <2>1, <2>2, OverCounts
<1>3. Over(zero, S) = 0
  <2>1. Over(zero, S) = Cardinality(S \cap {})
    BY OverCounts
  <2> HIDE DEF zero
  <2> QED
    BY <2>1, FS_EmptySet
<1>4. \A i \in S : rem[i] \in Nat /\ rem[i] < W
  BY DEF Parts
<1>5. \A i \in S : /\ most[i] \in Nat /\ one[i] \in Nat /\ zero[i] \in Nat
                   /\ most[i] = (W - 1) * one[i] + zero[i]
  BY <1>1
<1>6. \A i \in S : rem[i] \in Nat /\ most[i] \in Nat /\ rem[i] <= most[i]
  BY <1>1, <1>4
<1>0. W - 1 \in Nat
  BY <1>1
<1> HIDE DEF W, B, R, c, one, zero, most
<1>7. R <= Over(most, S)
  <2>1. Over(rem, S) <= Over(most, S)
    BY ONLY <1>6, IsFiniteSet(S), OverMonotone
  <2> QED
    BY <2>1 DEF R
<1>8. Over(most, S) = (W - 1) * Over(one, S) + Over(zero, S)
  BY ONLY <1>0, <1>5, IsFiniteSet(S), OverLinear
<1>9. R < W * c
  <2>1. W * c = (W - 1) * c + c /\ (W - 1) * c \in Nat
    BY <1>0, <1>1, <1>2
  <2> QED
    BY <1>1, <1>2, <1>3, <1>7, <1>8, <2>1
<1>10. W * total < W * (B + c) /\ W * B <= W * total
  BY <1>1, <1>2, <1>9, Distributes
<1>11. total < B + c /\ B <= total
  BY <1>1, <1>2, <1>10, Cancel
<1> QED
  BY <1>11 DEF B, c

-----------------------------------------------------------------------------
(* The request.                                                            *)

\* A split exists: in the loops of distribute, before the report, or in it.
Split == phase \in {"clamp", "settle", "report"} \/ (phase = "done" /\ report.shares # <<>>)

Hops == DOMAIN Weights

\* No sum and no product saturates.
Fits == Sum(Weights) <= MaxWord /\ \A i \in Hops : view.total * Weights[i] <= MaxWord

Base == [i \in Hops |-> (view.total * Weights[i]) \div WeightSum]
Rem == [i \in Hops |-> (view.total * Weights[i]) % WeightSum]

\* The hops that were rounded up.
Up == {i \in Hops : shares[i] # Base[i]}

\* Each hop is rounded up at most once, and in the order of the remainders.
Rounded ==
  /\ \A i \in Up : shares[i] = Base[i] + 1
  /\ \A i \in Hops : remainders[i] = IF i \in Up THEN 0 ELSE Rem[i]
  /\ \A i \in Up, j \in Hops \ Up : Rem[i] > Rem[j] \/ (Rem[i] = Rem[j] /\ i < j)

\* The inductive invariant.
AInv ==
  /\ bind \in Generations /\ policy \in Policies
  /\ phase # "reconcile" => view = GenerationView
  /\ Split => /\ Refusal = "Ok" /\ policy.method # "EndpointOnly"
              /\ shares \in [Hops -> Nat] /\ remainders \in [Hops -> Nat]
  /\ phase = "clamp" => Sum(shares) > view.total
  /\ phase = "settle" => Sum(shares) <= view.total
  /\ Split /\ phase \in {"report", "done"} => Sum(shares) = view.total
  /\ Split /\ Fits => phase # "clamp" /\ Rounded
  /\ phase = "done" /\ report.shares # <<>> => report.shares = shares /\ report.total = view.total
  /\ phase = "done" /\ report.status = "Ok" => Refusal = "Ok" /\ report.total = view.total

\* sort_source_views orders any sources strictly, so one of them is the first.
LEMMA FirstIsOne ==
  ASSUME bind \in Generations, NEW S \in SUBSET DOMAIN bind, S # {}
  PROVE  First(S) \in S
<1> DEFINE Good == {s \in SUBSET S : s # {} => \E m \in s : \A r \in s \ {m} : SortsBefore(bind, m, r)}
<1>1. DOMAIN bind \in SUBSET Nat /\ IsFiniteSet(DOMAIN bind) /\ IsFiniteSet(S)
  BY AttributionAssumption, FS_Subset
<1>2. \A s \in S : s \in Nat /\ Authority(bind, s) \in Nat
  BY <1>1, AttributionAssumption
<1>3. ASSUME NEW s \in SUBSET S, \A x \in s : s \ {x} \in Good PROVE s \in Good
  <2> SUFFICES ASSUME s # {}
               PROVE  \E m \in s : \A r \in s \ {m} : SortsBefore(bind, m, r)
    OBVIOUS
  <2>1. PICK x \in s : TRUE
    OBVIOUS
  <2>2. CASE s \ {x} = {}
    BY <2>1, <2>2
  <2>3. CASE s \ {x} # {}
    <3>1. PICK m \in s \ {x} : \A r \in (s \ {x}) \ {m} : SortsBefore(bind, m, r)
      BY <1>3, <2>1, <2>3
    <3>2. SortsBefore(bind, m, x) \/ SortsBefore(bind, x, m)
      BY <1>2, <2>1, <3>1 DEF SortsBefore
    <3>3. CASE SortsBefore(bind, m, x)
      BY <3>1, <3>3
    <3>4. CASE SortsBefore(bind, x, m)
      <4>1. ASSUME NEW r \in s \ {x} PROVE SortsBefore(bind, x, r)
        <5>1. r = m \/ SortsBefore(bind, m, r)
          BY <3>1
        <5>2. /\ r \in Nat /\ m \in Nat /\ x \in Nat /\ Authority(bind, r) \in Nat
              /\ Authority(bind, m) \in Nat /\ Authority(bind, x) \in Nat
          BY <1>2, <2>1, <3>1
        <5> QED
          BY <3>4, <5>1, <5>2 DEF SortsBefore
      <4> QED
        BY <2>1, <4>1
    <3> QED
      BY <3>2, <3>3, <3>4
  <2> QED
    BY <2>2, <2>3
<1> HIDE DEF Good
<1>4. S \in Good
  BY <1>1, <1>3, SubsetInduction
<1>5. \E m \in S : \A r \in S \ {m} : SortsBefore(bind, m, r)
  BY <1>4 DEF Good
<1> QED
  BY <1>5 DEF First

\* Only a source that has sent evidence is usable.
LEMMA UsableAreSources == Usable(bind, Now) \in SUBSET DOMAIN bind
  BY DEF Usable

\* The three saturating sums of a source stay within the word.
LEMMA TotalsAreWords ==
  ASSUME bind \in Generations, NEW s \in DOMAIN bind
  PROVE  TotalsOf(s) \in 0 .. MaxWord
<1>1. MaxWord \in Nat
  BY AttributionAssumption
<1>2. \A a, b \in 0 .. MaxWord : SaturatingAdd(a, b) \in 0 .. MaxWord
  BY <1>1 DEF SaturatingAdd
<1>3. /\ bind[s].forward \in 0 .. MaxWord /\ bind[s].reverse \in 0 .. MaxWord
      /\ bind[s].aggregate \in 0 .. MaxWord
  BY AttributionAssumption
<1> QED
  BY <1>2, <1>3 DEF TotalsOf

\* Whatever the method, a total drawn from usable sources lies between theirs.
LEMMA TotalIsMeasured ==
  ASSUME bind \in Generations, policy \in Policies
  PROVE  LET totals == {TotalsOf(s) : s \in Usable(bind, Now)} IN
         /\ GenerationTotal \in 0 .. MaxWord
         /\ totals # {} => GenerationTotal \in Min(totals) .. Max(totals)
<1> DEFINE U == Usable(bind, Now)
           totals == {TotalsOf(s) : s \in U}
           f == [s \in DOMAIN bind |-> TotalsOf(s)]
<1>1. IsFiniteSet(U) /\ U \in SUBSET DOMAIN bind /\ MaxWord \in Nat
  BY AttributionAssumption, UsableAreSources, FS_Subset
<1>2. \A s \in DOMAIN bind : TotalsOf(s) \in 0 .. MaxWord
  BY TotalsAreWords
<1>3. IsFiniteSet(totals) /\ totals \in SUBSET (0 .. MaxWord)
  <2>1. totals = {f[s] : s \in U}
    BY <1>1
  <2> HIDE DEF f
  <2>2. IsFiniteSet(totals)
    BY <1>1, <2>1, ImageIsFinite
  <2> QED
    BY <1>1, <1>2, <2>2
<1>4. CASE totals # {}
  <2>1. U # {} /\ TotalsOf(First(U)) \in totals
    BY <1>1, <1>4, FirstIsOne
  <2> HIDE DEF totals, U
  <2>2. \/ policy.reconciliation = "PrimaryAuthoritative"
        \/ policy.reconciliation = "MaximumObserved"
        \/ policy.reconciliation = "ConservativeMinimum"
    BY AttributionAssumption
  <2>3. totals \in SUBSET Nat
    BY <1>1, <1>3
  <2>4. /\ Max(totals) \in totals /\ Min(totals) \in totals
        /\ \A x \in totals : Min(totals) <= x /\ x <= Max(totals)
    BY <1>3, <1>4, <2>3, Extremes
  <2>5. GenerationTotal \in totals
    <3> USE DEF totals, U
    <3>1. CASE policy.reconciliation = "PrimaryAuthoritative"
      BY <1>4, <2>1, <3>1 DEF GenerationTotal
    <3>2. CASE policy.reconciliation = "MaximumObserved"
      BY <1>4, <2>4, <3>2 DEF GenerationTotal
    <3>3. CASE policy.reconciliation = "ConservativeMinimum"
      BY <1>4, <2>4, <3>3 DEF GenerationTotal
    <3> QED
      BY <2>2, <3>1, <3>2, <3>3
  <2>6. GenerationTotal \in 0 .. MaxWord /\ GenerationTotal \in Min(totals) .. Max(totals)
    BY <1>3, <2>3, <2>4, <2>5
  <2> QED
    BY <2>6 DEF totals, U
<1>5. CASE totals = {}
  <2>1. Declared \in SUBSET DOMAIN bind
    BY DEF Declared
  <2>2. Declared # {} => TotalsOf(First(Declared)) \in 0 .. MaxWord
    BY <1>2, <2>1, FirstIsOne
  <2>3. GenerationTotal = IF Declared # {} THEN TotalsOf(First(Declared)) ELSE 0
    BY <1>5 DEF GenerationTotal
  <2> QED
    BY <1>1, <1>5, <2>2, <2>3
<1> QED
  BY <1>4, <1>5

\* The merged links are a finite list.
LEMMA LinksAreAList ==
  ASSUME bind \in Generations
  PROVE  /\ Len(Merged("links")) \in Nat
         /\ DOMAIN Merged("links") = 1 .. Len(Merged("links"))
         /\ Merged("links") # <<>> => Len(Merged("links")) # 0
<1> DEFINE D == DOMAIN bind
           each == [s \in D |-> {s} \X DOMAIN bind[s]["links"]]
           M == Mentions("links")
           new == {m \in M : \A n \in M :
                     Named("links", n) = Named("links", m) => ~MetBefore(n, m)}
           nth(k) == CHOOSE m \in new : Cardinality({n \in new : MetBefore(n, m)}) = k - 1
           list == [k \in 1 .. Cardinality(new) |-> Named("links", nth(k))]
           X == {list[k] : k \in 1 .. Cardinality(new)}
<1>1. IsFiniteSet(D)
  BY AttributionAssumption
<1>2. IsFiniteSet(M)
  <2>1. M = UNION {each[s] : s \in D}
    BY DEF Mentions
  <2>2. ASSUME NEW s \in D PROVE IsFiniteSet(each[s])
    <3>1. bind[s].links \in Seq(Range(bind[s].links))
      BY AttributionAssumption
    <3>2. DOMAIN bind[s].links = 1 .. Len(bind[s].links) /\ Len(bind[s].links) \in Nat
      BY <3>1, LenProperties
    <3>3. IsFiniteSet(DOMAIN bind[s].links) /\ IsFiniteSet({s})
      <4>1. 1 \in Int /\ Len(bind[s].links) \in Int
        BY <3>2
      <4>2. IsFiniteSet(1 .. Len(bind[s].links))
        BY <4>1, FS_Interval
      <4> QED
        BY <3>2, <4>2, FS_Singleton
    <3> QED
      BY <3>3, FS_Product
  <2> HIDE DEF each
  <2>3. IsFiniteSet({each[s] : s \in D})
    BY <1>1, ImageIsFinite
  <2> QED
    BY <2>1, <2>2, <2>3, FS_UNION
<1>3. new \in SUBSET M
  OBVIOUS
<1> HIDE DEF new
<1>4. Cardinality(new) \in Nat
  BY <1>2, <1>3, FS_Subset, FS_CardinalityType
<1>5. Merged("links") = list
  BY DEF Merged, new
<1>6. list \in [1 .. Cardinality(new) -> X]
  OBVIOUS
<1> HIDE DEF list, X
<1>7. list \in Seq(X)
  BY <1>4, <1>6, SeqDef
<1>8. Len(list) \in Nat /\ DOMAIN list = 1 .. Len(list) /\ (Len(list) = 0 => list = <<>>)
  BY <1>7, LenProperties, EmptySeq
<1> QED
  BY <1>5, <1>8

\* The capacities of the generation are those of one source, or none.
LEMMA CapacitiesAreWords ==
  ASSUME bind \in Generations
  PROVE  GenerationView.capacities \in Seq(0 .. MaxWord)
<1> DEFINE naming == {s \in DOMAIN bind : bind[s]["capacities"] \notin {None, <<>>}}
           c == FirstNamed("capacities")
<1>1. GenerationView.capacities = IF c = None THEN <<>> ELSE c
  BY DEF GenerationView
<1>2. <<>> \in Seq(0 .. MaxWord)
  BY EmptySeq
<1>3. CASE naming = {}
  BY <1>1, <1>2, <1>3 DEF FirstNamed
<1>4. CASE naming # {}
  <2>1. First(naming) \in DOMAIN bind
    BY <1>4, FirstIsOne
  <2>2. c = bind[First(naming)].capacities
    BY <1>4 DEF FirstNamed
  <2>3. c \in Seq(0 .. MaxWord)
    BY <2>1, <2>2, AttributionAssumption
  <2> QED
    BY <1>1, <1>2, <2>3
<1> QED
  BY <1>3, <1>4

\* The weights of a split that is not refused: one for each hop, none is zero.
LEMMA WeightsArePositive ==
  ASSUME bind \in Generations, view = GenerationView, Refusal = "Ok",
         policy.method # "EndpointOnly"
  PROVE  /\ Len(Weights) \in Nat \ {0} /\ Hops = 1 .. Len(Weights)
         /\ \A i \in Hops : Weights[i] \in 1 .. MaxWord
<1> DEFINE n == Len(view.links)
<1>1. view.links = Merged("links")
  BY DEF GenerationView
<1>2. n \in Nat /\ DOMAIN view.links = 1 .. n /\ (view.links # <<>> => n # 0)
  BY <1>1, LinksAreAList
<1>3. /\ view.links # <<>>
      /\ policy.method = "ProportionalToCapacity" =>
           Len(view.capacities) = n /\ 0 \notin Range(view.capacities)
  BY DEF Refusal
<1>4. MaxWord \in Nat \ {0}
  BY AttributionAssumption
<1>5. CASE policy.method = "ProportionalToCapacity"
  <2> DEFINE c == view.capacities
  <2>1. c \in Seq(0 .. MaxWord) /\ Weights = c
    BY <1>5, CapacitiesAreWords DEF Weights
  <2>2. Len(c) = n /\ 0 \notin Range(c)
    BY <1>3, <1>5
  <2> HIDE DEF c
  <2>3. DOMAIN c = 1 .. n /\ \A i \in 1 .. n : c[i] \in 0 .. MaxWord
    BY <2>1, <2>2, LenProperties, ElementOfSeq
  <2>4. \A i \in 1 .. n : c[i] # 0
    BY <2>2, <2>3 DEF Range
  <2> QED
    BY <1>2, <1>3, <1>4, <2>1, <2>2, <2>3, <2>4 DEF Hops
<1>6. CASE policy.method # "ProportionalToCapacity"
  <2>1. Weights = [i \in 1 .. n |-> 1]
    BY <1>2, <1>6 DEF Weights
  <2>2. Weights \in [1 .. n -> {1}]
    BY <2>1
  <2>3. Weights \in Seq({1})
    BY <1>2, <2>2, SeqDef
  <2>4. DOMAIN Weights = 1 .. n /\ DOMAIN Weights = 1 .. Len(Weights) /\ Len(Weights) \in Nat
    BY <2>2, <2>3, LenProperties
  <2>5. Len(Weights) = n
    BY <1>2, <2>4
  <2> QED
    BY <1>2, <1>3, <1>4, <2>1, <2>4, <2>5 DEF Hops
<1> QED
  BY <1>5, <1>6

\* The reconciled view is a function of the sources and the policy alone.
LEMMA SameSourcesSameView ==
  ASSUME bind' = bind, policy' = policy
  PROVE  GenerationView' = GenerationView
<1>1. GenerationTotal' = GenerationTotal
  BY DEF GenerationTotal, Usable, Fresh, First, SortsBefore, Authority, TotalsOf, Declared
<1>2. GenerationFreshness' = GenerationFreshness
  BY DEF GenerationFreshness, Usable, Fresh, First, SortsBefore, Authority, FreshnessOf
<1>3. UnresolvedConflict(bind, Now)' = UnresolvedConflict(bind, Now)
  BY DEF UnresolvedConflict, Usable, Fresh, Authority
<1>4. ASSUME NEW field PROVE FirstNamed(field)' = FirstNamed(field)
  BY DEF FirstNamed, First, SortsBefore, Authority
<1>5. ASSUME NEW field PROVE Merged(field)' = Merged(field)
  BY DEF Merged, Mentions, Named, MetBefore, SortsBefore, Authority
<1>6. MergedQueues' = MergedQueues
  BY <1>5 DEF MergedQueues
<1> QED
  BY <1>1, <1>2, <1>3, <1>4, <1>5, <1>6 DEF GenerationView

\* What the later steps of a request read and none of them changes.
LEMMA SameViewSameSplit ==
  ASSUME policy' = policy, view' = view, current' = current
  PROVE  /\ Refusal' = Refusal /\ Weights' = Weights /\ Hops' = Hops
         /\ WeightSum' = WeightSum /\ Base' = Base /\ Rem' = Rem
         /\ Fits' <=> Fits
<1>1. Refusal' = Refusal
  BY DEF Refusal, EndpointTargets
<1>2. Weights' = Weights
  BY DEF Weights
<1>3. Hops' = Hops /\ WeightSum' = WeightSum
  BY <1>2 DEF Hops, WeightSum
<1>4. Base' = Base /\ Rem' = Rem
  BY <1>2, <1>3 DEF Base, Rem
<1>5. Fits' <=> Fits
  BY <1>2, <1>3 DEF Fits
<1> QED
  BY <1>1, <1>2, <1>3, <1>4, <1>5

\* The sum of a sequence is the sum over its positions.
LEMMA SumIsOver ==
  ASSUME NEW f
  PROVE  Sum(f) = Over(f, DOMAIN f)
  BY DEF Sum, SumFunction, Over

\* The hops of a split and the sum of their weights.
LEMMA SplitFacts ==
  ASSUME bind \in Generations, policy \in Policies, view = GenerationView, Refusal = "Ok",
         policy.method # "EndpointOnly"
  PROVE  /\ IsFiniteSet(Hops) /\ Hops \in SUBSET Nat /\ Hops # {}
         /\ Cardinality(Hops) = Len(Weights)
         /\ view.total \in Nat /\ MaxWord \in Nat \ {0}
         /\ \A i \in Hops : Weights[i] \in 1 .. MaxWord
         /\ Over(Weights, Hops) \in Nat \ {0} /\ Sum(Weights) = Over(Weights, Hops)
         /\ WeightSum \in 1 .. MaxWord
         /\ Fits => WeightSum = Over(Weights, Hops)
<1>1. /\ Len(Weights) \in Nat \ {0} /\ Hops = 1 .. Len(Weights)
      /\ \A i \in Hops : Weights[i] \in 1 .. MaxWord
  BY WeightsArePositive
<1>2. MaxWord \in Nat \ {0}
  BY AttributionAssumption
<1>3. view.total \in Nat
  <2>1. GenerationTotal \in 0 .. MaxWord
    BY TotalIsMeasured
  <2> QED
    BY <1>2, <2>1 DEF GenerationView
<1>4. IsFiniteSet(Hops) /\ Cardinality(Hops) = Len(Weights)
  <2>1. 1 \in Int /\ Len(Weights) \in Int /\ ~(1 > Len(Weights)) /\ (Len(Weights) - 1) + 1 = Len(Weights)
    BY <1>1
  <2> QED
    BY <1>1, <2>1, FS_Interval
<1>5. Hops \in SUBSET Nat /\ 1 \in Hops
  BY <1>1
<1>6. Over(Weights, Hops) \in Nat \ {0}
  <2>1. \A i \in Hops : Weights[i] \in Nat
    BY <1>1, <1>2
  <2>2. /\ Over(Weights, Hops) \in Nat /\ Over(Weights, Hops \ {1}) \in Nat
        /\ Over(Weights, Hops) = Weights[1] + Over(Weights, Hops \ {1})
    <3>1. /\ \A x \in Hops : Over(Weights, Hops) = Weights[x] + Over(Weights, Hops \ {x})
          /\ \A x \in Hops : Over(Weights, Hops \ {x}) \in Nat
          /\ Over(Weights, Hops) \in Nat
      BY ONLY <1>4, <2>1, OverRemove, Zenon
    <3> QED
      BY <1>5, <3>1
  <2>3. Weights[1] \in Nat \ {0}
    BY <1>1, <1>2, <1>5
  <2> QED
    BY <2>2, <2>3
<1>7. Sum(Weights) = Over(Weights, Hops)
  BY SumIsOver DEF Hops
<1>8. WeightSum = IF Over(Weights, Hops) <= MaxWord THEN Over(Weights, Hops) ELSE MaxWord
  BY <1>2, <1>6, <1>7, SmallerOfTwo DEF WeightSum
<1>9. WeightSum \in 1 .. MaxWord /\ (Fits => WeightSum = Over(Weights, Hops))
  BY <1>2, <1>6, <1>7, <1>8 DEF Fits
<1> QED
  BY <1>1, <1>2, <1>3, <1>4, <1>5, <1>6, <1>7, <1>9

\* Without saturation the shares start as the parts of the total.
LEMMA BaseAreParts ==
  ASSUME bind \in Generations, policy \in Policies, view = GenerationView, Refusal = "Ok",
         policy.method # "EndpointOnly", Fits
  PROVE  /\ Parts(Hops, view.total, Weights, Base, Rem)
         /\ \A i \in Hops : ~MulOverflows(view.total, Weights[i])
<1> DEFINE W == Over(Weights, Hops)
<1>1. /\ view.total \in Nat /\ MaxWord \in Nat /\ W \in Nat \ {0} /\ WeightSum = W
      /\ \A i \in Hops : Weights[i] \in 1 .. MaxWord
  BY SplitFacts
<1> HIDE DEF W
<1>2. ASSUME NEW i \in Hops
      PROVE  /\ Weights[i] \in Nat /\ Base[i] \in Nat /\ Rem[i] \in Nat
             /\ view.total * Weights[i] = W * Base[i] + Rem[i]
             /\ Rem[i] < W /\ ~MulOverflows(view.total, Weights[i])
  <2> DEFINE t == view.total
             w == Weights[i]
             p == t * w
  <2>1. t \in Nat /\ w \in Nat /\ p <= MaxWord
    BY <1>1 DEF Fits
  <2>2. ~MulOverflows(t, w)
    BY <2>1, NoOverflow
  <2>3. Base[i] = p \div W /\ Rem[i] = p % W
    BY <1>1 DEF Base, Rem
  <2>4. p \in Nat
    BY <2>1, Distributes
  <2> HIDE DEF t, w, p
  <2>5. p \div W \in Nat /\ (p % W) \in Nat /\ p = W * (p \div W) + (p % W) /\ (p % W) < W
    BY <1>1, <2>4, Division
  <2>6. Base[i] \in Nat /\ Rem[i] \in Nat /\ p = W * Base[i] + Rem[i] /\ Rem[i] < W
    BY <2>3, <2>5
  <2> QED
    BY <2>1, <2>2, <2>6 DEF t, w, p
<1> QED
  BY <1>2 DEF Parts, W

\* The loop over the weights, and the test which of the two loops follows.
LEMMA ScaleStep ==
  ASSUME AInv, Scale
  PROVE  AInv'
<1> DEFINE total == view.total
           over(i) == MulOverflows(total, Weights[i])
<1>1. /\ phase = "check" /\ Refusal = "Ok" /\ policy.method # "EndpointOnly"
      /\ bind' = bind /\ policy' = policy /\ current' = current /\ view' = view
      /\ report' = report
      /\ shares' = [i \in Hops |-> IF over(i) THEN MaxWord \div WeightSum
                                   ELSE (total * Weights[i]) \div WeightSum]
      /\ remainders' = [i \in Hops |-> IF over(i) THEN 0
                                       ELSE (total * Weights[i]) % WeightSum]
      /\ phase' = IF Sum(shares') > total THEN "clamp" ELSE "settle"
  BY DEF Scale, Hops
<1>2. bind \in Generations /\ policy \in Policies /\ view = GenerationView
  BY <1>1 DEF AInv
<1>3. /\ Refusal' = Refusal /\ Weights' = Weights /\ Hops' = Hops
      /\ WeightSum' = WeightSum /\ Base' = Base /\ Rem' = Rem /\ (Fits' <=> Fits)
      /\ GenerationView' = GenerationView
  BY <1>1, SameViewSameSplit, SameSourcesSameView
<1>4. /\ total \in Nat /\ MaxWord \in Nat \ {0} /\ WeightSum \in 1 .. MaxWord
      /\ IsFiniteSet(Hops) /\ Hops # {}
      /\ \A i \in Hops : Weights[i] \in 1 .. MaxWord
  BY <1>1, <1>2, SplitFacts
<1>5. shares' \in [Hops -> Nat] /\ remainders' \in [Hops -> Nat]
  <2>1. ASSUME NEW i \in Hops
        PROVE  /\ MaxWord \div WeightSum \in Nat
               /\ (total * Weights[i]) \div WeightSum \in Nat
               /\ ((total * Weights[i]) % WeightSum) \in Nat
    <3>1. total * Weights[i] \in Nat /\ WeightSum \in Nat \ {0} /\ MaxWord \in Nat
      BY <1>4, Distributes
    <3> QED
      BY <3>1, Division
  <2> HIDE DEF over, total
  <2> QED
    BY <1>1, <2>1
<1>6. Sum(shares') \in Nat /\ Sum(shares') = Over(shares', Hops)
  <2>1. DOMAIN shares' = Hops /\ \A i \in Hops : shares'[i] \in Nat
    BY <1>5
  <2> QED
    BY <1>4, <2>1, SumIsOver, OverRemove
<1>7. /\ phase' = "clamp" => Sum(shares') > total
      /\ phase' = "settle" => Sum(shares') <= total
      /\ phase' \in {"clamp", "settle"}
  BY <1>1, <1>4, <1>6
<1>8. ASSUME Fits
      PROVE  /\ phase' # "clamp"
             /\ shares' = Base /\ remainders' = Rem
  <2>1. Parts(Hops, total, Weights, Base, Rem) /\ \A i \in Hops : ~over(i)
    BY <1>1, <1>2, <1>8, BaseAreParts
  <2>2. shares' = Base /\ remainders' = Rem
    BY <1>1, <2>1 DEF Base, Rem
  <2>3. Over(Weights, Hops) # 0
    BY <1>1, <1>2, SplitFacts
  <2>4. Over(Base, Hops) <= total
    BY <1>4, <2>1, <2>3, LeftoverIsSmall
  <2>5. ~(Sum(shares') > total)
    BY <1>4, <1>6, <2>2, <2>4
  <2> QED
    BY <1>1, <2>2, <2>5
<1>9. Fits => Rounded'
  <2> SUFFICES ASSUME Fits PROVE Rounded'
    OBVIOUS
  <2>1. Up' = {}
    BY <1>3, <1>8 DEF Up
  <2>2. \A i \in Hops : remainders'[i] = Rem[i]
    BY <1>8
  <2> QED
    BY <1>3, <2>1, <2>2 DEF Rounded
<1>10. (Sum(shares))' = Sum(shares')
  BY DEF Sum
<1> QED
  BY <1>1, <1>2, <1>3, <1>5, <1>7, <1>8, <1>9, <1>10 DEF AInv, Split

\* Taking back an excess: never more than there is, until the sum is the total.
LEMMA TakeBackStep ==
  ASSUME AInv, TakeBack
  PROVE  AInv'
<1> DEFINE total == view.total
           positive == {i \in DOMAIN shares : shares[i] > 0}
           last == Max(positive)
           excess == Sum(shares) - total
           taken == Min({shares[last], excess})
<1>1. /\ phase = "clamp" /\ Sum(shares) > total
      /\ bind' = bind /\ policy' = policy /\ current' = current /\ view' = view
      /\ report' = report /\ remainders' = remainders
      /\ shares' = [shares EXCEPT ![last] = shares[last] - taken]
      /\ phase' = IF Sum(shares') > total THEN "clamp" ELSE "report"
  BY DEF TakeBack
<1>2. /\ bind \in Generations /\ policy \in Policies /\ view = GenerationView
      /\ Refusal = "Ok" /\ policy.method # "EndpointOnly" /\ ~Fits
      /\ shares \in [Hops -> Nat] /\ remainders \in [Hops -> Nat]
  BY <1>1 DEF AInv, Split
<1>3. /\ Refusal' = Refusal /\ Weights' = Weights /\ Hops' = Hops /\ (Fits' <=> Fits)
      /\ GenerationView' = GenerationView
  BY <1>1, SameViewSameSplit, SameSourcesSameView
<1>4. total \in Nat /\ IsFiniteSet(Hops) /\ Hops \in SUBSET Nat
  BY <1>2, SplitFacts
<1>5. Sum(shares) \in Nat /\ Sum(shares) = Over(shares, Hops) /\ excess \in Nat \ {0}
  <2>1. DOMAIN shares = Hops /\ \A i \in Hops : shares[i] \in Nat
    BY <1>2
  <2>2. Sum(shares) \in Nat /\ Sum(shares) = Over(shares, Hops)
    BY <1>4, <2>1, SumIsOver, OverRemove
  <2> QED
    BY <1>1, <1>4, <2>2
<1>6. last \in Hops /\ shares[last] \in Nat
  <2>1. positive # {}
    <3> SUFFICES ASSUME positive = {} PROVE FALSE
      OBVIOUS
    <3> DEFINE zero == [i \in Hops |-> IF i \in {} THEN 1 ELSE 0]
    <3>1. \A i \in Hops : shares[i] \in Nat /\ shares[i] = zero[i]
      BY <1>2
    <3>2. Over(zero, Hops) = Cardinality(Hops \cap {})
      BY <1>4, OverCounts
    <3> HIDE DEF zero
    <3>3. Over(shares, Hops) = Over(zero, Hops)
      BY ONLY <1>4, <3>1, OverAgrees
    <3> QED
      BY <1>1, <1>4, <1>5, <3>2, <3>3, FS_EmptySet
  <2>2. positive \in SUBSET Hops /\ positive \in SUBSET Nat /\ IsFiniteSet(positive)
    BY <1>2, <1>4, FS_Subset
  <2> HIDE DEF positive
  <2>3. last \in positive
    BY <2>1, <2>2, Extremes
  <2> QED
    BY <1>2, <2>2, <2>3
<1> HIDE DEF last, excess
<1>7. /\ taken \in Nat /\ taken <= shares[last] /\ taken <= excess
      /\ shares[last] - taken \in Nat
  <2>1. taken = IF shares[last] <= excess THEN shares[last] ELSE excess
    BY <1>5, <1>6, SmallerOfTwo
  <2> QED
    BY <1>5, <1>6, <2>1
<1> HIDE DEF taken
<1>8. shares' \in [Hops -> Nat]
  BY <1>1, <1>2, <1>6, <1>7
<1>9. Sum(shares') = Sum(shares) - taken
  <2>1. Over(shares', Hops) = (Over(shares, Hops) - shares[last]) + (shares[last] - taken)
    <3>1. \A x \in Hops : shares[x] \in Nat /\ shares'[x] \in Nat
      BY <1>2, <1>8
    <3>2. \A x \in Hops \ {last} : shares[x] = shares'[x]
      BY <1>1, <1>2
    <3>3. Over(shares', Hops) = (Over(shares, Hops) - shares[last]) + shares'[last]
      <4> DEFINE f == shares
                 g == shares'
                 S == Hops
                 i == last
      <4>1. IsFiniteSet(S) /\ i \in S
        BY <1>4, <1>6
      <4>2. \A x \in S : f[x] \in Nat /\ g[x] \in Nat
        BY <3>1
      <4>3. \A x \in S \ {i} : f[x] = g[x]
        BY <3>2
      <4> HIDE DEF f, g, S, i
      <4>4. Over(g, S) = (Over(f, S) - f[i]) + g[i]
        BY ONLY <4>1, <4>2, <4>3, OverUpdate
      <4> QED
        BY <4>4 DEF f, g, S, i
    <3>4. shares'[last] = shares[last] - taken
      BY <1>1, <1>2, <1>6
    <3> QED
      BY <3>3, <3>4
  <2>2. Sum(shares') = Over(shares', Hops)
    BY <1>8, SumIsOver
  <2> QED
    BY <1>5, <1>6, <1>7, <2>1, <2>2
<1>10. Sum(shares') \in Nat /\ Sum(shares') >= total
  BY <1>4, <1>5, <1>7, <1>9 DEF excess
<1>11. /\ phase' = "clamp" => Sum(shares') > total
       /\ phase' = "report" => Sum(shares') = total
       /\ phase' \in {"clamp", "report"}
  BY <1>1, <1>4, <1>10
<1>12. (Sum(shares))' = Sum(shares')
  BY DEF Sum
<1> QED
  BY <1>1, <1>2, <1>3, <1>8, <1>11, <1>12 DEF AInv, Split

\* The sum of the shares, as whole units and hops rounded up.
LEMMA SharesAreRounded ==
  ASSUME AInv, Split, Fits
  PROVE  /\ Up \in SUBSET Hops /\ IsFiniteSet(Up) /\ Cardinality(Up) \in Nat
         /\ Over(Base, Hops) \in Nat
         /\ Sum(shares) = Over(Base, Hops) + Cardinality(Up)
<1>1. /\ bind \in Generations /\ policy \in Policies /\ view = GenerationView
      /\ Refusal = "Ok" /\ policy.method # "EndpointOnly" /\ Rounded
      /\ shares \in [Hops -> Nat]
  BY DEF AInv, Split
<1>2. IsFiniteSet(Hops) /\ Parts(Hops, view.total, Weights, Base, Rem)
  BY <1>1, SplitFacts, BaseAreParts
<1>3. \A i \in Hops : Base[i] \in Nat
  BY <1>2 DEF Parts
<1> DEFINE one == [i \in Hops |-> IF i \in Up THEN 1 ELSE 0]
<1>4. Up \in SUBSET Hops /\ Hops \cap Up = Up
  BY DEF Up
<1>5. Over(one, Hops) = Cardinality(Up) /\ IsFiniteSet(Up) /\ Cardinality(Up) \in Nat
  BY <1>2, <1>4, OverCounts
<1>6. ASSUME NEW i \in Hops
      PROVE  /\ shares[i] \in Nat /\ Base[i] \in Nat /\ one[i] \in Nat
             /\ shares[i] = Base[i] + one[i]
  <2>1. shares[i] = IF i \in Up THEN Base[i] + 1 ELSE Base[i]
    BY <1>1 DEF Rounded, Up
  <2> QED
    BY <1>1, <1>3, <2>1
<1> HIDE DEF one
<1>7. Over(Base, Hops) \in Nat
  BY <1>2, <1>3, OverRemove
<1>8. Over(shares, Hops) = Over(Base, Hops) + Over(one, Hops)
  <2>1. IsFiniteSet(Hops)
    BY <1>2
  <2>2. \A i \in Hops : /\ shares[i] \in Nat /\ Base[i] \in Nat /\ one[i] \in Nat
                        /\ shares[i] = Base[i] + one[i]
    BY <1>6
  <2> QED
    BY ONLY <2>1, <2>2, OverPlus
<1>9. Sum(shares) = Over(shares, Hops)
  BY <1>1, SumIsOver
<1> QED
  BY <1>4, <1>5, <1>7, <1>8, <1>9

\* The hop that is given the next unit.
LEMMA LargestIsOne ==
  ASSUME NEW S \in SUBSET Nat, S # {}, IsFiniteSet(S), remainders \in [S -> Nat]
  PROVE  /\ LargestRemainderIndex \in S
         /\ \A j \in S : remainders[LargestRemainderIndex] >= remainders[j]
         /\ \A j \in S : remainders[j] = remainders[LargestRemainderIndex] =>
                           LargestRemainderIndex <= j
<1> DEFINE T == {remainders[j] : j \in S}
           largest == {i \in S : \A j \in S : remainders[i] >= remainders[j]}
<1>1. IsFiniteSet(T) /\ T \in SUBSET Nat /\ T # {}
  BY ImageIsFinite
<1>2. Max(T) \in T /\ \A x \in T : x <= Max(T)
  <2> HIDE DEF T
  <2> QED
    BY <1>1, Extremes
<1>3. largest # {}
  BY <1>2
<1>4. largest \in SUBSET Nat /\ IsFiniteSet(largest)
  BY FS_Subset
<1>5. Min(largest) \in largest /\ \A x \in largest : Min(largest) <= x
  <2> HIDE DEF largest
  <2> QED
    BY <1>3, <1>4, Extremes
<1>6. LargestRemainderIndex = Min(largest)
  BY DEF LargestRemainderIndex
<1> QED
  BY <1>5, <1>6

\* Rounding a hop up: it has the largest remainder of those not rounded yet.
LEMMA GiveOneStep ==
  ASSUME AInv, GiveOne
  PROVE  AInv'
<1> DEFINE total == view.total
           i == LargestRemainderIndex
<1>1. /\ phase = "settle" /\ phase' = "settle" /\ Sum(shares) < total
      /\ bind' = bind /\ policy' = policy /\ current' = current /\ view' = view
      /\ report' = report
      /\ shares' = [shares EXCEPT ![i] = shares[i] + 1]
      /\ remainders' = [remainders EXCEPT ![i] = 0]
  BY DEF GiveOne
<1>2. /\ bind \in Generations /\ policy \in Policies /\ view = GenerationView
      /\ Refusal = "Ok" /\ policy.method # "EndpointOnly" /\ Split
      /\ shares \in [Hops -> Nat] /\ remainders \in [Hops -> Nat]
      /\ Fits => Rounded
  BY <1>1 DEF AInv, Split
<1>3. /\ Refusal' = Refusal /\ Weights' = Weights /\ Hops' = Hops /\ (Fits' <=> Fits)
      /\ Base' = Base /\ Rem' = Rem /\ GenerationView' = GenerationView
  BY <1>1, SameViewSameSplit, SameSourcesSameView
<1>4. total \in Nat /\ IsFiniteSet(Hops) /\ Hops \in SUBSET Nat /\ Hops # {}
  BY <1>2, SplitFacts
<1>5. /\ i \in Hops
      /\ \A j \in Hops : remainders[i] >= remainders[j]
      /\ \A j \in Hops : remainders[j] = remainders[i] => i <= j
  BY <1>2, <1>4, LargestIsOne
<1> HIDE DEF i
<1>6. /\ shares' \in [Hops -> Nat] /\ remainders' \in [Hops -> Nat]
      /\ shares'[i] = shares[i] + 1 /\ \A j \in Hops \ {i} : shares'[j] = shares[j]
      /\ remainders'[i] = 0 /\ \A j \in Hops \ {i} : remainders'[j] = remainders[j]
  BY <1>1, <1>2, <1>5
<1>7. Sum(shares') <= total
  <2> DEFINE f == shares
             g == shares'
             S == Hops
  <2>1. IsFiniteSet(S) /\ i \in S
    BY <1>4, <1>5
  <2>2. \A x \in S : f[x] \in Nat /\ g[x] \in Nat
    BY <1>2, <1>6
  <2>3. \A x \in S \ {i} : f[x] = g[x]
    BY <1>6
  <2>4. Sum(f) = Over(f, S) /\ Sum(g) = Over(g, S)
    BY <1>2, <1>6, SumIsOver
  <2>5. g[i] = f[i] + 1
    BY <1>6
  <2> HIDE DEF f, g, S
  <2>6. Over(g, S) = (Over(f, S) - f[i]) + g[i]
    BY ONLY <2>1, <2>2, <2>3, OverUpdate
  <2>7. Over(f, S) \in Nat
    BY ONLY <2>1, <2>2, OverRemove
  <2>8. Sum(g) = Sum(f) + 1 /\ Sum(f) \in Nat
    BY <2>1, <2>2, <2>4, <2>5, <2>6, <2>7
  <2> QED
    BY <1>1, <1>4, <2>8 DEF f, g
<1>8. Fits => Rounded'
  <2> SUFFICES ASSUME Fits PROVE Rounded'
    OBVIOUS
  <2>1. /\ Up \in SUBSET Hops /\ Over(Base, Hops) + Cardinality(Up) < total
        /\ Rounded /\ \A j \in Hops : Base[j] \in Nat /\ Rem[j] \in Nat
        /\ Parts(Hops, total, Weights, Base, Rem)
        /\ Over(Weights, Hops) # 0
    BY <1>1, <1>2, SharesAreRounded, BaseAreParts, SplitFacts DEF Parts
  <2>2. PICK j \in Hops \ Up : Rem[j] > 0
    <3> DEFINE S == Hops
               T == Up
               b == Base
               r == Rem
               w == Weights
    <3>1. /\ IsFiniteSet(S) /\ total \in Nat /\ Parts(S, total, w, b, r) /\ Over(w, S) # 0
          /\ T \in SUBSET S /\ Over(b, S) + Cardinality(T) < total
      BY <1>4, <2>1
    <3> HIDE DEF total, S, T, b, r, w
    <3>2. \E j \in S \ T : r[j] > 0
      BY ONLY <3>1, LeftoverIsReachable
    <3> QED
      BY <3>2 DEF S, T, r
  <2>3. \A k \in Hops : remainders[k] = IF k \in Up THEN 0 ELSE Rem[k]
    BY <2>1 DEF Rounded
  <2>4. i \notin Up /\ remainders[i] = Rem[i]
    BY <1>5, <2>1, <2>2, <2>3
  <2>5. shares[i] = Base[i]
    BY <1>5, <2>4 DEF Up
  <2>6. Up' = Up \cup {i}
    BY <1>3, <1>5, <1>6, <2>1, <2>5 DEF Up
  <2>7. \A k \in Up' : shares'[k] = Base[k] + 1
    BY <1>6, <2>1, <2>4, <2>5, <2>6 DEF Rounded
  <2>8. \A k \in Hops : remainders'[k] = IF k \in Up' THEN 0 ELSE Rem[k]
    BY <1>6, <2>3, <2>6
  <2>9. ASSUME NEW k \in Up', NEW l \in Hops \ Up'
        PROVE  Rem[k] > Rem[l] \/ (Rem[k] = Rem[l] /\ k < l)
    <3>1. l \in Hops \ Up /\ l # i /\ remainders[l] = Rem[l]
      BY <2>3, <2>6
    <3>2. CASE k = i
      <4>1. Rem[i] >= Rem[l] /\ (Rem[l] = Rem[i] => i <= l)
        BY <1>5, <2>4, <3>1
      <4>2. Rem[i] \in Nat /\ Rem[l] \in Nat /\ i \in Nat /\ l \in Nat
        BY <1>4, <1>5, <2>1, <3>1
      <4> QED
        BY <3>1, <3>2, <4>1, <4>2
    <3>3. CASE k \in Up
      BY <2>1, <3>1, <3>3 DEF Rounded
    <3> QED
      BY <2>6, <3>2, <3>3
  <2> QED
    BY <1>3, <2>7, <2>8, <2>9 DEF Rounded
<1>9. (Sum(shares))' = Sum(shares')
  BY DEF Sum
<1> QED
  BY <1>1, <1>2, <1>3, <1>6, <1>7, <1>8, <1>9 DEF AInv, Split

\* The steps that leave the shares alone.
LEMMA QuietStep ==
  ASSUME AInv, Settled \/ Report \/ Refused \/ EndpointOnly \/ Reconciled \/ UNCHANGED avars
  PROVE  AInv'
<1>1. (Sum(shares))' = Sum(shares')
  BY DEF Sum
<1>2. CASE Settled
  <2>1. /\ phase = "settle" /\ phase' = "report" /\ Sum(shares) = view.total
        /\ bind' = bind /\ policy' = policy /\ current' = current /\ view' = view
        /\ shares' = shares /\ remainders' = remainders /\ report' = report
    BY <1>2 DEF Settled
  <2>2. /\ Refusal' = Refusal /\ Hops' = Hops /\ (Fits' <=> Fits) /\ (Rounded' <=> Rounded)
        /\ GenerationView' = GenerationView
    BY <2>1, SameViewSameSplit, SameSourcesSameView DEF Rounded, Up
  <2> QED
    BY <1>1, <2>1, <2>2 DEF AInv, Split
<1>3. CASE Report
  <2>1. /\ phase = "report" /\ phase' = "done"
        /\ bind' = bind /\ policy' = policy /\ current' = current /\ view' = view
        /\ shares' = shares /\ remainders' = remainders
        /\ report'.shares = shares /\ report'.total = view.total
    BY <1>3 DEF Report
  <2>2. /\ Refusal' = Refusal /\ Hops' = Hops /\ (Fits' <=> Fits) /\ (Rounded' <=> Rounded)
        /\ GenerationView' = GenerationView
    BY <2>1, SameViewSameSplit, SameSourcesSameView DEF Rounded, Up
  <2> QED
    BY <1>1, <2>1, <2>2 DEF AInv, Split
<1>4. CASE Refused \/ EndpointOnly
  <2>1. /\ phase = "check" /\ phase' = "done"
        /\ bind' = bind /\ policy' = policy /\ current' = current /\ view' = view
        /\ shares' = shares /\ remainders' = remainders
    BY <1>4 DEF Refused, EndpointOnly
  <2>2. report'.shares = <<>>
    BY <1>4 DEF Refused, EndpointOnly, NoReport
  <2>3. report'.status = "Ok" => Refusal = "Ok" /\ report'.total = view.total
    <3>1. CASE Refused
      <4>1. report'.status = Refusal /\ Refusal # "Ok"
        BY <3>1 DEF Refused, NoReport
      <4> QED
        BY <4>1
    <3>2. CASE EndpointOnly
      BY <3>2 DEF EndpointOnly, NoReport
    <3> QED
      BY <1>4, <3>1, <3>2
  <2>4. Refusal' = Refusal /\ GenerationView' = GenerationView
    BY <2>1, SameViewSameSplit, SameSourcesSameView
  <2> QED
    BY <2>1, <2>2, <2>3, <2>4 DEF AInv, Split
<1>5. CASE Reconciled
  <2>1. /\ phase = "reconcile" /\ phase' = "check" /\ view' = GenerationView
        /\ bind' = bind /\ policy' = policy
    BY <1>5 DEF Reconciled
  <2>2. GenerationView' = GenerationView
    BY <2>1, SameSourcesSameView
  <2> QED
    BY <2>1, <2>2 DEF AInv, Split
<1>6. CASE UNCHANGED avars
  <2>1. /\ phase' = phase /\ report' = report
        /\ bind' = bind /\ policy' = policy /\ current' = current /\ view' = view
        /\ shares' = shares /\ remainders' = remainders
    BY <1>6 DEF avars
  <2>2. /\ Refusal' = Refusal /\ Hops' = Hops /\ (Fits' <=> Fits) /\ (Rounded' <=> Rounded)
        /\ GenerationView' = GenerationView
    BY <2>1, SameViewSameSplit, SameSourcesSameView DEF Rounded, Up
  <2> QED
    BY <1>1, <2>1, <2>2 DEF AInv, Split
<1> QED
  BY <1>2, <1>3, <1>4, <1>5, <1>6

\* Every state of a request is sound: the split balances, and rounds each hop at
\* most once and in the order of the remainders.
THEOREM AttributionInvariant == ASpec => []AInv
<1>1. AInit => AInv
  BY DEF AInit, AInv, Split
<1>2. AInv /\ [ANext]_avars => AInv'
  <2> SUFFICES ASSUME AInv, [ANext]_avars PROVE AInv'
    OBVIOUS
  <2> QED
    BY ScaleStep, TakeBackStep, GiveOneStep, QuietStep DEF ANext, Answered
<1> QED
  BY <1>1, <1>2, PTL DEF ASpec

\* distribute: the shares of a report sum exactly to its total, whatever
\* saturated on the way.
THEOREM AttributionSharesSum == ASpec => []SharesSumToTotal
<1>1. AInv => SharesSumToTotal
  BY DEF AInv, Split, SharesSumToTotal
<1> QED
  BY <1>1, AttributionInvariant, PTL

\* distribute: without saturation every hop has its exact share rounded down or
\* up, and who is rounded up is settled by the remainders and then by position.
THEOREM AttributionLargestRemainder == ASpec => []LargestRemainder
<1>1. AInv => LargestRemainder
  <2> SUFFICES ASSUME AInv PROVE LargestRemainder
    OBVIOUS
  <2> DEFINE up == {i \in Hops : report.shares[i] # (view.total * Weights[i]) \div WeightSum}
  <2> SUFFICES ASSUME phase = "done", report.shares # <<>>, Fits
               PROVE  /\ \A i \in up :
                           report.shares[i] = (view.total * Weights[i]) \div WeightSum + 1
                      /\ Cardinality(up) < Len(Weights)
                      /\ \A i \in up, j \in Hops \ up :
                           LET r == (view.total * Weights[i]) % WeightSum
                               q == (view.total * Weights[j]) % WeightSum
                           IN  r > q \/ (r = q /\ i < j)
    BY DEF LargestRemainder, Fits, Hops
  <2>1. /\ Split /\ report.shares = shares /\ Sum(shares) = view.total /\ Rounded
        /\ bind \in Generations /\ policy \in Policies /\ view = GenerationView
        /\ Refusal = "Ok" /\ policy.method # "EndpointOnly"
    BY DEF AInv, Split
  <2>2. up = Up
    BY <2>1 DEF Up, Base
  <2>3. Cardinality(Up) < Len(Weights)
    <3>1. /\ Cardinality(Up) \in Nat /\ Over(Base, Hops) \in Nat
          /\ Sum(shares) = Over(Base, Hops) + Cardinality(Up)
      BY <2>1, SharesAreRounded
    <3>2. /\ Parts(Hops, view.total, Weights, Base, Rem) /\ Over(Weights, Hops) # 0
          /\ IsFiniteSet(Hops) /\ Hops # {} /\ view.total \in Nat
          /\ Cardinality(Hops) = Len(Weights)
      BY <2>1, BaseAreParts, SplitFacts
    <3>3. view.total < Over(Base, Hops) + Cardinality(Hops)
      BY <3>2, LeftoverIsSmall
    <3>4. Cardinality(Hops) \in Nat
      BY <3>2, FS_CardinalityType
    <3> QED
      BY <2>1, <3>1, <3>2, <3>3, <3>4
  <2>4. /\ \A i \in Up : shares[i] = Base[i] + 1
        /\ \A i \in Up, j \in Hops \ Up : Rem[i] > Rem[j] \/ (Rem[i] = Rem[j] /\ i < j)
        /\ Up \in SUBSET Hops
    BY <2>1 DEF Rounded, Up
  <2>5. \A i \in Hops : /\ Base[i] = (view.total * Weights[i]) \div WeightSum
                        /\ Rem[i] = (view.total * Weights[i]) % WeightSum
    BY DEF Base, Rem
  <2> HIDE DEF up
  <2> QED
    BY <2>1, <2>2, <2>3, <2>4, <2>5
<1> QED
  BY <1>1, AttributionInvariant, PTL

\* reconcile_generation and the freshness test of attribute_generation: what is
\* published lies between the totals of the trusted sources, or there is none and
\* the first dated source is fresh.
THEOREM AttributionPublishesTrusted == ASpec => []PublishesTrustedTotals
<1>1. AInv => PublishesTrustedTotals
  <2> DEFINE totals == {TotalsOf(s) : s \in Usable(bind, Now)}
             dated == {s \in DOMAIN bind : FreshnessOf(s) # "Unknown"}
  <2> SUFFICES ASSUME AInv, phase = "done", report.status = "Ok", policy.requireFresh
               PROVE  \/ totals # {} /\ report.total \in Min(totals) .. Max(totals)
                      \/ totals = {} /\ dated # {} /\ FreshnessOf(First(dated)) = "Fresh"
    BY DEF PublishesTrustedTotals
  <2>1. /\ bind \in Generations /\ policy \in Policies /\ view = GenerationView
        /\ Refusal = "Ok" /\ report.total = view.total
    BY DEF AInv
  <2>2. view.total = GenerationTotal /\ view.freshness = GenerationFreshness
    BY <2>1 DEF GenerationView
  <2>3. GenerationFreshness = "Fresh"
    BY <2>1, <2>2 DEF Refusal
  <2>4. CASE totals # {}
    BY <2>1, <2>2, <2>4, TotalIsMeasured
  <2>5. CASE totals = {}
    <3>1. Usable(bind, Now) = {}
      BY <2>5
    <3> QED
      BY <2>3, <2>5, <3>1 DEF GenerationFreshness
  <2> QED
    BY <2>4, <2>5
<1> QED
  BY <1>1, AttributionInvariant, PTL
=============================================================================
