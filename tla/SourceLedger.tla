---------------------------- MODULE SourceLedger ----------------------------
(***************************************************************************)
(* The bounded evidence ledger of one (flow, generation, source): insert,  *)
(* the fold of observations in canonical order, the folded prefix with its *)
(* duplicate window, and the round trip through a snapshot.                *)
(*                                                                         *)
(* An observation is a record                                              *)
(*   key       [inc, epoch, rev, seq], all positive: the canonical key     *)
(*   digest    content digest; equal key and digest is equal content       *)
(*   kind      "Open", "Progress", "Sample", "Close", "Reset" or "Error"   *)
(*   dir       "forward", "reverse" or "aggregate"                         *)
(*   complete  evidence is Complete                                        *)
(*   count     reading of the cumulative counter, or NoReading             *)
(*   at        observed_at                                                 *)
(*   path      the path it names, or NoPath                                *)
(* One counter stands for bytes, packets and retransmissions, which are    *)
(* accumulated by three copies of the same code; path stands for the       *)
(* correlation fields that the first evidence in canonical order attaches. *)
(***************************************************************************)
EXTENDS Counters, FiniteSets, Folds

CONSTANTS Capacity,            \* max_observations_per_source_flow
          Window,              \* width of the duplicate window, 64 in the code
          RegressionAsReset,   \* CounterPolicy::treat_regression_as_reset as configured
          Paths,               \* the paths evidence may name
          NoPath               \* the empty PathId

ASSUME LedgerAssumption == /\ Capacity \in Nat \ {0}
                           /\ Window \in Nat \ {0}
                           /\ RegressionAsReset \in BOOLEAN

Directions == {"forward", "reverse", "aggregate"}

Keys == [inc : Nat \ {0}, epoch : Nat \ {0}, rev : Nat, seq : Nat]

ZeroKey == [inc |-> 0, epoch |-> 0, rev |-> 0, seq |-> 0]

-----------------------------------------------------------------------------
\* Canonical order: incarnation, then epoch, then revision, then sequence.
KeyLess(a, b) ==
  \/ a.inc < b.inc
  \/ a.inc = b.inc /\ a.epoch < b.epoch
  \/ a.inc = b.inc /\ a.epoch = b.epoch /\ a.rev < b.rev
  \/ a.inc = b.inc /\ a.epoch = b.epoch /\ a.rev = b.rev /\ a.seq < b.seq

Mutant_FoldHighest(S) == CHOOSE o \in S : \A p \in S \ {o} : KeyLess(p.key, o.key)

\* The first and the last of a set of observations in canonical order.
Lowest(S)  == CHOOSE o \in S : \A p \in S \ {o} : KeyLess(o.key, p.key)
Highest(S) == CHOOSE o \in S : \A p \in S \ {o} : KeyLess(p.key, o.key)

Larger(a, b) == IF a > b THEN a ELSE b

-----------------------------------------------------------------------------
\* The part of FoldState that describes the evidence.
FoldStates ==
  [acct          : [Directions -> Accumulator],
   coverage      : SUBSET ({"forward", "reverse"} \X BOOLEAN),
   terminal      : {"none", "Completed", "Reset"},
   inc           : Nat,
   epoch         : Nat,
   highRev       : Nat,
   highSeq       : Nat,
   restartGaps   : Nat,
   afterTerminal : Nat,
   lastObserved  : Nat,
   lastProgress  : Nat,
   progress      : BOOLEAN,
   path          : Paths \cup {NoPath}]

EmptyFold ==
  [acct          |-> [d \in Directions |-> EmptyAccumulator],
   coverage      |-> {},
   terminal      |-> "none",
   inc           |-> 0,
   epoch         |-> 0,
   highRev       |-> 0,
   highSeq       |-> 0,
   restartGaps   |-> 0,
   afterTerminal |-> 0,
   lastObserved  |-> 0,
   lastProgress  |-> 0,
   progress      |-> FALSE,
   path          |-> NoPath]

Mutant_BridgeInterval(acct) == acct

\* break_interval: an incarnation or epoch boundary breaks every direction.
BreakInterval(acct) == [d \in Directions |-> StartNewInterval(acct[d])]

\* The fences at the head of apply_observation.
CrossFences(st, o) ==
  [st EXCEPT !.lastObserved = Larger(@, o.at),
             !.highRev = Larger(@, o.key.rev),
             !.highSeq = Larger(@, o.key.seq),
             !.acct = IF \/ o.key.inc # st.inc /\ st.inc # 0
                         \/ o.key.inc = st.inc /\ o.key.epoch # st.epoch
                      THEN BreakInterval(@) ELSE @,
             !.restartGaps = IF o.key.inc # st.inc /\ st.inc # 0 THEN @ + 1 ELSE @,
             !.inc = o.key.inc,
             !.epoch = o.key.epoch]

\* What the rest of apply_observation records once the fences are passed.
RecordEvidence(st, o, asReset) ==
  LET a        == st.acct[o.dir]
      advanced == /\ o.count # NoReading
                  /\ ObserveOutcome(a, o.count, asReset) = "Advanced"
      moves    == advanced \/ o.kind \in {"Progress", "Open"}
  IN  [st EXCEPT
        !.acct[o.dir] = IF o.count = NoReading THEN a ELSE Observe(a, o.count, asReset),
        !.coverage = IF o.dir = "aggregate" THEN @ ELSE @ \cup {<<o.dir, o.complete>>},
        !.terminal = CASE o.kind = "Close" -> "Completed"
                       [] o.kind = "Reset" -> "Reset"
                       [] OTHER            -> @,
        !.path = IF @ = NoPath THEN o.path ELSE @,
        !.lastProgress = IF moves THEN Larger(@, o.at) ELSE @,
        !.progress = @ \/ moves]

\* apply_observation. Evidence after a terminal declaration is only counted.
ApplyObservation(st, o, asReset) ==
  LET fenced == CrossFences(st, o) IN
  IF fenced.terminal # "none"
  THEN [fenced EXCEPT !.afterTerminal = @ + 1]
  ELSE RecordEvidence(fenced, o, asReset)

\* The left fold of a set of observations in canonical order.
FoldAll(st, S, asReset) ==
  MapThenFoldSet(LAMBDA o, acc : ApplyObservation(acc, o, asReset), st,
                 LAMBDA o : o, Highest, S)

-----------------------------------------------------------------------------
\* The folded region: its highest key and the duplicate window over the
\* sequence numbers of its (incarnation, epoch).
Marks == [bound : Keys \cup {ZeroKey}, exact : BOOLEAN, low : Nat, bits : SUBSET Nat]

EmptyMark == [bound |-> ZeroKey, exact |-> TRUE, low |-> 0, bits |-> {}]

\* The window bits after fold_mark, as the set of their positions.
WindowBits(mark, seq) ==
  IF seq < mark.low + Window
  THEN mark.bits \cup {seq - mark.low}
  ELSE LET shift == seq - mark.low - (Window - 1) IN
       {b + shift : b \in {c \in mark.bits : c + shift < Window}} \cup {0}

\* fold_mark, with the folded revision and sequence insert() stores after it.
FoldMark(mark, key) ==
  IF mark.bound.inc # key.inc \/ mark.bound.epoch # key.epoch
  THEN [bound |-> key, exact |-> TRUE, low |-> key.seq, bits |-> {0}]
  ELSE IF key.seq < mark.low
  THEN [mark EXCEPT !.bound = key, !.exact = FALSE]
  ELSE [mark EXCEPT !.bound = key,
                    !.bits = WindowBits(mark, key.seq),
                    !.low = IF key.seq < mark.low + Window THEN @
                            ELSE key.seq - (Window - 1)]

\* fold_contains: the revision is not part of the window.
FoldContains(mark, key) ==
  /\ mark.exact
  /\ mark.bound.inc = key.inc /\ mark.bound.epoch = key.epoch
  /\ key.seq >= mark.low /\ key.seq < mark.low + Window
  /\ (key.seq - mark.low) \in mark.bits

-----------------------------------------------------------------------------
\* A ledger: the retained entries (a sorted vector of distinct keys in the
\* code), the folded prefix and the number of observations folded into it.
Ledgers(Observations) ==
  [entries : SUBSET Observations, prefix : FoldStates, mark : Marks, folded : Nat]

EmptyLedger == [entries |-> {}, prefix |-> EmptyFold, mark |-> EmptyMark, folded |-> 0]

WithEntries(l, S) ==
  [entries |-> S, prefix |-> l.prefix, mark |-> l.mark, folded |-> l.folded]

Mutant_NoFence(l, o) == FALSE

Mutant_FenceByRevision(l, o) == l.folded > 0 /\ o.key.rev <= l.mark.bound.rev

\* Inside the folded region: at or below its highest key.
InFoldedRegion(l, o) == l.folded > 0 /\ ~KeyLess(l.mark.bound, o.key)

Incumbents(l, o) == {e \in l.entries : e.key = o.key}

InsertKind(l, o) ==
  CASE InFoldedRegion(l, o) /\ FoldContains(l.mark, o.key)  -> "Duplicate"
    [] InFoldedRegion(l, o) /\ ~FoldContains(l.mark, o.key) -> "Refused"
    [] ~InFoldedRegion(l, o) /\ Incumbents(l, o) = {}       -> "Accepted"
    [] OTHER -> IF \E e \in Incumbents(l, o) : e.digest = o.digest
                THEN "Duplicate" ELSE "ContentConflict"

\* Fold the lowest entry into the prefix. The prefix is folded under the
\* default CounterPolicy: set_counter_policy has no caller.
FoldLowest(l) ==
  LET o == Lowest(l.entries) IN
  [entries |-> l.entries \ {o},
   prefix  |-> ApplyObservation(l.prefix, o, TRUE),
   mark    |-> FoldMark(l.mark, o.key),
   folded  |-> l.folded + 1]

Mutant_OneOverCapacity(l, o) ==
  LET grown == WithEntries(l, l.entries \cup {o}) IN
  IF Cardinality(grown.entries) > Capacity + 1 THEN FoldLowest(grown) ELSE grown

\* Add new evidence; a ledger over capacity has exactly one entry too many.
Store(l, o) ==
  LET grown == WithEntries(l, l.entries \cup {o}) IN
  IF Cardinality(grown.entries) > Capacity THEN FoldLowest(grown) ELSE grown

Mutant_FirstCopyWins(l, o) == l

\* The same key with different content: the smaller digest is retained.
SettleConflict(l, o) ==
  IF \A e \in Incumbents(l, o) : o.digest < e.digest
  THEN WithEntries(l, (l.entries \ Incumbents(l, o)) \cup {o})
  ELSE l

\* SourceLedger::insert.
Insert(l, o) ==
  CASE InsertKind(l, o) = "Accepted"        -> Store(l, o)
    [] InsertKind(l, o) = "ContentConflict" -> SettleConflict(l, o)
    [] OTHER                                -> l

\* fold_source_view: the prefix, then the entries under the configured policy.
View(l) == FoldAll(l.prefix, l.entries, RegressionAsReset)

-----------------------------------------------------------------------------
Mutant_PrefixOnly(l) ==
  [l EXCEPT !.entries = {}, !.folded = @ + Cardinality(l.entries)]

Mutant_NoFenceAfterRestore(l) ==
  [entries |-> {}, prefix |-> FoldAll(l.prefix, l.entries, TRUE),
   mark |-> EmptyMark, folded |-> l.folded + Cardinality(l.entries)]

\* folded_state() as persist_source writes it and restore_locked seeds it
\* back: the fence is rebuilt from the high-water marks, the window starts
\* empty, and the correlation and the anomaly counts are not persisted.
Restore(l) ==
  LET st == FoldAll(l.prefix, l.entries, TRUE) IN
  [entries |-> {},
   prefix  |-> [st EXCEPT !.path = NoPath, !.restartGaps = 0],
   mark    |-> [EmptyMark EXCEPT !.bound = [inc |-> st.inc, epoch |-> st.epoch,
                                            rev |-> st.highRev, seq |-> st.highSeq]],
   folded  |-> l.folded + Cardinality(l.entries)]

=============================================================================
