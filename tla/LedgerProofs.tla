---------------------------- MODULE LedgerProofs ----------------------------
(***************************************************************************)
(* The safety of the ledger for every set of observations, capacity and    *)
(* window: the fence and the fold keep the order of the evidence, and no   *)
(* key is accounted twice. The argument is an induction on the calls of    *)
(* insert; IInv is the inductive invariant.                                *)
(***************************************************************************)
EXTENDS LedgerRestart, FiniteSetTheorems, ProofLemmas, TLAPS

\* The fence is the highest key among the folded evidence.
FenceIsHighestFolded ==
  /\ IsFiniteSet(applied)
  /\ \A f \in applied : f.key = ledger.mark.bound \/ KeyLess(f.key, ledger.mark.bound)
  /\ ledger.folded > 0 => \E f \in applied : f.key = ledger.mark.bound

\* The inductive invariant.
IInv ==
  /\ TypeOK
  /\ NeverAppliedTwice
  /\ RetainedAboveFolded
  /\ FenceIsHighestFolded
  /\ RefusedOnlyBelowEvidence
  /\ ArrivalOrderIrrelevant

-----------------------------------------------------------------------------
\* The canonical order is transitive, irreflexive and total on keys.
LEMMA KeyOrder ==
  ASSUME NEW a \in Keys \cup {ZeroKey}, NEW b \in Keys \cup {ZeroKey},
         NEW c \in Keys \cup {ZeroKey}
  PROVE  /\ ~ KeyLess(a, a)
         /\ KeyLess(a, b) /\ KeyLess(b, c) => KeyLess(a, c)
         /\ a = b \/ KeyLess(a, b) \/ KeyLess(b, a)
  BY DEF Keys, ZeroKey, KeyLess

\* Of observations with distinct keys, Lowest picks the one that the code
\* keeps at the front of its sorted vector.
LEMMA LowestIsLeast ==
  ASSUME NEW S, S \subseteq Observations, S # {},
         \A o, p \in S : o.key = p.key => o = p
  PROVE  /\ Lowest(S) \in S
         /\ \A p \in S \ {Lowest(S)} : KeyLess(Lowest(S).key, p.key)
<1> DEFINE Ob == Observations
<1>1. \A o \in S : o.key \in Keys
  BY ObservationsAssumption
<1>2. PICK i \in S : \A p \in S : i.key.inc <= p.key.inc
  <2> DEFINE T == {o.key.inc : o \in S}
  <2>1. T \subseteq Nat /\ T # {}
    BY <1>1 DEF Keys
  <2>2. \E x \in T : \A y \in T : x <= y
    BY <2>1, LeastNumber
  <2> QED
    BY <2>2
<1> DEFINE S1 == {o \in S : o.key.inc = i.key.inc}
<1>3. PICK e \in S1 : \A p \in S1 : e.key.epoch <= p.key.epoch
  <2> DEFINE T == {o.key.epoch : o \in S1}
  <2>1. T \subseteq Nat /\ T # {}
    BY <1>1 DEF Keys
  <2>2. \E x \in T : \A y \in T : x <= y
    BY <2>1, LeastNumber
  <2> QED
    BY <2>2
<1> DEFINE S2 == {o \in S1 : o.key.epoch = e.key.epoch}
<1>4. PICK r \in S2 : \A p \in S2 : r.key.rev <= p.key.rev
  <2> DEFINE T == {o.key.rev : o \in S2}
  <2>1. T \subseteq Nat /\ T # {}
    BY <1>1 DEF Keys
  <2>2. \E x \in T : \A y \in T : x <= y
    BY <2>1, LeastNumber
  <2> QED
    BY <2>2
<1> DEFINE S3 == {o \in S2 : o.key.rev = r.key.rev}
<1>5. PICK q \in S3 : \A p \in S3 : q.key.seq <= p.key.seq
  <2> DEFINE T == {o.key.seq : o \in S3}
  <2>1. T \subseteq Nat /\ T # {}
    BY <1>1 DEF Keys
  <2>2. \E x \in T : \A y \in T : x <= y
    BY <2>1, LeastNumber
  <2> QED
    BY <2>2
<1>6. \A p \in S : p = q \/ KeyLess(q.key, p.key)
  <2> SUFFICES ASSUME NEW p \in S, p # q
               PROVE  KeyLess(q.key, p.key)
    OBVIOUS
  <2>1. p.key \in Keys /\ q.key \in Keys /\ p.key # q.key
    BY <1>1
  <2>2. q.key.inc <= p.key.inc
    BY <1>2
  <2>3. q.key.inc = p.key.inc => q.key.epoch <= p.key.epoch
    BY <1>3
  <2>4. q.key.inc = p.key.inc /\ q.key.epoch = p.key.epoch => q.key.rev <= p.key.rev
    BY <1>4
  <2>5. q.key.inc = p.key.inc /\ q.key.epoch = p.key.epoch /\ q.key.rev = p.key.rev
          => q.key.seq <= p.key.seq
    BY <1>5
  <2> QED
    BY <2>1, <2>2, <2>3, <2>4, <2>5 DEF KeyLess, Keys
<1>7. \E o \in S : \A p \in S \ {o} : KeyLess(o.key, p.key)
  BY <1>6
<1> QED
  BY <1>7 DEF Lowest

-----------------------------------------------------------------------------
\* CounterAccumulator::observe keeps the accumulator well formed: it saturates
\* instead of exceeding the largest count.
LEMMA ObserveType ==
  ASSUME NEW a \in Accumulator, NEW v \in Nat, NEW asReset \in BOOLEAN
  PROVE  Observe(a, v, asReset) \in Accumulator
  BY MaxCountAssumption DEF Observe, ObserveOutcome, Accumulator, NoReading

\* A break of the interval keeps every accumulator well formed.
LEMMA BreakIntervalType ==
  ASSUME NEW acct \in [Directions -> Accumulator]
  PROVE  BreakInterval(acct) \in [Directions -> Accumulator]
<1>1. ASSUME NEW a \in Accumulator
      PROVE  StartNewInterval(a) \in Accumulator
  <2>1. (IF a.last = NoReading THEN a.unknown ELSE a.unknown + 1) \in Nat
    BY DEF Accumulator
  <2> QED
    BY <2>1 DEF StartNewInterval, Accumulator
<1>2. \A d \in Directions : StartNewInterval(acct[d]) \in Accumulator
  BY <1>1
<1> QED
  BY <1>2 DEF BreakInterval

\* The fences of apply_observation keep the fold well formed.
LEMMA CrossFencesType ==
  ASSUME NEW st \in FoldStates, NEW o \in Observations
  PROVE  CrossFences(st, o) \in FoldStates
<1> DEFINE broken == \/ o.key.inc # st.inc /\ st.inc # 0
                     \/ o.key.inc = st.inc /\ o.key.epoch # st.epoch
           acct == IF broken THEN BreakInterval(st.acct) ELSE st.acct
           seen == Larger(st.lastObserved, o.at)
           rev  == Larger(st.highRev, o.key.rev)
           seq  == Larger(st.highSeq, o.key.seq)
           gaps == IF o.key.inc # st.inc /\ st.inc # 0 THEN st.restartGaps + 1
                                                      ELSE st.restartGaps
           new  == [st EXCEPT !.lastObserved = seen, !.highRev = rev, !.highSeq = seq,
                              !.acct = acct, !.restartGaps = gaps,
                              !.inc = o.key.inc, !.epoch = o.key.epoch]
<1>1. acct \in [Directions -> Accumulator]
  BY BreakIntervalType DEF FoldStates
<1>2. seen \in Nat /\ rev \in Nat /\ seq \in Nat /\ gaps \in Nat
      /\ o.key.inc \in Nat /\ o.key.epoch \in Nat
  BY ObservationsAssumption DEF FoldStates, Larger, Keys
<1>3. CrossFences(st, o) = new
  BY DEF CrossFences
<1> HIDE DEF acct, seen, rev, seq, gaps
<1>4. new \in FoldStates
  BY <1>1, <1>2 DEF FoldStates
<1> QED
  BY <1>3, <1>4

\* So does what it records behind them.
LEMMA RecordEvidenceType ==
  ASSUME NEW st \in FoldStates, NEW o \in Observations, NEW asReset \in BOOLEAN
  PROVE  RecordEvidence(st, o, asReset) \in FoldStates
<1>1. o.dir \in Directions /\ o.at \in Nat /\ o.complete \in BOOLEAN
      /\ o.count \in Nat \cup {NoReading} /\ o.path \in Paths \cup {NoPath}
  BY ObservationsAssumption
<1> DEFINE a == st.acct[o.dir]
           b == IF o.count = NoReading THEN a ELSE Observe(a, o.count, asReset)
<1>2. a \in Accumulator
  BY <1>1 DEF FoldStates
<1>3. b \in Accumulator
  BY <1>1, <1>2, ObserveType
<1>4. [st.acct EXCEPT ![o.dir] = b] \in [Directions -> Accumulator]
  BY <1>1, <1>3 DEF FoldStates
<1> DEFINE acct  == [st.acct EXCEPT ![o.dir] = b]
           cover == IF o.dir = "aggregate" THEN st.coverage
                    ELSE st.coverage \cup {<<o.dir, o.complete>>}
           term  == CASE o.kind = "Close" -> "Completed"
                      [] o.kind = "Reset" -> "Reset"
                      [] OTHER            -> st.terminal
           moves == \/ /\ o.count # NoReading
                       /\ ObserveOutcome(a, o.count, asReset) = "Advanced"
                    \/ o.kind \in {"Progress", "Open"}
           prog  == IF moves THEN Larger(st.lastProgress, o.at) ELSE st.lastProgress
           named == IF st.path = NoPath THEN o.path ELSE st.path
           new   == [st EXCEPT !.acct = acct, !.coverage = cover, !.terminal = term,
                               !.path = named, !.lastProgress = prog,
                               !.progress = @ \/ moves]
<1>5. cover \in SUBSET ({"forward", "reverse"} \X BOOLEAN)
  BY <1>1 DEF Directions, FoldStates
<1>6. term \in {"none", "Completed", "Reset"} /\ named \in Paths \cup {NoPath}
      /\ prog \in Nat /\ (st.progress \/ moves) \in BOOLEAN
  BY <1>1 DEF FoldStates, Larger
<1>7. RecordEvidence(st, o, asReset) = new
  BY DEF RecordEvidence
<1> HIDE DEF acct, cover, term, moves, prog, named
<1>8. new \in FoldStates
  <2>1. acct \in [Directions -> Accumulator]
    BY <1>4 DEF acct
  <2>2. st \in FoldStates
    OBVIOUS
  <2> QED
    BY ONLY <1>5, <1>6, <2>1, <2>2 DEF FoldStates
<1> QED
  BY <1>7, <1>8

\* apply_observation keeps the fold well formed.
LEMMA ApplyObservationType ==
  ASSUME NEW st \in FoldStates, NEW o \in Observations, NEW asReset \in BOOLEAN
  PROVE  ApplyObservation(st, o, asReset) \in FoldStates
<1> DEFINE fenced == CrossFences(st, o)
<1>1. fenced \in FoldStates
  BY CrossFencesType
<1>2. [fenced EXCEPT !.afterTerminal = @ + 1] \in FoldStates
  BY <1>1 DEF FoldStates
<1>3. RecordEvidence(fenced, o, asReset) \in FoldStates
  BY <1>1, RecordEvidenceType
<1> QED
  BY <1>2, <1>3 DEF ApplyObservation

\* fold_mark moves the fence to the key it is given.
LEMMA FoldMarkType ==
  ASSUME NEW m \in Marks, NEW k \in Keys
  PROVE  FoldMark(m, k) \in Marks /\ FoldMark(m, k).bound = k
<1>1. ~(k.seq < m.low) => WindowBits(m, k.seq) \in SUBSET Nat
  BY LedgerAssumption DEF WindowBits, Marks, Keys
<1>2. CASE m.bound.inc # k.inc \/ m.bound.epoch # k.epoch
  BY <1>2 DEF FoldMark, Marks, Keys
<1>3. CASE ~(m.bound.inc # k.inc \/ m.bound.epoch # k.epoch) /\ k.seq < m.low
  BY <1>3 DEF FoldMark, Marks, Keys
<1>4. CASE ~(m.bound.inc # k.inc \/ m.bound.epoch # k.epoch) /\ ~(k.seq < m.low)
  <2> DEFINE newlow == IF k.seq < m.low + Window THEN m.low ELSE k.seq - (Window - 1)
  <2>1. newlow \in Nat
    BY LedgerAssumption DEF Marks, Keys
  <2>2. FoldMark(m, k) = [m EXCEPT !.bound = k, !.bits = WindowBits(m, k.seq), !.low = newlow]
    BY <1>4 DEF FoldMark
  <2> QED
    BY <1>1, <1>4, <2>1, <2>2 DEF Marks
<1> QED
  BY <1>2, <1>3, <1>4

-----------------------------------------------------------------------------
\* Accepted evidence is new, lies above the fence and above everything folded.
LEMMA AcceptedIsAboveFolded ==
  ASSUME IInv, NEW o \in Observations, InsertKind(ledger, o) = "Accepted"
  PROVE  /\ \A e \in ledger.entries : e.key # o.key
         /\ \A f \in applied : KeyLess(f.key, o.key)
         /\ ledger.folded > 0 => KeyLess(ledger.mark.bound, o.key)
         /\ ledger.folded = 0 => applied = {}
<1>1. ~InFoldedRegion(ledger, o) /\ Incumbents(ledger, o) = {}
  BY DEF InsertKind
<1>2. ledger.folded > 0 => KeyLess(ledger.mark.bound, o.key)
  BY <1>1 DEF InFoldedRegion
<1>3. ledger.folded = 0 => applied = {}
  BY FS_EmptySet DEF IInv, NeverAppliedTwice, FenceIsHighestFolded
<1>4. ASSUME NEW f \in applied
      PROVE  KeyLess(f.key, o.key)
  <2>1. ledger.folded > 0
    BY <1>3 DEF IInv, TypeOK, Ledgers
  <2>2. f.key \in Keys /\ o.key \in Keys /\ ledger.mark.bound \in Keys \cup {ZeroKey}
    BY ObservationsAssumption DEF IInv, TypeOK, Ledgers, Marks
  <2>3. f.key = ledger.mark.bound \/ KeyLess(f.key, ledger.mark.bound)
    BY DEF IInv, FenceIsHighestFolded
  <2> QED
    BY <1>2, <2>1, <2>2, <2>3, KeyOrder
<1> QED
  BY <1>1, <1>2, <1>3, <1>4 DEF Incumbents

\* The two outcomes of storing accepted evidence: it is retained and nothing
\* is folded, or the lowest of the retained evidence is folded.
LEMMA StoreOutcome ==
  ASSUME IInv, NEW o \in Observations, Deliver(o), InsertKind(ledger, o) = "Accepted"
  PROVE  LET grown == ledger.entries \cup {o} IN
         \/ /\ ledger' = WithEntries(ledger, grown)
            /\ applied' = applied
            /\ Cardinality(grown) <= Capacity
         \/ /\ ledger' = FoldLowest(WithEntries(ledger, grown))
            /\ applied' = applied \cup {Lowest(grown)}
            /\ Cardinality(grown) = Capacity + 1
            /\ Lowest(grown) \in grown
            /\ \A p \in grown \ {Lowest(grown)} : KeyLess(Lowest(grown).key, p.key)
<1> DEFINE grown == ledger.entries \cup {o}
           wide  == WithEntries(ledger, grown)
<1>1. wide.entries = grown
  BY DEF WithEntries
<1>2. ledger' = IF Cardinality(grown) > Capacity THEN FoldLowest(wide) ELSE wide
  BY <1>1 DEF Deliver, Insert, Store
<1>3. applied' = applied \cup (grown \ ledger'.entries)
  BY DEF Deliver
<1>4. grown \subseteq Observations /\ grown # {} /\ IsFiniteSet(ledger.entries)
  BY DEF IInv, TypeOK, Ledgers
<1>5. \A p, q \in grown : p.key = q.key => p = q
  BY AcceptedIsAboveFolded DEF IInv, NeverAppliedTwice, Evidence
<1>6. Cardinality(grown) = Cardinality(ledger.entries) + 1
  <2>1. o \notin ledger.entries
    BY AcceptedIsAboveFolded
  <2> QED
    BY <1>4, <2>1, FS_AddElement
<1>7. Cardinality(ledger.entries) \in Nat /\ Cardinality(ledger.entries) <= Capacity
      /\ Capacity \in Nat
  BY <1>4, FS_CardinalityType, LedgerAssumption DEF IInv, TypeOK
<1>8. CASE Cardinality(grown) > Capacity
  <2>1. ledger' = FoldLowest(wide)
    BY <1>2, <1>8
  <2>2. ledger'.entries = grown \ {Lowest(grown)}
    BY <1>1, <2>1 DEF FoldLowest
  <2>3. /\ Lowest(grown) \in grown
        /\ \A p \in grown \ {Lowest(grown)} : KeyLess(Lowest(grown).key, p.key)
    BY <1>4, <1>5, LowestIsLeast
  <2>4. applied' = applied \cup {Lowest(grown)}
    BY <1>3, <2>2, <2>3
  <2>5. Cardinality(grown) = Capacity + 1
    BY <1>6, <1>7, <1>8
  <2> QED
    BY <2>1, <2>3, <2>4, <2>5
<1>9. CASE ~(Cardinality(grown) > Capacity)
  <2>1. ledger' = wide
    BY <1>2, <1>9
  <2>2. applied' = applied
    BY <1>1, <1>3, <2>1
  <2>3. Cardinality(grown) <= Capacity
    BY <1>6, <1>7, <1>9
  <2> QED
    BY <2>1, <2>2, <2>3
<1> QED
  BY <1>8, <1>9

-----------------------------------------------------------------------------
\* insert has four answers.
LEMMA InsertAnswers ==
  ASSUME NEW o
  PROVE  InsertKind(ledger, o) \in {"Accepted", "Duplicate", "ContentConflict", "Refused"}
  BY DEF InsertKind

\* Until something is folded every key delivered is retained.
LEMMA DeliveredKeyIsRetained ==
  ASSUME IInv, applied = {}, NEW o \in delivered
  PROVE  \E e \in ledger.entries : e.key = o.key
<1> DEFINE Copies  == {p \in delivered : p.key = o.key}
           Digests == {p.digest : p \in Copies}
<1>1. delivered \subseteq Observations
  BY DEF IInv, TypeOK
<1>2. Digests \subseteq Nat /\ Digests # {}
  BY <1>1, ObservationsAssumption
<1>3. \E x \in Digests : \A y \in Digests : x <= y
  BY <1>2, LeastNumber
<1>4. PICK e \in Copies : \A p \in Copies : e.digest <= p.digest
  BY <1>3
<1>5. e \in Evidence
  BY <1>4 DEF IInv, ArrivalOrderIrrelevant
<1> QED
  BY <1>4, <1>5 DEF Evidence

\* An insert answered Duplicate or Refused changes nothing but the answer.
LEMMA RejectedStep ==
  ASSUME IInv, NEW o \in Observations, Deliver(o),
         InsertKind(ledger, o) \in {"Duplicate", "Refused"}
  PROVE  IInv'
<1>1. ledger' = ledger /\ applied' = applied /\ delivered' = delivered \cup {o}
      /\ result' = [obs |-> {o}, kind |-> InsertKind(ledger, o)]
  BY DEF Deliver, Insert
<1>2. TypeOK'
  BY <1>1, InsertAnswers DEF IInv, TypeOK
<1>3. NeverAppliedTwice' /\ RetainedAboveFolded' /\ FenceIsHighestFolded'
  BY <1>1 DEF IInv, NeverAppliedTwice, RetainedAboveFolded, FenceIsHighestFolded, Evidence
<1>4. RefusedOnlyBelowEvidence'
  <2> SUFFICES \E e \in Evidence : ~KeyLess(e.key, o.key)
    BY <1>1 DEF RefusedOnlyBelowEvidence, Evidence
  <2>1. CASE InFoldedRegion(ledger, o)
    BY <2>1 DEF InFoldedRegion, IInv, FenceIsHighestFolded, Evidence
  <2>2. CASE ~InFoldedRegion(ledger, o)
    <3>1. PICK e \in Incumbents(ledger, o) : e.digest = o.digest
      BY <2>2 DEF InsertKind
    <3>2. e \in Evidence /\ e.key = o.key
      BY <3>1 DEF Incumbents, Evidence
    <3>3. ~KeyLess(o.key, o.key)
      BY ObservationsAssumption, KeyOrder
    <3> QED
      BY <3>2, <3>3
  <2> QED
    BY <2>1, <2>2
<1>5. ArrivalOrderIrrelevant'
  <2> SUFFICES ASSUME applied = {}
               PROVE  o \in delivered
    BY <1>1 DEF IInv, ArrivalOrderIrrelevant, Evidence
  <2>1. ledger.folded = 0
    BY FS_EmptySet DEF IInv, NeverAppliedTwice
  <2>2. ~InFoldedRegion(ledger, o)
    BY <2>1 DEF InFoldedRegion
  <2>3. PICK e \in Incumbents(ledger, o) : e.digest = o.digest
    BY <2>2 DEF InsertKind
  <2>4. e = o
    BY <2>3, ObservationsAssumption DEF Incumbents, IInv, TypeOK, Ledgers
  <2> QED
    BY <2>4 DEF Incumbents, IInv, ArrivalOrderIrrelevant, Evidence
<1> QED
  BY <1>2, <1>3, <1>4, <1>5 DEF IInv

\* Two copies of a key that disagree: at most one entry is exchanged for
\* another one with the same key.
LEMMA ConflictStep ==
  ASSUME IInv, NEW o \in Observations, Deliver(o),
         InsertKind(ledger, o) = "ContentConflict"
  PROVE  IInv'
<1>1. ledger' = SettleConflict(ledger, o) /\ applied' = applied
      /\ delivered' = delivered \cup {o}
      /\ result' = [obs |-> {o}, kind |-> "ContentConflict"]
  BY DEF Deliver, Insert
<1>2. /\ Incumbents(ledger, o) # {}
      /\ \A e \in Incumbents(ledger, o) : e.digest # o.digest
  BY DEF InsertKind
<1>3. PICK e \in ledger.entries : e.key = o.key /\ e.digest # o.digest
  BY <1>2 DEF Incumbents
<1>4. Incumbents(ledger, o) = {e}
  BY <1>3 DEF Incumbents, IInv, NeverAppliedTwice, Evidence
<1> DEFINE swapped == (ledger.entries \ {e}) \cup {o}
<1>5. \/ o.digest < e.digest /\ ledger' = WithEntries(ledger, swapped)
      \/ ~(o.digest < e.digest) /\ ledger' = ledger
  BY <1>1, <1>4 DEF SettleConflict
<1>6. /\ ledger'.entries = IF o.digest < e.digest THEN swapped ELSE ledger.entries
      /\ ledger'.prefix = ledger.prefix /\ ledger'.mark = ledger.mark
      /\ ledger'.folded = ledger.folded
  BY <1>5 DEF WithEntries
<1>7. ledger \in Ledgers(Observations) /\ e \in Observations
      /\ o.digest \in Nat /\ e.digest \in Nat
  BY ObservationsAssumption DEF IInv, TypeOK, Ledgers
<1>8. o \notin ledger.entries
  BY <1>3 DEF IInv, NeverAppliedTwice, Evidence
<1>9. IsFiniteSet(swapped) /\ Cardinality(swapped) = Cardinality(ledger.entries)
  <2>1. IsFiniteSet(ledger.entries)
    BY DEF IInv, TypeOK
  <2>2. /\ IsFiniteSet(ledger.entries \ {e})
        /\ Cardinality(ledger.entries \ {e}) = Cardinality(ledger.entries) - 1
    BY <2>1, FS_RemoveElement
  <2>3. Cardinality(swapped) = Cardinality(ledger.entries \ {e}) + 1 /\ IsFiniteSet(swapped)
    BY <1>8, <2>2, FS_AddElement
  <2>4. Cardinality(ledger.entries) \in Nat
    BY <2>1, FS_CardinalityType
  <2> QED
    BY <2>2, <2>3, <2>4
<1>10. TypeOK'
  <2>1. ledger' \in Ledgers(Observations)
    BY <1>5, <1>7 DEF WithEntries, Ledgers
  <2> QED
    BY <1>1, <1>6, <1>9, <2>1 DEF IInv, TypeOK
<1>11. NeverAppliedTwice'
  <2>1. \A x, y \in Evidence : x.key = y.key => x = y
    BY DEF IInv, NeverAppliedTwice
  <2>2. e \notin applied
    <3>1. e.key \in Keys
      BY <1>7, ObservationsAssumption
    <3>2. ~KeyLess(e.key, e.key)
      BY <3>1, KeyOrder
    <3> QED
      BY <3>2 DEF IInv, RetainedAboveFolded
  <2>3. \A y \in Evidence \ {e} : y.key # o.key
    BY <1>3, <2>1 DEF Evidence
  <2>4. Evidence' \subseteq (Evidence \ {e}) \cup {o} \/ Evidence' = Evidence
    BY <1>1, <1>6, <2>2 DEF Evidence
  <2>5. \A x, y \in Evidence' : x.key = y.key => x = y
    BY <2>1, <2>3, <2>4
  <2> QED
    BY <1>1, <1>6, <2>5 DEF IInv, NeverAppliedTwice
<1>12. RetainedAboveFolded'
  BY <1>1, <1>3, <1>6 DEF IInv, RetainedAboveFolded
<1>13. FenceIsHighestFolded'
  BY <1>1, <1>6 DEF IInv, FenceIsHighestFolded
<1>14. RefusedOnlyBelowEvidence'
  BY <1>1 DEF RefusedOnlyBelowEvidence
<1>15. ArrivalOrderIrrelevant'
  <2> SUFFICES ASSUME applied = {}
               PROVE  ledger'.entries = {x \in delivered \cup {o} :
                        \A p \in delivered \cup {o} : p.key = x.key => x.digest <= p.digest}
    BY <1>1 DEF ArrivalOrderIrrelevant, Evidence
  <2>1. ledger.entries = {x \in delivered :
                            \A p \in delivered : p.key = x.key => x.digest <= p.digest}
    BY DEF IInv, ArrivalOrderIrrelevant, Evidence
  <2>2. \A p \in delivered : p.digest \in Nat
    BY ObservationsAssumption DEF IInv, TypeOK
  <2>3. \A p \in delivered : p.key = o.key => e.digest <= p.digest
    BY <1>3, <2>1
  <2>4. \A x \in delivered : x.key = o.key /\ x.digest = e.digest => x = e
    BY <1>3, <1>7, ObservationsAssumption DEF IInv, TypeOK
  <2>5. CASE o.digest < e.digest
    <3>1. ledger'.entries = swapped
      BY <1>6, <2>5
    <3> QED
      BY <1>3, <1>7, <2>1, <2>2, <2>3, <2>4, <2>5, <3>1
  <2>6. CASE ~(o.digest < e.digest)
    <3>1. ledger'.entries = ledger.entries /\ e.digest < o.digest
      BY <1>3, <1>6, <1>7, <2>6
    <3> QED
      BY <1>3, <1>7, <2>1, <2>2, <2>3, <2>4, <3>1
  <2> QED
    BY <2>5, <2>6
<1> QED
  BY <1>10, <1>11, <1>12, <1>13, <1>14, <1>15 DEF IInv

\* New evidence is retained; if the ledger is full the lowest is folded.
LEMMA AcceptedStep ==
  ASSUME IInv, NEW o \in Observations, Deliver(o),
         InsertKind(ledger, o) = "Accepted"
  PROVE  /\ IInv'
         /\ \A f \in applied' \ applied, p \in applied : KeyLess(p.key, f.key)
<1> DEFINE grown == ledger.entries \cup {o}
           low   == Lowest(grown)
<1>1. delivered' = delivered \cup {o} /\ result' = [obs |-> {o}, kind |-> "Accepted"]
  BY DEF Deliver
<1>2. /\ \A e \in ledger.entries : e.key # o.key
      /\ \A f \in applied : KeyLess(f.key, o.key)
      /\ ledger.folded > 0 => KeyLess(ledger.mark.bound, o.key)
      /\ ledger.folded = 0 => applied = {}
  BY AcceptedIsAboveFolded
<1>3. ledger \in Ledgers(Observations) /\ grown \subseteq Observations
      /\ applied \subseteq Observations
  BY DEF IInv, TypeOK, Ledgers
<1>4. IsFiniteSet(grown)
  BY FS_AddElement DEF IInv, TypeOK
<1>5. \A g \in grown, f \in applied : KeyLess(f.key, g.key)
  BY <1>2 DEF IInv, RetainedAboveFolded
<1>6. \A g \in grown : ledger.folded > 0 => KeyLess(ledger.mark.bound, g.key)
  BY <1>2 DEF IInv, RetainedAboveFolded
<1>7. \A x, y \in applied \cup grown : x.key = y.key => x = y
  <2>1. \A x \in grown : x.key \in Keys
    BY <1>3, ObservationsAssumption
  <2>2. \A x \in grown, y \in applied : x.key # y.key
    BY <1>5, <2>1, KeyOrder
  <2> QED
    BY <1>2, <2>2 DEF IInv, NeverAppliedTwice, Evidence
<1>8. RefusedOnlyBelowEvidence'
  BY <1>1 DEF RefusedOnlyBelowEvidence
<1>9. ASSUME ledger' = WithEntries(ledger, grown), applied' = applied,
             Cardinality(grown) <= Capacity
      PROVE  /\ IInv'
             /\ \A f \in applied' \ applied, p \in applied : KeyLess(p.key, f.key)
  <2>1. ledger'.entries = grown /\ ledger'.mark = ledger.mark
        /\ ledger'.folded = ledger.folded
    BY <1>9 DEF WithEntries
  <2>2. ledger' \in Ledgers(Observations)
    BY <1>3, <1>9 DEF WithEntries, Ledgers
  <2>3. TypeOK'
    BY <1>1, <1>4, <1>9, <2>1, <2>2 DEF IInv, TypeOK
  <2>4. NeverAppliedTwice'
    BY <1>7, <1>9, <2>1 DEF IInv, NeverAppliedTwice, Evidence
  <2>5. RetainedAboveFolded' /\ FenceIsHighestFolded'
    BY <1>5, <1>6, <1>9, <2>1 DEF IInv, RetainedAboveFolded, FenceIsHighestFolded
  <2>6. ArrivalOrderIrrelevant'
    <3> SUFFICES ASSUME applied = {}
                 PROVE  grown = {x \in delivered \cup {o} :
                          \A p \in delivered \cup {o} : p.key = x.key => x.digest <= p.digest}
      BY <1>1, <1>9, <2>1 DEF ArrivalOrderIrrelevant, Evidence
    <3>1. ledger.entries = {x \in delivered :
                              \A p \in delivered : p.key = x.key => x.digest <= p.digest}
      BY DEF IInv, ArrivalOrderIrrelevant, Evidence
    <3>2. \A p \in delivered : p.key # o.key
      BY <1>2, DeliveredKeyIsRetained
    <3>3. o.digest \in Nat
      BY ObservationsAssumption
    <3> QED
      BY <3>1, <3>2, <3>3
  <2> QED
    BY <1>8, <1>9, <2>3, <2>4, <2>5, <2>6 DEF IInv
<1>10. ASSUME ledger' = FoldLowest(WithEntries(ledger, grown)),
              applied' = applied \cup {low}, Cardinality(grown) = Capacity + 1,
              low \in grown, \A p \in grown \ {low} : KeyLess(low.key, p.key)
       PROVE  /\ IInv'
              /\ \A f \in applied' \ applied, p \in applied : KeyLess(p.key, f.key)
  <2>1. low \in Observations /\ low.key \in Keys
    BY <1>3, <1>10, ObservationsAssumption
  <2>2. ledger' = [entries |-> grown \ {low},
                   prefix  |-> ApplyObservation(ledger.prefix, low, TRUE),
                   mark    |-> FoldMark(ledger.mark, low.key),
                   folded  |-> ledger.folded + 1]
    BY <1>10 DEF FoldLowest, WithEntries
  <2>3. /\ ledger.prefix \in FoldStates /\ ledger.mark \in Marks /\ ledger.folded \in Nat
    BY <1>3 DEF Ledgers
  <2> HIDE DEF low, grown
  <2>4. ApplyObservation(ledger.prefix, low, TRUE) \in FoldStates
    BY <2>1, <2>3, ApplyObservationType
  <2>5. FoldMark(ledger.mark, low.key) \in Marks
        /\ FoldMark(ledger.mark, low.key).bound = low.key
    BY <2>1, <2>3, FoldMarkType
  <2>6. ledger' \in Ledgers(Observations)
    <3>1. grown \ {low} \in SUBSET Observations /\ ledger.folded + 1 \in Nat
      BY <1>3, <2>3
    <3> QED
      BY <2>2, <2>4, <2>5, <3>1 DEF Ledgers
  <2>7. ledger'.entries = grown \ {low} /\ ledger'.mark.bound = low.key
        /\ ledger'.folded = ledger.folded + 1
    BY <2>2, <2>5
  <2>8. IsFiniteSet(grown \ {low}) /\ Cardinality(grown \ {low}) = Capacity
    <3>1. /\ IsFiniteSet(grown \ {low})
          /\ Cardinality(grown \ {low}) = Cardinality(grown) - 1
      BY <1>4, <1>10, FS_RemoveElement
    <3> QED
      BY <1>10, <3>1, LedgerAssumption
  <2>9. TypeOK'
    BY <1>1, <1>3, <1>10, <2>1, <2>6, <2>7, <2>8, LedgerAssumption DEF IInv, TypeOK
  <2>10. low \notin applied
    BY <1>5, <1>10, <2>1, KeyOrder
  <2>11. IsFiniteSet(applied') /\ Cardinality(applied') = Cardinality(applied) + 1
    BY <1>10, <2>10, FS_AddElement DEF IInv, FenceIsHighestFolded
  <2>12. NeverAppliedTwice'
    <3>1. Evidence' = applied \cup grown
      BY <1>10, <2>7 DEF Evidence
    <3> QED
      BY <1>7, <2>7, <2>11, <3>1 DEF IInv, NeverAppliedTwice
  <2>13. RetainedAboveFolded'
    BY <1>5, <1>10, <2>7 DEF RetainedAboveFolded
  <2>14. FenceIsHighestFolded'
    BY <1>5, <1>10, <2>7, <2>11 DEF FenceIsHighestFolded
  <2>15. ArrivalOrderIrrelevant'
    BY <1>10 DEF ArrivalOrderIrrelevant
  <2>16. \A f \in applied' \ applied, p \in applied : KeyLess(p.key, f.key)
    BY <1>5, <1>10
  <2> QED
    BY <1>8, <2>9, <2>12, <2>13, <2>14, <2>15, <2>16 DEF IInv
<1> QED
  BY <1>9, <1>10, StoreOutcome

-----------------------------------------------------------------------------
\* Every call of insert preserves the inductive invariant.
LEMMA NextPreserves ==
  ASSUME IInv, [Next]_vars
  PROVE  IInv'
<1>1. ASSUME NEW o \in Observations, Deliver(o)
      PROVE  IInv'
  BY <1>1, InsertAnswers, RejectedStep, ConflictStep, AcceptedStep
<1>2. CASE UNCHANGED vars
  BY <1>2 DEF vars, IInv, TypeOK, NeverAppliedTwice, RetainedAboveFolded,
     FenceIsHighestFolded, RefusedOnlyBelowEvidence, ArrivalOrderIrrelevant, Evidence
<1> QED
  BY <1>1, <1>2 DEF Next

\* A new ledger satisfies it.
LEMMA InitEstablishes == Init => IInv
<1> SUFFICES ASSUME Init PROVE IInv
  OBVIOUS
<1>1. EmptyAccumulator \in Accumulator
  BY MaxCountAssumption DEF EmptyAccumulator, Accumulator, NoReading
<1>2. [d \in Directions |-> EmptyAccumulator] \in [Directions -> Accumulator]
  BY <1>1
<1>3. EmptyFold \in FoldStates
  BY <1>2 DEF EmptyFold, FoldStates
<1>4. EmptyMark \in Marks
  BY DEF EmptyMark, Marks
<1>5. ledger \in Ledgers(Observations) /\ ledger.entries = {} /\ ledger.folded = 0
  BY <1>3, <1>4 DEF Init, EmptyLedger, Ledgers
<1>6. TypeOK
  BY <1>5, FS_EmptySet, LedgerAssumption DEF Init, TypeOK
<1> QED
  BY <1>5, <1>6, FS_EmptySet DEF Init, IInv, NeverAppliedTwice, RetainedAboveFolded,
     FenceIsHighestFolded, RefusedOnlyBelowEvidence, ArrivalOrderIrrelevant, Evidence

\* The inductive invariant holds in every reachable state of a ledger.
THEOREM LedgerInvariant == Spec => []IInv
<1>1. Init => IInv
  BY InitEstablishes
<1>2. IInv /\ [Next]_vars => IInv'
  BY NextPreserves
<1> QED
  BY <1>1, <1>2, PTL DEF Spec

\* The ledger stays within its capacity and well formed.
THEOREM LedgerTypeOK == Spec => []TypeOK
<1>1. IInv => TypeOK
  BY DEF IInv
<1> QED
  BY <1>1, LedgerInvariant, PTL

\* SourceLedger::insert accounts no key twice, whatever is redelivered.
THEOREM LedgerNeverAppliesTwice == Spec => []NeverAppliedTwice
<1>1. IInv => NeverAppliedTwice
  BY DEF IInv
<1> QED
  BY <1>1, LedgerInvariant, PTL

\* What is retained lies above what is folded and above the fence.
THEOREM LedgerRetainedAboveFolded == Spec => []RetainedAboveFolded
<1>1. IInv => RetainedAboveFolded
  BY DEF IInv
<1> QED
  BY <1>1, LedgerInvariant, PTL

\* Only evidence at or below accepted evidence is refused.
THEOREM LedgerRefusedOnlyBelow == Spec => []RefusedOnlyBelowEvidence
<1>1. IInv => RefusedOnlyBelowEvidence
  BY DEF IInv
<1> QED
  BY <1>1, LedgerInvariant, PTL

\* Until the first fold, the evidence retained depends on the set delivered
\* and not on the order of the deliveries.
THEOREM LedgerArrivalOrderIrrelevant == Spec => []ArrivalOrderIrrelevant
<1>1. IInv => ArrivalOrderIrrelevant
  BY DEF IInv
<1> QED
  BY <1>1, LedgerInvariant, PTL

\* No step of the ledger folds evidence at or below what is already folded.
THEOREM LedgerNeverOutOfOrder == Spec => NeverOutOfOrder
<1> DEFINE InOrder == \A o \in applied' \ applied, p \in applied : KeyLess(p.key, o.key)
<1>1. IInv /\ [Next]_vars => [InOrder]_vars
  <2> SUFFICES ASSUME IInv, Next PROVE InOrder
    BY DEF vars
  <2>1. PICK o \in Observations : Deliver(o)
    BY DEF Next
  <2>2. CASE InsertKind(ledger, o) = "Accepted"
    BY <2>1, <2>2, AcceptedStep
  <2>3. CASE InsertKind(ledger, o) # "Accepted"
    BY <2>1, <2>3 DEF Deliver
  <2> QED
    BY <2>2, <2>3
<1> QED
  BY <1>1, LedgerInvariant, PTL DEF Spec, NeverOutOfOrder

-----------------------------------------------------------------------------
(* The fold of evidence in canonical order.                                *)

\* Observations that insert retains or folds: no two of them have one key.
IsEvidence(S) ==
  /\ S \subseteq Observations /\ IsFiniteSet(S)
  /\ \A o, p \in S : o.key = p.key => o = p

\* A part of a set of evidence is one.
LEMMA EvidenceSubset ==
  ASSUME NEW S, IsEvidence(S), NEW T \in SUBSET S
  PROVE  IsEvidence(T)
  BY FS_Subset DEF IsEvidence

\* Highest picks the one that the code keeps at the back of its sorted vector.
LEMMA HighestIsGreatest ==
  ASSUME NEW S, IsEvidence(S), S # {}
  PROVE  /\ Highest(S) \in S
         /\ \A p \in S \ {Highest(S)} : KeyLess(p.key, Highest(S).key)
<1> DEFINE Tops(s) == {o \in s : \A p \in s \ {o} : KeyLess(p.key, o.key)}
           W == {s \in SUBSET S : s # {} /\ Tops(s) = {}}
<1>0. \A o \in S : o.key \in Keys
  BY ObservationsAssumption DEF IsEvidence
<1>1. Tops(S) # {}
  <2> SUFFICES ASSUME W # {} PROVE FALSE
    OBVIOUS
  <2>1. W \in SUBSET (SUBSET S) /\ IsFiniteSet(S)
    BY DEF IsEvidence
  <2>2. PICK s \in W : \A t \in W : t \subseteq s => t = s
    <3> HIDE DEF W
    <3> QED
      BY <2>1, MinimalSubset
  <2>3. PICK x \in s : TRUE
    OBVIOUS
  <2> DEFINE t == s \ {x}
  <2>4. CASE t = {}
    <3>1. s \ {x} = {}
      BY <2>4
    <3>2. x \in Tops(s)
      BY <3>1
    <3> QED
      BY <3>2
  <2>5. CASE t # {}
    <3>1. t \in SUBSET S /\ t \subseteq s /\ t # s
      OBVIOUS
    <3>2. PICK m \in t : \A p \in t \ {m} : KeyLess(p.key, m.key)
      <4>1. t \notin W
        BY <2>2, <3>1
      <4> QED
        BY <2>5, <3>1, <4>1
    <3>3. x \in S /\ m \in S /\ x # m /\ x.key \in Keys /\ m.key \in Keys
      BY <1>0
    <3>4. KeyLess(x.key, m.key) \/ KeyLess(m.key, x.key)
      BY <3>3, KeyOrder DEF IsEvidence
    <3>5. CASE KeyLess(x.key, m.key)
      <4>1. \A p \in s \ {m} : KeyLess(p.key, m.key)
        BY <3>2, <3>5
      <4> QED
        BY <4>1
    <3>6. CASE KeyLess(m.key, x.key)
      <4>1. \A p \in s \ {x} : KeyLess(p.key, x.key)
        <5> SUFFICES ASSUME NEW p \in s \ {x} PROVE KeyLess(p.key, x.key)
          OBVIOUS
        <5>1. p = m \/ KeyLess(p.key, m.key)
          BY <3>2
        <5>2. p.key \in Keys
          BY <1>0
        <5> QED
          BY <3>3, <3>6, <5>1, <5>2, KeyOrder
      <4> QED
        BY <4>1
    <3> QED
      BY <3>4, <3>5, <3>6
  <2> QED
    BY <2>4, <2>5
<1> QED
  BY <1>1 DEF Highest

\* There is only one highest observation.
LEMMA HighestIsUnique ==
  ASSUME NEW S, IsEvidence(S), NEW o \in S, \A p \in S \ {o} : KeyLess(p.key, o.key)
  PROVE  Highest(S) = o
<1>1. /\ Highest(S) \in S
      /\ \A p \in S \ {Highest(S)} : KeyLess(p.key, Highest(S).key)
  BY HighestIsGreatest
<1>2. Highest(S).key \in Keys /\ o.key \in Keys
  BY <1>1, ObservationsAssumption DEF IsEvidence
<1> QED
  BY <1>1, <1>2, KeyOrder

\* The fold over the subsets of a set is defined, and it applies the highest
\* observation last.
LEMMA FoldRecurs ==
  ASSUME NEW st, NEW r, NEW S, IsEvidence(S)
  PROVE  FoldAll(st, S, r) =
           IF S = {} THEN st
           ELSE ApplyObservation(FoldAll(st, S \ {Highest(S)}, r), Highest(S), r)
<1> DEFINE F(s) == FoldAll(st, s, r)
           H(s) == Highest(s)
           A(x, o) == ApplyObservation(x, o, r)
           Body(s) == IF s = {} THEN st ELSE A(F(s \ {H(s)}), H(s))
           Iter(s) == CHOOSE it : it = [u \in SUBSET s |->
                        IF u = {} THEN st ELSE A(it[u \ {H(u)}], H(u))]
           W == {s \in SUBSET S : F(s) # Body(s)}
<1>1. ASSUME NEW s PROVE F(s) = Iter(s)[s]
  BY Zenon DEF FoldAll, MapThenFoldSet
<1>2. ASSUME NEW u \in SUBSET S, u # {} PROVE H(u) \in u
  BY <1>2, EvidenceSubset, HighestIsGreatest
<1> HIDE DEF F, A, H
<1> SUFFICES ASSUME W # {} PROVE FALSE
  BY DEF F, A, H
<1>3. W \in SUBSET (SUBSET S) /\ IsFiniteSet(S)
  BY DEF IsEvidence
<1>4. PICK s \in W : \A t \in W : t \subseteq s => t = s
  <2> HIDE DEF W
  <2> QED
    BY <1>3, MinimalSubset
<1>5. s \in SUBSET S /\ F(s) # Body(s)
  OBVIOUS
<1>6. ASSUME NEW u \in SUBSET s, u # s PROVE F(u) = Body(u)
  BY <1>4, <1>5, <1>6
<1> DEFINE v == [u \in SUBSET s |-> Body(u)]
<1> HIDE DEF W, Body
<1>7. ASSUME NEW u \in SUBSET s, u # {}
      PROVE  /\ u \ {H(u)} \in SUBSET s /\ u \ {H(u)} # s /\ u \ {H(u)} # u
             /\ v[u \ {H(u)}] = F(u \ {H(u)})
  <2>1. H(u) \in u
    BY <1>2, <1>5, <1>7
  <2>2. u \ {H(u)} \in SUBSET s /\ u \ {H(u)} # s /\ u \ {H(u)} # u
    BY <2>1
  <2>3. v[u \ {H(u)}] = Body(u \ {H(u)})
    BY <2>2
  <2> QED
    BY <1>6, <2>2, <2>3
<1>8. v = [u \in SUBSET s |-> IF u = {} THEN st ELSE A(v[u \ {H(u)}], H(u))]
  <2>1. ASSUME NEW u \in SUBSET s
        PROVE  Body(u) = IF u = {} THEN st ELSE A(v[u \ {H(u)}], H(u))
    BY <1>7 DEF Body
  <2> QED
    BY <2>1
<1> HIDE DEF v
<1> DEFINE it == Iter(s)
<1>9. it = [u \in SUBSET s |-> IF u = {} THEN st ELSE A(it[u \ {H(u)}], H(u))]
  BY <1>8, Zenon
<1> HIDE DEF it
<1> DEFINE D == {u \in SUBSET s : it[u] # v[u]}
<1>10. it[s] = v[s]
  <2> SUFFICES ASSUME D # {} PROVE FALSE
    OBVIOUS
  <2>1. D \in SUBSET (SUBSET s) /\ IsFiniteSet(s)
    BY <1>3, <1>5, FS_Subset
  <2>2. PICK u \in D : \A t \in D : t \subseteq u => t = u
    <3> HIDE DEF D
    <3> QED
      BY <2>1, MinimalSubset
  <2>3. u \in SUBSET s /\ it[u] # v[u]
    OBVIOUS
  <2>4. /\ it[u] = IF u = {} THEN st ELSE A(it[u \ {H(u)}], H(u))
        /\ v[u] = IF u = {} THEN st ELSE A(v[u \ {H(u)}], H(u))
    BY <1>8, <1>9, <2>3
  <2>5. CASE u = {}
    BY <2>3, <2>4, <2>5
  <2>6. CASE u # {}
    <3>1. u \ {H(u)} \in SUBSET s /\ u \ {H(u)} # u
      BY <1>7, <2>3, <2>6
    <3>2. it[u \ {H(u)}] = v[u \ {H(u)}]
      BY <2>2, <3>1
    <3> QED
      BY <2>3, <2>4, <2>6, <3>2
  <2> QED
    BY <2>5, <2>6
<1>11. v[s] = Body(s)
  BY DEF v
<1>12. F(s) = it[s]
  BY <1>1 DEF it
<1> QED
  BY <1>5, <1>10, <1>11, <1>12

\* Folding a set and then one that lies above it is folding both.
LEMMA FoldInParts ==
  ASSUME NEW st, NEW r, NEW S, NEW T, IsEvidence(S \cup T),
         \A o \in S, p \in T : KeyLess(o.key, p.key)
  PROVE  FoldAll(FoldAll(st, S, r), T, r) = FoldAll(st, S \cup T, r)
<1> DEFINE base == FoldAll(st, S, r)
           Agrees(t) == FoldAll(base, t, r) = FoldAll(st, S \cup t, r)
           W == {t \in SUBSET T : ~Agrees(t)}
<1> SUFFICES ASSUME W # {} PROVE FALSE
  OBVIOUS
<1>1. W \in SUBSET (SUBSET T) /\ IsFiniteSet(T)
  <2>1. T \in SUBSET (S \cup T)
    OBVIOUS
  <2> QED
    BY <2>1, EvidenceSubset DEF IsEvidence
<1>2. PICK t \in W : \A u \in W : u \subseteq t => u = t
  <2> HIDE DEF W
  <2> QED
    BY <1>1, MinimalSubset
<1>3. t \in SUBSET T /\ ~Agrees(t)
  OBVIOUS
<1>4. IsEvidence(t) /\ IsEvidence(S \cup t)
  BY <1>3, EvidenceSubset
<1>5. t # {}
  <2> SUFFICES ASSUME t = {} PROVE FALSE
    OBVIOUS
  <2>1. S \cup t = S /\ FoldAll(base, t, r) = base
    BY <1>4, FoldRecurs
  <2> QED
    BY <1>3, <2>1
<1> DEFINE h == Highest(t)
           u == t \ {h}
<1>6. h \in t /\ \A p \in t \ {h} : KeyLess(p.key, h.key)
  BY <1>4, <1>5, HighestIsGreatest
<1>7. Highest(S \cup t) = h /\ S \cup t # {}
  <2>1. \A p \in (S \cup t) \ {h} : KeyLess(p.key, h.key)
    BY <1>3, <1>6
  <2> QED
    BY <1>4, <1>6, <2>1, HighestIsUnique
<1>8. h \notin S
  <2> SUFFICES ASSUME h \in S PROVE FALSE
    OBVIOUS
  <2>1. KeyLess(h.key, h.key) /\ h.key \in Keys
    BY <1>3, <1>4, <1>6, ObservationsAssumption DEF IsEvidence
  <2> QED
    BY <2>1, KeyOrder
<1> HIDE DEF h
<1>9. (S \cup t) \ {h} = S \cup u
  BY <1>8
<1>10. Agrees(u)
  <2>1. u \in SUBSET T /\ u \subseteq t /\ u # t
    BY <1>3, <1>6
  <2> QED
    BY <1>2, <2>1
<1>11. FoldAll(base, t, r) = ApplyObservation(FoldAll(base, u, r), h, r)
  BY <1>4, <1>5, FoldRecurs DEF h
<1>12. FoldAll(st, S \cup t, r) = ApplyObservation(FoldAll(st, S \cup u, r), h, r)
  BY <1>4, <1>7, <1>9, FoldRecurs
<1> QED
  BY <1>3, <1>10, <1>11, <1>12

-----------------------------------------------------------------------------
\* The prefix is the fold of the evidence that left the entries.
PrefixIsFold == ledger.prefix = FoldAll(EmptyFold, applied, TRUE)

\* What is applied and what is retained together have one copy of every key.
LEMMA EvidenceIsSound ==
  ASSUME IInv
  PROVE  /\ IsEvidence(Evidence)
         /\ \A f \in applied, e \in ledger.entries : KeyLess(f.key, e.key)
<1>1. IsFiniteSet(applied) /\ IsFiniteSet(ledger.entries)
  BY DEF IInv, FenceIsHighestFolded, TypeOK
<1>2. IsFiniteSet(Evidence)
  BY <1>1, FS_Union DEF Evidence
<1>3. Evidence \subseteq Observations
  BY DEF IInv, TypeOK, Ledgers, Evidence
<1> QED
  BY <1>2, <1>3 DEF IInv, NeverAppliedTwice, RetainedAboveFolded, IsEvidence

\* The same after a step.
LEMMA EvidencePrimed ==
  ASSUME IInv'
  PROVE  IsEvidence(Evidence')
<1>1. IsFiniteSet(applied') /\ IsFiniteSet(ledger'.entries)
  BY DEF IInv, FenceIsHighestFolded, TypeOK
<1>2. IsFiniteSet(Evidence')
  BY <1>1, FS_Union DEF Evidence
<1>3. Evidence' \subseteq Observations
  BY DEF IInv, TypeOK, Ledgers, Evidence
<1> QED
  BY <1>2, <1>3 DEF IInv, NeverAppliedTwice, IsEvidence

\* insert folds the lowest entry on top of everything folded before.
LEMMA PrefixStep ==
  ASSUME IInv, IInv', PrefixIsFold, [Next]_vars
  PROVE  PrefixIsFold'
<1>1. CASE UNCHANGED vars
  BY <1>1 DEF vars, PrefixIsFold
<1>2. ASSUME NEW o \in Observations, Deliver(o), InsertKind(ledger, o) # "Accepted"
      PROVE  PrefixIsFold'
  <2>1. applied' = applied /\ ledger'.prefix = ledger.prefix
    BY <1>2 DEF Deliver, Insert, SettleConflict, WithEntries
  <2> QED
    BY <2>1 DEF PrefixIsFold
<1>3. ASSUME NEW o \in Observations, Deliver(o), InsertKind(ledger, o) = "Accepted"
      PROVE  PrefixIsFold'
  <2> DEFINE grown == ledger.entries \cup {o}
             low == Lowest(grown)
  <2>1. CASE ledger' = WithEntries(ledger, grown) /\ applied' = applied
    <3>1. ledger'.prefix = ledger.prefix
      BY <2>1 DEF WithEntries
    <3> QED
      BY <2>1, <3>1 DEF PrefixIsFold
  <2>2. CASE /\ ledger' = FoldLowest(WithEntries(ledger, grown))
             /\ applied' = applied \cup {low}
             /\ low \in grown
    <3>1. ledger'.prefix = ApplyObservation(ledger.prefix, low, TRUE)
      BY <2>2 DEF FoldLowest, WithEntries
    <3>2. \A f \in applied : KeyLess(f.key, low.key)
      BY <1>3, <2>2, AcceptedIsAboveFolded DEF IInv, RetainedAboveFolded
    <3>3. IsEvidence(applied') /\ low \in applied'
      <4>1. applied' \in SUBSET Evidence'
        BY DEF Evidence
      <4>2. IsEvidence(Evidence')
        BY EvidencePrimed
      <4> QED
        BY <2>2, <4>1, <4>2, EvidenceSubset
    <3> HIDE DEF low
    <3>4. Highest(applied') = low
      <4>1. \A p \in applied' \ {low} : KeyLess(p.key, low.key)
        BY <2>2, <3>2
      <4> QED
        BY <3>3, <4>1, HighestIsUnique
    <3>5. applied' \ {low} = applied
      <4>1. low.key \in Keys
        BY <3>3, ObservationsAssumption DEF IsEvidence
      <4>2. low \notin applied
        BY <3>2, <4>1, KeyOrder
      <4> QED
        BY <2>2, <4>2
    <3>6. FoldAll(EmptyFold, applied', TRUE)
            = ApplyObservation(FoldAll(EmptyFold, applied, TRUE), low, TRUE)
      <4> DEFINE a == applied'
      <4>1. IsEvidence(a) /\ a # {} /\ Highest(a) = low /\ a \ {low} = applied
        BY <3>3, <3>4, <3>5
      <4> HIDE DEF a
      <4>2. FoldAll(EmptyFold, a, TRUE)
              = ApplyObservation(FoldAll(EmptyFold, a \ {Highest(a)}, TRUE), Highest(a), TRUE)
        BY <4>1, FoldRecurs
      <4>3. FoldAll(EmptyFold, a, TRUE)
              = ApplyObservation(FoldAll(EmptyFold, applied, TRUE), low, TRUE)
        BY <4>1, <4>2
      <4> QED
        BY <4>3 DEF a
    <3> QED
      BY <3>1, <3>6 DEF PrefixIsFold
  <2> QED
    BY <1>3, <2>1, <2>2, StoreOutcome
<1> QED
  BY <1>1, <1>2, <1>3 DEF Next

\* In every reachable state the folded prefix is the fold of what has been applied.
LEMMA PrefixAlways == Spec => []PrefixIsFold
<1>1. Init => PrefixIsFold
  <2> SUFFICES ASSUME Init PROVE PrefixIsFold
    OBVIOUS
  <2>1. ledger.prefix = EmptyFold /\ applied = {}
    BY DEF Init, EmptyLedger
  <2>2. IsEvidence({})
    BY FS_EmptySet DEF IsEvidence
  <2>3. FoldAll(EmptyFold, {}, TRUE) = EmptyFold
    BY <2>2, FoldRecurs
  <2> QED
    BY <2>1, <2>3 DEF PrefixIsFold
<1>2. IInv /\ IInv' /\ PrefixIsFold /\ [Next]_vars => PrefixIsFold'
  BY PrefixStep
<1> QED
  BY <1>1, <1>2, LedgerInvariant, PTL DEF Spec

\* SourceLedger::insert and fold_source_view: whatever its capacity, the ledger
\* reports what one fold of all accepted evidence in canonical order gives. The
\* prefix is folded under the default CounterPolicy, so this is where the
\* configured policy is the default one.
THEOREM LedgerCapacityIrrelevant ==
  ASSUME RegressionAsReset = TRUE
  PROVE  Spec => []CapacityIrrelevant
<1>1. IInv /\ PrefixIsFold => CapacityIrrelevant
  <2> SUFFICES ASSUME IInv, PrefixIsFold PROVE CapacityIrrelevant
    OBVIOUS
  <2>1. /\ IsEvidence(applied \cup ledger.entries)
        /\ \A f \in applied, e \in ledger.entries : KeyLess(f.key, e.key)
    BY EvidenceIsSound DEF Evidence
  <2>2. FoldAll(FoldAll(EmptyFold, applied, TRUE), ledger.entries, TRUE)
          = FoldAll(EmptyFold, applied \cup ledger.entries, TRUE)
    <3> DEFINE A == applied
               E == ledger.entries
    <3>1. IsEvidence(A \cup E) /\ \A f \in A, e \in E : KeyLess(f.key, e.key)
      BY <2>1
    <3> HIDE DEF A, E
    <3>2. ASSUME NEW r
          PROVE  FoldAll(FoldAll(EmptyFold, A, r), E, r) = FoldAll(EmptyFold, A \cup E, r)
      BY <3>1, FoldInParts
    <3> QED
      BY <3>2, Zenon DEF A, E
  <2> QED
    BY <2>2 DEF CapacityIrrelevant, View, PrefixIsFold, Evidence
<1> QED
  BY <1>1, LedgerInvariant, PrefixAlways, PTL

-----------------------------------------------------------------------------
(* The ledger across restarts. The fence that a snapshot leaves behind is  *)
(* put together from the high-water marks of the fold, so it lies at or    *)
(* above the folded evidence without being the key of any of it.           *)

AnyKey == [inc : Nat, epoch : Nat, rev : Nat, seq : Nat]

\* The fence that restore_locked rebuilds.
HighWater(st) == [inc |-> st.inc, epoch |-> st.epoch, rev |-> st.highRev, seq |-> st.highSeq]

\* The inductive invariant across restarts.
RInv ==
  /\ IsEvidence(ledger.entries) /\ applied \subseteq Observations
  /\ ledger = [entries |-> ledger.entries, prefix |-> ledger.prefix, mark |-> ledger.mark,
               folded |-> ledger.folded]
  /\ ledger.folded \in Nat /\ ledger.prefix \in FoldStates
  /\ ledger.mark = [bound |-> ledger.mark.bound, exact |-> ledger.mark.exact,
                    low |-> ledger.mark.low, bits |-> ledger.mark.bits]
  /\ ledger.mark.bound \in AnyKey
  /\ ledger.folded = 0 => applied = {}
  /\ \A f \in applied : /\ ~KeyLess(ledger.mark.bound, f.key)
                        /\ ~KeyLess(HighWater(ledger.prefix), f.key)
                        /\ \A e \in ledger.entries : KeyLess(f.key, e.key)

\* Keys, the zero key of an empty fence included, are totally ordered.
LEMMA AnyKeyOrder ==
  ASSUME NEW a \in AnyKey, NEW b \in AnyKey, NEW c \in AnyKey
  PROVE  /\ ~ KeyLess(a, a)
         /\ KeyLess(a, b) /\ KeyLess(b, c) => KeyLess(a, c)
         /\ a = b \/ KeyLess(a, b) \/ KeyLess(b, a)
  BY DEF AnyKey, KeyLess

\* The key of an observation is a key.
LEMMA ObservationKeys ==
  ASSUME NEW o \in Observations
  PROVE  o.key \in AnyKey /\ o.key \in Keys
  BY ObservationsAssumption DEF Keys, AnyKey

\* The high-water marks of a fold lie at or above what was applied last.
LEMMA AppliedIsBelowHighWater ==
  ASSUME NEW st \in FoldStates, NEW o \in Observations, NEW r \in BOOLEAN
  PROVE  LET new == ApplyObservation(st, o, r) IN
         /\ new \in FoldStates
         /\ ~KeyLess(HighWater(new), o.key)
<1> DEFINE new == ApplyObservation(st, o, r)
           fenced == CrossFences(st, o)
<1>1. new \in FoldStates
  BY ApplyObservationType
<1>2. fenced \in FoldStates
  BY CrossFencesType
<1>3. o.key.rev \in Nat /\ o.key.seq \in Nat /\ st.highRev \in Nat /\ st.highSeq \in Nat
  BY ObservationKeys DEF AnyKey, FoldStates
<1>4. /\ fenced.inc = o.key.inc /\ fenced.epoch = o.key.epoch
      /\ fenced.highRev = Larger(st.highRev, o.key.rev)
      /\ fenced.highSeq = Larger(st.highSeq, o.key.seq)
  BY DEF CrossFences, FoldStates
<1>5. /\ new.inc = fenced.inc /\ new.epoch = fenced.epoch
      /\ new.highRev = fenced.highRev /\ new.highSeq = fenced.highSeq
  <2> HIDE DEF fenced
  <2>1. new = IF fenced.terminal # "none" THEN [fenced EXCEPT !.afterTerminal = fenced.afterTerminal + 1]
              ELSE RecordEvidence(fenced, o, r)
    BY DEF ApplyObservation, fenced
  <2> HIDE DEF new
  <2> QED
    BY <1>2, <2>1 DEF RecordEvidence, FoldStates
<1>6. o.key \in AnyKey
  BY ObservationKeys
<1> HIDE DEF new, fenced
<1>7. /\ HighWater(new).inc = o.key.inc /\ HighWater(new).epoch = o.key.epoch
      /\ HighWater(new).rev = Larger(st.highRev, o.key.rev)
      /\ HighWater(new).seq = Larger(st.highSeq, o.key.seq)
  BY <1>4, <1>5 DEF HighWater
<1>8. ~KeyLess(HighWater(new), o.key)
  BY <1>3, <1>6, <1>7 DEF KeyLess, Larger, AnyKey
<1> QED
  BY <1>1, <1>8 DEF new

\* A fold of evidence is well formed, and its high-water mark reaches the highest key
\* it has applied.
LEMMA FoldAllType ==
  ASSUME NEW st \in FoldStates, NEW S, IsEvidence(S), NEW r \in BOOLEAN
  PROVE  /\ FoldAll(st, S, r) \in FoldStates
         /\ S # {} => ~KeyLess(HighWater(FoldAll(st, S, r)), Highest(S).key)
<1> DEFINE W == {s \in SUBSET S : FoldAll(st, s, r) \notin FoldStates}
<1>1. W = {}
  <2> SUFFICES ASSUME W # {} PROVE FALSE
    OBVIOUS
  <2>1. W \in SUBSET (SUBSET S) /\ IsFiniteSet(S)
    BY DEF IsEvidence
  <2>2. PICK s \in W : \A t \in W : t \subseteq s => t = s
    <3> HIDE DEF W
    <3> QED
      BY <2>1, MinimalSubset
  <2>3. s \in SUBSET S /\ FoldAll(st, s, r) \notin FoldStates /\ IsEvidence(s)
    BY EvidenceSubset
  <2>4. FoldAll(st, s, r) = IF s = {} THEN st
          ELSE ApplyObservation(FoldAll(st, s \ {Highest(s)}, r), Highest(s), r)
    BY <2>3, FoldRecurs
  <2>5. s # {}
    BY <2>3, <2>4
  <2>6. Highest(s) \in s /\ Highest(s) \in Observations
    BY <2>3, <2>5, HighestIsGreatest DEF IsEvidence
  <2>7. FoldAll(st, s \ {Highest(s)}, r) \in FoldStates
    <3> DEFINE t == s \ {Highest(s)}
    <3>1. t \in SUBSET S /\ t \subseteq s /\ t # s
      BY <2>3, <2>6
    <3> HIDE DEF t
    <3>2. t \notin W
      BY <2>2, <3>1
    <3>3. FoldAll(st, t, r) \in FoldStates
      BY <3>1, <3>2
    <3> QED
      BY <3>3 DEF t
  <2> QED
    BY <2>3, <2>4, <2>5, <2>6, <2>7, AppliedIsBelowHighWater
<1>2. ASSUME NEW s \in SUBSET S PROVE FoldAll(st, s, r) \in FoldStates
  BY <1>1
<1>3. ASSUME S # {} PROVE ~KeyLess(HighWater(FoldAll(st, S, r)), Highest(S).key)
  <2>1. FoldAll(st, S, r) =
          ApplyObservation(FoldAll(st, S \ {Highest(S)}, r), Highest(S), r)
    BY <1>3, FoldRecurs
  <2>2. Highest(S) \in Observations
    BY <1>3, HighestIsGreatest DEF IsEvidence
  <2>3. FoldAll(st, S \ {Highest(S)}, r) \in FoldStates
    BY <1>2
  <2> QED
    BY <2>1, <2>2, <2>3, AppliedIsBelowHighWater
<1> QED
  BY <1>2, <1>3

\* New evidence is retained, or the lowest of the retained evidence is folded.
LEMMA RestartedStore ==
  ASSUME RInv, NEW o \in Observations, Deliver(o), InsertKind(ledger, o) = "Accepted"
  PROVE  /\ RInv'
         /\ \A p \in applied' \ applied, f \in applied : KeyLess(f.key, p.key)
<1> DEFINE grown == ledger.entries \cup {o}
           wide == WithEntries(ledger, grown)
           low == Lowest(grown)
<1>0. /\ wide.entries = grown /\ wide.prefix = ledger.prefix /\ wide.mark = ledger.mark
      /\ wide.folded = ledger.folded
      /\ wide = [entries |-> grown, prefix |-> ledger.prefix, mark |-> ledger.mark,
                 folded |-> ledger.folded]
  BY DEF WithEntries
<1>1. ledger' = IF Cardinality(grown) > Capacity THEN FoldLowest(wide) ELSE wide
  BY <1>0 DEF Deliver, Insert, Store
<1>2. applied' = applied \cup (grown \ ledger'.entries)
  BY DEF Deliver
<1>3. ~InFoldedRegion(ledger, o) /\ Incumbents(ledger, o) = {}
  BY DEF InsertKind
<1>4. \A f \in applied : f \in Observations /\ KeyLess(f.key, o.key)
  <2> SUFFICES ASSUME NEW f \in applied PROVE f \in Observations /\ KeyLess(f.key, o.key)
    OBVIOUS
  <2>1. ledger.folded > 0 /\ f \in Observations
    BY DEF RInv
  <2>2. KeyLess(ledger.mark.bound, o.key) /\ ~KeyLess(ledger.mark.bound, f.key)
    BY <1>3, <2>1 DEF InFoldedRegion, RInv
  <2>3. f.key \in AnyKey /\ o.key \in AnyKey /\ ledger.mark.bound \in AnyKey
    BY <2>1, ObservationKeys DEF RInv
  <2> QED
    BY <2>1, <2>2, <2>3, AnyKeyOrder
<1>5. IsEvidence(grown)
  BY <1>3, FS_AddElement DEF RInv, IsEvidence, Incumbents
<1>6. \A f \in applied, e \in grown : KeyLess(f.key, e.key)
  BY <1>4 DEF RInv
<1>7. CASE ledger' = wide
  <2>1. applied' = applied
    BY <1>0, <1>2, <1>7
  <2>2. /\ ledger'.entries = grown /\ ledger'.prefix = ledger.prefix
        /\ ledger'.mark = ledger.mark /\ ledger'.folded = ledger.folded
        /\ ledger' = [entries |-> ledger'.entries, prefix |-> ledger'.prefix,
                      mark |-> ledger'.mark, folded |-> ledger'.folded]
    BY <1>0, <1>7
  <2>3. IsEvidence(ledger'.entries)
    BY <1>5, <2>2
  <2>4. IsEvidence(ledger.entries)' = IsEvidence(ledger'.entries)
    BY DEF IsEvidence
  <2> QED
    BY <1>6, <2>1, <2>2, <2>3, <2>4 DEF RInv
<1>8. CASE ledger' = FoldLowest(wide)
  <2>1. low \in grown /\ \A p \in grown \ {low} : KeyLess(low.key, p.key)
    BY <1>5, LowestIsLeast DEF IsEvidence
  <2>2. /\ ledger' = [entries |-> grown \ {low},
                      prefix |-> ApplyObservation(ledger.prefix, low, TRUE),
                      mark |-> FoldMark(ledger.mark, low.key), folded |-> ledger.folded + 1]
    BY <1>0, <1>8 DEF FoldLowest
  <2>3. low \in Observations /\ low.key \in AnyKey
    BY <1>5, <2>1, ObservationKeys DEF IsEvidence
  <2> HIDE DEF low, wide
  <2>4. /\ ledger'.entries = grown \ {low}
        /\ ledger'.prefix = ApplyObservation(ledger.prefix, low, TRUE)
        /\ ledger'.mark = FoldMark(ledger.mark, low.key)
        /\ ledger'.folded = ledger.folded + 1
        /\ ledger' = [entries |-> ledger'.entries, prefix |-> ledger'.prefix,
                      mark |-> ledger'.mark, folded |-> ledger'.folded]
    BY <2>2
  <2>5. applied' = applied \cup {low}
    BY <1>2, <2>1, <2>4
  <2>6. ledger'.prefix \in FoldStates /\ ~KeyLess(HighWater(ledger'.prefix), low.key)
    <3>1. TRUE \in BOOLEAN
      OBVIOUS
    <3>2. ASSUME NEW r \in BOOLEAN
          PROVE  /\ ApplyObservation(ledger.prefix, low, r) \in FoldStates
                 /\ ~KeyLess(HighWater(ApplyObservation(ledger.prefix, low, r)), low.key)
      BY <2>3, AppliedIsBelowHighWater DEF RInv
    <3>3. /\ ApplyObservation(ledger.prefix, low, TRUE) \in FoldStates
          /\ ~KeyLess(HighWater(ApplyObservation(ledger.prefix, low, TRUE)), low.key)
      BY <3>1, <3>2, Zenon
    <3>4. ledger'.prefix = ApplyObservation(ledger.prefix, low, TRUE)
      BY <2>4, Zenon
    <3> QED
      BY <3>3, <3>4, Zenon
  <2>7. /\ ledger'.mark = [bound |-> ledger'.mark.bound, exact |-> ledger'.mark.exact,
                          low |-> ledger'.mark.low, bits |-> ledger'.mark.bits]
        /\ ledger'.mark.bound = low.key
    <3> DEFINE m == ledger.mark
    <3>1. m = [bound |-> m.bound, exact |-> m.exact, low |-> m.low, bits |-> m.bits]
      BY DEF RInv
    <3> HIDE DEF m
    <3>2. FoldMark(m, low.key) = [bound |-> low.key, exact |-> FoldMark(m, low.key).exact,
                                  low |-> FoldMark(m, low.key).low,
                                  bits |-> FoldMark(m, low.key).bits]
      BY <3>1 DEF FoldMark
    <3> QED
      BY <2>4, <3>2 DEF m
  <2>8. ASSUME NEW f \in applied'
        PROVE  /\ ~KeyLess(ledger'.mark.bound, f.key)
               /\ ~KeyLess(HighWater(ledger'.prefix), f.key)
               /\ \A e \in ledger'.entries : KeyLess(f.key, e.key)
    <3>1. CASE f = low
      BY <2>1, <2>3, <2>4, <2>6, <2>7, <3>1, AnyKeyOrder
    <3>2. CASE f \in applied
      <4>1. KeyLess(f.key, low.key) /\ f.key \in AnyKey
        BY <1>4, <1>6, <2>1, <3>2, ObservationKeys
      <4>2. HighWater(ledger'.prefix) \in AnyKey
        BY <2>6 DEF HighWater, AnyKey, FoldStates
      <4>3. ~KeyLess(HighWater(ledger'.prefix), f.key)
        BY <2>3, <2>6, <4>1, <4>2, AnyKeyOrder
      <4>4. ~KeyLess(ledger'.mark.bound, f.key)
        BY <2>3, <2>7, <4>1, AnyKeyOrder
      <4> QED
        BY <1>6, <2>4, <3>2, <4>3, <4>4
    <3> QED
      BY <2>5, <3>1, <3>2
  <2>9. IsEvidence(ledger'.entries) /\ applied' \subseteq Observations
        /\ ledger'.folded \in Nat /\ ledger'.folded # 0
    BY <1>4, <1>5, <2>3, <2>4, <2>5, EvidenceSubset DEF RInv
  <2>10. IsEvidence(ledger.entries)' = IsEvidence(ledger'.entries)
    BY DEF IsEvidence
  <2>11. HighWater(ledger.prefix)' = HighWater(ledger'.prefix)
    BY DEF HighWater
  <2>12. RInv'
    BY <2>3, <2>4, <2>6, <2>7, <2>8, <2>9, <2>10, <2>11 DEF RInv
  <2>13. \A p \in applied' \ applied, f \in applied : KeyLess(f.key, p.key)
    BY <1>6, <2>1, <2>5
  <2> QED
    BY <2>12, <2>13
<1> QED
  BY <1>1, <1>7, <1>8

\* A repetition, a refusal or a conflict folds nothing.
LEMMA RestartedReject ==
  ASSUME RInv, NEW o \in Observations, Deliver(o), InsertKind(ledger, o) # "Accepted"
  PROVE  RInv' /\ applied' = applied
<1>1. applied' = applied
  BY DEF Deliver
<1>2. \/ ledger' = ledger
      \/ /\ ledger' = WithEntries(ledger, (ledger.entries \ Incumbents(ledger, o)) \cup {o})
         /\ InsertKind(ledger, o) = "ContentConflict"
  BY DEF Deliver, Insert, SettleConflict
<1>3. CASE ledger' = ledger
  BY <1>1, <1>3 DEF RInv, IsEvidence, HighWater
<1>4. CASE /\ ledger' = WithEntries(ledger, (ledger.entries \ Incumbents(ledger, o)) \cup {o})
           /\ InsertKind(ledger, o) = "ContentConflict"
  <2> DEFINE E == (ledger.entries \ Incumbents(ledger, o)) \cup {o}
  <2>1. PICK i \in ledger.entries : i.key = o.key
    BY <1>4 DEF InsertKind, Incumbents
  <2>2. /\ ledger'.entries = E /\ ledger'.prefix = ledger.prefix
        /\ ledger'.mark = ledger.mark /\ ledger'.folded = ledger.folded
        /\ ledger' = [entries |-> ledger'.entries, prefix |-> ledger'.prefix,
                      mark |-> ledger'.mark, folded |-> ledger'.folded]
    BY <1>4 DEF WithEntries
  <2>3. IsEvidence(E)
    <3>1. ledger.entries \ Incumbents(ledger, o) \in SUBSET ledger.entries
      OBVIOUS
    <3>2. IsFiniteSet(ledger.entries \ Incumbents(ledger, o))
      BY <3>1, FS_Subset DEF RInv, IsEvidence
    <3>3. IsFiniteSet(E)
      BY <3>2, FS_AddElement
    <3> QED
      BY <3>3 DEF RInv, IsEvidence, Incumbents
  <2>4. \A f \in applied, e \in E : KeyLess(f.key, e.key)
    BY <2>1 DEF RInv
  <2> HIDE DEF E
  <2>5. IsEvidence(ledger.entries)' = IsEvidence(ledger'.entries)
    BY DEF IsEvidence
  <2>6. HighWater(ledger.prefix)' = HighWater(ledger.prefix)
    BY <2>2 DEF HighWater
  <2> QED
    BY <1>1, <2>2, <2>3, <2>4, <2>5, <2>6 DEF RInv
<1> QED
  BY <1>1, <1>2, <1>3, <1>4

\* persist_source and restore_locked: the fence lies at or above everything.
LEMMA RestartStep ==
  ASSUME RInv, Restart
  PROVE  /\ RInv'
         /\ \A p \in applied' \ applied, f \in applied : KeyLess(f.key, p.key)
<1> DEFINE E == ledger.entries
           st == FoldAll(ledger.prefix, E, TRUE)
           prefix == [st EXCEPT !.path = NoPath, !.restartGaps = 0]
           mark == [EmptyMark EXCEPT !.bound = HighWater(st)]
<1>1. /\ ledger' = [entries |-> {}, prefix |-> prefix, mark |-> mark,
                    folded |-> ledger.folded + Cardinality(E)]
      /\ applied' = applied \cup E
  BY DEF Restart, Restore, HighWater
<1>2. /\ IsEvidence(E) /\ ledger.prefix \in FoldStates
      /\ \A f \in applied, e \in E : KeyLess(f.key, e.key)
  BY DEF RInv
<1>3. /\ st \in FoldStates
      /\ E # {} => ~KeyLess(HighWater(st), Highest(E).key)
      /\ E = {} => st = ledger.prefix
  <2>1. TRUE \in BOOLEAN
    OBVIOUS
  <2>2. ASSUME NEW r \in BOOLEAN
        PROVE  /\ FoldAll(ledger.prefix, E, r) \in FoldStates
               /\ E # {} => ~KeyLess(HighWater(FoldAll(ledger.prefix, E, r)), Highest(E).key)
               /\ E = {} => FoldAll(ledger.prefix, E, r) = ledger.prefix
    BY <1>2, FoldAllType, FoldRecurs
  <2> QED
    BY <2>1, <2>2, Zenon
<1> HIDE DEF st
<1>4. prefix \in FoldStates /\ HighWater(prefix) = HighWater(st) /\ HighWater(st) \in AnyKey
  BY <1>3 DEF FoldStates, HighWater, AnyKey
<1>5. /\ mark.bound = HighWater(st)
      /\ mark = [bound |-> mark.bound, exact |-> mark.exact, low |-> mark.low,
                 bits |-> mark.bits]
  <2>1. ASSUME NEW t, NEW e
        PROVE  LET m == [[bound |-> ZeroKey, exact |-> e, low |-> 0, bits |-> {}]
                         EXCEPT !.bound = t]
               IN  /\ m.bound = t
                   /\ m = [bound |-> m.bound, exact |-> m.exact, low |-> m.low,
                           bits |-> m.bits]
    OBVIOUS
  <2> QED
    BY <2>1, Zenon DEF EmptyMark
<1> HIDE DEF prefix, mark
<1>6. /\ ledger'.entries = {} /\ ledger'.prefix = prefix /\ ledger'.mark = mark
      /\ ledger'.folded = ledger.folded + Cardinality(E)
      /\ ledger' = [entries |-> ledger'.entries, prefix |-> ledger'.prefix,
                    mark |-> ledger'.mark, folded |-> ledger'.folded]
      /\ mark.bound = HighWater(st)
      /\ mark = [bound |-> mark.bound, exact |-> mark.exact, low |-> mark.low,
                 bits |-> mark.bits]
  BY <1>1, <1>5
<1>7. ASSUME NEW f \in applied \cup E PROVE ~KeyLess(HighWater(st), f.key)
  <2>1. f \in Observations /\ f.key \in AnyKey
    BY <1>2, ObservationKeys DEF RInv, IsEvidence
  <2>2. CASE E = {}
    BY <1>3, <1>7, <2>2 DEF RInv
  <2>3. CASE E # {}
    <3> DEFINE h == Highest(E)
    <3>1. h \in E /\ \A p \in E \ {h} : KeyLess(p.key, h.key)
      BY <1>2, <2>3, HighestIsGreatest
    <3>2. h.key \in AnyKey
      BY <1>2, <3>1, ObservationKeys DEF IsEvidence
    <3>3. f.key = h.key \/ KeyLess(f.key, h.key)
      BY <1>2, <1>7, <3>1
    <3> HIDE DEF h
    <3>4. ~KeyLess(HighWater(st), h.key)
      BY <1>3, <2>3 DEF h
    <3> QED
      BY <1>4, <2>1, <3>2, <3>3, <3>4, AnyKeyOrder
  <2> QED
    BY <2>2, <2>3
<1>8. ledger'.folded \in Nat /\ (ledger'.folded = 0 => applied' = {})
  <2>1. IsFiniteSet(E) /\ Cardinality(E) \in Nat /\ ledger.folded \in Nat
    BY <1>2, FS_CardinalityType DEF IsEvidence, RInv
  <2>2. Cardinality(E) = 0 => E = {}
    BY <2>1, FS_EmptySet
  <2> QED
    BY <1>1, <1>6, <2>1, <2>2 DEF RInv
<1>9. IsEvidence({}) /\ applied' \subseteq Observations
  BY <1>1, <1>2, FS_EmptySet DEF IsEvidence, RInv
<1>10. IsEvidence(ledger.entries)' = IsEvidence(ledger'.entries)
  BY DEF IsEvidence
<1>11. HighWater(ledger.prefix)' = HighWater(ledger'.prefix)
  BY DEF HighWater
<1>12. RInv'
  BY <1>1, <1>4, <1>6, <1>7, <1>8, <1>9, <1>10, <1>11 DEF RInv
<1> QED
  BY <1>1, <1>2, <1>12

\* No delivery and no restart leads out of the invariant, and the accounting
\* only ever grows upwards in the canonical order.
LEMMA RestartInduction ==
  /\ RInit => RInv
  /\ RInv /\ [RNext]_rvars =>
       RInv' /\ \A o \in applied' \ applied, p \in applied : KeyLess(p.key, o.key)
<1> DEFINE InOrder == \A o \in applied' \ applied, p \in applied : KeyLess(p.key, o.key)
<1>1. RInit => RInv
  <2> SUFFICES ASSUME Init PROVE RInv
    BY DEF RInit
  <2>1. IInv
    BY InitEstablishes
  <2>2. /\ ledger = [entries |-> {}, prefix |-> EmptyFold, mark |-> EmptyMark, folded |-> 0]
        /\ applied = {}
    BY DEF Init, EmptyLedger
  <2>3. /\ ledger.entries = {} /\ ledger.prefix = EmptyFold /\ ledger.mark = EmptyMark
        /\ ledger.folded = 0
        /\ EmptyMark = [bound |-> EmptyMark.bound, exact |-> EmptyMark.exact,
                        low |-> EmptyMark.low, bits |-> EmptyMark.bits]
        /\ EmptyMark.bound \in AnyKey
    BY <2>2 DEF EmptyMark, AnyKey, ZeroKey
  <2>4. ledger.prefix \in FoldStates
    BY <2>1 DEF IInv, TypeOK, Ledgers
  <2>5. IsEvidence({})
    BY FS_EmptySet DEF IsEvidence
  <2> QED
    BY <2>2, <2>3, <2>4, <2>5 DEF RInv
<1>2. RInv /\ [RNext]_rvars => RInv' /\ InOrder
  <2> SUFFICES ASSUME RInv, [RNext]_rvars PROVE RInv' /\ InOrder
    OBVIOUS
  <2>1. CASE Restart
    BY <2>1, RestartStep
  <2>2. ASSUME NEW o \in Observations, Deliver(o) PROVE RInv' /\ InOrder
    <3>1. CASE InsertKind(ledger, o) = "Accepted"
      BY <2>2, <3>1, RestartedStore
    <3>2. CASE InsertKind(ledger, o) # "Accepted"
      BY <2>2, <3>2, RestartedReject
    <3> QED
      BY <3>1, <3>2
  <2>3. CASE UNCHANGED rvars
    BY <2>3 DEF rvars, RInv, IsEvidence, HighWater
  <2> QED
    BY <2>1, <2>2, <2>3 DEF RNext, DeliverBetweenRestarts
<1> QED
  BY <1>1, <1>2

\* The invariant across restarts holds in every reachable state.
THEOREM RestartInvariant == RSpec => []RInv
  BY RestartInduction, PTL DEF RSpec

\* A restart, and the deliveries before and after it, never account anything at
\* or below what the snapshot or the prefix already accounts: the fence that
\* restore_locked rebuilds keeps the evidence of the former run out.
THEOREM RestartCountsNothingTwice == RSpec => NothingCountedTwiceAcrossRestart
  BY RestartInduction, PTL DEF RSpec, NothingCountedTwiceAcrossRestart

\* What a snapshot records does not mention the two fields restore_locked drops.
LEMMA RecordedDropsTwo ==
  ASSUME NEW st \in FoldStates
  PROVE  Recorded([st EXCEPT !.path = NoPath, !.restartGaps = 0]) = Recorded(st)
<1> DEFINE new == [st EXCEPT !.path = NoPath, !.restartGaps = 0]
<1>1. DOMAIN new = DOMAIN st
  OBVIOUS
<1>2. \A f \in DOMAIN st \ {"path", "restartGaps"} : new[f] = st[f]
  OBVIOUS
<1> QED
  BY <1>1, <1>2, Zenon DEF Recorded

\* Under the default counter policy the restored ledger reports what the stopped
\* one reported, for everything persist_source writes.
THEOREM RestartKeepsAccounting ==
  ASSUME RegressionAsReset = TRUE
  PROVE  RSpec => SnapshotKeepsAccounting
<1>1. ASSUME RInv, Restart PROVE Recorded(View(ledger')) = Recorded(View(ledger))
  <2> DEFINE st == FoldAll(ledger.prefix, ledger.entries, TRUE)
             prefix == [st EXCEPT !.path = NoPath, !.restartGaps = 0]
  <2>1. ledger'.entries = {} /\ ledger'.prefix = prefix
    BY <1>1 DEF Restart, Restore
  <2>2. TRUE \in BOOLEAN /\ IsEvidence({})
    BY FS_EmptySet DEF IsEvidence
  <2>3. ASSUME NEW r \in BOOLEAN
        PROVE  /\ FoldAll(ledger.prefix, ledger.entries, r) \in FoldStates
               /\ FoldAll(prefix, {}, r) = prefix
    BY <1>1, <2>2, FoldAllType, FoldRecurs DEF RInv
  <2>4. st \in FoldStates /\ FoldAll(prefix, {}, TRUE) = prefix
    BY <2>2, <2>3, Zenon
  <2>5. View(ledger) = st
    BY Zenon DEF View
  <2>6. View(ledger') = FoldAll(prefix, {}, TRUE)
    BY <2>1, Zenon DEF View
  <2> HIDE DEF st
  <2> QED
    BY <2>4, <2>5, <2>6, RecordedDropsTwo
<1>2. ASSUME RInv, [RNext]_rvars
      PROVE  restarts' # restarts => Recorded(View(ledger')) = Recorded(View(ledger))
  BY <1>1, <1>2 DEF RNext, DeliverBetweenRestarts, rvars
<1>3. (Recorded(View(ledger)))' = Recorded(View(ledger'))
  BY DEF Recorded, View
<1> QED
  BY <1>2, RestartInvariant, PTL DEF RSpec, SnapshotKeepsAccounting

-----------------------------------------------------------------------------
(* The accounting against the evidence: the reference definition of module *)
(* Ledger, one highest observation at a time.                              *)

\* A set of evidence, its highest observation and what lies below it.
Grown(T, h, S) ==
  /\ IsEvidence(S) /\ h \in S /\ T = S \ {h}
  /\ \A p \in T : KeyLess(p.key, h.key)

Ended(T) == \E t \in T : t.kind \in Terminals

\* What apply_observation takes a reading from.
Counts(T, h, d) == ~Ended(T) /\ h.dir = d /\ h.count # NoReading

\* The readings of a direction in the run of a key, and the last of them.
InRun(T, d, k) == {p \in Readings(T, d) : p.key.inc = k.inc /\ p.key.epoch = k.epoch}

LastOf(B) == IF B = {} THEN NoReading ELSE Highest(B).count

\* The units that evidence accounts for, before the counter saturates.
Units(T, d) == Over([o \in Readings(T, d) |-> Gain(T, d, o)], Readings(T, d))

Capped(n) == IF n <= MaxCount THEN n ELSE MaxCount

\* An accumulator that stands for evidence, in the run of k.
Accounts(a, T, d, k, closed) ==
  /\ a.last = LastOf(InRun(T, d, k))
  /\ a.accumulated = Capped(Units(T, d)) /\ Units(T, d) \in Nat
  /\ a.unknown = Cardinality(Regressions(T, d)) + closed

\* The order of observations below a highest one.
LEMMA GrownFacts ==
  ASSUME NEW T, NEW h, NEW S, Grown(T, h, S)
  PROVE  /\ IsEvidence(T) /\ IsEvidence(S) /\ S = T \cup {h} /\ h \notin T
         /\ h \in Observations /\ T \subseteq Observations
         /\ \A p \in S : ~KeyLess(h.key, p.key) /\ p.key \in Keys
         /\ \A p \in T : KeyLess(p.key, h.key)
<1>1. T \in SUBSET S /\ IsEvidence(S) /\ S = T \cup {h} /\ h \notin T
  BY DEF Grown
<1>2. IsEvidence(T)
  BY <1>1, EvidenceSubset
<1>3. \A p \in T : KeyLess(p.key, h.key)
  BY DEF Grown
<1>4. \A p \in S : p \in Observations /\ p.key \in Keys
  BY <1>1, ObservationsAssumption DEF IsEvidence
<1>5. \A p \in S : ~KeyLess(h.key, p.key)
  BY <1>1, <1>3, <1>4, KeyOrder
<1> QED
  BY <1>1, <1>2, <1>3, <1>4, <1>5

\* Nothing is counted behind a terminal declaration.
LEMMA CountedGrows ==
  ASSUME NEW T, NEW h, NEW S, Grown(T, h, S)
  PROVE  /\ Counted(S) = IF Ended(T) THEN Counted(T) ELSE Counted(T) \cup {h}
         /\ Counted(T) \subseteq T
<1>1. /\ S = T \cup {h} /\ \A p \in S : ~KeyLess(h.key, p.key)
      /\ \A p \in T : KeyLess(p.key, h.key)
  BY GrownFacts
<1>2. \A o \in T : o \in Counted(S) <=> o \in Counted(T)
  BY <1>1 DEF Counted
<1>3. h \in Counted(S) <=> ~Ended(T)
  BY <1>1 DEF Counted, Ended
<1>4. Counted(S) \subseteq S /\ Counted(T) \subseteq T
  BY DEF Counted
<1>5. CASE Ended(T)
  BY <1>1, <1>2, <1>3, <1>4, <1>5
<1>6. CASE ~Ended(T)
  <2>1. Counted(S) = Counted(T) \cup {h}
    BY <1>1, <1>2, <1>3, <1>4, <1>6
  <2> QED
    BY <1>4, <1>6, <2>1
<1> QED
  BY <1>5, <1>6

\* The readings of a direction.
LEMMA ReadingsGrow ==
  ASSUME NEW T, NEW h, NEW S, Grown(T, h, S), NEW d
  PROVE  /\ Readings(S, d) = IF Counts(T, h, d) THEN Readings(T, d) \cup {h} ELSE Readings(T, d)
         /\ Readings(T, d) \subseteq T /\ h \notin Readings(T, d)
         /\ IsFiniteSet(Readings(T, d)) /\ IsFiniteSet(Readings(S, d))
         /\ \A o \in Readings(T, d) : o.count \in Nat
<1>1. /\ IsEvidence(T) /\ IsEvidence(S) /\ S = T \cup {h} /\ h \notin T /\ T \subseteq Observations
  BY GrownFacts
<1>2. /\ Counted(S) = IF Ended(T) THEN Counted(T) ELSE Counted(T) \cup {h}
      /\ Counted(T) \subseteq T
  BY CountedGrows
<1>3. Readings(T, d) \subseteq T
  BY <1>2 DEF Readings
<1>4. Readings(S, d) = IF Counts(T, h, d) THEN Readings(T, d) \cup {h} ELSE Readings(T, d)
  BY <1>1, <1>2 DEF Readings, Counts
<1>5. Readings(S, d) \subseteq S
  BY <1>1, <1>3, <1>4
<1>6. IsFiniteSet(Readings(T, d)) /\ IsFiniteSet(Readings(S, d))
  BY <1>1, <1>3, <1>5, FS_Subset DEF IsEvidence
<1>7. \A o \in Readings(T, d) : o.count \in Nat
  BY <1>1, <1>3, ObservationsAssumption DEF Readings
<1> QED
  BY <1>1, <1>3, <1>4, <1>6, <1>7

\* What lies before a reading does not change when a higher one arrives.
LEMMA BeforeGrows ==
  ASSUME NEW T, NEW h, NEW S, Grown(T, h, S), NEW d
  PROVE  /\ \A o \in Readings(T, d) : Before(S, d, o) = Before(T, d, o)
         /\ Before(S, d, h) = InRun(T, d, h.key)
<1>1. /\ S = T \cup {h} /\ \A p \in S : ~KeyLess(h.key, p.key)
      /\ \A p \in T : KeyLess(p.key, h.key)
  BY GrownFacts
<1>2. /\ Readings(S, d) = IF Counts(T, h, d) THEN Readings(T, d) \cup {h} ELSE Readings(T, d)
      /\ Readings(T, d) \subseteq T
  BY ReadingsGrow
<1>3. ASSUME NEW o \in Readings(T, d) PROVE Before(S, d, o) = Before(T, d, o)
  <2>1. ~KeyLess(h.key, o.key)
    BY <1>1, <1>2
  <2> QED
    BY <1>2, <2>1 DEF Before
<1>4. Before(S, d, h) = InRun(T, d, h.key)
  <2>1. ~KeyLess(h.key, h.key)
    BY <1>1
  <2>2. \A p \in Readings(T, d) : KeyLess(p.key, h.key)
    BY <1>1, <1>2
  <2> QED
    BY <1>2, <2>1, <2>2 DEF Before, InRun
<1> QED
  BY <1>3, <1>4

\* The last reading of a set of readings.
LEMMA LastIs ==
  ASSUME NEW B, IsEvidence(B), \A o \in B : o.count \in Nat
  PROVE  /\ LastOf(B) \in Nat \cup {NoReading}
         /\ LastOf(B) = NoReading <=> B = {}
         /\ B # {} => Highest(B) \in B /\ LastOf(B) = Highest(B).count
<1>1. CASE B = {}
  BY <1>1 DEF LastOf
<1>2. CASE B # {}
  <2>1. Highest(B) \in B
    BY <1>2, HighestIsGreatest
  <2> QED
    BY <1>2, <2>1 DEF LastOf, NoReading
<1> QED
  BY <1>1, <1>2

\* The readings of a run are evidence.
LEMMA InRunIsEvidence ==
  ASSUME NEW T, NEW h, NEW S, Grown(T, h, S), NEW d, NEW k
  PROVE  /\ IsEvidence(InRun(T, d, k)) /\ \A o \in InRun(T, d, k) : o.count \in Nat
         /\ InRun(T, d, k) \subseteq T
<1>1. Readings(T, d) \subseteq T /\ \A o \in Readings(T, d) : o.count \in Nat
  BY ReadingsGrow
<1>2. InRun(T, d, k) \in SUBSET T /\ InRun(T, d, k) \subseteq Readings(T, d)
  BY <1>1 DEF InRun
<1>3. IsEvidence(T)
  BY GrownFacts
<1> QED
  BY <1>1, <1>2, <1>3, EvidenceSubset

\* The last reading of the run is the one that arrived.
LEMMA LastGrows ==
  ASSUME NEW T, NEW h, NEW S, Grown(T, h, S), NEW d
  PROVE  LastOf(InRun(S, d, h.key))
           = IF Counts(T, h, d) THEN h.count ELSE LastOf(InRun(T, d, h.key))
<1>1. Readings(S, d) = IF Counts(T, h, d) THEN Readings(T, d) \cup {h} ELSE Readings(T, d)
  BY ReadingsGrow
<1>2. CASE ~Counts(T, h, d)
  <2>1. InRun(S, d, h.key) = InRun(T, d, h.key)
    BY <1>1, <1>2 DEF InRun
  <2> QED
    BY <1>2, <2>1
<1>3. CASE Counts(T, h, d)
  <2> DEFINE B == InRun(T, d, h.key)
             C == InRun(S, d, h.key)
  <2>1. C = B \cup {h}
    BY <1>1, <1>3 DEF InRun
  <2>2. B \subseteq T
    BY InRunIsEvidence
  <2> HIDE DEF B, C
  <2>3. /\ IsEvidence(S) /\ S = T \cup {h} /\ \A p \in T : KeyLess(p.key, h.key)
    BY GrownFacts
  <2>4. C \in SUBSET S
    BY <2>1, <2>2, <2>3
  <2>5. IsEvidence(C)
    BY <2>3, <2>4, EvidenceSubset
  <2>6. h \in C /\ \A p \in C \ {h} : KeyLess(p.key, h.key)
    BY <2>1, <2>2, <2>3
  <2>7. Highest(C) = h
    BY <2>5, <2>6, HighestIsUnique
  <2>8. LastOf(C) = h.count
    BY <2>6, <2>7 DEF LastOf
  <2> QED
    BY <1>3, <2>8 DEF C
<1> QED
  BY <1>2, <1>3

\* A reading adds what it gained on the last one of its run, and nothing else.
LEMMA UnitsGrow ==
  ASSUME NEW T, NEW h, NEW S, Grown(T, h, S), NEW d, NEW last, last = LastOf(InRun(T, d, h.key))
  PROVE  /\ Units(T, d) \in Nat /\ Units(S, d) \in Nat
         /\ ~Counts(T, h, d) => Units(S, d) = Units(T, d)
         /\ Counts(T, h, d) =>
              Units(S, d) = Units(T, d) + IF last = NoReading THEN 0 ELSE Larger(0, h.count - last)
<1> DEFINE R == Readings(T, d)
           Q == Readings(S, d)
           f == [o \in R |-> Gain(T, d, o)]
           g == [o \in Q |-> Gain(S, d, o)]
           B == InRun(T, d, h.key)
<1>1. /\ Q = IF Counts(T, h, d) THEN R \cup {h} ELSE R
      /\ R \subseteq T /\ h \notin R /\ IsFiniteSet(R) /\ IsFiniteSet(Q)
      /\ \A o \in R : o.count \in Nat
  BY ReadingsGrow
<1>2. /\ \A o \in R : Before(S, d, o) = Before(T, d, o)
      /\ Before(S, d, h) = B
  BY BeforeGrows
<1>3. IsEvidence(B) /\ \A o \in B : o.count \in Nat
  BY InRunIsEvidence
<1>4. /\ last \in Nat \cup {NoReading} /\ (last = NoReading <=> B = {})
      /\ B # {} => last = Highest(B).count
  <2> HIDE DEF B
  <2> QED
    BY <1>3, LastIs DEF B
<1>5. \A o \in R : Gain(S, d, o) = Gain(T, d, o)
  BY <1>2 DEF Gain
<1>6. ASSUME NEW o \in R PROVE Gain(T, d, o) \in Nat
  <2> DEFINE P == Before(T, d, o)
  <2>1. P \in SUBSET T /\ P \subseteq R /\ IsEvidence(T)
    BY <1>1, GrownFacts DEF Before
  <2> HIDE DEF P
  <2>2. IsEvidence(P)
    BY <2>1, EvidenceSubset
  <2>3. P # {} => Highest(P) \in P
    BY <2>2, HighestIsGreatest
  <2>4. Gain(T, d, o) = IF P = {} THEN 0 ELSE Larger(0, o.count - Highest(P).count)
    BY DEF Gain, P
  <2>5. P # {} => Highest(P).count \in Nat
    BY <1>1, <2>1, <2>3
  <2>6. o.count \in Nat
    BY <1>1
  <2> QED
    BY <2>4, <2>5, <2>6 DEF Larger
<1>7. Gain(S, d, h) = IF last = NoReading THEN 0 ELSE Larger(0, h.count - last)
  BY <1>2, <1>4 DEF Gain
<1>8. Counts(T, h, d) => Gain(S, d, h) \in Nat
  <2>1. Counts(T, h, d) => h.count \in Nat
    BY GrownFacts, ObservationsAssumption DEF Counts
  <2> QED
    BY <1>4, <1>7, <2>1 DEF Larger
<1>9. /\ \A o \in R : f[o] \in Nat /\ f[o] = g[o]
      /\ \A o \in Q : g[o] \in Nat
      /\ Counts(T, h, d) => g[h] = Gain(S, d, h) /\ h \in Q /\ Q \ {h} = R
      /\ ~Counts(T, h, d) => Q = R
  BY <1>1, <1>5, <1>6, <1>8
<1>10. Units(T, d) = Over(f, R) /\ Units(S, d) = Over(g, Q)
  BY DEF Units
<1> HIDE DEF f, g, R, Q
<1>11. Over(f, R) \in Nat /\ Over(g, Q) \in Nat
  BY <1>1, <1>9, OverRemove
<1>12. Over(f, R) = Over(g, R)
  BY <1>1, <1>9, OverAgrees
<1>13. \A o \in Q : Over(g, Q) = g[o] + Over(g, Q \ {o})
  BY <1>1, <1>9, OverRemove
<1>14. CASE Counts(T, h, d)
  <2>1. Over(g, Q) = g[h] + Over(g, R)
    BY <1>9, <1>13, <1>14
  <2>2. Units(S, d) = Units(T, d) + Gain(S, d, h)
    BY <1>8, <1>9, <1>10, <1>11, <1>12, <1>14, <2>1
  <2> QED
    BY <1>7, <1>10, <1>11, <1>14, <2>2
<1>15. CASE ~Counts(T, h, d)
  BY <1>9, <1>10, <1>11, <1>12, <1>15
<1> QED
  BY <1>14, <1>15

\* A reading below the last one of its run is one more regression.
LEMMA RegressionsGrow ==
  ASSUME NEW T, NEW h, NEW S, Grown(T, h, S), NEW d, NEW last, last = LastOf(InRun(T, d, h.key))
  PROVE  /\ Cardinality(Regressions(T, d)) \in Nat
         /\ Cardinality(Regressions(S, d)) = Cardinality(Regressions(T, d)) +
              IF Counts(T, h, d) /\ last # NoReading /\ h.count < last THEN 1 ELSE 0
<1> DEFINE more == Counts(T, h, d) /\ last # NoReading /\ h.count < last
           R == Regressions(T, d)
           Q == Regressions(S, d)
           B == InRun(T, d, h.key)
<1>1. /\ Readings(S, d) = IF Counts(T, h, d) THEN Readings(T, d) \cup {h} ELSE Readings(T, d)
      /\ IsFiniteSet(Readings(T, d)) /\ h \notin Readings(T, d)
  BY ReadingsGrow
<1>2. /\ \A o \in Readings(T, d) : Before(S, d, o) = Before(T, d, o)
      /\ Before(S, d, h) = B
  BY BeforeGrows
<1>3. /\ last = NoReading <=> B = {}
      /\ B # {} => last = Highest(B).count
  <2>1. IsEvidence(B) /\ \A o \in B : o.count \in Nat
    BY InRunIsEvidence
  <2> HIDE DEF B
  <2> QED
    BY <2>1, LastIs DEF B
<1>4. \A o \in Readings(T, d) : Regresses(S, d, o) <=> Regresses(T, d, o)
  BY <1>2 DEF Regresses
<1>5. Counts(T, h, d) => (Regresses(S, d, h) <=> more)
  BY <1>2, <1>3 DEF Regresses
<1>6. IsFiniteSet(R) /\ h \notin R /\ Cardinality(R) \in Nat
  <2>1. R \in SUBSET Readings(T, d)
    BY DEF Regressions
  <2> QED
    BY <1>1, <2>1, FS_Subset, FS_CardinalityType
<1>7. Q = IF more THEN R \cup {h} ELSE R
  <2>1. \A o \in Readings(T, d) : o \in Q <=> o \in R
    BY <1>1, <1>4 DEF Regressions
  <2>2. h \in Q <=> more
    BY <1>1, <1>5 DEF Regressions
  <2>3. Q \subseteq Readings(T, d) \cup {h} /\ R \subseteq Readings(T, d)
    BY <1>1 DEF Regressions
  <2> HIDE DEF more, Q, R
  <2>4. CASE more
    BY <2>1, <2>2, <2>3, <2>4
  <2>5. CASE ~more
    BY <2>1, <2>2, <2>3, <2>5
  <2> QED
    BY <2>4, <2>5
<1> HIDE DEF R, Q, more
<1>8. CASE more
  <2>1. Cardinality(R \cup {h}) = Cardinality(R) + 1
    BY <1>6, FS_AddElement
  <2> QED
    BY <1>6, <1>7, <1>8, <2>1 DEF R, Q, more
<1>9. CASE ~more
  BY <1>6, <1>7, <1>9 DEF R, Q, more
<1> QED
  BY <1>8, <1>9

\* A reading closes no run on its own, and evidence of another run closes the
\* run of the highest observation, if that has a reading.
LEMMA ClosedGrows ==
  ASSUME NEW T, NEW h, NEW S, Grown(T, h, S), NEW d
  PROVE  /\ Cardinality(ClosedRuns(T, d)) \in Nat /\ Cardinality(ClosedRuns(S, d)) \in Nat
         /\ T = {} => Cardinality(ClosedRuns(S, d)) = 0 /\ InRun(T, d, h.key) = {}
         /\ T # {} /\ Run(Highest(T)) = Run(h) =>
              /\ ClosedRuns(S, d) = ClosedRuns(T, d)
              /\ InRun(T, d, h.key) = InRun(T, d, Highest(T).key)
         /\ T # {} /\ Run(Highest(T)) # Run(h) =>
              /\ InRun(T, d, h.key) = {}
              /\ Cardinality(ClosedRuns(S, d)) = Cardinality(ClosedRuns(T, d)) +
                   IF InRun(T, d, Highest(T).key) = {} THEN 0 ELSE 1
<1> DEFINE R == Readings(T, d)
           m == Highest(T)
           Closed(r, V) == \E n \in V : KeyLess(r.key, n.key) /\ Run(n) # Run(r)
           C == {Run(r) : r \in {q \in R : Closed(q, T)}}
           D == {Run(r) : r \in {q \in R : Closed(q, S)}}
<1>0. \A a, b : Run(a) = Run(b) <=> a.key.inc = b.key.inc /\ a.key.epoch = b.key.epoch
  BY DEF Run
<1>1. /\ IsEvidence(T) /\ S = T \cup {h} /\ \A p \in S : ~KeyLess(h.key, p.key) /\ p.key \in Keys
      /\ \A p \in T : KeyLess(p.key, h.key)
  BY GrownFacts
<1>2. /\ Readings(S, d) = R \/ Readings(S, d) = R \cup {h}
      /\ R \subseteq T /\ IsFiniteSet(R)
  BY ReadingsGrow
<1>3. T # {} => m \in T /\ \A p \in T : p = m \/ KeyLess(p.key, m.key)
  BY <1>1, HighestIsGreatest
<1>4. ClosedRuns(T, d) = C
  BY Zenon DEF ClosedRuns
<1>5. ClosedRuns(S, d) = D
  <2>1. ~Closed(h, S)
    BY <1>1
  <2>2. {q \in Readings(S, d) : Closed(q, S)} = {q \in R : Closed(q, S)}
    <3> HIDE DEF Closed
    <3> QED
      BY <1>2, <2>1
  <2> QED
    BY <2>2, Zenon DEF ClosedRuns
<1>6. IsFiniteSet(C) /\ Cardinality(C) \in Nat /\ Cardinality(D) \in Nat
  <2> DEFINE f == [r \in R |-> Run(r)]
             P == {q \in R : Closed(q, T)}
             Q == {q \in R : Closed(q, S)}
  <2>1. IsFiniteSet(P) /\ IsFiniteSet(Q)
    BY <1>2, FS_Subset
  <2>2. C = {f[r] : r \in P} /\ D = {f[r] : r \in Q}
    OBVIOUS
  <2> HIDE DEF f, P, Q, C, D
  <2>3. IsFiniteSet({f[r] : r \in P}) /\ IsFiniteSet({f[r] : r \in Q})
    BY <2>1, ImageIsFinite
  <2> QED
    BY <2>2, <2>3, FS_CardinalityType
<1> HIDE DEF m
<1>7. ASSUME T = {}
      PROVE  Cardinality(ClosedRuns(S, d)) = 0 /\ InRun(T, d, h.key) = {}
  <2>1. R = {}
    BY <1>2, <1>7
  <2>2. D = {} /\ InRun(T, d, h.key) = {}
    BY <2>1 DEF InRun
  <2> HIDE DEF D
  <2> QED
    BY <1>5, <2>2, FS_EmptySet
<1>8. ASSUME T # {}, NEW r \in R
      PROVE  /\ Closed(r, T) <=> Run(r) # Run(m)
             /\ Closed(r, S) <=> Run(r) # Run(m) \/ Run(r) # Run(h)
             /\ Run(r) = Run(h) => Run(m) = Run(h)
  <2>1. /\ r \in T /\ m \in T /\ r.key \in Keys /\ m.key \in Keys /\ h.key \in Keys
        /\ r = m \/ KeyLess(r.key, m.key)
        /\ KeyLess(r.key, h.key) /\ KeyLess(m.key, h.key)
    BY <1>1, <1>2, <1>3, <1>8
  <2>2. Run(r) # Run(m) => KeyLess(r.key, m.key)
    BY <2>1
  <2>3. ASSUME NEW n \in T, KeyLess(r.key, n.key), Run(n) # Run(r) PROVE Run(r) # Run(m)
    <3>1. n.key \in Keys /\ (n = m \/ KeyLess(n.key, m.key))
      BY <1>1, <1>3, <1>8
    <3> QED
      BY <1>0, <2>1, <2>3, <3>1 DEF KeyLess, Keys
  <2>4. Closed(r, T) <=> Run(r) # Run(m)
    BY <2>1, <2>2, <2>3
  <2>5. Closed(r, S) <=> Closed(r, T) \/ (KeyLess(r.key, h.key) /\ Run(h) # Run(r))
    BY <1>1
  <2>6. Run(r) = Run(h) => Run(m) = Run(h)
    BY <1>0, <2>1 DEF KeyLess, Keys
  <2> HIDE DEF Closed
  <2> QED
    BY <2>1, <2>4, <2>5, <2>6
<1>9. ASSUME T # {}, Run(m) = Run(h)
      PROVE  ClosedRuns(S, d) = ClosedRuns(T, d) /\ InRun(T, d, h.key) = InRun(T, d, m.key)
  <2>1. \A r \in R : Closed(r, S) <=> Closed(r, T)
    BY <1>8, <1>9
  <2>2. InRun(T, d, h.key) = InRun(T, d, m.key)
    BY <1>0, <1>9 DEF InRun
  <2> HIDE DEF Closed
  <2>3. {q \in R : Closed(q, S)} = {q \in R : Closed(q, T)}
    BY <2>1
  <2> QED
    BY <1>4, <1>5, <2>2, <2>3
<1>10. ASSUME T # {}, Run(m) # Run(h)
       PROVE  /\ InRun(T, d, h.key) = {}
              /\ Cardinality(ClosedRuns(S, d)) = Cardinality(ClosedRuns(T, d)) +
                   IF InRun(T, d, m.key) = {} THEN 0 ELSE 1
  <2>1. \A r \in R : Run(r) # Run(h) /\ Closed(r, S) /\ (Closed(r, T) <=> Run(r) # Run(m))
    BY <1>8, <1>10
  <2>2. InRun(T, d, h.key) = {}
    BY <1>0, <2>1 DEF InRun
  <2>3. InRun(T, d, m.key) = {r \in R : Run(r) = Run(m)}
    BY <1>0 DEF InRun
  <2> HIDE DEF Closed
  <2>4. Run(m) \notin C
    BY <2>1
  <2>5. CASE InRun(T, d, m.key) = {}
    <3>1. \A r \in R : Run(r) # Run(m)
      BY <2>3, <2>5
    <3>2. {q \in R : Closed(q, S)} = {q \in R : Closed(q, T)}
      BY <2>1, <3>1
    <3>3. ClosedRuns(S, d) = ClosedRuns(T, d)
      BY <1>4, <1>5, <3>2
    <3> QED
      BY <1>4, <1>6, <2>2, <2>5, <3>3
  <2>6. CASE InRun(T, d, m.key) # {}
    <3>1. PICK r \in R : Run(r) = Run(m)
      BY <2>3, <2>6
    <3>2. D = C \cup {Run(m)}
      <4>1. ASSUME NEW x \in D PROVE x \in C \cup {Run(m)}
        BY <2>1
      <4>2. ASSUME NEW x \in C PROVE x \in D
        BY <2>1
      <4>3. Run(m) \in D
        BY <2>1, <3>1
      <4> HIDE DEF C, D
      <4> QED
        BY <4>1, <4>2, <4>3
    <3> HIDE DEF C, D
    <3>3. Cardinality(C \cup {Run(m)}) = Cardinality(C) + 1
      BY <1>6, <2>4, FS_AddElement
    <3> QED
      BY <1>4, <1>5, <2>2, <2>6, <3>2, <3>3
  <2> QED
    BY <2>5, <2>6
<1> QED
  BY <1>4, <1>5, <1>6, <1>7, <1>9, <1>10 DEF m

\* A reading v that takes an accumulator with u units from a to b.
Observing(a, v, u, b) ==
  /\ a \in Accumulator /\ v \in Nat /\ u \in Nat /\ a.accumulated = Capped(u)
  /\ b = Observe(a, v, TRUE)

Observed(a, v, u, b) ==
  /\ b.last = v
  /\ b.accumulated = Capped(u + IF a.last = NoReading THEN 0 ELSE Larger(0, v - a.last))
  /\ b.unknown = a.unknown + IF a.last # NoReading /\ v < a.last THEN 1 ELSE 0

\* CounterAccumulator::observe under the default policy: it adds the increase
\* over the last reading up to the largest count, and a decrease is a restart.
LEMMA ObserveAdds ==
  ASSUME NEW a, NEW v, NEW u, NEW b, Observing(a, v, u, b)
  PROVE  Observed(a, v, u, b)
<1> SUFFICES /\ b.last = v
             /\ b.accumulated = Capped(u + IF a.last = NoReading THEN 0 ELSE Larger(0, v - a.last))
             /\ b.unknown = a.unknown + IF a.last # NoReading /\ v < a.last THEN 1 ELSE 0
  BY DEF Observed
<1> DEFINE out == ObserveOutcome(a, v, TRUE)
           gain == IF a.last = NoReading THEN 0 ELSE Larger(0, v - a.last)
           lost == IF a.last # NoReading /\ v < a.last THEN 1 ELSE 0
<1>1. /\ a.last \in Nat \cup {NoReading} /\ a.accumulated \in Nat /\ a.unknown \in Nat
      /\ MaxCount \in Nat /\ v \in Nat /\ u \in Nat /\ a.accumulated = Capped(u)
      /\ NoReading \notin Nat
  BY MaxCountAssumption DEF Observing, Accumulator, NoReading
<1>2. /\ b.last = IF out \in {"Unchanged", "Held"} THEN a.last ELSE v
      /\ b.accumulated = IF out = "Advanced" THEN a.accumulated + (v - a.last)
                         ELSE IF out = "Saturated" THEN MaxCount ELSE a.accumulated
      /\ b.unknown = a.unknown + (IF out = "Regressed" THEN 1 ELSE 0)
  BY DEF Observing, Observe
<1>3. CASE a.last = NoReading
  <2>1. out = "BaselineEstablished"
    BY <1>3 DEF ObserveOutcome
  <2>2. gain = 0 /\ lost = 0
    BY <1>3
  <2> HIDE DEF out, gain, lost
  <2>3. b.last = v /\ b.accumulated = Capped(u + gain) /\ b.unknown = a.unknown + lost
    BY ONLY <1>1, <1>2, <2>1, <2>2
  <2> QED
    BY <2>3 DEF gain, lost
<1>4. CASE a.last # NoReading /\ v > a.last
  <2>1. a.last \in Nat /\ gain = v - a.last /\ lost = 0
    BY <1>1, <1>4 DEF Larger
  <2>2. CASE a.accumulated + (v - a.last) > MaxCount
    <3>1. out = "Saturated"
      BY <1>1, <1>4, <2>2 DEF ObserveOutcome
    <3> HIDE DEF out, gain, lost
    <3>2. b.last = v /\ b.accumulated = Capped(u + gain) /\ b.unknown = a.unknown + lost
      BY ONLY <1>1, <1>2, <1>4, <2>1, <2>2, <3>1 DEF Capped
    <3> QED
      BY <3>2 DEF gain, lost
  <2>3. CASE ~(a.accumulated + (v - a.last) > MaxCount)
    <3>1. out = "Advanced"
      BY <1>1, <1>4, <2>3 DEF ObserveOutcome
    <3> HIDE DEF out, gain, lost
    <3>2. b.last = v /\ b.accumulated = Capped(u + gain) /\ b.unknown = a.unknown + lost
      BY ONLY <1>1, <1>2, <1>4, <2>1, <2>3, <3>1 DEF Capped
    <3> QED
      BY <3>2 DEF gain, lost
  <2> QED
    BY <2>2, <2>3
<1>5. CASE a.last # NoReading /\ v = a.last
  <2>1. out = "Unchanged"
    BY <1>1, <1>5 DEF ObserveOutcome
  <2>2. gain = 0 /\ lost = 0
    BY <1>1, <1>5 DEF Larger
  <2> HIDE DEF out, gain, lost
  <2>3. b.last = v /\ b.accumulated = Capped(u + gain) /\ b.unknown = a.unknown + lost
    BY ONLY <1>1, <1>2, <1>5, <2>1, <2>2
  <2> QED
    BY <2>3 DEF gain, lost
<1>6. CASE a.last # NoReading /\ v < a.last
  <2>1. out = "Regressed"
    BY <1>1, <1>6 DEF ObserveOutcome
  <2>2. gain = 0 /\ lost = 1
    BY <1>1, <1>6 DEF Larger
  <2> HIDE DEF out, gain, lost
  <2>3. b.last = v /\ b.accumulated = Capped(u + gain) /\ b.unknown = a.unknown + lost
    BY ONLY <1>1, <1>2, <2>1, <2>2
  <2> QED
    BY <2>3 DEF gain, lost
<1>7. a.last = NoReading \/ (a.last # NoReading /\ (v > a.last \/ v = a.last \/ v < a.last))
  BY <1>1
<1> QED
  BY <1>3, <1>4, <1>5, <1>6, <1>7

\* What a fold of evidence reports is what the evidence accounts for.
Reported(T) ==
  LET st == FoldAll(EmptyFold, T, TRUE) IN
  /\ st \in FoldStates
  /\ st.terminal # "none" <=> Ended(T)
  /\ IF T = {} THEN st.inc = 0
     ELSE st.inc = Highest(T).key.inc /\ st.epoch = Highest(T).key.epoch
  /\ \A d \in Directions :
       Accounts(st.acct[d], T, d, [inc |-> st.inc, epoch |-> st.epoch],
                Cardinality(ClosedRuns(T, d)))

\* The fold of T behind the fences for h.
Fenced(T, h, S, d, st, fenced) ==
  /\ fenced \in FoldStates /\ fenced.terminal = st.terminal
  /\ fenced.inc = h.key.inc /\ fenced.epoch = h.key.epoch
  /\ Accounts(fenced.acct[d], T, d, h.key, Cardinality(ClosedRuns(S, d)))

\* The fences of apply_observation: in a new run nothing is carried over from the
\* last reading, and a reading that is left behind opens one unknown interval.
LEMMA FencesAccount ==
  ASSUME NEW T, NEW h, NEW S, Grown(T, h, S), Reported(T), NEW d \in Directions,
         NEW st, st = FoldAll(EmptyFold, T, TRUE), NEW fenced, fenced = CrossFences(st, h)
  PROVE  Fenced(T, h, S, d, st, fenced)
<1> SUFFICES /\ fenced \in FoldStates /\ fenced.terminal = st.terminal
             /\ fenced.inc = h.key.inc /\ fenced.epoch = h.key.epoch
             /\ Accounts(fenced.acct[d], T, d, h.key, Cardinality(ClosedRuns(S, d)))
  BY DEF Fenced
<1> DEFINE k == [inc |-> st.inc, epoch |-> st.epoch]
           a == st.acct[d]
           b == fenced.acct[d]
           broken == \/ h.key.inc # st.inc /\ st.inc # 0
                     \/ h.key.inc = st.inc /\ h.key.epoch # st.epoch
           c == Cardinality(ClosedRuns(T, d))
           e == Cardinality(ClosedRuns(S, d))
<1>1. /\ st \in FoldStates
      /\ IF T = {} THEN st.inc = 0
         ELSE st.inc = Highest(T).key.inc /\ st.epoch = Highest(T).key.epoch
      /\ Accounts(a, T, d, k, c)
  BY DEF Reported
<1>2. h \in Observations /\ h.key \in Keys /\ T \subseteq Observations /\ IsEvidence(T)
  BY GrownFacts, ObservationsAssumption
<1>3. fenced \in FoldStates
  BY <1>1, <1>2, CrossFencesType
<1>4. /\ fenced.terminal = st.terminal
      /\ fenced.inc = h.key.inc /\ fenced.epoch = h.key.epoch
      /\ fenced.acct = IF broken THEN BreakInterval(st.acct) ELSE st.acct
  BY <1>1 DEF CrossFences, FoldStates
<1>5. a \in Accumulator /\ b = IF broken THEN StartNewInterval(a) ELSE a
  <2>1. st.acct \in [Directions -> Accumulator]
    BY <1>1 DEF FoldStates
  <2>2. BreakInterval(st.acct)[d] = StartNewInterval(st.acct[d])
    BY <2>1 DEF BreakInterval
  <2>3. CASE broken
    BY <1>4, <2>1, <2>2, <2>3
  <2>4. CASE ~broken
    BY <1>4, <2>1, <2>4
  <2> QED
    BY <2>3, <2>4
<1>6. /\ c \in Nat
      /\ T = {} => e = 0 /\ InRun(T, d, h.key) = {}
      /\ T # {} /\ Run(Highest(T)) = Run(h) =>
           e = c /\ InRun(T, d, h.key) = InRun(T, d, Highest(T).key)
      /\ T # {} /\ Run(Highest(T)) # Run(h) =>
           /\ InRun(T, d, h.key) = {}
           /\ e = c + IF InRun(T, d, Highest(T).key) = {} THEN 0 ELSE 1
  BY ONLY Grown(T, h, S), ClosedGrows
<1>7. T # {} => InRun(T, d, k) = InRun(T, d, Highest(T).key)
  BY <1>1 DEF InRun
<1>8. T # {} => Highest(T).key \in Keys
  BY <1>2, HighestIsGreatest, ObservationsAssumption DEF IsEvidence
<1>9. /\ broken <=> T # {} /\ Run(Highest(T)) # Run(h)
  BY <1>1, <1>2, <1>8 DEF Run, Keys
<1>10. /\ LastOf(InRun(T, d, k)) = NoReading <=> InRun(T, d, k) = {}
       /\ LastOf({}) = NoReading
  <2> DEFINE B == InRun(T, d, k)
  <2>1. IsEvidence(B) /\ \A o \in B : o.count \in Nat
    BY InRunIsEvidence
  <2> HIDE DEF B
  <2>2. LastOf(B) = NoReading <=> B = {}
    BY <2>1, LastIs
  <2> QED
    BY <2>2 DEF B, LastOf
<1>11. /\ a.last = LastOf(InRun(T, d, k))
       /\ a.accumulated = Capped(Units(T, d)) /\ Units(T, d) \in Nat
       /\ a.unknown = Cardinality(Regressions(T, d)) + c
  BY <1>1 DEF Accounts
<1>12. Cardinality(Regressions(T, d)) \in Nat
  BY RegressionsGrow
<1>13. T = {} => c = 0 /\ InRun(T, d, k) = {}
  <2> SUFFICES ASSUME T = {} PROVE c = 0 /\ InRun(T, d, k) = {}
    OBVIOUS
  <2>1. Readings(T, d) = {}
    BY ReadingsGrow
  <2>2. ClosedRuns(T, d) = {} /\ InRun(T, d, k) = {}
    BY <2>1 DEF ClosedRuns, InRun
  <2> QED
    BY <2>2, FS_EmptySet
<1> HIDE DEF a, b, c, e, broken, k
<1>14. CASE broken
  <2>1. T # {} /\ Run(Highest(T)) # Run(h)
    BY <1>9, <1>14
  <2>2. /\ b.last = NoReading /\ b.accumulated = a.accumulated
        /\ b.unknown = IF a.last = NoReading THEN a.unknown ELSE a.unknown + 1
    BY <1>5, <1>14 DEF StartNewInterval, Accumulator
  <2>3. LastOf(InRun(T, d, h.key)) = NoReading
    BY <1>6, <1>10, <2>1
  <2>4. a.last = NoReading <=> InRun(T, d, Highest(T).key) = {}
    BY <1>7, <1>10, <1>11, <2>1
  <2>5. e = c + IF InRun(T, d, Highest(T).key) = {} THEN 0 ELSE 1
    BY <1>6, <2>1
  <2>6. b.unknown = Cardinality(Regressions(T, d)) + e
    BY <1>6, <1>11, <1>12, <2>2, <2>4, <2>5
  <2>7. Accounts(b, T, d, h.key, e)
    BY <1>11, <2>2, <2>3, <2>6 DEF Accounts
  <2> QED
    BY <1>3, <1>4, <2>7 DEF b, e
<1>15. CASE ~broken
  <2>1. b = a
    BY <1>5, <1>15
  <2>2. InRun(T, d, h.key) = InRun(T, d, k) /\ e = c
    BY <1>6, <1>7, <1>9, <1>13, <1>15
  <2>3. Accounts(b, T, d, h.key, e)
    BY <1>11, <2>1, <2>2 DEF Accounts
  <2> QED
    BY <1>3, <1>4, <2>3 DEF b, e
<1> QED
  BY <1>14, <1>15

\* apply_observation accounts for one more observation.
LEMMA ReportedGrows ==
  ASSUME NEW T, NEW h, NEW S, Grown(T, h, S), Reported(T)
  PROVE  Reported(S)
<1> DEFINE st == FoldAll(EmptyFold, T, TRUE)
           fenced == CrossFences(st, h)
           new == ApplyObservation(st, h, TRUE)
<1>1. /\ IsEvidence(T) /\ IsEvidence(S) /\ S = T \cup {h} /\ h \in Observations
      /\ \A p \in T : KeyLess(p.key, h.key)
  BY GrownFacts
<1>2. Highest(S) = h /\ S # {} /\ S \ {h} = T
  <2>1. \A p \in S \ {h} : KeyLess(p.key, h.key)
    BY <1>1
  <2>2. h \in S /\ S \ {h} = T
    BY DEF Grown
  <2> QED
    BY <1>1, <2>1, <2>2, HighestIsUnique
<1>3. FoldAll(EmptyFold, S, TRUE) = new
  <2>1. ASSUME NEW r
        PROVE  FoldAll(EmptyFold, S, r) = ApplyObservation(FoldAll(EmptyFold, T, r), h, r)
    BY <1>1, <1>2, FoldRecurs
  <2> QED
    BY <2>1, Zenon
<1>4. st \in FoldStates /\ (st.terminal # "none" <=> Ended(T))
  BY DEF Reported
<1>5. ASSUME NEW d \in Directions
      PROVE  Fenced(T, h, S, d, st, fenced)
  <2>1. PICK s : s = FoldAll(EmptyFold, T, TRUE)
    BY Zenon
  <2>2. PICK f : f = CrossFences(s, h)
    BY Zenon
  <2>3. Fenced(T, h, S, d, s, f)
    BY ONLY <2>1, <2>2, d \in Directions, Grown(T, h, S), Reported(T), FencesAccount
  <2>4. s = st /\ f = fenced
    BY <2>1, <2>2, Zenon
  <2> QED
    BY <2>3, <2>4, Zenon
<1>6. /\ fenced \in FoldStates /\ fenced.terminal = st.terminal
      /\ fenced.inc = h.key.inc /\ fenced.epoch = h.key.epoch
      /\ \A d \in Directions :
           Accounts(fenced.acct[d], T, d, h.key, Cardinality(ClosedRuns(S, d)))
  <2>1. "forward" \in Directions
    BY DEF Directions
  <2> HIDE DEF fenced, st
  <2> QED
    BY <1>5, <2>1 DEF Fenced
<1>7. h.dir \in Directions /\ h.count \in Nat \cup {NoReading}
  BY <1>1, ObservationsAssumption
<1> HIDE DEF st
<1>8. new = IF fenced.terminal # "none" THEN [fenced EXCEPT !.afterTerminal = fenced.afterTerminal + 1]
            ELSE RecordEvidence(fenced, h, TRUE)
  BY DEF ApplyObservation
<1> HIDE DEF fenced, new
<1>9. new \in FoldStates
  <2>1. ASSUME NEW r \in BOOLEAN PROVE ApplyObservation(st, h, r) \in FoldStates
    BY <1>1, <1>4, ApplyObservationType
  <2> QED
    BY <2>1, Zenon DEF new
<1>10. new.inc = h.key.inc /\ new.epoch = h.key.epoch
  BY <1>6, <1>8 DEF RecordEvidence, FoldStates
<1>11. new.terminal # "none" <=> Ended(S)
  <2>1. Ended(S) <=> Ended(T) \/ h.kind \in Terminals
    BY <1>1 DEF Ended
  <2>2. CASE fenced.terminal # "none"
    <3>1. new.terminal = fenced.terminal
      BY <1>6, <1>8, <2>2 DEF FoldStates
    <3> QED
      BY <1>4, <1>6, <2>1, <2>2, <3>1
  <2>3. CASE fenced.terminal = "none"
    <3>1. new.terminal = CASE h.kind = "Close" -> "Completed"
                           [] h.kind = "Reset" -> "Reset"
                           [] OTHER            -> fenced.terminal
      BY <1>6, <1>8, <2>3 DEF RecordEvidence, FoldStates
    <3> QED
      BY <1>4, <1>6, <2>1, <2>3, <3>1 DEF Terminals
  <2> QED
    BY <2>2, <2>3
<1>12. ASSUME NEW d \in Directions
       PROVE  new.acct[d] = IF Counts(T, h, d) THEN Observe(fenced.acct[d], h.count, TRUE)
                            ELSE fenced.acct[d]
  <2>1. CASE fenced.terminal # "none"
    <3>1. new.acct = fenced.acct
      BY <1>6, <1>8, <2>1 DEF FoldStates
    <3>2. ~Counts(T, h, d)
      BY <1>4, <1>6, <2>1 DEF Counts
    <3> QED
      BY <3>1, <3>2
  <2>2. CASE fenced.terminal = "none"
    <3> DEFINE acct == [fenced.acct EXCEPT ![h.dir] =
                          IF h.count = NoReading THEN fenced.acct[h.dir]
                          ELSE Observe(fenced.acct[h.dir], h.count, TRUE)]
    <3>1. new = RecordEvidence(fenced, h, TRUE)
      BY <1>8, <2>2
    <3>2. new.acct = acct
      BY <1>6, <3>1 DEF RecordEvidence, FoldStates
    <3>3. acct[d] = IF d = h.dir /\ h.count # NoReading
                    THEN Observe(fenced.acct[d], h.count, TRUE) ELSE fenced.acct[d]
      BY <1>6, <1>7 DEF FoldStates
    <3>4. Counts(T, h, d) <=> d = h.dir /\ h.count # NoReading
      BY <1>4, <1>6, <2>2 DEF Counts
    <3> QED
      BY <3>2, <3>3, <3>4
  <2> QED
    BY <2>1, <2>2
<1>13. ASSUME NEW d \in Directions
       PROVE  Accounts(new.acct[d], S, d, h.key, Cardinality(ClosedRuns(S, d)))
  <2> DEFINE last == LastOf(InRun(T, d, h.key))
             a == fenced.acct[d]
             b == new.acct[d]
             e == Cardinality(ClosedRuns(S, d))
             gain == IF last = NoReading THEN 0 ELSE Larger(0, h.count - last)
             lost == IF last # NoReading /\ h.count < last THEN 1 ELSE 0
  <2>1. /\ a.last = last /\ a.accumulated = Capped(Units(T, d)) /\ Units(T, d) \in Nat
        /\ a.unknown = Cardinality(Regressions(T, d)) + e
    BY <1>6 DEF Accounts
  <2>2. a \in Accumulator
    BY <1>6 DEF FoldStates
  <2>3. /\ Units(T, d) \in Nat /\ Units(S, d) \in Nat
        /\ ~Counts(T, h, d) => Units(S, d) = Units(T, d)
        /\ Counts(T, h, d) => Units(S, d) = Units(T, d) + gain
    BY UnitsGrow
  <2>4. /\ Cardinality(Regressions(T, d)) \in Nat
        /\ ~Counts(T, h, d) => Cardinality(Regressions(S, d)) = Cardinality(Regressions(T, d))
        /\ Counts(T, h, d) => Cardinality(Regressions(S, d)) = Cardinality(Regressions(T, d)) + lost
    BY RegressionsGrow
  <2>5. LastOf(InRun(S, d, h.key)) = IF Counts(T, h, d) THEN h.count ELSE last
    BY LastGrows
  <2>6. e \in Nat
    BY ClosedGrows
  <2>7. CASE ~Counts(T, h, d)
    <3>1. b = a
      BY <1>12, <2>7
    <3> QED
      BY <2>1, <2>3, <2>4, <2>5, <2>7, <3>1 DEF Accounts
  <2>8. CASE Counts(T, h, d)
    <3>1. h.count \in Nat
      BY <1>7, <2>8 DEF Counts
    <3>2. b = Observe(a, h.count, TRUE)
      BY <1>12, <2>8
    <3>3. /\ b.last = h.count
          /\ b.accumulated = Capped(Units(T, d) + gain)
          /\ b.unknown = a.unknown + lost
      <4>1. PICK u, v, f, g : u = Units(T, d) /\ v = h.count /\ f = a /\ g = b
        BY Zenon
      <4>2. f \in Accumulator /\ v \in Nat /\ u \in Nat /\ f.accumulated = Capped(u)
        BY <2>1, <2>2, <2>3, <3>1, <4>1
      <4>3. g = Observe(f, v, TRUE)
        BY <3>2, <4>1, Zenon
      <4>4. Observing(f, v, u, g)
        BY <4>2, <4>3, Zenon DEF Observing
      <4>5. Observed(f, v, u, g)
        BY ONLY <4>4, ObserveAdds
      <4>6. /\ g.last = v
            /\ g.accumulated = Capped(u + IF f.last = NoReading THEN 0 ELSE Larger(0, v - f.last))
            /\ g.unknown = f.unknown + IF f.last # NoReading /\ v < f.last THEN 1 ELSE 0
        BY ONLY <4>5 DEF Observed
      <4> HIDE DEF a, b, last
      <4> QED
        BY <2>1, <4>1, <4>6
    <3> HIDE DEF a, b, e, gain, lost, last
    <3>4. b.unknown = Cardinality(Regressions(S, d)) + e
      BY <2>1, <2>4, <2>6, <2>8, <3>3 DEF lost
    <3> QED
      BY <2>3, <2>5, <2>8, <3>3, <3>4 DEF Accounts, b, e
  <2> QED
    BY <2>7, <2>8
<1>14. \A d \in Directions :
         Accounts(new.acct[d], S, d, [inc |-> new.inc, epoch |-> new.epoch],
                  Cardinality(ClosedRuns(S, d)))
  <2>1. ASSUME NEW d PROVE InRun(S, d, [inc |-> new.inc, epoch |-> new.epoch]) = InRun(S, d, h.key)
    BY <1>10 DEF InRun
  <2> QED
    BY <1>13, <2>1 DEF Accounts
<1> QED
  BY <1>2, <1>3, <1>9, <1>10, <1>11, <1>14 DEF Reported

\* The fold of any evidence reports what the evidence accounts for.
LEMMA FoldReports ==
  ASSUME NEW S, IsEvidence(S)
  PROVE  Reported(S)
<1> DEFINE Good == {T \in SUBSET S : Reported(T)}
<1>1. ASSUME NEW T \in SUBSET S, \A x \in T : T \ {x} \in Good PROVE T \in Good
  <2>1. IsEvidence(T)
    BY EvidenceSubset
  <2>2. CASE T = {}
    <3>1. FoldAll(EmptyFold, T, TRUE) = EmptyFold
      <4>1. ASSUME NEW r PROVE FoldAll(EmptyFold, T, r) = EmptyFold
        BY <2>1, <2>2, FoldRecurs
      <4> QED
        BY <4>1, Zenon
    <3>2. EmptyFold \in FoldStates /\ EmptyFold.terminal = "none" /\ EmptyFold.inc = 0
      BY MaxCountAssumption DEF EmptyFold, FoldStates, EmptyAccumulator, Accumulator
    <3>3. ~Ended(T)
      BY <2>2 DEF Ended
    <3>4. ASSUME NEW d \in Directions, NEW k
          PROVE  Accounts(EmptyFold.acct[d], T, d, k, Cardinality(ClosedRuns(T, d)))
      <4>1. Readings(T, d) = {}
        BY <2>2 DEF Readings, Counted
      <4>2. InRun(T, d, k) = {} /\ Regressions(T, d) = {} /\ ClosedRuns(T, d) = {}
        BY <4>1 DEF InRun, Regressions, ClosedRuns
      <4>3. LastOf({}) = NoReading /\ Cardinality({}) = 0
        BY FS_EmptySet DEF LastOf
      <4>4. Units(T, d) = 0
        BY <4>1, OverEmpty, Zenon DEF Units
      <4>5. Capped(0) = 0
        BY MaxCountAssumption DEF Capped
      <4>6. EmptyFold.acct[d] = EmptyAccumulator
        BY DEF EmptyFold
      <4> QED
        BY <4>2, <4>3, <4>4, <4>5, <4>6 DEF Accounts, EmptyAccumulator
    <3> QED
      BY <2>2, <3>1, <3>2, <3>3, <3>4 DEF Reported
  <2>3. CASE T # {}
    <3> DEFINE h == Highest(T)
               U == T \ {h}
    <3>1. h \in T /\ \A p \in U : KeyLess(p.key, h.key)
      BY <2>1, <2>3, HighestIsGreatest
    <3> HIDE DEF h
    <3>2. Grown(U, h, T)
      BY <2>1, <3>1 DEF Grown
    <3>3. Reported(U)
      BY <1>1, <3>1
    <3> QED
      BY <3>2, <3>3, ReportedGrows
  <2> QED
    BY <2>2, <2>3
<1> HIDE DEF Good
<1>2. S \in Good
  BY <1>1, SubsetInduction DEF IsEvidence
<1> QED
  BY <1>2 DEF Good

\* SourceLedger::insert, apply_observation and CounterAccumulator::observe
\* together: whatever arrives in whatever order, for every capacity, window and
\* width of the counters, the units and the unknown intervals the view reports are
\* those the reference definition reads off the accepted evidence. The
\* configured counter policy is the default one, under which the prefix is folded.
THEOREM LedgerAccountingMatches ==
  ASSUME RegressionAsReset = TRUE
  PROVE  Spec => []AccountingMatchesEvidence
<1>1. IInv /\ CapacityIrrelevant => AccountingMatchesEvidence
  <2> SUFFICES ASSUME IInv, CapacityIrrelevant, NEW d \in Directions
               PROVE  /\ View(ledger).acct[d].accumulated = ExpectedUnits(Evidence, d)
                      /\ View(ledger).acct[d].unknown = ExpectedUnknown(Evidence, d)
    BY Zenon DEF AccountingMatchesEvidence
  <2> DEFINE S == Evidence
             st == FoldAll(EmptyFold, S, TRUE)
             a == st.acct[d]
             u == Units(S, d)
  <2>1. View(ledger) = st
    BY Zenon DEF CapacityIrrelevant
  <2>2. IsEvidence(S)
    BY EvidenceIsSound
  <2> HIDE DEF S
  <2>3. a.accumulated = Capped(u) /\ u \in Nat /\ a.unknown = ExpectedUnknown(S, d)
    BY <2>2, FoldReports DEF Reported, Accounts, ExpectedUnknown
  <2>4. ExpectedUnits(S, d) = Min({MaxCount, u})
    BY Zenon DEF ExpectedUnits, Units, Over, SumFunction
  <2> HIDE DEF u, st
  <2>5. Min({MaxCount, u}) = Capped(u)
    BY <2>3, MaxCountAssumption, SmallerOfTwo DEF Capped
  <2> QED
    BY <2>1, <2>3, <2>4, <2>5 DEF S
<1> QED
  BY <1>1, LedgerInvariant, LedgerCapacityIrrelevant, PTL
=============================================================================
