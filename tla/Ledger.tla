------------------------------- MODULE Ledger -------------------------------
(***************************************************************************)
(* The life of one source ledger inside one run of the engine: evidence is *)
(* delivered in any order and any number of times, and every delivery is   *)
(* one call of SourceLedger::insert.                                       *)
(***************************************************************************)
EXTENDS SourceLedger, FiniteSetsExt, Functions

CONSTANT Observations   \* the evidence a source may send for one generation

ASSUME ObservationsAssumption ==
  /\ \A o \in Observations :
       /\ o.key \in Keys
       /\ o.digest \in Nat /\ o.at \in Nat
       /\ o.dir \in Directions /\ o.complete \in BOOLEAN
       /\ o.count \in Nat \cup {NoReading}
       /\ o.path \in Paths \cup {NoPath}
  /\ \A o, p \in Observations : o.key = p.key /\ o.digest = p.digest => o = p

VARIABLES ledger,      \* the SourceLedger
          applied,     \* history: the observations folded into the prefix
          delivered,   \* history: everything insert was ever called with
          result       \* the last call: [obs, kind]

vars == <<ledger, applied, delivered, result>>

\* The evidence the accounting stands for.
Evidence == applied \cup ledger.entries

-----------------------------------------------------------------------------
Init ==
  /\ ledger = EmptyLedger
  /\ applied = {}
  /\ delivered = {}
  /\ result = [obs |-> {}, kind |-> "none"]

\* One call of SourceLedger::insert. What leaves the entries without being
\* replaced by the other copy of its key has been folded.
Deliver(o) ==
  /\ ledger' = Insert(ledger, o)
  /\ applied' = IF InsertKind(ledger, o) = "Accepted"
                THEN applied \cup ((ledger.entries \cup {o}) \ ledger'.entries)
                ELSE applied
  /\ delivered' = delivered \cup {o}
  /\ result' = [obs |-> {o}, kind |-> InsertKind(ledger, o)]

Next == \E o \in Observations : Deliver(o)

Spec == Init /\ [][Next]_vars

-----------------------------------------------------------------------------
\* A reference for the accounting, from the evidence alone.
Terminals == {"Close", "Reset"}

\* Evidence that is not preceded by a terminal declaration.
Counted(S) == {o \in S : ~ \E t \in S : t.kind \in Terminals /\ KeyLess(t.key, o.key)}

Readings(S, d) == {o \in Counted(S) : o.dir = d /\ o.count # NoReading}

\* The readings of the same direction, incarnation and epoch before o.
Before(S, d, o) == {p \in Readings(S, d) : /\ p.key.inc = o.key.inc
                                           /\ p.key.epoch = o.key.epoch
                                           /\ KeyLess(p.key, o.key)}

Gain(S, d, o) ==
  IF Before(S, d, o) = {} THEN 0
  ELSE Larger(0, o.count - Highest(Before(S, d, o)).count)

Regresses(S, d, o) ==
  Before(S, d, o) # {} /\ o.count < Highest(Before(S, d, o)).count

Run(o) == <<o.key.inc, o.key.epoch>>

\* Runs of one incarnation and epoch that ended with a reading behind them.
ClosedRuns(S, d) ==
  {Run(o) : o \in {r \in Readings(S, d) :
                     \E n \in S : KeyLess(r.key, n.key) /\ Run(n) # Run(r)}}

ExpectedUnits(S, d) ==
  Min({MaxCount, SumFunction([o \in Readings(S, d) |-> Gain(S, d, o)])})

Regressions(S, d) == {o \in Readings(S, d) : Regresses(S, d, o)}

ExpectedUnknown(S, d) == Cardinality(Regressions(S, d)) + Cardinality(ClosedRuns(S, d))

-----------------------------------------------------------------------------
\* The ledger never holds more than its capacity, its entries and its fence
\* are well formed and the prefix counts what was folded.
TypeOK ==
  /\ ledger \in Ledgers(Observations)
  /\ applied \subseteq Observations
  /\ delivered \subseteq Observations
  /\ IsFiniteSet(ledger.entries)
  /\ Cardinality(ledger.entries) <= Capacity
  /\ result.obs \subseteq Observations
  /\ result.kind \in {"none", "Accepted", "Duplicate", "ContentConflict", "Refused"}

\* Whatever the arrival order, the repetitions and the capacity, the units
\* and the unknown intervals the view reports for each direction are those
\* of the accepted evidence read in canonical order: increases inside one
\* incarnation and epoch are counted once, nothing is bridged over a restart
\* and nothing is counted after a terminal declaration (insert,
\* apply_observation and CounterAccumulator::observe together).
AccountingMatchesEvidence ==
  \A d \in Directions :
    /\ View(ledger).acct[d].accumulated = ExpectedUnits(Evidence, d)
    /\ View(ledger).acct[d].unknown = ExpectedUnknown(Evidence, d)

\* No key is accounted twice: redelivered or conflicting copies never add a
\* second observation, before or after the first one was folded.
NeverAppliedTwice ==
  /\ \A o, p \in Evidence : o.key = p.key => o = p
  /\ ledger.folded = Cardinality(applied)

\* Everything still retained lies above everything folded, and above the
\* fence insert compares new evidence with.
RetainedAboveFolded ==
  \A e \in ledger.entries :
    /\ \A f \in applied : KeyLess(f.key, e.key)
    /\ ledger.folded > 0 => KeyLess(ledger.mark.bound, e.key)

\* Evidence is never applied out of order: a step folds nothing at or below a
\* key that is already folded.
NeverOutOfOrder ==
  [][\A o \in applied' \ applied, p \in applied : KeyLess(p.key, o.key)]_vars

\* While nothing has been folded, the evidence kept is a function of the set
\* delivered: of the copies of a key the one with the smallest digest,
\* whichever arrived first.
ArrivalOrderIrrelevant ==
  applied = {} =>
    Evidence = {o \in delivered :
                  \A p \in delivered : p.key = o.key => o.digest <= p.digest}

\* "it is either recognised exactly (when it lands in the 64-wide dedupe window
\* over the source sequence) or refused with an explicit `stale-revision`
\* refusal" (docs/architecture.md:86-87): an insert answered Duplicate repeats a
\* key that was accepted. The code does not keep this: once the sequence numbers
\* of a run span more than Window, fold_mark (src/reconcile.cpp:169) marks
\* another bit than the folded number's, and MCLedger_window.cfg shows evidence
\* that was never accepted being answered Duplicate.
DuplicateIsExact ==
  result.kind = "Duplicate" =>
    \A o \in result.obs : \E e \in Evidence : e.key = o.key

\* Evidence above everything accepted so far is never refused or taken for a
\* repetition, whatever bits the duplicate window holds: an insert is answered
\* Refused or Duplicate only at or below accepted evidence.
RefusedOnlyBelowEvidence ==
  result.kind \in {"Refused", "Duplicate"} =>
    \A o \in result.obs : \E e \in Evidence : ~KeyLess(e.key, o.key)

\* Capacity does not change the accounting: folding a prefix of the evidence
\* into the summary and the rest on top of it gives what one fold of all the
\* accepted evidence gives, progress, coverage and terminal state included.
CapacityIrrelevant ==
  View(ledger) = FoldAll(EmptyFold, Evidence, RegressionAsReset)

=============================================================================
