---------------------------- MODULE LedgerRestart ----------------------------
(***************************************************************************)
(* The ledger across runs of the engine: compaction writes its whole fold  *)
(* into a snapshot (persist_source) and the next run seeds a new ledger    *)
(* from it (restore_locked).                                               *)
(***************************************************************************)
EXTENDS Ledger

CONSTANT MaxRestarts   \* bound on the restarts of the engine

ASSUME RestartAssumption == MaxRestarts \in Nat

VARIABLE restarts      \* how many times the ledger went through a snapshot

rvars == <<ledger, applied, delivered, result, restarts>>

-----------------------------------------------------------------------------
RInit == Init /\ restarts = 0

DeliverBetweenRestarts(o) == Deliver(o) /\ UNCHANGED restarts

\* Snapshot, stop and restore. After it the snapshot stands for every entry.
Restart ==
  /\ restarts < MaxRestarts
  /\ restarts' = restarts + 1
  /\ ledger' = Restore(ledger)
  /\ applied' = applied \cup ledger.entries
  /\ result' = [obs |-> {}, kind |-> "none"]
  /\ UNCHANGED delivered

RNext == Restart \/ \E o \in Observations : DeliverBetweenRestarts(o)

RSpec == RInit /\ [][RNext]_rvars

-----------------------------------------------------------------------------
\* What the restored ledger reports is what the stopped one reported, for
\* everything a snapshot records: accounting, coverage, terminal state,
\* incarnation, epoch, progress and instants (persist_source, restore_locked).
Recorded(st) == [f \in DOMAIN st \ {"path", "restartGaps"} |-> st[f]]

SnapshotKeepsAccounting ==
  [][restarts' # restarts => Recorded(View(ledger')) = Recorded(View(ledger))]_rvars

\* A restart never lets evidence in that the accounting already includes.
NothingCountedTwiceAcrossRestart ==
  [][\A o \in applied' \ applied, p \in applied : KeyLess(p.key, o.key)]_rvars

=============================================================================
