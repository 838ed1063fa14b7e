------------------------------ MODULE MCLedger ------------------------------
(***************************************************************************)
(* Small sets of observations for the ledger: reordered deliveries, two    *)
(* incarnations, two epochs, regressions, conflicting copies of a key and  *)
(* a terminal declaration, more sequence numbers in a run than the         *)
(* duplicate window is wide.                                               *)
(***************************************************************************)
EXTENDS Ledger

Obs(inc, epoch, rev, seq, digest, kind, dir, count, path) ==
  [key |-> [inc |-> inc, epoch |-> epoch, rev |-> rev, seq |-> seq],
   digest |-> digest, kind |-> kind, dir |-> dir, complete |-> TRUE,
   count |-> count, at |-> rev, path |-> path]

\* A counter that advances, regresses, restarts in a new epoch and in a new
\* incarnation, with two copies of one key that disagree and a Close.
MixedEvidence ==
  {Obs(1, 1, 1, 1, 1, "Progress", "forward", 2, NoPath),
   Obs(1, 1, 2, 2, 2, "Progress", "forward", 5, NoPath),
   Obs(1, 1, 2, 2, 9, "Progress", "forward", 3, NoPath),
   Obs(1, 1, 3, 4, 3, "Sample", "forward", 4, NoPath),
   Obs(1, 2, 4, 1, 4, "Sample", "forward", 1, NoPath),
   Obs(2, 1, 1, 1, 5, "Open", "reverse", 3, NoPath),
   Obs(2, 1, 2, 2, 6, "Sample", "forward", 7, NoPath),
   Obs(2, 1, 3, 3, 7, "Close", "forward", 9, NoPath)}

\* Five readings of one run, numbered one after the other, for a duplicate
\* window of two.
ConsecutiveEvidence ==
  {Obs(1, 1, 1, n, n, "Sample", "forward", n, NoPath) : n \in 1..5}
=============================================================================
