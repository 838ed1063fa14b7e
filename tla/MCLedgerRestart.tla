--------------------------- MODULE MCLedgerRestart ---------------------------
(***************************************************************************)
(* Small sets of observations for a ledger that is restarted.              *)
(***************************************************************************)
EXTENDS LedgerRestart

CONSTANT SomePath

Obs(inc, epoch, rev, seq, digest, kind, dir, count, path) ==
  [key |-> [inc |-> inc, epoch |-> epoch, rev |-> rev, seq |-> seq],
   digest |-> digest, kind |-> kind, dir |-> dir, complete |-> TRUE,
   count |-> count, at |-> rev, path |-> path]

\* Two incarnations; the revisions of the second stay below those of the first.
RestartedSource ==
  {Obs(1, 1, 1, 1, 1, "Progress", "forward", 2, SomePath),
   Obs(1, 1, 3, 2, 2, "Progress", "forward", 4, NoPath),
   Obs(1, 2, 4, 1, 3, "Sample", "reverse", 1, NoPath),
   Obs(2, 1, 1, 1, 4, "Open", "forward", 1, NoPath),
   Obs(2, 1, 2, 2, 5, "Sample", "forward", 3, NoPath),
   Obs(2, 1, 5, 3, 6, "Close", "forward", 6, NoPath)}
=============================================================================
