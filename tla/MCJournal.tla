----------------------------- MODULE MCJournal -----------------------------
(***************************************************************************)
(* Symmetry for the journal: inodes, observations and runtimes are only    *)
(* compared for equality.                                                  *)
(***************************************************************************)
EXTENDS Journal, TLC

Interchangeable ==
  Permutations(Files) \cup Permutations(Observations) \cup Permutations(Runtimes)
=============================================================================
