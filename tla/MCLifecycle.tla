---------------------------- MODULE MCLifecycle ----------------------------
(***************************************************************************)
(* Two sources of equal authority whose counters come to disagree, one of  *)
(* which may declare completion and the other a reset.                     *)
(***************************************************************************)
EXTENDS Lifecycle

Obs(src, key, digest, kind, count, at) ==
  [src |-> src, key |-> key, digest |-> digest, kind |-> kind, count |-> count, at |-> at]

Evidence ==
  {Obs(1, 1, 1, "Progress", 0, 1), Obs(1, 2, 2, "Sample", 5, 2), Obs(1, 3, 3, "Close", 5, 3),
   Obs(2, 1, 1, "Reset", 0, 2)}

\* Two copies of a key that disagree, and evidence above them.
ConflictingEvidence ==
  {Obs(1, 1, 1, "Progress", 3, 1), Obs(1, 1, 2, "Progress", 5, 1), Obs(1, 2, 3, "Sample", 6, 2)}

Registered(authority, completes, resets) ==
  [registered |-> TRUE, authority |-> authority, advisory |-> FALSE,
   completes |-> completes, resets |-> resets]

OneDescriptorEach == [s \in Sources |-> {Registered(1, s = 1, s = 2)}]
=============================================================================
