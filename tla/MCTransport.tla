----------------------------- MODULE MCTransport ----------------------------
(***************************************************************************)
(* A server of two handlers for TLC. The handlers and the clients are      *)
(* interchangeable; the symmetry is used where no liveness is checked.     *)
(***************************************************************************)
EXTENDS Transport, TLC

Interchangeable == Permutations(Clients) \cup Permutations(Handlers)
=============================================================================
