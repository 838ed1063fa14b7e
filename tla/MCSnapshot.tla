----------------------------- MODULE MCSnapshot -----------------------------
(***************************************************************************)
(* Two sources report on one flow in two generations, one of them late,    *)
(* name more links and queues than the reader takes and more peers than    *)
(* the registry has room for; the evidence of a second flow claims one of  *)
(* them with another key, an overlong one.                                 *)
(***************************************************************************)
EXTENDS Snapshot

Keys == 0 :> 0 @@ 1 :> 1 @@ 2 :> 2 @@ 4 :> 3

\* That of source 1 is beyond the reader's bound.
MadeUp == 1 :> 4 @@ 2 :> 2

\* Source 2 is known by its observations alone.
Registered == {[id |-> 1, key |-> 1, authority |-> 2]}

Obs(source, sequence, flow, generation) ==
  [source |-> source, sequence |-> sequence, flow |-> flow, generation |-> generation,
   peer |-> 0, queue |-> None, link |-> None, hops |-> <<>>, flowKey |-> 1, peerKey |-> 0]

Evidence ==
  {[Obs(1, 1, 1, 1) EXCEPT !.link = 7, !.queue = 8, !.hops = <<5>>, !.peer = 10, !.peerKey = 1],
   [Obs(1, 2, 1, 2) EXCEPT !.queue = 8, !.peer = 9, !.peerKey = 1],
   [Obs(2, 1, 1, 1) EXCEPT !.link = 6, !.queue = 9, !.peer = 11, !.peerKey = 1],
   [Obs(2, 2, 2, 1) EXCEPT !.flowKey = 2, !.peer = 9, !.peerKey = 4]}
=============================================================================
