--------------------------- MODULE MCAttribution ---------------------------
(***************************************************************************)
(* Two families of generations over 4-bit words: one trusted source with   *)
(* every total and every weighting of up to three hops, saturated products *)
(* and saturated weight sums among them; and two sources of every mix of   *)
(* authority, age, advice and reconfirmation with few totals.              *)
(***************************************************************************)
EXTENDS Attribution

Source(authority, advisory, at, reconfirmed, forward, aggregate) ==
  [view |-> [lastObserved |-> at, lastReceived |-> at,
             total |-> SaturatingAdd(forward, aggregate),
             descriptor |-> [authority |-> authority, advisory |-> advisory]],
   reconfirmed |-> reconfirmed, forward |-> forward, reverse |-> 0, aggregate |-> aggregate,
   endpointA |-> None, endpointB |-> None, path |-> "p", links |-> <<"a", "b">>,
   queues |-> <<>>, capacities |-> <<>>]

Paths == {<<>>, <<"a">>, <<"a", "b", "c">>}
Capacities == {<<>>, <<0>>, <<5>>} \cup [1 .. 3 -> {1, 3, 8}]

OneSource ==
  {1 :> [Source(1, FALSE, 2, TRUE, total, 0) EXCEPT
           !.links = links, !.capacities = capacities, !.path = path, !.endpointA = endpoint,
           !.queues = IF endpoint = None THEN <<>> ELSE <<"q", "r">>] :
     total \in 0 .. MaxWord, links \in Paths, capacities \in Capacities,
     path \in {None, "p"}, endpoint \in {None, "x"}}

Reporters ==
  {Source(authority, advisory, at, reconfirmed, forward, 1) :
     authority \in {1, 2}, advisory \in BOOLEAN, at \in 0 .. 3, reconfirmed \in BOOLEAN,
     forward \in {0, 4, 15}}

TwoSources ==
  {(1 :> r) @@ (2 :> [s EXCEPT !.links = <<"b", "c">>, !.endpointB = "x"]) :
     r \in Reporters, s \in Reporters}

MCGenerations == OneSource \cup TwoSources

Policy(reconciliation, method, requireFresh) ==
  [reconciliation |-> reconciliation, method |-> method, requireCurrent |-> TRUE,
   requireFresh |-> requireFresh]

MCPolicies ==
  {Policy("PrimaryAuthoritative", "EndpointOnly", TRUE),
   Policy("PrimaryAuthoritative", "ProportionalToCapacity", FALSE),
   Policy("MaximumObserved", "UniformAcrossHops", TRUE),
   Policy("ConservativeMinimum", "UniformAcrossHops", TRUE)}
=============================================================================
