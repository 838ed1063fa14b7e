---------------------------- MODULE MCFlowTable ----------------------------
(***************************************************************************)
(* Three flows compete for two places. Flow 1 has three generations for    *)
(* two places, two keys and three sources for one place per generation;    *)
(* the endpoint registry fills up and two endpoint keys collide; one       *)
(* observation of flow 2 is ahead of its receipt, one names the identity   *)
(* of another key and one the path of another generation.                  *)
(***************************************************************************)
EXTENDS FlowTable

MCIdOf == ("a" :> 1) @@ ("collides with a" :> 1) @@ ("b" :> 2) @@ ("c" :> 3)

MCNameId == ("p" :> 1) @@ ("collides with p" :> 1) @@ ("q" :> 2) @@ ("r" :> 3)

Plain(key, gen, src) ==
  [flow |-> 0, key |-> key, gen |-> gen, pathGen |-> 0, src |-> src, names |-> <<>>,
   skewed |-> FALSE]

MCObservations ==
  { Plain("a", 1, 1), [Plain("a", 2, 1) EXCEPT !.pathGen = 2], Plain("a", 3, 2),
    [Plain("a", 1, 2) EXCEPT !.flow = 1], Plain("collides with a", 1, 1),
    [Plain("b", 1, 1) EXCEPT !.names = <<"p">>], [Plain("b", 1, 1) EXCEPT !.skewed = TRUE],
    [Plain("b", 1, 1) EXCEPT !.flow = 1], [Plain("b", 2, 1) EXCEPT !.pathGen = 1],
    [Plain("b", 1, 1) EXCEPT !.names = <<"collides with p", "q">>],
    [Plain("c", 1, 3) EXCEPT !.names = <<"q", "r">>] }
=============================================================================
