---------------------------- MODULE Attribution ----------------------------
(***************************************************************************)
(* attribute_generation and what it reports on: the totals and the         *)
(* correlation that reconcile_generation draws from the sources of a       *)
(* generation, the refusals in the order of the code, and distribute, the  *)
(* integer split of a total over the hops of a path.                       *)
(*                                                                         *)
(* One unit (bytes) is followed; packets and retransmissions go through    *)
(* the same operators. A source is a binding of module Reconcile together  *)
(* with its per-direction totals and the resources its evidence named. The *)
(* 64-bit words go up to MaxWord, and every sum, product and wrap happens  *)
(* there.                                                                  *)
(***************************************************************************)
EXTENDS Reconcile, Sequences, SequencesExt

CONSTANTS MaxWord,               \* the largest counter word, 2^64 - 1 in the code
          Now,                   \* the instant of the request
          RequireReconfirmation, \* FreshnessPolicy::require_reconfirmation_after_restart
          MaxResultSet,          \* Limits::max_result_set
          QueuesPerSource,       \* the 4 of the queue budget
          Generations,           \* what may be asked about: bindings of the sources
          Policies,              \* AttributionPolicy with the ReconciliationPolicy
          None                   \* an identity nobody named

ASSUME AttributionAssumption ==
  /\ MaxWord \in Nat \ {0} /\ Now \in Nat \ {0} /\ MaxResultSet \in Nat \ {0}
  /\ RequireReconfirmation \in BOOLEAN
  /\ \A bind \in Generations : DOMAIN bind \in SUBSET Nat /\ IsFiniteSet(DOMAIN bind)
  /\ \A bind \in Generations : \A s \in DOMAIN bind :
       /\ Authority(bind, s) \in Nat
       /\ {bind[s].forward, bind[s].reverse, bind[s].aggregate} \subseteq 0 .. MaxWord
       /\ bind[s].capacities \in Seq(0 .. MaxWord)
       /\ bind[s].links \in Seq(Range(bind[s].links))
  /\ \A p \in Policies :
       p.reconciliation \in {"PrimaryAuthoritative", "MaximumObserved", "ConservativeMinimum"}

VARIABLES bind,        \* the sources of the generation, by identity
          current,     \* it is the flow's current generation
          policy,
          phase,       \* "reconcile", "check", "clamp", "settle", "report", "done"
          view,        \* the GenerationView, once reconciled
          shares,      \* shares of distribute, one per hop
          remainders,  \* and the remainders of its divisions
          report       \* the AttributionReport, once returned

avars == <<bind, current, policy, phase, view, shares, remainders, report>>

-----------------------------------------------------------------------------
\* checked_add and checked_mul.
SaturatingAdd(a, b) == IF a > MaxWord - b THEN MaxWord ELSE a + b

MulOverflows(a, b) == a # 0 /\ b # 0 /\ a > MaxWord \div b

Sum(s) == SumFunction(s)

-----------------------------------------------------------------------------
\* sort_source_views: the source that is sorted before the others of S.
First(S) == CHOOSE s \in S : \A r \in S \ {s} : SortsBefore(bind, s, r)

\* source_view and classify_freshness, as far as attribution depends on it.
FreshnessOf(s) ==
  LET v == bind[s].view IN
  IF \/ v.lastObserved = 0
     \/ Min({v.lastObserved, v.lastReceived}) > Now
     \/ ~bind[s].reconfirmed /\ RequireReconfirmation
  THEN "Unknown"
  ELSE IF Fresh(v, Now) THEN "Fresh" ELSE "Stale"

Declared == {s \in DOMAIN bind : ~bind[s].view.descriptor.advisory}

\* totals_of: three saturating sums.
TotalsOf(s) == SaturatingAdd(SaturatingAdd(bind[s].forward, bind[s].reverse), bind[s].aggregate)

GenerationTotal ==
  LET totals == {TotalsOf(s) : s \in Usable(bind, Now)} IN
  CASE totals # {} /\ policy.reconciliation = "PrimaryAuthoritative" -> TotalsOf(First(Usable(bind, Now)))
    [] totals # {} /\ policy.reconciliation = "MaximumObserved"      -> Max(totals)
    [] totals # {} /\ policy.reconciliation = "ConservativeMinimum"  -> Min(totals)
    [] totals = {} /\ Declared # {} -> TotalsOf(First(Declared))
    [] OTHER -> 0

Mutant_AnyFreshSource ==
  IF \E s \in DOMAIN bind : FreshnessOf(s) = "Fresh" THEN "Fresh" ELSE "Unknown"

\* view.freshness: Fresh with a usable source, otherwise that of the first
\* source that has one, advisory sources included.
GenerationFreshness ==
  LET known == {s \in DOMAIN bind : FreshnessOf(s) # "Unknown"} IN
  IF Usable(bind, Now) # {} THEN "Fresh"
  ELSE IF known = {} THEN "Unknown" ELSE FreshnessOf(First(known))

\* The first source that named one.
FirstNamed(field) ==
  LET naming == {s \in DOMAIN bind : bind[s][field] \notin {None, <<>>}}
  IN  IF naming = {} THEN None ELSE bind[First(naming)][field]

\* Where a resource is named, source and position, in the order of the loops.
Mentions(field) == UNION {{s} \X DOMAIN bind[s][field] : s \in DOMAIN bind}

Named(field, m) == bind[m[1]][field][m[2]]

MetBefore(m, n) == SortsBefore(bind, m[1], n[1]) \/ (m[1] = n[1] /\ m[2] < n[2])

\* The resources of all sources, each once, in the order they are met.
Merged(field) ==
  LET new    == {m \in Mentions(field) : \A n \in Mentions(field) :
                   Named(field, n) = Named(field, m) => ~MetBefore(n, m)}
      nth(k) == CHOOSE m \in new : Cardinality({n \in new : MetBefore(n, m)}) = k - 1
  IN  [k \in 1 .. Cardinality(new) |-> Named(field, nth(k))]

\* The queues stop at the budget, the links have none.
MergedQueues ==
  LET budget == Cardinality(DOMAIN bind) * QueuesPerSource + QueuesPerSource
  IN  SubSeq(Merged("queues"), 1, Min({budget, Len(Merged("queues"))}))

\* reconcile_generation.
GenerationView ==
  [freshness  |-> GenerationFreshness,
   conflict   |-> UnresolvedConflict(bind, Now),
   total      |-> GenerationTotal,
   endpointA  |-> FirstNamed("endpointA"),
   endpointB  |-> FirstNamed("endpointB"),
   path       |-> FirstNamed("path"),
   links      |-> Merged("links"),
   queues     |-> MergedQueues,
   capacities |-> IF FirstNamed("capacities") = None THEN <<>> ELSE FirstNamed("capacities")]

-----------------------------------------------------------------------------
\* attribute_generation. The targets every report starts with: the flow,
\* and both endpoints as soon as one is named.
EndpointTargets == 1 + (IF view.endpointA = None /\ view.endpointB = None THEN 0 ELSE 2)

\* A queue takes the share of the hop at its position.
PathTargets == EndpointTargets + Len(view.links) + Min({Len(view.links), Len(view.queues)})

Weights ==
  IF policy.method = "ProportionalToCapacity" THEN view.capacities
                                              ELSE [i \in DOMAIN view.links |-> 1]

\* The first refusal that applies, in the order of the code.
Refusal ==
  IF policy.requireCurrent /\ ~current THEN "NotCurrentGeneration"
  ELSE IF policy.requireFresh /\ view.freshness # "Fresh" THEN "StaleGeneration"
  ELSE IF view.conflict THEN "UnresolvedConflict"
  ELSE IF policy.method = "EndpointOnly"
  THEN IF EndpointTargets > MaxResultSet THEN "LimitExceeded" ELSE "Ok"
  ELSE IF view.path = None \/ view.links = <<>> THEN "NoPathCorrelation"
  ELSE IF Len(view.links) > MaxResultSet THEN "LimitExceeded"
  ELSE IF /\ policy.method = "ProportionalToCapacity"
          /\ \/ Len(view.capacities) # Len(view.links)
             \/ 0 \in Range(view.capacities)
  THEN "UnsupportedByMetadata"
  ELSE "Ok"

NoReport == [status |-> "none", total |-> 0, targets |-> 0, shares |-> <<>>, denominator |-> 0]

-----------------------------------------------------------------------------
AInit ==
  /\ bind \in Generations /\ current \in BOOLEAN /\ policy \in Policies
  /\ phase = "reconcile"
  /\ view = [freshness |-> "Unknown", conflict |-> FALSE, total |-> 0, endpointA |-> None,
             endpointB |-> None, path |-> None, links |-> <<>>, queues |-> <<>>,
             capacities |-> <<>>]
  /\ shares = <<>> /\ remainders = <<>>
  /\ report = NoReport

Reconciled ==
  /\ phase = "reconcile"
  /\ view' = GenerationView
  /\ phase' = "check"
  /\ UNCHANGED <<bind, current, policy, shares, remainders, report>>

\* A refusal after the conflict test carries the total and the targets built
\* so far.
Refused ==
  /\ phase = "check"
  /\ Refusal # "Ok"
  /\ report' =
       IF Refusal \in {"NotCurrentGeneration", "StaleGeneration", "UnresolvedConflict"}
       THEN [NoReport EXCEPT !.status = Refusal]
       ELSE [NoReport EXCEPT !.status = Refusal, !.total = view.total,
                             !.targets = EndpointTargets]
  /\ phase' = "done"
  /\ UNCHANGED <<bind, current, policy, view, shares, remainders>>

EndpointOnly ==
  /\ phase = "check"
  /\ Refusal = "Ok" /\ policy.method = "EndpointOnly"
  /\ report' = [NoReport EXCEPT !.status = "Ok", !.total = view.total,
                                !.targets = EndpointTargets]
  /\ phase' = "done"
  /\ UNCHANGED <<bind, current, policy, view, shares, remainders>>

\* distribute: the sum of the weights saturates, and so does a product; a
\* saturated product has no remainder.
WeightSum == Min({Sum(Weights), MaxWord})

Scale ==
  /\ phase = "check"
  /\ Refusal = "Ok" /\ policy.method # "EndpointOnly"
  /\ LET total == view.total IN
     /\ shares' = [i \in DOMAIN Weights |->
                     IF MulOverflows(total, Weights[i]) THEN MaxWord \div WeightSum
                                                        ELSE (total * Weights[i]) \div WeightSum]
     /\ remainders' = [i \in DOMAIN Weights |->
                         IF MulOverflows(total, Weights[i]) THEN 0
                                                            ELSE (total * Weights[i]) % WeightSum]
  /\ phase' = IF Sum(shares') > view.total THEN "clamp" ELSE "settle"
  /\ UNCHANGED <<bind, current, policy, view, report>>

Mutant_KeepsTheExcess ==
  /\ phase = "clamp"
  /\ phase' = "report"
  /\ UNCHANGED <<bind, current, policy, view, shares, remainders, report>>

\* The excess of saturated products is taken back, from the last hop on.
TakeBack ==
  /\ phase = "clamp"
  /\ Sum(shares) > view.total
  /\ LET last   == Max({i \in DOMAIN shares : shares[i] > 0})
         excess == Sum(shares) - view.total
     IN  shares' = [shares EXCEPT ![last] = @ - Min({@, excess})]
  /\ phase' = IF Sum(shares') > view.total THEN "clamp" ELSE "report"
  /\ UNCHANGED <<bind, current, policy, view, remainders, report>>

Mutant_LastOfTheLargest ==
  Max({i \in DOMAIN remainders : \A j \in DOMAIN remainders : remainders[i] >= remainders[j]})

LargestRemainderIndex ==
  Min({i \in DOMAIN remainders : \A j \in DOMAIN remainders : remainders[i] >= remainders[j]})

\* What the divisions left over goes out one unit at a time.
GiveOne ==
  /\ phase = "settle"
  /\ Sum(shares) < view.total
  /\ shares' = [shares EXCEPT ![LargestRemainderIndex] = @ + 1]
  /\ remainders' = [remainders EXCEPT ![LargestRemainderIndex] = 0]
  /\ UNCHANGED <<bind, current, policy, phase, view, report>>

Settled ==
  /\ phase = "settle"
  /\ Sum(shares) = view.total
  /\ phase' = "report"
  /\ UNCHANGED <<bind, current, policy, view, shares, remainders, report>>

\* The denominator is a plain sum and wraps. The limit is tested again, on
\* a report that keeps its targets.
Report ==
  /\ phase = "report"
  /\ report' = [status      |-> IF PathTargets > MaxResultSet THEN "LimitExceeded" ELSE "Ok",
                total       |-> view.total,
                targets     |-> PathTargets,
                shares      |-> shares,
                denominator |-> Sum(Weights) % (MaxWord + 1)]
  /\ phase' = "done"
  /\ UNCHANGED <<bind, current, policy, view, shares, remainders>>

Answered == phase = "done" /\ UNCHANGED avars

ANext ==
  \/ Reconciled \/ Refused \/ EndpointOnly \/ Scale \/ TakeBack \/ GiveOne \/ Settled
  \/ Report \/ Answered

ASpec == AInit /\ [][ANext]_avars

-----------------------------------------------------------------------------
\* docs/semantics.md: shares always sum exactly to the total, whatever
\* saturated on the way.
SharesSumToTotal ==
  (phase = "done" /\ report.shares # <<>>) => Sum(report.shares) = report.total

\* Without saturation the split is the largest-remainder one: every hop has
\* its exact share rounded down or up, fewer than one unit per hop goes
\* out in the end, and a hop is rounded up before another only for a larger
\* remainder, or an equal one at a lower index.
LargestRemainder ==
  LET w     == Weights
      exact == [i \in DOMAIN w |-> view.total * w[i]]
      up    == {i \in DOMAIN w : report.shares[i] # exact[i] \div WeightSum}
      rem(i) == exact[i] % WeightSum
  IN  /\ phase = "done" /\ report.shares # <<>>
      /\ Sum(w) <= MaxWord
      /\ \A i \in DOMAIN w : exact[i] <= MaxWord
      => /\ \A i \in up : report.shares[i] = exact[i] \div WeightSum + 1
         /\ Cardinality(up) < Len(w)
         /\ \A i \in up, j \in DOMAIN w \ up :
              rem(i) > rem(j) \/ (rem(i) = rem(j) /\ i < j)

\* attribution.hpp: a number published under require_fresh_generation is
\* what trusted sources measured, between their lowest and highest total;
\* the one exception is a generation without any trusted source whose first
\* dated source is fresh but advisory or not reconfirmed.
PublishesTrustedTotals ==
  (phase = "done" /\ report.status = "Ok" /\ policy.requireFresh) =>
    LET totals == {TotalsOf(s) : s \in Usable(bind, Now)}
        dated  == {s \in DOMAIN bind : FreshnessOf(s) # "Unknown"}
    IN  \/ totals # {} /\ report.total \in Min(totals) .. Max(totals)
        \/ totals = {} /\ dated # {} /\ FreshnessOf(First(dated)) = "Fresh"
=============================================================================
