----------------------------- MODULE Reconcile -----------------------------
(***************************************************************************)
(* The pure decisions about one flow generation: the view of one source's  *)
(* evidence, its freshness, the reconciliation of the sources and the      *)
(* lifecycle state that follows from them.                                 *)
(*                                                                         *)
(* The evidence of a source is a set of records [key, digest, kind, count, *)
(* at, received] of one incarnation and epoch, whose readings rise with    *)
(* the key. What the ledger's fold makes of such evidence is the subject   *)
(* of module Ledger; here it is stated directly. Instants are positive, 0  *)
(* is the unknown one.                                                     *)
(***************************************************************************)
EXTENDS Integers, FiniteSets, FiniteSetsExt

CONSTANTS FreshWindow,             \* FreshnessPolicy::fresh_window
          ExpiryEnabled,           \* ExpiryPolicy::enabled
          IdleAfter,               \* ExpiryPolicy::idle_after
          ExpireAfter,             \* ExpiryPolicy::expire_after
          AbsoluteTolerance,       \* ReconciliationPolicy::absolute_tolerance_bytes
          RelativePpm,             \* ReconciliationPolicy::relative_tolerance_ppm
          HigherAuthorityResolves  \* ReconciliationPolicy::higher_authority_resolves

ASSUME PolicyAssumption ==
  /\ FreshWindow \in Nat
  /\ IdleAfter \in Nat /\ ExpireAfter \in Nat \ {0} /\ IdleAfter <= ExpireAfter
  /\ AbsoluteTolerance \in Nat /\ RelativePpm \in Nat
  /\ ExpiryEnabled \in BOOLEAN /\ HigherAuthorityResolves \in BOOLEAN

States == {"Unknown", "Observed", "Active", "Idle", "Completed", "Reset", "Expired",
           "Conflicting"}

Causes == {"None", "FirstObservation", "ProgressObserved", "IdleThresholdReached",
           "CompletionObserved", "ResetObserved", "ExpiryPolicy", "AuthorityConflict",
           "RecoveredFromJournal"}

Terminal == {"Completed", "Reset", "Expired"}

Latest(S) == Max(S \cup {0})

-----------------------------------------------------------------------------
\* What a source declared: the lowest Close or Reset of its evidence.
Declarations(S) == {e \in S : e.kind \in {"Close", "Reset"}}

DeclaredTerminal(S) ==
  IF Declarations(S) = {} THEN "none"
  ELSE LET first == CHOOSE e \in Declarations(S) : \A f \in Declarations(S) : e.key <= f.key
       IN  IF first.kind = "Close" THEN "Completed" ELSE "Reset"

\* Evidence after a declaration is retained and not accounted.
Accounted(S) == {e \in S : \A f \in Declarations(S) : e.key <= f.key}

\* An observation shows progress by its kind or by a reading that advanced.
Progresses(S) ==
  {e \in Accounted(S) :
     LET earlier == {f \in Accounted(S) : f.key < e.key} IN
     \/ e.kind \in {"Open", "Progress", "PathChange"}
     \/ earlier # {} /\ \A f \in earlier : f.count < e.count}

Total(S) ==
  LET readings == {e.count : e \in Accounted(S)}
  IN  IF readings = {} THEN 0 ELSE Max(readings) - Min(readings)

\* fold_source_view: the evidence under the source's descriptor.
SourceView(S, descriptor) ==
  [lastObserved |-> Latest({e.at : e \in S}),
   lastReceived |-> Latest({e.received : e \in S}),
   lastProgress |-> Latest({e.at : e \in Progresses(S)}),
   progress     |-> Progresses(S) # {},
   terminal     |-> DeclaredTerminal(S),
   total        |-> Total(S),
   descriptor   |-> descriptor]

-----------------------------------------------------------------------------
\* classify_freshness, as far as anything depends on it: Fresh or not. An
\* instant ahead of its receipt is clamped, evidence after t is Unknown.
Fresh(view, t) ==
  LET effective == IF view.lastObserved > view.lastReceived THEN view.lastReceived
                                                            ELSE view.lastObserved
  IN  view.lastObserved # 0 /\ effective <= t /\ t - effective <= FreshWindow

\* source_is_usable. A binding without reconfirmation is never usable,
\* whatever require_reconfirmation_after_restart makes of its freshness.
Usable(bind, t) ==
  {s \in DOMAIN bind : /\ ~bind[s].view.descriptor.advisory
                       /\ Fresh(bind[s].view, t)
                       /\ bind[s].reconfirmed}

Authority(bind, s) == bind[s].view.descriptor.authority

WithinTolerance(a, b) ==
  LET larger   == Max({a, b})
      absolute == larger - Min({a, b})
  IN  \/ absolute <= AbsoluteTolerance
      \/ absolute <= (larger * RelativePpm) \div 1000000

\* A disagreement of equals that nobody above them settles.
UnresolvedConflict(bind, t) ==
  \E i, j \in Usable(bind, t) :
    /\ i # j
    /\ ~WithinTolerance(bind[i].view.total, bind[j].view.total)
    /\ Authority(bind, i) = Authority(bind, j)
    /\ ~ /\ HigherAuthorityResolves
         /\ \E k \in Usable(bind, t) : Authority(bind, k) > Authority(bind, i)

\* sort_source_views: highest authority first, then lowest identity.
SortsBefore(bind, r, s) ==
  \/ Authority(bind, r) > Authority(bind, s)
  \/ Authority(bind, r) = Authority(bind, s) /\ r < s

Mutant_OnlyConfirmed(bind) ==
  {s \in DOMAIN bind :
     LET view == bind[s].view IN
     /\ ~view.descriptor.advisory /\ bind[s].reconfirmed
     /\ \/ view.terminal = "Completed" /\ view.descriptor.completes
        \/ view.terminal = "Reset" /\ view.descriptor.resets}

\* The sources whose declaration is honoured, fresh or not.
Entitled(bind) ==
  {s \in DOMAIN bind :
     LET view == bind[s].view IN
     /\ ~view.descriptor.advisory
     /\ \/ view.terminal = "Completed" /\ view.descriptor.completes
        \/ view.terminal = "Reset" /\ view.descriptor.resets}

FirstDeclared(bind) ==
  LET s == CHOOSE s \in Entitled(bind) :
             \A r \in Entitled(bind) \ {s} : SortsBefore(bind, s, r)
  IN  bind[s].view.terminal

LastObserved(bind) == Latest({bind[s].view.lastObserved : s \in DOMAIN bind})
LastProgress(bind) == Latest({bind[s].view.lastProgress : s \in DOMAIN bind})

Aged(instant, t, limit) == ExpiryEnabled /\ instant # 0 /\ t - instant > limit

Decision(state, cause) == [state |-> state, cause |-> cause]

\* Nothing is trustworthy at the moment.
DecideUnusable(gen, bind, t) ==
  LET restored == ExpiryEnabled /\ \E s \in DOMAIN bind : bind[s].restored IN
  CASE Aged(LastObserved(bind), t, ExpireAfter) -> Decision("Expired", "ExpiryPolicy")
    [] ~Aged(LastObserved(bind), t, ExpireAfter) /\ restored ->
         Decision("Observed", "RecoveredFromJournal")
    [] OTHER ->
         CASE gen.state = "Active" /\ Aged(LastProgress(bind), t, IdleAfter) ->
                Decision("Idle", "IdleThresholdReached")
           [] gen.state = "Unknown" -> Decision("Observed", "FirstObservation")
           [] OTHER -> gen

Mutant_NeverIdle(gen, bind, t) ==
  IF \E s \in Usable(bind, t) : bind[s].view.progress
  THEN Decision("Active", "ProgressObserved") ELSE Decision("Observed", "FirstObservation")

DecideUsable(gen, bind, t) ==
  CASE ~ \E s \in Usable(bind, t) : bind[s].view.progress ->
         Decision("Observed", "FirstObservation")
    [] (\E s \in Usable(bind, t) : bind[s].view.progress)
         /\ Aged(LastProgress(bind), t, IdleAfter) -> Decision("Idle", "IdleThresholdReached")
    [] OTHER -> Decision("Active", "ProgressObserved")

Mutant_Reopens(gen, bind, t) ==
  IF UnresolvedConflict(bind, t) THEN Decision("Conflicting", "AuthorityConflict")
  ELSE IF Entitled(bind) # {}
  THEN Decision(FirstDeclared(bind), IF FirstDeclared(bind) = "Completed"
                                     THEN "CompletionObserved" ELSE "ResetObserved")
  ELSE IF Usable(bind, t) = {} THEN DecideUnusable(gen, bind, t)
  ELSE DecideUsable(gen, bind, t)

\* decide_generation_state, with the cause that stands when it names none.
Decide(gen, bind, t) ==
  IF gen.state \in Terminal THEN gen
  ELSE IF UnresolvedConflict(bind, t) THEN Decision("Conflicting", "AuthorityConflict")
  ELSE IF Entitled(bind) # {}
  THEN Decision(FirstDeclared(bind), IF FirstDeclared(bind) = "Completed"
                                     THEN "CompletionObserved" ELSE "ResetObserved")
  ELSE IF Usable(bind, t) = {} THEN DecideUnusable(gen, bind, t)
  ELSE DecideUsable(gen, bind, t)

=============================================================================
