------------------------------ MODULE Counters ------------------------------
(***************************************************************************)
(* CounterAccumulator: how a cumulative counter reported by a source is    *)
(* turned into accounted units, counting what was never observed as an     *)
(* unknown interval instead of guessing it.                                *)
(*                                                                         *)
(* baseline_ and last_ are always set and cleared together, so the field   *)
(* last stands for both; NoReading is the empty optional.                  *)
(***************************************************************************)
EXTENDS Integers

CONSTANT MaxCount   \* the largest value of the 64-bit accumulator

ASSUME MaxCountAssumption == MaxCount \in Nat

NoReading == -1

Outcomes == {"BaselineEstablished", "Advanced", "Saturated", "Unchanged",
             "Regressed", "Held"}

Accumulator == [last        : Nat \cup {NoReading},
                accumulated : 0 .. MaxCount,
                unknown     : Nat,
                regressions : Nat,
                saturated   : BOOLEAN]

EmptyAccumulator == [last |-> NoReading, accumulated |-> 0, unknown |-> 0,
                     regressions |-> 0, saturated |-> FALSE]

-----------------------------------------------------------------------------
\* What observe() reports for a reading; each outcome is one of its returns.
ObserveOutcome(a, value, regressionAsReset) ==
  CASE a.last = NoReading -> "BaselineEstablished"
    [] a.last # NoReading /\ value > a.last ->
         IF a.accumulated + (value - a.last) > MaxCount THEN "Saturated" ELSE "Advanced"
    [] a.last # NoReading /\ value = a.last -> "Unchanged"
    [] OTHER -> IF regressionAsReset THEN "Regressed" ELSE "Held"

\* The accumulator after observe().
Observe(a, value, regressionAsReset) ==
  LET out == ObserveOutcome(a, value, regressionAsReset) IN
  [last        |-> IF out \in {"Unchanged", "Held"} THEN a.last ELSE value,
   accumulated |-> CASE out = "Advanced"  -> a.accumulated + (value - a.last)
                     [] out = "Saturated" -> MaxCount
                     [] OTHER             -> a.accumulated,
   unknown     |-> a.unknown + (IF out = "Regressed" THEN 1 ELSE 0),
   regressions |-> a.regressions + (IF out \in {"Regressed", "Held"} THEN 1 ELSE 0),
   saturated   |-> a.saturated \/ out = "Saturated"]

\* start_new_interval(nullopt): a break in observation. Only a break after a
\* reading leaves something unknown behind.
StartNewInterval(a) ==
  [a EXCEPT !.last = NoReading,
            !.unknown = IF a.last = NoReading THEN @ ELSE @ + 1]

=============================================================================
