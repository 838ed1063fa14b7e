--------------------------- MODULE IngestContract ---------------------------
(***************************************************************************)
(* What the ingest paths of the engine promise of each observation that is *)
(* handed to them: it is answered once, a refused or dropped one is never  *)
(* applied, an accepted one is applied at most once, and it can only be    *)
(* lost while the engine is not open.                                      *)
(***************************************************************************)
CONSTANT Observations

VARIABLES open,     \* the engine is open
          status    \* the fate of every observation

Fates == {"new", "refused", "dropped", "queued", "applied", "lost"}

-----------------------------------------------------------------------------
Init ==
  /\ open = FALSE
  /\ status = [o \in Observations |-> "new"]

Move(S, from, to) ==
  /\ S # {}
  /\ \A o \in S : status[o] = from
  /\ status' = [o \in Observations |-> IF o \in S THEN to ELSE status[o]]
  /\ UNCHANGED open

Answer == \E o \in Observations, fate \in {"refused", "dropped", "queued", "applied"} :
            Move({o}, "new", fate)

Apply == \E S \in SUBSET Observations : Move(S, "queued", "applied")

Lose == ~open /\ \E S \in SUBSET Observations : Move(S, "queued", "lost")

OpenOrClose == open' = ~open /\ UNCHANGED status

Next == Answer \/ Apply \/ Lose \/ OpenOrClose

Spec == Init /\ [][Next]_<<open, status>>
=============================================================================
