------------------------------ MODULE History ------------------------------
(***************************************************************************)
(* LifecycleHistory: the bounded ring of a flow's lifecycle transitions. A *)
(* ring is a record of the buffer, indexed from 0, the index of its oldest *)
(* event, the number of events it holds, its capacity and the number of    *)
(* events that no longer fitted.                                           *)
(***************************************************************************)
EXTENDS Naturals, Sequences

CONSTANT NoEvent   \* a slot that was never written

EmptyRing == [buffer |-> [i \in {} |-> NoEvent], head |-> 0, size |-> 0, capacity |-> 0,
              dropped |-> 0]

\* to_vector: the events from the oldest to the newest.
ToVector(ring) ==
  [i \in 1 .. ring.size |-> ring.buffer[(ring.head + i - 1) % ring.capacity]]

\* set_capacity: the newest events are kept, in their order. Capacity 0
\* forgets them all and counts none of them as dropped.
SetCapacity(ring, capacity) ==
  IF capacity = ring.capacity THEN ring
  ELSE IF capacity = 0 THEN [EmptyRing EXCEPT !.dropped = ring.dropped]
  ELSE LET ordered == ToVector(ring)
           keep    == IF Len(ordered) < capacity THEN Len(ordered) ELSE capacity
           skip    == Len(ordered) - keep
       IN  [buffer   |-> [i \in 0 .. capacity - 1 |->
                            IF i < keep THEN ordered[skip + i + 1] ELSE NoEvent],
            head     |-> 0,
            size     |-> keep,
            capacity |-> capacity,
            dropped  |-> ring.dropped + skip]

Mutant_PushForgetsHead(ring, event) ==
  IF ring.capacity = 0 THEN [ring EXCEPT !.dropped = @ + 1]
  ELSE IF ring.size < ring.capacity
  THEN [ring EXCEPT !.buffer[(ring.head + ring.size) % ring.capacity] = event, !.size = @ + 1]
  ELSE [ring EXCEPT !.buffer[ring.head] = event, !.dropped = @ + 1]

\* push: a full ring overwrites its oldest event.
Push(ring, event) ==
  IF ring.capacity = 0 THEN [ring EXCEPT !.dropped = @ + 1]
  ELSE IF ring.size < ring.capacity
  THEN [ring EXCEPT !.buffer[(ring.head + ring.size) % ring.capacity] = event, !.size = @ + 1]
  ELSE [ring EXCEPT !.buffer[ring.head] = event,
                    !.head = (@ + 1) % ring.capacity,
                    !.dropped = @ + 1]

\* tail: the newest events, at most limit of them.
RingTail(ring, limit) ==
  LET take == IF limit < ring.size THEN limit ELSE ring.size
  IN  [i \in 1 .. take |-> ring.buffer[(ring.head + ring.size - take + i - 1) % ring.capacity]]

\* Engine::history: the rows a caller gets for a limit, 0 standing for no
\* limit of its own, and whether the ring holds more.
HistoryReport(ring, limit, maxRows) ==
  LET bounded == IF limit = 0 \/ limit > maxRows THEN maxRows ELSE limit
      events  == RingTail(ring, bounded)
  IN  [events |-> events, dropped |-> ring.dropped, truncated |-> ring.size > Len(events)]
=============================================================================
