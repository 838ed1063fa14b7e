----------------------------- MODULE Transport ------------------------------
(***************************************************************************)
(* The connections of the server: the thread in serve() that accepts them, *)
(* the pool of handler threads that serve them, the clients, and the       *)
(* thread that calls stop() and join().                                    *)
(*                                                                         *)
(* A descriptor is a number the system gives out again as soon as it is    *)
(* closed, the lowest free one first; pending and active hold descriptors, *)
(* and owner says whose connection a descriptor is. A client connects      *)
(* once, so a connection is named by its client. What the engine answers   *)
(* is left out: a request is answered, or the reply cannot be sent (it     *)
(* does not fit in a frame, or the peer is gone).                          *)
(*                                                                         *)
(* A critical section under the mutex is one step. Testing the predicate   *)
(* of the condition variable and blocking is one step too: pending changes *)
(* only under the mutex, and stop() takes the mutex between setting the    *)
(* flag and notifying.                                                     *)
(***************************************************************************)
EXTENDS Naturals, Sequences, FiniteSets

CONSTANTS Clients,
          Handlers,   \* as many as max_connections
          NoClient

ASSUME TransportAssumption ==
  IsFiniteSet(Clients) /\ IsFiniteSet(Handlers) /\ NoClient \notin Clients

VARIABLES
  stop,       \* the stop flag
  listener,   \* the listening socket is open
  backlog,    \* connections the system holds for accept
  spc, sfd,   \* the serve loop and the connection it has accepted
  pending, active,
  owner,      \* whose connection a descriptor is
  hpc, hfd,   \* the handlers and the descriptor each one serves
  cpc,        \* the clients
  inbox,      \* what each client has sent and the server not yet read
  down,       \* connections whose server end is shut down or closed
  ctl         \* the thread that stops the server

kernel  == <<backlog, owner, down>>
server  == <<spc, sfd>>
pool    == <<hpc, hfd>>
lists   == <<pending, active>>
flags   == <<stop, listener>>
peers   == <<cpc, inbox>>
vars == <<stop, listener, backlog, spc, sfd, pending, active, owner, hpc, hfd,
          cpc, inbox, down, ctl>>

MaxConnections == Cardinality(Handlers)
Fds  == 1 .. Cardinality(Clients)
NoFd == 0

Elements(q) == {q[i] : i \in 1 .. Len(q)}

(* A frame that does not decode is a request whose reply, an Error, also    *)
(* ends the connection.                                                     *)
Messages == {"request", "bye", "shutdown"}

Init ==
  /\ stop = FALSE /\ listener = TRUE
  /\ backlog = <<>>
  /\ spc = "call" /\ sfd = NoFd
  /\ pending = <<>> /\ active = <<>>
  /\ owner = [f \in Fds |-> NoClient]
  /\ hpc = [h \in Handlers |-> "wait"]
  /\ hfd = [h \in Handlers |-> NoFd]
  /\ cpc = [c \in Clients |-> "idle"]
  /\ inbox = [c \in Clients |-> "none"]
  /\ down = {}
  /\ ctl = "idle"

-----------------------------------------------------------------------------
(* Descriptors. *)

LowestFree ==
  CHOOSE f \in Fds : owner[f] = NoClient /\ \A g \in Fds : g < f => owner[g] # NoClient

Connections(fs) == {owner[f] : f \in fs} \ {NoClient}

(* close() of every descriptor in fs; what was not read is discarded *)
CloseAll(fs) ==
  /\ owner' = [f \in Fds |-> IF f \in fs THEN NoClient ELSE owner[f]]
  /\ inbox' = [c \in Clients |-> IF c \in Connections(fs) THEN "none" ELSE inbox[c]]

(* Closing the listening descriptor does not interrupt a thread that is     *)
(* already blocked in accept, and the socket lives until accept returns.    *)
Listening == listener \/ spc = "accepting"

-----------------------------------------------------------------------------
(* The clients. *)

Connect(c) ==
  /\ cpc[c] = "idle"
  /\ IF Listening THEN cpc' = [cpc EXCEPT ![c] = "open"] /\ backlog' = Append(backlog, c)
                  ELSE cpc' = [cpc EXCEPT ![c] = "closed"] /\ UNCHANGED backlog
  /\ UNCHANGED <<flags, server, lists, owner, pool, inbox, down, ctl>>

Dropped(c) == c \in down \/ (~Listening /\ c \in Elements(backlog))

(* Only a request is answered, so only there the client waits. Sending on a *)
(* connection the server has ended fails and changes nothing.               *)
Send(c, m) ==
  /\ cpc[c] = "open" /\ inbox[c] = "none" /\ ~Dropped(c)
  /\ inbox' = [inbox EXCEPT ![c] = m]
  /\ cpc' = [cpc EXCEPT ![c] = IF m = "request" THEN "waiting" ELSE @]
  /\ UNCHANGED <<flags, kernel, server, lists, pool, ctl>>

ClientCloses(c) ==
  /\ cpc[c] \in {"open", "waiting"}
  /\ cpc' = [cpc EXCEPT ![c] = "closed"]
  /\ UNCHANGED <<flags, kernel, server, lists, pool, inbox, ctl>>

(* receive() finds the connection ended and closes the client's side *)
ClientSeesEnd(c) ==
  /\ Dropped(c) /\ cpc[c] = "waiting"
  /\ cpc' = [cpc EXCEPT ![c] = "closed"]
  /\ UNCHANGED <<flags, kernel, server, lists, pool, inbox, ctl>>

-----------------------------------------------------------------------------
(* serve() *)

ServeCalls ==
  /\ spc = "call"
  /\ spc' = IF listener THEN "accepting" ELSE "returned"
  /\ UNCHANGED <<flags, kernel, sfd, lists, pool, peers, ctl>>

AcceptReturns ==
  /\ spc = "accepting" /\ backlog # <<>>
  /\ sfd' = LowestFree
  /\ owner' = [owner EXCEPT ![LowestFree] = Head(backlog)]
  /\ backlog' = Tail(backlog)
  /\ spc' = "check"
  /\ UNCHANGED <<flags, lists, pool, peers, down, ctl>>

(* On some systems closing the listener does interrupt accept. *)
AcceptFails ==
  /\ spc = "accepting" /\ ~listener
  /\ spc' = "returned"
  /\ UNCHANGED <<flags, kernel, sfd, lists, pool, peers, ctl>>

AtLimit == Len(pending) + Len(active) >= MaxConnections

ServeChecks ==
  /\ spc = "check"
  /\ ~stop /\ spc' = "push"
  /\ UNCHANGED <<flags, kernel, sfd, lists, pool, peers, ctl>>

(* after a stop, or at the limit, the connection is closed at once *)
ServeRefuses ==
  /\ \/ spc = "check" /\ stop /\ spc' = "returned"
     \/ spc = "push" /\ AtLimit /\ spc' = "call"
  /\ CloseAll({sfd}) /\ down' = down \cup Connections({sfd})
  /\ sfd' = NoFd
  /\ UNCHANGED <<flags, backlog, lists, pool, cpc, ctl>>

ServePushes ==
  /\ spc = "push" /\ ~AtLimit
  /\ pending' = Append(pending, sfd)
  /\ sfd' = NoFd /\ spc' = "notify"
  /\ UNCHANGED <<flags, kernel, active, pool, peers, ctl>>

Blocked == {h \in Handlers : hpc[h] = "blocked"}

Wake(hs) == hpc' = [h \in Handlers |-> IF h \in hs THEN "wait" ELSE hpc[h]]

Mutant_NoNotify ==
  /\ spc = "notify" /\ spc' = "call"
  /\ UNCHANGED <<flags, kernel, sfd, lists, pool, peers, ctl>>

ServeNotifies ==
  /\ spc = "notify" /\ spc' = "call"
  /\ IF Blocked = {} THEN UNCHANGED hpc ELSE \E h \in Blocked : Wake({h})
  /\ UNCHANGED <<flags, kernel, sfd, lists, hfd, peers, ctl>>

-----------------------------------------------------------------------------
(* handler_loop() and handle_connection() *)

HandlerBlocks(h) ==
  /\ hpc[h] = "wait" /\ pending = <<>> /\ ~stop
  /\ hpc' = [hpc EXCEPT ![h] = "blocked"]
  /\ UNCHANGED <<flags, kernel, server, lists, hfd, peers, ctl>>

HandlerWakesSpuriously(h) ==
  /\ hpc[h] = "blocked" /\ Wake({h})
  /\ UNCHANGED <<flags, kernel, server, lists, hfd, peers, ctl>>

HandlerExits(h) ==
  /\ hpc[h] = "wait" /\ pending = <<>> /\ stop
  /\ hpc' = [hpc EXCEPT ![h] = "exited"]
  /\ UNCHANGED <<flags, kernel, server, lists, hfd, peers, ctl>>

HandlerTakes(h) ==
  /\ hpc[h] = "wait" /\ pending # <<>>
  /\ hfd' = [hfd EXCEPT ![h] = Head(pending)]
  /\ pending' = Tail(pending)
  /\ active' = Append(active, Head(pending))
  /\ hpc' = [hpc EXCEPT ![h] = "serve"]
  /\ UNCHANGED <<flags, kernel, server, peers, ctl>>

Peer(h) == owner[hfd[h]]

(* recv_exact and dispatch of a request; stop is tested after the reply *)
Answer(h) ==
  /\ hpc[h] = "serve" /\ inbox[Peer(h)] = "request"
  /\ Peer(h) \notin down
  /\ inbox' = [inbox EXCEPT ![Peer(h)] = "none"]
  /\ cpc' = [cpc EXCEPT ![Peer(h)] = IF @ = "waiting" THEN "open" ELSE @]
  /\ hpc' = [hpc EXCEPT ![h] = IF stop THEN "close" ELSE "serve"]
  /\ UNCHANGED <<flags, kernel, server, lists, hfd, ctl>>

(* the frame does not decode, the reply exceeds max_frame_bytes, or the     *)
(* peer is gone                                                             *)
ReplyFails(h) ==
  /\ hpc[h] = "serve" /\ inbox[Peer(h)] = "request"
  /\ inbox' = [inbox EXCEPT ![Peer(h)] = "none"]
  /\ hpc' = [hpc EXCEPT ![h] = "close"]
  /\ UNCHANGED <<flags, kernel, server, lists, hfd, cpc, ctl>>

(* Bye, with or without the request to stop serving *)
Hangup(h) ==
  /\ hpc[h] = "serve" /\ inbox[Peer(h)] \in {"bye", "shutdown"}
  /\ IF inbox[Peer(h)] = "shutdown" THEN stop' = TRUE /\ listener' = FALSE
                                    ELSE UNCHANGED flags
  /\ inbox' = [inbox EXCEPT ![Peer(h)] = "none"]
  /\ hpc' = [hpc EXCEPT ![h] = "close"]
  /\ UNCHANGED <<kernel, server, lists, hfd, cpc, ctl>>

(* recv_exact returns false *)
ReceiveEnds(h) ==
  /\ hpc[h] = "serve"
  /\ Peer(h) \in down \/ (cpc[Peer(h)] = "closed" /\ inbox[Peer(h)] = "none")
  /\ hpc' = [hpc EXCEPT ![h] = "close"]
  /\ UNCHANGED <<flags, kernel, server, lists, hfd, peers, ctl>>

HandlerCloses(h) ==
  /\ hpc[h] = "close"
  /\ CloseAll({hfd[h]}) /\ down' = down \cup {Peer(h)}
  /\ hpc' = [hpc EXCEPT ![h] = "erase"]
  /\ UNCHANGED <<flags, backlog, server, lists, hfd, cpc, ctl>>

(* std::remove takes out every element equal to the descriptor *)
HandlerErases(h) ==
  /\ hpc[h] = "erase"
  /\ active' = SelectSeq(active, LAMBDA f : f # hfd[h])
  /\ hfd' = [hfd EXCEPT ![h] = NoFd]
  /\ hpc' = [hpc EXCEPT ![h] = IF stop /\ pending = <<>> THEN "exited" ELSE "wait"]
  /\ UNCHANGED <<flags, kernel, server, pending, peers, ctl>>

-----------------------------------------------------------------------------
(* stop() and join() *)

StopSetsFlag ==
  /\ ctl = "idle" /\ ctl' = "shut"
  /\ stop' = TRUE /\ listener' = FALSE
  /\ UNCHANGED <<kernel, server, lists, pool, peers>>

Mutant_ForgetsPending ==
  /\ ctl = "shut" /\ ctl' = "notify"
  /\ down' = down \cup Connections(Elements(active))
  /\ pending' = <<>>
  /\ UNCHANGED <<flags, backlog, owner, server, active, pool, peers>>

StopEndsConnections ==
  /\ ctl = "shut" /\ ctl' = "notify"
  /\ CloseAll(Elements(pending))
  /\ down' = down \cup Connections(Elements(active) \cup Elements(pending))
  /\ pending' = <<>>
  /\ UNCHANGED <<flags, backlog, server, active, pool, cpc>>

Mutant_NotifyOne ==
  /\ ctl = "notify" /\ ctl' = "join"
  /\ IF Blocked = {} THEN UNCHANGED hpc ELSE \E h \in Blocked : Wake({h})
  /\ UNCHANGED <<flags, kernel, server, lists, hfd, peers>>

StopNotifies ==
  /\ ctl = "notify" /\ ctl' = "join"
  /\ Wake(Blocked)
  /\ UNCHANGED <<flags, kernel, server, lists, hfd, peers>>

Join ==
  /\ ctl = "join" /\ \A h \in Handlers : hpc[h] = "exited"
  /\ ctl' = "joined"
  /\ UNCHANGED <<flags, kernel, server, lists, pool, peers>>

-----------------------------------------------------------------------------
ServeStep == \/ ServeCalls \/ AcceptReturns \/ ServeChecks
             \/ ServeRefuses \/ ServePushes \/ ServeNotifies

HandlerStep(h) ==
  \/ HandlerBlocks(h) \/ HandlerExits(h) \/ HandlerTakes(h)
  \/ Answer(h) \/ ReplyFails(h) \/ Hangup(h) \/ ReceiveEnds(h)
  \/ HandlerCloses(h) \/ HandlerErases(h)

ControlStep == StopEndsConnections \/ StopNotifies \/ Join

Next ==
  \/ ServeStep
  \/ AcceptFails
  \/ \E h \in Handlers : HandlerStep(h) \/ HandlerWakesSpuriously(h)
  \/ StopSetsFlag
  \/ ControlStep
  \/ \E c \in Clients : \/ Connect(c) \/ ClientCloses(c) \/ ClientSeesEnd(c)
                        \/ \E m \in Messages : Send(c, m)

(* Threads that can run do run; accept returns a connection it is offered,  *)
(* and a client waiting for a reply learns that the connection has ended.   *)
(* Nobody is obliged to connect, to send, to close or to stop the server,   *)
(* and nothing obliges the system to interrupt accept.                      *)
Fairness ==
  /\ WF_vars(ServeStep)
  /\ \A h \in Handlers : WF_vars(HandlerStep(h))
  /\ WF_vars(ControlStep)
  /\ \A c \in Clients : WF_vars(ClientSeesEnd(c))

Spec == Init /\ [][Next]_vars /\ Fairness

-----------------------------------------------------------------------------
(* Types, and the bound on the connections the server has on its lists.     *)
TypeOK ==
  /\ stop \in BOOLEAN /\ listener \in BOOLEAN
  /\ backlog \in Seq(Clients)
  /\ spc \in {"call", "accepting", "check", "push", "notify", "returned"}
  /\ sfd \in Fds \cup {NoFd}
  /\ pending \in Seq(Fds) /\ active \in Seq(Fds)
  /\ Len(pending) + Len(active) <= MaxConnections
  /\ owner \in [Fds -> Clients \cup {NoClient}]
  /\ hpc \in [Handlers -> {"wait", "blocked", "serve", "close", "erase", "exited"}]
  /\ hfd \in [Handlers -> Fds \cup {NoFd}]
  /\ cpc \in [Clients -> {"idle", "open", "waiting", "closed"}]
  /\ inbox \in [Clients -> Messages \cup {"none"}]
  /\ down \subseteq Clients
  /\ ctl \in {"idle", "shut", "notify", "join", "joined"}

(* The places in which a descriptor is held by someone who will close it.    *)
HeldByServe(f)      == spc \in {"check", "push"} /\ sfd = f
HeldInPending(f, i) == i \in 1 .. Len(pending) /\ pending[i] = f
HeldByHandler(f, h) == hpc[h] \in {"serve", "close"} /\ hfd[h] = f

Holders(f) ==
  (IF HeldByServe(f) THEN {<<"serve", 0>>} ELSE {})
    \cup {<<"pending", i>> : i \in {j \in 1 .. Len(pending) : pending[j] = f}}
    \cup {<<"handler", h>> : h \in {g \in Handlers : HeldByHandler(f, g)}}

(* Every open connection is held by exactly one of the serve loop, the      *)
(* pending list and a handler, and nobody holds a closed one: whatever the  *)
(* order of accepting, serving, stopping and reusing descriptors, no        *)
(* connection is leaked and none is closed or read by two threads.          *)
OneHolder ==
  \A f \in Fds : Cardinality(Holders(f)) = IF owner[f] = NoClient THEN 0 ELSE 1

(* Every connection in service is on the active list. It is not always: a   *)
(* handler closes its descriptor before it takes it off the list, and a     *)
(* connection accepted in between has the same descriptor.                  *)
Tracked ==
  \A h \in Handlers : hpc[h] = "serve" => hfd[h] \in Elements(active)

(* A client that waits for an answer gets one or is disconnected, through   *)
(* the accept, the limit, the pending list, the notification and the        *)
(* handler, as long as the server is not stopped and every connection in    *)
(* service is on the active list.                                           *)
RequestIsAnswered ==
  \A c \in Clients : cpc[c] = "waiting" ~> (cpc[c] # "waiting" \/ stop \/ ~Tracked)

(* Once the clients have gone join() returns: every handler learns of the   *)
(* stop wherever it was when stop() was called.                             *)
JoinReturns ==
  <>[](\A c \in Clients : cpc[c] \in {"idle", "closed"})
    => (ctl = "join" ~> ctl = "joined")

(* docs/concurrency.md: stop() "shuts down every active connection socket,  *)
(* which makes the blocking reads in the connection handlers return", after *)
(* which join() returns whatever the clients do.                            *)
StopReleasesJoin == ctl = "join" ~> ctl = "joined"
=============================================================================
