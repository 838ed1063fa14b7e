-------------------------- MODULE TransportProofs --------------------------
(***************************************************************************)
(* Every open connection of the server has one holder, for every number of *)
(* clients and handlers. The server names a connection by its descriptor,  *)
(* and the system reuses descriptors at once: what makes this safe is that *)
(* a descriptor in use belongs to one client and is known at one place.    *)
(* The list of active connections takes no part in it.                     *)
(***************************************************************************)
EXTENDS Transport, SequenceTheorems, FiniteSetTheorems, ProofLemmas, TLAPS

Holding(h) == hpc[h] \in {"serve", "close"}

\* The variables the argument is about.
ConnectionTypes ==
  /\ backlog \in Seq(Clients)
  /\ spc \in {"call", "accepting", "check", "push", "notify", "returned"}
  /\ sfd \in Fds \cup {NoFd}
  /\ pending \in Seq(Fds)
  /\ owner \in [Fds -> Clients \cup {NoClient}]
  /\ hpc \in [Handlers -> {"wait", "blocked", "serve", "close", "erase", "exited"}]
  /\ hfd \in [Handlers -> Fds \cup {NoFd}]
  /\ cpc \in [Clients -> {"idle", "open", "waiting", "closed"}]

\* A descriptor is at one place at most, and it is open where it is.
KnownOnce ==
  /\ spc \in {"check", "push"} <=> sfd # NoFd
  /\ \A h \in Handlers : Holding(h) => hfd[h] # NoFd
  /\ \A i, j \in 1 .. Len(pending) : pending[i] = pending[j] => i = j
  /\ sfd \notin Elements(pending)
  /\ \A h \in Handlers : Holding(h) => hfd[h] # sfd /\ hfd[h] \notin Elements(pending)
  /\ \A g, h \in Handlers : Holding(g) /\ Holding(h) /\ hfd[g] = hfd[h] => g = h
  /\ \A f \in Fds : owner[f] # NoClient <=>
       f = sfd \/ f \in Elements(pending) \/ \E h \in Handlers : Holding(h) /\ hfd[h] = f

\* A client has at most one connection, which is in the backlog or accepted.
ConnectedOnce ==
  /\ \A f, g \in Fds : owner[f] = owner[g] /\ owner[f] # NoClient => f = g
  /\ \A i, j \in 1 .. Len(backlog) : backlog[i] = backlog[j] => i = j
  /\ \A f \in Fds : owner[f] \notin Elements(backlog)
  /\ \A c \in Clients : cpc[c] = "idle" =>
       c \notin Elements(backlog) /\ \A f \in Fds : owner[f] # c

\* The inductive invariant.
IInv == ConnectionTypes /\ KnownOnce /\ ConnectedOnce

-----------------------------------------------------------------------------
\* There is a descriptor for a client that has none: not all of them are
\* taken, since every taken one belongs to another client.
LEMMA DescriptorFree ==
  ASSUME ConnectionTypes, ConnectedOnce, NEW c \in Clients, \A f \in Fds : owner[f] # c
  PROVE  LowestFree \in Fds /\ owner[LowestFree] = NoClient
<1>1. Cardinality(Clients) \in Nat /\ Fds \subseteq Nat
  BY TransportAssumption, FS_CardinalityType DEF Fds
<1>2. \E f \in Fds : owner[f] = NoClient
  <2> SUFFICES ASSUME \A f \in Fds : owner[f] # NoClient
               PROVE  FALSE
    OBVIOUS
  <2> DEFINE Others == Clients \ {c}
  <2>1. IsFiniteSet(Fds) /\ Cardinality(Fds) = Cardinality(Clients)
    BY <1>1, FS_Interval DEF Fds
  <2>2. IsFiniteSet(Others) /\ Cardinality(Others) = Cardinality(Clients) - 1
    BY TransportAssumption, FS_RemoveElement
  <2>3. owner \in [Fds -> Others]
    BY DEF ConnectionTypes
  <2> HIDE DEF Others
  <2>4. Cardinality(Others) < Cardinality(Fds)
    BY <1>1, <2>1, <2>2
  <2>5. \E f, g \in Fds : f # g /\ owner[f] = owner[g]
    BY <2>1, <2>2, <2>3, <2>4, FS_PigeonHole
  <2> QED
    BY <2>5 DEF ConnectedOnce
<1>3. PICK f \in {g \in Fds : owner[g] = NoClient} :
        \A g \in {e \in Fds : owner[e] = NoClient} : f <= g
  BY <1>1, <1>2, LeastNumber
<1>4. f \in Fds /\ owner[f] = NoClient /\ \A g \in Fds : g < f => owner[g] # NoClient
  BY <1>1, <1>3
<1> QED
  BY <1>4 DEF LowestFree

\* Taking the head off a list without repetitions.
LEMMA TailOfList ==
  ASSUME NEW S, NEW q \in Seq(S), q # <<>>,
         \A i, j \in 1 .. Len(q) : q[i] = q[j] => i = j
  PROVE  /\ Head(q) \in S /\ Tail(q) \in Seq(S)
         /\ Elements(q) = Elements(Tail(q)) \cup {Head(q)}
         /\ Head(q) \notin Elements(Tail(q))
         /\ \A i, j \in 1 .. Len(Tail(q)) : Tail(q)[i] = Tail(q)[j] => i = j
<1>1. /\ Head(q) \in S /\ Tail(q) \in Seq(S) /\ Head(q) = q[1]
      /\ Len(q) \in Nat /\ Len(q) # 0 /\ Len(Tail(q)) = Len(q) - 1
      /\ \A i \in 1 .. Len(Tail(q)) : Tail(q)[i] = q[i + 1]
  BY HeadTailProperties, EmptySeq, LenProperties
<1>2. ASSUME NEW x \in Elements(q) PROVE x \in Elements(Tail(q)) \cup {Head(q)}
  <2>1. PICK i \in 1 .. Len(q) : x = q[i]
    BY <1>2 DEF Elements
  <2>2. i = 1 \/ (i - 1 \in 1 .. Len(Tail(q)) /\ Tail(q)[i - 1] = q[i])
    BY <1>1
  <2> QED
    BY <1>1, <2>1, <2>2 DEF Elements
<1>3. \A i \in 1 .. Len(Tail(q)) : i + 1 \in 1 .. Len(q) /\ i + 1 # 1
  BY <1>1
<1>4. 1 \in 1 .. Len(q)
  BY <1>1
<1>5. Head(q) \notin Elements(Tail(q))
  BY <1>1, <1>3, <1>4 DEF Elements
<1>6. Elements(Tail(q)) \cup {Head(q)} \subseteq Elements(q)
  BY <1>1, <1>3, <1>4 DEF Elements
<1>7. \A i, j \in 1 .. Len(Tail(q)) : Tail(q)[i] = Tail(q)[j] => i = j
  BY <1>1, <1>3
<1> QED
  BY <1>1, <1>2, <1>5, <1>6, <1>7

\* Putting a new element behind such a list.
LEMMA AppendToList ==
  ASSUME NEW S, NEW q \in Seq(S), NEW x \in S, x \notin Elements(q),
         \A i, j \in 1 .. Len(q) : q[i] = q[j] => i = j
  PROVE  /\ Append(q, x) \in Seq(S)
         /\ Elements(Append(q, x)) = Elements(q) \cup {x}
         /\ \A i, j \in 1 .. Len(Append(q, x)) : Append(q, x)[i] = Append(q, x)[j] => i = j
<1> DEFINE r == Append(q, x)
<1>1. /\ r \in Seq(S) /\ Len(q) \in Nat /\ Len(r) = Len(q) + 1
      /\ \A i \in 1 .. Len(q) : r[i] = q[i]
      /\ r[Len(q) + 1] = x
  BY AppendProperties, LenProperties
<1> HIDE DEF r
<1>2. 1 .. Len(r) = (1 .. Len(q)) \cup {Len(q) + 1}
  BY <1>1
<1>3. Elements(r) = Elements(q) \cup {x}
  BY <1>1, <1>2 DEF Elements
<1>4. \A n \in 1 .. Len(q) : q[n] # x
  BY DEF Elements
<1>5. \A i, j \in 1 .. Len(r) : r[i] = r[j] => i = j
  BY <1>1, <1>2, <1>4
<1> QED
  BY <1>1, <1>3, <1>5 DEF r

-----------------------------------------------------------------------------
\* accept gives the first connection of the backlog a descriptor that was free.
LEMMA AcceptGives ==
  ASSUME IInv, AcceptReturns
  PROVE  /\ sfd' \in Fds /\ sfd' # NoFd /\ owner[sfd'] = NoClient
         /\ owner' = [owner EXCEPT ![sfd'] = Head(backlog)]
         /\ Head(backlog) \in Clients /\ Head(backlog) # NoClient
         /\ \A f \in Fds : owner[f] # Head(backlog)
         /\ backlog' \in Seq(Clients)
         /\ Elements(backlog) = Elements(backlog') \cup {Head(backlog)}
         /\ Head(backlog) \notin Elements(backlog')
         /\ \A i, j \in 1 .. Len(backlog') : backlog'[i] = backlog'[j] => i = j
<1>1. /\ sfd' = LowestFree /\ owner' = [owner EXCEPT ![LowestFree] = Head(backlog)]
      /\ backlog' = Tail(backlog) /\ backlog # <<>>
  BY DEF AcceptReturns
<1>2. /\ Head(backlog) \in Clients /\ Tail(backlog) \in Seq(Clients)
      /\ Elements(backlog) = Elements(Tail(backlog)) \cup {Head(backlog)}
      /\ Head(backlog) \notin Elements(Tail(backlog))
      /\ \A i, j \in 1 .. Len(Tail(backlog)) : Tail(backlog)[i] = Tail(backlog)[j] => i = j
  BY <1>1, TailOfList DEF IInv, ConnectionTypes, ConnectedOnce
<1>3. \A f \in Fds : owner[f] # Head(backlog)
  BY <1>2 DEF IInv, ConnectedOnce
<1>4. LowestFree \in Fds /\ owner[LowestFree] = NoClient
  BY <1>2, <1>3, DescriptorFree DEF IInv
<1>5. LowestFree # NoFd
  BY <1>4, TransportAssumption, FS_CardinalityType DEF Fds, NoFd
<1> QED
  BY <1>1, <1>2, <1>3, <1>4, <1>5, TransportAssumption

\* One step keeps the types.
LEMMA TypesStep ==
  ASSUME IInv, [Next]_vars
  PROVE  ConnectionTypes'
<1> USE DEF IInv
<1> USE DEF kernel, server, pool, lists, flags, peers
<1>1. ASSUME NEW c \in Clients, Connect(c) PROVE ConnectionTypes'
  <2>1. backlog' \in Seq(Clients)
    <3>1. backlog \in Seq(Clients) /\ (UNCHANGED backlog \/ backlog' = Append(backlog, c))
      BY <1>1 DEF Connect, ConnectionTypes
    <3> QED
      BY <3>1, AppendProperties
  <2>2. cpc' \in [Clients -> {"idle", "open", "waiting", "closed"}]
    BY <1>1 DEF Connect, ConnectionTypes
  <2> QED
    BY <1>1, <2>1, <2>2 DEF Connect, ConnectionTypes
<1>2. ASSUME NEW c \in Clients, NEW m \in Messages, Send(c, m) PROVE ConnectionTypes'
  BY <1>2 DEF Send, ConnectionTypes
<1>3. ASSUME NEW c \in Clients, ClientCloses(c) \/ ClientSeesEnd(c) PROVE ConnectionTypes'
  BY <1>3 DEF ClientCloses, ClientSeesEnd, ConnectionTypes
<1>4. CASE ServeCalls \/ AcceptFails \/ ServeChecks
  BY <1>4 DEF ServeCalls, AcceptFails, ServeChecks, ConnectionTypes
<1>5. CASE AcceptReturns
  <2>1. /\ sfd' \in Fds /\ owner' = [owner EXCEPT ![sfd'] = Head(backlog)]
        /\ Head(backlog) \in Clients /\ backlog' \in Seq(Clients)
    BY <1>5, AcceptGives
  <2> QED
    BY <1>5, <2>1 DEF AcceptReturns, ConnectionTypes
<1>6. CASE ServeRefuses
  BY <1>6 DEF ServeRefuses, CloseAll, ConnectionTypes
<1>7. CASE ServePushes
  <2>1. pending' = Append(pending, sfd) /\ sfd \in Fds /\ pending \in Seq(Fds)
    BY <1>7 DEF ServePushes, ConnectionTypes, KnownOnce
  <2>2. pending' \in Seq(Fds)
    BY <2>1, AppendProperties
  <2> QED
    BY <1>7, <2>2 DEF ServePushes, ConnectionTypes
<1>8. CASE ServeNotifies
  BY <1>8 DEF ServeNotifies, Wake, ConnectionTypes
<1>9. ASSUME NEW h \in Handlers,
             HandlerBlocks(h) \/ HandlerWakesSpuriously(h) \/ HandlerExits(h)
      PROVE  ConnectionTypes'
  BY <1>9 DEF HandlerBlocks, HandlerWakesSpuriously, HandlerExits, Wake, ConnectionTypes
<1>10. ASSUME NEW h \in Handlers, HandlerTakes(h) PROVE ConnectionTypes'
  <2>1. Head(pending) \in Fds /\ Tail(pending) \in Seq(Fds)
    BY <1>10, HeadTailProperties DEF HandlerTakes, ConnectionTypes
  <2> QED
    BY <1>10, <2>1 DEF HandlerTakes, ConnectionTypes
<1>11. ASSUME NEW h \in Handlers, Answer(h) PROVE ConnectionTypes'
  <2>1. cpc' \in [Clients -> {"idle", "open", "waiting", "closed"}]
    BY <1>11 DEF Answer, ConnectionTypes
  <2>2. hpc' \in [Handlers -> {"wait", "blocked", "serve", "close", "erase", "exited"}]
    BY <1>11 DEF Answer, ConnectionTypes
  <2> QED
    BY <1>11, <2>1, <2>2 DEF Answer, ConnectionTypes
<1>12. ASSUME NEW h \in Handlers, ReplyFails(h) \/ Hangup(h) \/ ReceiveEnds(h)
       PROVE  ConnectionTypes'
  BY <1>12 DEF ReplyFails, Hangup, ReceiveEnds, ConnectionTypes
<1>13. ASSUME NEW h \in Handlers, HandlerCloses(h) PROVE ConnectionTypes'
  BY <1>13 DEF HandlerCloses, CloseAll, ConnectionTypes
<1>14. ASSUME NEW h \in Handlers, HandlerErases(h) PROVE ConnectionTypes'
  BY <1>14 DEF HandlerErases, ConnectionTypes
<1>15. CASE StopSetsFlag \/ Join \/ UNCHANGED vars
  BY <1>15 DEF StopSetsFlag, Join, vars, ConnectionTypes
<1>16. CASE StopEndsConnections
  BY <1>16 DEF StopEndsConnections, CloseAll, ConnectionTypes
<1>17. CASE StopNotifies
  BY <1>17 DEF StopNotifies, Wake, ConnectionTypes
<1> QED
  BY <1>1, <1>2, <1>3, <1>4, <1>5, <1>6, <1>7, <1>8, <1>9, <1>10, <1>11, <1>12, <1>13, <1>14,
     <1>15, <1>16, <1>17
     DEF Next, ServeStep, HandlerStep, ControlStep

-----------------------------------------------------------------------------
\* The descriptors stay where they are, whatever their connections do.
LEMMA PlacesKept ==
  ASSUME KnownOnce, UNCHANGED <<sfd, pending, owner>>,
         spc' \in {"check", "push"} <=> spc \in {"check", "push"},
         \A h \in Handlers : /\ Holding(h)' <=> Holding(h)
                             /\ Holding(h) => hfd'[h] = hfd[h]
  PROVE  KnownOnce'
<1>1. Elements(pending') = Elements(pending)
  BY DEF Elements
<1> QED
  BY <1>1 DEF KnownOnce

\* One step keeps each descriptor in use at one place.
LEMMA KnownOnceStep ==
  ASSUME IInv, [Next]_vars
  PROVE  KnownOnce'
<1> USE DEF IInv
<1> USE DEF kernel, server, pool, lists, flags, peers
<1>1. CASE UNCHANGED <<spc, sfd, pending, owner, hpc, hfd>>
  BY <1>1, PlacesKept DEF Holding
<1>2. CASE ServeCalls \/ AcceptFails \/ ServeChecks
  <2>1. /\ UNCHANGED <<sfd, pending, owner, hpc, hfd>>
        /\ spc' \in {"check", "push"} <=> spc \in {"check", "push"}
    BY <1>2 DEF ServeCalls, AcceptFails, ServeChecks
  <2> QED
    BY <2>1, PlacesKept DEF Holding
<1>3. CASE AcceptReturns
  <2>1. /\ sfd' \in Fds /\ sfd' # NoFd /\ owner[sfd'] = NoClient
        /\ owner' = [owner EXCEPT ![sfd'] = Head(backlog)] /\ Head(backlog) # NoClient
    BY <1>3, AcceptGives
  <2>2. /\ sfd = NoFd /\ spc' = "check"
        /\ UNCHANGED <<pending, hpc, hfd>>
    BY <1>3 DEF AcceptReturns, KnownOnce
  <2>3. Elements(pending') = Elements(pending)
    BY <2>2 DEF Elements
  <2>4. /\ sfd' \notin Elements(pending)
        /\ \A h \in Handlers : Holding(h) => hfd[h] # sfd'
    BY <2>1 DEF KnownOnce
  <2>5. \A h \in Handlers : Holding(h)' <=> Holding(h)
    BY <2>2 DEF Holding
  <2>6. \A f \in Fds : owner'[f] # NoClient <=> f = sfd' \/ owner[f] # NoClient
    BY <2>1 DEF ConnectionTypes
  <2>7. \A f \in Fds : owner'[f] # NoClient <=>
          f = sfd' \/ f \in Elements(pending') \/ \E h \in Handlers : Holding(h)' /\ hfd'[h] = f
    <3>1. \A f \in Fds : f # NoFd
      BY TransportAssumption, FS_CardinalityType DEF Fds, NoFd
    <3> QED
      BY <2>2, <2>3, <2>5, <2>6, <3>1 DEF KnownOnce
  <2> QED
    BY <2>1, <2>2, <2>3, <2>4, <2>5, <2>7 DEF KnownOnce
<1>4. CASE ServeRefuses
  <2>1. /\ spc \in {"check", "push"} /\ spc' \notin {"check", "push"} /\ sfd' = NoFd
        /\ owner' = [f \in Fds |-> IF f \in {sfd} THEN NoClient ELSE owner[f]]
        /\ UNCHANGED <<pending, hpc, hfd>>
    BY <1>4 DEF ServeRefuses, CloseAll
  <2>2. Elements(pending') = Elements(pending) /\ Elements(pending) \subseteq Fds
    BY <2>1, ElementOfSeq DEF Elements, ConnectionTypes
  <2>3. NoFd \notin Fds
    BY TransportAssumption, FS_CardinalityType DEF Fds, NoFd
  <2>4. \A h \in Handlers : Holding(h)' <=> Holding(h)
    BY <2>1 DEF Holding
  <2> QED
    BY <2>1, <2>2, <2>3, <2>4 DEF KnownOnce
<1>5. CASE ServePushes
  <2>1. /\ spc = "push" /\ spc' = "notify" /\ sfd' = NoFd /\ pending' = Append(pending, sfd)
        /\ UNCHANGED <<owner, hpc, hfd>>
    BY <1>5 DEF ServePushes
  <2>2. sfd \in Fds /\ sfd \notin Elements(pending) /\ pending \in Seq(Fds)
    BY <2>1 DEF ConnectionTypes, KnownOnce
  <2>3. /\ pending' \in Seq(Fds)
        /\ Elements(pending') = Elements(pending) \cup {sfd}
        /\ \A i, j \in 1 .. Len(pending') : pending'[i] = pending'[j] => i = j
    BY <2>1, <2>2, AppendToList DEF KnownOnce
  <2>4. NoFd \notin Fds /\ Elements(pending') \subseteq Fds
    BY <2>3, ElementOfSeq, TransportAssumption, FS_CardinalityType DEF Fds, NoFd, Elements
  <2>5. \A h \in Handlers : Holding(h)' <=> Holding(h)
    BY <2>1 DEF Holding
  <2> QED
    BY <2>1, <2>2, <2>3, <2>4, <2>5 DEF KnownOnce
<1>6. ASSUME UNCHANGED <<sfd, pending, owner, hfd>>, spc' \in {"check", "push"} <=> spc \in {"check", "push"},
             NEW hs \in SUBSET Handlers, Wake(hs), \A h \in hs : hpc[h] = "blocked"
      PROVE  KnownOnce'
  <2>1. \A h \in Handlers : Holding(h)' <=> Holding(h)
    BY <1>6 DEF Wake, Holding
  <2> QED
    BY <1>6, <2>1, PlacesKept
<1>7. CASE ServeNotifies
  <2>1. /\ UNCHANGED <<sfd, pending, owner, hfd>> /\ spc = "notify" /\ spc' = "call"
        /\ UNCHANGED hpc \/ \E h \in Blocked : Wake({h})
    BY <1>7 DEF ServeNotifies
  <2>2. CASE UNCHANGED hpc
    BY <2>1, <2>2, PlacesKept DEF Holding
  <2>3. CASE \E h \in Blocked : Wake({h})
    <3>1. PICK h \in Blocked : Wake({h})
      BY <2>3
    <3>2. {h} \in SUBSET Handlers /\ \A g \in {h} : hpc[g] = "blocked"
      BY DEF Blocked
    <3> QED
      BY <2>1, <3>1, <3>2, <1>6
  <2> QED
    BY <2>1, <2>2, <2>3
<1>8. CASE StopNotifies
  <2>1. /\ UNCHANGED <<spc, sfd, pending, owner, hfd>> /\ Wake(Blocked)
        /\ Blocked \in SUBSET Handlers /\ \A h \in Blocked : hpc[h] = "blocked"
    BY <1>8 DEF StopNotifies, Blocked
  <2> QED
    BY <2>1, <1>6
<1>9. ASSUME NEW h \in Handlers, HandlerWakesSpuriously(h) PROVE KnownOnce'
  <2>1. /\ UNCHANGED <<spc, sfd, pending, owner, hfd>> /\ Wake({h})
        /\ {h} \in SUBSET Handlers /\ \A g \in {h} : hpc[g] = "blocked"
    BY <1>9 DEF HandlerWakesSpuriously
  <2> QED
    BY <2>1, <1>6
<1>10. ASSUME NEW h \in Handlers, HandlerBlocks(h) \/ HandlerExits(h) PROVE KnownOnce'
  <2>1. /\ UNCHANGED <<spc, sfd, pending, owner, hfd>> /\ hpc[h] = "wait"
        /\ \E at \in {"blocked", "exited"} : hpc' = [hpc EXCEPT ![h] = at]
    BY <1>10 DEF HandlerBlocks, HandlerExits
  <2>2. \A g \in Handlers : Holding(g)' <=> Holding(g)
    BY <2>1 DEF Holding, ConnectionTypes
  <2> QED
    BY <2>1, <2>2, PlacesKept
<1>11. ASSUME NEW h \in Handlers, HandlerTakes(h) PROVE KnownOnce'
  <2>1. /\ hpc[h] = "wait" /\ pending # <<>>
        /\ hfd' = [hfd EXCEPT ![h] = Head(pending)] /\ pending' = Tail(pending)
        /\ hpc' = [hpc EXCEPT ![h] = "serve"] /\ UNCHANGED <<spc, sfd, owner>>
    BY <1>11 DEF HandlerTakes
  <2>2. /\ Head(pending) \in Fds /\ Elements(pending) = Elements(pending') \cup {Head(pending)}
        /\ Head(pending) \notin Elements(pending')
        /\ \A i, j \in 1 .. Len(pending') : pending'[i] = pending'[j] => i = j
    BY <2>1, TailOfList DEF ConnectionTypes, KnownOnce
  <2>3. Head(pending) # NoFd
    BY <2>2, TransportAssumption, FS_CardinalityType DEF Fds, NoFd
  <2>4. /\ \A g \in Handlers : Holding(g)' <=> g = h \/ Holding(g)
        /\ \A g \in Handlers \ {h} : hfd'[g] = hfd[g]
        /\ hfd'[h] = Head(pending) /\ ~Holding(h)
    BY <2>1 DEF Holding, ConnectionTypes
  <2>5. \A f \in Fds : owner'[f] # NoClient <=>
          f = sfd' \/ f \in Elements(pending') \/ \E g \in Handlers : Holding(g)' /\ hfd'[g] = f
    BY <2>1, <2>2, <2>4 DEF KnownOnce
  <2> QED
    BY <2>1, <2>2, <2>3, <2>4, <2>5 DEF KnownOnce
<1>12. ASSUME NEW h \in Handlers, Answer(h) \/ ReplyFails(h) \/ Hangup(h) \/ ReceiveEnds(h)
       PROVE  KnownOnce'
  <2>1. /\ UNCHANGED <<spc, sfd, pending, owner, hfd>> /\ hpc[h] = "serve"
        /\ \E at \in {"serve", "close"} : hpc' = [hpc EXCEPT ![h] = at]
    BY <1>12 DEF Answer, ReplyFails, Hangup, ReceiveEnds
  <2>2. \A g \in Handlers : Holding(g)' <=> Holding(g)
    BY <2>1 DEF Holding, ConnectionTypes
  <2> QED
    BY <2>1, <2>2, PlacesKept
<1>13. ASSUME NEW h \in Handlers, HandlerCloses(h) PROVE KnownOnce'
  <2>1. /\ hpc[h] = "close" /\ hpc' = [hpc EXCEPT ![h] = "erase"]
        /\ owner' = [f \in Fds |-> IF f \in {hfd[h]} THEN NoClient ELSE owner[f]]
        /\ UNCHANGED <<spc, sfd, pending, hfd>>
    BY <1>13 DEF HandlerCloses, CloseAll
  <2>2. /\ \A g \in Handlers : Holding(g)' <=> g # h /\ Holding(g)
        /\ Holding(h)
    BY <2>1 DEF Holding, ConnectionTypes
  <2>3. Elements(pending') = Elements(pending)
    BY <2>1 DEF Elements
  <2>4. \A f \in Fds : owner'[f] # NoClient <=>
          f = sfd' \/ f \in Elements(pending') \/ \E g \in Handlers : Holding(g)' /\ hfd'[g] = f
    BY <2>1, <2>2, <2>3 DEF KnownOnce
  <2> QED
    BY <2>1, <2>2, <2>3, <2>4 DEF KnownOnce
<1>14. ASSUME NEW h \in Handlers, HandlerErases(h) PROVE KnownOnce'
  <2>1. /\ UNCHANGED <<spc, sfd, pending, owner>> /\ hpc[h] = "erase"
        /\ hfd' = [hfd EXCEPT ![h] = NoFd]
        /\ \E at \in {"wait", "exited"} : hpc' = [hpc EXCEPT ![h] = at]
    BY <1>14 DEF HandlerErases
  <2>2. /\ \A g \in Handlers : Holding(g)' <=> Holding(g)
        /\ \A g \in Handlers : Holding(g) => hfd'[g] = hfd[g]
    BY <2>1 DEF Holding, ConnectionTypes
  <2> QED
    BY <2>1, <2>2, PlacesKept
<1>15. CASE StopEndsConnections
  <2>1. /\ pending' = <<>> /\ UNCHANGED <<spc, sfd, hpc, hfd>>
        /\ owner' = [f \in Fds |-> IF f \in Elements(pending) THEN NoClient ELSE owner[f]]
    BY <1>15 DEF StopEndsConnections, CloseAll
  <2>2. Elements(pending') = {} /\ Len(pending') = 0
    BY <2>1 DEF Elements
  <2>3. \A h \in Handlers : Holding(h)' <=> Holding(h)
    BY <2>1 DEF Holding
  <2>4. \A f \in Fds : owner'[f] # NoClient <=>
          f = sfd' \/ f \in Elements(pending') \/ \E g \in Handlers : Holding(g)' /\ hfd'[g] = f
    BY <2>1, <2>2, <2>3 DEF KnownOnce
  <2> QED
    BY <2>1, <2>2, <2>3, <2>4 DEF KnownOnce
<1> QED
  BY <1>1, <1>2, <1>3, <1>4, <1>5, <1>7, <1>8, <1>9, <1>10, <1>11, <1>12, <1>13, <1>14, <1>15
     DEF Next, ServeStep, HandlerStep, ControlStep, vars, Connect, Send, ClientCloses,
         ClientSeesEnd, StopSetsFlag, Join

-----------------------------------------------------------------------------
\* Connections may be closed and clients may leave "idle"; neither gives a
\* client a second connection.
LEMMA NoNewConnection ==
  ASSUME ConnectedOnce, UNCHANGED backlog,
         \A f \in Fds : owner'[f] \in {owner[f], NoClient},
         \A c \in Clients : cpc'[c] = "idle" => cpc[c] = "idle",
         ConnectionTypes
  PROVE  ConnectedOnce'
<1>1. Elements(backlog') = Elements(backlog) /\ Elements(backlog) \subseteq Clients
  BY ElementOfSeq DEF Elements, ConnectionTypes
<1> QED
  BY <1>1, TransportAssumption DEF ConnectedOnce

\* One step gives no client a second connection.
LEMMA ConnectedOnceStep ==
  ASSUME IInv, [Next]_vars
  PROVE  ConnectedOnce'
<1> USE DEF IInv
<1> USE DEF kernel, server, pool, lists, flags, peers
<1>1. CASE UNCHANGED <<backlog, owner, cpc>>
  BY <1>1, NoNewConnection
<1>2. ASSUME NEW c \in Clients, Connect(c) PROVE ConnectedOnce'
  <2>1. cpc[c] = "idle" /\ UNCHANGED owner
    BY <1>2 DEF Connect
  <2>2. CASE Listening
    <3>1. cpc' = [cpc EXCEPT ![c] = "open"] /\ backlog' = Append(backlog, c)
      BY <1>2, <2>2 DEF Connect
    <3>2. c \notin Elements(backlog) /\ \A f \in Fds : owner[f] # c
      BY <2>1 DEF ConnectedOnce
    <3>3. /\ Elements(backlog') = Elements(backlog) \cup {c}
          /\ \A i, j \in 1 .. Len(backlog') : backlog'[i] = backlog'[j] => i = j
      BY <3>1, <3>2, AppendToList DEF ConnectedOnce, ConnectionTypes
    <3>4. \A d \in Clients : cpc'[d] = "idle" => d # c /\ cpc[d] = "idle"
      BY <3>1 DEF ConnectionTypes
    <3> QED
      BY <2>1, <3>2, <3>3, <3>4 DEF ConnectedOnce
  <2>3. CASE ~Listening
    <3>1. cpc' = [cpc EXCEPT ![c] = "closed"] /\ UNCHANGED backlog
      BY <1>2, <2>3 DEF Connect
    <3>2. \A d \in Clients : cpc'[d] = "idle" => cpc[d] = "idle"
      BY <3>1 DEF ConnectionTypes
    <3> QED
      BY <2>1, <3>1, <3>2, NoNewConnection
  <2> QED
    BY <2>2, <2>3
<1>3. ASSUME NEW c \in Clients,
             ClientCloses(c) \/ ClientSeesEnd(c) \/ \E m \in Messages : Send(c, m)
      PROVE  ConnectedOnce'
  <2>1. /\ UNCHANGED <<backlog, owner>>
        /\ \A d \in Clients : cpc'[d] = "idle" => cpc[d] = "idle"
    BY <1>3 DEF ClientCloses, ClientSeesEnd, Send, ConnectionTypes
  <2> QED
    BY <2>1, NoNewConnection
<1>4. CASE AcceptReturns
  <2>1. /\ sfd' \in Fds /\ owner' = [owner EXCEPT ![sfd'] = Head(backlog)]
        /\ Head(backlog) \in Clients /\ \A f \in Fds : owner[f] # Head(backlog)
        /\ Elements(backlog) = Elements(backlog') \cup {Head(backlog)}
        /\ Head(backlog) \notin Elements(backlog')
        /\ \A i, j \in 1 .. Len(backlog') : backlog'[i] = backlog'[j] => i = j
    BY <1>4, AcceptGives
  <2>2. UNCHANGED cpc
    BY <1>4 DEF AcceptReturns
  <2>3. /\ owner'[sfd'] = Head(backlog)
        /\ \A f \in Fds \ {sfd'} : owner'[f] = owner[f]
    BY <2>1 DEF ConnectionTypes
  <2> HIDE DEF IInv
  <2> QED
    BY <2>1, <2>2, <2>3 DEF ConnectedOnce, IInv
<1>5. CASE ServeRefuses \/ StopEndsConnections \/ \E h \in Handlers : HandlerCloses(h)
  <2>1. PICK fs : UNCHANGED <<backlog, cpc>> /\ CloseAll(fs)
    BY <1>5 DEF ServeRefuses, StopEndsConnections, HandlerCloses
  <2>2. \A f \in Fds : owner'[f] \in {owner[f], NoClient}
    BY <2>1 DEF CloseAll
  <2> QED
    BY <2>1, <2>2, NoNewConnection
<1>6. ASSUME NEW h \in Handlers, Answer(h) PROVE ConnectedOnce'
  <2>1. /\ UNCHANGED <<backlog, owner>>
        /\ \A d \in Clients : cpc'[d] = "idle" => cpc[d] = "idle"
    BY <1>6 DEF Answer, ConnectionTypes
  <2> QED
    BY <2>1, NoNewConnection
<1> QED
  BY <1>1, <1>2, <1>3, <1>4, <1>5, <1>6
     DEF Next, ServeStep, HandlerStep, ControlStep, vars, ServeCalls, AcceptFails, ServeChecks,
         ServePushes, ServeNotifies, HandlerBlocks, HandlerWakesSpuriously, HandlerExits,
         HandlerTakes, ReplyFails, Hangup, ReceiveEnds, HandlerErases, StopSetsFlag,
         StopNotifies, Join

-----------------------------------------------------------------------------
\* Nobody knows a descriptor before the first connection.
LEMMA IInvInit == Init => IInv
<1> SUFFICES ASSUME Init PROVE IInv
  OBVIOUS
<1>1. ConnectionTypes
  BY DEF Init, ConnectionTypes
<1>2. Elements(pending) = {} /\ Elements(backlog) = {} /\ Len(pending) = 0 /\ Len(backlog) = 0
  BY DEF Init, Elements
<1>3. NoFd \notin Fds
  BY TransportAssumption, FS_CardinalityType DEF Fds, NoFd
<1>4. KnownOnce
  BY <1>2, <1>3 DEF Init, KnownOnce, Holding
<1>5. ConnectedOnce
  BY <1>2, TransportAssumption DEF Init, ConnectedOnce
<1> QED
  BY <1>1, <1>4, <1>5 DEF IInv

\* The inductive invariant holds always: descriptors in use are known at one
\* place, and each belongs to one client.
THEOREM ConnectionInvariant == Spec => []IInv
<1>1. IInv /\ [Next]_vars => IInv'
  BY TypesStep, KnownOnceStep, ConnectedOnceStep DEF IInv
<1> QED
  BY <1>1, IInvInit, PTL DEF Spec

\* The inductive invariant says that every open descriptor has its one holder.
LEMMA HolderIsOne == IInv => OneHolder
<1> SUFFICES ASSUME IInv, NEW f \in Fds
             PROVE  Cardinality(Holders(f)) = IF owner[f] = NoClient THEN 0 ELSE 1
  BY DEF OneHolder
<1> USE DEF IInv
<1>0. f # NoFd
  BY TransportAssumption, FS_CardinalityType DEF Fds, NoFd
<1>1. ASSUME owner[f] = NoClient PROVE Holders(f) = {}
  <2>1. ~HeldByServe(f)
    BY <1>1, <1>0 DEF KnownOnce, HeldByServe
  <2>2. \A i \in 1 .. Len(pending) : pending[i] # f
    BY <1>1 DEF KnownOnce, Elements
  <2>3. \A h \in Handlers : ~HeldByHandler(f, h)
    BY <1>1 DEF KnownOnce, Holding, HeldByHandler
  <2> QED
    BY <2>1, <2>2, <2>3 DEF Holders
<1>2. ASSUME owner[f] # NoClient PROVE \E x : Holders(f) = {x}
  <2>1. CASE f = sfd
    <3>1. HeldByServe(f)
      BY <1>0, <2>1 DEF KnownOnce, HeldByServe
    <3>2. \A i \in 1 .. Len(pending) : pending[i] # f
      BY <2>1 DEF KnownOnce, Elements
    <3>3. \A h \in Handlers : ~HeldByHandler(f, h)
      BY <2>1 DEF KnownOnce, Holding, HeldByHandler
    <3>4. Holders(f) = {<<"serve", 0>>}
      BY <3>1, <3>2, <3>3 DEF Holders
    <3> QED
      BY <3>4
  <2>2. CASE f \in Elements(pending)
    <3>1. PICK i \in 1 .. Len(pending) : pending[i] = f
      BY <2>2 DEF Elements
    <3>2. ~HeldByServe(f)
      BY <2>2 DEF KnownOnce, HeldByServe
    <3>3. {j \in 1 .. Len(pending) : pending[j] = f} = {i}
      BY <3>1 DEF KnownOnce
    <3>4. \A h \in Handlers : ~HeldByHandler(f, h)
      BY <2>2 DEF KnownOnce, Holding, HeldByHandler
    <3>5. Holders(f) = {<<"pending", i>>}
      BY <3>2, <3>3, <3>4 DEF Holders
    <3> QED
      BY <3>5
  <2>3. CASE \E h \in Handlers : Holding(h) /\ hfd[h] = f
    <3>1. PICK h \in Handlers : Holding(h) /\ hfd[h] = f
      BY <2>3
    <3>2. ~HeldByServe(f)
      BY <3>1 DEF KnownOnce, HeldByServe
    <3>3. \A i \in 1 .. Len(pending) : pending[i] # f
      BY <3>1 DEF KnownOnce, Elements
    <3>4. {g \in Handlers : HeldByHandler(f, g)} = {h}
      BY <3>1 DEF KnownOnce, Holding, HeldByHandler
    <3>5. Holders(f) = {<<"handler", h>>}
      BY <3>2, <3>3, <3>4 DEF Holders
    <3> QED
      BY <3>5
  <2> QED
    BY <1>2, <2>1, <2>2, <2>3 DEF KnownOnce
<1> QED
  BY <1>1, <1>2, FS_EmptySet, FS_Singleton

\* Every open connection is held by exactly one of the serve loop, the pending
\* list and a handler, and no closed one by anybody, however accept, the
\* handlers, stop and the reuse of descriptors interleave.
THEOREM ConnectionHasOneHolder == Spec => []OneHolder
  BY ConnectionInvariant, HolderIsOne, PTL
=============================================================================
