-------------------------- MODULE FlowTableProofs --------------------------
(***************************************************************************)
(* The tables of the engine agree with one another, only finished work is  *)
(* evicted and the history ring holds the newest transitions, for every    *)
(* set of observations, every bound of a table and every capacity of a     *)
(* ring.                                                                   *)
(***************************************************************************)
EXTENDS FlowTable, SequenceTheorems, FiniteSetTheorems, ProofLemmas, TLAPS

AllStates == Decisions \cup Terminal \cup {"Unknown"}

Events == [gen : Nat, from : AllStates, to : AllStates]

Least(a, b) == IF a < b THEN a ELSE b

\* The place of the event that is i behind the head.
Place(head, i) == IF head + i < MaxHistory THEN head + i ELSE head + i - MaxHistory

\* A ring holds the newest of the events that were pushed.
SoundRing(ring, pushed) ==
  /\ ring = [buffer |-> ring.buffer, head |-> ring.head, size |-> ring.size,
             capacity |-> ring.capacity, dropped |-> ring.dropped]
  /\ pushed \in Seq(Events)
  /\ ring.capacity = MaxHistory
  /\ ring.size = Least(Len(pushed), MaxHistory)
  /\ ring.dropped = Len(pushed) - ring.size
  /\ MaxHistory = 0 => ring.head = 0
  /\ MaxHistory # 0 =>
       /\ ring.buffer = [i \in 0 .. MaxHistory - 1 |-> ring.buffer[i]]
       /\ ring.head \in 0 .. MaxHistory - 1
       /\ ring.size < MaxHistory => ring.head = 0
       /\ \A i \in 0 .. ring.size - 1 :
            ring.buffer[Place(ring.head, i)] = pushed[ring.dropped + i + 1]

\* A generation of a flow with this key, bound to sources that are present.
SoundGeneration(key, present, gen) ==
  /\ gen = [state |-> gen.state, bound |-> gen.bound]
  /\ gen.state \in AllStates
  /\ gen.bound = [s \in DOMAIN gen.bound |-> gen.bound[s]]
  /\ IsFiniteSet(DOMAIN gen.bound) /\ Cardinality(DOMAIN gen.bound) <= MaxSourcesPerFlow
  /\ DOMAIN gen.bound \subseteq present
  /\ \A s \in DOMAIN gen.bound : gen.bound[s] = {key}

\* The generations of a flow.
SoundGenerations(key, present, gens) ==
  /\ gens = [g \in DOMAIN gens |-> gens[g]]
  /\ IsFiniteSet(DOMAIN gens) /\ Cardinality(DOMAIN gens) <= MaxGenerations
  /\ DOMAIN gens \subseteq Nat \ {0}
  /\ \A g \in DOMAIN gens : SoundGeneration(key, present, gens[g])

\* The current generation is retained and none is newer.
IsCurrent(current, gens) ==
  IF DOMAIN gens = {} THEN current = 0
  ELSE current \in DOMAIN gens /\ \A g \in DOMAIN gens : g <= current

\* The transitions of each generation chain. A generation that was recreated is
\* behind them until recompute_flow decides it; one that is not retained was
\* never decided or ended in a terminal state.
Chained(gens, all) ==
  /\ \A i \in 1 .. Len(all) :
       LET said == Said(all, all[i].gen, i - 1) IN
       \/ all[i].from = said /\ ~IsTerminal(said)
       \/ all[i].from = "Unknown" /\ IsTerminal(said)
  /\ \A g \in Nat :
       LET said == Said(all, g, Len(all)) IN
       IF g \in DOMAIN gens
       THEN gens[g].state = said \/ (gens[g].state = "Unknown" /\ IsTerminal(said))
       ELSE said = "Unknown" \/ IsTerminal(said)

\* A flow, whatever its own state.
SoundCore(f, flow, present) ==
  /\ flow = [key |-> flow.key, gens |-> flow.gens, current |-> flow.current,
             state |-> flow.state, touched |-> flow.touched, history |-> flow.history,
             pushed |-> flow.pushed]
  /\ flow.key \in Keys /\ IdOf[flow.key] = f
  /\ SoundGenerations(flow.key, present, flow.gens)
  /\ IsCurrent(flow.current, flow.gens)
  /\ flow.touched \in Nat
  /\ SoundRing(flow.history, flow.pushed)
  /\ Chained(flow.gens, flow.pushed)

\* The state of a flow is that of its current generation.
StateFollows(flow) ==
  IF DOMAIN flow.gens = {} THEN flow.state \notin Terminal
  ELSE flow.state \in {flow.gens[flow.current].state, "Conflicting"}

\* Every generation went through recompute_flow.
Decided(flow) == \A g \in DOMAIN flow.gens : flow.gens[g].state # "Unknown"

SoundFlow(f, flow, present) ==
  SoundCore(f, flow, present) /\ StateFollows(flow) /\ Decided(flow)

\* The registry of endpoint identities.
SoundRegistry(registry) ==
  /\ registry = [e \in DOMAIN registry |-> registry[e]]
  /\ IsFiniteSet(DOMAIN registry) /\ Cardinality(DOMAIN registry) <= MaxFlows
  /\ \A e \in DOMAIN registry : NameId[registry[e]] = e

\* The flow table.
SoundFlows(table, present) ==
  /\ table = [f \in DOMAIN table |-> table[f]]
  /\ IsFiniteSet(DOMAIN table) /\ Cardinality(DOMAIN table) <= MaxFlows
  /\ \A f \in DOMAIN table : SoundFlow(f, table[f], present)

\* The inductive invariant.
IInv ==
  /\ IsFiniteSet(sources) /\ Cardinality(sources) <= MaxSources /\ retired \subseteq sources
  /\ SoundFlows(flows, sources \ retired)
  /\ SoundRegistry(endpoints)
  /\ now \in Nat

-----------------------------------------------------------------------------
(* The history ring.                                                       *)

\* An index that runs over the end of the buffer wraps around once.
LEMMA Wraps ==
  ASSUME MaxHistory # 0, NEW a \in 0 .. MaxHistory - 1, NEW b \in 0 .. MaxHistory
  PROVE  (a + b) % MaxHistory = Place(a, b)
<1> DEFINE n == MaxHistory
<1>0. n \in Nat /\ n # 0 /\ a \in 0 .. n - 1 /\ b \in 0 .. n
  BY FlowTableAssumption
<1> HIDE DEF n
<1>1. ASSUME NEW x \in 0 .. n - 1 PROVE x % n = x
  BY <1>0
<1>2. ASSUME NEW x \in 0 .. n - 1 PROVE (x + n) % n = x
  <2> DEFINE q == (x + n) \div n
             r == (x + n) % n
  <2>1. q \in Int /\ r \in 0 .. n - 1
    BY <1>0
  <2>2. x + n = n * q + r
    BY <1>0
  <2> HIDE DEF q, r
  <2>3. q <= 1
    <3> SUFFICES ASSUME q >= 2 PROVE FALSE
      BY <1>0, <2>1
    <3>1. n * q = n * 2 + n * (q - 2)
      BY <1>0, <2>1
    <3>2. n * (q - 2) >= 0
      BY <1>0, <2>1
    <3> QED
      BY <1>0, <2>1, <2>2, <3>1, <3>2
  <2>4. q >= 1
    <3> SUFFICES ASSUME q <= 0 PROVE FALSE
      BY <1>0, <2>1
    <3>1. n * q <= 0
      BY <1>0, <2>1
    <3> QED
      BY <1>0, <2>1, <2>2, <3>1
  <2>5. q = 1
    BY <2>1, <2>3, <2>4
  <2> QED
    BY <1>0, <2>1, <2>2, <2>5 DEF r
<1>3. CASE a + b < n
  <2>1. a + b \in 0 .. n - 1
    BY <1>0, <1>3
  <2> QED
    BY <1>1, <1>3, <2>1, Zenon DEF Place, n
<1>4. CASE a + b >= n
  <2>1. a + b - n \in 0 .. n - 1 /\ (a + b - n) + n = a + b
    BY <1>0, <1>4
  <2>2. (a + b) % n = a + b - n
    BY <1>2, <2>1, Zenon
  <2>3. ~(a + b < n)
    BY <1>0, <1>4
  <2> QED
    BY <2>2, <2>3, Zenon DEF Place, n
<1> QED
  BY <1>0, <1>3, <1>4

\* push: the ring stays one of the newest events.
LEMMA PushKeeps ==
  ASSUME NEW ring, NEW pushed, SoundRing(ring, pushed), NEW event \in Events
  PROVE  SoundRing(Push(ring, event), Append(pushed, event))
<1> DEFINE n == MaxHistory
           len == Len(pushed)
           r == Push(ring, event)
           p == Append(pushed, event)
           buf == ring.buffer
           h == ring.head
           sz == ring.size
           d == ring.dropped
<1>0. n \in Nat
  BY FlowTableAssumption
<1>1. /\ ring = [buffer |-> buf, head |-> h, size |-> sz, capacity |-> n, dropped |-> d]
      /\ pushed \in Seq(Events) /\ len \in Nat
      /\ sz = Least(len, n) /\ d = len - sz
      /\ n = 0 => h = 0
  BY LenProperties DEF SoundRing
<1>2. /\ p \in Seq(Events) /\ Len(p) = len + 1 /\ p[len + 1] = event
      /\ \A i \in 1 .. len : p[i] = pushed[i]
  BY <1>1, AppendProperties
<1>3. sz \in 0 .. n /\ d \in Nat
  BY <1>0, <1>1 DEF Least
<1>4. n # 0 => /\ buf = [i \in 0 .. n - 1 |-> buf[i]]
               /\ h \in 0 .. n - 1
               /\ sz < n => h = 0
               /\ \A i \in 0 .. sz - 1 : buf[Place(h, i)] = pushed[d + i + 1]
  BY DEF SoundRing
<1>5. \/ n = 0 /\ r = [ring EXCEPT !.dropped = d + 1]
      \/ /\ n # 0 /\ sz < n
         /\ r = [ring EXCEPT !.buffer = [buf EXCEPT ![Place(h, sz)] = event], !.size = sz + 1]
      \/ /\ n # 0 /\ sz = n
         /\ r = [ring EXCEPT !.buffer = [buf EXCEPT ![h] = event], !.head = Place(h, 1),
                             !.dropped = d + 1]
  <2>1. r = IF n = 0 THEN [ring EXCEPT !.dropped = d + 1]
            ELSE IF sz < n
            THEN [ring EXCEPT !.buffer = [buf EXCEPT ![(h + sz) % n] = event], !.size = sz + 1]
            ELSE [ring EXCEPT !.buffer = [buf EXCEPT ![h] = event], !.head = (h + 1) % n,
                              !.dropped = d + 1]
    BY <1>1 DEF Push, SoundRing
  <2> HIDE DEF n, len, r, p, buf, h, sz, d
  <2>2. n # 0 => 1 \in 0 .. n
    BY <1>0
  <2>3. n # 0 => (h + sz) % n = Place(h, sz) /\ (h + 1) % n = Place(h, 1)
    BY <1>3, <1>4, <2>2, Wraps, Zenon DEF n
  <2>4. sz < n \/ sz = n
    BY <1>0, <1>3
  <2>5. ~(n < n)
    BY <1>0
  <2> QED
    BY <2>1, <2>3, <2>4, <2>5, Zenon
<1> SUFFICES SoundRing(r, p)
  OBVIOUS
<1> HIDE DEF n, len, r, p, buf, h, sz, d
<1>6. ASSUME NEW buf1, NEW h1, NEW sz1, NEW d1,
             r = [buffer |-> buf1, head |-> h1, size |-> sz1, capacity |-> n, dropped |-> d1],
             sz1 = Least(len + 1, n), d1 = (len + 1) - sz1, n = 0 => h1 = 0,
             n # 0 => /\ buf1 = [i \in 0 .. n - 1 |-> buf1[i]]
                      /\ h1 \in 0 .. n - 1
                      /\ sz1 < n => h1 = 0
                      /\ \A i \in 0 .. sz1 - 1 : buf1[Place(h1, i)] = p[d1 + i + 1]
      PROVE  SoundRing(r, p)
  <2>1. /\ r = [buffer |-> r.buffer, head |-> r.head, size |-> r.size,
                capacity |-> r.capacity, dropped |-> r.dropped]
        /\ r.buffer = buf1 /\ r.head = h1 /\ r.size = sz1 /\ r.capacity = n /\ r.dropped = d1
    BY <1>6
  <2>2. /\ r.size = Least(Len(p), n) /\ r.dropped = Len(p) - r.size
        /\ n = 0 => r.head = 0
    BY <1>2, <1>6, <2>1, Zenon
  <2>3. n # 0 => /\ r.buffer = [i \in 0 .. n - 1 |-> r.buffer[i]]
                 /\ r.head \in 0 .. n - 1
                 /\ r.size < n => r.head = 0
                 /\ \A i \in 0 .. r.size - 1 : r.buffer[Place(r.head, i)] = p[r.dropped + i + 1]
    BY <1>6, <2>1
  <2> QED
    BY <1>2, <1>6, <2>1, <2>2, <2>3, Zenon DEF SoundRing, n
<1>7. CASE n = 0 /\ r = [ring EXCEPT !.dropped = d + 1]
  <2>1. r = [buffer |-> buf, head |-> h, size |-> sz, capacity |-> n, dropped |-> d + 1]
    BY <1>1, <1>7
  <2>2. sz = Least(len + 1, n) /\ d + 1 = (len + 1) - sz
    BY <1>1, <1>3, <1>7 DEF Least
  <2> QED
    BY <1>1, <1>6, <1>7, <2>1, <2>2
<1>8. CASE /\ n # 0 /\ sz < n
           /\ r = [ring EXCEPT !.buffer = [buf EXCEPT ![Place(h, sz)] = event], !.size = sz + 1]
  <2> DEFINE b == [buf EXCEPT ![sz] = event]
  <2>1. /\ sz + 1 = Least(len + 1, n) /\ d = (len + 1) - (sz + 1)
        /\ len = sz /\ d = 0 /\ h = 0 /\ sz \in 0 .. n - 1
    BY <1>0, <1>1, <1>3, <1>4, <1>8 DEF Least
  <2>2. \A i \in 0 .. n - 1 : Place(h, i) = i
    BY <1>0, <2>1 DEF Place, n
  <2>3. r = [buffer |-> b, head |-> h, size |-> sz + 1, capacity |-> n, dropped |-> d]
    BY <1>1, <1>8, <2>1, <2>2
  <2>4. /\ b = [i \in 0 .. n - 1 |-> b[i]] /\ b[sz] = event
        /\ \A i \in 0 .. n - 1 : i # sz => b[i] = buf[i]
    BY <1>4, <1>8, <2>1
  <2> HIDE DEF b
  <2>5. ASSUME NEW i \in 0 .. (sz + 1) - 1 PROVE b[Place(h, i)] = p[d + i + 1]
    <3>1. i \in 0 .. n - 1 /\ Place(h, i) = i /\ d + i + 1 = i + 1
      BY <1>0, <2>1, <2>2
    <3>2. CASE i = sz
      BY <1>2, <2>1, <2>4, <3>1, <3>2
    <3>3. CASE i # sz
      <4>1. i \in 0 .. sz - 1 /\ i + 1 \in 1 .. len
        BY <2>1, <3>3
      <4>2. buf[i] = pushed[i + 1]
        BY <1>4, <1>8, <3>1, <4>1
      <4> QED
        BY <1>2, <2>4, <3>1, <3>3, <4>1, <4>2
    <3> QED
      BY <3>2, <3>3
  <2>6. /\ n # 0 /\ h \in 0 .. n - 1 /\ h = 0
        /\ \A i \in 0 .. (sz + 1) - 1 : b[Place(h, i)] = p[d + i + 1]
    BY <1>4, <1>8, <2>1, <2>5, Zenon
  <2> QED
    BY <1>6, <2>1, <2>3, <2>4, <2>6, Zenon
<1>9. CASE /\ n # 0 /\ sz = n
           /\ r = [ring EXCEPT !.buffer = [buf EXCEPT ![h] = event], !.head = Place(h, 1),
                               !.dropped = d + 1]
  <2> DEFINE b == [buf EXCEPT ![h] = event]
             k == Place(h, 1)
  <2>1. r = [buffer |-> b, head |-> k, size |-> sz, capacity |-> n, dropped |-> d + 1]
    BY <1>1, <1>9
  <2>2. sz = Least(len + 1, n) /\ d + 1 = (len + 1) - sz /\ len = d + n
    BY <1>0, <1>1, <1>3, <1>9 DEF Least
  <2>3. /\ b = [i \in 0 .. n - 1 |-> b[i]] /\ b[h] = event
        /\ \A i \in 0 .. n - 1 : i # h => b[i] = buf[i]
    BY <1>4, <1>9
  <2>4. h \in 0 .. n - 1 /\ k = IF h + 1 < n THEN h + 1 ELSE 0
    BY <1>0, <1>4, <1>9 DEF Place, n
  <2> HIDE DEF b, k
  <2>5. k \in 0 .. n - 1
    BY <1>0, <1>9, <2>4
  <2>6. ASSUME NEW i \in 0 .. sz - 1 PROVE b[Place(k, i)] = p[(d + 1) + i + 1]
    <3>1. i \in 0 .. n - 1 /\ Place(k, i) = IF k + i < n THEN k + i ELSE k + i - n
      BY <1>9 DEF Place, n
    <3>2. CASE i = n - 1
      <4>1. Place(k, i) = h
        BY <1>0, <2>4, <3>1, <3>2
      <4>2. (d + 1) + i + 1 = len + 1
        BY <1>0, <1>3, <2>2, <3>2
      <4> QED
        BY <1>2, <2>3, <4>1, <4>2
    <3>3. CASE i # n - 1
      <4>1. /\ i + 1 \in 0 .. sz - 1 /\ d + (i + 1) + 1 \in 1 .. len
            /\ (d + 1) + i + 1 = d + (i + 1) + 1
        BY <1>0, <1>3, <1>9, <2>2, <3>1, <3>3
      <4>2. Place(h, i + 1) = IF h + (i + 1) < n THEN h + (i + 1) ELSE h + (i + 1) - n
        BY DEF Place, n
      <4>3. /\ Place(k, i) = Place(h, i + 1) /\ Place(h, i + 1) # h
            /\ Place(h, i + 1) \in 0 .. n - 1
        BY <1>0, <2>4, <3>1, <3>3, <4>2
      <4>4. buf[Place(h, i + 1)] = pushed[d + (i + 1) + 1]
        BY <1>4, <1>9, <4>1
      <4> QED
        BY <1>2, <2>3, <4>1, <4>3, <4>4
    <3> QED
      BY <3>2, <3>3
  <2>7. ~(sz < n)
    BY <1>0, <1>9
  <2>8. n # 0 /\ \A i \in 0 .. sz - 1 : b[Place(k, i)] = p[(d + 1) + i + 1]
    BY <1>9, <2>6, Zenon
  <2> QED
    BY <1>6, <2>1, <2>2, <2>3, <2>5, <2>7, <2>8, Zenon
<1> QED
  BY <1>5, <1>7, <1>8, <1>9

\* The least of two numbers.
LEMMA MinOfTwo ==
  ASSUME NEW a \in Nat, NEW b \in Nat
  PROVE  Min({a, b}) = Least(a, b)
<1> DEFINE m == Least(a, b)
           Is(x) == \A y \in {a, b} : x =< y
<1>1. m \in {a, b} /\ Is(m)
  BY DEF Least
<1>2. \A x \in {a, b} : Is(x) => x = m
  BY DEF Least
<1>3. Min({a, b}) = CHOOSE x \in {a, b} : Is(x)
  BY Zenon DEF Min
<1> HIDE DEF m, Is
<1>4. (CHOOSE x \in {a, b} : Is(x)) \in {a, b} /\ Is(CHOOSE x \in {a, b} : Is(x))
  BY <1>1, Zenon
<1> QED
  BY <1>2, <1>3, <1>4 DEF m

\* The newest n of the elements of a sequence.
LEMMA NewestIs ==
  ASSUME NEW T, NEW all \in Seq(T), NEW n \in Nat, NEW len, len = Len(all),
         NEW k, k = Least(n, len)
  PROVE  /\ Newest(all, n) = [i \in 1 .. k |-> all[(len - k) + i]]
         /\ Newest(all, n) \in Seq(T) /\ Len(Newest(all, n)) = k
<1> DEFINE f == [i \in 1 .. k |-> all[(Len(all) - k) + i]]
<1>1. Len(all) \in Nat /\ \A i \in 1 .. Len(all) : all[i] \in T
  BY LenProperties, ElementOfSeq
<1>2. k \in 0 .. Len(all)
  BY <1>1 DEF Least
<1>3. Newest(all, n) = SubSeq(all, Len(all) - k + 1, Len(all))
  BY <1>1, MinOfTwo DEF Newest
<1>4. SubSeq(all, Len(all) - k + 1, Len(all)) = f
  BY <1>1, <1>2
<1>5. f \in Seq(T) /\ Len(f) = k
  BY <1>1, <1>2
<1> QED
  BY <1>3, <1>4, <1>5

\* What the ring of a flow gives back, whole, by its tail and resized.
LEMMA RingGivesNewest ==
  ASSUME NEW ring, NEW all, SoundRing(ring, all)
  PROVE  LET kept == Newest(all, MaxHistory) IN
         /\ ToVector(ring) = kept
         /\ ring.dropped = Len(all) - Len(kept)
         /\ \A limit \in 0 .. MaxHistory + 1 :
              LET report == HistoryReport(ring, limit, MaxHistory) IN
              /\ report.events = IF limit = 0 THEN kept ELSE Newest(kept, limit)
              /\ report.truncated = (Len(report.events) < Len(kept))
         /\ \A capacity \in 1 .. MaxHistory + 1 :
              LET resized == SetCapacity(ring, capacity) IN
              /\ ToVector(resized) = Newest(kept, capacity)
              /\ resized.dropped + resized.size = Len(all)
<1> DEFINE n == MaxHistory
           len == Len(all)
           kept == Newest(all, n)
           buf == ring.buffer
           h == ring.head
           sz == ring.size
           d == ring.dropped
<1>0. n \in Nat
  BY FlowTableAssumption
<1>1. /\ all \in Seq(Events) /\ len \in Nat
      /\ sz = Least(len, n) /\ d = len - sz /\ ring.capacity = n
  BY LenProperties DEF SoundRing
<1>2. n # 0 => /\ h \in 0 .. n - 1
               /\ \A i \in 0 .. sz - 1 : buf[Place(h, i)] = all[d + i + 1]
  BY DEF SoundRing
<1>3. sz \in 0 .. n /\ sz \in 0 .. len /\ Least(n, len) = sz
  BY <1>0, <1>1 DEF Least
<1>4. kept = [i \in 1 .. sz |-> all[d + i]] /\ kept \in Seq(Events) /\ Len(kept) = sz
  BY <1>0, <1>1, <1>3, NewestIs
<1> HIDE DEF n, len, kept, buf, h, sz, d
<1>5. ASSUME NEW i \in 0 .. sz - 1 PROVE buf[(h + i) % n] = kept[i + 1]
  <2>1. n # 0 /\ i \in 0 .. n /\ i + 1 \in 1 .. sz /\ d + i + 1 = d + (i + 1)
    <3>1. sz \in Nat /\ sz <= n /\ d \in Int
      BY <1>0, <1>1, <1>3
    <3> QED
      BY <1>0, <3>1
  <2>2. (h + i) % n = Place(h, i)
    BY <1>2, <2>1, Wraps, Zenon DEF n
  <2>3. buf[Place(h, i)] = all[d + (i + 1)]
    BY <1>2, <2>1
  <2> QED
    BY <1>4, <2>1, <2>2, <2>3
<1>6. ToVector(ring) = kept
  <2> DEFINE v == [i \in 1 .. sz |-> buf[(h + i - 1) % n]]
  <2>1. ToVector(ring) = v
    BY <1>1 DEF ToVector, sz, buf, h
  <2>2. ASSUME NEW i \in 1 .. sz PROVE buf[(h + i - 1) % n] = kept[i]
    <3>1. i - 1 \in 0 .. sz - 1 /\ (i - 1) + 1 = i
      BY <1>3
    <3>2. buf[(h + (i - 1)) % n] = kept[i]
      BY <1>5, <3>1, Zenon
    <3> QED
      BY <3>2, Zenon
  <2>3. kept = [i \in 1 .. sz |-> kept[i]]
    BY <1>4
  <2> QED
    BY <2>1, <2>2, <2>3
<1>7. d = len - Len(kept)
  BY <1>1, <1>4
<1>8. ASSUME NEW limit \in 0 .. n + 1
      PROVE  LET report == HistoryReport(ring, limit, n) IN
             /\ report.events = IF limit = 0 THEN kept ELSE Newest(kept, limit)
             /\ report.truncated = (Len(report.events) < Len(kept))
  <2> DEFINE bounded == IF limit = 0 \/ limit > n THEN n ELSE limit
             take == IF bounded < sz THEN bounded ELSE sz
             tail == [i \in 1 .. take |-> buf[(h + sz - take + i - 1) % n]]
             report == HistoryReport(ring, limit, n)
  <2>1. report = [events |-> tail, dropped |-> d, truncated |-> sz > Len(tail)]
    BY <1>1 DEF HistoryReport, RingTail, sz, buf, h, d
  <2>2. /\ take \in 0 .. sz
        /\ limit = 0 => take = sz
        /\ limit # 0 => take = Least(limit, sz)
    BY <1>0, <1>3 DEF Least
  <2> HIDE DEF take, bounded
  <2>3. ASSUME NEW i \in 1 .. take PROVE buf[(h + sz - take + i - 1) % n] = kept[(sz - take) + i]
    <3> DEFINE j == (sz - take) + (i - 1)
    <3>1. j \in 0 .. sz - 1 /\ j + 1 = (sz - take) + i
      BY <1>3, <2>2
    <3>2. n # 0 /\ h \in Nat
      BY <1>0, <1>2, <1>3, <2>2
    <3>3. h + sz - take + i - 1 = h + j
      BY <1>3, <2>2, <3>2
    <3> HIDE DEF j
    <3>4. buf[(h + j) % n] = kept[j + 1]
      BY <1>5, <3>1, Zenon
    <3> QED
      BY <3>1, <3>3, <3>4, Zenon
  <2>4. tail = [i \in 1 .. take |-> kept[(sz - take) + i]]
    BY <2>3, Zenon
  <2> HIDE DEF tail
  <2>5. tail = IF limit = 0 THEN kept ELSE Newest(kept, limit)
    <3>1. CASE limit = 0
      <4>1. take = sz /\ \A i \in 1 .. sz : (sz - take) + i = i
        BY <1>3, <2>2, <3>1
      <4>2. kept = [i \in 1 .. sz |-> kept[i]]
        BY <1>4
      <4> QED
        BY <2>4, <3>1, <4>1, <4>2
    <3>2. CASE limit # 0
      <4>1. Newest(kept, limit) = [i \in 1 .. take |-> kept[(sz - take) + i]]
        <5>1. limit \in Nat /\ take = Least(limit, sz)
          BY <1>0, <2>2, <3>2
        <5>2. kept \in Seq(Events) /\ sz = Len(kept)
          BY <1>4
        <5> QED
          BY ONLY <5>1, <5>2, NewestIs
      <4> QED
        BY <2>4, <3>2, <4>1
    <3> QED
      BY <3>1, <3>2
  <2>6. Len(tail) \in Nat
    BY <1>3, <2>2, <2>4
  <2>7. report.events = tail /\ report.truncated = (sz > Len(tail))
    BY <2>1
  <2> HIDE DEF report
  <2>8. report.truncated = (Len(report.events) < Len(kept))
    BY <1>3, <1>4, <2>6, <2>7
  <2> QED
    BY <2>5, <2>7, <2>8 DEF report
<1>9. ASSUME NEW capacity \in 1 .. n + 1
      PROVE  LET resized == SetCapacity(ring, capacity) IN
             /\ ToVector(resized) = Newest(kept, capacity)
             /\ resized.dropped + resized.size = len
  <2> DEFINE resized == SetCapacity(ring, capacity)
             keep == Least(sz, capacity)
             skip == sz - keep
             b == [i \in 0 .. capacity - 1 |-> IF i < keep THEN kept[skip + i + 1] ELSE NoEvent]
  <2>1. Newest(kept, capacity) = [i \in 1 .. keep |-> kept[skip + i]] /\ keep \in 0 .. sz
        /\ keep \in 0 .. capacity
    <3>1. Least(capacity, sz) = keep /\ keep \in 0 .. sz /\ keep \in 0 .. capacity
      BY <1>0, <1>3 DEF Least
    <3> HIDE DEF keep
    <3>0. capacity \in Nat
      BY <1>0
    <3>2. /\ capacity \in Nat /\ keep = Least(capacity, sz)
          /\ kept \in Seq(Events) /\ sz = Len(kept)
      BY <1>4, <3>0, <3>1, Zenon
    <3>3. Newest(kept, capacity) = [i \in 1 .. keep |-> kept[(sz - keep) + i]]
      BY ONLY <3>2, NewestIs
    <3> QED
      BY <3>1, <3>3 DEF keep
  <2>2. CASE capacity = n
    <3>1. resized = ring
      BY <1>1, <2>2 DEF SetCapacity
    <3>2. keep = sz /\ skip = 0
      BY <1>0, <1>3, <2>2 DEF Least
    <3>3. Newest(kept, capacity) = kept
      BY <1>3, <1>4, <2>1, <3>2
    <3>4. d + sz = len
      BY <1>1, <1>3
    <3> QED
      BY <1>6, <3>1, <3>3, <3>4 DEF d, sz
  <2>3. CASE capacity # n
    <3>1. resized = [buffer |-> b, head |-> 0, size |-> keep, capacity |-> capacity,
                     dropped |-> d + skip]
      <4>1. capacity # 0
        BY <1>0
      <4>2. keep = IF Len(kept) < capacity THEN Len(kept) ELSE capacity
        BY <1>4 DEF Least
      <4>3. skip = Len(kept) - keep
        BY <1>4
      <4> QED
        BY <1>1, <1>6, <2>3, <4>1, <4>2, <4>3, Zenon DEF SetCapacity, d
    <3> HIDE DEF resized, keep, skip, b
    <3>2. ToVector(resized) = [i \in 1 .. keep |-> b[(0 + i - 1) % capacity]]
      <4>1. /\ resized.buffer = b /\ resized.head = 0 /\ resized.size = keep
            /\ resized.capacity = capacity
        BY <3>1
      <4> QED
        BY <4>1, Zenon DEF ToVector
    <3>3. ASSUME NEW i \in 1 .. keep PROVE b[(0 + i - 1) % capacity] = kept[skip + i]
      <4>1. /\ 0 + i - 1 \in 0 .. capacity - 1 /\ 0 + i - 1 < keep
            /\ skip \in Nat /\ skip + (0 + i - 1) + 1 = skip + i
        BY <1>0, <1>3, <2>1 DEF skip
      <4>2. (0 + i - 1) % capacity = 0 + i - 1
        BY <1>0, <4>1
      <4> QED
        BY <4>1, <4>2 DEF b
    <3>4. resized.dropped + resized.size = len
      <4>1. resized.dropped = d + skip /\ resized.size = keep
        BY <3>1
      <4> QED
        BY <1>1, <1>3, <2>1, <4>1 DEF skip
    <3> QED
      BY <2>1, <3>2, <3>3, <3>4 DEF resized
  <2> QED
    BY <2>2, <2>3
<1> QED
  BY <1>6, <1>7, <1>8, <1>9 DEF n, len, kept, d

-----------------------------------------------------------------------------
(* recompute_flow.                                                         *)

\* The greatest of a set of numbers.
LEMMA GreatestIs ==
  ASSUME NEW T, T \subseteq Nat, NEW x \in T, \A y \in T : y <= x
  PROVE  Max(T) = x
<1> DEFINE Is(m) == \A y \in T : m >= y
<1>1. Is(x)
  OBVIOUS
<1>2. \A m \in T : Is(m) => m = x
  OBVIOUS
<1>3. Max(T) = CHOOSE m \in T : Is(m)
  BY Zenon DEF Max
<1> HIDE DEF Is
<1>4. (CHOOSE m \in T : Is(m)) \in T /\ Is(CHOOSE m \in T : Is(m))
  BY <1>1, Zenon
<1> QED
  BY <1>2, <1>3, <1>4

\* One more transition speaks of its own generation only.
LEMMA SaidNext ==
  ASSUME NEW all \in Seq(Events), NEW event \in Events, NEW g \in Nat
  PROVE  LET p == Append(all, event) IN
         /\ \A n \in 0 .. Len(all) : Said(p, g, n) = Said(all, g, n)
         /\ Said(p, g, Len(all) + 1) = IF event.gen = g THEN event.to
                                                        ELSE Said(all, g, Len(all))
<1> DEFINE p == Append(all, event)
           len == Len(all)
           Of(e, n) == {0} \cup {i \in 1 .. n : e[i].gen = g}
<1>1. /\ len \in Nat /\ p[len + 1] = event /\ \A i \in 1 .. len : p[i] = all[i]
  BY LenProperties, AppendProperties
<1>2. \A e, n : Said(e, g, n) = IF Max(Of(e, n)) = 0 THEN "Unknown" ELSE e[Max(Of(e, n))].to
  BY Zenon DEF Said
<1> HIDE DEF p, len
<1>3. ASSUME NEW n \in 0 .. len PROVE Said(p, g, n) = Said(all, g, n)
  <2>1. \A i \in 1 .. n : p[i] = all[i]
    BY <1>1
  <2>2. Of(p, n) = Of(all, n)
    BY <2>1
  <2>3. Max(Of(all, n)) \in 0 .. n
    <3>1. Of(all, n) \in SUBSET Nat /\ Of(all, n) \in SUBSET (0 .. n) /\ 0 \in Of(all, n)
      BY <1>1
    <3> HIDE DEF Of
    <3>2. IsFiniteSet(Of(all, n))
      <4>1. IsFiniteSet(0 .. n)
        BY <1>1, FS_Interval
      <4> QED
        BY <3>1, <4>1, FS_Subset
    <3>3. PICK x \in Of(all, n) : \A y \in Of(all, n) : y <= x
      BY <3>1, <3>2, GreatestNumber
    <3>4. Max(Of(all, n)) = x
      BY <3>1, <3>3, GreatestIs
    <3> QED
      BY <3>1, <3>4
  <2> HIDE DEF Of
  <2> QED
    BY <1>2, <2>1, <2>2, <2>3
<1>4. CASE event.gen = g
  <2>1. /\ Of(p, len + 1) \subseteq Nat /\ len + 1 \in Of(p, len + 1)
        /\ \A y \in Of(p, len + 1) : y <= len + 1
    BY <1>1, <1>4
  <2> HIDE DEF Of
  <2>2. Max(Of(p, len + 1)) = len + 1
    BY <2>1, GreatestIs
  <2>3. len + 1 # 0
    BY <1>1
  <2>4. Said(p, g, len + 1) = event.to
    BY <1>1, <1>2, <2>2, <2>3
  <2> QED
    BY <1>3, <1>4, <2>4 DEF p, len
<1>5. CASE event.gen # g
  <2>1. Of(p, len + 1) = Of(p, len)
    BY <1>1, <1>5
  <2>2. len \in 0 .. len /\ len + 1 # 0
    BY <1>1
  <2> HIDE DEF Of
  <2>3. Said(p, g, len + 1) = Said(p, g, len)
    BY <1>2, <2>1
  <2>4. Said(p, g, len) = Said(all, g, len)
    BY <1>3, <2>2
  <2> QED
    BY <1>3, <1>5, <2>3, <2>4 DEF p, len
<1> QED
  BY <1>4, <1>5

\* A transition continues the chain of its generation.
LEMMA TransitionChains ==
  ASSUME NEW gens, NEW all \in Seq(Events), Chained(gens, all), NEW g \in DOMAIN gens,
         g \in Nat, NEW next, next # gens[g].state, ~IsTerminal(gens[g].state),
         NEW event \in Events, event = [gen |-> g, from |-> gens[g].state, to |-> next],
         NEW new, DOMAIN new = DOMAIN gens, new[g].state = next,
         \A h \in DOMAIN gens : h # g => new[h].state = gens[h].state
  PROVE  Chained(new, Append(all, event))
<1> DEFINE p == Append(all, event)
           len == Len(all)
<1>1. /\ len \in Nat /\ p[len + 1] = event /\ Len(p) = len + 1
      /\ \A i \in 1 .. len : p[i] = all[i] /\ all[i] \in Events
  BY LenProperties, AppendProperties, ElementOfSeq
<1>2. ASSUME NEW h \in Nat
      PROVE  /\ \A n \in 0 .. len : Said(p, h, n) = Said(all, h, n)
             /\ Said(p, h, len + 1) = IF h = g THEN next ELSE Said(all, h, len)
  <2>1. event.gen = g /\ event.to = next
    OBVIOUS
  <2> QED
    BY <2>1, SaidNext
<1>3. event.from = gens[g].state /\ event.gen = g
  OBVIOUS
<1> HIDE DEF p, len
<1>4. ASSUME NEW i \in 1 .. len + 1
      PROVE  LET said == Said(p, p[i].gen, i - 1) IN
             \/ p[i].from = said /\ ~IsTerminal(said)
             \/ p[i].from = "Unknown" /\ IsTerminal(said)
  <2>1. CASE i = len + 1
    <3>1. Said(p, g, len) = Said(all, g, len)
      BY <1>1, <1>2
    <3>2. i - 1 = len /\ p[i] = event
      BY <1>1, <2>1
    <3>3. \/ gens[g].state = Said(all, g, len)
          \/ gens[g].state = "Unknown" /\ IsTerminal(Said(all, g, len))
      BY DEF Chained, len
    <3> QED
      BY <1>3, <3>1, <3>2, <3>3
  <2>2. CASE i # len + 1
    <3>1. i \in 1 .. len /\ i - 1 \in 0 .. len
      BY <1>1, <2>2
    <3>2. p[i] = all[i] /\ all[i].gen \in Nat
      BY <1>1, <3>1 DEF Events
    <3>3. Said(p, p[i].gen, i - 1) = Said(all, all[i].gen, i - 1)
      BY <1>2, <3>1, <3>2
    <3>4. LET said == Said(all, all[i].gen, i - 1) IN
          \/ all[i].from = said /\ ~IsTerminal(said)
          \/ all[i].from = "Unknown" /\ IsTerminal(said)
      BY <3>1 DEF Chained, len
    <3> QED
      BY <3>2, <3>3, <3>4
  <2> QED
    BY <2>1, <2>2
<1>5. ASSUME NEW h \in Nat
      PROVE  LET said == Said(p, h, len + 1) IN
             IF h \in DOMAIN new
             THEN new[h].state = said \/ (new[h].state = "Unknown" /\ IsTerminal(said))
             ELSE said = "Unknown" \/ IsTerminal(said)
  <2>1. CASE h = g
    BY <1>2, <2>1
  <2>2. CASE h # g
    <3>1. Said(p, h, len + 1) = Said(all, h, len)
      BY <1>2, <2>2
    <3>2. LET said == Said(all, h, len) IN
          IF h \in DOMAIN gens
          THEN gens[h].state = said \/ (gens[h].state = "Unknown" /\ IsTerminal(said))
          ELSE said = "Unknown" \/ IsTerminal(said)
      BY DEF Chained, len
    <3> QED
      BY <2>2, <3>1, <3>2
  <2> QED
    BY <2>1, <2>2
<1>6. Chained(new, p)
  BY <1>1, <1>4, <1>5, Zenon DEF Chained
<1> QED
  BY <1>6 DEF p

\* The chains depend on the states of the generations only.
LEMMA SameStatesChain ==
  ASSUME NEW gens, NEW all, Chained(gens, all), NEW new, DOMAIN new = DOMAIN gens,
         \A g \in DOMAIN gens : new[g].state = gens[g].state
  PROVE  Chained(new, all)
<1>1. ASSUME NEW g \in Nat
      PROVE  LET said == Said(all, g, Len(all)) IN
             IF g \in DOMAIN new
             THEN new[g].state = said \/ (new[g].state = "Unknown" /\ IsTerminal(said))
             ELSE said = "Unknown" \/ IsTerminal(said)
  BY DEF Chained
<1> QED
  BY <1>1, Zenon DEF Chained

\* A flow without generations has no chains.
LEMMA NothingChains ==
  ASSUME NEW gens, DOMAIN gens = {}
  PROVE  Chained(gens, <<>>)
<1>1. Len(<<>>) = 0 /\ 1 .. 0 = {}
  OBVIOUS
<1>2. ASSUME NEW g PROVE Said(<<>>, g, 0) = "Unknown"
  <2> DEFINE T == {0} \cup {i \in 1 .. 0 : <<>>[i].gen = g}
  <2>1. T = {0}
    BY <1>1
  <2>2. Said(<<>>, g, 0) = IF Max(T) = 0 THEN "Unknown" ELSE <<>>[Max(T)].to
    BY Zenon DEF Said
  <2> HIDE DEF T
  <2>3. Max(T) = 0
    BY <2>1, GreatestIs
  <2> QED
    BY <2>2, <2>3
<1> QED
  BY <1>1, <1>2 DEF Chained

\* A new generation is behind the chain of an earlier one with its number.
LEMMA NewGenerationChains ==
  ASSUME NEW gens, NEW all, Chained(gens, all), NEW n, n \notin DOMAIN gens,
         NEW new, new[n].state = "Unknown", n \in DOMAIN new,
         DOMAIN new \subseteq DOMAIN gens \cup {n},
         \A g \in DOMAIN new : g # n => new[g].state = gens[g].state,
         \A g \in DOMAIN gens \ DOMAIN new : IsTerminal(gens[g].state)
  PROVE  Chained(new, all)
<1>1. ASSUME NEW g \in Nat
      PROVE  LET said == Said(all, g, Len(all)) IN
             IF g \in DOMAIN new
             THEN new[g].state = said \/ (new[g].state = "Unknown" /\ IsTerminal(said))
             ELSE said = "Unknown" \/ IsTerminal(said)
  <2>1. LET said == Said(all, g, Len(all)) IN
        IF g \in DOMAIN gens
        THEN gens[g].state = said \/ (gens[g].state = "Unknown" /\ IsTerminal(said))
        ELSE said = "Unknown" \/ IsTerminal(said)
    BY DEF Chained
  <2>2. ~IsTerminal("Unknown")
    BY FlowTableAssumption DEF IsTerminal
  <2> QED
    BY <2>1, <2>2
<1> QED
  BY <1>1, Zenon DEF Chained

\* transition keeps everything but the state of the generation and the ring.
LEMMA TransitionKeeps ==
  ASSUME NEW f, NEW flow, NEW present, SoundCore(f, flow, present),
         NEW g \in DOMAIN flow.gens, NEW next \in AllStates,
         IsTerminal(flow.gens[g].state) => next = flow.gens[g].state
  PROVE  LET q == Transition(flow, g, next) IN
         /\ SoundCore(f, q, present) /\ DOMAIN q.gens = DOMAIN flow.gens
         /\ q.current = flow.current /\ q.touched = flow.touched
         /\ q.gens[g].state = next
         /\ \A h \in DOMAIN flow.gens : h # g => q.gens[h].state = flow.gens[h].state
<1> DEFINE q == Transition(flow, g, next)
           old == flow.gens[g]
           event == [gen |-> g, from |-> old.state, to |-> next]
<1>1. CASE old.state = next
  BY <1>1 DEF Transition
<1>2. CASE old.state # next
  <2>1. /\ flow = [key |-> flow.key, gens |-> flow.gens, current |-> flow.current,
                   state |-> flow.state, touched |-> flow.touched, history |-> flow.history,
                   pushed |-> flow.pushed]
        /\ SoundGenerations(flow.key, present, flow.gens)
    BY DEF SoundCore
  <2>2. /\ SoundGeneration(flow.key, present, old) /\ g \in Nat
        /\ flow.gens = [h \in DOMAIN flow.gens |-> flow.gens[h]]
    BY <2>1 DEF SoundGenerations
  <2>3. old = [state |-> old.state, bound |-> old.bound] /\ old.state \in AllStates
    BY <2>2 DEF SoundGeneration
  <2> DEFINE new == [state |-> next, bound |-> old.bound]
             gens == [flow.gens EXCEPT ![g] = new]
             ring == Push(flow.history, event)
             pushed == Append(flow.pushed, event)
  <2>4. new = [old EXCEPT !.state = next]
    BY <2>3
  <2>5. q = [flow EXCEPT !.history = ring, !.pushed = pushed, !.gens = gens]
    BY <1>2, <2>4, Zenon DEF Transition
  <2> HIDE DEF gens, ring, pushed
  <2>6. q = [key |-> flow.key, gens |-> gens, current |-> flow.current, state |-> flow.state,
             touched |-> flow.touched, history |-> ring, pushed |-> pushed]
    BY <2>1, <2>5
  <2> HIDE DEF q
  <2>7. /\ q = [key |-> q.key, gens |-> q.gens, current |-> q.current, state |-> q.state,
                touched |-> q.touched, history |-> q.history, pushed |-> q.pushed]
        /\ q.key = flow.key /\ q.gens = gens /\ q.current = flow.current
        /\ q.touched = flow.touched /\ q.history = ring /\ q.pushed = pushed
    BY <2>6
  <2>8. event \in Events
    BY <2>2, <2>3 DEF Events
  <2>9. SoundRing(ring, pushed)
    BY <2>8, PushKeeps DEF SoundCore, ring, pushed
  <2>10. /\ DOMAIN gens = DOMAIN flow.gens /\ gens[g] = new
         /\ gens = [h \in DOMAIN gens |-> gens[h]]
         /\ \A h \in DOMAIN flow.gens : h # g => gens[h] = flow.gens[h]
    BY <2>2 DEF gens
  <2>11. SoundGeneration(flow.key, present, new)
    BY <2>2 DEF SoundGeneration
  <2>12. SoundGenerations(flow.key, present, gens)
    BY <2>1, <2>10, <2>11 DEF SoundGenerations
  <2>13. /\ gens[g].state = next
         /\ \A h \in DOMAIN flow.gens : h # g => gens[h].state = flow.gens[h].state
    BY <2>10
  <2>14. Chained(gens, pushed)
    <3>1. flow.pushed \in Seq(Events) /\ Chained(flow.gens, flow.pushed)
      BY DEF SoundCore, SoundRing
    <3>2. ~IsTerminal(old.state) /\ next # old.state
      BY <1>2
    <3> HIDE DEF event, old
    <3>3. event = [gen |-> g, from |-> flow.gens[g].state, to |-> next]
      BY DEF event, old
    <3>4. ~IsTerminal(flow.gens[g].state) /\ next # flow.gens[g].state
      BY <3>2 DEF old
    <3> DEFINE G == flow.gens
               all == flow.pushed
    <3>5. /\ g \in DOMAIN G /\ g \in Nat /\ all \in Seq(Events) /\ Chained(G, all)
          /\ next # G[g].state /\ ~IsTerminal(G[g].state) /\ event \in Events
          /\ event = [gen |-> g, from |-> G[g].state, to |-> next]
      BY <2>2, <2>8, <3>1, <3>3, <3>4
    <3>6. /\ DOMAIN gens = DOMAIN G /\ gens[g].state = next
          /\ \A h \in DOMAIN G : h # g => gens[h].state = G[h].state
      BY <2>10, <2>13
    <3>7. pushed = Append(all, event)
      BY DEF pushed
    <3> HIDE DEF G, all
    <3>8. Chained(gens, Append(all, event))
      BY <3>5, <3>6, TransitionChains
    <3> QED
      BY <3>7, <3>8
  <2>15. SoundCore(f, q, present)
    BY <2>7, <2>9, <2>10, <2>12, <2>14 DEF SoundCore, IsCurrent
  <2> QED
    BY <2>7, <2>10, <2>13, <2>15 DEF q
<1> QED
  BY <1>1, <1>2

\* The loop of recompute_flow: the recursion is defined, and it keeps what
\* transition keeps.
LEMMA SettledKeeps ==
  ASSUME NEW f, NEW flow, NEW present, SoundCore(f, flow, present), DOMAIN flow.gens # {},
         NEW decisions,
         \A g \in DOMAIN flow.gens :
           /\ decisions[g] \in AllStates
           /\ IsTerminal(flow.gens[g].state) => decisions[g] = flow.gens[g].state
  PROVE  LET q == Settled(flow, decisions) IN
         /\ SoundCore(f, q, present) /\ DOMAIN q.gens = DOMAIN flow.gens
         /\ q.current = flow.current /\ q.touched = flow.touched
         /\ \A g \in DOMAIN flow.gens : q.gens[g].state = decisions[g]
<1> DEFINE m == Max(DOMAIN flow.gens)
           Step(q, n) == IF n \in DOMAIN flow.gens THEN Transition(q, n, decisions[n]) ELSE q
           upTo[n \in 0 .. m] ==
             IF n = 0 THEN flow
             ELSE IF n \in DOMAIN flow.gens THEN Transition(upTo[n - 1], n, decisions[n])
             ELSE upTo[n - 1]
           Defines(u, k) == u = [n \in 0 .. k |-> IF n = 0 THEN flow ELSE Step(u[n - 1], n)]
           Undefined == {k \in 0 .. m : ~ \E u : Defines(u, k)}
<1>0. m \in Nat
  <2>1. /\ DOMAIN flow.gens \subseteq Nat /\ flow.current \in DOMAIN flow.gens
        /\ \A g \in DOMAIN flow.gens : g <= flow.current
    BY DEF SoundCore, SoundGenerations, IsCurrent
  <2>2. m = flow.current
    BY <2>1, GreatestIs
  <2> QED
    BY <2>1, <2>2
<1>1. Settled(flow, decisions) = upTo[m]
  BY DEF Settled
<1> HIDE DEF m
<1>2. \E u : Defines(u, m)
  <2> SUFFICES ASSUME ~ \E u : Defines(u, m) PROVE FALSE
    OBVIOUS
  <2>1. Undefined \in SUBSET Nat /\ m \in Undefined
    <3> HIDE DEF Defines
    <3>1. m \in 0 .. m /\ Undefined \in SUBSET Nat
      BY <1>0
    <3> QED
      BY <3>1, Zenon
  <2> HIDE DEF Undefined
  <2>2. PICK k \in Undefined : \A j \in Undefined : k <= j
    BY <2>1, LeastNumber
  <2>3. k \in 0 .. m /\ ~ \E u : Defines(u, k)
    BY DEF Undefined
  <2> HIDE DEF Step
  <2>4. k # 0
    <3> DEFINE zero == [n \in 0 .. 0 |-> flow]
    <3>1. zero = [n \in 0 .. 0 |-> IF n = 0 THEN flow ELSE Step(zero[n - 1], n)]
      OBVIOUS
    <3> QED
      BY <2>3, <3>1
  <2>5. k - 1 \in 0 .. m /\ ~(k <= k - 1) /\ k \in Nat
    BY <1>0, <2>3, <2>4
  <2>6. PICK u : Defines(u, k - 1)
    BY <2>2, <2>5 DEF Undefined
  <2> DEFINE v == [n \in 0 .. k |-> IF n = k THEN Step(u[k - 1], k) ELSE u[n]]
  <2>7. ASSUME NEW n \in 0 .. k
        PROVE  v[n] = IF n = 0 THEN flow ELSE Step(v[n - 1], n)
    <3>1. CASE n = k
      BY <2>4, <2>5, <3>1
    <3>2. CASE n # k
      <4>1. n \in 0 .. (k - 1) /\ n \in 0 .. k /\ v[n] = u[n]
        BY <2>5, <3>2
      <4>2. u[n] = IF n = 0 THEN flow ELSE Step(u[n - 1], n)
        BY <2>6, <4>1
      <4>3. n # 0 => v[n - 1] = u[n - 1]
        BY <2>5, <4>1
      <4> QED
        BY <4>1, <4>2, <4>3
    <3> QED
      BY <3>1, <3>2
  <2>8. Defines(v, k)
    BY <2>7
  <2> QED
    BY <2>3, <2>8
<1>3. upTo = [n \in 0 .. m |-> IF n = 0 THEN flow ELSE Step(upTo[n - 1], n)]
  BY <1>2
<1> HIDE DEF upTo
<1> DEFINE Kept(q, n) ==
             /\ SoundCore(f, q, present) /\ DOMAIN q.gens = DOMAIN flow.gens
             /\ q.current = flow.current /\ q.touched = flow.touched
             /\ \A g \in DOMAIN flow.gens :
                  q.gens[g].state = IF g <= n THEN decisions[g] ELSE flow.gens[g].state
           Wrong == {n \in 0 .. m : ~Kept(upTo[n], n)}
<1>d. DOMAIN flow.gens \subseteq Nat \ {0} /\ \A g \in DOMAIN flow.gens : g <= m
  <2>1. /\ DOMAIN flow.gens \subseteq Nat \ {0} /\ flow.current \in DOMAIN flow.gens
        /\ \A g \in DOMAIN flow.gens : g <= flow.current
    BY DEF SoundCore, SoundGenerations, IsCurrent
  <2>2. m = flow.current
    BY <2>1, GreatestIs DEF m
  <2> QED
    BY <2>1, <2>2
<1>4. Kept(flow, 0)
  <2>1. \A g \in DOMAIN flow.gens : ~(g <= 0)
    BY <1>d
  <2> QED
    BY <2>1
<1>5. ASSUME NEW n \in Nat \ {0}, NEW q, Kept(q, n - 1) PROVE Kept(Step(q, n), n)
  <2>1. CASE n \in DOMAIN flow.gens
    <3>1. /\ n \in DOMAIN q.gens /\ decisions[n] \in AllStates
          /\ q.gens[n].state = flow.gens[n].state
      BY <1>5, <2>1
    <3> DEFINE t == Transition(q, n, decisions[n])
    <3>2. /\ SoundCore(f, t, present) /\ DOMAIN t.gens = DOMAIN q.gens
          /\ t.current = q.current /\ t.touched = q.touched
          /\ t.gens[n].state = decisions[n]
          /\ \A h \in DOMAIN q.gens : h # n => t.gens[h].state = q.gens[h].state
      BY <1>5, <2>1, <3>1, TransitionKeeps
    <3>3. Step(q, n) = t
      BY <2>1
    <3> HIDE DEF t, Step
    <3>4. ASSUME NEW g \in DOMAIN flow.gens
          PROVE  t.gens[g].state = IF g <= n THEN decisions[g] ELSE flow.gens[g].state
      <4>1. CASE g = n
        BY <1>d, <3>2, <4>1
      <4>2. CASE g # n
        <5>1. g <= n <=> g <= n - 1
          BY <1>d, <4>2
        <5>2. t.gens[g].state = q.gens[g].state
          BY <1>5, <3>2, <4>2
        <5> QED
          BY <1>5, <5>1, <5>2
      <4> QED
        BY <4>1, <4>2
    <3> QED
      BY <1>5, <3>2, <3>3, <3>4
  <2>2. CASE n \notin DOMAIN flow.gens
    <3>1. \A g \in DOMAIN flow.gens : g <= n <=> g <= n - 1
      BY <1>d, <2>2
    <3>2. Step(q, n) = q
      BY <2>2
    <3> HIDE DEF Step
    <3> QED
      BY <1>5, <3>1, <3>2
  <2> QED
    BY <2>1, <2>2
<1>6. Kept(upTo[m], m)
  <2> HIDE DEF Kept, Step
  <2> SUFFICES ASSUME ~Kept(upTo[m], m) PROVE FALSE
    OBVIOUS
  <2>1. Wrong \in SUBSET Nat /\ m \in Wrong
    BY <1>0
  <2> HIDE DEF Wrong
  <2>2. PICK k \in Wrong : \A j \in Wrong : k <= j
    BY <2>1, LeastNumber
  <2>3. k \in 0 .. m /\ ~Kept(upTo[k], k)
    BY DEF Wrong
  <2>4. upTo[k] = IF k = 0 THEN flow ELSE Step(upTo[k - 1], k)
    BY <1>3, <2>3
  <2>5. k # 0
    BY <1>4, <2>3, <2>4
  <2>6. k - 1 \in 0 .. m /\ ~(k <= k - 1) /\ k \in Nat \ {0}
    BY <1>0, <2>3, <2>5
  <2>7. Kept(upTo[k - 1], k - 1)
    BY <2>2, <2>6 DEF Wrong
  <2> QED
    BY <1>5, <2>3, <2>4, <2>5, <2>6, <2>7
<1> QED
  BY <1>1, <1>6, <1>d

\* recompute_flow: the flow takes the state of its current generation.
LEMMA RecomputeKeeps ==
  ASSUME NEW f, NEW flow, NEW present, SoundCore(f, flow, present),
         DOMAIN flow.gens = {} => StateFollows(flow),
         NEW decisions \in PossibleDecisions(flow)
  PROVE  LET q == RecomputeFlow(flow, decisions) IN
         /\ SoundFlow(f, q, present) /\ DOMAIN q.gens = DOMAIN flow.gens
         /\ q.current = flow.current /\ q.touched = flow.touched
<1> DEFINE q == RecomputeFlow(flow, decisions)
           settled == Settled(flow, decisions)
<1>1. CASE DOMAIN flow.gens = {}
  BY <1>1 DEF RecomputeFlow, SoundFlow, Decided
<1>2. CASE DOMAIN flow.gens # {}
  <2>1. \A g \in DOMAIN flow.gens :
          /\ decisions[g] \in AllStates /\ decisions[g] # "Unknown"
          /\ IsTerminal(flow.gens[g].state) => decisions[g] = flow.gens[g].state
    BY FlowTableAssumption DEF PossibleDecisions, AllStates
  <2>2. /\ SoundCore(f, settled, present) /\ DOMAIN settled.gens = DOMAIN flow.gens
        /\ settled.current = flow.current /\ settled.touched = flow.touched
        /\ \A g \in DOMAIN flow.gens : settled.gens[g].state = decisions[g]
    BY <1>2, <2>1, SettledKeeps
  <2> HIDE DEF settled
  <2>3. settled.current \in DOMAIN settled.gens
    BY <1>2, <2>2 DEF SoundCore, IsCurrent
  <2>4. q = [settled EXCEPT !.current = settled.current,
                            !.state = settled.gens[settled.current].state]
    BY <1>2, <2>3 DEF RecomputeFlow, settled
  <2>5. settled = [key |-> settled.key, gens |-> settled.gens, current |-> settled.current,
                   state |-> settled.state, touched |-> settled.touched,
                   history |-> settled.history, pushed |-> settled.pushed]
    BY <2>2 DEF SoundCore
  <2> HIDE DEF q
  <2>6. q = [key |-> settled.key, gens |-> settled.gens, current |-> settled.current,
             state |-> settled.gens[settled.current].state, touched |-> settled.touched,
             history |-> settled.history, pushed |-> settled.pushed]
    BY <2>4, <2>5
  <2>7. /\ q = [key |-> q.key, gens |-> q.gens, current |-> q.current, state |-> q.state,
                touched |-> q.touched, history |-> q.history, pushed |-> q.pushed]
        /\ q.key = settled.key /\ q.gens = settled.gens /\ q.current = settled.current
        /\ q.touched = settled.touched /\ q.history = settled.history
        /\ q.pushed = settled.pushed /\ q.state = settled.gens[settled.current].state
    BY <2>6
  <2>8. SoundCore(f, q, present)
    BY <2>2, <2>7 DEF SoundCore
  <2>9. StateFollows(q)
    BY <2>3, <2>7 DEF StateFollows
  <2>10. Decided(q)
    BY <2>1, <2>2, <2>7 DEF Decided
  <2> QED
    BY <2>2, <2>7, <2>8, <2>9, <2>10 DEF SoundFlow, q
<1> QED
  BY <1>1, <1>2

-----------------------------------------------------------------------------
(* The stages of apply_locked.                                             *)

\* Adding to a table that has room.
LEMMA RoomForOne ==
  ASSUME NEW S, IsFiniteSet(S), NEW x, x \notin S, NEW n \in Nat, ~(Cardinality(S) >= n)
  PROVE  IsFiniteSet(S \cup {x}) /\ Cardinality(S \cup {x}) <= n
<1>1. Cardinality(S) \in Nat
  BY FS_CardinalityType
<1>2. IsFiniteSet(S \cup {x}) /\ Cardinality(S \cup {x}) = Cardinality(S) + 1
  BY FS_AddElement
<1> QED
  BY <1>1, <1>2

\* Exchanging one entry of a table for another.
LEMMA OneForOne ==
  ASSUME NEW S, IsFiniteSet(S), NEW x, x \notin S, NEW y \in S, NEW n \in Nat,
         Cardinality(S) <= n
  PROVE  IsFiniteSet((S \ {y}) \cup {x}) /\ Cardinality((S \ {y}) \cup {x}) <= n
<1>1. Cardinality(S) \in Nat
  BY FS_CardinalityType
<1>2. IsFiniteSet(S \ {y}) /\ Cardinality(S \ {y}) = Cardinality(S) - 1
  BY FS_RemoveElement
<1>3. x \notin S \ {y}
  OBVIOUS
<1>4. /\ IsFiniteSet((S \ {y}) \cup {x})
      /\ Cardinality((S \ {y}) \cup {x}) = Cardinality(S \ {y}) + 1
  BY <1>2, <1>3, FS_AddElement
<1> QED
  BY <1>1, <1>2, <1>4

\* A flow stays sound when more sources are present.
LEMMA MorePresent ==
  ASSUME NEW table, NEW P, NEW Q, P \subseteq Q, SoundFlows(table, P)
  PROVE  SoundFlows(table, Q)
  BY DEF SoundFlows, SoundFlow, SoundCore, SoundGenerations, SoundGeneration

\* The flow that is created for an observation.
LEMMA EmptyFlowIsSound ==
  ASSUME NEW f, NEW key \in Keys, IdOf[key] = f, NEW at \in Nat, NEW P
  PROVE  SoundFlow(f, EmptyFlow(key, at), P)
<1> DEFINE q == EmptyFlow(key, at)
           ring == SetCapacity(EmptyRing, MaxHistory)
           none == [g \in {} |-> 0]
<1>1. q = [key |-> key, gens |-> none, current |-> 0, state |-> "Unknown", touched |-> at,
           history |-> ring, pushed |-> <<>>]
  BY DEF EmptyFlow
<1>2. DOMAIN none = {} /\ none = [g \in DOMAIN none |-> none[g]]
  OBVIOUS
<1>3. SoundRing(ring, <<>>)
  <2>0. MaxHistory \in Nat
    BY FlowTableAssumption
  <2>1. <<>> \in Seq(Events) /\ Len(<<>>) = 0
    OBVIOUS
  <2>2. Least(0, MaxHistory) = 0
    BY <2>0 DEF Least
  <2>3. CASE MaxHistory = 0
    <3>1. ring = EmptyRing
      BY <2>3 DEF SetCapacity, EmptyRing
    <3>2. /\ ring = [buffer |-> ring.buffer, head |-> ring.head, size |-> ring.size,
                     capacity |-> ring.capacity, dropped |-> ring.dropped]
          /\ ring.head = 0 /\ ring.size = 0 /\ ring.capacity = 0 /\ ring.dropped = 0
      BY <3>1 DEF EmptyRing
    <3> HIDE DEF ring
    <3> QED
      BY <2>1, <2>2, <2>3, <3>2 DEF SoundRing
  <2>4. CASE MaxHistory # 0
    <3> DEFINE old == EmptyRing
               ordered == ToVector(old)
               b == [i \in 0 .. MaxHistory - 1 |->
                       IF i < 0 THEN ordered[0 + i + 1] ELSE NoEvent]
    <3>1. old.size = 0 /\ old.capacity = 0 /\ old.dropped = 0
      BY DEF EmptyRing
    <3>2. Len(ordered) = 0
      <4>1. ordered = [i \in 1 .. 0 |-> old.buffer[(old.head + i - 1) % old.capacity]]
        BY <3>1, Zenon DEF ToVector
      <4>2. ordered = <<>>
        BY <4>1
      <4> QED
        BY <4>2
    <3> HIDE DEF ordered, old
    <3>3. /\ (IF Len(ordered) < MaxHistory THEN Len(ordered) ELSE MaxHistory) = 0
          /\ Len(ordered) - 0 = 0 /\ old.dropped + 0 = 0
      BY <2>0, <2>4, <3>1, <3>2
    <3>4. ring = [buffer |-> b, head |-> 0, size |-> 0, capacity |-> MaxHistory,
                  dropped |-> 0]
      BY <2>4, <3>1, <3>3, Zenon DEF SetCapacity, ordered, old
    <3> HIDE DEF ring
    <3>5. /\ ring = [buffer |-> ring.buffer, head |-> ring.head, size |-> ring.size,
                     capacity |-> ring.capacity, dropped |-> ring.dropped]
          /\ ring.buffer = b /\ ring.head = 0 /\ ring.size = 0
          /\ ring.capacity = MaxHistory /\ ring.dropped = 0
      BY <3>4
    <3>6. b = [i \in 0 .. MaxHistory - 1 |-> b[i]]
      OBVIOUS
    <3> HIDE DEF b
    <3>7. 0 \in 0 .. MaxHistory - 1 /\ 0 .. (0 - 1) = {}
      BY <2>0, <2>4
    <3> QED
      BY <2>1, <2>2, <2>4, <3>5, <3>6, <3>7 DEF SoundRing
  <2> QED
    BY <2>3, <2>4
<1> HIDE DEF q, ring, none
<1>4. /\ q = [key |-> q.key, gens |-> q.gens, current |-> q.current, state |-> q.state,
              touched |-> q.touched, history |-> q.history, pushed |-> q.pushed]
      /\ q.key = key /\ q.gens = none /\ q.current = 0 /\ q.state = "Unknown"
      /\ q.touched = at /\ q.history = ring /\ q.pushed = <<>>
  BY <1>1
<1>5. SoundGenerations(key, P, none)
  <2>1. IsFiniteSet({}) /\ Cardinality({}) = 0 /\ MaxGenerations \in Nat
    BY FS_EmptySet, FlowTableAssumption
  <2> QED
    BY <1>2, <2>1 DEF SoundGenerations
<1>6. SoundCore(f, q, P)
  <2>1. Chained(none, <<>>)
    BY <1>2, NothingChains
  <2> QED
    BY <1>2, <1>3, <1>4, <1>5, <2>1 DEF SoundCore, IsCurrent
<1>7. StateFollows(q)
  BY <1>2, <1>4, FlowTableAssumption DEF StateFollows
<1>8. Decided(q)
  BY <1>2, <1>4 DEF Decided
<1> QED
  BY <1>6, <1>7, <1>8 DEF SoundFlow, q

\* The flow table once the flow of an observation is in it: what was evicted
\* for it was terminal and touched the longest ago.
LEMMA AdmitKeeps ==
  ASSUME NEW P, SoundFlows(flows, P), NEW o \in Observations, Validates(o),
         ~NoRoomForFlow(o), now \in Nat
  PROVE  LET table == AdmitFlow(o) IN
         /\ SoundFlows(table, P) /\ Subject(o) \in DOMAIN table
         /\ Subject(o) \in DOMAIN flows => table = flows
         /\ Subject(o) \notin DOMAIN flows => table[Subject(o)] = EmptyFlow(o.key, now)
         /\ \A f \in DOMAIN flows \cap DOMAIN table : table[f] = flows[f]
         /\ \A f \in DOMAIN flows \ DOMAIN table :
              /\ Cardinality(DOMAIN flows) = MaxFlows
              /\ IsTerminal(flows[f].state)
              /\ \A e \in DOMAIN flows \cap DOMAIN table :
                   IsTerminal(flows[e].state) => flows[f].touched <= flows[e].touched
<1> DEFINE table == AdmitFlow(o)
           s == Subject(o)
           new == EmptyFlow(o.key, now)
<1>0. /\ IsFiniteSet(DOMAIN flows) /\ Cardinality(DOMAIN flows) <= MaxFlows
      /\ \A f \in DOMAIN flows : SoundFlow(f, flows[f], P)
      /\ MaxFlows \in Nat /\ Cardinality(DOMAIN flows) \in Nat
  BY FS_CardinalityType, FlowTableAssumption DEF SoundFlows
<1>1. CASE s \in DOMAIN flows
  BY <1>1 DEF AdmitFlow
<1>2. CASE s \notin DOMAIN flows
  <2>1. SoundFlow(s, new, P)
    <3>1. o.key \in Keys /\ IdOf[o.key] = s
      BY FlowTableAssumption DEF Validates, Subject
    <3> QED
      BY <3>1, EmptyFlowIsSound
  <2>2. ASSUME NEW kept, table = With(kept, s, new), DOMAIN kept \subseteq DOMAIN flows,
               \A f \in DOMAIN kept : kept[f] = flows[f],
               IsFiniteSet(DOMAIN kept \cup {s}),
               Cardinality(DOMAIN kept \cup {s}) <= MaxFlows
        PROVE  /\ SoundFlows(table, P) /\ DOMAIN table = DOMAIN kept \cup {s}
               /\ table[s] = new
               /\ \A f \in DOMAIN flows \cap DOMAIN table : table[f] = flows[f]
    <3> HIDE DEF table, new
    <3>1. /\ DOMAIN table = DOMAIN kept \cup {s} /\ table[s] = new
          /\ table = [f \in DOMAIN table |-> table[f]]
          /\ \A f \in DOMAIN kept : f # s => table[f] = kept[f]
      BY <2>2 DEF With
    <3>2. \A f \in DOMAIN flows \cap DOMAIN table : table[f] = flows[f]
      BY <1>2, <2>2, <3>1
    <3>3. \A f \in DOMAIN table : SoundFlow(f, table[f], P)
      BY <1>0, <2>1, <2>2, <3>1, <3>2
    <3> QED
      BY <2>2, <3>1, <3>2, <3>3 DEF SoundFlows
  <2>3. CASE ~FlowTableFull
    <3>1. table = With(flows, s, new)
      BY <1>2, <2>3 DEF AdmitFlow
    <3>2. IsFiniteSet(DOMAIN flows \cup {s}) /\ Cardinality(DOMAIN flows \cup {s}) <= MaxFlows
      BY <1>0, <1>2, <2>3, RoomForOne DEF FlowTableFull
    <3> HIDE DEF table, new
    <3>3. /\ SoundFlows(table, P) /\ DOMAIN table = DOMAIN flows \cup {s}
          /\ table[s] = new
          /\ \A f \in DOMAIN flows \cap DOMAIN table : table[f] = flows[f]
      BY <2>2, <3>1, <3>2
    <3> QED
      BY <1>2, <3>3 DEF table, new
  <2>4. CASE FlowTableFull
    <3> DEFINE v == CHOOSE f \in FlowVictims : TRUE
               kept == Without(flows, v)
    <3>1. v \in FlowVictims
      BY <1>2, <2>4 DEF NoRoomForFlow
    <3> HIDE DEF v
    <3>2. /\ v \in DOMAIN flows /\ IsTerminal(flows[v].state)
          /\ \A e \in DOMAIN flows \ {v} : IsTerminal(flows[e].state) =>
               flows[v].touched < flows[e].touched \/ flows[v].touched = flows[e].touched
      BY <3>1 DEF FlowVictims
    <3>3. DOMAIN kept = DOMAIN flows \ {v} /\ \A f \in DOMAIN kept : kept[f] = flows[f]
      BY DEF Without
    <3>4. table = With(kept, s, new)
      BY <1>2, <2>4 DEF AdmitFlow, v
    <3> HIDE DEF kept, table, new
    <3>5. /\ IsFiniteSet((DOMAIN flows \ {v}) \cup {s})
          /\ Cardinality((DOMAIN flows \ {v}) \cup {s}) <= MaxFlows
      BY <1>0, <1>2, <3>2, OneForOne
    <3>6. /\ SoundFlows(table, P) /\ DOMAIN table = DOMAIN kept \cup {s} /\ table[s] = new
          /\ \A f \in DOMAIN flows \cap DOMAIN table : table[f] = flows[f]
      BY <2>2, <3>3, <3>4, <3>5
    <3>7. Cardinality(DOMAIN flows) = MaxFlows
      BY <1>0, <2>4 DEF FlowTableFull
    <3>8. \A f \in DOMAIN flows : flows[f].touched \in Nat
      BY <1>0 DEF SoundFlow, SoundCore
    <3>9. \A f \in DOMAIN flows \ DOMAIN table : f = v
      BY <3>3, <3>6
    <3>10. \A e \in DOMAIN flows \cap DOMAIN table :
             IsTerminal(flows[e].state) => flows[v].touched <= flows[e].touched
      BY <3>2, <3>8
    <3> QED
      BY <1>2, <3>2, <3>6, <3>7, <3>9, <3>10 DEF table, new
  <2> QED
    BY <2>3, <2>4
<1> QED
  BY <1>1, <1>2

\* register_identity: an identity keeps the key that registered it.
LEMMA RegisterKeeps ==
  ASSUME SoundRegistry(endpoints), NEW names \in Seq(Names)
  PROVE  SoundRegistry(RegisterIdentity(names).registry)
<1> DEFINE m == Len(names)
           Step(acc, name) ==
             IF ~acc.ok THEN acc
             ELSE CASE Observe(acc.registry, name) = "Known"      -> acc
                    [] Observe(acc.registry, name) = "Registered" ->
                         [acc EXCEPT !.registry = With(@, NameId[name], name)]
                    [] OTHER -> [acc EXCEPT !.ok = FALSE]
           first == [ok |-> TRUE, registry |-> endpoints]
           Defines(u, k) ==
             u = [i \in 0 .. k |-> IF i = 0 THEN first ELSE Step(u[i - 1], names[i])]
           upTo == CHOOSE u : u = [i \in 0 .. m |->
                     IF i = 0 THEN first ELSE Step(u[i - 1], names[i])]
           Undefined == {k \in 0 .. m : ~ \E u : Defines(u, k)}
<1>0. m \in Nat
  BY LenProperties
<1>1. RegisterIdentity(names) = upTo[m]
  BY DEF RegisterIdentity
<1> HIDE DEF m
<1>2. \E u : Defines(u, m)
  <2> SUFFICES ASSUME ~ \E u : Defines(u, m) PROVE FALSE
    OBVIOUS
  <2>1. Undefined \in SUBSET Nat /\ m \in Undefined
    <3> HIDE DEF Defines
    <3>1. m \in 0 .. m /\ Undefined \in SUBSET Nat
      BY <1>0
    <3> QED
      BY <3>1, Zenon
  <2> HIDE DEF Undefined
  <2>2. PICK k \in Undefined : \A j \in Undefined : k <= j
    BY <2>1, LeastNumber
  <2>3. k \in 0 .. m /\ ~ \E u : Defines(u, k)
    BY DEF Undefined
  <2> HIDE DEF Step, first
  <2>4. k # 0
    <3> DEFINE zero == [i \in 0 .. 0 |-> first]
    <3>1. zero = [i \in 0 .. 0 |-> IF i = 0 THEN first ELSE Step(zero[i - 1], names[i])]
      OBVIOUS
    <3> QED
      BY <2>3, <3>1
  <2>5. k - 1 \in 0 .. m /\ ~(k <= k - 1) /\ k \in Nat
    BY <1>0, <2>3, <2>4
  <2>6. PICK u : Defines(u, k - 1)
    BY <2>2, <2>5 DEF Undefined
  <2> DEFINE v == [i \in 0 .. k |-> IF i = k THEN Step(u[k - 1], names[k]) ELSE u[i]]
  <2>7. ASSUME NEW i \in 0 .. k
        PROVE  v[i] = IF i = 0 THEN first ELSE Step(v[i - 1], names[i])
    <3>1. CASE i = k
      BY <2>4, <2>5, <3>1
    <3>2. CASE i # k
      <4>1. i \in 0 .. (k - 1) /\ i \in 0 .. k /\ v[i] = u[i]
        BY <2>5, <3>2
      <4>2. u[i] = IF i = 0 THEN first ELSE Step(u[i - 1], names[i])
        BY <2>6, <4>1
      <4>3. i # 0 => v[i - 1] = u[i - 1]
        BY <2>5, <4>1
      <4> QED
        BY <4>1, <4>2, <4>3
    <3> QED
      BY <3>1, <3>2
  <2>8. Defines(v, k)
    BY <2>7
  <2> QED
    BY <2>3, <2>8
<1>3. upTo = [i \in 0 .. m |-> IF i = 0 THEN first ELSE Step(upTo[i - 1], names[i])]
  BY <1>2
<1> HIDE DEF upTo
<1> DEFINE Kept(acc) == /\ acc = [ok |-> acc.ok, registry |-> acc.registry]
                        /\ SoundRegistry(acc.registry)
           Wrong == {i \in 0 .. m : ~Kept(upTo[i])}
<1>4. Kept(first)
  OBVIOUS
<1>5. ASSUME NEW name \in Names, NEW acc, Kept(acc) PROVE Kept(Step(acc, name))
  <2> DEFINE r == acc.registry
             w == With(r, NameId[name], name)
  <2>0. \/ Step(acc, name) = acc
        \/ Step(acc, name) = [acc EXCEPT !.ok = FALSE]
        \/ /\ Step(acc, name) = [acc EXCEPT !.registry = w]
           /\ Observe(r, name) = "Registered"
    OBVIOUS
  <2> HIDE DEF Step
  <2>1. CASE Step(acc, name) = acc
    BY <1>5, <2>1
  <2>2. CASE Step(acc, name) = [acc EXCEPT !.ok = FALSE]
    <3>1. Step(acc, name) = [ok |-> FALSE, registry |-> r]
      BY <1>5, <2>2
    <3> QED
      BY <1>5, <3>1
  <2>3. CASE Step(acc, name) = [acc EXCEPT !.registry = w] /\ Observe(r, name) = "Registered"
    <3>1. NameId[name] \notin DOMAIN r /\ ~(Cardinality(DOMAIN r) >= MaxFlows)
      BY <2>3 DEF Observe
    <3>2. /\ DOMAIN w = DOMAIN r \cup {NameId[name]} /\ w = [e \in DOMAIN w |-> w[e]]
          /\ w[NameId[name]] = name /\ \A e \in DOMAIN r : w[e] = r[e]
      BY <3>1 DEF With
    <3> HIDE DEF w
    <3>3. MaxFlows \in Nat
      BY FlowTableAssumption
    <3>4. IsFiniteSet(DOMAIN w) /\ Cardinality(DOMAIN w) <= MaxFlows
      <4>1. IsFiniteSet(DOMAIN r)
        BY <1>5 DEF SoundRegistry
      <4> HIDE DEF r
      <4> QED
        BY <3>1, <3>2, <3>3, <4>1, RoomForOne
    <3>5. SoundRegistry(w)
      BY <1>5, <3>2, <3>4 DEF SoundRegistry
    <3>6. Step(acc, name) = [ok |-> acc.ok, registry |-> w]
      BY <1>5, <2>3
    <3> QED
      BY <3>5, <3>6
  <2> QED
    BY <2>0, <2>1, <2>2, <2>3
<1>6. Kept(upTo[m])
  <2> HIDE DEF Kept, Step, first
  <2> SUFFICES ASSUME ~Kept(upTo[m]) PROVE FALSE
    OBVIOUS
  <2>1. Wrong \in SUBSET Nat /\ m \in Wrong
    BY <1>0
  <2> HIDE DEF Wrong
  <2>2. PICK k \in Wrong : \A j \in Wrong : k <= j
    BY <2>1, LeastNumber
  <2>3. k \in 0 .. m /\ ~Kept(upTo[k])
    BY DEF Wrong
  <2>4. upTo[k] = IF k = 0 THEN first ELSE Step(upTo[k - 1], names[k])
    BY <1>3, <2>3
  <2>5. k # 0
    BY <1>4, <2>3, <2>4
  <2>6. k - 1 \in 0 .. m /\ ~(k <= k - 1) /\ k \in 1 .. m
    BY <1>0, <2>3, <2>5
  <2>7. Kept(upTo[k - 1])
    BY <2>2, <2>6 DEF Wrong
  <2>8. names[k] \in Names
    BY <2>6, ElementOfSeq DEF m
  <2> QED
    BY <1>5, <2>3, <2>4, <2>5, <2>7, <2>8
<1> QED
  BY <1>1, <1>6

\* obtain_generation: what is evicted for it is terminal and superseded.
LEMMA ObtainKeeps ==
  ASSUME NEW f, NEW flow, NEW P, SoundCore(f, flow, P), NEW o, o.gen \in Nat \ {0},
         ~NoRoomForGeneration(flow, o)
  PROVE  LET q == ObtainGeneration(flow, o) IN
         /\ SoundCore(f, q, P) /\ o.gen \in DOMAIN q.gens
         /\ q.key = flow.key /\ q.touched = flow.touched
         /\ o.gen \in DOMAIN flow.gens => q = flow
         /\ o.gen \notin DOMAIN flow.gens => q.gens[o.gen] = NewGeneration
         /\ \A g \in DOMAIN flow.gens \ DOMAIN q.gens :
              IsTerminal(flow.gens[g].state) /\ g < q.current
<1> DEFINE q == ObtainGeneration(flow, o)
           new == o.gen
           gens == flow.gens
<1>0. /\ flow = [key |-> flow.key, gens |-> flow.gens, current |-> flow.current,
                 state |-> flow.state, touched |-> flow.touched, history |-> flow.history,
                 pushed |-> flow.pushed]
      /\ flow.key \in Keys /\ IdOf[flow.key] = f
      /\ SoundGenerations(flow.key, P, flow.gens)
      /\ IsCurrent(flow.current, flow.gens)
      /\ flow.touched \in Nat /\ SoundRing(flow.history, flow.pushed)
      /\ Chained(flow.gens, flow.pushed)
  BY DEF SoundCore
<1>1. /\ IsFiniteSet(DOMAIN gens) /\ Cardinality(DOMAIN gens) <= MaxGenerations
      /\ DOMAIN gens \subseteq Nat \ {0} /\ MaxGenerations \in Nat
      /\ \A g \in DOMAIN gens : SoundGeneration(flow.key, P, gens[g])
  BY <1>0, FlowTableAssumption DEF SoundGenerations
<1>2. CASE new \in DOMAIN gens
  BY <1>2 DEF ObtainGeneration
<1>3. CASE new \notin DOMAIN gens
  <2> DEFINE cur == IF new > flow.current THEN new ELSE flow.current
  <2>1. SoundGeneration(flow.key, P, NewGeneration)
    <3>1. IsFiniteSet({}) /\ Cardinality({}) = 0 /\ MaxSourcesPerFlow \in Nat
      BY FS_EmptySet, FlowTableAssumption
    <3> DEFINE none == [s \in {} |-> {}]
    <3>2. DOMAIN none = {} /\ none = [s \in DOMAIN none |-> none[s]]
      OBVIOUS
    <3>3. /\ NewGeneration = [state |-> NewGeneration.state, bound |-> NewGeneration.bound]
          /\ NewGeneration.state = "Unknown" /\ NewGeneration.bound = none
      BY DEF NewGeneration
    <3> HIDE DEF none
    <3> QED
      BY <3>1, <3>2, <3>3 DEF SoundGeneration, AllStates
  <2>2. ASSUME NEW kept,
               q = [flow EXCEPT !.gens = With(kept, new, NewGeneration), !.current = cur],
               DOMAIN kept \subseteq DOMAIN gens,
               \A g \in DOMAIN kept : kept[g] = gens[g],
               IsFiniteSet(DOMAIN kept \cup {new}),
               Cardinality(DOMAIN kept \cup {new}) <= MaxGenerations,
               \A g \in DOMAIN gens \ DOMAIN kept : IsTerminal(gens[g].state),
               flow.current \in DOMAIN kept \/ DOMAIN gens = {}
        PROVE  /\ SoundCore(f, q, P) /\ DOMAIN q.gens = DOMAIN kept \cup {new}
               /\ q.key = flow.key /\ q.touched = flow.touched
               /\ q.gens[new] = NewGeneration /\ q.current = cur
    <3> DEFINE w == With(kept, new, NewGeneration)
    <3>1. /\ DOMAIN w = DOMAIN kept \cup {new} /\ w = [g \in DOMAIN w |-> w[g]]
          /\ w[new] = NewGeneration /\ \A g \in DOMAIN kept : g # new => w[g] = kept[g]
      BY DEF With
    <3>2. q = [key |-> flow.key, gens |-> w, current |-> cur,
               state |-> flow.state, touched |-> flow.touched, history |-> flow.history,
               pushed |-> flow.pushed]
      BY <1>0, <2>2
    <3> HIDE DEF w, cur, q
    <3>3. /\ q = [key |-> q.key, gens |-> q.gens, current |-> q.current, state |-> q.state,
                  touched |-> q.touched, history |-> q.history, pushed |-> q.pushed]
          /\ q.key = flow.key /\ q.gens = w /\ q.current = cur /\ q.state = flow.state
          /\ q.touched = flow.touched /\ q.history = flow.history /\ q.pushed = flow.pushed
      BY <3>2
    <3>4. SoundGenerations(flow.key, P, w)
      BY <1>1, <2>1, <2>2, <3>1 DEF SoundGenerations
    <3>5. IsCurrent(cur, w)
      <4>1. CASE DOMAIN gens = {}
        <5>1. DOMAIN w = {new} /\ flow.current = 0
          BY <1>0, <2>2, <3>1, <4>1 DEF IsCurrent
        <5>2. cur = new
          BY <5>1 DEF cur
        <5> QED
          BY <5>1, <5>2 DEF IsCurrent
      <4>2. CASE DOMAIN gens # {}
        <5>1. /\ flow.current \in DOMAIN kept /\ flow.current \in Nat
              /\ \A g \in DOMAIN gens : g <= flow.current /\ g \in Nat
          BY <1>0, <1>1, <2>2, <4>2 DEF IsCurrent
        <5>2. cur \in DOMAIN w /\ \A g \in DOMAIN w : g <= cur
          BY <2>2, <3>1, <5>1 DEF cur
        <5> QED
          BY <5>2 DEF IsCurrent
      <4> QED
        BY <4>1, <4>2
    <3>6. Chained(w, flow.pushed)
      <4>1. /\ w[new].state = "Unknown" /\ new \in DOMAIN w
            /\ DOMAIN w \subseteq DOMAIN gens \cup {new}
            /\ \A g \in DOMAIN w : g # new => w[g].state = gens[g].state
            /\ \A g \in DOMAIN gens \ DOMAIN w : IsTerminal(gens[g].state)
        BY <2>2, <3>1 DEF NewGeneration
      <4> QED
        BY <1>0, <1>3, <4>1, NewGenerationChains, Zenon
    <3>7. SoundCore(f, q, P)
      BY <1>0, <3>3, <3>4, <3>5, <3>6 DEF SoundCore
    <3> QED
      BY <3>1, <3>3, <3>7
  <2>3. CASE ~(Cardinality(DOMAIN gens) >= MaxGenerations)
    <3>1. q = [flow EXCEPT !.gens = With(gens, new, NewGeneration), !.current = cur]
      BY <1>0, <1>3, <2>3 DEF ObtainGeneration
    <3>2. /\ IsFiniteSet(DOMAIN gens \cup {new})
          /\ Cardinality(DOMAIN gens \cup {new}) <= MaxGenerations
      BY <1>1, <1>3, <2>3, RoomForOne
    <3>3. flow.current \in DOMAIN gens \/ DOMAIN gens = {}
      BY <1>0 DEF IsCurrent
    <3> HIDE DEF q, cur
    <3>4. /\ SoundCore(f, q, P) /\ DOMAIN q.gens = DOMAIN gens \cup {new}
          /\ q.key = flow.key /\ q.touched = flow.touched
          /\ q.gens[new] = NewGeneration
      BY <2>2, <3>1, <3>2, <3>3
    <3> QED
      BY <1>3, <3>4 DEF q
  <2>4. CASE Cardinality(DOMAIN gens) >= MaxGenerations
    <3> DEFINE v == CHOOSE g \in GenerationVictims(flow) : TRUE
               kept == Without(gens, v)
    <3>1. v \in GenerationVictims(flow)
      BY <1>3, <2>4 DEF NoRoomForGeneration
    <3>2. q = [flow EXCEPT !.gens = With(kept, new, NewGeneration), !.current = cur]
      BY <1>0, <1>3, <2>4 DEF ObtainGeneration
    <3> HIDE DEF v
    <3>3. v \in DOMAIN gens /\ v # flow.current /\ IsTerminal(gens[v].state)
      BY <3>1 DEF GenerationVictims
    <3>4. DOMAIN kept = DOMAIN gens \ {v} /\ \A g \in DOMAIN kept : kept[g] = gens[g]
      BY DEF Without
    <3>5. /\ IsFiniteSet((DOMAIN gens \ {v}) \cup {new})
          /\ Cardinality((DOMAIN gens \ {v}) \cup {new}) <= MaxGenerations
      BY <1>1, <1>3, <3>3, OneForOne
    <3>6. /\ flow.current \in DOMAIN gens /\ flow.current \in DOMAIN kept
          /\ v <= flow.current /\ v \in Nat /\ flow.current \in Nat
          /\ \A g \in DOMAIN gens \ DOMAIN kept : IsTerminal(gens[g].state)
      BY <1>0, <1>1, <3>3, <3>4 DEF IsCurrent
    <3>7. v < cur
      BY <3>3, <3>6
    <3> HIDE DEF q, cur, kept
    <3>8. /\ SoundCore(f, q, P) /\ DOMAIN q.gens = DOMAIN kept \cup {new}
          /\ q.key = flow.key /\ q.touched = flow.touched
          /\ q.gens[new] = NewGeneration /\ q.current = cur
      BY <2>2, <3>2, <3>4, <3>5, <3>6
    <3>9. \A g \in DOMAIN gens \ DOMAIN q.gens : g = v
      BY <3>4, <3>8
    <3> QED
      BY <1>3, <3>3, <3>7, <3>8, <3>9 DEF q
  <2> QED
    BY <2>3, <2>4
<1> QED
  BY <1>2, <1>3

\* obtain_binding: the source is bound and named the key of the flow only.
LEMMA BindKeeps ==
  ASSUME NEW f, NEW flow, NEW P, SoundCore(f, flow, P), NEW o, o.gen \in DOMAIN flow.gens,
         o.src \in P, o.key = flow.key, ~NoRoomForBinding(flow, o), NEW at \in Nat
  PROVE  LET q == [Bind(flow, o) EXCEPT !.touched = at] IN
         /\ SoundCore(f, q, P) /\ DOMAIN q.gens = DOMAIN flow.gens
         /\ q.current = flow.current
<1> DEFINE q == [Bind(flow, o) EXCEPT !.touched = at]
           gens == flow.gens
           n == o.gen
           bound == gens[n].bound
           said == IF o.src \in DOMAIN bound THEN bound[o.src] ELSE {}
           b == With(bound, o.src, said \cup {o.key})
           gens1 == [gens EXCEPT ![n].bound = b]
<1>0. /\ flow = [key |-> flow.key, gens |-> flow.gens, current |-> flow.current,
                 state |-> flow.state, touched |-> flow.touched, history |-> flow.history,
                 pushed |-> flow.pushed]
      /\ flow.key \in Keys /\ IdOf[flow.key] = f
      /\ SoundGenerations(flow.key, P, flow.gens)
      /\ IsCurrent(flow.current, flow.gens)
      /\ flow.touched \in Nat /\ SoundRing(flow.history, flow.pushed)
      /\ Chained(flow.gens, flow.pushed)
  BY DEF SoundCore
<1>1. /\ gens = [g \in DOMAIN gens |-> gens[g]]
      /\ IsFiniteSet(DOMAIN gens) /\ Cardinality(DOMAIN gens) <= MaxGenerations
      /\ DOMAIN gens \subseteq Nat \ {0}
      /\ \A g \in DOMAIN gens : SoundGeneration(flow.key, P, gens[g])
  BY <1>0 DEF SoundGenerations
<1>2. /\ gens[n] = [state |-> gens[n].state, bound |-> bound]
      /\ gens[n].state \in AllStates
      /\ IsFiniteSet(DOMAIN bound) /\ Cardinality(DOMAIN bound) <= MaxSourcesPerFlow
      /\ DOMAIN bound \subseteq P /\ \A s \in DOMAIN bound : bound[s] = {flow.key}
  BY <1>1 DEF SoundGeneration
<1>3. Bind(flow, o) = [flow EXCEPT !.gens[n].bound = b]
  BY DEF Bind
<1>4. said \cup {o.key} = {flow.key}
  BY <1>2
<1>5. /\ DOMAIN b = DOMAIN bound \cup {o.src} /\ b = [s \in DOMAIN b |-> b[s]]
      /\ \A s \in DOMAIN b : b[s] = {flow.key}
  <2> HIDE DEF said, bound
  <2> QED
    BY <1>2, <1>4 DEF With
<1>6. IsFiniteSet(DOMAIN b) /\ Cardinality(DOMAIN b) <= MaxSourcesPerFlow
  <2>1. MaxSourcesPerFlow \in Nat
    BY FlowTableAssumption
  <2>2. o.src \in DOMAIN bound \/ ~(Cardinality(DOMAIN bound) >= MaxSourcesPerFlow)
    BY DEF NoRoomForBinding, Bound
  <2> HIDE DEF bound, b
  <2>3. CASE o.src \in DOMAIN bound
    <3>1. DOMAIN b = DOMAIN bound
      BY <1>5, <2>3
    <3> QED
      BY <1>2, <3>1
  <2>4. CASE o.src \notin DOMAIN bound
    BY <1>2, <1>5, <2>1, <2>2, <2>4, RoomForOne
  <2> QED
    BY <2>3, <2>4
<1> HIDE DEF b, said
<1>7. /\ DOMAIN gens1 = DOMAIN gens /\ gens1 = [g \in DOMAIN gens1 |-> gens1[g]]
      /\ gens1[n] = [state |-> gens[n].state, bound |-> b]
      /\ \A g \in DOMAIN gens : g # n => gens1[g] = gens[g]
  BY <1>1, <1>2
<1>8. q = [key |-> flow.key, gens |-> gens1, current |-> flow.current,
           state |-> flow.state, touched |-> at, history |-> flow.history,
           pushed |-> flow.pushed]
  <2>1. Bind(flow, o) = [flow EXCEPT !.gens = gens1]
    BY <1>3, Zenon
  <2> HIDE DEF gens1
  <2>2. Bind(flow, o) = [key |-> flow.key, gens |-> gens1, current |-> flow.current,
                         state |-> flow.state, touched |-> flow.touched,
                         history |-> flow.history, pushed |-> flow.pushed]
    BY <1>0, <2>1
  <2> QED
    BY <2>2
<1> HIDE DEF gens1, q, bound
<1>9. SoundGeneration(flow.key, P, gens1[n])
  <2>1. /\ gens1[n] = [state |-> gens1[n].state, bound |-> gens1[n].bound]
        /\ gens1[n].state = gens[n].state /\ gens1[n].bound = b
    BY <1>7
  <2> QED
    BY <1>2, <1>5, <1>6, <2>1 DEF SoundGeneration
<1>10. SoundGenerations(flow.key, P, gens1)
  BY <1>1, <1>7, <1>9 DEF SoundGenerations
<1>11. IsCurrent(flow.current, gens1)
  BY <1>0, <1>7 DEF IsCurrent
<1>12. /\ q = [key |-> q.key, gens |-> q.gens, current |-> q.current, state |-> q.state,
               touched |-> q.touched, history |-> q.history, pushed |-> q.pushed]
       /\ q.key = flow.key /\ q.gens = gens1 /\ q.current = flow.current
       /\ q.touched = at /\ q.history = flow.history /\ q.pushed = flow.pushed
  BY <1>8
<1>13. Chained(gens1, flow.pushed)
  <2>1. \A g \in DOMAIN gens : gens1[g].state = gens[g].state
    BY <1>7
  <2> QED
    BY <1>0, <1>7, <2>1, SameStatesChain
<1>14. SoundCore(f, q, P)
  BY <1>0, <1>10, <1>11, <1>12, <1>13 DEF SoundCore
<1> QED
  BY <1>7, <1>12, <1>14 DEF q

\* Replacing a flow of the table by another sound one.
LEMMA ReplaceKeeps ==
  ASSUME NEW table, NEW P, SoundFlows(table, P), NEW f \in DOMAIN table, NEW q,
         SoundFlow(f, q, P)
  PROVE  LET new == [table EXCEPT ![f] = q] IN
         /\ SoundFlows(new, P) /\ DOMAIN new = DOMAIN table
         /\ new[f] = q /\ \A e \in DOMAIN table : e # f => new[e] = table[e]
<1> DEFINE new == [table EXCEPT ![f] = q]
<1>1. /\ DOMAIN new = DOMAIN table /\ new = [e \in DOMAIN new |-> new[e]]
      /\ new[f] = q /\ \A e \in DOMAIN table : e # f => new[e] = table[e]
  BY DEF SoundFlows
<1> HIDE DEF new
<1>2. \A e \in DOMAIN new : SoundFlow(e, new[e], P)
  BY <1>1 DEF SoundFlows
<1>3. SoundFlows(new, P)
  BY <1>1, <1>2 DEF SoundFlows
<1> QED
  BY <1>1, <1>3 DEF new

-----------------------------------------------------------------------------
(* The steps.                                                              *)

\* What EvictionTakesOnlyFinished says of two tables.
OnlyFinished(old, new) ==
  /\ \A f \in DOMAIN old \ DOMAIN new :
       /\ Cardinality(DOMAIN old) = MaxFlows
       /\ IsTerminal(ReportedState(old[f]))
       /\ \A e \in DOMAIN old \cap DOMAIN new :
            IsTerminal(old[e].state) => old[f].touched <= old[e].touched
  /\ \A f \in DOMAIN old \cap DOMAIN new :
       \A g \in DOMAIN old[f].gens \ DOMAIN new[f].gens :
         IsTerminal(old[f].gens[g].state) /\ g < new[f].current

\* A flow that eviction takes for terminal is reported as terminal.
LEMMA TerminalIsReported ==
  ASSUME NEW f, NEW flow, NEW P, SoundFlow(f, flow, P), IsTerminal(flow.state)
  PROVE  IsTerminal(ReportedState(flow))
<1>1. DOMAIN flow.gens # {} /\ flow.state = flow.gens[flow.current].state
  BY FlowTableAssumption DEF SoundFlow, StateFollows, IsTerminal
<1>2. flow.current \in DOMAIN flow.gens
  BY <1>1 DEF SoundFlow, SoundCore, IsCurrent
<1> QED
  BY <1>1, <1>2 DEF ReportedState

\* The table after an observation that changed its flow.
LEMMA AdmitAndReplace ==
  ASSUME NEW P, SoundFlows(flows, P), NEW o \in Observations, Validates(o),
         ~NoRoomForFlow(o), now \in Nat, NEW q, SoundFlow(Subject(o), q, P),
         LET old == AdmitFlow(o)[Subject(o)] IN
         \A g \in DOMAIN old.gens \ DOMAIN q.gens :
           IsTerminal(old.gens[g].state) /\ g < q.current
  PROVE  LET new == [AdmitFlow(o) EXCEPT ![Subject(o)] = q] IN
         SoundFlows(new, P) /\ OnlyFinished(flows, new)
<1> DEFINE table == AdmitFlow(o)
           s == Subject(o)
           new == [table EXCEPT ![s] = q]
<1>1. /\ SoundFlows(table, P) /\ s \in DOMAIN table
      /\ \A f \in DOMAIN flows \cap DOMAIN table : table[f] = flows[f]
      /\ \A f \in DOMAIN flows \ DOMAIN table :
           /\ Cardinality(DOMAIN flows) = MaxFlows
           /\ IsTerminal(flows[f].state)
           /\ \A e \in DOMAIN flows \cap DOMAIN table :
                IsTerminal(flows[e].state) => flows[f].touched <= flows[e].touched
  BY AdmitKeeps
<1>2. \A g \in DOMAIN table[s].gens \ DOMAIN q.gens :
        IsTerminal(table[s].gens[g].state) /\ g < q.current
  OBVIOUS
<1> HIDE DEF table, s
<1>3. /\ SoundFlows(new, P) /\ DOMAIN new = DOMAIN table
      /\ new[s] = q /\ \A e \in DOMAIN table : e # s => new[e] = table[e]
  BY <1>1, ReplaceKeeps DEF s
<1> HIDE DEF new
<1>4. ASSUME NEW f \in DOMAIN flows \ DOMAIN new
      PROVE  /\ Cardinality(DOMAIN flows) = MaxFlows
             /\ IsTerminal(ReportedState(flows[f]))
             /\ \A e \in DOMAIN flows \cap DOMAIN new :
                  IsTerminal(flows[e].state) => flows[f].touched <= flows[e].touched
  <2>1. SoundFlow(f, flows[f], P) /\ IsTerminal(flows[f].state)
    BY <1>1, <1>3 DEF SoundFlows
  <2>2. IsTerminal(ReportedState(flows[f]))
    BY <2>1, TerminalIsReported
  <2> QED
    BY <1>1, <1>3, <2>2
<1>5. ASSUME NEW f \in DOMAIN flows \cap DOMAIN new,
             NEW g \in DOMAIN flows[f].gens \ DOMAIN new[f].gens
      PROVE  IsTerminal(flows[f].gens[g].state) /\ g < new[f].current
  BY <1>1, <1>2, <1>3
<1>6. OnlyFinished(flows, new)
  BY <1>4, <1>5 DEF OnlyFinished
<1> QED
  BY <1>3, <1>6 DEF new, table, s

\* apply_locked.
LEMMA IngestKeeps ==
  ASSUME IInv, NEW o \in Observations, Ingest(o)
  PROVE  IInv' /\ OnlyFinished(flows, flows')
<1> DEFINE P == (sources \cup {o.src}) \ retired
           s == Subject(o)
           T == AdmitFlow(o)
           R == RegisterIdentity(o.names).registry
<1>0. /\ o.flow \in Nat /\ o.gen \in Nat /\ o.key \in Keys /\ o.src \in Sources
      /\ o.names \in Seq(Names)
  BY FlowTableAssumption
<1>1. Validates(o) /\ ~SourceRefused(o)
  BY DEF Ingest, IngestNoFlow, IngestCollides, IngestUnnamed, IngestSkewed,
         IngestNoGeneration, IngestRefused, IngestRecorded, Placed, Timely, Named,
         Identified, Admitted
<1>2. o.src \in P /\ o.gen \in Nat \ {0}
  BY <1>0, <1>1 DEF Validates, SourceRefused
<1>3. SoundFlows(flows, P)
  <2>1. sources \ retired \subseteq P
    OBVIOUS
  <2> HIDE DEF P
  <2> QED
    BY <2>1, MorePresent DEF IInv
<1>4. SoundRegistry(endpoints) /\ SoundRegistry(R)
  BY <1>0, RegisterKeeps DEF IInv
<1>5. now \in Nat
  BY DEF IInv
<1>6. ASSUME NEW table, NEW registry, Leaves(o, table, registry), SoundFlows(table, P),
             SoundRegistry(registry)
      PROVE  IInv'
  <2>1. /\ sources' = sources \cup {o.src} /\ flows' = table /\ endpoints' = registry
        /\ now' = now /\ retired' = retired
    BY <1>6 DEF Leaves
  <2>2. IsFiniteSet(sources') /\ Cardinality(sources') <= MaxSources
    <3>1. IsFiniteSet(sources) /\ Cardinality(sources) <= MaxSources /\ MaxSources \in Nat
      BY FlowTableAssumption DEF IInv
    <3>2. CASE o.src \in sources
      <4>1. sources' = sources
        BY <2>1, <3>2
      <4> QED
        BY <3>1, <4>1
    <3>3. CASE o.src \notin sources
      <4>1. ~(Cardinality(sources) >= MaxSources)
        BY <1>1, <3>3 DEF SourceRefused
      <4> QED
        BY <2>1, <3>1, <3>3, <4>1, RoomForOne
    <3> QED
      BY <3>2, <3>3
  <2>3. retired' \subseteq sources' /\ sources' \ retired' = P
    BY <2>1 DEF IInv
  <2>4. SoundFlows(flows', sources' \ retired') /\ SoundRegistry(endpoints') /\ now' \in Nat
    BY <1>5, <1>6, <2>1, <2>3
  <2>5. /\ SoundFlows(flows, sources \ retired)' = SoundFlows(flows', sources' \ retired')
        /\ SoundRegistry(endpoints)' = SoundRegistry(endpoints')
    BY DEF SoundFlows, SoundFlow, SoundCore, SoundGenerations, SoundGeneration, StateFollows,
           IsCurrent, SoundRing, SoundRegistry
  <2> QED
    BY <2>2, <2>3, <2>4, <2>5 DEF IInv
<1> HIDE DEF P
<1>7. CASE IngestNoFlow(o)
  <2>1. Leaves(o, flows, endpoints)
    BY <1>7 DEF IngestNoFlow
  <2>2. OnlyFinished(flows, flows')
    BY <2>1 DEF Leaves, OnlyFinished
  <2> QED
    BY <1>3, <1>4, <1>6, <2>1, <2>2
<1>8. ASSUME Admitted(o)
      PROVE  /\ SoundFlows(T, P) /\ s \in DOMAIN T /\ SoundFlow(s, T[s], P)
             /\ s \in DOMAIN flows => T = flows
             /\ s \notin DOMAIN flows => T[s] = EmptyFlow(o.key, now)
             /\ OnlyFinished(flows, T)
  <2>1. ~NoRoomForFlow(o)
    BY <1>8 DEF Admitted
  <2>2. /\ SoundFlows(T, P) /\ s \in DOMAIN T
        /\ s \in DOMAIN flows => T = flows
        /\ s \notin DOMAIN flows => T[s] = EmptyFlow(o.key, now)
    BY <1>1, <1>3, <1>5, <2>1, AdmitKeeps
  <2>3. SoundFlow(s, T[s], P) /\ T = [T EXCEPT ![s] = T[s]]
    <3> HIDE DEF T, s
    <3> QED
      BY <2>2 DEF SoundFlows
  <2>4. OnlyFinished(flows, [T EXCEPT ![s] = T[s]])
    BY <1>1, <1>3, <1>5, <2>1, <2>3, AdmitAndReplace
  <2> QED
    BY <2>2, <2>3, <2>4
<1>9. ASSUME Admitted(o), NEW q, SoundFlow(s, q, P),
             \A g \in DOMAIN T[s].gens \ DOMAIN q.gens :
               IsTerminal(T[s].gens[g].state) /\ g < q.current
      PROVE  /\ SoundFlows([T EXCEPT ![s] = q], P)
             /\ OnlyFinished(flows, [T EXCEPT ![s] = q])
  <2>1. ~NoRoomForFlow(o)
    BY <1>9 DEF Admitted
  <2> QED
    BY <1>1, <1>3, <1>5, <1>9, <2>1, AdmitAndReplace
<1>10. CASE IngestCollides(o)
  <2>1. Admitted(o) /\ Leaves(o, [flows EXCEPT ![s].state = "Conflicting"], endpoints)
    BY <1>10 DEF IngestCollides
  <2>2. T[s].key # o.key
    BY <1>10 DEF IngestCollides, Identified
  <2> DEFINE q == [T[s] EXCEPT !.state = "Conflicting"]
             new == [T EXCEPT ![s] = q]
  <2>3. T = flows
    BY <1>8, <2>1, <2>2 DEF EmptyFlow
  <2>4. [flows EXCEPT ![s].state = "Conflicting"] = new
    BY <2>3, Zenon
  <2>5. SoundFlow(s, T[s], P)
    BY <1>8, <2>1
  <2>6. SoundFlow(s, q, P) /\ DOMAIN q.gens = DOMAIN T[s].gens
    <3> DEFINE t == T[s]
    <3> HIDE DEF t, T, s
    <3>1. t = [key |-> t.key, gens |-> t.gens, current |-> t.current, state |-> t.state,
               touched |-> t.touched, history |-> t.history, pushed |-> t.pushed]
      BY <2>5 DEF SoundFlow, SoundCore, t
    <3>2. q = [key |-> t.key, gens |-> t.gens, current |-> t.current,
               state |-> "Conflicting", touched |-> t.touched, history |-> t.history,
               pushed |-> t.pushed]
      BY <3>1 DEF t
    <3> HIDE DEF q
    <3>3. /\ q = [key |-> q.key, gens |-> q.gens, current |-> q.current, state |-> q.state,
                  touched |-> q.touched, history |-> q.history, pushed |-> q.pushed]
          /\ q.key = t.key /\ q.gens = t.gens /\ q.current = t.current
          /\ q.state = "Conflicting" /\ q.touched = t.touched /\ q.history = t.history
          /\ q.pushed = t.pushed
      BY <3>2
    <3>4. SoundCore(s, q, P)
      BY <2>5, <3>3 DEF SoundFlow, SoundCore, t
    <3>5. StateFollows(q)
      BY <3>3, FlowTableAssumption DEF StateFollows
    <3>6. Decided(q)
      BY <2>5, <3>3 DEF SoundFlow, Decided, t
    <3> QED
      BY <3>3, <3>4, <3>5, <3>6 DEF SoundFlow, t
  <2> HIDE DEF q, T, s
  <2>7. SoundFlows(new, P) /\ OnlyFinished(flows, new)
    BY <1>9, <2>1, <2>6
  <2>8. Leaves(o, new, endpoints)
    BY <2>1, <2>4
  <2>9. flows' = new
    BY <2>8 DEF Leaves
  <2> HIDE DEF new
  <2> QED
    BY <1>4, <1>6, <2>7, <2>8, <2>9
<1>11. CASE IngestUnnamed(o) \/ IngestSkewed(o) \/ IngestNoGeneration(o)
  <2>1. Admitted(o) /\ Leaves(o, T, R)
    BY <1>11 DEF IngestUnnamed, IngestSkewed, IngestNoGeneration, Timely, Named, Identified
  <2>2. flows' = T
    BY <2>1 DEF Leaves
  <2> HIDE DEF T, R
  <2> QED
    BY <1>4, <1>6, <1>8, <2>1, <2>2
<1>12. ASSUME Placed(o)
       PROVE  LET q == Placement(o) IN
              /\ Admitted(o) /\ SoundCore(s, q, P) /\ o.gen \in DOMAIN q.gens
              /\ q.key = o.key
              /\ o.gen \in DOMAIN T[s].gens => q = T[s]
              /\ o.gen \notin DOMAIN T[s].gens => q.gens[o.gen] = NewGeneration
              /\ \A g \in DOMAIN T[s].gens \ DOMAIN q.gens :
                   IsTerminal(T[s].gens[g].state) /\ g < q.current
  <2>1. Admitted(o) /\ T[s].key = o.key /\ ~NoRoomForGeneration(T[s], o)
    BY <1>12 DEF Placed, Timely, Named, Identified
  <2>2. SoundCore(s, T[s], P)
    BY <1>8, <2>1 DEF SoundFlow
  <2>3. Placement(o) = ObtainGeneration(T[s], o)
    BY DEF Placement
  <2> HIDE DEF T, s
  <2> QED
    BY <1>2, <2>1, <2>2, <2>3, ObtainKeeps
<1>13. CASE IngestRefused(o)
  <2> DEFINE q == Placement(o)
             new == [T EXCEPT ![s] = q]
  <2>1. /\ Placed(o) /\ Leaves(o, new, R)
        /\ NoRoomForBinding(q, o) \/ o.src \in Bound(q, o)
    BY <1>13 DEF IngestRefused
  <2>2. /\ Admitted(o) /\ SoundCore(s, q, P)
        /\ o.gen \in DOMAIN T[s].gens => q = T[s]
        /\ o.gen \notin DOMAIN T[s].gens => q.gens[o.gen] = NewGeneration
        /\ \A g \in DOMAIN T[s].gens \ DOMAIN q.gens :
             IsTerminal(T[s].gens[g].state) /\ g < q.current
    BY <1>12, <2>1
  <2> HIDE DEF q
  <2>3. o.gen \in DOMAIN T[s].gens
    <3> SUFFICES ASSUME q.gens[o.gen] = NewGeneration PROVE FALSE
      BY <2>2
    <3>1. Bound(q, o) = {}
      BY DEF Bound, NewGeneration
    <3>2. Cardinality({}) = 0 /\ MaxSourcesPerFlow \in Nat \ {0}
      BY FS_EmptySet, FlowTableAssumption
    <3> QED
      BY <2>1, <3>1, <3>2 DEF NoRoomForBinding
  <2>4. SoundFlow(s, q, P)
    BY <1>8, <2>2, <2>3
  <2> HIDE DEF T, s, R
  <2>5. SoundFlows(new, P) /\ OnlyFinished(flows, new)
    BY <1>9, <2>2, <2>4
  <2>6. flows' = new
    BY <2>1 DEF Leaves
  <2> HIDE DEF new
  <2> QED
    BY <1>4, <1>6, <2>1, <2>5, <2>6
<1>14. CASE IngestRecorded(o)
  <2> DEFINE p == Placement(o)
             bound == [Bind(p, o) EXCEPT !.touched = now]
  <2>1. /\ Placed(o) /\ ~NoRoomForBinding(p, o)
        /\ \E decisions \in PossibleDecisions(bound) :
             Leaves(o, [T EXCEPT ![s] = RecomputeFlow(bound, decisions)], R)
    BY <1>14 DEF IngestRecorded
  <2>2. PICK decisions \in PossibleDecisions(bound) :
          Leaves(o, [T EXCEPT ![s] = RecomputeFlow(bound, decisions)], R)
    BY <2>1
  <2>3. /\ Admitted(o) /\ SoundCore(s, p, P) /\ o.gen \in DOMAIN p.gens /\ p.key = o.key
        /\ \A g \in DOMAIN T[s].gens \ DOMAIN p.gens :
             IsTerminal(T[s].gens[g].state) /\ g < p.current
    BY <1>12, <2>1
  <2> HIDE DEF p, T, s, R
  <2>4. /\ SoundCore(s, bound, P) /\ DOMAIN bound.gens = DOMAIN p.gens
        /\ bound.current = p.current
    BY <1>2, <1>5, <2>1, <2>3, BindKeeps
  <2> DEFINE q == RecomputeFlow(bound, decisions)
             new == [T EXCEPT ![s] = q]
  <2> HIDE DEF bound
  <2>5. /\ SoundFlow(s, q, P) /\ DOMAIN q.gens = DOMAIN bound.gens
        /\ q.current = bound.current
    BY <2>3, <2>4, RecomputeKeeps
  <2> HIDE DEF q
  <2>6. SoundFlows(new, P) /\ OnlyFinished(flows, new)
    BY <1>9, <2>3, <2>4, <2>5
  <2>7. Leaves(o, new, R)
    BY <2>2 DEF q
  <2>8. flows' = new
    BY <2>7 DEF Leaves
  <2> HIDE DEF new
  <2> QED
    BY <1>4, <1>6, <2>6, <2>7, <2>8
<1> QED
  BY <1>7, <1>10, <1>11, <1>13, <1>14 DEF Ingest

\* recompute_flow on several flows of a table.
LEMMA RecomputeAllKeeps ==
  ASSUME NEW table, NEW P, NEW changing, RecomputeAll(table, changing),
         IsFiniteSet(DOMAIN table), Cardinality(DOMAIN table) <= MaxFlows,
         \A f \in DOMAIN table :
           /\ SoundCore(f, table[f], P)
           /\ f \in changing => (DOMAIN table[f].gens = {} => StateFollows(table[f]))
           /\ f \notin changing => StateFollows(table[f]) /\ Decided(table[f])
  PROVE  /\ SoundFlows(flows', P) /\ DOMAIN flows' = DOMAIN table
         /\ \A f \in DOMAIN table : DOMAIN flows'[f].gens = DOMAIN table[f].gens
<1>1. PICK decisions \in [changing -> UNION {PossibleDecisions(table[f]) : f \in changing}] :
        /\ \A f \in changing : decisions[f] \in PossibleDecisions(table[f])
        /\ flows' = [f \in DOMAIN table |->
             IF f \in changing THEN RecomputeFlow(table[f], decisions[f]) ELSE table[f]]
  BY DEF RecomputeAll
<1>2. /\ DOMAIN flows' = DOMAIN table /\ flows' = [f \in DOMAIN flows' |-> flows'[f]]
      /\ \A f \in DOMAIN table :
           flows'[f] = IF f \in changing THEN RecomputeFlow(table[f], decisions[f]) ELSE table[f]
  BY <1>1
<1>3. ASSUME NEW f \in DOMAIN table
      PROVE  SoundFlow(f, flows'[f], P) /\ DOMAIN flows'[f].gens = DOMAIN table[f].gens
  <2>1. CASE f \in changing
    <3>1. decisions[f] \in PossibleDecisions(table[f])
      BY <1>1, <2>1
    <3>2. /\ SoundFlow(f, RecomputeFlow(table[f], decisions[f]), P)
          /\ DOMAIN RecomputeFlow(table[f], decisions[f]).gens = DOMAIN table[f].gens
      BY <2>1, <3>1, RecomputeKeeps
    <3> QED
      BY <1>2, <2>1, <3>2
  <2>2. CASE f \notin changing
    BY <1>2, <2>2 DEF SoundFlow
  <2> QED
    BY <2>1, <2>2
<1>4. SoundFlows(flows', P)
  BY <1>2, <1>3 DEF SoundFlows
<1> QED
  BY <1>2, <1>3, <1>4

\* tick_locked.
LEMMA TickKeeps ==
  ASSUME IInv, Tick
  PROVE  SoundFlows(flows', sources \ retired) /\ OnlyFinished(flows, flows')
<1> DEFINE P == sources \ retired
           changing == {f \in DOMAIN flows :
                          \/ DOMAIN flows[f].gens = {}
                          \/ \E g \in DOMAIN flows[f].gens : ~IsTerminal(flows[f].gens[g].state)}
<1>1. RecomputeAll(flows, changing)
  BY DEF Tick
<1>2. /\ IsFiniteSet(DOMAIN flows) /\ Cardinality(DOMAIN flows) <= MaxFlows
      /\ \A f \in DOMAIN flows :
           /\ SoundCore(f, flows[f], P) /\ StateFollows(flows[f])
           /\ Decided(flows[f])
  BY DEF IInv, SoundFlows, SoundFlow
<1> HIDE DEF changing, P
<1>3. /\ SoundFlows(flows', P) /\ DOMAIN flows' = DOMAIN flows
      /\ \A f \in DOMAIN flows : DOMAIN flows'[f].gens = DOMAIN flows[f].gens
  BY <1>1, <1>2, RecomputeAllKeeps
<1>4. OnlyFinished(flows, flows')
  BY <1>3 DEF OnlyFinished
<1> QED
  BY <1>3, <1>4 DEF P

\* The bindings of a source leave a flow.
LEMMA UnbindKeeps ==
  ASSUME NEW f, NEW flow, NEW P, SoundCore(f, flow, P), NEW s
  PROVE  LET q == Unbind(flow, s) IN
         /\ SoundCore(f, q, P \ {s}) /\ DOMAIN q.gens = DOMAIN flow.gens
         /\ DOMAIN flow.gens = {} => (StateFollows(flow) => StateFollows(q))
<1> DEFINE q == Unbind(flow, s)
           gens == flow.gens
           G == [g \in DOMAIN gens |-> [gens[g] EXCEPT !.bound = Without(gens[g].bound, s)]]
<1>0. /\ flow = [key |-> flow.key, gens |-> flow.gens, current |-> flow.current,
                 state |-> flow.state, touched |-> flow.touched, history |-> flow.history,
                 pushed |-> flow.pushed]
      /\ flow.key \in Keys /\ IdOf[flow.key] = f
      /\ SoundGenerations(flow.key, P, flow.gens)
      /\ IsCurrent(flow.current, flow.gens)
      /\ flow.touched \in Nat /\ SoundRing(flow.history, flow.pushed)
      /\ Chained(flow.gens, flow.pushed)
  BY DEF SoundCore
<1>1. q = [flow EXCEPT !.gens = G]
  BY Zenon DEF Unbind
<1>2. DOMAIN G = DOMAIN gens /\ G = [g \in DOMAIN G |-> G[g]]
  OBVIOUS
<1>3. ASSUME NEW g \in DOMAIN gens PROVE SoundGeneration(flow.key, P \ {s}, G[g])
  <2> DEFINE old == gens[g]
             b == Without(old.bound, s)
  <2>1. /\ old = [state |-> old.state, bound |-> old.bound] /\ old.state \in AllStates
        /\ IsFiniteSet(DOMAIN old.bound) /\ Cardinality(DOMAIN old.bound) <= MaxSourcesPerFlow
        /\ DOMAIN old.bound \subseteq P /\ \A x \in DOMAIN old.bound : old.bound[x] = {flow.key}
    BY <1>0 DEF SoundGenerations, SoundGeneration
  <2>2. /\ DOMAIN b = DOMAIN old.bound \ {s} /\ b = [x \in DOMAIN b |-> b[x]]
        /\ \A x \in DOMAIN b : b[x] = old.bound[x]
    BY DEF Without
  <2>3. G[g] = [old EXCEPT !.bound = b]
    OBVIOUS
  <2> HIDE DEF b, G, old
  <2>4. G[g] = [state |-> old.state, bound |-> b]
    BY <2>1, <2>3
  <2>5. /\ G[g] = [state |-> G[g].state, bound |-> G[g].bound]
        /\ G[g].state = old.state /\ G[g].bound = b
    BY <2>4
  <2>6. IsFiniteSet(DOMAIN b) /\ Cardinality(DOMAIN b) <= MaxSourcesPerFlow
    <3>1. DOMAIN b \in SUBSET DOMAIN old.bound
      BY <2>2
    <3>2. IsFiniteSet(DOMAIN b) /\ Cardinality(DOMAIN b) <= Cardinality(DOMAIN old.bound)
      BY <2>1, <3>1, FS_Subset
    <3>3. Cardinality(DOMAIN b) \in Nat /\ Cardinality(DOMAIN old.bound) \in Nat
      BY <2>1, <3>2, FS_CardinalityType
    <3>4. MaxSourcesPerFlow \in Nat
      BY FlowTableAssumption
    <3> QED
      BY <2>1, <3>2, <3>3, <3>4
  <2> QED
    BY <2>1, <2>2, <2>5, <2>6 DEF SoundGeneration
<1>10. \A g \in DOMAIN gens : G[g].state = gens[g].state
  BY <1>0 DEF SoundGenerations, SoundGeneration
<1> HIDE DEF G, q
<1>4. SoundGenerations(flow.key, P \ {s}, G)
  BY <1>0, <1>2, <1>3 DEF SoundGenerations
<1>5. q = [key |-> flow.key, gens |-> G, current |-> flow.current, state |-> flow.state,
           touched |-> flow.touched, history |-> flow.history, pushed |-> flow.pushed]
  BY <1>0, <1>1
<1>6. /\ q = [key |-> q.key, gens |-> q.gens, current |-> q.current, state |-> q.state,
              touched |-> q.touched, history |-> q.history, pushed |-> q.pushed]
      /\ q.key = flow.key /\ q.gens = G /\ q.current = flow.current /\ q.state = flow.state
      /\ q.touched = flow.touched /\ q.history = flow.history /\ q.pushed = flow.pushed
  BY <1>5
<1>7. IsCurrent(flow.current, G)
  BY <1>0, <1>2 DEF IsCurrent
<1>8. SoundCore(f, q, P \ {s})
  <2>1. Chained(G, flow.pushed)
    BY <1>0, <1>2, <1>10, SameStatesChain
  <2> QED
    BY <1>0, <1>4, <1>6, <1>7, <2>1 DEF SoundCore
<1>9. DOMAIN flow.gens = {} => (StateFollows(flow) => StateFollows(q))
  BY <1>2, <1>6 DEF StateFollows
<1> QED
  BY <1>2, <1>6, <1>8, <1>9 DEF q

\* retire_source.
LEMMA RetireKeeps ==
  ASSUME IInv, NEW s, RetireSource(s)
  PROVE  SoundFlows(flows', sources \ (retired \cup {s})) /\ OnlyFinished(flows, flows')
<1> DEFINE P == sources \ retired
           Q == sources \ (retired \cup {s})
           table == [f \in DOMAIN flows |-> Unbind(flows[f], s)]
<1>1. RecomputeAll(table, DOMAIN flows)
  BY DEF RetireSource
<1>2. /\ IsFiniteSet(DOMAIN flows) /\ Cardinality(DOMAIN flows) <= MaxFlows
      /\ \A f \in DOMAIN flows : SoundCore(f, flows[f], P) /\ StateFollows(flows[f])
  BY DEF IInv, SoundFlows, SoundFlow
<1>3. DOMAIN table = DOMAIN flows /\ Q = P \ {s}
  OBVIOUS
<1>4. ASSUME NEW f \in DOMAIN flows
      PROVE  /\ SoundCore(f, table[f], Q) /\ DOMAIN table[f].gens = DOMAIN flows[f].gens
             /\ DOMAIN table[f].gens = {} => StateFollows(table[f])
  <2> DEFINE q == Unbind(flows[f], s)
  <2>1. table[f] = q
    OBVIOUS
  <2> HIDE DEF table, P, Q
  <2>2. /\ SoundCore(f, q, P \ {s}) /\ DOMAIN q.gens = DOMAIN flows[f].gens
        /\ DOMAIN flows[f].gens = {} => (StateFollows(flows[f]) => StateFollows(q))
    BY <1>2, UnbindKeeps
  <2> HIDE DEF q
  <2> QED
    BY <1>2, <1>3, <2>1, <2>2
<1> HIDE DEF table, P, Q
<1>5. /\ SoundFlows(flows', Q) /\ DOMAIN flows' = DOMAIN table
      /\ \A f \in DOMAIN table : DOMAIN flows'[f].gens = DOMAIN table[f].gens
  BY <1>1, <1>2, <1>3, <1>4, RecomputeAllKeeps
<1>6. OnlyFinished(flows, flows')
  BY <1>3, <1>4, <1>5 DEF OnlyFinished
<1> QED
  BY <1>5, <1>6 DEF Q

\* A primed table is sound when the table it became is.
LEMMA PrimedTables ==
  /\ SoundFlows(flows, sources \ retired)' = SoundFlows(flows', sources' \ retired')
  /\ SoundRegistry(endpoints)' = SoundRegistry(endpoints')
  BY DEF SoundFlows, SoundFlow, SoundCore, SoundGenerations, SoundGeneration, StateFollows,
         IsCurrent, SoundRing, SoundRegistry

\* Every step keeps the inductive invariant and evicts only what is finished.
LEMMA NextKeeps ==
  ASSUME IInv, [Next]_vars
  PROVE  IInv' /\ OnlyFinished(flows, flows')
<1>0. flows' = flows => OnlyFinished(flows, flows')
  BY DEF OnlyFinished
<1>1. CASE TimePasses
  <2>1. /\ now' = now + 1 /\ flows' = flows /\ sources' = sources /\ retired' = retired
        /\ endpoints' = endpoints
    BY <1>1 DEF TimePasses
  <2>2. SoundFlows(flows', sources' \ retired') /\ SoundRegistry(endpoints') /\ now' \in Nat
    BY <2>1 DEF IInv
  <2> QED
    BY <1>0, <2>1, <2>2, PrimedTables DEF IInv
<1>2. CASE \E o \in Observations : Ingest(o)
  BY <1>2, IngestKeeps
<1>3. CASE Tick
  <2>1. now' = now /\ sources' = sources /\ retired' = retired /\ endpoints' = endpoints
    BY <1>3 DEF Tick
  <2>2. SoundFlows(flows', sources' \ retired') /\ OnlyFinished(flows, flows')
    BY <1>3, <2>1, TickKeeps
  <2>3. SoundRegistry(endpoints')
    BY <2>1 DEF IInv
  <2> QED
    BY <2>1, <2>2, <2>3, PrimedTables DEF IInv
<1>4. CASE \E s \in Retirable : RetireSource(s)
  <2>1. PICK s \in Retirable : RetireSource(s)
    BY <1>4
  <2>2. /\ now' = now /\ sources' = sources /\ retired' = retired \cup {s}
        /\ endpoints' = endpoints /\ s \in sources
    BY <2>1 DEF RetireSource
  <2>3. SoundFlows(flows', sources' \ retired') /\ OnlyFinished(flows, flows')
    BY <2>1, <2>2, RetireKeeps
  <2>4. SoundRegistry(endpoints')
    BY <2>2 DEF IInv
  <2> QED
    BY <2>2, <2>3, <2>4, PrimedTables DEF IInv
<1>5. CASE (\E f \in Asked : AskCurrent(f)) \/ AnswerCurrent \/ UNCHANGED vars
  <2>1. /\ now' = now /\ flows' = flows /\ sources' = sources /\ retired' = retired
        /\ endpoints' = endpoints
    BY <1>5 DEF AskCurrent, AnswerCurrent, vars
  <2>2. SoundFlows(flows', sources' \ retired') /\ SoundRegistry(endpoints')
    BY <2>1 DEF IInv
  <2> QED
    BY <1>0, <2>1, <2>2, PrimedTables DEF IInv
<1> QED
  BY <1>1, <1>2, <1>3, <1>4, <1>5 DEF Next

-----------------------------------------------------------------------------
(* The theorems.                                                           *)

LEMMA InitIInv == Init => IInv
<1> SUFFICES ASSUME Init PROVE IInv
  OBVIOUS
<1>1. /\ flows = [f \in {} |-> 0] /\ endpoints = [e \in {} |-> 0]
      /\ sources = {} /\ retired = {} /\ now = 1
  BY DEF Init
<1>2. IsFiniteSet({}) /\ Cardinality({}) = 0 /\ MaxSources \in Nat /\ MaxFlows \in Nat
  BY FS_EmptySet, FlowTableAssumption
<1>3. SoundFlows(flows, sources \ retired)
  BY <1>1, <1>2 DEF SoundFlows
<1>4. SoundRegistry(endpoints)
  BY <1>1, <1>2 DEF SoundRegistry
<1> QED
  BY <1>1, <1>2, <1>3, <1>4 DEF IInv

\* The inductive invariant of the engine's tables, behind the theorems below:
\* every flow of the table is sound, with its generations, its bindings and
\* its ring, whatever apply_locked, tick and retire_source do.
THEOREM TablesInvariant == Spec => []IInv
<1>1. IInv /\ [Next]_vars => IInv'
  BY NextKeeps
<1> QED
  BY <1>1, InitIInv, PTL DEF Spec

\* The part of TablesCoherent that relates the tables to one another.
LEMMA TablesAgree == IInv => WithinBounds /\ CurrentIsNewest /\ KeysNeverMerge
<1> SUFFICES ASSUME IInv PROVE WithinBounds /\ CurrentIsNewest /\ KeysNeverMerge
  OBVIOUS
<1>0. /\ Cardinality(sources) <= MaxSources /\ retired \subseteq sources
      /\ Cardinality(DOMAIN flows) <= MaxFlows /\ Cardinality(DOMAIN endpoints) <= MaxFlows
      /\ \A e \in DOMAIN endpoints : NameId[endpoints[e]] = e
      /\ \A f \in DOMAIN flows : SoundFlow(f, flows[f], sources \ retired)
  BY DEF IInv, SoundFlows, SoundRegistry
<1>1. ASSUME NEW f \in DOMAIN flows
      PROVE  /\ Cardinality(DOMAIN flows[f].gens) <= MaxGenerations
             /\ flows[f].history.size <= MaxHistory
             /\ IdOf[flows[f].key] = f
             /\ \A g \in DOMAIN flows[f].gens :
                  /\ Cardinality(DOMAIN flows[f].gens[g].bound) <= MaxSourcesPerFlow
                  /\ DOMAIN flows[f].gens[g].bound \subseteq sources \ retired
                  /\ \A s \in DOMAIN flows[f].gens[g].bound :
                       flows[f].gens[g].bound[s] = {flows[f].key}
  <2>1. SoundCore(f, flows[f], sources \ retired)
    BY <1>0 DEF SoundFlow
  <2>2. flows[f].history.size <= MaxHistory
    <3>1. /\ flows[f].pushed \in Seq(Events)
          /\ flows[f].history.size = Least(Len(flows[f].pushed), MaxHistory)
      BY <2>1 DEF SoundCore, SoundRing
    <3>2. Len(flows[f].pushed) \in Nat /\ MaxHistory \in Nat
      BY <3>1, LenProperties, FlowTableAssumption
    <3> QED
      BY <3>1, <3>2 DEF Least
  <2> QED
    BY <2>1, <2>2 DEF SoundCore, SoundGenerations, SoundGeneration
<1>2. ASSUME NEW f \in DOMAIN flows
      PROVE  LET flow == flows[f] IN
             IF DOMAIN flow.gens = {} THEN flow.current = 0 /\ ~IsTerminal(flow.state)
             ELSE /\ flow.current = Max(DOMAIN flow.gens)
                  /\ flow.state \in {flow.gens[flow.current].state, "Conflicting"}
  <2>1. SoundCore(f, flows[f], sources \ retired) /\ StateFollows(flows[f])
    BY <1>0 DEF SoundFlow
  <2>2. CASE DOMAIN flows[f].gens = {}
    BY <2>1, <2>2 DEF SoundCore, IsCurrent, StateFollows, IsTerminal
  <2>3. CASE DOMAIN flows[f].gens # {}
    <3>1. /\ DOMAIN flows[f].gens \subseteq Nat
          /\ flows[f].current \in DOMAIN flows[f].gens
          /\ \A g \in DOMAIN flows[f].gens : g <= flows[f].current
      BY <2>1, <2>3 DEF SoundCore, SoundGenerations, IsCurrent
    <3>2. Max(DOMAIN flows[f].gens) = flows[f].current
      BY <3>1, GreatestIs
    <3> QED
      BY <2>1, <2>3, <3>2 DEF StateFollows
  <2> QED
    BY <2>2, <2>3
<1>3. WithinBounds
  BY <1>0, <1>1 DEF WithinBounds, Bound
<1>4. CurrentIsNewest
  BY <1>2 DEF CurrentIsNewest
<1>5. KeysNeverMerge
  BY <1>0, <1>1 DEF KeysNeverMerge
<1> QED
  BY <1>3, <1>4, <1>5

\* Where the policy asks for the current generation, attribute_current's two
\* critical sections agree with the table of the second one.
LEMMA AttributionFollows ==
  ASSUME IInv, RequireCurrent
  PROVE  AttributionFollowsCurrent
<1> DEFINE f == asked.flow
           g == asked.gen
<1>1. ASSUME f \in DOMAIN flows
      PROVE  /\ 0 \notin DOMAIN flows[f].gens
             /\ flows[f].current # 0 => flows[f].current \in DOMAIN flows[f].gens
  BY <1>1 DEF IInv, SoundFlows, SoundFlow, SoundCore, SoundGenerations, IsCurrent
<1>2. Attributes(asked) = "Ok" <=>
        f \in DOMAIN flows /\ g \in DOMAIN flows[f].gens /\ g = flows[f].current
  BY DEF Attributes
<1> QED
  BY <1>1, <1>2 DEF AttributionFollowsCurrent

\* The tables stay within their limits and agree with one another, and
\* attribute_current answers for the generation that is current when its
\* second critical section runs, after any sequence of observations, ticks and
\* retirements (AttributionPolicy::require_current_generation is on, as it is
\* by default: without it a caller asks for superseded generations as well).
THEOREM TablesStayCoherent ==
  ASSUME RequireCurrent
  PROVE  Spec => []TablesCoherent
<1>1. IInv => TablesCoherent
  BY TablesAgree, AttributionFollows DEF TablesCoherent
<1> QED
  BY <1>1, TablesInvariant, PTL

\* The same for every attribution policy, without the reader's two steps.
THEOREM TablesAgreeAlways == Spec => [](WithinBounds /\ CurrentIsNewest /\ KeysNeverMerge)
  BY TablesAgree, TablesInvariant, PTL

\* HistoryRing: whatever its capacity and however often it wrapped around, the
\* ring gives back the newest transitions in their order, counts those it
\* dropped, and keeps the newest ones when it is resized.
THEOREM RingHoldsNewest == Spec => []RingKeepsNewest
<1>1. IInv => RingKeepsNewest
  <2> SUFFICES ASSUME IInv, NEW f \in DOMAIN flows
               PROVE  LET ring == flows[f].history
                          all  == flows[f].pushed
                          kept == Newest(all, MaxHistory)
                      IN  /\ ToVector(ring) = kept
                          /\ ring.dropped = Len(all) - Len(kept)
                          /\ \A limit \in 0 .. MaxHistory + 1 :
                               LET report == HistoryReport(ring, limit, MaxHistory) IN
                               /\ report.events = IF limit = 0 THEN kept ELSE Newest(kept, limit)
                               /\ report.truncated = (Len(report.events) < Len(kept))
                          /\ \A capacity \in 1 .. MaxHistory + 1 :
                               LET resized == SetCapacity(ring, capacity) IN
                               /\ ToVector(resized) = Newest(kept, capacity)
                               /\ resized.dropped + resized.size = Len(all)
    BY Zenon DEF RingKeepsNewest
  <2>1. SoundRing(flows[f].history, flows[f].pushed)
    BY DEF IInv, SoundFlows, SoundFlow, SoundCore
  <2> QED
    BY <2>1, RingGivesNewest, Zenon
<1> QED
  BY <1>1, TablesInvariant, PTL

\* HistoryRing and recompute_flow: the transitions recorded for a generation
\* chain from the first to the state it is in, and a terminal state is left
\* only by a generation that was evicted and recreated.
THEOREM HistoryExplains == Spec => []HistoryExplainsState
<1>1. IInv => HistoryExplainsState
  <2> SUFFICES ASSUME IInv, NEW f \in DOMAIN flows
               PROVE  LET all == flows[f].pushed IN
                      /\ \A g \in DOMAIN flows[f].gens :
                           flows[f].gens[g].state = Said(all, g, Len(all))
                      /\ \A i \in 1 .. Len(all) :
                           LET said == Said(all, all[i].gen, i - 1) IN
                           \/ all[i].from = said /\ ~IsTerminal(said)
                           \/ all[i].from = "Unknown" /\ IsTerminal(said)
    BY Zenon DEF HistoryExplainsState
  <2>1. SoundCore(f, flows[f], sources \ retired) /\ Decided(flows[f])
    BY DEF IInv, SoundFlows, SoundFlow
  <2>2. Chained(flows[f].gens, flows[f].pushed) /\ DOMAIN flows[f].gens \subseteq Nat
    BY <2>1 DEF SoundCore, SoundGenerations
  <2>3. ASSUME NEW g \in DOMAIN flows[f].gens
        PROVE  flows[f].gens[g].state = Said(flows[f].pushed, g, Len(flows[f].pushed))
    BY <2>1, <2>2 DEF Chained, Decided
  <2> QED
    BY <2>2, <2>3, Zenon DEF Chained
<1> QED
  BY <1>1, TablesInvariant, PTL

\* evict_one_flow_locked and evict_one_generation_locked: what leaves a table
\* is finished, a flow only when the table is full and no terminal flow that
\* stays was touched earlier, a generation only when a newer one is current.
THEOREM OnlyFinishedIsEvicted == Spec => EvictionTakesOnlyFinished
<1> DEFINE A == /\ \A f \in DOMAIN flows \ DOMAIN flows' :
                     /\ Cardinality(DOMAIN flows) = MaxFlows
                     /\ IsTerminal(ReportedState(flows[f]))
                     /\ \A e \in DOMAIN flows \cap DOMAIN flows' :
                          IsTerminal(flows[e].state) => flows[f].touched <= flows[e].touched
                /\ \A f \in DOMAIN flows \cap DOMAIN flows' :
                     \A g \in DOMAIN flows[f].gens \ DOMAIN flows'[f].gens :
                       IsTerminal(flows[f].gens[g].state) /\ g < flows'[f].current
<1>1. IInv /\ [Next]_vars => [A]_vars
  <2> SUFFICES ASSUME IInv, [Next]_vars PROVE A
    OBVIOUS
  <2>1. OnlyFinished(flows, flows')
    BY NextKeeps
  <2> QED
    BY <2>1, Zenon DEF OnlyFinished
<1>2. EvictionTakesOnlyFinished <=> [][A]_vars
  BY DEF EvictionTakesOnlyFinished
<1> HIDE DEF A
<1> QED
  BY <1>1, <1>2, TablesInvariant, PTL DEF Spec

-----------------------------------------------------------------------------
(* Queries.                                                                *)

\* In the order of the numbers.
Increasing(s, n) == \A i, j \in 1 .. n : i < j => s[i] < s[j]

\* Numbers can be put in order: the greatest behind the others.
LEMMA CanBeOrdered ==
  ASSUME NEW M \in SUBSET Nat, IsFiniteSet(M)
  PROVE  \E s \in [1 .. Cardinality(M) -> M] : Increasing(s, Cardinality(M))
<1> DEFINE Ordered(T) == \E s \in [1 .. Cardinality(T) -> T] : Increasing(s, Cardinality(T))
           Good == {T \in SUBSET M : Ordered(T)}
<1>1. ASSUME NEW T \in SUBSET M, \A x \in T : T \ {x} \in Good PROVE T \in Good
  <2>1. IsFiniteSet(T) /\ Cardinality(T) \in Nat
    BY FS_Subset, FS_CardinalityType
  <2>2. CASE T = {}
    <3>1. Cardinality(T) = 0
      BY <2>2, FS_EmptySet
    <3>2. [i \in 1 .. 0 |-> 0] \in [1 .. 0 -> T] /\ Increasing([i \in 1 .. 0 |-> 0], 0)
      BY DEF Increasing
    <3> QED
      BY <3>1, <3>2
  <2>3. CASE T # {}
    <3>1. PICK m \in T : \A y \in T : y <= m
      BY <2>1, <2>3, GreatestNumber
    <3> DEFINE n == Cardinality(T)
               U == T \ {m}
    <3>2. Cardinality(U) = n - 1 /\ n \in Nat
      BY <2>1, FS_RemoveElement
    <3>3. Ordered(U)
      BY <1>1
    <3>4. PICK s \in [1 .. n - 1 -> U] : Increasing(s, n - 1)
      BY <3>2, <3>3
    <3> DEFINE t == [i \in 1 .. n |-> IF i = n THEN m ELSE s[i]]
    <3>5. \A i \in 1 .. n : i # n => i \in 1 .. n - 1 /\ s[i] \in U
      BY <3>2, <3>4
    <3>6. t \in [1 .. n -> T]
      BY <3>5
    <3>7. \A y \in U : y \in Nat /\ m \in Nat /\ y < m
      BY <3>1
    <3>8. Increasing(t, n)
      <4> SUFFICES ASSUME NEW i \in 1 .. n, NEW j \in 1 .. n, i < j PROVE t[i] < t[j]
        BY DEF Increasing
      <4>1. i # n /\ i \in 1 .. n - 1 /\ t[i] = s[i] /\ s[i] \in U
        BY <3>2, <3>5
      <4>2. CASE j = n
        BY <4>1, <4>2, <3>7
      <4>3. CASE j # n
        <5>1. j \in 1 .. n - 1 /\ t[j] = s[j]
          BY <4>3, <3>5
        <5> QED
          BY <4>1, <5>1, <3>4 DEF Increasing
      <4> QED
        BY <4>2, <4>3
    <3> QED
      BY <3>6, <3>8
  <2> QED
    BY <2>2, <2>3
<1> HIDE DEF Good
<1>2. M \in Good
  BY <1>1, SubsetInduction
<1> QED
  BY <1>2 DEF Good

\* The loop over the map meets every identity once, in their order.
LEMMA InOrderIs ==
  ASSUME NEW M \in SUBSET Nat, IsFiniteSet(M), NEW n, n = Cardinality(M),
         NEW s, s = InOrder(M)
  PROVE  /\ n \in Nat /\ s \in [1 .. n -> M] /\ Increasing(s, n)
         /\ \A x \in M : \E i \in 1 .. n : s[i] = x
<1>1. n \in Nat
  BY FS_CardinalityType
<1>2. \E t \in [1 .. n -> M] : Increasing(t, n)
  BY CanBeOrdered
<1>3. s = CHOOSE t \in [1 .. n -> M] : Increasing(t, n)
  BY Zenon DEF InOrder, Increasing
<1>4. s \in [1 .. n -> M] /\ Increasing(s, n)
  BY <1>2, <1>3, Zenon
<1>5. s \in Injection(1 .. n, M)
  <2> SUFFICES ASSUME NEW i \in 1 .. n, NEW j \in 1 .. n, s[i] = s[j] PROVE i = j
    BY <1>4 DEF Injection, IsInjective
  <2>1. s[i] \in Nat /\ s[j] \in Nat
    BY <1>4
  <2>2. ~(i < j) /\ ~(j < i)
    BY <1>4, <2>1 DEF Increasing
  <2> QED
    BY <2>2, <1>1
<1>6. Cardinality(1 .. n) = Cardinality(M)
  BY <1>1, FS_Interval
<1>7. s \in Surjection(1 .. n, M)
  BY <1>5, <1>6, FS_Injection
<1> QED
  BY <1>1, <1>4, <1>7 DEF Surjection

\* How many of n flows a page shows.
OnPage(n, offset, limit) == IF offset <= n THEN Least(limit, n - offset) ELSE 0

\* A page cut behind an offset from the flows in order.
Cut(M, n, s, offset, limit, behind, most, shown) ==
  /\ M \in SUBSET Nat /\ n \in Nat /\ s \in [1 .. n -> M]
  /\ offset \in Nat /\ limit \in Nat \ {0}
  /\ behind = SubSeq(s, offset + 1, Len(s)) /\ most = Min({limit, Len(behind)})
  /\ shown = OnPage(n, offset, limit)

\* What such a page holds.
Taken(n, s, offset, limit, behind, most, shown) ==
  /\ shown \in 0 .. limit /\ Len(s) = n
  /\ Len(behind) > limit <=> offset + limit < n
  /\ SubSeq(behind, 1, most) = [k \in 1 .. shown |-> s[offset + k]]

\* What query takes from the flows in order: those behind the offset, as many as
\* the limit allows.
LEMMA CutIs ==
  ASSUME NEW M, NEW n, NEW s, NEW offset, NEW limit, NEW behind, NEW most, NEW shown,
         Cut(M, n, s, offset, limit, behind, most, shown)
  PROVE  Taken(n, s, offset, limit, behind, most, shown)
<1>0. /\ M \in SUBSET Nat /\ n \in Nat /\ s \in [1 .. n -> M]
      /\ offset \in Nat /\ limit \in Nat \ {0}
      /\ behind = SubSeq(s, offset + 1, Len(s)) /\ most = Min({limit, Len(behind)})
      /\ shown = OnPage(n, offset, limit)
  BY DEF Cut
<1> USE <1>0
<1>1. Len(s) = n /\ s \in Seq(M)
  OBVIOUS
<1> DEFINE left == IF offset <= n THEN n - offset ELSE 0
<1>2. left \in Nat /\ left = IF offset <= n THEN n - offset ELSE 0
  OBVIOUS
<1> HIDE DEF left
<1>3. shown \in Nat /\ shown <= left /\ shown <= limit /\ shown = Least(limit, left)
  BY <1>2 DEF OnPage, Least
<1>4. behind \in Seq(M) /\ Len(behind) = left /\ \A k \in 1 .. left : behind[k] = s[offset + k]
  <2>1. behind = SubSeq(s, offset + 1, n)
    BY <1>1
  <2>2. CASE offset < n
    <3>1. SubSeq(s, offset + 1, n) \in Seq(M)
      BY <1>1, <2>2, SubSeqProperties
    <3>2. Len(SubSeq(s, offset + 1, n)) = n - offset
      BY <1>1, <2>2, SubSeqProperties
    <3>3. \A k \in 1 .. n - offset : SubSeq(s, offset + 1, n)[k] = s[offset + k]
      BY <1>1, <2>2, SubSeqProperties
    <3> QED
      BY <1>2, <2>1, <2>2, <3>1, <3>2, <3>3
  <2>3. CASE ~(offset < n)
    <3>1. SubSeq(s, offset + 1, n) = << >>
      BY <1>1, <2>3, SubSeqEmpty
    <3> QED
      BY <1>2, <2>1, <2>3, <3>1
  <2> QED
    BY <2>2, <2>3
<1>5. most = shown
  BY <1>3, <1>4, MinOfTwo
<1>6. SubSeq(behind, 1, shown) = [k \in 1 .. shown |-> behind[k]]
  BY <1>3, <1>4
<1>7. [k \in 1 .. shown |-> behind[k]] = [k \in 1 .. shown |-> s[offset + k]]
  <2>1. \A k \in 1 .. shown : behind[k] = s[offset + k]
    BY <1>3, <1>4
  <2> QED
    BY ONLY <2>1
<1>8. Len(behind) > limit <=> offset + limit < n
  BY <1>2, <1>4
<1>9. SubSeq(behind, 1, most) = [k \in 1 .. shown |-> s[offset + k]]
  BY <1>5, <1>6, <1>7, Zenon
<1>10. shown \in 0 .. limit
  BY <1>3
<1> QED
  BY <1>1, <1>8, <1>9, <1>10, Zenon DEF Taken

\* Every place is on a page of a size that is not zero.
LEMMA PageOfPlace ==
  ASSUME NEW k \in Nat \ {0}, NEW limit \in Nat \ {0}
  PROVE  \E i \in 0 .. k : i * limit < k /\ k <= i * limit + limit
<1> DEFINE T == {i \in Nat : k <= i * limit + limit}
<1>1. k \in T
  OBVIOUS
<1>2. PICK i \in T : \A j \in T : i <= j
  BY <1>1, LeastNumber
<1>3. CASE i = 0
  BY <1>2, <1>3
<1>4. CASE i # 0
  <2>1. i - 1 \in Nat /\ i - 1 \notin T
    BY <1>2, <1>4
  <2>2. (i - 1) * limit + limit = i * limit /\ i * limit \in Nat
    BY <1>2
  <2> QED
    BY <1>1, <1>2, <2>1, <2>2
<1> QED
  BY <1>3, <1>4

\* The fields of a page.
LEMMA PageFields ==
  ASSUME NEW shows, NEW many, NEW more, NEW page,
         page = [flows |-> shows, matched |-> many, truncated |-> more]
  PROVE  page.flows = shows /\ page.matched = many /\ page.truncated = more
  OBVIOUS

\* Consecutive pages of the same size.
Pieces(M, n, s, limit, at, shows) ==
  /\ M \in SUBSET Nat /\ n \in Nat /\ s \in [1 .. n -> M] /\ Increasing(s, n)
  /\ \A x \in M : \E i \in 1 .. n : s[i] = x
  /\ limit \in Nat \ {0} /\ at = [i \in 0 .. n |-> i * limit]
  /\ \A i \in 0 .. n : shows[i] = [k \in 1 .. OnPage(n, at[i], limit) |-> s[at[i] + k]]

\* Pages of this size cut numbers in order into pieces.
LEMMA PagesCut ==
  ASSUME NEW M, NEW n, NEW s, NEW limit, NEW at, NEW shows, Pieces(M, n, s, limit, at, shows)
  PROVE  /\ \A i \in 0 .. n : \A k \in DOMAIN shows[i] : shows[i][k] \in M
         /\ \A x \in M : \E i \in 0 .. n : \E k \in DOMAIN shows[i] : shows[i][k] = x
         /\ \A i, j \in 0 .. n : \A k \in DOMAIN shows[i], l \in DOMAIN shows[j] :
              (i < j \/ (i = j /\ k < l)) => shows[i][k] < shows[j][l]
<1>1. /\ M \in SUBSET Nat /\ n \in Nat /\ s \in [1 .. n -> M] /\ Increasing(s, n)
      /\ \A x \in M : \E i \in 1 .. n : s[i] = x
      /\ limit \in Nat \ {0} /\ at = [i \in 0 .. n |-> i * limit]
      /\ \A i \in 0 .. n : shows[i] = [k \in 1 .. OnPage(n, at[i], limit) |-> s[at[i] + k]]
  BY DEF Pieces
<1> USE <1>1
<1> DEFINE shown == [i \in 0 .. n |-> OnPage(n, at[i], limit)]
<1>2. \A i \in 0 .. n : at[i] \in Nat
  OBVIOUS
<1>3. \A i, j \in 0 .. n : i < j => at[i] + limit <= at[j]
  <2> SUFFICES ASSUME NEW i \in 0 .. n, NEW j \in 0 .. n, i < j PROVE at[i] + limit <= at[j]
    OBVIOUS
  <2>1. (i + 1) * limit <= j * limit /\ (i + 1) * limit = i * limit + limit
    OBVIOUS
  <2> QED
    BY <2>1
<1>4. \A i \in 0 .. n : /\ shown[i] \in 0 .. limit
                        /\ at[i] <= n => shown[i] <= n - at[i] /\ (shown[i] = limit \/ shown[i] = n - at[i])
                        /\ at[i] > n => shown[i] = 0
  BY <1>2 DEF OnPage, Least
<1>5. \A i \in 0 .. n : /\ DOMAIN shows[i] = 1 .. shown[i]
                        /\ \A k \in 1 .. shown[i] : shows[i][k] = s[at[i] + k]
  <2> SUFFICES ASSUME NEW i \in 0 .. n
               PROVE  /\ DOMAIN shows[i] = 1 .. shown[i]
                      /\ \A k \in 1 .. shown[i] : shows[i][k] = s[at[i] + k]
    OBVIOUS
  <2>1. shown[i] = OnPage(n, at[i], limit)
    OBVIOUS
  <2>2. shows[i] = [k \in 1 .. shown[i] |-> s[at[i] + k]]
    BY <2>1
  <2> QED
    BY ONLY <2>2
<1> HIDE DEF shown
<1>6. ASSUME NEW i \in 0 .. n, NEW k \in DOMAIN shows[i]
      PROVE  /\ k \in Nat /\ 1 <= k /\ k <= limit /\ at[i] + k \in 1 .. n
             /\ shows[i][k] = s[at[i] + k]
  <2>1. k \in 1 .. shown[i] /\ shows[i][k] = s[at[i] + k]
    BY <1>5
  <2> QED
    BY ONLY <1>2, <1>4, <2>1, n \in Nat, i \in 0 .. n, limit \in Nat
<1>7. ASSUME NEW i \in 0 .. n, NEW k \in DOMAIN shows[i] PROVE shows[i][k] \in M
  BY <1>6
<1>8. ASSUME NEW x \in M PROVE \E i \in 0 .. n : \E k \in DOMAIN shows[i] : shows[i][k] = x
  <2>1. PICK p \in 1 .. n : s[p] = x
    OBVIOUS
  <2>2. PICK i \in 0 .. p : i * limit < p /\ p <= i * limit + limit
    BY ONLY p \in Nat \ {0}, limit \in Nat \ {0}, PageOfPlace
  <2>3. i \in 0 .. n /\ at[i] < p /\ p <= at[i] + limit
    BY <2>2
  <2>4. PICK k \in Nat : k = p - at[i]
    BY <1>2, <2>3
  <2>5. k \in 1 .. shown[i] /\ at[i] + k = p
    <3>1. PICK from \in Nat : from = at[i]
      BY <1>2, <2>3
    <3>2. PICK many \in Nat : many = shown[i]
      BY ONLY <1>4, <2>3, limit \in Nat
    <3>3. from <= n => many = limit \/ many = n - from
      BY <1>4, <2>3, <3>1, <3>2
    <3>4. from < p /\ p <= from + limit /\ k = p - from
      BY <2>3, <2>4, <3>1
    <3>5. k \in 1 .. many /\ from + k = p
      BY ONLY <3>1, <3>2, <3>3, <3>4, n \in Nat, p \in 1 .. n, limit \in Nat
    <3> QED
      BY ONLY <3>1, <3>2, <3>5
  <2>6. k \in DOMAIN shows[i] /\ shows[i][k] = x
    BY <1>5, <2>1, <2>3, <2>5
  <2> QED
    BY <2>3, <2>6
<1>9. ASSUME NEW i \in 0 .. n, NEW j \in 0 .. n, NEW k \in DOMAIN shows[i],
             NEW l \in DOMAIN shows[j], i < j \/ (i = j /\ k < l)
      PROVE  shows[i][k] < shows[j][l]
  <2>1. /\ k \in Nat /\ k <= limit /\ at[i] + k \in 1 .. n /\ shows[i][k] = s[at[i] + k]
        /\ l \in Nat /\ 1 <= l /\ at[j] + l \in 1 .. n /\ shows[j][l] = s[at[j] + l]
    BY <1>6
  <2>2. at[i] + k < at[j] + l
    BY ONLY <1>2, <1>3, <1>9, <2>1, i \in 0 .. n, j \in 0 .. n, n \in Nat, limit \in Nat
  <2> QED
    BY <2>1, <2>2 DEF Increasing
<1> QED
  BY <1>7, <1>8, <1>9

\* Engine::query: the pages of a query return every matching flow once, in the
\* order of the identities, and the last of them is the first that says it is
\* not truncated, whatever the tables hold and however large a page is.
THEOREM PagesPartitionMatches == Spec => []PagesPartition
<1>1. IInv => PagesPartition
  <2> SUFFICES ASSUME IInv, NEW query \in Queries, NEW limit \in 1 .. MaxFlows
               PROVE  LET matching == {f \in DOMAIN flows : FlowMatches(flows[f], query)}
                          pages    == [i \in 0 .. Cardinality(matching) |-> Page(query, i * limit, limit)]
                      IN  /\ UNION {Range(pages[i].flows) : i \in DOMAIN pages} = matching
                          /\ \A i, j \in DOMAIN pages :
                               \A k \in DOMAIN pages[i].flows, l \in DOMAIN pages[j].flows :
                                 (i < j \/ (i = j /\ k < l)) => pages[i].flows[k] < pages[j].flows[l]
                          /\ \A i \in DOMAIN pages :
                               /\ Len(pages[i].flows) <= limit /\ pages[i].matched = Cardinality(matching)
                               /\ pages[i].truncated <=> (i + 1) * limit < Cardinality(matching)
    BY Zenon DEF PagesPartition
  <2> DEFINE M == {f \in DOMAIN flows : FlowMatches(flows[f], query)}
             n == Cardinality(M)
             pages == [i \in 0 .. n |-> Page(query, i * limit, limit)]
  <2>1. M \in SUBSET Nat /\ IsFiniteSet(M)
    <3>1. IsFiniteSet(DOMAIN flows) /\ \A f \in DOMAIN flows : flows[f].key \in Keys /\ IdOf[flows[f].key] = f
      BY DEF IInv, SoundFlows, SoundFlow, SoundCore
    <3>2. DOMAIN flows \subseteq Nat
      BY <3>1, FlowTableAssumption
    <3> QED
      BY <3>1, <3>2, FS_Subset
  <2>2. limit \in Nat \ {0}
    BY FlowTableAssumption
  <2>3. DOMAIN pages = 0 .. n
    OBVIOUS
  <2>4. PICK s : s = InOrder(M)
    OBVIOUS
  <2>5. /\ n \in Nat /\ s \in [1 .. n -> M] /\ Increasing(s, n)
        /\ \A x \in M : \E i \in 1 .. n : s[i] = x
    <3> HIDE DEF M
    <3>1. n = Cardinality(M)
      OBVIOUS
    <3> QED
      BY ONLY <2>1, <2>4, <3>1, InOrderIs
  <2>6. PICK at : at = [i \in 0 .. n |-> i * limit]
    OBVIOUS
  <2>7. ASSUME NEW i \in 0 .. n
        PROVE  /\ pages[i].flows = [k \in 1 .. OnPage(n, at[i], limit) |-> s[at[i] + k]]
               /\ Len(pages[i].flows) <= limit /\ pages[i].matched = n
               /\ pages[i].truncated <=> (i + 1) * limit < n
    <3>1. at[i] = i * limit /\ at[i] \in Nat /\ at[i] + limit = (i + 1) * limit
      BY <2>2, <2>5, <2>6
    <3>2. PICK behind : behind = SubSeq(s, at[i] + 1, Len(s))
      OBVIOUS
    <3>3. PICK most, shown : most = Min({limit, Len(behind)}) /\ shown = OnPage(n, at[i], limit)
      OBVIOUS
    <3>4. PICK from : from = at[i]
      OBVIOUS
    <3>5. /\ shown \in 0 .. limit /\ Len(s) = n
          /\ Len(behind) > limit <=> from + limit < n
          /\ SubSeq(behind, 1, most) = [k \in 1 .. shown |-> s[from + k]]
      <4> HIDE DEF M, n, pages
      <4>1. /\ from \in Nat /\ behind = SubSeq(s, from + 1, Len(s))
            /\ most = Min({limit, Len(behind)}) /\ shown = OnPage(n, from, limit)
        BY ONLY <3>1, <3>2, <3>3, <3>4
      <4>2. Cut(M, n, s, from, limit, behind, most, shown)
        BY ONLY <2>1, <2>2, <2>5, <4>1 DEF Cut
      <4>3. Taken(n, s, from, limit, behind, most, shown)
        BY ONLY <4>2, CutIs
      <4> QED
        BY ONLY <4>3 DEF Taken
    <3>6. pages[i] = Page(query, at[i], limit)
      BY <3>1
    <3>7. pages[i] = [flows     |-> SubSeq(behind, 1, most),
                      matched   |-> Len(s),
                      truncated |-> Len(behind) > limit]
      BY <2>4, <3>2, <3>3, <3>6, Zenon DEF Page
    <3> HIDE DEF M, n, pages
    <3>8. PICK more : more = (Len(behind) > limit)
      BY Zenon
    <3>9. pages[i] = [flows     |-> SubSeq(behind, 1, most),
                      matched   |-> Len(s),
                      truncated |-> more]
      BY ONLY <3>7, <3>8, Zenon
    <3>10. /\ pages[i].flows = SubSeq(behind, 1, most)
           /\ pages[i].matched = Len(s) /\ pages[i].truncated = more
      <4>1. PICK page : page = pages[i]
        OBVIOUS
      <4>2. page = [flows |-> SubSeq(behind, 1, most), matched |-> Len(s), truncated |-> more]
        BY <3>9, <4>1
      <4> QED
        <5>1. page.flows = SubSeq(behind, 1, most) /\ page.matched = Len(s) /\ page.truncated = more
          BY ONLY <4>2, PageFields
        <5> QED
          BY ONLY <4>1, <5>1, Zenon
    <3>11. pages[i].truncated <=> (i + 1) * limit < n
      BY ONLY <3>1, <3>4, <3>5, <3>8, <3>10, Zenon
    <3>12. pages[i].flows = [k \in 1 .. shown |-> s[at[i] + k]] /\ pages[i].matched = n
      BY ONLY <3>4, <3>5, <3>10, Zenon
    <3>13. Len([k \in 1 .. shown |-> s[at[i] + k]]) = shown /\ shown <= limit
      BY ONLY <2>2, <3>5
    <3> QED
      BY ONLY <3>3, <3>11, <3>12, <3>13, Zenon
  <2> HIDE DEF pages, M, n
  <2> DEFINE shows == [i \in 0 .. n |-> pages[i].flows]
  <2>8. \A i \in 0 .. n : shows[i] = [k \in 1 .. OnPage(n, at[i], limit) |-> s[at[i] + k]]
    BY <2>7
  <2>9. \A i \in 0 .. n : shows[i] = pages[i].flows
    OBVIOUS
  <2> HIDE DEF shows
  <2>10. /\ \A i \in 0 .. n : \A k \in DOMAIN shows[i] : shows[i][k] \in M
         /\ \A x \in M : \E i \in 0 .. n : \E k \in DOMAIN shows[i] : shows[i][k] = x
         /\ \A i, j \in 0 .. n : \A k \in DOMAIN shows[i], l \in DOMAIN shows[j] :
              (i < j \/ (i = j /\ k < l)) => shows[i][k] < shows[j][l]
    <3>1. M \in SUBSET Nat /\ n \in Nat /\ s \in [1 .. n -> M] /\ Increasing(s, n)
      BY ONLY <2>1, <2>5
    <3>2. \A x \in M : \E i \in 1 .. n : s[i] = x
      BY ONLY <2>5
    <3>3. Pieces(M, n, s, limit, at, shows)
      BY ONLY <2>2, <2>6, <2>8, <3>1, <3>2 DEF Pieces
    <3> QED
      BY ONLY <3>3, PagesCut
  <2>11. UNION {Range(pages[i].flows) : i \in DOMAIN pages} = M
    BY ONLY <2>3, <2>9, <2>10 DEF Range
  <2>12. \A i, j \in DOMAIN pages :
           \A k \in DOMAIN pages[i].flows, l \in DOMAIN pages[j].flows :
             (i < j \/ (i = j /\ k < l)) => pages[i].flows[k] < pages[j].flows[l]
    BY ONLY <2>3, <2>9, <2>10
  <2>13. \A i \in DOMAIN pages :
           /\ Len(pages[i].flows) <= limit /\ pages[i].matched = n
           /\ pages[i].truncated <=> (i + 1) * limit < n
    BY ONLY <2>3, <2>7
  <2> QED
    BY <2>11, <2>12, <2>13, Zenon DEF pages, M, n
<1> QED
  BY <1>1, TablesInvariant, PTL
=============================================================================
