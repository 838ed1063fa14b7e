--------------------------- MODULE SnapshotProofs ---------------------------
(***************************************************************************)
(* Proofs about what of an engine is durable, for all limits and any       *)
(* number of calls, damages and restarts.                                  *)
(*                                                                         *)
(* From the tokens up: a reader takes back what a writer wrote or rejects  *)
(* it for a bound; the group of a written state replays to that state; a   *)
(* damaged group is refused; the engine stays within its types and bounds, *)
(* so what it writes is such a state; and the journal, as long as it       *)
(* accounts for everything, restores the engine that wrote it.             *)
(***************************************************************************)
EXTENDS Snapshot, SequenceTheorems, FiniteSetTheorems, ProofLemmas, TLAPS

-----------------------------------------------------------------------------
(* Sequences and the loops over them.                                      *)

\* FlattenSeq puts the payloads behind one another.
LEMMA FlattenIs ==
  ASSUME NEW n \in Nat \ {0}, NEW ws \in [1 .. n -> Seq(Nat)]
  PROVE  \E f \in [1 .. n -> Seq(Nat)] :
           /\ f[1] = ws[1] /\ FlattenSeq(ws) = f[n]
           /\ \A i \in 2 .. n : f[i] = f[i - 1] \o ws[i]
<1> DEFINE Is(g, k) == g = [i \in 1 .. k |-> IF i = 1 THEN ws[i] ELSE g[i - 1] \o ws[i]]
           Good == {k \in 1 .. n : \E g \in [1 .. k -> Seq(Nat)] : Is(g, k)}
<1>1. 1 \in Good
  <2> DEFINE g == [i \in 1 .. 1 |-> ws[i]]
  <2>1. g \in [1 .. 1 -> Seq(Nat)] /\ Is(g, 1)
    OBVIOUS
  <2>2. 1 \in 1 .. n
    OBVIOUS
  <2> HIDE DEF g, Is
  <2> QED
    BY <2>1, <2>2
<1>2. ASSUME NEW k \in 1 .. n, k # n, k \in Good PROVE k + 1 \in Good
  <2>1. PICK g \in [1 .. k -> Seq(Nat)] : Is(g, k)
    BY <1>2
  <2> DEFINE h == [i \in 1 .. k + 1 |-> IF i = k + 1 THEN g[k] \o ws[i] ELSE g[i]]
  <2>2. k + 1 \in 1 .. n /\ \A i \in 1 .. k + 1 : i = k + 1 \/ i \in 1 .. k
    BY <1>2
  <2>3. h \in [1 .. k + 1 -> Seq(Nat)]
    BY <2>2
  <2>4. ASSUME NEW i \in 1 .. k + 1 PROVE h[i] = IF i = 1 THEN ws[i] ELSE h[i - 1] \o ws[i]
    <3>1. CASE i = k + 1
      <4>1. i # 1 /\ i - 1 = k /\ k \in 1 .. k + 1 /\ k # k + 1
        BY <3>1
      <4> QED
        BY <4>1, <3>1
    <3>2. CASE i \in 1 .. k /\ i # 1
      <4>1. i - 1 \in 1 .. k /\ i # k + 1 /\ i - 1 # k + 1 /\ i - 1 \in 1 .. k + 1
        BY <3>2
      <4>2. g[i] = g[i - 1] \o ws[i]
        BY <2>1, <3>2
      <4> QED
        BY <4>1, <4>2, <3>2
    <3>3. CASE i = 1
      <4>1. g[1] = ws[1] /\ 1 \in 1 .. k /\ 1 # k + 1
        BY <2>1
      <4> QED
        BY <4>1, <3>3
    <3> QED
      BY <2>2, <3>1, <3>2, <3>3
  <2>5. Is(h, k + 1)
    BY <2>4
  <2> QED
    BY <2>2, <2>3, <2>5
<1> HIDE DEF Good
<1>0. \A k \in 1 .. n : k \in Good
  BY <1>1, <1>2, UpTo
<1>3. n \in Good
  BY <1>0
<1>4. \E g : Is(g, n)
  BY <1>3 DEF Good
<1> DEFINE f == CHOOSE g : Is(g, n)
<1>5. Is(f, n)
  BY <1>4
<1>6. FlattenSeq(ws) = f[n]
  <2>1. Len(ws) = n /\ n # 0
    OBVIOUS
  <2> QED
    BY <2>1, Zenon DEF FlattenSeq
<1> HIDE DEF f
<1>7. f \in [1 .. n -> Seq(Nat)]
  <2> DEFINE Typed == {k \in 1 .. n : f[k] \in Seq(Nat)}
  <2>1. 1 \in Typed
    BY <1>5
  <2>2. ASSUME NEW k \in 1 .. n, k # n, k \in Typed PROVE k + 1 \in Typed
    <3>1. k + 1 \in 1 .. n /\ k + 1 # 1 /\ (k + 1) - 1 = k
      BY <2>2
    <3>2. f[k + 1] = f[k] \o ws[k + 1]
      BY <1>5, <3>1
    <3>3. f[k] \in Seq(Nat) /\ ws[k + 1] \in Seq(Nat)
      BY <2>2, <3>1
    <3>4. f[k + 1] \in Seq(Nat)
      BY ONLY <3>2, <3>3
    <3> QED
      BY <3>1, <3>4
  <2> HIDE DEF Typed
  <2>3. \A k \in 1 .. n : k \in Typed
    BY <2>1, <2>2, UpTo
  <2> QED
    BY <1>5, <2>3 DEF Typed
<1>8. f[1] = ws[1] /\ \A i \in 2 .. n : f[i] = f[i - 1] \o ws[i]
  <2>1. 1 \in 1 .. n /\ \A i \in 2 .. n : i \in 1 .. n /\ i # 1
    OBVIOUS
  <2> QED
    BY <1>5, <2>1
<1> QED
  BY <1>6, <1>7, <1>8

-----------------------------------------------------------------------------
(* What is read where a payload occurs.                                    *)

\* The payload w stands in the tokens from position p on.
Occurs(w, tokens, p) ==
  \A i \in 1 .. Len(w) : (p - 1) + i \in 1 .. Len(tokens) /\ tokens[(p - 1) + i] = w[i]

\* Where w occurs, the field is read as x.
Reads(tokens, field, w, x) ==
  \A p \in Positions(tokens) : Occurs(w, tokens, p) => field[p] = Got(p + Len(w), x)

\* Where w occurs, the field is refused.
Rejects(tokens, field, w) ==
  \A p \in Positions(tokens) : Occurs(w, tokens, p) => field[p] = Failed

LEMMA OccursEnd ==
  ASSUME NEW tokens \in Seq(Nat), NEW w \in Seq(Nat), NEW p \in Positions(tokens),
         Occurs(w, tokens, p)
  PROVE  p + Len(w) \in Positions(tokens)
<1>1. Len(w) \in Nat /\ Len(tokens) \in Nat /\ p \in Nat /\ p >= 1 /\ p <= Len(tokens) + 1
  BY DEF Positions
<1>2. CASE Len(w) = 0
  BY <1>1, <1>2 DEF Positions
<1>3. CASE Len(w) # 0
  <2>1. Len(w) \in 1 .. Len(w)
    BY <1>1, <1>3
  <2>2. (p - 1) + Len(w) \in 1 .. Len(tokens)
    BY <2>1 DEF Occurs
  <2> QED
    BY <1>1, <2>2 DEF Positions
<1> QED
  BY <1>2, <1>3

\* Of two payloads that stand behind one another each stands where it begins.
LEMMA OccursParts ==
  ASSUME NEW tokens \in Seq(Nat), NEW v \in Seq(Nat), NEW w \in Seq(Nat),
         NEW p \in Positions(tokens), Occurs(v \o w, tokens, p)
  PROVE  /\ Occurs(v, tokens, p) /\ p + Len(v) \in Positions(tokens)
         /\ Occurs(w, tokens, p + Len(v))
<1>1. /\ Len(v) \in Nat /\ Len(w) \in Nat /\ Len(v \o w) = Len(v) + Len(w)
      /\ \A i \in 1 .. Len(v) : (v \o w)[i] = v[i] /\ i \in 1 .. Len(v \o w)
      /\ \A i \in 1 .. Len(w) : (v \o w)[Len(v) + i] = w[i] /\ Len(v) + i \in 1 .. Len(v \o w)
  OBVIOUS
<1>2. Occurs(v, tokens, p)
  BY <1>1 DEF Occurs
<1>3. p \in Nat
  BY DEF Positions
<1>4. ASSUME NEW i \in 1 .. Len(w)
      PROVE  /\ ((p + Len(v)) - 1) + i \in 1 .. Len(tokens)
             /\ tokens[((p + Len(v)) - 1) + i] = w[i]
  <2>1. ((p + Len(v)) - 1) + i = (p - 1) + (Len(v) + i)
    BY <1>1, <1>3
  <2>2. Len(v) + i \in 1 .. Len(v \o w) /\ (v \o w)[Len(v) + i] = w[i]
    BY <1>1
  <2> QED
    BY <2>1, <2>2 DEF Occurs
<1> QED
  BY <1>2, <1>4, OccursEnd DEF Occurs

\* The payloads of several fields, each where it begins.
Written(tokens, ws, n) ==
  tokens \in Seq(Nat) /\ n \in Nat /\ ws \in [1 .. n -> Seq(Nat)]

\* The payload ws[i] stands from position at[i - 1] on.
Split(tokens, ws, n, p, at) ==
  /\ at \in [0 .. n -> Positions(tokens)]
  /\ at[0] = p /\ at[n] = p + Len(FlattenSeq(ws))
  /\ \A i \in 1 .. n : at[i] = at[i - 1] + Len(ws[i]) /\ Occurs(ws[i], tokens, at[i - 1])

LEMMA Pieces ==
  ASSUME NEW tokens, NEW ws, NEW n, Written(tokens, ws, n),
         NEW p \in Positions(tokens), Occurs(FlattenSeq(ws), tokens, p)
  PROVE  \E at : Split(tokens, ws, n, p, at)
<1>0. tokens \in Seq(Nat) /\ n \in Nat /\ ws \in [1 .. n -> Seq(Nat)]
  BY DEF Written
<1>1. CASE n = 0
  <2>1. Len(ws) = 0 /\ FlattenSeq(ws) = ws
    <3>1. Len(ws) = 0
      BY <1>0, <1>1
    <3> QED
      BY <3>1, Zenon DEF FlattenSeq
  <2> DEFINE at == [i \in 0 .. 0 |-> p]
  <2>2. at \in [0 .. n -> Positions(tokens)] /\ at[0] = p /\ at[n] = p + 0
    BY <1>1 DEF Positions
  <2>3. 1 .. n = {}
    BY <1>1
  <2> HIDE DEF at
  <2> QED
    BY <2>1, <2>2, <2>3, <1>1 DEF Split
<1>2. CASE n # 0
  <2>0. n \in Nat \ {0} /\ ws \in [1 .. n -> Seq(Nat)] /\ tokens \in Seq(Nat)
    BY <1>0, <1>2
  <2>1. PICK f \in [1 .. n -> Seq(Nat)] :
           /\ f[1] = ws[1] /\ FlattenSeq(ws) = f[n]
           /\ \A i \in 2 .. n : f[i] = f[i - 1] \o ws[i]
    <3>1. n \in Nat \ {0}
      BY <2>0
    <3>2. ws \in [1 .. n -> Seq(Nat)]
      BY <2>0
    <3> QED
      BY <3>1, <3>2, FlattenIs
  <2> DEFINE Wrong == {i \in 1 .. n : ~Occurs(f[i], tokens, p)}
  <2>2. Wrong = {}
    <3> SUFFICES ASSUME Wrong # {} PROVE FALSE
      OBVIOUS
    <3>1. Wrong \in SUBSET Nat /\ IsFiniteSet(Wrong)
      <4>1. IsFiniteSet(1 .. n) /\ Wrong \in SUBSET (1 .. n) /\ 1 .. n \subseteq Nat
        BY <2>0, FS_Interval
      <4> HIDE DEF Wrong
      <4>2. IsFiniteSet(Wrong)
        BY <4>1, FS_Subset
      <4> QED
        BY <4>1, <4>2
    <3>2. PICK x \in Wrong : \A y \in Wrong : y <= x
      <4> HIDE DEF Wrong
      <4> QED
        BY <3>1, GreatestNumber
    <3>3. x \in 1 .. n /\ ~Occurs(f[x], tokens, p) /\ x # n
      BY <2>0, <2>1
    <3>4. x + 1 \in 2 .. n /\ x + 1 \in 1 .. n /\ ~(x + 1 <= x) /\ (x + 1) - 1 = x
      BY <2>0, <3>3
    <3>5. Occurs(f[x + 1], tokens, p) /\ f[x + 1] = f[x] \o ws[x + 1]
      BY <2>1, <3>2, <3>4
    <3>6. f[x] \in Seq(Nat) /\ ws[x + 1] \in Seq(Nat)
      BY <2>0, <2>1, <3>3, <3>4
    <3> QED
      BY <2>0, <3>3, <3>5, <3>6, OccursParts
  <2>3. \A i \in 1 .. n : Occurs(f[i], tokens, p) /\ f[i] \in Seq(Nat) /\ ws[i] \in Seq(Nat)
    BY <2>0, <2>2
  <2> HIDE DEF Wrong
  <2> DEFINE at == [i \in 0 .. n |-> IF i = 0 THEN p ELSE p + Len(f[i])]
  <2>4. at \in [0 .. n -> Positions(tokens)]
    BY <2>0, <2>3, OccursEnd
  <2>5. at[0] = p /\ at[n] = p + Len(FlattenSeq(ws)) /\ p \in Nat
    BY <1>2, <2>0, <2>1 DEF Positions
  <2>6. ASSUME NEW i \in 1 .. n
        PROVE  at[i] = at[i - 1] + Len(ws[i]) /\ Occurs(ws[i], tokens, at[i - 1])
    <3>1. CASE i = 1
      <4>1. at[i] = p + Len(ws[i]) /\ at[i - 1] = p
        BY <2>0, <2>1, <3>1
      <4> QED
        BY <2>1, <2>3, <3>1, <4>1
    <3>2. CASE i # 1
      <4>0. p \in Nat
        BY DEF Positions
      <4>1. i \in 2 .. n /\ i - 1 \in 1 .. n /\ i - 1 \in 0 .. n /\ i - 1 # 0 /\ i \in 0 .. n /\ i # 0
        BY <2>0, <3>2
      <4>2. at[i] = p + Len(f[i]) /\ at[i - 1] = p + Len(f[i - 1])
        BY <4>1
      <4>3. f[i] = f[i - 1] \o ws[i]
        BY <2>1, <4>1
      <4>4. f[i - 1] \in Seq(Nat) /\ ws[i] \in Seq(Nat) /\ Occurs(f[i - 1] \o ws[i], tokens, p)
        BY <2>3, <4>1, <4>3
      <4>5. Len(f[i]) = Len(f[i - 1]) + Len(ws[i]) /\ Len(f[i - 1]) \in Nat /\ Len(ws[i]) \in Nat
        BY <4>3, <4>4
      <4>6. Occurs(ws[i], tokens, p + Len(f[i - 1]))
        BY <2>0, <4>4, OccursParts
      <4>7. ASSUME NEW a \in Nat, NEW b \in Nat PROVE p + (a + b) = (p + a) + b
        BY ONLY <4>0
      <4> HIDE DEF at
      <4>8. at[i] = at[i - 1] + Len(ws[i])
        BY ONLY <4>2, <4>5, <4>7
      <4> QED
        BY <4>2, <4>6, <4>8
    <3> QED
      BY <3>1, <3>2
  <2> HIDE DEF at
  <2> QED
    BY <2>4, <2>5, <2>6 DEF Split
<1> QED
  BY <1>1, <1>2

LEMMA ResultFields ==
  ASSUME NEW at, NEW value
  PROVE  /\ Got(at, value).ok /\ Got(at, value).at = at /\ Got(at, value).value = value
         /\ ~Failed.ok
  BY DEF Got, Failed

\* The loop over the fields.
ReadInTurn(tokens, fields, n, p, r) ==
  /\ r[0] = Got(p, <<>>) /\ Struct(tokens, fields)[p] = r[n]
  /\ \A i \in 1 .. n : r[i] = ReadNext(r[i - 1], fields[i])

LEMMA StructIs ==
  ASSUME NEW tokens, NEW fields, NEW n \in Nat, Len(fields) = n, NEW p \in Positions(tokens)
  PROVE  \E r : ReadInTurn(tokens, fields, n, p, r)
<1> DEFINE Is(g, k) ==
      g = [i \in 0 .. k |-> IF i = 0 THEN Got(p, <<>>) ELSE ReadNext(g[i - 1], fields[i])]
           Good == {k \in 0 .. n : \E g : Is(g, k)}
<1>1. 0 \in Good
  <2> DEFINE g == [i \in 0 .. 0 |-> Got(p, <<>>)]
  <2>1. Is(g, 0)
    OBVIOUS
  <2>2. 0 \in 0 .. n
    OBVIOUS
  <2> HIDE DEF g, Is
  <2> QED
    BY <2>1, <2>2
<1>2. ASSUME NEW k \in 0 .. n, k # n, k \in Good PROVE k + 1 \in Good
  <2>1. PICK g : Is(g, k)
    BY <1>2
  <2> DEFINE h == [i \in 0 .. k + 1 |-> IF i = k + 1 THEN ReadNext(g[k], fields[i]) ELSE g[i]]
  <2>2. k + 1 \in 0 .. n /\ \A i \in 0 .. k + 1 : i = k + 1 \/ i \in 0 .. k
    BY <1>2
  <2>3. ASSUME NEW i \in 0 .. k + 1
        PROVE  h[i] = IF i = 0 THEN Got(p, <<>>) ELSE ReadNext(h[i - 1], fields[i])
    <3>1. CASE i = k + 1
      <4>1. i # 0 /\ i - 1 = k /\ k \in 0 .. k + 1 /\ k # k + 1
        BY <3>1
      <4> QED
        BY <4>1, <3>1
    <3>2. CASE i \in 0 .. k
      <4>1. i # k + 1 /\ (i # 0 => i - 1 \in 0 .. k + 1 /\ i - 1 # k + 1)
        BY <3>2
      <4>2. g[i] = IF i = 0 THEN Got(p, <<>>) ELSE ReadNext(g[i - 1], fields[i])
        BY <2>1, <3>2
      <4> QED
        BY <4>1, <4>2
    <3> QED
      BY <2>2, <3>1, <3>2
  <2>4. Is(h, k + 1)
    BY <2>3
  <2> HIDE DEF h, Is
  <2> QED
    BY <2>2, <2>4
<1> HIDE DEF Good
<1>3. \A k \in 0 .. n : k \in Good
  BY <1>1, <1>2, UpTo
<1>4. \E g : Is(g, n)
  BY <1>3 DEF Good
<1> DEFINE r == CHOOSE g : Is(g, n)
<1>5. Is(r, n)
  BY <1>4
<1>6. Struct(tokens, fields)[p] = r[n]
  BY Zenon DEF Struct
<1> HIDE DEF r
<1>7. r[0] = Got(p, <<>>) /\ \A i \in 1 .. n : r[i] = ReadNext(r[i - 1], fields[i])
  <2>1. 0 \in 0 .. n /\ \A i \in 1 .. n : i \in 0 .. n /\ i # 0
    OBVIOUS
  <2> QED
    BY <1>5, <2>1
<1> QED
  BY <1>6, <1>7 DEF ReadInTurn

\* The first n of xs.
Firsts(xs, n) == [i \in 1 .. n |-> xs[i]]

LEMMA FirstsAppend ==
  ASSUME NEW n \in Nat, NEW xs
  PROVE  /\ Firsts(xs, 0) = <<>>
         /\ Append(Firsts(xs, n), xs[n + 1]) = Firsts(xs, n + 1)
<1> DEFINE V == {xs[i] : i \in 1 .. n + 1}
           s == Firsts(xs, n)
<1>1. s \in Seq(V) /\ xs[n + 1] \in V /\ Len(s) = n
  BY DEF Firsts
<1> DEFINE t == Append(s, xs[n + 1])
<1>2. t \in Seq(V) /\ Len(t) = n + 1 /\ t[n + 1] = xs[n + 1] /\ \A i \in 1 .. n : t[i] = s[i]
  <2> HIDE DEF s, V
  <2> QED
    BY <1>1
<1>3. \A i \in 1 .. n + 1 : t[i] = xs[i]
  BY <1>2 DEF Firsts
<1>4. t = [i \in 1 .. n + 1 |-> t[i]]
  <2> HIDE DEF t, V
  <2> QED
    BY <1>2
<1> QED
  <2> HIDE DEF t
  <2>1. t = Firsts(xs, n + 1)
    BY <1>3, <1>4 DEF Firsts
  <2>2. Firsts(xs, 0) = <<>>
    BY DEF Firsts
  <2> QED
    BY <2>1, <2>2 DEF t

\* The first k fields are read as they were written.
AllRead(tokens, fields, ws, xs, k) ==
  \A i \in 1 .. k : Reads(tokens, fields[i], ws[i], xs[i])

\* The fields up to k are read.
LEMMA ReadsUpTo ==
  ASSUME NEW tokens, NEW fields, NEW ws, NEW n, Written(tokens, ws, n), NEW xs,
         NEW p, NEW at, Split(tokens, ws, n, p, at),
         NEW r, ReadInTurn(tokens, fields, n, p, r),
         NEW k \in 0 .. n, AllRead(tokens, fields, ws, xs, k)
  PROVE  r[k] = Got(at[k], Firsts(xs, k))
<1> DEFINE Good == {i \in 0 .. k : r[i] = Got(at[i], Firsts(xs, i))}
<1>0. n \in Nat /\ k \in Nat
  BY DEF Written
<1>1. 0 \in Good
  BY FirstsAppend, <1>0 DEF Split, ReadInTurn
<1>2. ASSUME NEW i \in 0 .. k, i # k, i \in Good PROVE i + 1 \in Good
  <2>1. /\ i + 1 \in 1 .. k /\ i + 1 \in 1 .. n /\ (i + 1) - 1 = i /\ i \in 0 .. n /\ i \in Nat
        /\ i + 1 \in 0 .. k
    BY <1>0, <1>2
  <2>2. r[i] = Got(at[i], Firsts(xs, i)) /\ at[i] \in Positions(tokens)
    BY <1>2, <2>1 DEF Split
  <2>3. /\ r[i + 1] = ReadNext(r[i], fields[i + 1])
        /\ at[i + 1] = at[i] + Len(ws[i + 1]) /\ Occurs(ws[i + 1], tokens, at[i])
    BY <2>1 DEF Split, ReadInTurn
  <2>4. fields[i + 1][at[i]] = Got(at[i + 1], xs[i + 1])
    BY <2>1, <2>2, <2>3 DEF Reads, AllRead
  <2>5. r[i + 1] = Joined(r[i], Got(at[i + 1], xs[i + 1]))
    BY <2>2, <2>3, <2>4, ResultFields DEF ReadNext
  <2>6. r[i + 1] = Got(at[i + 1], Append(Firsts(xs, i), xs[i + 1]))
    BY <2>2, <2>5, ResultFields DEF Joined
  <2>7. Append(Firsts(xs, i), xs[i + 1]) = Firsts(xs, i + 1)
    BY <2>1, FirstsAppend
  <2> QED
    BY <2>1, <2>6, <2>7
<1> HIDE DEF Good
<1>3. \A i \in 0 .. k : i \in Good
  BY <1>0, <1>1, <1>2, UpTo
<1> QED
  BY <1>0, <1>3 DEF Good

LEMMA StructReads ==
  ASSUME NEW tokens, NEW fields, NEW ws, NEW n, Written(tokens, ws, n), Len(fields) = n, NEW xs,
         \A i \in 1 .. n : Reads(tokens, fields[i], ws[i], xs[i])
  PROVE  Reads(tokens, Struct(tokens, fields), FlattenSeq(ws), Firsts(xs, n))
<1> SUFFICES ASSUME NEW p \in Positions(tokens), Occurs(FlattenSeq(ws), tokens, p)
             PROVE  Struct(tokens, fields)[p] = Got(p + Len(FlattenSeq(ws)), Firsts(xs, n))
  BY DEF Reads
<1>0. n \in Nat
  BY DEF Written
<1>1. PICK at : Split(tokens, ws, n, p, at)
  BY Pieces
<1>2. PICK r : ReadInTurn(tokens, fields, n, p, r)
  BY <1>0, StructIs
<1>3. n \in 0 .. n
  BY <1>0
<1>4. r[n] = Got(at[n], Firsts(xs, n))
  <2>1. PICK k : k = n
    OBVIOUS
  <2>2. k \in 0 .. n
    BY <1>3, <2>1
  <2>3. AllRead(tokens, fields, ws, xs, k)
    BY <2>1 DEF AllRead
  <2>4. r[k] = Got(at[k], Firsts(xs, k))
    BY ONLY Written(tokens, ws, n), <1>1, <1>2, <2>2, <2>3, ReadsUpTo
  <2> QED
    BY <2>1, <2>4
<1> QED
  BY <1>1, <1>2, <1>4 DEF Split, ReadInTurn

\* If each field is read or refused and one is refused, so is the struct.
LEMMA StructRejects ==
  ASSUME NEW tokens, NEW fields, NEW ws, NEW n, Written(tokens, ws, n), Len(fields) = n, NEW xs,
         \A i \in 1 .. n : \/ Reads(tokens, fields[i], ws[i], xs[i])
                           \/ Rejects(tokens, fields[i], ws[i]),
         \E i \in 1 .. n : Rejects(tokens, fields[i], ws[i])
  PROVE  Rejects(tokens, Struct(tokens, fields), FlattenSeq(ws))
<1> SUFFICES ASSUME NEW p \in Positions(tokens), Occurs(FlattenSeq(ws), tokens, p)
             PROVE  Struct(tokens, fields)[p] = Failed
  BY DEF Rejects
<1>0. n \in Nat
  BY DEF Written
<1>1. PICK at : Split(tokens, ws, n, p, at)
  BY Pieces
<1>2. PICK r : ReadInTurn(tokens, fields, n, p, r)
  BY <1>0, StructIs
<1> DEFINE Wrong == {i \in 1 .. n : Rejects(tokens, fields[i], ws[i])}
<1>3. PICK k \in Wrong : \A j \in Wrong : k <= j
  <2>1. Wrong \in SUBSET Nat /\ Wrong # {}
    BY <1>0
  <2> HIDE DEF Wrong
  <2> QED
    BY <2>1, LeastNumber
<1>4. /\ k \in 1 .. n /\ Rejects(tokens, fields[k], ws[k]) /\ k - 1 \in 0 .. n /\ k \in Nat
  BY <1>0
<1>5. \A i \in 1 .. k - 1 : Reads(tokens, fields[i], ws[i], xs[i])
  <2> SUFFICES ASSUME NEW i \in 1 .. k - 1 PROVE Reads(tokens, fields[i], ws[i], xs[i])
    OBVIOUS
  <2>1. i \in 1 .. n /\ ~(k <= i)
    BY <1>0, <1>4
  <2> QED
    BY <1>3, <2>1
<1> HIDE DEF Wrong
<1>6. r[k - 1] = Got(at[k - 1], Firsts(xs, k - 1))
  <2>1. PICK j : j = k - 1
    OBVIOUS
  <2>2. j \in 0 .. n /\ AllRead(tokens, fields, ws, xs, j)
    BY <1>4, <1>5, <2>1 DEF AllRead
  <2>3. r[j] = Got(at[j], Firsts(xs, j))
    BY ONLY Written(tokens, ws, n), <1>1, <1>2, <2>2, ReadsUpTo
  <2> QED
    BY <2>1, <2>3
<1> DEFINE Good == {i \in k .. n : r[i] = Failed}
<1>7. k \in Good
  <2>1. fields[k][at[k - 1]] = Failed
    BY <1>1, <1>4 DEF Rejects, Split
  <2>2. r[k] = ReadNext(r[k - 1], fields[k])
    BY <1>2, <1>4 DEF ReadInTurn
  <2>3. r[k] = Joined(r[k - 1], Failed)
    BY <1>6, <2>1, <2>2, ResultFields DEF ReadNext
  <2>4. r[k] = Failed
    BY <2>3, ResultFields DEF Joined
  <2> QED
    BY <1>0, <1>4, <2>4
<1>8. ASSUME NEW i \in k .. n, i # n, i \in Good PROVE i + 1 \in Good
  <2>1. i + 1 \in 1 .. n /\ i + 1 \in k .. n /\ (i + 1) - 1 = i
    BY <1>0, <1>4, <1>8
  <2>2. r[i + 1] = ReadNext(r[i], fields[i + 1]) /\ r[i] = Failed
    BY <1>2, <1>8, <2>1 DEF ReadInTurn
  <2> QED
    BY <2>1, <2>2, ResultFields DEF ReadNext
<1> HIDE DEF Good
<1>9. \A i \in k .. n : i \in Good
  BY <1>0, <1>4, <1>7, <1>8, UpTo
<1>10. n \in k .. n
  BY <1>0, <1>4
<1> QED
  BY <1>2, <1>9, <1>10 DEF Good, ReadInTurn

LEMMA FlattenTyped ==
  ASSUME NEW tokens, NEW ws, NEW n, Written(tokens, ws, n)
  PROVE  FlattenSeq(ws) \in Seq(Nat)
<1>0. n \in Nat /\ ws \in [1 .. n -> Seq(Nat)]
  BY DEF Written
<1>1. CASE n = 0
  <2>1. Len(ws) = 0 /\ ws \in Seq(Nat)
    BY <1>0, <1>1
  <2>2. FlattenSeq(ws) = ws
    BY <2>1, Zenon DEF FlattenSeq
  <2> QED
    BY <2>1, <2>2
<1>2. CASE n # 0
  <2>1. n \in Nat \ {0}
    BY <1>0, <1>2
  <2>2. ws \in [1 .. n -> Seq(Nat)]
    BY <1>0
  <2>3. PICK f \in [1 .. n -> Seq(Nat)] : FlattenSeq(ws) = f[n]
    BY <2>1, <2>2, FlattenIs
  <2> QED
    BY <2>1, <2>3
<1> QED
  BY <1>1, <1>2

\* A list stands where its length stands, with its items behind it.
LEMMA ListParts ==
  ASSUME NEW tokens, NEW ws, NEW n, Written(tokens, ws, n)
  PROVE  /\ WriteList(ws) \in Seq(Nat) /\ Len(WriteList(ws)) = 1 + Len(FlattenSeq(ws))
         /\ Len(FlattenSeq(ws)) \in Nat
         /\ \A p \in Positions(tokens) : Occurs(WriteList(ws), tokens, p) =>
              /\ p <= Len(tokens) /\ tokens[p] = n /\ p + 1 \in Positions(tokens)
              /\ Occurs(FlattenSeq(ws), tokens, p + 1)
<1>0. tokens \in Seq(Nat) /\ n \in Nat /\ ws \in [1 .. n -> Seq(Nat)] /\ Len(ws) = n
  BY DEF Written
<1>1. PICK w \in Seq(Nat) : w = FlattenSeq(ws)
  BY FlattenTyped
<1>2. PICK v \in Seq(Nat) : v = <<n>> /\ Len(v) = 1 /\ v[1] = n
  <2>1. <<n>> \in Seq(Nat) /\ Len(<<n>>) = 1 /\ <<n>>[1] = n
    BY <1>0
  <2> QED
    BY <2>1
<1>3. WriteList(ws) = v \o w
  BY <1>0, <1>1, <1>2 DEF WriteList
<1>4. v \o w \in Seq(Nat) /\ Len(v \o w) = 1 + Len(w) /\ Len(w) \in Nat
  BY <1>2
<1>5. ASSUME NEW p \in Positions(tokens), Occurs(v \o w, tokens, p)
      PROVE  /\ p <= Len(tokens) /\ tokens[p] = n /\ p + 1 \in Positions(tokens)
             /\ Occurs(w, tokens, p + 1)
  <2>1. tokens \in Seq(Nat)
    BY <1>0
  <2>2. /\ Occurs(v, tokens, p) /\ p + Len(v) \in Positions(tokens)
        /\ Occurs(w, tokens, p + Len(v))
    BY <1>5, <2>1, OccursParts
  <2>3. (p - 1) + 1 = p /\ 1 \in 1 .. Len(v)
    BY <1>2 DEF Positions
  <2>4. p \in 1 .. Len(tokens) /\ tokens[p] = v[1]
    BY <2>2, <2>3 DEF Occurs
  <2> QED
    BY <1>2, <2>1, <2>2, <2>4
<1> QED
  BY <1>1, <1>3, <1>4, <1>5

LEMMA ItemsRead ==
  ASSUME NEW tokens, NEW ws, NEW n, Written(tokens, ws, n), NEW item, NEW xs,
         \A i \in 1 .. n : Reads(tokens, item, ws[i], xs[i])
  PROVE  Reads(tokens, Items(tokens, item), WriteList(ws), Firsts(xs, n))
<1> SUFFICES ASSUME NEW p \in Positions(tokens), Occurs(WriteList(ws), tokens, p)
             PROVE  Items(tokens, item)[p] = Got(p + Len(WriteList(ws)), Firsts(xs, n))
  BY DEF Reads
<1>1. PICK fields : fields = [i \in 1 .. n |-> item]
  OBVIOUS
<1>2. Len(fields) = n /\ \A i \in 1 .. n : Reads(tokens, fields[i], ws[i], xs[i])
  BY <1>1 DEF Written
<1>3. Reads(tokens, Struct(tokens, fields), FlattenSeq(ws), Firsts(xs, n))
  BY <1>2, StructReads
<1>4. /\ p <= Len(tokens) /\ tokens[p] = n /\ p + 1 \in Positions(tokens)
      /\ Occurs(FlattenSeq(ws), tokens, p + 1) /\ Len(WriteList(ws)) = 1 + Len(FlattenSeq(ws))
      /\ Len(FlattenSeq(ws)) \in Nat
  BY ListParts
<1>5. Items(tokens, item)[p] = Struct(tokens, fields)[p + 1]
  BY <1>1, <1>4 DEF Items
<1>6. Struct(tokens, fields)[p + 1] = Got((p + 1) + Len(FlattenSeq(ws)), Firsts(xs, n))
  BY <1>3, <1>4 DEF Reads
<1>7. (p + 1) + Len(FlattenSeq(ws)) = p + Len(WriteList(ws))
  BY <1>4 DEF Positions
<1> QED
  BY <1>5, <1>6, <1>7

LEMMA ItemsReject ==
  ASSUME NEW tokens, NEW ws, NEW n, Written(tokens, ws, n), NEW item, NEW xs,
         \A i \in 1 .. n : \/ Reads(tokens, item, ws[i], xs[i])
                           \/ Rejects(tokens, item, ws[i]),
         \E i \in 1 .. n : Rejects(tokens, item, ws[i])
  PROVE  Rejects(tokens, Items(tokens, item), WriteList(ws))
<1> SUFFICES ASSUME NEW p \in Positions(tokens), Occurs(WriteList(ws), tokens, p)
             PROVE  Items(tokens, item)[p] = Failed
  BY DEF Rejects
<1>1. PICK fields : fields = [i \in 1 .. n |-> item]
  OBVIOUS
<1>2. /\ Len(fields) = n
      /\ \A i \in 1 .. n : \/ Reads(tokens, fields[i], ws[i], xs[i])
                           \/ Rejects(tokens, fields[i], ws[i])
      /\ \E i \in 1 .. n : Rejects(tokens, fields[i], ws[i])
  BY <1>1 DEF Written
<1>3. Rejects(tokens, Struct(tokens, fields), FlattenSeq(ws))
  BY <1>2, StructRejects
<1>4. /\ p <= Len(tokens) /\ tokens[p] = n /\ p + 1 \in Positions(tokens)
      /\ Occurs(FlattenSeq(ws), tokens, p + 1)
  BY ListParts
<1>5. Items(tokens, item)[p] = Struct(tokens, fields)[p + 1]
  BY <1>1, <1>4 DEF Items
<1> QED
  BY <1>3, <1>4, <1>5 DEF Rejects

\* A list whose length is tested is read like one whose length is not, as
\* long as it is within the bound.
LEMMA ListReads ==
  ASSUME NEW tokens, NEW ws, NEW n, Written(tokens, ws, n), NEW item, NEW xs,
         \A i \in 1 .. n : Reads(tokens, item, ws[i], xs[i]), NEW max \in Nat, n <= max
  PROVE  Reads(tokens, ListAt(tokens, max, item), WriteList(ws), Firsts(xs, n))
<1>1. Reads(tokens, Items(tokens, item), WriteList(ws), Firsts(xs, n))
  BY ItemsRead
<1>2. ASSUME NEW p \in Positions(tokens), Occurs(WriteList(ws), tokens, p)
      PROVE  ListAt(tokens, max, item)[p] = Items(tokens, item)[p]
  <2>1. p <= Len(tokens) /\ tokens[p] = n
    BY <1>2, ListParts
  <2> QED
    BY <2>1 DEF ListAt
<1> QED
  BY <1>1, <1>2 DEF Reads

LEMMA ListRejects ==
  ASSUME NEW tokens, NEW ws, NEW n, Written(tokens, ws, n), NEW item, NEW xs, NEW max \in Nat,
         \A i \in 1 .. n : \/ Reads(tokens, item, ws[i], xs[i])
                           \/ Rejects(tokens, item, ws[i]),
         n > max \/ \E i \in 1 .. n : Rejects(tokens, item, ws[i])
  PROVE  Rejects(tokens, ListAt(tokens, max, item), WriteList(ws))
<1> SUFFICES ASSUME NEW p \in Positions(tokens), Occurs(WriteList(ws), tokens, p)
             PROVE  ListAt(tokens, max, item)[p] = Failed
  BY DEF Rejects
<1>0. n \in Nat
  BY DEF Written
<1>1. p <= Len(tokens) /\ tokens[p] = n
  BY ListParts
<1>2. CASE n > max
  <2>1. ~(tokens[p] <= max)
    BY <1>0, <1>1, <1>2
  <2> QED
    BY <2>1 DEF ListAt
<1>3. CASE n <= max
  <2>1. \E i \in 1 .. n : Rejects(tokens, item, ws[i])
    BY <1>0, <1>3
  <2>2. Rejects(tokens, Items(tokens, item), WriteList(ws))
    BY <2>1, ItemsReject
  <2> QED
    BY <1>1, <1>3, <2>2 DEF Rejects, ListAt
<1> QED
  BY <1>0, <1>2, <1>3

-----------------------------------------------------------------------------
(* One field of each kind.                                                 *)

LEMMA OneToken ==
  ASSUME NEW tokens \in Seq(Nat), NEW x \in Nat, NEW p \in Positions(tokens),
         Occurs(<<x>>, tokens, p)
  PROVE  p <= Len(tokens) /\ tokens[p] = x /\ Len(<<x>>) = 1 /\ p \in Nat
<1>1. 1 \in 1 .. Len(<<x>>) /\ (p - 1) + 1 = p /\ <<x>>[1] = x /\ p \in Nat /\ Len(<<x>>) = 1
  BY DEF Positions
<1>2. p \in 1 .. Len(tokens) /\ tokens[p] = <<x>>[1]
  BY <1>1 DEF Occurs
<1> QED
  BY <1>1, <1>2

LEMMA NumberReads ==
  ASSUME NEW tokens \in Seq(Nat), NEW x \in Nat
  PROVE  Reads(tokens, NumberAt(tokens), <<x>>, x)
  BY OneToken DEF Reads, NumberAt

LEMMA KeyReads ==
  ASSUME NEW tokens \in Seq(Nat), NEW x \in Nat
  PROVE  IF KeyBytes[x] <= MaxKeyBytes THEN Reads(tokens, KeyAt(tokens), <<x>>, x)
                                       ELSE Rejects(tokens, KeyAt(tokens), <<x>>)
<1>1. CASE KeyBytes[x] <= MaxKeyBytes
  BY <1>1, OneToken DEF Reads, KeyAt
<1>2. CASE ~(KeyBytes[x] <= MaxKeyBytes)
  BY <1>2, OneToken DEF Rejects, KeyAt
<1> QED
  BY <1>1, <1>2

LEMMA DetailReads ==
  ASSUME NEW tokens \in Seq(Nat), NEW x \in Nat
  PROVE  IF x <= MaxDetailBytes THEN Reads(tokens, DetailAt(tokens), <<x>>, x)
                                ELSE Rejects(tokens, DetailAt(tokens), <<x>>)
<1>1. MaxDetailBytes \in Nat
  BY CodecAssumption
<1>2. ASSUME NEW p \in Positions(tokens), Occurs(<<x>>, tokens, p)
      PROVE  DetailAt(tokens)[p] = IF x <= MaxDetailBytes THEN Got(p + 1, x) ELSE Failed
  <2>1. p <= Len(tokens) /\ tokens[p] = x
    BY <1>2, OneToken
  <2> QED
    BY <2>1 DEF DetailAt
<1>3. Len(<<x>>) = 1
  OBVIOUS
<1> QED
  BY <1>2, <1>3 DEF Reads, Rejects

LEMMA OptionReads ==
  ASSUME NEW tokens \in Seq(Nat), NEW x \in Nat \cup {None}
  PROVE  /\ WriteOptional(x) \in Seq(Nat)
         /\ Reads(tokens, OptionAt(tokens), WriteOptional(x), x)
<1>1. CASE x = None
  <2>1. WriteOptional(x) = << 0 >>
    BY <1>1 DEF WriteOptional
  <2>2. ASSUME NEW p \in Positions(tokens), Occurs(<< 0 >>, tokens, p)
        PROVE  OptionAt(tokens)[p] = Got(p + 1, None)
    BY <2>2, OneToken DEF OptionAt
  <2> QED
    BY <1>1, <2>1, <2>2 DEF Reads
<1>2. CASE x \in Nat
  <2>1. WriteOptional(x) = <<1, x>> /\ Len(<<1, x>>) = 2 /\ <<1, x>>[1] = 1 /\ <<1, x>>[2] = x
    BY <1>2, CodecAssumption DEF WriteOptional
  <2>2. ASSUME NEW p \in Positions(tokens), Occurs(<<1, x>>, tokens, p)
        PROVE  OptionAt(tokens)[p] = Got(p + 2, x)
    <3>1. p \in Nat /\ (p - 1) + 1 = p /\ (p - 1) + 2 = p + 1
      BY DEF Positions
    <3>2. p \in 1 .. Len(tokens) /\ tokens[p] = 1 /\ p + 1 \in 1 .. Len(tokens) /\ tokens[p + 1] = x
      <4>1. 1 \in 1 .. Len(<<1, x>>) /\ 2 \in 1 .. Len(<<1, x>>)
        BY <2>1
      <4> QED
        BY <2>1, <2>2, <3>1, <4>1 DEF Occurs
    <3> QED
      BY <3>1, <3>2 DEF OptionAt
  <2> QED
    BY <1>2, <2>1, <2>2 DEF Reads
<1> QED
  BY <1>1, <1>2

LEMMA FirstsAll ==
  ASSUME NEW S, NEW xs \in Seq(S)
  PROVE  Firsts(xs, Len(xs)) = xs
  BY DEF Firsts

\* What WriteScalars writes, one token for each.
LEMMA ScalarsWritten ==
  ASSUME NEW tokens \in Seq(Nat), NEW xs \in Seq(Nat)
  PROVE  \E ws : /\ Written(tokens, ws, Len(xs)) /\ WriteScalars(xs) = WriteList(ws)
                 /\ \A i \in 1 .. Len(xs) : ws[i] = <<xs[i]>> /\ xs[i] \in Nat
<1> DEFINE ws == [i \in DOMAIN xs |-> <<xs[i]>>]
<1>1. DOMAIN xs = 1 .. Len(xs) /\ Len(xs) \in Nat /\ \A i \in 1 .. Len(xs) : xs[i] \in Nat
  OBVIOUS
<1>2. ws \in [1 .. Len(xs) -> Seq(Nat)]
  BY <1>1
<1>3. Written(tokens, ws, Len(xs))
  BY <1>1, <1>2 DEF Written
<1>4. WriteScalars(xs) = WriteList(ws)
  BY DEF WriteScalars
<1>5. \A i \in 1 .. Len(xs) : ws[i] = <<xs[i]>> /\ xs[i] \in Nat
  BY <1>1
<1> QED
  BY <1>3, <1>4, <1>5

LEMMA ScalarsRead ==
  ASSUME NEW tokens \in Seq(Nat), NEW xs \in Seq(Nat), NEW max \in Nat
  PROVE  /\ WriteScalars(xs) \in Seq(Nat)
         /\ IF Len(xs) <= max
            THEN Reads(tokens, ListAt(tokens, max, NumberAt(tokens)), WriteScalars(xs), xs)
            ELSE Rejects(tokens, ListAt(tokens, max, NumberAt(tokens)), WriteScalars(xs))
<1>1. PICK n \in Nat : n = Len(xs)
  OBVIOUS
<1>2. PICK ws : /\ Written(tokens, ws, n) /\ WriteScalars(xs) = WriteList(ws)
                /\ \A i \in 1 .. n : ws[i] = <<xs[i]>> /\ xs[i] \in Nat
  <2>1. PICK us : /\ Written(tokens, us, Len(xs)) /\ WriteScalars(xs) = WriteList(us)
                  /\ \A i \in 1 .. Len(xs) : us[i] = <<xs[i]>> /\ xs[i] \in Nat
    BY ScalarsWritten
  <2> QED
    BY ONLY <1>1, <2>1
<1>3. PICK item : item = NumberAt(tokens)
  OBVIOUS
<1>4. \A i \in 1 .. n : Reads(tokens, item, ws[i], xs[i])
  BY <1>2, <1>3, NumberReads
<1>5. WriteList(ws) \in Seq(Nat)
  BY <1>2, ListParts
<1>6. CASE n <= max
  <2>1. Reads(tokens, ListAt(tokens, max, item), WriteList(ws), Firsts(xs, n))
    BY <1>2, <1>4, <1>6, ListReads
  <2>2. Firsts(xs, n) = xs
    BY <1>1, FirstsAll
  <2> QED
    BY <1>1, <1>2, <1>3, <1>5, <1>6, <2>1, <2>2
<1>7. CASE ~(n <= max)
  <2>1. n > max
    BY <1>7
  <2>2. \A i \in 1 .. n : \/ Reads(tokens, item, ws[i], xs[i])
                          \/ Rejects(tokens, item, ws[i])
    BY <1>4
  <2>3. Rejects(tokens, ListAt(tokens, max, item), WriteList(ws))
    BY <1>2, <2>1, <2>2, ListRejects
  <2> QED
    BY <1>1, <1>2, <1>3, <1>5, <1>7, <2>3
<1> QED
  BY <1>6, <1>7

LEMMA DetailsRead ==
  ASSUME NEW tokens \in Seq(Nat), NEW xs \in Seq(Nat), Len(xs) <= MaxAnomalies
  PROVE  /\ WriteScalars(xs) \in Seq(Nat)
         /\ IF \A i \in 1 .. Len(xs) : xs[i] <= MaxDetailBytes
            THEN Reads(tokens, ListAt(tokens, MaxAnomalies, DetailAt(tokens)), WriteScalars(xs), xs)
            ELSE Rejects(tokens, ListAt(tokens, MaxAnomalies, DetailAt(tokens)), WriteScalars(xs))
<1>1. PICK n \in Nat : n = Len(xs)
  OBVIOUS
<1>2. PICK ws : /\ Written(tokens, ws, n) /\ WriteScalars(xs) = WriteList(ws)
                /\ \A i \in 1 .. n : ws[i] = <<xs[i]>> /\ xs[i] \in Nat
  <2>1. PICK us : /\ Written(tokens, us, Len(xs)) /\ WriteScalars(xs) = WriteList(us)
                  /\ \A i \in 1 .. Len(xs) : us[i] = <<xs[i]>> /\ xs[i] \in Nat
    BY ScalarsWritten
  <2> QED
    BY ONLY <1>1, <2>1
<1>3. PICK item : item = DetailAt(tokens)
  OBVIOUS
<1>4. \A i \in 1 .. n : IF xs[i] <= MaxDetailBytes THEN Reads(tokens, item, ws[i], xs[i])
                                                 ELSE Rejects(tokens, item, ws[i])
  BY <1>2, <1>3, DetailReads
<1>5. WriteList(ws) \in Seq(Nat)
  BY <1>2, ListParts
<1>6. PICK max \in Nat : max = MaxAnomalies /\ n <= max
  BY <1>1, CodecAssumption
<1>7. CASE \A i \in 1 .. n : xs[i] <= MaxDetailBytes
  <2>1. \A i \in 1 .. n : Reads(tokens, item, ws[i], xs[i])
    BY <1>4, <1>7
  <2>2. Reads(tokens, ListAt(tokens, max, item), WriteList(ws), Firsts(xs, n))
    BY <1>2, <1>6, <2>1, ListReads
  <2>3. Firsts(xs, n) = xs
    BY <1>1, FirstsAll
  <2> QED
    BY <1>1, <1>2, <1>3, <1>5, <1>6, <1>7, <2>2, <2>3
<1>8. CASE ~(\A i \in 1 .. n : xs[i] <= MaxDetailBytes)
  <2>1. \E i \in 1 .. n : Rejects(tokens, item, ws[i])
    BY <1>4, <1>8
  <2>2. \A i \in 1 .. n : \/ Reads(tokens, item, ws[i], xs[i])
                          \/ Rejects(tokens, item, ws[i])
    BY <1>4
  <2>3. Rejects(tokens, ListAt(tokens, max, item), WriteList(ws))
    BY <1>2, <2>1, <2>2, ListRejects
  <2> QED
    BY <1>1, <1>2, <1>3, <1>5, <1>6, <1>8, <2>3
<1> QED
  BY <1>7, <1>8

-----------------------------------------------------------------------------
(* The structs.                                                            *)

DescriptorSet == [id : Nat, key : DOMAIN KeyBytes, authority : Nat]

SourceSet ==
  {s \in [id : Nat, key : DOMAIN KeyBytes, authority : Nat, accepted : Nat, hops : Seq(Nat)] :
     Len(s.hops) <= MaxSourceHops}

GenerationSet == [id : Nat, links : Seq(Nat), queues : Seq(Nat), sources : Seq(SourceSet)]

FlowSet ==
  {f \in [id : Nat, key : DOMAIN KeyBytes, current : Nat, generations : Seq(GenerationSet),
          history : Seq(Nat), historyDropped : Nat, anomalies : Seq(Nat),
          anomaliesDropped : Nat] :
     /\ KeyBytes[f.key] <= MaxKeyBytes /\ Len(f.generations) <= MaxGenerations
     /\ Len(f.history) <= MaxHistory /\ Len(f.anomalies) <= MaxAnomalies}

ObservationSet ==
  {o \in [source : Nat, sequence : Nat, flow : Nat, generation : Nat, peer : Nat,
          queue : Nat \cup {None}, link : Nat \cup {None}, hops : Seq(Nat),
          flowKey : DOMAIN KeyBytes, peerKey : DOMAIN KeyBytes] :
     KeyBytes[o.flowKey] <= MaxKeyBytes /\ Len(o.hops) <= MaxPathHops}

LEMMA Limits ==
  /\ {MaxSources, MaxFlows, MaxGenerations, MaxPathHops, MaxQueues, MaxHistory,
      MaxAnomalies, MaxKeyBytes, MaxDetailBytes, MaxIngestRecords, MaxSourceHops} \subseteq Nat
  /\ DOMAIN KeyBytes \subseteq Nat /\ \A k \in DOMAIN KeyBytes : KeyBytes[k] \in Nat
  BY CodecAssumption DEF MaxSourceHops

LEMMA TuplesTyped ==
  ASSUME NEW S
  PROVE  /\ \A a, b, c \in S : <<a, b, c>> \in [1 .. 3 -> S]
         /\ \A a, b, c, d \in S : <<a, b, c, d>> \in [1 .. 4 -> S]
         /\ \A a, b, c, d, e \in S : <<a, b, c, d, e>> \in [1 .. 5 -> S]
         /\ \A a, b, c, d, e, f, g, h \in S : <<a, b, c, d, e, f, g, h>> \in [1 .. 8 -> S]
         /\ \A a, b, c, d, e, f, g, h, i, j \in S :
              <<a, b, c, d, e, f, g, h, i, j>> \in [1 .. 10 -> S]
  OBVIOUS

LEMMA DescriptorRead ==
  ASSUME NEW tokens \in Seq(Nat), NEW d \in DescriptorSet
  PROVE  /\ WriteDescriptor(d) \in Seq(Nat)
         /\ IF KeyBytes[d.key] <= MaxKeyBytes
            THEN Reads(tokens, DescriptorAt(tokens), WriteDescriptor(d),
                       <<d.id, d.key, d.authority>>)
            ELSE Rejects(tokens, DescriptorAt(tokens), WriteDescriptor(d))
<1>1. d.id \in Nat /\ d.key \in Nat /\ d.authority \in Nat
  BY Limits DEF DescriptorSet
<1>2. PICK fields : fields = <<NumberAt(tokens), KeyAt(tokens), NumberAt(tokens)>>
  OBVIOUS
<1>3. PICK ws : ws = << <<d.id>>, <<d.key>>, <<d.authority>> >>
  OBVIOUS
<1>4. PICK xs : xs = <<d.id, d.key, d.authority>>
  OBVIOUS
<1>5. Written(tokens, ws, 3)
  <2>1. <<d.id>> \in Seq(Nat) /\ <<d.key>> \in Seq(Nat) /\ <<d.authority>> \in Seq(Nat)
    BY <1>1
  <2>2. ws \in [1 .. 3 -> Seq(Nat)]
    BY <1>3, <2>1, TuplesTyped
  <2> QED
    BY <2>2 DEF Written
<1>6. /\ Len(fields) = 3
      /\ fields[1] = NumberAt(tokens) /\ ws[1] = <<d.id>> /\ xs[1] = d.id
      /\ fields[2] = KeyAt(tokens) /\ ws[2] = <<d.key>> /\ xs[2] = d.key
      /\ fields[3] = NumberAt(tokens) /\ ws[3] = <<d.authority>> /\ xs[3] = d.authority
  BY <1>2, <1>3, <1>4
<1>7. Reads(tokens, fields[1], ws[1], xs[1]) /\ Reads(tokens, fields[3], ws[3], xs[3])
  BY <1>1, <1>6, NumberReads
<1>8. IF KeyBytes[d.key] <= MaxKeyBytes THEN Reads(tokens, fields[2], ws[2], xs[2])
                                        ELSE Rejects(tokens, fields[2], ws[2])
  BY <1>1, <1>6, KeyReads
<1>9. FlattenSeq(ws) \in Seq(Nat)
  BY <1>5, FlattenTyped
<1>10. CASE KeyBytes[d.key] <= MaxKeyBytes
  <2>1. \A i \in 1 .. 3 : Reads(tokens, fields[i], ws[i], xs[i])
    BY <1>7, <1>8, <1>10
  <2>2. Reads(tokens, Struct(tokens, fields), FlattenSeq(ws), Firsts(xs, 3))
    BY <1>5, <1>6, <2>1, StructReads
  <2>3. Firsts(xs, 3) = xs
    BY <1>4 DEF Firsts
  <2> QED
    BY <1>2, <1>3, <1>4, <1>9, <1>10, <2>2, <2>3 DEF WriteDescriptor, DescriptorAt
<1>11. CASE ~(KeyBytes[d.key] <= MaxKeyBytes)
  <2>1. \E i \in 1 .. 3 : Rejects(tokens, fields[i], ws[i])
    BY <1>8, <1>11
  <2>2. \A i \in 1 .. 3 : \/ Reads(tokens, fields[i], ws[i], xs[i])
                          \/ Rejects(tokens, fields[i], ws[i])
    BY <1>7, <1>8, <1>11
  <2>3. Rejects(tokens, Struct(tokens, fields), FlattenSeq(ws))
    BY <1>5, <1>6, <2>1, <2>2, StructRejects
  <2> QED
    BY <1>2, <1>3, <1>9, <1>11, <2>3 DEF WriteDescriptor, DescriptorAt
<1> QED
  BY <1>10, <1>11

LEMMA SourceRead ==
  ASSUME NEW tokens \in Seq(Nat), NEW s \in SourceSet
  PROVE  /\ WriteSource(s) \in Seq(Nat)
         /\ IF KeyBytes[s.key] <= MaxKeyBytes
            THEN Reads(tokens, SourceAt(tokens), WriteSource(s),
                       <<s.id, s.key, s.authority, s.accepted, s.hops>>)
            ELSE Rejects(tokens, SourceAt(tokens), WriteSource(s))
<1>1. /\ s.id \in Nat /\ s.key \in Nat /\ s.authority \in Nat /\ s.accepted \in Nat
      /\ s.hops \in Seq(Nat) /\ Len(s.hops) <= MaxSourceHops
  BY Limits DEF SourceSet
<1>2. PICK fields : fields = <<NumberAt(tokens), KeyAt(tokens), NumberAt(tokens), NumberAt(tokens),
                               ListAt(tokens, MaxSourceHops, NumberAt(tokens))>>
  OBVIOUS
<1>3. PICK ws : ws = << <<s.id>>, <<s.key>>, <<s.authority>>, <<s.accepted>>,
                        WriteScalars(s.hops) >>
  OBVIOUS
<1>4. PICK xs : xs = <<s.id, s.key, s.authority, s.accepted, s.hops>>
  OBVIOUS
<1>5. /\ WriteScalars(s.hops) \in Seq(Nat)
      /\ Reads(tokens, ListAt(tokens, MaxSourceHops, NumberAt(tokens)), WriteScalars(s.hops), s.hops)
  <2>1. MaxSourceHops \in Nat
    BY Limits
  <2> QED
    BY <1>1, <2>1, ScalarsRead
<1>6. Written(tokens, ws, 5)
  <2>1. /\ <<s.id>> \in Seq(Nat) /\ <<s.key>> \in Seq(Nat) /\ <<s.authority>> \in Seq(Nat)
        /\ <<s.accepted>> \in Seq(Nat)
    BY <1>1
  <2>2. ws \in [1 .. 5 -> Seq(Nat)]
    BY <1>3, <1>5, <2>1, TuplesTyped
  <2> QED
    BY <2>2 DEF Written
<1>7. /\ Len(fields) = 5
      /\ fields[1] = NumberAt(tokens) /\ ws[1] = <<s.id>> /\ xs[1] = s.id
      /\ fields[2] = KeyAt(tokens) /\ ws[2] = <<s.key>> /\ xs[2] = s.key
      /\ fields[3] = NumberAt(tokens) /\ ws[3] = <<s.authority>> /\ xs[3] = s.authority
      /\ fields[4] = NumberAt(tokens) /\ ws[4] = <<s.accepted>> /\ xs[4] = s.accepted
      /\ fields[5] = ListAt(tokens, MaxSourceHops, NumberAt(tokens))
      /\ ws[5] = WriteScalars(s.hops) /\ xs[5] = s.hops
  BY <1>2, <1>3, <1>4
<1>8. \A i \in {1, 3, 4, 5} : Reads(tokens, fields[i], ws[i], xs[i])
  BY <1>1, <1>5, <1>7, NumberReads
<1>9. IF KeyBytes[s.key] <= MaxKeyBytes THEN Reads(tokens, fields[2], ws[2], xs[2])
                                        ELSE Rejects(tokens, fields[2], ws[2])
  BY <1>1, <1>7, KeyReads
<1>10. FlattenSeq(ws) \in Seq(Nat)
  BY <1>6, FlattenTyped
<1>11. CASE KeyBytes[s.key] <= MaxKeyBytes
  <2>1. \A i \in 1 .. 5 : Reads(tokens, fields[i], ws[i], xs[i])
    BY <1>8, <1>9, <1>11
  <2>2. Reads(tokens, Struct(tokens, fields), FlattenSeq(ws), Firsts(xs, 5))
    BY <1>6, <1>7, <2>1, StructReads
  <2>3. Firsts(xs, 5) = xs
    BY <1>4 DEF Firsts
  <2> QED
    BY <1>2, <1>3, <1>4, <1>10, <1>11, <2>2, <2>3 DEF WriteSource, SourceAt
<1>12. CASE ~(KeyBytes[s.key] <= MaxKeyBytes)
  <2>1. \E i \in 1 .. 5 : Rejects(tokens, fields[i], ws[i])
    BY <1>9, <1>12
  <2>2. \A i \in 1 .. 5 : \/ Reads(tokens, fields[i], ws[i], xs[i])
                          \/ Rejects(tokens, fields[i], ws[i])
    BY <1>8, <1>9, <1>12
  <2>3. Rejects(tokens, Struct(tokens, fields), FlattenSeq(ws))
    BY <1>6, <1>7, <2>1, <2>2, StructRejects
  <2> QED
    BY <1>2, <1>3, <1>10, <1>12, <2>3 DEF WriteSource, SourceAt
<1> QED
  BY <1>11, <1>12

\* The bounds the reader of a generation tests.
ReadableGeneration(g) ==
  /\ Len(g.links) <= MaxPathHops /\ Len(g.queues) <= MaxQueues
  /\ \A i \in 1 .. Len(g.sources) : KeyBytes[g.sources[i].key] <= MaxKeyBytes

\* What is read of a source and of a generation.
SourceFields(s) == <<s.id, s.key, s.authority, s.accepted, s.hops>>

GenerationFields(g) ==
  <<g.id, g.links, g.queues, [i \in 1 .. Len(g.sources) |-> SourceFields(g.sources[i])]>>

LEMMA SourcesRead ==
  ASSUME NEW tokens \in Seq(Nat), NEW ss \in Seq(SourceSet)
  PROVE  \E w \in Seq(Nat) :
           /\ w = WriteList([i \in DOMAIN ss |-> WriteSource(ss[i])])
           /\ IF \A i \in 1 .. Len(ss) : KeyBytes[ss[i].key] <= MaxKeyBytes
              THEN Reads(tokens, Items(tokens, SourceAt(tokens)), w,
                         [i \in 1 .. Len(ss) |-> SourceFields(ss[i])])
              ELSE Rejects(tokens, Items(tokens, SourceAt(tokens)), w)
<1>1. PICK n \in Nat : n = Len(ss) /\ DOMAIN ss = 1 .. n
  OBVIOUS
<1>2. PICK ws : ws = [i \in 1 .. n |-> WriteSource(ss[i])]
  OBVIOUS
<1>3. PICK item : item = SourceAt(tokens)
  OBVIOUS
<1>4. PICK xs : xs = [i \in 1 .. n |-> SourceFields(ss[i])]
  OBVIOUS
<1>5. ASSUME NEW i \in 1 .. n
      PROVE  /\ ws[i] \in Seq(Nat)
             /\ IF KeyBytes[ss[i].key] <= MaxKeyBytes THEN Reads(tokens, item, ws[i], xs[i])
                                                      ELSE Rejects(tokens, item, ws[i])
  <2>1. ss[i] \in SourceSet
    BY <1>1
  <2> QED
    BY <1>2, <1>3, <1>4, <2>1, SourceRead DEF SourceFields
<1>6. Written(tokens, ws, n)
  BY <1>2, <1>5 DEF Written
<1>7. WriteList(ws) \in Seq(Nat)
  BY <1>6, ListParts
<1>8. WriteList(ws) = WriteList([i \in DOMAIN ss |-> WriteSource(ss[i])])
  BY <1>1, <1>2
<1>9. Firsts(xs, n) = xs
  BY <1>4 DEF Firsts
<1>10. CASE \A i \in 1 .. n : KeyBytes[ss[i].key] <= MaxKeyBytes
  <2>1. \A i \in 1 .. n : Reads(tokens, item, ws[i], xs[i])
    BY <1>5, <1>10
  <2>2. Reads(tokens, Items(tokens, item), WriteList(ws), Firsts(xs, n))
    BY <1>6, <2>1, ItemsRead
  <2> QED
    BY <1>1, <1>3, <1>4, <1>7, <1>8, <1>9, <1>10, <2>2
<1>11. CASE ~(\A i \in 1 .. n : KeyBytes[ss[i].key] <= MaxKeyBytes)
  <2>1. \E i \in 1 .. n : Rejects(tokens, item, ws[i])
    BY <1>5, <1>11
  <2>2. \A i \in 1 .. n : \/ Reads(tokens, item, ws[i], xs[i]) \/ Rejects(tokens, item, ws[i])
    BY <1>5
  <2>3. Rejects(tokens, Items(tokens, item), WriteList(ws))
    BY <1>6, <2>1, <2>2, ItemsReject
  <2> QED
    BY <1>1, <1>3, <1>7, <1>8, <1>11, <2>3
<1> QED
  BY <1>10, <1>11

LEMMA GenerationRead ==
  ASSUME NEW tokens \in Seq(Nat), NEW g \in GenerationSet
  PROVE  /\ WriteGeneration(g) \in Seq(Nat)
         /\ IF ReadableGeneration(g)
            THEN Reads(tokens, GenerationAt(tokens), WriteGeneration(g), GenerationFields(g))
            ELSE Rejects(tokens, GenerationAt(tokens), WriteGeneration(g))
<1>1. /\ g.id \in Nat /\ g.links \in Seq(Nat) /\ g.queues \in Seq(Nat)
      /\ g.sources \in Seq(SourceSet)
  BY DEF GenerationSet
<1>2. PICK w \in Seq(Nat) :
           /\ w = WriteList([i \in DOMAIN g.sources |-> WriteSource(g.sources[i])])
           /\ IF \A i \in 1 .. Len(g.sources) : KeyBytes[g.sources[i].key] <= MaxKeyBytes
              THEN Reads(tokens, Items(tokens, SourceAt(tokens)), w,
                         [i \in 1 .. Len(g.sources) |-> SourceFields(g.sources[i])])
              ELSE Rejects(tokens, Items(tokens, SourceAt(tokens)), w)
  BY <1>1, SourcesRead
<1>3. PICK fields : fields = <<NumberAt(tokens), ListAt(tokens, MaxPathHops, NumberAt(tokens)),
                               ListAt(tokens, MaxQueues, NumberAt(tokens)),
                               Items(tokens, SourceAt(tokens))>>
  OBVIOUS
<1>4. PICK ws : ws = << <<g.id>>, WriteScalars(g.links), WriteScalars(g.queues), w >>
  OBVIOUS
<1>5. PICK xs : xs = <<g.id, g.links, g.queues,
                       [i \in 1 .. Len(g.sources) |-> SourceFields(g.sources[i])]>>
  OBVIOUS
<1>6. MaxPathHops \in Nat /\ MaxQueues \in Nat
  BY Limits
<1>7. /\ Len(fields) = 4
      /\ fields[1] = NumberAt(tokens) /\ ws[1] = <<g.id>> /\ xs[1] = g.id
      /\ fields[2] = ListAt(tokens, MaxPathHops, NumberAt(tokens))
      /\ ws[2] = WriteScalars(g.links) /\ xs[2] = g.links
      /\ fields[3] = ListAt(tokens, MaxQueues, NumberAt(tokens))
      /\ ws[3] = WriteScalars(g.queues) /\ xs[3] = g.queues
      /\ fields[4] = Items(tokens, SourceAt(tokens))
      /\ ws[4] = w /\ xs[4] = [i \in 1 .. Len(g.sources) |-> SourceFields(g.sources[i])]
  BY <1>3, <1>4, <1>5
<1>8. Reads(tokens, fields[1], ws[1], xs[1])
  BY <1>1, <1>7, NumberReads
<1>9. /\ WriteScalars(g.links) \in Seq(Nat)
      /\ IF Len(g.links) <= MaxPathHops THEN Reads(tokens, fields[2], ws[2], xs[2])
                                        ELSE Rejects(tokens, fields[2], ws[2])
  <2>1. /\ WriteScalars(g.links) \in Seq(Nat)
        /\ IF Len(g.links) <= MaxPathHops
           THEN Reads(tokens, ListAt(tokens, MaxPathHops, NumberAt(tokens)),
                      WriteScalars(g.links), g.links)
           ELSE Rejects(tokens, ListAt(tokens, MaxPathHops, NumberAt(tokens)), WriteScalars(g.links))
    BY <1>1, <1>6, ScalarsRead
  <2> QED
    BY <1>7, <2>1
<1>10. /\ WriteScalars(g.queues) \in Seq(Nat)
       /\ IF Len(g.queues) <= MaxQueues THEN Reads(tokens, fields[3], ws[3], xs[3])
                                        ELSE Rejects(tokens, fields[3], ws[3])
  <2>1. /\ WriteScalars(g.queues) \in Seq(Nat)
        /\ IF Len(g.queues) <= MaxQueues
           THEN Reads(tokens, ListAt(tokens, MaxQueues, NumberAt(tokens)),
                      WriteScalars(g.queues), g.queues)
           ELSE Rejects(tokens, ListAt(tokens, MaxQueues, NumberAt(tokens)), WriteScalars(g.queues))
    BY <1>1, <1>6, ScalarsRead
  <2> QED
    BY <1>7, <2>1
<1>11. IF \A i \in 1 .. Len(g.sources) : KeyBytes[g.sources[i].key] <= MaxKeyBytes
       THEN Reads(tokens, fields[4], ws[4], xs[4]) ELSE Rejects(tokens, fields[4], ws[4])
  BY <1>2, <1>7
<1>12. Written(tokens, ws, 4)
  <2>1. <<g.id>> \in Seq(Nat)
    BY <1>1
  <2>2. ws \in [1 .. 4 -> Seq(Nat)]
    BY <1>2, <1>4, <1>9, <1>10, <2>1, TuplesTyped
  <2> QED
    BY <2>2 DEF Written
<1>13. FlattenSeq(ws) \in Seq(Nat)
  BY <1>12, FlattenTyped
<1>14. FlattenSeq(ws) = WriteGeneration(g) /\ Struct(tokens, fields) = GenerationAt(tokens)
  BY <1>2, <1>3, <1>4 DEF WriteGeneration, GenerationAt
<1>15. xs = GenerationFields(g) /\ Firsts(xs, 4) = xs
  BY <1>5 DEF Firsts, GenerationFields
<1>16. CASE ReadableGeneration(g)
  <2>1. \A i \in 1 .. 4 : Reads(tokens, fields[i], ws[i], xs[i])
    <3>1. /\ Reads(tokens, fields[1], ws[1], xs[1]) /\ Reads(tokens, fields[2], ws[2], xs[2])
          /\ Reads(tokens, fields[3], ws[3], xs[3]) /\ Reads(tokens, fields[4], ws[4], xs[4])
      BY <1>8, <1>9, <1>10, <1>11, <1>16 DEF ReadableGeneration
    <3> QED
      BY <3>1
  <2>2. Reads(tokens, Struct(tokens, fields), FlattenSeq(ws), Firsts(xs, 4))
    BY <1>7, <1>12, <2>1, StructReads
  <2> QED
    BY <1>13, <1>14, <1>15, <1>16, <2>2
<1>17. CASE ~ReadableGeneration(g)
  <2>1. \E i \in 1 .. 4 : Rejects(tokens, fields[i], ws[i])
    BY <1>9, <1>10, <1>11, <1>17 DEF ReadableGeneration
  <2>2. \A i \in 1 .. 4 : \/ Reads(tokens, fields[i], ws[i], xs[i])
                          \/ Rejects(tokens, fields[i], ws[i])
    <3>1. /\ Reads(tokens, fields[1], ws[1], xs[1])
          /\ Reads(tokens, fields[2], ws[2], xs[2]) \/ Rejects(tokens, fields[2], ws[2])
          /\ Reads(tokens, fields[3], ws[3], xs[3]) \/ Rejects(tokens, fields[3], ws[3])
          /\ Reads(tokens, fields[4], ws[4], xs[4]) \/ Rejects(tokens, fields[4], ws[4])
      BY <1>8, <1>9, <1>10, <1>11
    <3>2. \A i \in 1 .. 4 : i = 1 \/ i = 2 \/ i = 3 \/ i = 4
      OBVIOUS
    <3> QED
      BY <3>1, <3>2
  <2>3. Rejects(tokens, Struct(tokens, fields), FlattenSeq(ws))
    BY <1>7, <1>12, <2>1, <2>2, StructRejects
  <2> QED
    BY <1>13, <1>14, <1>17, <2>3
<1> QED
  BY <1>16, <1>17

LEMMA GenerationsRead ==
  ASSUME NEW tokens \in Seq(Nat), NEW gs \in Seq(GenerationSet), Len(gs) <= MaxGenerations
  PROVE  \E w \in Seq(Nat) :
           /\ w = WriteList([i \in DOMAIN gs |-> WriteGeneration(gs[i])])
           /\ IF \A i \in 1 .. Len(gs) : ReadableGeneration(gs[i])
              THEN Reads(tokens, ListAt(tokens, MaxGenerations, GenerationAt(tokens)), w,
                         [i \in 1 .. Len(gs) |-> GenerationFields(gs[i])])
              ELSE Rejects(tokens, ListAt(tokens, MaxGenerations, GenerationAt(tokens)), w)
<1>1. PICK n \in Nat : n = Len(gs) /\ DOMAIN gs = 1 .. n
  OBVIOUS
<1>2. PICK ws : ws = [i \in 1 .. n |-> WriteGeneration(gs[i])]
  OBVIOUS
<1>3. PICK item : item = GenerationAt(tokens)
  OBVIOUS
<1>4. PICK xs : xs = [i \in 1 .. n |-> GenerationFields(gs[i])]
  OBVIOUS
<1>5. ASSUME NEW i \in 1 .. n
      PROVE  /\ ws[i] \in Seq(Nat)
             /\ IF ReadableGeneration(gs[i]) THEN Reads(tokens, item, ws[i], xs[i])
                                             ELSE Rejects(tokens, item, ws[i])
  <2>1. gs[i] \in GenerationSet
    BY <1>1
  <2> QED
    BY <1>2, <1>3, <1>4, <2>1, GenerationRead
<1>6. Written(tokens, ws, n)
  BY <1>2, <1>5 DEF Written
<1>7. WriteList(ws) \in Seq(Nat)
  BY <1>6, ListParts
<1>8. WriteList(ws) = WriteList([i \in DOMAIN gs |-> WriteGeneration(gs[i])])
  BY <1>1, <1>2
<1>9. Firsts(xs, n) = xs
  BY <1>4 DEF Firsts
<1>10. PICK max \in Nat : max = MaxGenerations /\ n <= max
  BY <1>1, Limits
<1>11. CASE \A i \in 1 .. n : ReadableGeneration(gs[i])
  <2>1. \A i \in 1 .. n : Reads(tokens, item, ws[i], xs[i])
    BY <1>5, <1>11
  <2>2. Reads(tokens, ListAt(tokens, max, item), WriteList(ws), Firsts(xs, n))
    BY <1>6, <1>10, <2>1, ListReads
  <2> QED
    BY <1>1, <1>3, <1>4, <1>7, <1>8, <1>9, <1>10, <1>11, <2>2
<1>12. CASE ~(\A i \in 1 .. n : ReadableGeneration(gs[i]))
  <2>1. \E i \in 1 .. n : Rejects(tokens, item, ws[i])
    BY <1>5, <1>12
  <2>2. \A i \in 1 .. n : \/ Reads(tokens, item, ws[i], xs[i]) \/ Rejects(tokens, item, ws[i])
    BY <1>5
  <2>3. Rejects(tokens, ListAt(tokens, max, item), WriteList(ws))
    BY <1>6, <1>10, <2>1, <2>2, ListRejects
  <2> QED
    BY <1>1, <1>3, <1>7, <1>8, <1>10, <1>12, <2>3
<1> QED
  BY <1>11, <1>12

\* The bounds the reader of a flow tests and nothing before it did.
ReadableFlow(f) ==
  /\ \A i \in 1 .. Len(f.generations) : ReadableGeneration(f.generations[i])
  /\ \A i \in 1 .. Len(f.anomalies) : f.anomalies[i] <= MaxDetailBytes

FlowFields(f) ==
  <<f.id, f.key, f.current,
    [i \in 1 .. Len(f.generations) |-> GenerationFields(f.generations[i])],
    f.history, f.historyDropped, f.anomalies, f.anomaliesDropped>>

LEMMA FlowRead ==
  ASSUME NEW tokens \in Seq(Nat), NEW f \in FlowSet
  PROVE  /\ WriteFlow(f) \in Seq(Nat)
         /\ IF ReadableFlow(f)
            THEN Reads(tokens, FlowAt(tokens), WriteFlow(f), FlowFields(f))
            ELSE Rejects(tokens, FlowAt(tokens), WriteFlow(f))
<1>1. /\ f.id \in Nat /\ f.key \in Nat /\ f.current \in Nat
      /\ f.generations \in Seq(GenerationSet) /\ Len(f.generations) <= MaxGenerations
      /\ f.history \in Seq(Nat) /\ Len(f.history) <= MaxHistory
      /\ f.historyDropped \in Nat /\ f.anomalies \in Seq(Nat)
      /\ Len(f.anomalies) <= MaxAnomalies /\ f.anomaliesDropped \in Nat
      /\ KeyBytes[f.key] <= MaxKeyBytes
  BY Limits DEF FlowSet
<1>2. PICK w \in Seq(Nat) :
           /\ w = WriteList([i \in DOMAIN f.generations |-> WriteGeneration(f.generations[i])])
           /\ IF \A i \in 1 .. Len(f.generations) : ReadableGeneration(f.generations[i])
              THEN Reads(tokens, ListAt(tokens, MaxGenerations, GenerationAt(tokens)), w,
                         [i \in 1 .. Len(f.generations) |-> GenerationFields(f.generations[i])])
              ELSE Rejects(tokens, ListAt(tokens, MaxGenerations, GenerationAt(tokens)), w)
  BY <1>1, GenerationsRead
<1>3. PICK fields :
        fields = <<NumberAt(tokens), KeyAt(tokens), NumberAt(tokens),
                   ListAt(tokens, MaxGenerations, GenerationAt(tokens)),
                   ListAt(tokens, MaxHistory, NumberAt(tokens)), NumberAt(tokens),
                   ListAt(tokens, MaxAnomalies, DetailAt(tokens)), NumberAt(tokens)>>
  OBVIOUS
<1>4. PICK ws : ws = << <<f.id>>, <<f.key>>, <<f.current>>, w, WriteScalars(f.history),
                        <<f.historyDropped>>, WriteScalars(f.anomalies),
                        <<f.anomaliesDropped>> >>
  OBVIOUS
<1>5. PICK xs : xs = <<f.id, f.key, f.current,
                       [i \in 1 .. Len(f.generations) |-> GenerationFields(f.generations[i])],
                       f.history, f.historyDropped, f.anomalies, f.anomaliesDropped>>
  OBVIOUS
<1>7. /\ Len(fields) = 8
      /\ fields[1] = NumberAt(tokens) /\ ws[1] = <<f.id>> /\ xs[1] = f.id
      /\ fields[2] = KeyAt(tokens) /\ ws[2] = <<f.key>> /\ xs[2] = f.key
      /\ fields[3] = NumberAt(tokens) /\ ws[3] = <<f.current>> /\ xs[3] = f.current
      /\ fields[4] = ListAt(tokens, MaxGenerations, GenerationAt(tokens)) /\ ws[4] = w
      /\ xs[4] = [i \in 1 .. Len(f.generations) |-> GenerationFields(f.generations[i])]
      /\ fields[5] = ListAt(tokens, MaxHistory, NumberAt(tokens))
      /\ ws[5] = WriteScalars(f.history) /\ xs[5] = f.history
      /\ fields[6] = NumberAt(tokens) /\ ws[6] = <<f.historyDropped>> /\ xs[6] = f.historyDropped
      /\ fields[7] = ListAt(tokens, MaxAnomalies, DetailAt(tokens))
      /\ ws[7] = WriteScalars(f.anomalies) /\ xs[7] = f.anomalies
      /\ fields[8] = NumberAt(tokens) /\ ws[8] = <<f.anomaliesDropped>>
      /\ xs[8] = f.anomaliesDropped
  BY <1>3, <1>4, <1>5
<1>8. \A i \in {1, 3, 6, 8} : Reads(tokens, fields[i], ws[i], xs[i])
  <2>1. \A x \in {f.id, f.current, f.historyDropped, f.anomaliesDropped} :
           Reads(tokens, NumberAt(tokens), <<x>>, x)
    BY <1>1, NumberReads
  <2>2. Reads(tokens, fields[1], ws[1], xs[1]) /\ Reads(tokens, fields[3], ws[3], xs[3])
    BY <1>7, <2>1
  <2>3. Reads(tokens, fields[6], ws[6], xs[6]) /\ Reads(tokens, fields[8], ws[8], xs[8])
    BY <1>7, <2>1
  <2> QED
    BY <2>2, <2>3
<1>9. Reads(tokens, fields[2], ws[2], xs[2])
  BY <1>1, <1>7, KeyReads
<1>10. IF \A i \in 1 .. Len(f.generations) : ReadableGeneration(f.generations[i])
       THEN Reads(tokens, fields[4], ws[4], xs[4]) ELSE Rejects(tokens, fields[4], ws[4])
  BY <1>2, <1>7
<1>11. WriteScalars(f.history) \in Seq(Nat) /\ Reads(tokens, fields[5], ws[5], xs[5])
  <2>1. MaxHistory \in Nat
    BY Limits
  <2> QED
    BY <1>1, <1>7, <2>1, ScalarsRead
<1>12. /\ WriteScalars(f.anomalies) \in Seq(Nat)
       /\ IF \A i \in 1 .. Len(f.anomalies) : f.anomalies[i] <= MaxDetailBytes
          THEN Reads(tokens, fields[7], ws[7], xs[7]) ELSE Rejects(tokens, fields[7], ws[7])
  BY <1>1, <1>7, DetailsRead
<1>13. Written(tokens, ws, 8)
  <2>1. /\ <<f.id>> \in Seq(Nat) /\ <<f.key>> \in Seq(Nat) /\ <<f.current>> \in Seq(Nat)
        /\ <<f.historyDropped>> \in Seq(Nat) /\ <<f.anomaliesDropped>> \in Seq(Nat)
    BY <1>1
  <2>2. ws \in [1 .. 8 -> Seq(Nat)]
    BY <1>2, <1>4, <1>11, <1>12, <2>1, TuplesTyped
  <2> QED
    BY <2>2 DEF Written
<1>14. FlattenSeq(ws) \in Seq(Nat)
  BY <1>13, FlattenTyped
<1>15. FlattenSeq(ws) = WriteFlow(f) /\ Struct(tokens, fields) = FlowAt(tokens)
  BY <1>2, <1>3, <1>4 DEF WriteFlow, FlowAt
<1>16. xs = FlowFields(f) /\ Firsts(xs, 8) = xs
  BY <1>5 DEF Firsts, FlowFields
<1>17. CASE ReadableFlow(f)
  <2>1. /\ Reads(tokens, fields[4], ws[4], xs[4]) /\ Reads(tokens, fields[7], ws[7], xs[7])
    BY <1>10, <1>12, <1>17 DEF ReadableFlow
  <2>2. \A i \in 1 .. 8 : Reads(tokens, fields[i], ws[i], xs[i])
    BY <1>8, <1>9, <1>11, <2>1
  <2>3. Reads(tokens, Struct(tokens, fields), FlattenSeq(ws), Firsts(xs, 8))
    BY <1>7, <1>13, <2>2, StructReads
  <2> QED
    BY <1>14, <1>15, <1>16, <1>17, <2>3
<1>18. CASE ~ReadableFlow(f)
  <2>1. \E i \in 1 .. 8 : Rejects(tokens, fields[i], ws[i])
    BY <1>10, <1>12, <1>18 DEF ReadableFlow
  <2>2. \A i \in 1 .. 8 : \/ Reads(tokens, fields[i], ws[i], xs[i])
                          \/ Rejects(tokens, fields[i], ws[i])
    <3>1. \A i \in {1, 2, 3, 5, 6, 8} : Reads(tokens, fields[i], ws[i], xs[i])
      BY <1>8, <1>9, <1>11
    <3>2. \A i \in {4, 7} : \/ Reads(tokens, fields[i], ws[i], xs[i])
                            \/ Rejects(tokens, fields[i], ws[i])
      BY <1>10, <1>12
    <3> QED
      BY <3>1, <3>2
  <2>3. Rejects(tokens, Struct(tokens, fields), FlattenSeq(ws))
    BY <1>7, <1>13, <2>1, <2>2, StructRejects
  <2> QED
    BY <1>14, <1>15, <1>18, <2>3
<1> QED
  BY <1>17, <1>18

ObservationFields(o) ==
  <<o.source, o.sequence, o.flow, o.generation, o.peer, o.queue, o.link, o.hops,
    o.flowKey, o.peerKey>>

\* Of the keys only the peer's can be beyond the bound.
LEMMA ObservationRead ==
  ASSUME NEW tokens \in Seq(Nat), NEW o \in ObservationSet
  PROVE  /\ WriteObservation(o) \in Seq(Nat)
         /\ IF KeyBytes[o.peerKey] <= MaxKeyBytes
            THEN Reads(tokens, ObservationAt(tokens), WriteObservation(o), ObservationFields(o))
            ELSE Rejects(tokens, ObservationAt(tokens), WriteObservation(o))
<1>1. /\ o.source \in Nat /\ o.sequence \in Nat /\ o.flow \in Nat /\ o.generation \in Nat
      /\ o.peer \in Nat /\ o.queue \in Nat \cup {None} /\ o.link \in Nat \cup {None}
      /\ o.hops \in Seq(Nat) /\ o.flowKey \in Nat /\ o.peerKey \in Nat
      /\ Len(o.hops) <= MaxPathHops /\ KeyBytes[o.flowKey] <= MaxKeyBytes
  BY Limits DEF ObservationSet
<1>2. PICK fields :
        fields = <<NumberAt(tokens), NumberAt(tokens), NumberAt(tokens), NumberAt(tokens),
                   NumberAt(tokens), OptionAt(tokens), OptionAt(tokens),
                   ListAt(tokens, MaxPathHops, NumberAt(tokens)),
                   KeyAt(tokens), KeyAt(tokens)>>
  OBVIOUS
<1>3. PICK ws : ws = << <<o.source>>, <<o.sequence>>, <<o.flow>>, <<o.generation>>, <<o.peer>>,
                        WriteOptional(o.queue), WriteOptional(o.link), WriteScalars(o.hops),
                        <<o.flowKey>>, <<o.peerKey>> >>
  OBVIOUS
<1>4. PICK xs : xs = <<o.source, o.sequence, o.flow, o.generation, o.peer, o.queue, o.link,
                       o.hops, o.flowKey, o.peerKey>>
  OBVIOUS
<1>5. /\ Len(fields) = 10
      /\ \A i \in 1 .. 5 : fields[i] = NumberAt(tokens)
      /\ fields[6] = OptionAt(tokens) /\ fields[7] = OptionAt(tokens)
      /\ fields[8] = ListAt(tokens, MaxPathHops, NumberAt(tokens))
      /\ fields[9] = KeyAt(tokens) /\ fields[10] = KeyAt(tokens)
  BY <1>2
<1>6. /\ \A i \in 1 .. 5 : ws[i] = <<xs[i]>> /\ xs[i] \in Nat
      /\ ws[6] = WriteOptional(xs[6]) /\ ws[7] = WriteOptional(xs[7])
      /\ ws[8] = WriteScalars(o.hops) /\ xs[8] = o.hops
      /\ ws[9] = <<o.flowKey>> /\ xs[9] = o.flowKey
      /\ ws[10] = <<o.peerKey>> /\ xs[10] = o.peerKey
  BY <1>1, <1>3, <1>4
<1>7. xs[6] = o.queue /\ xs[7] = o.link
  BY <1>4
<1>8. \A i \in 1 .. 5 : Reads(tokens, fields[i], ws[i], xs[i])
  <2>1. \A x \in Nat : Reads(tokens, NumberAt(tokens), <<x>>, x)
    BY NumberReads
  <2> QED
    BY <1>5, <1>6, <2>1
<1>9. /\ WriteOptional(o.queue) \in Seq(Nat) /\ WriteOptional(o.link) \in Seq(Nat)
      /\ Reads(tokens, OptionAt(tokens), WriteOptional(o.queue), o.queue)
      /\ Reads(tokens, OptionAt(tokens), WriteOptional(o.link), o.link)
  BY <1>1, OptionReads
<1>10. Reads(tokens, fields[6], ws[6], xs[6]) /\ Reads(tokens, fields[7], ws[7], xs[7])
  BY <1>5, <1>6, <1>7, <1>9
<1>11. WriteScalars(o.hops) \in Seq(Nat) /\ Reads(tokens, fields[8], ws[8], xs[8])
  <2>1. MaxPathHops \in Nat
    BY Limits
  <2>2. /\ WriteScalars(o.hops) \in Seq(Nat)
        /\ Reads(tokens, ListAt(tokens, MaxPathHops, NumberAt(tokens)), WriteScalars(o.hops), o.hops)
    BY <1>1, <2>1, ScalarsRead
  <2> QED
    BY <1>5, <1>6, <2>2
<1>12. Reads(tokens, fields[9], ws[9], xs[9])
  <2>1. Reads(tokens, KeyAt(tokens), <<o.flowKey>>, o.flowKey)
    BY <1>1, KeyReads
  <2> QED
    BY <1>5, <1>6, <2>1
<1>13. IF KeyBytes[o.peerKey] <= MaxKeyBytes THEN Reads(tokens, fields[10], ws[10], xs[10])
                                             ELSE Rejects(tokens, fields[10], ws[10])
  <2>1. IF KeyBytes[o.peerKey] <= MaxKeyBytes
        THEN Reads(tokens, KeyAt(tokens), <<o.peerKey>>, o.peerKey)
        ELSE Rejects(tokens, KeyAt(tokens), <<o.peerKey>>)
    BY <1>1, KeyReads
  <2> QED
    BY <1>5, <1>6, <2>1
<1>14. Written(tokens, ws, 10)
  <2>1. /\ <<o.source>> \in Seq(Nat) /\ <<o.sequence>> \in Seq(Nat) /\ <<o.flow>> \in Seq(Nat)
        /\ <<o.generation>> \in Seq(Nat) /\ <<o.peer>> \in Seq(Nat)
        /\ <<o.flowKey>> \in Seq(Nat) /\ <<o.peerKey>> \in Seq(Nat)
    BY <1>1
  <2>2. ws \in [1 .. 10 -> Seq(Nat)]
    BY <1>3, <1>9, <1>11, <2>1, TuplesTyped
  <2> QED
    BY <2>2 DEF Written
<1>15. FlattenSeq(ws) \in Seq(Nat)
  BY <1>14, FlattenTyped
<1>16. FlattenSeq(ws) = WriteObservation(o) /\ Struct(tokens, fields) = ObservationAt(tokens)
  BY <1>2, <1>3 DEF WriteObservation, ObservationAt
<1>17. xs = ObservationFields(o) /\ Firsts(xs, 10) = xs
  BY <1>4 DEF Firsts, ObservationFields
<1>18. \A i \in 1 .. 9 : Reads(tokens, fields[i], ws[i], xs[i])
  BY <1>8, <1>10, <1>11, <1>12
<1>19. CASE KeyBytes[o.peerKey] <= MaxKeyBytes
  <2>1. \A i \in 1 .. 10 : Reads(tokens, fields[i], ws[i], xs[i])
    BY <1>13, <1>18, <1>19
  <2>2. Reads(tokens, Struct(tokens, fields), FlattenSeq(ws), Firsts(xs, 10))
    BY <1>5, <1>14, <2>1, StructReads
  <2> QED
    BY <1>15, <1>16, <1>17, <1>19, <2>2
<1>20. CASE ~(KeyBytes[o.peerKey] <= MaxKeyBytes)
  <2>1. \E i \in 1 .. 10 : Rejects(tokens, fields[i], ws[i])
    BY <1>13, <1>20
  <2>2. \A i \in 1 .. 10 : \/ Reads(tokens, fields[i], ws[i], xs[i])
                           \/ Rejects(tokens, fields[i], ws[i])
    BY <1>13, <1>18, <1>20
  <2>3. Rejects(tokens, Struct(tokens, fields), FlattenSeq(ws))
    BY <1>5, <1>14, <2>1, <2>2, StructRejects
  <2> QED
    BY <1>15, <1>16, <1>20, <2>3
<1> QED
  BY <1>19, <1>20

\* A payload by itself.
LEMMA WholeReads ==
  ASSUME NEW w \in Seq(Nat), NEW field
  PROVE  /\ \A x : Reads(w, field, w, x) => Whole(w, field[1]) = Got(Len(w) + 1, x)
         /\ Rejects(w, field, w) => Whole(w, field[1]) = Failed
<1>1. 1 \in Positions(w) /\ 1 + Len(w) = Len(w) + 1
  BY DEF Positions
<1>2. Occurs(w, w, 1)
  <2>1. \A i \in 1 .. Len(w) : (1 - 1) + i = i
    OBVIOUS
  <2> QED
    BY <2>1 DEF Occurs
<1>3. ASSUME NEW x, Reads(w, field, w, x) PROVE Whole(w, field[1]) = Got(Len(w) + 1, x)
  <2>1. field[1] = Got(Len(w) + 1, x)
    BY <1>1, <1>2, <1>3 DEF Reads
  <2> QED
    BY <2>1, ResultFields DEF Whole
<1>4. ASSUME Rejects(w, field, w) PROVE Whole(w, field[1]) = Failed
  <2>1. field[1] = Failed
    BY <1>1, <1>2, <1>4 DEF Rejects
  <2> QED
    BY <2>1, ResultFields DEF Whole
<1> QED
  BY <1>3, <1>4

LEMMA DescriptorDecodes ==
  ASSUME NEW d \in DescriptorSet
  PROVE  IF KeyBytes[d.key] <= MaxKeyBytes
         THEN /\ DecodeDescriptor(WriteDescriptor(d)).ok
              /\ DescriptorOf(DecodeDescriptor(WriteDescriptor(d)).value) = d
         ELSE ~DecodeDescriptor(WriteDescriptor(d)).ok
<1>1. PICK w \in Seq(Nat) : w = WriteDescriptor(d)
  BY DescriptorRead, EmptySeq
<1>2. IF KeyBytes[d.key] <= MaxKeyBytes
      THEN Reads(w, DescriptorAt(w), w, <<d.id, d.key, d.authority>>)
      ELSE Rejects(w, DescriptorAt(w), w)
  BY <1>1, DescriptorRead
<1>3. CASE KeyBytes[d.key] <= MaxKeyBytes
  <2>1. DecodeDescriptor(w) = Got(Len(w) + 1, <<d.id, d.key, d.authority>>)
    BY <1>2, <1>3, WholeReads DEF DecodeDescriptor
  <2>2. d = [id |-> d.id, key |-> d.key, authority |-> d.authority]
    BY DEF DescriptorSet
  <2> QED
    BY <1>1, <1>3, <2>1, <2>2, ResultFields DEF DescriptorOf
<1>4. CASE ~(KeyBytes[d.key] <= MaxKeyBytes)
  <2>1. DecodeDescriptor(w) = Failed
    BY <1>2, <1>4, WholeReads DEF DecodeDescriptor
  <2> QED
    BY <1>1, <1>4, <2>1, ResultFields
<1> QED
  BY <1>3, <1>4

LEMMA SourceFieldsOf ==
  ASSUME NEW s \in SourceSet PROVE SourceOf(SourceFields(s)) = s
<1>1. s = [id |-> s.id, key |-> s.key, authority |-> s.authority, accepted |-> s.accepted,
           hops |-> s.hops]
  BY DEF SourceSet
<1> QED
  BY <1>1 DEF SourceOf, SourceFields

LEMMA GenerationFieldsOf ==
  ASSUME NEW g \in GenerationSet PROVE GenerationOf(GenerationFields(g)) = g
<1>1. /\ g = [id |-> g.id, links |-> g.links, queues |-> g.queues, sources |-> g.sources]
      /\ g.sources \in Seq(SourceSet)
  BY DEF GenerationSet
<1>2. PICK v : v = [i \in 1 .. Len(g.sources) |-> SourceFields(g.sources[i])]
  OBVIOUS
<1>3. [i \in DOMAIN v |-> SourceOf(v[i])] = g.sources
  <2>1. DOMAIN v = 1 .. Len(g.sources)
    BY <1>2
  <2>2. ASSUME NEW i \in 1 .. Len(g.sources) PROVE SourceOf(v[i]) = g.sources[i]
    <3>1. g.sources[i] \in SourceSet
      BY <1>1
    <3> QED
      BY <1>2, <3>1, SourceFieldsOf
  <2>3. g.sources = [i \in 1 .. Len(g.sources) |-> g.sources[i]]
    BY <1>1
  <2> QED
    BY <2>1, <2>2, <2>3
<1>4. GenerationFields(g) = <<g.id, g.links, g.queues, v>>
  BY <1>2 DEF GenerationFields
<1> QED
  BY <1>1, <1>3, <1>4 DEF GenerationOf

LEMMA FlowFieldsOf ==
  ASSUME NEW f \in FlowSet PROVE FlowOf(FlowFields(f)) = f
<1>1. /\ f = [id |-> f.id, key |-> f.key, current |-> f.current, generations |-> f.generations,
              history |-> f.history, historyDropped |-> f.historyDropped,
              anomalies |-> f.anomalies, anomaliesDropped |-> f.anomaliesDropped]
      /\ f.generations \in Seq(GenerationSet)
  BY DEF FlowSet
<1>2. PICK v : v = [i \in 1 .. Len(f.generations) |-> GenerationFields(f.generations[i])]
  OBVIOUS
<1>3. [i \in DOMAIN v |-> GenerationOf(v[i])] = f.generations
  <2>1. DOMAIN v = 1 .. Len(f.generations)
    BY <1>2
  <2>2. ASSUME NEW i \in 1 .. Len(f.generations) PROVE GenerationOf(v[i]) = f.generations[i]
    <3>1. f.generations[i] \in GenerationSet
      BY <1>1
    <3> QED
      BY <1>2, <3>1, GenerationFieldsOf
  <2>3. f.generations = [i \in 1 .. Len(f.generations) |-> f.generations[i]]
    BY <1>1
  <2> QED
    BY <2>1, <2>2, <2>3
<1>4. FlowFields(f) = <<f.id, f.key, f.current, v, f.history, f.historyDropped, f.anomalies,
                        f.anomaliesDropped>>
  BY <1>2 DEF FlowFields
<1> QED
  BY <1>1, <1>3, <1>4 DEF FlowOf

LEMMA FlowDecodes ==
  ASSUME NEW f \in FlowSet
  PROVE  IF ReadableFlow(f)
         THEN DecodeFlow(WriteFlow(f)).ok /\ FlowOf(DecodeFlow(WriteFlow(f)).value) = f
         ELSE ~DecodeFlow(WriteFlow(f)).ok
<1>1. PICK w \in Seq(Nat) : w = WriteFlow(f)
  BY FlowRead, EmptySeq
<1>2. IF ReadableFlow(f) THEN Reads(w, FlowAt(w), w, FlowFields(f))
                         ELSE Rejects(w, FlowAt(w), w)
  BY <1>1, FlowRead
<1>3. CASE ReadableFlow(f)
  <2>1. DecodeFlow(w) = Got(Len(w) + 1, FlowFields(f))
    BY <1>2, <1>3, WholeReads DEF DecodeFlow
  <2> QED
    BY <1>1, <1>3, <2>1, FlowFieldsOf, ResultFields
<1>4. CASE ~ReadableFlow(f)
  <2>1. DecodeFlow(w) = Failed
    BY <1>2, <1>4, WholeReads DEF DecodeFlow
  <2> QED
    BY <1>1, <1>4, <2>1, ResultFields
<1> QED
  BY <1>3, <1>4

LEMMA ObservationDecodes ==
  ASSUME NEW o \in ObservationSet
  PROVE  IF KeyBytes[o.peerKey] <= MaxKeyBytes
         THEN /\ DecodeObservation(WriteObservation(o)).ok
              /\ ObservationOf(DecodeObservation(WriteObservation(o)).value) = o
         ELSE ~DecodeObservation(WriteObservation(o)).ok
<1>1. PICK w \in Seq(Nat) : w = WriteObservation(o)
  BY ObservationRead, EmptySeq
<1>2. IF KeyBytes[o.peerKey] <= MaxKeyBytes
      THEN Reads(w, ObservationAt(w), w, ObservationFields(o))
      ELSE Rejects(w, ObservationAt(w), w)
  BY <1>1, ObservationRead
<1>3. CASE KeyBytes[o.peerKey] <= MaxKeyBytes
  <2>1. DecodeObservation(w) = Got(Len(w) + 1, ObservationFields(o))
    BY <1>2, <1>3, WholeReads DEF DecodeObservation
  <2>2. ObservationOf(ObservationFields(o)) = o
    <3>1. o = [source |-> o.source, sequence |-> o.sequence, flow |-> o.flow,
               generation |-> o.generation, peer |-> o.peer, queue |-> o.queue,
               link |-> o.link, hops |-> o.hops, flowKey |-> o.flowKey, peerKey |-> o.peerKey]
      BY DEF ObservationSet
    <3> QED
      BY <3>1 DEF ObservationOf, ObservationFields
  <2> QED
    BY <1>1, <1>3, <2>1, <2>2, ResultFields
<1>4. CASE ~(KeyBytes[o.peerKey] <= MaxKeyBytes)
  <2>1. DecodeObservation(w) = Failed
    BY <1>2, <1>4, WholeReads DEF DecodeObservation
  <2> QED
    BY <1>1, <1>4, <2>1, ResultFields
<1> QED
  BY <1>3, <1>4

-----------------------------------------------------------------------------
(* The records of a group and their replay.                                *)

StateSet == [sources : Seq(DescriptorSet), flows : Seq(FlowSet)]

\* The state is one every record of which its reader takes.
ReadableState(state) ==
  /\ \A i \in 1 .. Len(state.sources) : KeyBytes[state.sources[i].key] <= MaxKeyBytes
  /\ \A i \in 1 .. Len(state.flows) : ReadableFlow(state.flows[i])

LEMMA RecordFields ==
  ASSUME NEW kind, NEW payload
  PROVE  Record(kind, payload).kind = kind /\ Record(kind, payload).payload = payload
  BY DEF Record

LEMMA ReplayedFields ==
  ASSUME NEW sources, NEW flows, NEW observations, NEW group
  PROVE  /\ Replayed(sources, flows, observations, group).ok
         /\ Replayed(sources, flows, observations, group).state.sources = sources
         /\ Replayed(sources, flows, observations, group).state.flows = flows
         /\ Replayed(sources, flows, observations, group).observations = observations
         /\ Replayed(sources, flows, observations, group).group = group
         /\ ~Refusal.ok
  BY DEF Replayed, Refusal

\* g is a group with these sources and flows.
IsGroup(g, ss, fs) ==
  /\ Len(g) = Len(ss) + Len(fs) + 3
  /\ g = [i \in 1 .. Len(ss) + Len(fs) + 3 |-> g[i]]
  /\ g[1] = Record("SnapshotBegin", <<>>) /\ g[2] = Record("LimitsRecord", <<MaxFlows>>)
  /\ \A i \in 1 .. Len(ss) : g[i + 2] = Record("SourceDescriptor", WriteDescriptor(ss[i]))
  /\ \A i \in 1 .. Len(fs) : g[i + (Len(ss) + 2)] = Record("Flow", WriteFlow(fs[i]))
  /\ g[Len(ss) + Len(fs) + 3] =
       Record("SnapshotEnd", <<Digest(SubSeq(g, 1, Len(ss) + Len(fs) + 2)), Len(ss), Len(fs)>>)

LEMMA ConcatIs ==
  ASSUME NEW S, NEW a \in Seq(S), NEW b \in Seq(S)
  PROVE  /\ a \o b \in Seq(S) /\ Len(a \o b) = Len(a) + Len(b)
         /\ \A i \in 1 .. Len(a) : (a \o b)[i] = a[i]
         /\ \A i \in 1 .. Len(b) : (a \o b)[i + Len(a)] = b[i]
<1>1. \A i \in 1 .. Len(b) : (a \o b)[i + Len(a)] = b[i]
  <2>1. \A i \in 1 .. Len(b) : i + Len(a) \in 1 .. Len(a) + Len(b) /\ (i + Len(a)) - Len(a) = i
                             /\ i + Len(a) > Len(a)
    OBVIOUS
  <2> QED
    BY <2>1
<1> QED
  BY <1>1

LEMMA AppendIs ==
  ASSUME NEW S, NEW a \in Seq(S), NEW x \in S
  PROVE  /\ Append(a, x) \in Seq(S) /\ Len(Append(a, x)) = Len(a) + 1
         /\ \A i \in 1 .. Len(a) : Append(a, x)[i] = a[i]
         /\ Append(a, x)[Len(a) + 1] = x
         /\ a = [i \in 1 .. Len(a) |-> a[i]] /\ Len(a) \in Nat
  OBVIOUS

LEMMA GroupIs ==
  ASSUME NEW state \in StateSet
  PROVE  IsGroup(EncodeState(state), state.sources, state.flows)
<1>1. PICK ss \in Seq(DescriptorSet) : ss = state.sources
  BY DEF StateSet
<1>2. PICK fs \in Seq(FlowSet) : fs = state.flows
  BY DEF StateSet
<1>3. PICK n \in Nat : n = Len(ss) /\ DOMAIN ss = 1 .. n
  OBVIOUS
<1>4. PICK m \in Nat : m = Len(fs) /\ DOMAIN fs = 1 .. m
  OBVIOUS
<1>5. PICK h : h = <<Record("SnapshotBegin", <<>>), Record("LimitsRecord", <<MaxFlows>>)>>
  OBVIOUS
<1>6. PICK a : a = [i \in 1 .. n |-> Record("SourceDescriptor", WriteDescriptor(ss[i]))]
  OBVIOUS
<1>7. PICK b : b = [i \in 1 .. m |-> Record("Flow", WriteFlow(fs[i]))]
  OBVIOUS
<1>8. PICK body : body = (h \o a) \o b
  OBVIOUS
<1>9. PICK end : end = Record("SnapshotEnd", <<Digest(body), n, m>>)
  OBVIOUS
<1> DEFINE V == {h[1], h[2], end} \cup {a[i] : i \in 1 .. n} \cup {b[i] : i \in 1 .. m}
<1>10. /\ h \in Seq(V) /\ Len(h) = 2 /\ a \in Seq(V) /\ Len(a) = n
       /\ b \in Seq(V) /\ Len(b) = m /\ end \in V
  <2>1. h = <<h[1], h[2]>> /\ h[1] \in V /\ h[2] \in V
    BY <1>5
  <2>2. h \in Seq(V) /\ Len(h) = 2
    <3>1. \A x, y \in V : <<x, y>> \in Seq(V) /\ Len(<<x, y>>) = 2
      OBVIOUS
    <3> QED
      BY <2>1, <3>1
  <2>3. a \in Seq(V) /\ Len(a) = n
    BY <1>6
  <2>4. b \in Seq(V) /\ Len(b) = m
    BY <1>7
  <2> QED
    BY <2>2, <2>3, <2>4
<1> HIDE DEF V
<1>11. PICK c : /\ c = h \o a /\ c \in Seq(V) /\ Len(c) = n + 2
                /\ \A i \in 1 .. 2 : c[i] = h[i]
                /\ \A i \in 1 .. n : c[i + 2] = a[i]
  <2>1. /\ h \o a \in Seq(V) /\ Len(h \o a) = Len(h) + Len(a)
        /\ \A i \in 1 .. Len(h) : (h \o a)[i] = h[i]
        /\ \A i \in 1 .. Len(a) : (h \o a)[i + Len(h)] = a[i]
    <3>1. h \in Seq(V)
      BY <1>10
    <3>2. a \in Seq(V)
      BY <1>10
    <3> QED
      BY ONLY <3>1, <3>2, ConcatIs
  <2>2. PICK c : c = h \o a
    OBVIOUS
  <2>3. /\ c \in Seq(V) /\ Len(c) = n + 2 /\ \A i \in 1 .. 2 : c[i] = h[i]
        /\ \A i \in 1 .. n : c[i + 2] = a[i]
    BY <1>10, <2>1, <2>2
  <2> QED
    BY <2>2, <2>3
<1>12. /\ body \in Seq(V) /\ Len(body) = n + m + 2
       /\ \A i \in 1 .. n + 2 : body[i] = c[i]
       /\ \A i \in 1 .. m : body[i + (n + 2)] = b[i]
  <2>1. /\ c \o b \in Seq(V) /\ Len(c \o b) = Len(c) + Len(b)
        /\ \A i \in 1 .. Len(c) : (c \o b)[i] = c[i]
        /\ \A i \in 1 .. Len(b) : (c \o b)[i + Len(c)] = b[i]
    <3>1. c \in Seq(V)
      BY <1>11
    <3>2. b \in Seq(V)
      BY <1>10
    <3> QED
      BY ONLY <3>1, <3>2, ConcatIs
  <2>2. body = c \o b /\ n + 2 + m = n + m + 2
    BY <1>8, <1>11
  <2> QED
    BY <1>10, <1>11, <2>1, <2>2
<1>13. PICK g \in Seq(V) : /\ g = Append(body, end) /\ Len(g) = n + m + 3
                           /\ g[n + m + 3] = end /\ \A i \in 1 .. n + m + 2 : g[i] = body[i]
  <2>1. /\ Append(body, end) \in Seq(V) /\ Len(Append(body, end)) = Len(body) + 1
        /\ \A i \in 1 .. Len(body) : Append(body, end)[i] = body[i]
        /\ Append(body, end)[Len(body) + 1] = end
    BY <1>10, <1>12, AppendIs
  <2>2. (n + m + 2) + 1 = n + m + 3
    OBVIOUS
  <2> QED
    BY <1>12, <2>1, <2>2
<1>14. SubSeq(g, 1, n + m + 2) = body
  <2>1. SubSeq(g, 1, n + m + 2) = [i \in 1 .. n + m + 2 |-> g[i]]
    BY <1>13
  <2>2. body = [i \in 1 .. n + m + 2 |-> body[i]]
    BY <1>12
  <2> QED
    BY <1>13, <2>1, <2>2
<1>15. EncodeState(state) = g
  BY <1>1, <1>2, <1>3, <1>4, <1>5, <1>6, <1>7, <1>8, <1>9, <1>13 DEF EncodeState
<1>16. g[1] = Record("SnapshotBegin", <<>>) /\ g[2] = Record("LimitsRecord", <<MaxFlows>>)
  <2>1. 1 \in 1 .. n + 2 /\ 2 \in 1 .. n + 2 /\ 1 \in 1 .. n + m + 2 /\ 2 \in 1 .. n + m + 2
    OBVIOUS
  <2> QED
    BY <1>5, <1>11, <1>12, <1>13, <2>1
<1>17. ASSUME NEW i \in 1 .. n
       PROVE  g[i + 2] = Record("SourceDescriptor", WriteDescriptor(ss[i]))
  <2>1. i + 2 \in 1 .. n + 2 /\ i + 2 \in 1 .. n + m + 2
    OBVIOUS
  <2>2. g[i + 2] = a[i]
    BY <1>11, <1>12, <1>13, <2>1
  <2> QED
    BY <1>6, <2>2
<1>18. ASSUME NEW i \in 1 .. m
       PROVE  g[i + (n + 2)] = Record("Flow", WriteFlow(fs[i]))
  <2>1. i + (n + 2) \in 1 .. n + m + 2
    OBVIOUS
  <2>2. g[i + (n + 2)] = b[i]
    <3>1. g[i + (n + 2)] = body[i + (n + 2)]
      BY <1>13, <2>1
    <3> QED
      BY <1>12, <3>1
  <2> QED
    BY <1>7, <2>2
<1>19. g = [i \in 1 .. n + m + 3 |-> g[i]]
  <2>1. g = [i \in 1 .. Len(g) |-> g[i]]
    <3>1. g \in Seq(V) /\ end \in V
      BY <1>10, <1>13
    <3> QED
      BY ONLY <3>1
  <2> QED
    BY <1>13, <2>1
<1>20. IsGroup(g, ss, fs)
  BY <1>3, <1>4, <1>9, <1>13, <1>14, <1>16, <1>17, <1>18, <1>19 DEF IsGroup
<1> QED
  BY <1>1, <1>2, <1>15, <1>20

Start == Replayed(<<>>, <<>>, <<>>, <<>>)

\* The records of a group up to n, collected one after the other.
Collects(g, n, c) ==
  c[1] = Start /\ \A i \in 2 .. n : c[i] = Collect(c[i - 1], g[i])

LEMMA DecodeIs ==
  ASSUME NEW g, NEW n \in Nat, n >= 1, Len(g) - 1 = n
  PROVE  \E c : /\ Collects(g, n, c)
                /\ DecodeState(g) =
                     IF /\ DigestHolds(g) /\ c[n].ok
                        /\ Len(c[n].state.sources) = g[Len(g)].payload[2]
                        /\ Len(c[n].state.flows) = g[Len(g)].payload[3]
                     THEN c[n] ELSE Refusal
<1> DEFINE Is(h, k) == h = [i \in 1 .. k |-> IF i = 1 THEN Start ELSE Collect(h[i - 1], g[i])]
           Good == {k \in 1 .. n : \E h : Is(h, k)}
<1>1. 1 \in Good
  <2> DEFINE h == [i \in 1 .. 1 |-> Start]
  <2>1. Is(h, 1)
    OBVIOUS
  <2>2. 1 \in 1 .. n
    OBVIOUS
  <2> HIDE DEF h, Is
  <2> QED
    BY <2>1, <2>2
<1>2. ASSUME NEW k \in 1 .. n, k # n, k \in Good PROVE k + 1 \in Good
  <2>1. PICK b : Is(b, k)
    BY <1>2
  <2> DEFINE h == [i \in 1 .. k + 1 |-> IF i = k + 1 THEN Collect(b[k], g[i]) ELSE b[i]]
  <2>2. k + 1 \in 1 .. n /\ \A i \in 1 .. k + 1 : i = k + 1 \/ i \in 1 .. k
    BY <1>2
  <2>3. ASSUME NEW i \in 1 .. k + 1
        PROVE  h[i] = IF i = 1 THEN Start ELSE Collect(h[i - 1], g[i])
    <3>1. CASE i = k + 1
      <4>1. i # 1 /\ i - 1 = k /\ k \in 1 .. k + 1 /\ k # k + 1
        BY <3>1
      <4> QED
        BY <4>1, <3>1
    <3>2. CASE i \in 1 .. k
      <4>1. i # k + 1 /\ (i # 1 => i - 1 \in 1 .. k + 1 /\ i - 1 # k + 1)
        BY <3>2
      <4>2. b[i] = IF i = 1 THEN Start ELSE Collect(b[i - 1], g[i])
        BY <2>1, <3>2
      <4> QED
        BY <4>1, <4>2
    <3> QED
      BY <2>2, <3>1, <3>2
  <2>4. Is(h, k + 1)
    BY <2>3
  <2> HIDE DEF h, Is
  <2> QED
    BY <2>2, <2>4
<1> HIDE DEF Good
<1>3. \A k \in 1 .. n : k \in Good
  BY <1>1, <1>2, UpTo
<1>4. \E h : Is(h, n)
  BY <1>3 DEF Good
<1> DEFINE c == CHOOSE h : Is(h, n)
<1>5. Is(c, n)
  BY <1>4
<1>6. DecodeState(g) = IF /\ DigestHolds(g) /\ c[n].ok
                          /\ Len(c[n].state.sources) = g[Len(g)].payload[2]
                          /\ Len(c[n].state.flows) = g[Len(g)].payload[3]
                       THEN c[n] ELSE Refusal
  <2> DEFINE last == Len(g) - 1
             e == CHOOSE h : Is(h, last)
  <2>1. DecodeState(g) = IF /\ DigestHolds(g) /\ e[last].ok
                            /\ Len(e[last].state.sources) = g[Len(g)].payload[2]
                            /\ Len(e[last].state.flows) = g[Len(g)].payload[3]
                         THEN e[last] ELSE Refusal
    BY ZenonT(30) DEF DecodeState, Start
  <2>2. last = n
    OBVIOUS
  <2>3. e = c
    BY <2>2
  <2> HIDE DEF e, last, c
  <2> QED
    BY <2>1, <2>2, <2>3
<1> HIDE DEF c
<1>7. Collects(g, n, c)
  <2>1. 1 \in 1 .. n /\ \A i \in 2 .. n : i \in 1 .. n /\ i # 1
    OBVIOUS
  <2> QED
    BY <1>5, <2>1 DEF Collects
<1> QED
  BY <1>6, <1>7

\* One record of a group, as it was written.
LEMMA CollectDescriptor ==
  ASSUME NEW r, NEW d \in DescriptorSet,
         NEW record, record = Record("SourceDescriptor", WriteDescriptor(d))
  PROVE  /\ ~(KeyBytes[d.key] <= MaxKeyBytes) => Collect(r, record) = Refusal
         /\ r.ok /\ Len(r.state.sources) < MaxSources /\ KeyBytes[d.key] <= MaxKeyBytes =>
              Collect(r, record) =
                Replayed(Append(r.state.sources, d), r.state.flows, <<>>, <<>>)
<1>1. record.kind = "SourceDescriptor" /\ record.payload = WriteDescriptor(d)
  BY RecordFields
<1> QED
  BY <1>1, DescriptorDecodes DEF Collect

LEMMA CollectFlow ==
  ASSUME NEW r, NEW f \in FlowSet, NEW record, record = Record("Flow", WriteFlow(f))
  PROVE  /\ ~ReadableFlow(f) => Collect(r, record) = Refusal
         /\ r.ok /\ Len(r.state.flows) < MaxFlows /\ ReadableFlow(f) =>
              Collect(r, record) =
                Replayed(r.state.sources, Append(r.state.flows, f), <<>>, <<>>)
<1>1. record.kind = "Flow" /\ record.payload = WriteFlow(f)
  BY RecordFields
<1> QED
  BY <1>1, FlowDecodes DEF Collect

LEMMA RefusalStays ==
  ASSUME NEW g, NEW n \in Nat, NEW c, Collects(g, n, c), NEW k \in 1 .. n, c[k] = Refusal
  PROVE  c[n] = Refusal
<1> DEFINE Good == {i \in k .. n : c[i] = Refusal}
<1>1. k \in Good
  OBVIOUS
<1>2. ASSUME NEW i \in k .. n, i # n, i \in Good PROVE i + 1 \in Good
  <2>1. i + 1 \in 2 .. n /\ (i + 1) - 1 = i /\ i + 1 \in k .. n
    BY <1>2
  <2>2. c[i + 1] = Collect(c[i], g[i + 1]) /\ c[i] = Refusal
    BY <1>2, <2>1 DEF Collects
  <2>3. c[i + 1] = Refusal
    BY <2>2, ReplayedFields DEF Collect
  <2> QED
    BY <2>1, <2>3
<1> HIDE DEF Good
<1>3. k \in Nat
  OBVIOUS
<1>4. \A i \in k .. n : i \in Good
  BY <1>1, <1>2, <1>3, UpTo
<1>5. n \in k .. n
  OBVIOUS
<1> QED
  BY <1>4, <1>5 DEF Good

\* A written group reads back as the state, if its records are readable.
LEMMA GroupDecodes ==
  ASSUME NEW ss \in Seq(DescriptorSet), NEW fs \in Seq(FlowSet), NEW g, IsGroup(g, ss, fs),
         Len(ss) <= MaxSources, Len(fs) <= MaxFlows
  PROVE  DecodeState(g) =
           IF /\ \A i \in 1 .. Len(ss) : KeyBytes[ss[i].key] <= MaxKeyBytes
              /\ \A i \in 1 .. Len(fs) : ReadableFlow(fs[i])
           THEN Replayed(ss, fs, <<>>, <<>>) ELSE Refusal
<1>1. PICK n \in Nat : n = Len(ss)
  OBVIOUS
<1>2. PICK m \in Nat : m = Len(fs)
  OBVIOUS
<1>3. PICK k \in Nat : k = n + m + 2
  OBVIOUS
<1>4. /\ Len(g) = k + 1 /\ Len(g) - 1 = k /\ k >= 1
      /\ g[1] = Record("SnapshotBegin", <<>>) /\ g[2] = Record("LimitsRecord", <<MaxFlows>>)
      /\ \A i \in 1 .. n : g[i + 2] = Record("SourceDescriptor", WriteDescriptor(ss[i]))
      /\ \A i \in 1 .. m : g[i + (n + 2)] = Record("Flow", WriteFlow(fs[i]))
      /\ g[k + 1] = Record("SnapshotEnd", <<Digest(SubSeq(g, 1, k)), n, m>>)
  <2>1. Len(ss) + Len(fs) + 3 = k + 1 /\ Len(ss) + Len(fs) + 2 = k /\ (k + 1) - 1 = k
    BY <1>1, <1>2, <1>3
  <2>2. Len(g) = k + 1 /\ Len(g) - 1 = k /\ k >= 1
    BY <1>1, <1>2, <1>3, <2>1 DEF IsGroup
  <2>3. g[1] = Record("SnapshotBegin", <<>>) /\ g[2] = Record("LimitsRecord", <<MaxFlows>>)
    BY DEF IsGroup
  <2>4. /\ \A i \in 1 .. n : g[i + 2] = Record("SourceDescriptor", WriteDescriptor(ss[i]))
        /\ \A i \in 1 .. m : g[i + (n + 2)] = Record("Flow", WriteFlow(fs[i]))
    BY <1>1, <1>2 DEF IsGroup
  <2>5. g[k + 1] = Record("SnapshotEnd", <<Digest(SubSeq(g, 1, k)), n, m>>)
    BY <1>1, <1>2, <2>1 DEF IsGroup
  <2> QED
    BY <2>2, <2>3, <2>4, <2>5
<1>5. /\ g[Len(g)].payload[1] = Digest(SubSeq(g, 1, Len(g) - 1))
      /\ g[Len(g)].payload[2] = n /\ g[Len(g)].payload[3] = m
  BY <1>4, RecordFields
<1>6. PICK c : /\ Collects(g, k, c)
               /\ DecodeState(g) =
                    IF /\ DigestHolds(g) /\ c[k].ok
                       /\ Len(c[k].state.sources) = g[Len(g)].payload[2]
                       /\ Len(c[k].state.flows) = g[Len(g)].payload[3]
                    THEN c[k] ELSE Refusal
  BY <1>4, DecodeIs
<1>7. c[2] = Start
  <2>1. 2 \in 2 .. k /\ 2 - 1 = 1
    BY <1>3
  <2>2. c[1] = Start /\ c[2] = Collect(c[1], g[2])
    BY <1>6, <2>1 DEF Collects
  <2>3. g[2].kind = "LimitsRecord" /\ Start.ok
    BY <1>4, RecordFields, ReplayedFields DEF Start
  <2> QED
    BY <2>2, <2>3 DEF Collect
<1>8. \A i \in 1 .. n : ss[i] \in DescriptorSet
  BY <1>1
<1>9. \A i \in 1 .. m : fs[i] \in FlowSet
  BY <1>2
<1>10. MaxSources \in Nat /\ MaxFlows \in Nat
  BY Limits
<1>11. CASE /\ \A i \in 1 .. n : KeyBytes[ss[i].key] <= MaxKeyBytes
            /\ \A i \in 1 .. m : ReadableFlow(fs[i])
  <2> DEFINE Good == {i \in 0 .. n : c[i + 2] = Replayed(Firsts(ss, i), <<>>, <<>>, <<>>)}
             Done == {i \in 0 .. m : c[i + (n + 2)] = Replayed(ss, Firsts(fs, i), <<>>, <<>>)}
  <2>1. 0 \in Good
    BY <1>7, FirstsAppend DEF Start
  <2>2. ASSUME NEW i \in 0 .. n, i # n, i \in Good PROVE i + 1 \in Good
    <3>1. /\ i + 1 \in 1 .. n /\ i + 1 \in 0 .. n /\ (i + 1) + 2 \in 2 .. k
          /\ ((i + 1) + 2) - 1 = i + 2 /\ i \in Nat /\ i < n
      BY <1>3, <2>2
    <3>2. PICK r : r = c[i + 2] /\ r = Replayed(Firsts(ss, i), <<>>, <<>>, <<>>)
      BY <2>2
    <3>3. c[(i + 1) + 2] = Collect(r, g[(i + 1) + 2])
      BY <1>6, <3>1, <3>2 DEF Collects
    <3>4. PICK record : /\ record = g[(i + 1) + 2]
                        /\ record = Record("SourceDescriptor", WriteDescriptor(ss[i + 1]))
      BY <1>4, <3>1
    <3>5. /\ r.ok /\ r.state.sources = Firsts(ss, i) /\ r.state.flows = <<>>
      BY <3>2, ReplayedFields
    <3>6. Len(r.state.sources) < MaxSources
      <4>1. Len(Firsts(ss, i)) = i
        BY <3>1 DEF Firsts
      <4> QED
        BY <1>1, <1>10, <3>1, <3>5, <4>1
    <3>7. ss[i + 1] \in DescriptorSet /\ KeyBytes[ss[i + 1].key] <= MaxKeyBytes
      BY <1>8, <1>11, <3>1
    <3>8. Collect(r, record) = Replayed(Append(Firsts(ss, i), ss[i + 1]), <<>>, <<>>, <<>>)
      BY <3>4, <3>5, <3>6, <3>7, CollectDescriptor
    <3>9. Append(Firsts(ss, i), ss[i + 1]) = Firsts(ss, i + 1)
      BY <3>1, FirstsAppend
    <3> QED
      BY <3>1, <3>3, <3>4, <3>8, <3>9
  <2>3. \A i \in 0 .. n : i \in Good
    <3> HIDE DEF Good
    <3> QED
      BY <2>1, <2>2, UpTo
  <2>4. 0 \in Done
    <3>1. n \in Good /\ Firsts(ss, n) = ss /\ 0 + (n + 2) = n + 2
      BY <1>1, <2>3, FirstsAll
    <3>2. Firsts(fs, 0) = <<>>
      BY FirstsAppend
    <3> QED
      BY <3>1, <3>2
  <2>5. ASSUME NEW i \in 0 .. m, i # m, i \in Done PROVE i + 1 \in Done
    <3>1. /\ i + 1 \in 1 .. m /\ i + 1 \in 0 .. m /\ (i + 1) + (n + 2) \in 2 .. k
          /\ ((i + 1) + (n + 2)) - 1 = i + (n + 2) /\ i \in Nat /\ i < m
      BY <1>3, <2>5
    <3>2. PICK r : r = c[i + (n + 2)] /\ r = Replayed(ss, Firsts(fs, i), <<>>, <<>>)
      BY <2>5
    <3>3. c[(i + 1) + (n + 2)] = Collect(r, g[(i + 1) + (n + 2)])
      BY <1>6, <3>1, <3>2 DEF Collects
    <3>4. PICK record : /\ record = g[(i + 1) + (n + 2)]
                        /\ record = Record("Flow", WriteFlow(fs[i + 1]))
      BY <1>4, <3>1
    <3>5. /\ r.ok /\ r.state.sources = ss /\ r.state.flows = Firsts(fs, i)
      BY <3>2, ReplayedFields
    <3>6. Len(r.state.flows) < MaxFlows
      <4>1. Len(Firsts(fs, i)) = i
        BY <3>1 DEF Firsts
      <4> QED
        BY <1>2, <1>10, <3>1, <3>5, <4>1
    <3>7. fs[i + 1] \in FlowSet /\ ReadableFlow(fs[i + 1])
      BY <1>9, <1>11, <3>1
    <3>8. Collect(r, record) = Replayed(ss, Append(Firsts(fs, i), fs[i + 1]), <<>>, <<>>)
      BY <3>4, <3>5, <3>6, <3>7, CollectFlow
    <3>9. Append(Firsts(fs, i), fs[i + 1]) = Firsts(fs, i + 1)
      BY <3>1, FirstsAppend
    <3> QED
      BY <3>1, <3>3, <3>4, <3>8, <3>9
  <2>6. \A i \in 0 .. m : i \in Done
    <3> HIDE DEF Done
    <3> QED
      BY <2>4, <2>5, UpTo
  <2>7. c[k] = Replayed(ss, fs, <<>>, <<>>)
    <3>1. m \in Done /\ Firsts(fs, m) = fs /\ m + (n + 2) = k
      BY <1>2, <1>3, <2>6, FirstsAll
    <3> QED
      BY <3>1
  <2> HIDE DEF Good, Done
  <2>8. c[k].ok /\ Len(c[k].state.sources) = n /\ Len(c[k].state.flows) = m
    BY <1>1, <1>2, <2>7, ReplayedFields
  <2>9. DigestHolds(g)
    BY <1>5 DEF DigestHolds
  <2>10. DecodeState(g) = c[k]
    BY <1>5, <1>6, <2>8, <2>9
  <2> QED
    BY <1>1, <1>2, <1>11, <2>7, <2>10
<1>12. CASE ~ /\ \A i \in 1 .. n : KeyBytes[ss[i].key] <= MaxKeyBytes
              /\ \A i \in 1 .. m : ReadableFlow(fs[i])
  <2>1. \E j \in 1 .. k : c[j] = Refusal
    <3>1. ASSUME NEW i \in 1 .. n, ~(KeyBytes[ss[i].key] <= MaxKeyBytes)
          PROVE  \E j \in 1 .. k : c[j] = Refusal
      <4>1. i + 2 \in 2 .. k /\ i + 2 \in 1 .. k
        BY <1>3
      <4>2. PICK r : r = c[(i + 2) - 1]
        OBVIOUS
      <4>3. PICK record : /\ record = g[i + 2]
                          /\ record = Record("SourceDescriptor", WriteDescriptor(ss[i]))
        BY <1>4
      <4>4. Collect(r, record) = Refusal
        BY <1>8, <3>1, <4>3, CollectDescriptor
      <4>5. c[i + 2] = Refusal
        BY <1>6, <4>1, <4>2, <4>3, <4>4 DEF Collects
      <4> QED
        BY <4>1, <4>5
    <3>2. ASSUME NEW i \in 1 .. m, ~ReadableFlow(fs[i])
          PROVE  \E j \in 1 .. k : c[j] = Refusal
      <4>1. i + (n + 2) \in 2 .. k /\ i + (n + 2) \in 1 .. k
        BY <1>3
      <4>2. PICK r : r = c[(i + (n + 2)) - 1]
        OBVIOUS
      <4>3. PICK record : /\ record = g[i + (n + 2)]
                          /\ record = Record("Flow", WriteFlow(fs[i]))
        BY <1>4
      <4>4. Collect(r, record) = Refusal
        BY <1>9, <3>2, <4>3, CollectFlow
      <4>5. c[i + (n + 2)] = Refusal
        BY <1>6, <4>1, <4>2, <4>3, <4>4 DEF Collects
      <4> QED
        BY <4>1, <4>5
    <3> QED
      BY <1>12, <3>1, <3>2
  <2>2. c[k] = Refusal
    BY <1>6, <2>1, RefusalStays
  <2>3. DecodeState(g) = Refusal
    BY <1>6, <2>2, ReplayedFields
  <2> QED
    BY <1>1, <1>2, <1>12, <2>3
<1> QED
  BY <1>11, <1>12

-----------------------------------------------------------------------------
(* The replay of a record sequence.                                        *)

\* The replay of the first n records, one after the other.
Replays(records, n, r) ==
  r[0] = Start /\ \A i \in 1 .. n : r[i] = ReplayOne(r[i - 1], records[i])

LEMMA ReplayIs ==
  ASSUME NEW records, NEW n \in Nat, Len(records) = n
  PROVE  \E r : Replays(records, n, r) /\ ReplayUpTo(records) = r[n]
<1> DEFINE Is(h, k) == h = [i \in 0 .. k |-> IF i = 0 THEN Start ELSE ReplayOne(h[i - 1], records[i])]
           Good == {k \in 0 .. n : \E h : Is(h, k)}
<1>1. 0 \in Good
  <2> DEFINE h == [i \in 0 .. 0 |-> Start]
  <2>1. Is(h, 0)
    OBVIOUS
  <2>2. 0 \in 0 .. n
    OBVIOUS
  <2> HIDE DEF h, Is
  <2> QED
    BY <2>1, <2>2
<1>2. ASSUME NEW k \in 0 .. n, k # n, k \in Good PROVE k + 1 \in Good
  <2>1. PICK b : Is(b, k)
    BY <1>2
  <2> DEFINE h == [i \in 0 .. k + 1 |-> IF i = k + 1 THEN ReplayOne(b[k], records[i]) ELSE b[i]]
  <2>2. k + 1 \in 0 .. n /\ \A i \in 0 .. k + 1 : i = k + 1 \/ i \in 0 .. k
    BY <1>2
  <2>3. ASSUME NEW i \in 0 .. k + 1
        PROVE  h[i] = IF i = 0 THEN Start ELSE ReplayOne(h[i - 1], records[i])
    <3>1. CASE i = k + 1
      <4>1. i # 0 /\ i - 1 = k /\ k \in 0 .. k + 1 /\ k # k + 1
        BY <3>1
      <4> QED
        BY <4>1, <3>1
    <3>2. CASE i \in 0 .. k
      <4>1. i # k + 1 /\ (i # 0 => i - 1 \in 0 .. k + 1 /\ i - 1 # k + 1)
        BY <3>2
      <4>2. b[i] = IF i = 0 THEN Start ELSE ReplayOne(b[i - 1], records[i])
        BY <2>1, <3>2
      <4> QED
        BY <4>1, <4>2
    <3> QED
      BY <2>2, <3>1, <3>2
  <2>4. Is(h, k + 1)
    BY <2>3
  <2> HIDE DEF h, Is
  <2> QED
    BY <2>2, <2>4
<1> HIDE DEF Good
<1>3. \A k \in 0 .. n : k \in Good
  BY <1>1, <1>2, UpTo
<1>4. \E h : Is(h, n)
  BY <1>3 DEF Good
<1> DEFINE r == CHOOSE h : Is(h, n)
<1>5. Is(r, n)
  BY <1>4
<1>6. ReplayUpTo(records) = r[n]
  BY ZenonT(30) DEF ReplayUpTo, Start
<1> HIDE DEF r
<1>7. Replays(records, n, r)
  <2>1. 0 \in 0 .. n /\ \A i \in 1 .. n : i \in 0 .. n /\ i # 0
    OBVIOUS
  <2> QED
    BY <1>5, <2>1 DEF Replays
<1> QED
  BY <1>6, <1>7

\* What one record makes of an open group.
LEMMA InGroup ==
  ASSUME NEW r, NEW record, r.ok, r.group # <<>>
  PROVE  /\ record.kind = "SnapshotBegin" => ReplayOne(r, record) = Refusal
         /\ record.kind = "SnapshotEnd" => ReplayOne(r, record) = DecodeState(Append(r.group, record))
         /\ record.kind \notin {"SnapshotBegin", "SnapshotEnd"} =>
              ReplayOne(r, record) = Replayed(r.state.sources, r.state.flows, r.observations,
                                              Append(r.group, record))
  BY DEF ReplayOne, ReplayInGroup

\* A record outside a group opens one, is refused or leaves it at that.
LEMMA Alone ==
  ASSUME NEW r, NEW record, r.ok, r.group = <<>>
  PROVE  /\ record.kind = "SnapshotBegin" =>
              ReplayOne(r, record) = Replayed(r.state.sources, r.state.flows, r.observations, <<record>>)
         /\ record.kind = "SnapshotEnd" => ReplayOne(r, record) = Refusal
         /\ record.kind \notin {"SnapshotBegin", "SnapshotEnd"} =>
              ~ReplayOne(r, record).ok \/ ReplayOne(r, record).group = <<>>
<1>1. ReplayOne(r, record) = ReplayAlone(r, record)
  BY DEF ReplayOne
<1>2. ASSUME record.kind \notin {"SnapshotBegin", "SnapshotEnd"}
      PROVE  ~ReplayAlone(r, record).ok \/ ReplayAlone(r, record).group = <<>>
  <2>1. \/ ReplayAlone(r, record) = Refusal \/ ReplayAlone(r, record) = r
        \/ \E ss, fs, os : ReplayAlone(r, record) = Replayed(ss, fs, os, <<>>)
    BY <1>2 DEF ReplayAlone
  <2> QED
    BY <2>1, ReplayedFields
<1>3. record.kind = "SnapshotBegin" =>
        ReplayAlone(r, record) = Replayed(r.state.sources, r.state.flows, r.observations, <<record>>)
  BY DEF ReplayAlone
<1>4. record.kind = "SnapshotEnd" => ReplayAlone(r, record) = Refusal
  BY DEF ReplayAlone
<1> QED
  BY <1>1, <1>2, <1>3, <1>4

LEMMA OkBefore ==
  ASSUME NEW r, NEW record, ReplayOne(r, record).ok PROVE r.ok
  BY ReplayedFields DEF ReplayOne

\* A replay that is refused stays refused.
LEMMA OkUpTo ==
  ASSUME NEW records, NEW n \in Nat, NEW r, Replays(records, n, r), r[n].ok
  PROVE  \A i \in 0 .. n : r[i].ok
<1> DEFINE Wrong == {i \in 0 .. n : ~r[i].ok}
<1> SUFFICES ASSUME Wrong # {} PROVE FALSE
  OBVIOUS
<1>1. Wrong \in SUBSET Nat /\ IsFiniteSet(Wrong)
  <2>1. IsFiniteSet(0 .. n) /\ Wrong \in SUBSET (0 .. n) /\ 0 .. n \subseteq Nat
    BY FS_Interval
  <2> HIDE DEF Wrong
  <2>2. IsFiniteSet(Wrong)
    BY <2>1, FS_Subset
  <2> QED
    BY <2>1, <2>2
<1>2. PICK k \in Wrong : \A j \in Wrong : j <= k
  <2> HIDE DEF Wrong
  <2> QED
    BY <1>1, GreatestNumber
<1>3. k \in 0 .. n /\ k # n /\ ~r[k].ok
  OBVIOUS
<1>4. k + 1 \in 1 .. n /\ (k + 1) - 1 = k /\ k + 1 \in 0 .. n /\ ~(k + 1 <= k)
  BY <1>3
<1>5. r[k + 1].ok
  BY <1>2, <1>4
<1>6. r[k + 1] = ReplayOne(r[k], records[k + 1])
  BY <1>4 DEF Replays
<1> QED
  BY <1>3, <1>5, <1>6, OkBefore

LEMMA Single ==
  ASSUME NEW V, NEW s \in Seq(V), Len(s) = 1
  PROVE  s = <<s[1]>>
  OBVIOUS

LEMMA SubSeqAppend ==
  ASSUME NEW V, NEW s \in Seq(V), NEW b \in 1 .. Len(s), NEW i \in b .. Len(s) - 1
  PROVE  /\ SubSeq(s, b, i) \in Seq(V) /\ Len(SubSeq(s, b, i)) = (i - b) + 1
         /\ Append(SubSeq(s, b, i), s[i + 1]) = SubSeq(s, b, i + 1)
         /\ SubSeq(s, b, i) # <<>>
<1>1. b \in 1 .. Len(s) + 1 /\ i \in 0 .. Len(s) /\ i + 1 \in 0 .. Len(s) /\ b <= i /\ b <= i + 1
      /\ i - b + 1 = (i - b) + 1 /\ i + 1 - b + 1 = (i - b) + 2 /\ (i - b) + 1 \in Nat
      /\ i + 1 \in 1 .. Len(s)
  OBVIOUS
<1>2. PICK x : x = SubSeq(s, b, i)
  OBVIOUS
<1>3. PICK y : y = SubSeq(s, b, i + 1)
  OBVIOUS
<1>4. /\ x \in Seq(V) /\ Len(x) = (i - b) + 1 /\ \A k \in 1 .. (i - b) + 1 : x[k] = s[b + k - 1]
  BY <1>1, <1>2
<1>5. /\ y \in Seq(V) /\ Len(y) = (i - b) + 2 /\ \A k \in 1 .. (i - b) + 2 : y[k] = s[b + k - 1]
  BY <1>1, <1>3
<1>6. s[i + 1] \in V /\ x # <<>>
  BY <1>1, <1>4
<1>7. PICK z : z = Append(x, s[i + 1])
  OBVIOUS
<1>8. /\ z \in Seq(V) /\ Len(z) = (i - b) + 2 /\ z[(i - b) + 2] = s[i + 1]
      /\ \A k \in 1 .. (i - b) + 1 : z[k] = x[k]
  <2>1. /\ z \in Seq(V) /\ Len(z) = Len(x) + 1 /\ z[Len(x) + 1] = s[i + 1]
        /\ \A k \in 1 .. Len(x) : z[k] = x[k]
    BY <1>4, <1>6, <1>7, AppendIs
  <2>2. ((i - b) + 1) + 1 = (i - b) + 2
    BY <1>1
  <2> QED
    BY <1>4, <2>1, <2>2
<1>9. \A k \in 1 .. (i - b) + 2 : z[k] = y[k]
  <2>1. ASSUME NEW k \in 1 .. (i - b) + 2 PROVE z[k] = y[k]
    <3>1. CASE k = (i - b) + 2
      <4>1. b + k - 1 = i + 1
        BY <3>1
      <4> QED
        BY <1>5, <1>8, <3>1, <4>1
    <3>2. CASE k \in 1 .. (i - b) + 1
      BY <1>4, <1>5, <1>8, <3>2
    <3> QED
      BY <3>1, <3>2
  <2> QED
    BY <2>1
<1>10. z = y
  BY ONLY <1>5, <1>8, <1>9, SeqEqual
<1> QED
  BY <1>2, <1>3, <1>4, <1>6, <1>7, <1>10

\* What a group must be to be taken.
LEMMA DecodedIs ==
  ASSUME NEW g, NEW n \in Nat, n >= 1, Len(g) - 1 = n, DecodeState(g).ok
  PROVE  DigestHolds(g) /\ DecodeState(g).group = <<>> /\ DecodeState(g).observations = <<>>
<1>1. PICK c : /\ Collects(g, n, c)
               /\ DecodeState(g) =
                    IF /\ DigestHolds(g) /\ c[n].ok
                       /\ Len(c[n].state.sources) = g[Len(g)].payload[2]
                       /\ Len(c[n].state.flows) = g[Len(g)].payload[3]
                    THEN c[n] ELSE Refusal
  BY DecodeIs
<1> DEFINE Good == {i \in 1 .. n : c[i].group = <<>> /\ c[i].observations = <<>>}
<1>2. 1 \in Good
  BY <1>1, ReplayedFields DEF Collects, Start
<1>3. ASSUME NEW i \in 1 .. n, i # n, i \in Good PROVE i + 1 \in Good
  <2>1. i + 1 \in 2 .. n /\ (i + 1) - 1 = i /\ i + 1 \in 1 .. n
    BY <1>3
  <2>2. c[i + 1] = Collect(c[i], g[i + 1])
    BY <1>1, <2>1 DEF Collects
  <2>3. \/ c[i + 1] = c[i] \/ c[i + 1] = Refusal
        \/ \E ss, fs : c[i + 1] = Replayed(ss, fs, <<>>, <<>>)
    BY <2>2 DEF Collect
  <2>4. c[i + 1].group = <<>> /\ c[i + 1].observations = <<>>
    BY <1>3, <2>3, ReplayedFields DEF Refusal
  <2> QED
    BY <2>1, <2>4
<1> HIDE DEF Good
<1>4. \A i \in 1 .. n : i \in Good
  BY <1>2, <1>3, UpTo
<1>5. c[n].group = <<>> /\ c[n].observations = <<>>
  BY <1>4 DEF Good
<1>6. DigestHolds(g) /\ DecodeState(g) = c[n]
  BY <1>1, ReplayedFields
<1> QED
  BY <1>5, <1>6

\* A group was opened at b and is still open at i.
Opened(records, b, i) ==
  /\ b \in 1 .. i /\ records[b].kind = "SnapshotBegin"
  /\ \A j \in b + 1 .. i : records[j].kind \notin {"SnapshotBegin", "SnapshotEnd"}

\* An open group holds the records from its begin on.
LEMMA OpenGroup ==
  ASSUME NEW V, NEW records \in Seq(V), NEW n \in Nat, n = Len(records),
         NEW r, Replays(records, n, r), NEW i \in 0 .. n, r[i].ok, r[i].group # <<>>
  PROVE  \E b \in 1 .. i : Opened(records, b, i) /\ r[i].group = SubSeq(records, b, i)
<1> DEFINE Good == {k \in 0 .. n : r[k].ok /\ r[k].group # <<>> =>
                      \E b \in 1 .. k : Opened(records, b, k) /\ r[k].group = SubSeq(records, b, k)}
<1>1. 0 \in Good
  BY ReplayedFields DEF Replays, Start
<1>2. ASSUME NEW k \in 0 .. n, k # n, k \in Good PROVE k + 1 \in Good
  <2>1. k + 1 \in 1 .. n /\ (k + 1) - 1 = k /\ k + 1 \in 0 .. n /\ k + 1 \in 1 .. k + 1
    BY <1>2
  <2> SUFFICES ASSUME r[k + 1].ok, r[k + 1].group # <<>>
               PROVE  \E b \in 1 .. k + 1 : /\ Opened(records, b, k + 1)
                                            /\ r[k + 1].group = SubSeq(records, b, k + 1)
    BY <2>1
  <2>2. PICK x : x = records[k + 1]
    OBVIOUS
  <2>0. PICK q : q = r[k]
    OBVIOUS
  <2>7. PICK p : p = r[k + 1]
    OBVIOUS
  <2>3. p = ReplayOne(q, x)
    BY <2>0, <2>1, <2>2, <2>7 DEF Replays
  <2>8. p.ok /\ p.group # <<>>
    BY <2>7
  <2>4. q.ok
    BY <2>3, <2>8, OkBefore
  <2>5. CASE q.group = <<>>
    <3>1. x.kind = "SnapshotBegin" /\ p.group = <<x>>
      <4>1. x.kind = "SnapshotBegin"
        BY <2>3, <2>4, <2>5, <2>8, Alone, ReplayedFields
      <4>2. ReplayOne(q, x) =
              Replayed(q.state.sources, q.state.flows, q.observations, <<x>>)
        BY <2>4, <2>5, <4>1, Alone
      <4> QED
        BY <2>3, <4>1, <4>2, ReplayedFields
    <3>2. SubSeq(records, k + 1, k + 1) = <<x>>
      <4>1. k + 1 \in 1 .. Len(records) /\ k + 1 \in k + 1 .. Len(records)
        BY <2>1
      <4>2. PICK a \in 1 .. Len(records) : a = k + 1
        BY <4>1
      <4>3. SubSeq(records, a, a) = <<records[a]>>
        <5>1. /\ SubSeq(records, a, a) \in Seq(V) /\ Len(SubSeq(records, a, a)) = 1
              /\ SubSeq(records, a, a)[1] = records[a]
          OBVIOUS
        <5> QED
          BY <5>1, Single
      <4> QED
        BY <2>2, <4>2, <4>3
    <3>3. Opened(records, k + 1, k + 1)
      BY <2>1, <2>2, <3>1 DEF Opened
    <3> QED
      BY <2>1, <2>7, <3>1, <3>2, <3>3
  <2>6. CASE q.group # <<>>
    <3>1. PICK b \in 1 .. k : Opened(records, b, k) /\ q.group = SubSeq(records, b, k)
      BY <1>2, <2>0, <2>4, <2>6
    <3>2. b \in 1 .. Len(records) /\ k \in b .. Len(records) - 1 /\ b \in 1 .. k + 1
      BY <2>1, <3>1
    <3>3. PICK group \in Seq(V) : group = q.group /\ Len(group) >= 1
      <4>1. SubSeq(records, b, k) \in Seq(V) /\ Len(SubSeq(records, b, k)) = (k - b) + 1
        BY <3>2, SubSeqAppend
      <4>2. (k - b) + 1 >= 1
        BY <3>2
      <4> QED
        BY <3>1, <4>1, <4>2
    <3>4. x.kind \notin {"SnapshotBegin", "SnapshotEnd"}
      <4>1. ASSUME x.kind = "SnapshotBegin" PROVE FALSE
        <5>1. p = Refusal
          BY <2>3, <2>4, <2>6, <4>1, InGroup
        <5> QED
          BY ONLY <2>8, <5>1, ReplayedFields
      <4>2. ASSUME x.kind = "SnapshotEnd" PROVE FALSE
        <5>1. p = DecodeState(Append(group, x))
          BY <2>3, <2>4, <2>6, <3>3, <4>2, InGroup
        <5>2. Len(Append(group, x)) - 1 = Len(group) /\ Len(group) \in Nat
          BY <3>3
        <5> QED
          BY <2>8, <3>3, <5>1, <5>2, DecodedIs
      <4> QED
        BY <4>1, <4>2
    <3>5. p.group = Append(q.group, x)
      <4>1. ReplayOne(q, x) = Replayed(q.state.sources, q.state.flows, q.observations,
                                          Append(q.group, x))
        BY <2>4, <2>6, <3>4, InGroup
      <4>2. PICK more : more = Append(q.group, x)
        OBVIOUS
      <4>3. p = Replayed(q.state.sources, q.state.flows, q.observations, more)
        BY <2>3, <4>1, <4>2
      <4>4. p.group = more
        BY <4>3, ReplayedFields
      <4> QED
        BY <4>2, <4>4
    <3>6. Append(SubSeq(records, b, k), records[k + 1]) = SubSeq(records, b, k + 1)
      BY <3>2, SubSeqAppend
    <3>7. Opened(records, b, k + 1)
      <4>1. \A j \in b + 1 .. k + 1 : j = k + 1 \/ j \in b + 1 .. k
        BY <2>1, <3>2
      <4> QED
        BY <2>2, <3>1, <3>2, <3>4, <4>1 DEF Opened
    <3> QED
      BY <2>2, <2>7, <3>1, <3>2, <3>5, <3>6, <3>7
  <2> QED
    BY <2>5, <2>6
<1> HIDE DEF Good
<1>3. \A k \in 0 .. n : k \in Good
  BY <1>1, <1>2, UpTo
<1> QED
  BY <1>3 DEF Good

LEMMA DigestIs ==
  ASSUME NEW V, NEW s \in Seq(V)
  PROVE  /\ Len(Digest(s)) = Len(s) /\ \A i \in 1 .. Len(s) : Digest(s)[i] = s[i].payload
  BY DEF Digest

\* Where a group ends, and the replay goes on, the digest is that of the
\* records since its begin.
LEMMA GroupEnds ==
  ASSUME NEW V, NEW records \in Seq(V), NEW n \in Nat, n = Len(records),
         NEW r, Replays(records, n, r), NEW j \in 1 .. n, r[j].ok,
         records[j].kind = "SnapshotEnd"
  PROVE  \E b \in 1 .. j - 1 : /\ Opened(records, b, j - 1)
                               /\ records[j].payload[1] = Digest(SubSeq(records, b, j - 1))
<1>1. PICK k \in 0 .. n : k = j - 1 /\ k + 1 = j /\ k # n
  OBVIOUS
<1>2. PICK x : x = records[j]
  OBVIOUS
<1>3. PICK q : q = r[k]
  OBVIOUS
<1>4. PICK p : p = r[j] /\ p.ok
  OBVIOUS
<1>5. p = ReplayOne(q, x) /\ x.kind = "SnapshotEnd"
  BY <1>1, <1>2, <1>3, <1>4 DEF Replays
<1>6. q.ok
  BY <1>4, <1>5, OkBefore
<1>7. q.group # <<>>
  <2> SUFFICES ASSUME q.group = <<>> PROVE FALSE
    OBVIOUS
  <2>1. p = Refusal
    BY <1>5, <1>6, Alone
  <2> QED
    BY <1>4, <2>1, ReplayedFields
<1>8. PICK b \in 1 .. k : Opened(records, b, k) /\ q.group = SubSeq(records, b, k)
  BY <1>3, <1>6, <1>7, OpenGroup
<1>9. PICK a \in Seq(V) : a = q.group /\ a = SubSeq(records, b, k) /\ Len(a) = (k - b) + 1
  <2>1. b \in 1 .. Len(records) /\ k \in b .. Len(records) - 1
    BY <1>1, <1>8
  <2>2. SubSeq(records, b, k) \in Seq(V) /\ Len(SubSeq(records, b, k)) = (k - b) + 1
    BY <2>1, SubSeqAppend
  <2> QED
    BY <1>8, <2>2
<1>10. x \in V
  BY <1>2
<1>17. PICK h : h = Append(a, x)
  OBVIOUS
<1>11. /\ h \in Seq(V) /\ Len(h) = Len(a) + 1 /\ h[Len(a) + 1] = x
       /\ \A i \in 1 .. Len(a) : h[i] = a[i]
  BY <1>10, <1>17, AppendIs
<1>12. SubSeq(h, 1, Len(a)) = a
  <2>1. SubSeq(h, 1, Len(a)) = [i \in 1 .. Len(a) |-> h[i]]
    BY <1>9, <1>11
  <2>2. a = [i \in 1 .. Len(a) |-> a[i]]
    BY <1>9
  <2> QED
    BY <1>11, <2>1, <2>2
<1>13. p = DecodeState(h)
  <2>1. ReplayOne(q, x) = DecodeState(Append(q.group, x))
    BY <1>5, <1>6, <1>7, InGroup
  <2> QED
    BY <1>5, <1>9, <1>17, <2>1
<1>14. Len(a) \in Nat /\ Len(a) >= 1 /\ Len(h) - 1 = Len(a)
  BY <1>1, <1>8, <1>9, <1>11
<1>15. DigestHolds(h)
  BY <1>4, <1>13, <1>14, DecodedIs
<1>16. x.payload[1] = Digest(a)
  BY <1>11, <1>12, <1>14, <1>15 DEF DigestHolds
<1> QED
  BY <1>1, <1>2, <1>8, <1>9, <1>16

\* A begin is refused while a group is open and opens one otherwise.
LEMMA BeginOpens ==
  ASSUME NEW records, NEW n \in Nat, NEW r, Replays(records, n, r), NEW b \in 1 .. n,
         r[b].ok, records[b].kind = "SnapshotBegin"
  PROVE  r[b - 1].group = <<>> /\ r[b].group # <<>>
<1>1. PICK x : x = records[b]
  OBVIOUS
<1>2. PICK q : q = r[b - 1]
  OBVIOUS
<1>3. PICK p : p = r[b] /\ p.ok
  OBVIOUS
<1>4. p = ReplayOne(q, x) /\ x.kind = "SnapshotBegin"
  BY <1>1, <1>2, <1>3 DEF Replays
<1>5. q.ok
  BY <1>3, <1>4, OkBefore
<1>6. q.group = <<>>
  BY <1>3, <1>4, <1>5, InGroup, ReplayedFields
<1>7. p = Replayed(q.state.sources, q.state.flows, q.observations, <<x>>)
  BY <1>4, <1>5, <1>6, Alone
<1>8. p.group = <<x>> /\ <<x>> # <<>>
  BY <1>7, ReplayedFields
<1> QED
  BY <1>2, <1>3, <1>6, <1>8

\* A group without an end is never closed.
LEMMA StaysOpen ==
  ASSUME NEW V, NEW records \in Seq(V), NEW n \in Nat, n = Len(records),
         NEW r, Replays(records, n, r), NEW b \in 1 .. n, records[b].kind = "SnapshotBegin",
         \A j \in b + 1 .. n : records[j].kind # "SnapshotEnd"
  PROVE  ~Closed(r[n]).ok
<1> SUFFICES ASSUME r[n].ok PROVE r[n].group # <<>>
  BY ReplayedFields DEF Closed
<1>1. \A i \in 0 .. n : r[i].ok
  BY OkUpTo
<1> DEFINE Good == {i \in b .. n : r[i].group # <<>>}
<1>2. b \in Good
  BY <1>1, BeginOpens
<1>3. ASSUME NEW i \in b .. n, i # n, i \in Good PROVE i + 1 \in Good
  <2>1. i \in 0 .. n /\ i + 1 \in b + 1 .. n /\ i + 1 \in 1 .. n /\ (i + 1) - 1 = i /\ i + 1 \in 0 .. n
    BY <1>3
  <2>2. PICK x : x = records[i + 1]
    OBVIOUS
  <2>3. PICK q : q = r[i]
    OBVIOUS
  <2>4. PICK p : p = r[i + 1]
    OBVIOUS
  <2>5. p = ReplayOne(q, x) /\ x.kind # "SnapshotEnd" /\ p.ok /\ q.ok /\ q.group # <<>>
    BY <1>1, <1>3, <2>1, <2>2, <2>3, <2>4 DEF Replays
  <2>6. x.kind # "SnapshotBegin"
    BY <2>5, InGroup, ReplayedFields
  <2>7. PICK more : more = Append(q.group, x)
    OBVIOUS
  <2>8. p = Replayed(q.state.sources, q.state.flows, q.observations, more)
    BY <2>5, <2>6, <2>7, InGroup
  <2>9. p.group = more
    BY <2>8, ReplayedFields
  <2>10. more # <<>>
    <3>1. PICK c \in 1 .. i : q.group = SubSeq(records, c, i)
      BY <2>1, <2>3, <2>5, OpenGroup
    <3>2. c \in 1 .. Len(records) /\ i \in c .. Len(records) - 1
      BY <1>3, <2>1, <3>1
    <3>3. PICK a \in Seq(V) : a = q.group
      BY <3>1, <3>2, SubSeqAppend
    <3>4. x \in V
      BY <2>1, <2>2
    <3>5. Len(Append(a, x)) = Len(a) + 1 /\ Len(a) \in Nat
      BY <3>3, <3>4, AppendIs
    <3> QED
      BY <2>7, <3>3, <3>5
  <2> QED
    BY <2>1, <2>4, <2>9, <2>10
<1> HIDE DEF Good
<1>4. b \in Nat /\ n \in b .. n
  OBVIOUS
<1>5. \A i \in b .. n : i \in Good
  BY <1>2, <1>3, <1>4, UpTo
<1> QED
  BY <1>4, <1>5 DEF Good

-----------------------------------------------------------------------------
(* What becomes of a group that is damaged.                                *)

\* A group has one begin, at the front, and one end, behind the rest, which
\* are records that differ if and only if their payloads do.
GroupShape(g, n) ==
  /\ n \in Nat /\ n >= 3 /\ Len(g) = n
  /\ g[1].kind = "SnapshotBegin" /\ g[n].kind = "SnapshotEnd"
  /\ \A i \in 2 .. n - 1 : g[i].kind \notin {"SnapshotBegin", "SnapshotEnd"}
  /\ g[n].payload[1] = Digest(SubSeq(g, 1, n - 1))
  /\ \A i, j \in 2 .. n - 1 : g[i].payload = g[j].payload => g[i] = g[j]

\* f is g after the damage, of m records, and where each comes from.
Taken(f, m, g, from) ==
  /\ m \in Nat /\ Len(f) = m /\ from \in [1 .. m -> 1 .. Len(g)]
  /\ \A k \in 1 .. m : f[k] = g[from[k]]

LEMMA RecordLost ==
  ASSUME NEW V, NEW g \in Seq(V), NEW n \in Nat, n = Len(g), NEW i \in 1 .. n,
         NEW f, f = SubSeq(g, 1, i - 1) \o SubSeq(g, i + 1, n)
  PROVE  /\ f \in Seq(V)
         /\ Taken(f, n - 1, g, [k \in 1 .. n - 1 |-> IF k < i THEN k ELSE k + 1])
<1>1. PICK a : a = SubSeq(g, 1, i - 1)
  OBVIOUS
<1>2. PICK b : b = SubSeq(g, i + 1, n)
  OBVIOUS
<1>3. a \in Seq(V) /\ Len(a) = i - 1 /\ \A k \in 1 .. i - 1 : a[k] = g[k]
  BY <1>1
<1>4. b \in Seq(V) /\ Len(b) = n - i /\ \A k \in 1 .. n - i : b[k] = g[i + k]
  BY <1>2
<1>5. /\ f \in Seq(V) /\ Len(f) = Len(a) + Len(b)
      /\ \A k \in 1 .. Len(a) : f[k] = a[k]
      /\ \A k \in 1 .. Len(b) : f[k + Len(a)] = b[k]
  <2>1. a \in Seq(V)
    BY <1>3
  <2>2. b \in Seq(V)
    BY <1>4
  <2>3. f = a \o b
    BY <1>1, <1>2
  <2> QED
    BY ONLY <2>1, <2>2, <2>3, ConcatIs
<1>6. Len(f) = n - 1 /\ n - 1 \in Nat
  <2>1. (i - 1) + (n - i) = n - 1 /\ n - 1 \in Nat
    OBVIOUS
  <2> QED
    BY <1>3, <1>4, <1>5, <2>1
<1> DEFINE from == [k \in 1 .. n - 1 |-> IF k < i THEN k ELSE k + 1]
<1>7. from \in [1 .. n - 1 -> 1 .. Len(g)]
  OBVIOUS
<1>8. ASSUME NEW k \in 1 .. n - 1 PROVE f[k] = g[from[k]]
  <2>1. CASE k < i
    <3>1. k \in 1 .. Len(a)
      BY <1>3, <2>1
    <3> QED
      BY <1>3, <1>5, <2>1, <3>1
  <2>2. CASE ~(k < i)
    <3>1. PICK j \in 1 .. n - i : k = j + (i - 1) /\ i + j = k + 1
      <4>1. k - (i - 1) \in 1 .. n - i /\ k = (k - (i - 1)) + (i - 1) /\ i + (k - (i - 1)) = k + 1
        BY <2>2
      <4> QED
        BY <4>1
    <3>2. f[k] = b[j]
      BY <1>3, <1>4, <1>5, <3>1
    <3> QED
      BY <1>4, <2>2, <3>1, <3>2
  <2> QED
    BY <2>1, <2>2
<1> QED
  BY <1>5, <1>6, <1>7, <1>8 DEF Taken

LEMMA RecordRepeated ==
  ASSUME NEW V, NEW g \in Seq(V), NEW n \in Nat, n = Len(g), NEW i \in 1 .. n,
         NEW f, f = SubSeq(g, 1, i) \o SubSeq(g, i, n)
  PROVE  /\ f \in Seq(V)
         /\ Taken(f, n + 1, g, [k \in 1 .. n + 1 |-> IF k <= i THEN k ELSE k - 1])
<1>1. PICK a : a = SubSeq(g, 1, i)
  OBVIOUS
<1>2. PICK b : b = SubSeq(g, i, n)
  OBVIOUS
<1>3. a \in Seq(V) /\ Len(a) = i /\ \A k \in 1 .. i : a[k] = g[k]
  BY <1>1
<1>4. b \in Seq(V) /\ Len(b) = (n - i) + 1 /\ \A k \in 1 .. (n - i) + 1 : b[k] = g[(i + k) - 1]
  BY <1>2
<1>5. /\ f \in Seq(V) /\ Len(f) = Len(a) + Len(b)
      /\ \A k \in 1 .. Len(a) : f[k] = a[k]
      /\ \A k \in 1 .. Len(b) : f[k + Len(a)] = b[k]
  <2>1. a \in Seq(V)
    BY <1>3
  <2>2. b \in Seq(V)
    BY <1>4
  <2>3. f = a \o b
    BY <1>1, <1>2
  <2> QED
    BY ONLY <2>1, <2>2, <2>3, ConcatIs
<1>6. Len(f) = n + 1 /\ n + 1 \in Nat
  <2>1. i + ((n - i) + 1) = n + 1 /\ n + 1 \in Nat
    OBVIOUS
  <2> QED
    BY <1>3, <1>4, <1>5, <2>1
<1> DEFINE from == [k \in 1 .. n + 1 |-> IF k <= i THEN k ELSE k - 1]
<1>7. from \in [1 .. n + 1 -> 1 .. Len(g)]
  OBVIOUS
<1>8. ASSUME NEW k \in 1 .. n + 1 PROVE f[k] = g[from[k]]
  <2>1. CASE k <= i
    <3>1. k \in 1 .. Len(a)
      BY <1>3, <2>1
    <3> QED
      BY <1>3, <1>5, <2>1, <3>1
  <2>2. CASE ~(k <= i)
    <3>1. PICK j \in 1 .. (n - i) + 1 : k = j + i /\ (i + j) - 1 = k - 1
      <4>1. k - i \in 1 .. (n - i) + 1 /\ k = (k - i) + i /\ (i + (k - i)) - 1 = k - 1
        BY <2>2
      <4> QED
        BY <4>1
    <3>2. f[k] = b[j]
      BY <1>3, <1>4, <1>5, <3>1
    <3> QED
      BY <1>4, <2>2, <3>1, <3>2
  <2> QED
    BY <2>1, <2>2
<1> QED
  BY <1>5, <1>6, <1>7, <1>8 DEF Taken

LEMMA RecordsExchanged ==
  ASSUME NEW V, NEW g \in Seq(V), NEW n \in Nat, n = Len(g), NEW i \in 1 .. n - 1,
         NEW f, f = [g EXCEPT ![i] = g[i + 1], ![i + 1] = g[i]],
         NEW from,
         from = [k \in 1 .. n |-> IF k = i THEN i + 1 ELSE IF k = i + 1 THEN i ELSE k]
  PROVE  f \in Seq(V) /\ Taken(f, n, g, from)
<1>1. i \in 1 .. n /\ i + 1 \in 1 .. n /\ i # i + 1 /\ g \in [1 .. n -> V]
  OBVIOUS
<1>2. f \in [1 .. n -> V]
  BY <1>1
<1>3. f \in Seq(V) /\ Len(f) = n
  BY <1>2
<1>4. f[i] = g[i + 1] /\ f[i + 1] = g[i] /\ \A k \in 1 .. n : k # i /\ k # i + 1 => f[k] = g[k]
  BY <1>1
<1>5. from \in [1 .. n -> 1 .. Len(g)]
  BY <1>1
<1>6. ASSUME NEW k \in 1 .. n PROVE f[k] = g[from[k]]
  BY <1>1, <1>4
<1> QED
  BY <1>3, <1>5, <1>6 DEF Taken

LEMMA EndLost ==
  ASSUME NEW V, NEW g \in Seq(V), NEW n \in Nat, n = Len(g), NEW i \in 1 .. n,
         NEW f, f = SubSeq(g, 1, i - 1)
  PROVE  f \in Seq(V) /\ Taken(f, i - 1, g, [k \in 1 .. i - 1 |-> k])
<1>1. f \in Seq(V) /\ Len(f) = i - 1 /\ \A k \in 1 .. i - 1 : f[k] = g[k]
  OBVIOUS
<1>2. i - 1 \in Nat /\ [k \in 1 .. i - 1 |-> k] \in [1 .. i - 1 -> 1 .. Len(g)]
  OBVIOUS
<1> QED
  BY <1>1, <1>2 DEF Taken

\* The end of the group stands at e behind as many records as it did, and they
\* have the payloads they had.
MeetsItsGroup(f, e, g, n) ==
  \E b \in 1 .. e - 1 :
    /\ f[b].kind = "SnapshotBegin" /\ e - b = n - 1
    /\ \A k \in 1 .. n - 1 : f[(b + k) - 1].payload = g[k].payload

\* So it is in every replay that is not refused.
LEMMA EndMeetsItsGroup ==
  ASSUME NEW V, NEW g \in Seq(V), NEW n, GroupShape(g, n),
         NEW f \in Seq(V), NEW m \in Nat, m = Len(f),
         NEW r, Replays(f, m, r), NEW e \in 1 .. m, r[e].ok, f[e] = g[n]
  PROVE  MeetsItsGroup(f, e, g, n)
<1>0. /\ n \in Nat /\ n >= 3 /\ Len(g) = n /\ g[n].kind = "SnapshotEnd"
      /\ g[n].payload[1] = Digest(SubSeq(g, 1, n - 1))
  BY DEF GroupShape
<1>1. f[e].kind = "SnapshotEnd"
  BY <1>0
<1>2. PICK b \in 1 .. e - 1 :
           Opened(f, b, e - 1) /\ f[e].payload[1] = Digest(SubSeq(f, b, e - 1))
  BY <1>1, GroupEnds
<1>3. PICK x : x = SubSeq(f, b, e - 1)
  OBVIOUS
<1>4. PICK y : y = SubSeq(g, 1, n - 1)
  OBVIOUS
<1>5. x \in Seq(V) /\ Len(x) = e - b /\ \A k \in 1 .. e - b : x[k] = f[(b + k) - 1]
  BY <1>3
<1>6. y \in Seq(V) /\ Len(y) = n - 1 /\ \A k \in 1 .. n - 1 : y[k] = g[k]
  BY <1>0, <1>4
<1>7. Digest(x) = Digest(y)
  BY <1>0, <1>2, <1>3, <1>4
<1>8. Len(Digest(x)) = Len(x) /\ Len(Digest(y)) = Len(y)
  BY <1>5, <1>6, DigestIs
<1>9. e - b = n - 1
  BY <1>5, <1>6, <1>7, <1>8
<1>10. ASSUME NEW k \in 1 .. n - 1 PROVE f[(b + k) - 1].payload = g[k].payload
  <2>1. k \in 1 .. Len(x) /\ k \in 1 .. Len(y)
    BY <1>5, <1>6, <1>9
  <2>2. Digest(x)[k] = x[k].payload /\ Digest(y)[k] = y[k].payload
    BY <1>5, <1>6, <2>1, DigestIs
  <2>3. x[k] = f[(b + k) - 1] /\ y[k] = g[k]
    BY <1>5, <1>6, <1>9
  <2> QED
    BY <1>7, <2>2, <2>3
<1>11. f[b].kind = "SnapshotBegin"
  BY <1>2 DEF Opened
<1> QED
  BY <1>9, <1>10, <1>11 DEF MeetsItsGroup

LEMMA ClosedIs ==
  ASSUME NEW r PROVE Closed(r).ok => r.ok /\ r.group = <<>> /\ Closed(r) = r
  BY ReplayedFields DEF Closed

LEMMA DamagedGroup ==
  ASSUME NEW V, NEW g \in Seq(V), NEW n, GroupShape(g, n), NEW f \in Damaged(g), f # <<>>
  PROVE  ~ReplayRecords(f).ok
<1>0. /\ n \in Nat /\ n >= 3 /\ Len(g) = n /\ DOMAIN g = 1 .. n
      /\ g[1].kind = "SnapshotBegin" /\ g[n].kind = "SnapshotEnd"
      /\ \A k \in 2 .. n - 1 : g[k].kind \notin {"SnapshotBegin", "SnapshotEnd"}
      /\ \A k, l \in 2 .. n - 1 : g[k].payload = g[l].payload => g[k] = g[l]
  BY DEF GroupShape
<1>1. /\ \A k \in 1 .. n : g[k].kind = "SnapshotBegin" => k = 1
      /\ \A k \in 1 .. n : g[k].kind = "SnapshotEnd" => k = n
  <2>1. \A k \in 1 .. n : k = 1 \/ k = n \/ k \in 2 .. n - 1
    BY <1>0
  <2> QED
    BY <1>0, <2>1
<1>2. PICK i \in 1 .. n :
        /\ f # g
        /\ \/ f = SubSeq(g, 1, i - 1) \o SubSeq(g, i + 1, n)
           \/ f = SubSeq(g, 1, i) \o SubSeq(g, i, n)
           \/ i < n /\ f = [g EXCEPT ![i] = g[i + 1], ![i + 1] = g[i]]
           \/ f = SubSeq(g, 1, i - 1)
  <2>0. f # g /\ \E i \in DOMAIN g :
          f \in {SubSeq(g, 1, i - 1) \o SubSeq(g, i + 1, Len(g)),
                SubSeq(g, 1, i) \o SubSeq(g, i, Len(g)),
                IF i < Len(g) THEN [g EXCEPT ![i] = g[i + 1], ![i + 1] = g[i]] ELSE g,
                SubSeq(g, 1, i - 1)}
    <3>1. f # g /\ f \in UNION {
            {SubSeq(g, 1, i - 1) \o SubSeq(g, i + 1, Len(g)), SubSeq(g, 1, i) \o SubSeq(g, i, Len(g)),
             IF i < Len(g) THEN [g EXCEPT ![i] = g[i + 1], ![i + 1] = g[i]] ELSE g,
             SubSeq(g, 1, i - 1)} : i \in DOMAIN g}
      BY DEF Damaged
    <3> QED
      BY <3>1
  <2>1. f # g /\ \E i \in 1 .. n :
          f \in {SubSeq(g, 1, i - 1) \o SubSeq(g, i + 1, n), SubSeq(g, 1, i) \o SubSeq(g, i, n),
                IF i < n THEN [g EXCEPT ![i] = g[i + 1], ![i + 1] = g[i]] ELSE g,
                SubSeq(g, 1, i - 1)}
    BY <1>0, <2>0, Zenon
  <2>2. PICK i \in 1 .. n :
          f \in {SubSeq(g, 1, i - 1) \o SubSeq(g, i + 1, n), SubSeq(g, 1, i) \o SubSeq(g, i, n),
                IF i < n THEN [g EXCEPT ![i] = g[i + 1], ![i + 1] = g[i]] ELSE g,
                SubSeq(g, 1, i - 1)}
    BY <2>1
  <2>3. CASE i < n
    BY <2>1, <2>2, <2>3, Zenon
  <2>4. CASE ~(i < n)
    BY <2>1, <2>2, <2>4, Zenon
  <2> QED
    BY <2>3, <2>4
<1>7. n \in Nat
  BY <1>0
<1>8. n = Len(g)
  BY <1>0
<1> SUFFICES ASSUME ReplayRecords(f).ok PROVE FALSE
  OBVIOUS
<1>3. CASE f = SubSeq(g, 1, i - 1) \o SubSeq(g, i + 1, n)
  <2>1. PICK from : from = [k \in 1 .. n - 1 |-> IF k < i THEN k ELSE k + 1]
    OBVIOUS
  <2>2. f \in Seq(V) /\ Taken(f, n - 1, g, from)
    <3>1. /\ f \in Seq(V)
          /\ Taken(f, n - 1, g, [k \in 1 .. n - 1 |-> IF k < i THEN k ELSE k + 1])
      BY <1>3, <1>7, <1>8, RecordLost
    <3> QED
      BY <2>1, <3>1
  <2>3. PICK m \in Nat : m = n - 1 /\ m = Len(f) /\ \A k \in 1 .. m : f[k] = g[from[k]]
    BY <2>2 DEF Taken
  <2>4. PICK r : Replays(f, m, r) /\ ReplayUpTo(f) = r[m]
    BY <2>3, ReplayIs
  <2>5. r[m].ok /\ r[m].group = <<>> /\ Closed(r[m]).ok
    BY <2>4, ClosedIs DEF ReplayRecords
  <2>6. CASE i = n
    <3>1. 1 \in 1 .. m /\ f[1].kind = "SnapshotBegin"
      BY <1>0, <2>1, <2>3, <2>6
    <3>2. \A j \in 2 .. m : f[j].kind # "SnapshotEnd"
      BY <1>0, <1>1, <2>1, <2>3, <2>6
    <3> QED
      BY <2>2, <2>3, <2>4, <2>5, <3>1, <3>2, StaysOpen
  <2>7. CASE i # n
    <3>1. m \in 1 .. m /\ f[m] = g[n]
      BY <1>0, <2>1, <2>3, <2>7
    <3>2. MeetsItsGroup(f, m, g, n)
      BY <2>2, <2>3, <2>4, <2>5, <3>1, EndMeetsItsGroup
    <3> QED
      BY <1>0, <2>3, <3>2 DEF MeetsItsGroup
  <2> QED
    BY <2>6, <2>7
<1>4. CASE f = SubSeq(g, 1, i) \o SubSeq(g, i, n)
  <2>1. PICK from : from = [k \in 1 .. n + 1 |-> IF k <= i THEN k ELSE k - 1]
    OBVIOUS
  <2>2. f \in Seq(V) /\ Taken(f, n + 1, g, from)
    <3>1. /\ f \in Seq(V)
          /\ Taken(f, n + 1, g, [k \in 1 .. n + 1 |-> IF k <= i THEN k ELSE k - 1])
      BY <1>4, <1>7, <1>8, RecordRepeated
    <3> QED
      BY <2>1, <3>1
  <2>3. PICK m \in Nat : m = n + 1 /\ m = Len(f) /\ \A k \in 1 .. m : f[k] = g[from[k]]
    BY <2>2 DEF Taken
  <2>4. PICK r : Replays(f, m, r) /\ ReplayUpTo(f) = r[m]
    BY <2>3, ReplayIs
  <2>5. r[m].ok
    BY <2>4, ClosedIs DEF ReplayRecords
  <2>6. CASE i = 1
    <3>1. /\ 1 \in 1 .. m /\ 2 \in 1 .. m /\ 2 - 1 = 1
          /\ f[1].kind = "SnapshotBegin" /\ f[2].kind = "SnapshotBegin"
      BY <1>0, <2>1, <2>3, <2>6
    <3>2. r[1].ok /\ r[2].ok
      <4>1. \A k \in 0 .. m : r[k].ok
        BY <2>4, <2>5, OkUpTo
      <4> QED
        BY <2>3, <3>1, <4>1
    <3>3. r[1].group # <<>>
      BY <2>4, <3>1, <3>2, BeginOpens
    <3>4. r[2 - 1].group = <<>>
      BY <2>4, <3>1, <3>2, BeginOpens
    <3> QED
      BY <3>1, <3>3, <3>4
  <2>7. CASE i # 1
    <3>1. m \in 1 .. m /\ f[m] = g[n]
      BY <1>0, <2>1, <2>3
    <3>2. PICK b \in 1 .. m - 1 : m - b = n - 1 /\ f[b].kind = "SnapshotBegin"
      <4>1. PICK e \in 1 .. m : e = m
        BY <3>1
      <4>2. r[e].ok /\ f[e] = g[n]
        BY <2>5, <3>1, <4>1
      <4>3. MeetsItsGroup(f, e, g, n)
        BY <2>2, <2>3, <2>4, <4>2, EndMeetsItsGroup
      <4> QED
        BY <4>1, <4>3 DEF MeetsItsGroup
    <3>3. b = 2
      BY <1>0, <2>3, <3>2
    <3>4. f[2] = g[2] /\ 2 \in 2 .. n - 1
      BY <1>0, <2>1, <2>3, <2>7
    <3> QED
      BY <1>0, <3>2, <3>3, <3>4
  <2> QED
    BY <2>6, <2>7
<1>5. CASE i < n /\ f = [g EXCEPT ![i] = g[i + 1], ![i + 1] = g[i]]
  <2>1. PICK from :
          from = [k \in 1 .. n |-> IF k = i THEN i + 1 ELSE IF k = i + 1 THEN i ELSE k]
    OBVIOUS
  <2>2. f \in Seq(V) /\ Taken(f, n, g, from)
    <3>1. i \in 1 .. n - 1
      BY <1>0, <1>5
    <3>2. f = [g EXCEPT ![i] = g[i + 1], ![i + 1] = g[i]]
      BY <1>5
    <3> QED
      BY <1>7, <1>8, <2>1, <3>1, <3>2, RecordsExchanged
  <2>3. PICK m \in Nat : m = n /\ m = Len(f) /\ \A k \in 1 .. m : f[k] = g[from[k]]
    BY <2>2 DEF Taken
  <2>4. PICK r : Replays(f, m, r) /\ ReplayUpTo(f) = r[m]
    BY <2>3, ReplayIs
  <2>5. r[m].ok
    BY <2>4, ClosedIs DEF ReplayRecords
  <2>6. CASE i + 1 = n
    <3>1. n - 1 \in 1 .. m /\ f[n - 1] = g[n] /\ n - 1 \in 0 .. m
      BY <1>0, <2>1, <2>3, <2>6
    <3>2. r[n - 1].ok
      BY <2>3, <2>4, <2>5, <3>1, OkUpTo
    <3>3. MeetsItsGroup(f, n - 1, g, n)
      BY <2>2, <2>3, <2>4, <3>1, <3>2, EndMeetsItsGroup
    <3> QED
      BY <1>0, <3>3 DEF MeetsItsGroup
  <2>7. CASE i + 1 # n
    <3>1. m \in 1 .. m /\ f[m] = g[n]
      BY <1>0, <1>5, <2>1, <2>3, <2>7
    <3>2. PICK b \in 1 .. m - 1 :
            /\ m - b = n - 1 /\ f[b].kind = "SnapshotBegin"
            /\ \A k \in 1 .. n - 1 : f[(b + k) - 1].payload = g[k].payload
      <4>1. PICK e \in 1 .. m : e = m
        BY <3>1
      <4>2. r[e].ok /\ f[e] = g[n]
        BY <2>5, <3>1, <4>1
      <4>3. MeetsItsGroup(f, e, g, n)
        BY <2>2, <2>3, <2>4, <4>2, EndMeetsItsGroup
      <4> QED
        BY <4>1, <4>3 DEF MeetsItsGroup
    <3>3. b = 1 /\ \A k \in 1 .. n - 1 : f[k].payload = g[k].payload
      BY <1>0, <2>3, <3>2
    <3>4. i # 1
      <4> SUFFICES ASSUME i = 1 PROVE FALSE
        OBVIOUS
      <4>1. f[1] = g[2] /\ 2 \in 2 .. n - 1
        BY <1>0, <2>1, <2>3
      <4> QED
        BY <1>0, <3>2, <3>3, <4>1
    <3>5. i \in 2 .. n - 1 /\ i + 1 \in 2 .. n - 1 /\ i \in 1 .. n - 1
      BY <1>0, <1>5, <2>7, <3>4
    <3>6. f[i] = g[i + 1] /\ f[i].payload = g[i].payload
      BY <1>0, <2>1, <2>3, <3>3, <3>5
    <3>7. g[i + 1] = g[i]
      BY <1>0, <3>5, <3>6
    <3>8. f = g
      BY <1>5, <3>7
    <3> QED
      BY <1>2, <3>8
  <2> QED
    BY <2>6, <2>7
<1>6. CASE f = SubSeq(g, 1, i - 1)
  <2>1. PICK from : from = [k \in 1 .. i - 1 |-> k]
    OBVIOUS
  <2>2. f \in Seq(V) /\ Taken(f, i - 1, g, from)
    BY <1>0, <1>6, <2>1, EndLost
  <2>3. PICK m \in Nat : m = i - 1 /\ m = Len(f) /\ \A k \in 1 .. m : f[k] = g[from[k]]
    BY <2>2 DEF Taken
  <2>4. PICK r : Replays(f, m, r) /\ ReplayUpTo(f) = r[m]
    BY <2>3, ReplayIs
  <2>5. Closed(r[m]).ok
    BY <2>4 DEF ReplayRecords
  <2>6. 1 \in 1 .. m
    BY <1>0, <2>2, <2>3
  <2>7. f[1].kind = "SnapshotBegin" /\ \A j \in 2 .. m : f[j].kind # "SnapshotEnd"
    BY <1>0, <1>1, <2>1, <2>3, <2>6
  <2> QED
    BY <2>2, <2>3, <2>4, <2>5, <2>6, <2>7, StaysOpen
<1> QED
  BY <1>2, <1>3, <1>4, <1>5, <1>6

-----------------------------------------------------------------------------
(* A written group is one of that shape.                                   *)

LEMMA FlattenLength ==
  ASSUME NEW n \in Nat \ {0}, NEW ws \in [1 .. n -> Seq(Nat)]
  PROVE  \E l \in [1 .. n -> Nat] :
           /\ l[1] = Len(ws[1]) /\ Len(FlattenSeq(ws)) = l[n]
           /\ \A i \in 2 .. n : l[i] = l[i - 1] + Len(ws[i])
<1>1. PICK f \in [1 .. n -> Seq(Nat)] :
           /\ f[1] = ws[1] /\ FlattenSeq(ws) = f[n]
           /\ \A i \in 2 .. n : f[i] = f[i - 1] \o ws[i]
  BY FlattenIs
<1>2. PICK l : l = [i \in 1 .. n |-> Len(f[i])]
  OBVIOUS
<1>3. l \in [1 .. n -> Nat] /\ l[1] = Len(ws[1]) /\ Len(FlattenSeq(ws)) = l[n]
  BY <1>1, <1>2
<1>4. ASSUME NEW i \in 2 .. n PROVE l[i] = l[i - 1] + Len(ws[i])
  <2>1. i \in 1 .. n /\ i - 1 \in 1 .. n
    OBVIOUS
  <2>2. f[i - 1] \in Seq(Nat) /\ ws[i] \in Seq(Nat) /\ f[i] = f[i - 1] \o ws[i]
    BY <1>1, <2>1
  <2>3. Len(f[i]) = Len(f[i - 1]) + Len(ws[i])
    BY <2>2
  <2> QED
    BY <1>2, <2>1, <2>3
<1> QED
  BY <1>3, <1>4

LEMMA DescriptorLength ==
  ASSUME NEW d \in DescriptorSet PROVE Len(WriteDescriptor(d)) = 3
<1>1. d.id \in Nat /\ d.key \in Nat /\ d.authority \in Nat
  BY Limits DEF DescriptorSet
<1>2. PICK ws : ws = << <<d.id>>, <<d.key>>, <<d.authority>> >>
  OBVIOUS
<1>3. ws \in [1 .. 3 -> Seq(Nat)]
  <2>1. <<d.id>> \in Seq(Nat) /\ <<d.key>> \in Seq(Nat) /\ <<d.authority>> \in Seq(Nat)
    BY <1>1
  <2> QED
    BY <1>2, <2>1, TuplesTyped
<1>4. Len(ws[1]) = 1 /\ Len(ws[2]) = 1 /\ Len(ws[3]) = 1
  BY <1>2
<1>5. 3 \in Nat \ {0}
  OBVIOUS
<1>6. PICK l \in [1 .. 3 -> Nat] :
           /\ l[1] = Len(ws[1]) /\ Len(FlattenSeq(ws)) = l[3]
           /\ \A i \in 2 .. 3 : l[i] = l[i - 1] + Len(ws[i])
  BY <1>3, <1>5, FlattenLength
<1>7. l[2] = 2 /\ l[3] = 3
  <2>1. 2 \in 2 .. 3 /\ 3 \in 2 .. 3 /\ 2 - 1 = 1 /\ 3 - 1 = 2
    OBVIOUS
  <2>2. l[2] = l[2 - 1] + Len(ws[2]) /\ l[3] = l[3 - 1] + Len(ws[3])
    BY <1>6, <2>1
  <2>3. l[2] = l[1] + Len(ws[2]) /\ l[3] = l[2] + Len(ws[3])
    BY <2>1, <2>2
  <2> QED
    BY <1>4, <1>6, <2>3
<1> QED
  BY <1>2, <1>6, <1>7 DEF WriteDescriptor

LEMMA FlowWritten ==
  ASSUME NEW f \in FlowSet PROVE WriteFlow(f) \in Seq(Nat) /\ Len(WriteFlow(f)) \in Nat
<1>1. PICK tokens \in Seq(Nat) : tokens = <<>>
  BY EmptySeq
<1>2. WriteFlow(f) \in Seq(Nat)
  BY <1>1, FlowRead
<1> QED
  BY <1>2

LEMMA FlowLength ==
  ASSUME NEW f \in FlowSet PROVE Len(WriteFlow(f)) >= 4
<1>1. f.id \in Nat /\ f.key \in Nat /\ f.current \in Nat /\ f.history \in Seq(Nat)
      /\ f.historyDropped \in Nat /\ f.anomalies \in Seq(Nat)
      /\ f.anomaliesDropped \in Nat /\ f.generations \in Seq(GenerationSet)
      /\ Len(f.generations) <= MaxGenerations /\ Len(f.anomalies) <= MaxAnomalies
  BY Limits DEF FlowSet
<1>2. PICK tokens \in Seq(Nat) : tokens = <<>>
  BY EmptySeq
<1>3. PICK w \in Seq(Nat) :
           w = WriteList([i \in DOMAIN f.generations |-> WriteGeneration(f.generations[i])])
  <2>1. PICK w \in Seq(Nat) :
          /\ w = WriteList([i \in DOMAIN f.generations |-> WriteGeneration(f.generations[i])])
          /\ IF \A i \in 1 .. Len(f.generations) : ReadableGeneration(f.generations[i])
             THEN Reads(tokens, ListAt(tokens, MaxGenerations, GenerationAt(tokens)), w,
                        [i \in 1 .. Len(f.generations) |-> GenerationFields(f.generations[i])])
             ELSE Rejects(tokens, ListAt(tokens, MaxGenerations, GenerationAt(tokens)), w)
    BY <1>1, GenerationsRead
  <2> QED
    BY <2>1
<1>4. WriteScalars(f.history) \in Seq(Nat) /\ WriteScalars(f.anomalies) \in Seq(Nat)
  <2>1. MaxHistory \in Nat
    BY Limits
  <2>2. WriteScalars(f.history) \in Seq(Nat)
    BY <1>1, <1>2, <2>1, ScalarsRead
  <2>3. WriteScalars(f.anomalies) \in Seq(Nat)
    BY <1>1, <1>2, <2>1, ScalarsRead
  <2> QED
    BY <2>2, <2>3
<1>5. PICK ws : ws = << <<f.id>>, <<f.key>>, <<f.current>>, w, WriteScalars(f.history),
                        <<f.historyDropped>>, WriteScalars(f.anomalies),
                        <<f.anomaliesDropped>> >>
  OBVIOUS
<1>6. ws \in [1 .. 8 -> Seq(Nat)]
  <2>1. /\ <<f.id>> \in Seq(Nat) /\ <<f.key>> \in Seq(Nat) /\ <<f.current>> \in Seq(Nat)
        /\ <<f.historyDropped>> \in Seq(Nat) /\ <<f.anomaliesDropped>> \in Seq(Nat)
    BY <1>1
  <2> QED
    BY <1>4, <1>5, <2>1, TuplesTyped
<1>7. /\ Len(ws[1]) = 1 /\ Len(ws[2]) = 1 /\ Len(ws[3]) = 1 /\ Len(ws[6]) = 1
      /\ Len(ws[4]) \in Nat /\ Len(ws[5]) \in Nat /\ Len(ws[7]) \in Nat /\ Len(ws[8]) \in Nat
  <2>1. Len(ws[1]) = 1 /\ Len(ws[2]) = 1 /\ Len(ws[3]) = 1 /\ Len(ws[6]) = 1
    BY <1>5
  <2>2. \A i \in 1 .. 8 : Len(ws[i]) \in Nat
    BY <1>6
  <2> QED
    BY <2>1, <2>2
<1>8. 8 \in Nat \ {0}
  OBVIOUS
<1>9. PICK l \in [1 .. 8 -> Nat] :
           /\ l[1] = Len(ws[1]) /\ Len(FlattenSeq(ws)) = l[8]
           /\ \A i \in 2 .. 8 : l[i] = l[i - 1] + Len(ws[i])
  BY <1>6, <1>8, FlattenLength
<1>10. l[8] >= 4
  <2>1. ASSUME NEW i \in 2 .. 8, NEW j \in 1 .. 7, i = j + 1
        PROVE  l[i] = l[j] + Len(ws[i])
    <3>1. i - 1 = j
      BY <2>1
    <3> QED
      BY <1>9, <3>1
  <2>2. l[2] = l[1] + Len(ws[2]) /\ l[3] = l[2] + Len(ws[3]) /\ l[4] = l[3] + Len(ws[4])
    BY <2>1
  <2>3. l[5] = l[4] + Len(ws[5]) /\ l[6] = l[5] + Len(ws[6])
    BY <2>1
  <2>4. l[7] = l[6] + Len(ws[7]) /\ l[8] = l[7] + Len(ws[8])
    BY <2>1
  <2> QED
    <3>1. PICK a \in Nat, b \in Nat, c \in Nat, d \in Nat :
            a = Len(ws[4]) /\ b = Len(ws[5]) /\ c = Len(ws[7]) /\ d = Len(ws[8])
      BY <1>7
    <3>2. l[1] = 1 /\ l[2] = 2 /\ l[3] = 3
      BY <1>7, <1>9, <2>2
    <3>3. l[4] = 3 + a
      BY <2>2, <3>1, <3>2
    <3>4. l[6] = 4 + a + b
      <4>1. l[5] = 3 + a + b
        BY <2>3, <3>1, <3>3
      <4>2. l[6] = l[5] + 1
        BY <1>7, <2>3
      <4> QED
        BY <4>1, <4>2
    <3>5. l[8] = 4 + a + b + c + d
      BY <2>4, <3>1, <3>4
    <3> QED
      BY <3>5
<1>11. FlattenSeq(ws) = WriteFlow(f)
  BY <1>3, <1>5 DEF WriteFlow
<1> QED
  BY <1>9, <1>10, <1>11

\* What the records between the begin and the end of a group are.
LEMMA GroupRecords ==
  ASSUME NEW ss \in Seq(DescriptorSet), NEW fs \in Seq(FlowSet), NEW g, IsGroup(g, ss, fs),
         NEW i \in 2 .. Len(g) - 1
  PROVE  \/ g[i] = Record("LimitsRecord", <<MaxFlows>>)
         \/ \E d \in DescriptorSet : g[i] = Record("SourceDescriptor", WriteDescriptor(d))
         \/ \E f \in FlowSet : g[i] = Record("Flow", WriteFlow(f))
<1>1. PICK n \in Nat : n = Len(ss) /\ \A k \in 1 .. n : ss[k] \in DescriptorSet
  OBVIOUS
<1>2. PICK m \in Nat : m = Len(fs) /\ \A k \in 1 .. m : fs[k] \in FlowSet
  OBVIOUS
<1>3. /\ Len(g) = n + m + 3 /\ g[2] = Record("LimitsRecord", <<MaxFlows>>)
      /\ \A k \in 1 .. n : g[k + 2] = Record("SourceDescriptor", WriteDescriptor(ss[k]))
      /\ \A k \in 1 .. m : g[k + (n + 2)] = Record("Flow", WriteFlow(fs[k]))
  BY <1>1, <1>2 DEF IsGroup
<1>4. i = 2 \/ i - 2 \in 1 .. n \/ i - (n + 2) \in 1 .. m
  BY <1>3
<1>5. CASE i - 2 \in 1 .. n
  <2>1. (i - 2) + 2 = i
    OBVIOUS
  <2>2. g[i] = Record("SourceDescriptor", WriteDescriptor(ss[i - 2]))
    BY <1>3, <1>5, <2>1
  <2> QED
    BY <1>1, <1>5, <2>2
<1>6. CASE i - (n + 2) \in 1 .. m
  <2>1. (i - (n + 2)) + (n + 2) = i
    OBVIOUS
  <2>2. g[i] = Record("Flow", WriteFlow(fs[i - (n + 2)]))
    BY <1>3, <1>6, <2>1
  <2> QED
    BY <1>2, <1>6, <2>2
<1> QED
  BY <1>3, <1>4, <1>5, <1>6

LEMMA GroupHasShape ==
  ASSUME NEW ss \in Seq(DescriptorSet), NEW fs \in Seq(FlowSet), NEW g, IsGroup(g, ss, fs)
  PROVE  GroupShape(g, Len(g)) /\ \E V : g \in Seq(V)
<1>1. PICK n \in Nat : n = Len(ss)
  OBVIOUS
<1>2. PICK m \in Nat : m = Len(fs)
  OBVIOUS
<1>3. PICK k \in Nat : k = n + m + 3 /\ k >= 3 /\ k - 1 = n + m + 2
  <2>1. n + m + 3 \in Nat /\ n + m + 3 >= 3 /\ (n + m + 3) - 1 = n + m + 2
    OBVIOUS
  <2> QED
    BY <2>1
<1>4. /\ Len(g) = k /\ g = [i \in 1 .. k |-> g[i]] /\ g[1] = Record("SnapshotBegin", <<>>)
  BY <1>1, <1>2, <1>3 DEF IsGroup
<1>5. g[k] = Record("SnapshotEnd", <<Digest(SubSeq(g, 1, k - 1)), n, m>>)
  BY <1>1, <1>2, <1>3 DEF IsGroup
<1>6. \E V : g \in Seq(V)
  <2>1. PICK V : V = {g[i] : i \in 1 .. k}
    OBVIOUS
  <2>2. \A i \in 1 .. k : g[i] \in V
    BY <2>1
  <2>3. g \in [1 .. k -> V]
    BY <1>4, <2>2
  <2> QED
    BY <2>3
<1>7. /\ g[1].kind = "SnapshotBegin" /\ g[k].kind = "SnapshotEnd"
      /\ g[k].payload[1] = Digest(SubSeq(g, 1, k - 1))
  <2>1. g[1].kind = "SnapshotBegin" /\ g[k].kind = "SnapshotEnd"
    BY <1>4, <1>5, RecordFields
  <2>2. g[k].payload = <<Digest(SubSeq(g, 1, k - 1)), n, m>>
    BY <1>5, RecordFields
  <2> QED
    BY <2>1, <2>2
<1>8. ASSUME NEW i \in 2 .. k - 1
      PROVE  /\ g[i].kind \in {"LimitsRecord", "SourceDescriptor", "Flow"}
             /\ g[i] = Record(g[i].kind, g[i].payload)
             /\ g[i].kind = "LimitsRecord" <=> Len(g[i].payload) = 1
             /\ g[i].kind = "SourceDescriptor" <=> Len(g[i].payload) = 3
  <2>1. \/ g[i] = Record("LimitsRecord", <<MaxFlows>>)
        \/ \E d \in DescriptorSet : g[i] = Record("SourceDescriptor", WriteDescriptor(d))
        \/ \E f \in FlowSet : g[i] = Record("Flow", WriteFlow(f))
    <3>1. i \in 2 .. Len(g) - 1
      BY <1>4
    <3> QED
      BY <3>1, GroupRecords
  <2>0. PICK q, kind, payload : q = g[i] /\ kind = q.kind /\ payload = q.payload
    OBVIOUS
  <2> HIDE DEF Record
  <2>2. CASE g[i] = Record("LimitsRecord", <<MaxFlows>>)
    <3>1. Len(<<MaxFlows>>) = 1
      OBVIOUS
    <3>2. g[i].kind = "LimitsRecord" /\ g[i].payload = <<MaxFlows>>
      BY <2>2, RecordFields
    <3>3. Len(g[i].payload) = 1
      BY <3>1, <3>2
    <3>4. kind = "LimitsRecord" /\ q = Record(kind, payload) /\ Len(payload) = 1
      BY <2>0, <2>2, <3>2, <3>3
    <3>5. kind # "SourceDescriptor" /\ Len(payload) # 3
      BY <3>4
    <3> QED
      BY <2>0, <3>4, <3>5
  <2>3. CASE \E d \in DescriptorSet : g[i] = Record("SourceDescriptor", WriteDescriptor(d))
    <3>1. PICK d \in DescriptorSet : g[i] = Record("SourceDescriptor", WriteDescriptor(d))
      BY <2>3
    <3>2. g[i].kind = "SourceDescriptor" /\ g[i].payload = WriteDescriptor(d)
      BY <3>1, RecordFields
    <3>3. Len(g[i].payload) = 3
      BY <3>2, DescriptorLength
    <3>4. kind = "SourceDescriptor" /\ q = Record(kind, payload) /\ Len(payload) = 3
      BY <2>0, <3>1, <3>2, <3>3
    <3>5. kind # "LimitsRecord" /\ Len(payload) # 1
      BY <3>4
    <3> QED
      BY <2>0, <3>4, <3>5
  <2>4. CASE \E f \in FlowSet : g[i] = Record("Flow", WriteFlow(f))
    <3>1. PICK f \in FlowSet : g[i] = Record("Flow", WriteFlow(f))
      BY <2>4
    <3>2. g[i].kind = "Flow" /\ g[i].payload = WriteFlow(f)
      BY <3>1, RecordFields
    <3>3. PICK l \in Nat : l = Len(g[i].payload) /\ l >= 4
      BY <3>2, FlowLength, FlowWritten
    <3>4. kind = "Flow" /\ q = Record(kind, payload) /\ Len(payload) = l
      BY <2>0, <3>1, <3>2, <3>3
    <3>5. kind # "LimitsRecord" /\ kind # "SourceDescriptor"
      BY <3>4
    <3>6. l # 1 /\ l # 3
      <4>1. \A a \in Nat : a >= 4 => a # 1 /\ a # 3
        OBVIOUS
      <4>2. l \in Nat /\ l >= 4
        BY <3>3
      <4> QED
        BY <4>1, <4>2
    <3>7. Len(payload) # 1 /\ Len(payload) # 3
      BY <3>4, <3>6
    <3> QED
      BY <2>0, <3>4, <3>5, <3>7
  <2> QED
    BY <2>1, <2>2, <2>3, <2>4
<1>9. \A i \in 2 .. k - 1 : g[i].kind \notin {"SnapshotBegin", "SnapshotEnd"}
  BY <1>8
<1>10. ASSUME NEW i \in 2 .. k - 1, NEW j \in 2 .. k - 1, g[i].payload = g[j].payload
       PROVE  g[i] = g[j]
  <2>1. g[i].kind = g[j].kind
    BY <1>8, <1>10
  <2> QED
    BY <1>8, <1>10, <2>1
<1> QED
  BY <1>3, <1>4, <1>6, <1>7, <1>9, <1>10 DEF GroupShape

\* A written group replays as decode_state reads it.
LEMMA GroupReplays ==
  ASSUME NEW V, NEW g \in Seq(V), NEW n, GroupShape(g, n)
  PROVE  ReplayUpTo(g) = DecodeState(g)
<1>1. /\ n \in Nat /\ n >= 3 /\ Len(g) = n
      /\ g[1].kind = "SnapshotBegin" /\ g[n].kind = "SnapshotEnd"
      /\ \A i \in 2 .. n - 1 : g[i].kind \notin {"SnapshotBegin", "SnapshotEnd"}
  BY DEF GroupShape
<1>2. PICK r : Replays(g, n, r) /\ ReplayUpTo(g) = r[n]
  BY <1>1, ReplayIs
<1>3. r[0] = Start /\ \A i \in 1 .. n : r[i] = ReplayOne(r[i - 1], g[i])
  BY <1>2 DEF Replays
<1>4. PICK m \in Nat : m = n - 1 /\ m >= 2 /\ m + 1 = n
  <2>1. n - 1 \in Nat /\ n - 1 >= 2 /\ (n - 1) + 1 = n
    BY <1>1
  <2> QED
    BY <2>1
<1> DEFINE Good == {i \in 1 .. m : r[i] = Replayed(<<>>, <<>>, <<>>, SubSeq(g, 1, i))}
<1>5. 1 \in Good
  <2>1. 1 \in 1 .. m /\ 1 \in 1 .. n /\ 1 - 1 = 0
    BY <1>1, <1>4
  <2>2. PICK x : x = g[1]
    OBVIOUS
  <2>3. r[1] = ReplayOne(Start, x)
    BY <1>3, <2>1, <2>2
  <2>4. Start.ok /\ Start.group = <<>> /\ Start.state.sources = <<>> /\ Start.state.flows = <<>>
        /\ Start.observations = <<>>
    BY ReplayedFields DEF Start
  <2>5. ReplayOne(Start, x) =
          Replayed(Start.state.sources, Start.state.flows, Start.observations, <<x>>)
    BY <1>1, <2>2, <2>4, Alone
  <2>6. SubSeq(g, 1, 1) = <<x>>
    <3>1. SubSeq(g, 1, 1) \in Seq(V) /\ Len(SubSeq(g, 1, 1)) = 1 /\ SubSeq(g, 1, 1)[1] = g[1]
      BY <1>1
    <3> QED
      BY <2>2, <3>1, Single
  <2>7. r[1] = Replayed(<<>>, <<>>, <<>>, SubSeq(g, 1, 1))
    BY <2>3, <2>4, <2>5, <2>6
  <2> QED
    BY <2>1, <2>7
<1>6. ASSUME NEW i \in 1 .. m, i # m, i \in Good PROVE i + 1 \in Good
  <2>1. /\ i + 1 \in 1 .. m /\ i + 1 \in 2 .. n - 1 /\ i + 1 \in 1 .. n /\ (i + 1) - 1 = i
        /\ 1 \in 1 .. Len(g) /\ i \in 1 .. Len(g) - 1
    BY <1>1, <1>4, <1>6
  <2>2. PICK x : x = g[i + 1]
    OBVIOUS
  <2>3. PICK q : q = r[i]
    OBVIOUS
  <2>4. PICK group : group = SubSeq(g, 1, i)
    OBVIOUS
  <2>5. PICK more : more = Append(group, x)
    OBVIOUS
  <2>6. more = SubSeq(g, 1, i + 1) /\ group # <<>>
    BY <2>1, <2>2, <2>4, <2>5, SubSeqAppend
  <2>7. q = Replayed(<<>>, <<>>, <<>>, group)
    BY <1>6, <2>3, <2>4
  <2>8. /\ q.ok /\ q.group = group /\ q.state.sources = <<>> /\ q.state.flows = <<>>
        /\ q.observations = <<>>
    BY <2>7, ReplayedFields
  <2>9. r[i + 1] = ReplayOne(q, x) /\ x.kind \notin {"SnapshotBegin", "SnapshotEnd"}
    BY <1>1, <1>3, <2>1, <2>2, <2>3
  <2>10. ReplayOne(q, x) = Replayed(q.state.sources, q.state.flows, q.observations, more)
    BY <2>5, <2>6, <2>8, <2>9, InGroup
  <2>11. r[i + 1] = Replayed(<<>>, <<>>, <<>>, SubSeq(g, 1, i + 1))
    BY <2>6, <2>8, <2>9, <2>10
  <2> QED
    BY <2>1, <2>11
<1> HIDE DEF Good
<1>7. \A i \in 1 .. m : i \in Good
  BY <1>4, <1>5, <1>6, UpTo
<1>8. PICK group : group = SubSeq(g, 1, m)
  OBVIOUS
<1>9. r[m] = Replayed(<<>>, <<>>, <<>>, group)
  <2>1. m \in 1 .. m
    BY <1>4
  <2>2. m \in Good
    BY <1>7, <2>1
  <2> QED
    BY <1>8, <2>2 DEF Good
<1>10. group # <<>> /\ Append(group, g[n]) = g
  <2>1. 1 \in 1 .. Len(g) /\ m \in 1 .. Len(g) - 1
    BY <1>1, <1>4
  <2>2. group # <<>> /\ Append(group, g[m + 1]) = SubSeq(g, 1, m + 1)
    BY <1>8, <2>1, SubSeqAppend
  <2>3. SubSeq(g, 1, n) = g
    BY <1>1
  <2> QED
    BY <1>4, <2>2, <2>3
<1>11. r[n] = DecodeState(g)
  <2>1. PICK q, x : q = r[m] /\ x = g[n]
    OBVIOUS
  <2>2. n \in 1 .. n /\ n - 1 = m
    BY <1>1, <1>4
  <2>3. r[n] = ReplayOne(q, x)
    BY <1>3, <2>1, <2>2
  <2>4. q.ok /\ q.group = group
    BY <1>9, <2>1, ReplayedFields
  <2>5. ReplayOne(q, x) = DecodeState(Append(q.group, x))
    BY <1>1, <1>10, <2>1, <2>4, InGroup
  <2> QED
    BY <1>10, <2>1, <2>3, <2>4, <2>5
<1> QED
  BY <1>2, <1>11

\* A written group replays to the state it was written from, or is refused.
LEMMA WrittenStateReplays ==
  ASSUME NEW state \in StateSet, Encodable(state)
  PROVE  ReplayUpTo(EncodeState(state)) =
           IF ReadableState(state) THEN Replayed(state.sources, state.flows, <<>>, <<>>)
           ELSE Refusal
<1>1. PICK ss \in Seq(DescriptorSet) : ss = state.sources
  BY DEF StateSet
<1>2. PICK fs \in Seq(FlowSet) : fs = state.flows
  BY DEF StateSet
<1>3. PICK g : g = EncodeState(state)
  OBVIOUS
<1>4. IsGroup(g, ss, fs)
  BY <1>1, <1>2, <1>3, GroupIs
<1>5. GroupShape(g, Len(g)) /\ \E V : g \in Seq(V)
  BY <1>4, GroupHasShape
<1>6. ReplayUpTo(g) = DecodeState(g)
  BY <1>5, GroupReplays
<1>7. Len(ss) <= MaxSources /\ Len(fs) <= MaxFlows
  BY <1>1, <1>2 DEF Encodable
<1>8. DecodeState(g) =
           IF /\ \A i \in 1 .. Len(ss) : KeyBytes[ss[i].key] <= MaxKeyBytes
              /\ \A i \in 1 .. Len(fs) : ReadableFlow(fs[i])
           THEN Replayed(ss, fs, <<>>, <<>>) ELSE Refusal
  BY <1>4, <1>7, GroupDecodes
<1> QED
  BY <1>1, <1>2, <1>3, <1>6, <1>8 DEF ReadableState

-----------------------------------------------------------------------------
(* What the engine keeps is what can be written.                           *)

\* R is a strict order of all of S.
OrderOf(R, S) ==
  /\ \A x \in S : <<x, x>> \notin R
  /\ \A x, y, z \in S : <<x, y>> \in R /\ <<y, z>> \in R => <<x, z>> \in R
  /\ \A x, y \in S : x # y => <<x, y>> \in R \/ <<y, x>> \in R

\* s names each of the n elements of S, once.
Lists(s, n, S) ==
  /\ n \in Nat /\ s \in [1 .. n -> S]
  /\ \A x \in S : \E i \in 1 .. n : s[i] = x
  /\ \A i, j \in 1 .. n : s[i] = s[j] => i = j

LEMMA InOrderIs ==
  ASSUME NEW S, IsFiniteSet(S), NEW R, OrderOf(R, S)
  PROVE  Lists(InOrder(S, R), Cardinality(S), S)
<1>0. PICK n : n = Cardinality(S)
  OBVIOUS
<1>1. \E s \in [1 .. n -> S] : Arranged(s, n, R)
  BY <1>0, CanBeArranged DEF OrderOf
<1>2. InOrder(S, R) \in [1 .. n -> S] /\ Arranged(InOrder(S, R), n, R)
  BY <1>0, <1>1 DEF InOrder, Arranged
<1>3. PICK s \in [1 .. n -> S] : s = InOrder(S, R) /\ Arranged(s, n, R)
  BY <1>2
<1>4. \A x \in S : <<x, x>> \notin R
  BY DEF OrderOf
<1>5. /\ n \in Nat /\ \A x \in S : \E i \in 1 .. n : s[i] = x
      /\ \A i, j \in 1 .. n : s[i] = s[j] => i = j
  BY <1>0, <1>3, <1>4, ArrangedMeetsAll
<1> QED
  BY <1>0, <1>3, <1>5 DEF Lists

LEMMA SortedIs ==
  ASSUME NEW S \in SUBSET Nat, IsFiniteSet(S)
  PROVE  Lists(Sorted(S), Cardinality(S), S)
<1> DEFINE R == {p \in S \X S : p[1] < p[2]}
<1>1. \A x, y \in S : <<x, y>> \in R <=> x < y
  OBVIOUS
<1>2. \A x, y, z \in S : x < y /\ y < z => x < z
  OBVIOUS
<1>3. \A x, y \in S : x # y => x < y \/ y < x
  OBVIOUS
<1>4. \A x \in S : ~(x < x)
  OBVIOUS
<1>5. Sorted(S) = InOrder(S, R)
  BY DEF Sorted
<1> HIDE DEF R
<1>6. OrderOf(R, S)
  BY <1>1, <1>2, <1>3, <1>4 DEF OrderOf
<1> QED
  BY <1>5, <1>6, InOrderIs

LEMMA FlattenOfMany ==
  ASSUME NEW n \in Nat, NEW ws \in [1 .. n -> Seq(Nat)]
  PROVE  FlattenSeq(ws) \in Seq(Nat)
<1>1. CASE n = 0
  <2>1. Len(ws) = 0 /\ ws \in Seq(Nat)
    BY <1>1
  <2>2. ws = <<>>
    BY <2>1
  <2> QED
    BY <2>2, EmptySeq DEF FlattenSeq
<1>2. CASE n # 0
  <2>1. n \in Nat \ {0}
    BY <1>2
  <2>2. PICK f \in [1 .. n -> Seq(Nat)] : FlattenSeq(ws) = f[n]
    BY <2>1, FlattenIs
  <2> QED
    BY <2>1, <2>2
<1> QED
  BY <1>1, <1>2

LEMMA NamedTyped ==
  ASSUME NEW resources \in Seq(Nat), NEW x \in Nat \cup {None}
  PROVE  Named(resources, x) \in Seq(Nat)
  BY CodecAssumption DEF Named

\* The merged resources of the sources of a generation are resources.
LEMMA TogetherTyped ==
  ASSUME NEW m, NEW resources, IsFiniteSet(DOMAIN resources), DOMAIN resources \subseteq Nat,
         \A s \in DOMAIN resources : m.sources[s].authority \in Nat /\ resources[s] \in Seq(Nat)
  PROVE  Together(m, resources) \in Seq(Nat)
<1> DEFINE S == DOMAIN resources
           authority(s) == m.sources[s].authority
           R == {p \in S \X S : \/ authority(p[1]) > authority(p[2])
                                \/ authority(p[1]) = authority(p[2]) /\ p[1] < p[2]}
           n == Cardinality(S)
           order == InOrder(S, R)
           all == FlattenSeq([i \in 1 .. n |-> resources[order[i]]])
<1>1. n \in Nat /\ order \in [1 .. n -> S]
  <2>0. PICK a \in [S -> Nat] : a = [s \in S |-> authority(s)]
    OBVIOUS
  <2>6. R = {p \in S \X S : a[p[1]] > a[p[2]] \/ (a[p[1]] = a[p[2]] /\ p[1] < p[2])}
    BY <2>0
  <2>7. S \in SUBSET Nat
    OBVIOUS
  <2> HIDE DEF R, authority, S
  <2>1. \A x, y \in S : <<x, y>> \in R <=> a[x] > a[y] \/ (a[x] = a[y] /\ x < y)
    BY <2>6
  <2>2. \A x \in S : x \in Nat /\ a[x] \in Nat
    BY <2>7
  <2>3. \A x \in S : <<x, x>> \notin R
    BY <2>1, <2>2
  <2>8. IsFiniteSet(S)
    BY DEF S
  <2>4. \A x, y, z \in S : <<x, y>> \in R /\ <<y, z>> \in R => <<x, z>> \in R
    BY <2>1, <2>2
  <2>5. \A x, y \in S : x # y => <<x, y>> \in R \/ <<y, x>> \in R
    BY <2>1, <2>2
  <2> QED
    BY <2>3, <2>4, <2>5, <2>8, InOrderIs DEF OrderOf, Lists
<1>2. all \in Seq(Nat)
  <2>1. [i \in 1 .. n |-> resources[order[i]]] \in [1 .. n -> Seq(Nat)]
    BY <1>1
  <2> HIDE DEF n, order
  <2> QED
    BY <1>1, <2>1, FlattenOfMany
<1> DEFINE last == Len(all)
           merged[i \in 0 .. last] == IF i = 0 THEN <<>> ELSE Named(merged[i - 1], all[i])
<1>3. Together(m, resources) = merged[last]
  BY Zenon DEF Together
<1> HIDE DEF n, order, all, R, authority
<1>4. PICK k \in Nat : k = last
  BY <1>2
<1> DEFINE Is(h, j) == h = [i \in 0 .. j |-> IF i = 0 THEN <<>> ELSE Named(h[i - 1], all[i])]
           Good == {j \in 0 .. k : \E h \in [0 .. j -> Seq(Nat)] : Is(h, j)}
<1>5. 0 \in Good
  <2> DEFINE h == [i \in 0 .. 0 |-> <<>>]
  <2>1. Is(h, 0) /\ h \in [0 .. 0 -> Seq(Nat)]
    OBVIOUS
  <2>2. 0 \in 0 .. k
    OBVIOUS
  <2> HIDE DEF h, Is
  <2> QED
    BY <2>1, <2>2
<1>6. ASSUME NEW j \in 0 .. k, j # k, j \in Good PROVE j + 1 \in Good
  <2>1. PICK b \in [0 .. j -> Seq(Nat)] : Is(b, j)
    BY <1>6
  <2> DEFINE h == [i \in 0 .. j + 1 |-> IF i = j + 1 THEN Named(b[j], all[i]) ELSE b[i]]
  <2>2. j + 1 \in 0 .. k /\ j + 1 \in 1 .. k /\ j \in 0 .. j
        /\ \A i \in 0 .. j + 1 : i = j + 1 \/ i \in 0 .. j
    BY <1>6
  <2>3. Named(b[j], all[j + 1]) \in Seq(Nat)
    <3>1. all[j + 1] \in Nat
      BY <1>2, <1>4, <2>2
    <3> QED
      BY <2>1, <2>2, <3>1, NamedTyped
  <2>4. h \in [0 .. j + 1 -> Seq(Nat)]
    BY <2>1, <2>2, <2>3
  <2>5. ASSUME NEW i \in 0 .. j + 1
        PROVE  h[i] = IF i = 0 THEN <<>> ELSE Named(h[i - 1], all[i])
    <3>1. CASE i = j + 1
      <4>1. i # 0 /\ i - 1 = j /\ j \in 0 .. j + 1 /\ j # j + 1
        BY <3>1
      <4> QED
        BY <4>1, <3>1
    <3>2. CASE i \in 0 .. j
      <4>1. i # j + 1 /\ (i # 0 => i - 1 \in 0 .. j + 1 /\ i - 1 # j + 1)
        BY <3>2
      <4>2. b[i] = IF i = 0 THEN <<>> ELSE Named(b[i - 1], all[i])
        BY <2>1, <3>2
      <4> QED
        BY <4>1, <4>2
    <3> QED
      BY <2>2, <3>1, <3>2
  <2>6. Is(h, j + 1)
    BY <2>5
  <2> HIDE DEF h, Is
  <2> QED
    BY <2>2, <2>4, <2>6
<1> HIDE DEF Good
<1>7. \A j \in 0 .. k : j \in Good
  BY <1>5, <1>6, UpTo
<1>15. k \in 0 .. k
  OBVIOUS
<1>8. PICK h \in [0 .. k -> Seq(Nat)] : Is(h, k)
  BY <1>7, <1>15 DEF Good
<1>9. \E h0 : h0 = [i \in 0 .. last |-> IF i = 0 THEN <<>> ELSE Named(h0[i - 1], all[i])]
  BY <1>4, <1>8
<1>10. merged = [i \in 0 .. last |-> IF i = 0 THEN <<>> ELSE Named(merged[i - 1], all[i])]
  BY <1>9, Zenon
<1> HIDE DEF merged
<1> DEFINE Typed == {j \in 0 .. k : merged[j] \in Seq(Nat)}
<1>11. 0 \in Typed
  BY <1>4, <1>10
<1>12. ASSUME NEW j \in 0 .. k, j # k, j \in Typed PROVE j + 1 \in Typed
  <2>1. j + 1 \in 0 .. k /\ j + 1 \in 1 .. k /\ j + 1 # 0 /\ (j + 1) - 1 = j
    BY <1>12
  <2>2. merged[j + 1] = Named(merged[j], all[j + 1])
    BY <1>4, <1>10, <2>1
  <2>3. all[j + 1] \in Nat
    BY <1>2, <1>4, <2>1
  <2> QED
    BY <1>12, <2>1, <2>2, <2>3, NamedTyped
<1> HIDE DEF Typed
<1>13. \A j \in 0 .. k : j \in Typed
  BY <1>11, <1>12, UpTo
<1>14. merged[k] \in Seq(Nat)
  BY <1>13, <1>15 DEF Typed
<1> QED
  BY <1>3, <1>4, <1>14

\* The items of a list that is made of the elements of a set in their order.
LEMMA ListedIs ==
  ASSUME NEW S, NEW order, NEW n, Lists(order, n, S), NEW T, NEW F \in [S -> T],
         NEW v, v = [i \in DOMAIN order |-> F[order[i]]]
  PROVE  /\ v \in Seq(T) /\ Len(v) = n /\ DOMAIN v = 1 .. n /\ ToSet(v) = {F[x] : x \in S}
         /\ \A i \in 1 .. n : v[i] = F[order[i]]
<1>1. /\ n \in Nat /\ order \in [1 .. n -> S] /\ \A x \in S : \E i \in 1 .. n : order[i] = x
  BY DEF Lists
<1>2. v = [i \in 1 .. n |-> F[order[i]]]
  BY <1>1
<1>3. v \in [1 .. n -> T]
  BY <1>1, <1>2
<1>4. v \in Seq(T) /\ Len(v) = n
  BY <1>1, <1>3
<1>5. ToSet(v) = {F[x] : x \in S}
  BY <1>1, <1>2 DEF ToSet
<1> QED
  BY <1>2, <1>4, <1>5

\* The bindings, generations, flows and sources of the engine.
BindingSet ==
  {b \in [accepted : Nat, hops : Seq(Nat), links : Seq(Nat), queues : Seq(Nat)] :
     Len(b.hops) <= MaxSourceHops}

SoundGeneration(gen, known) ==
  /\ gen = [s \in DOMAIN gen |-> gen[s]] /\ DOMAIN gen \subseteq known
  /\ \A s \in DOMAIN gen : gen[s] \in BindingSet

SoundFlow(flow, known) ==
  /\ flow = [key |-> flow.key, current |-> flow.current, generations |-> flow.generations,
             history |-> flow.history, historyDropped |-> flow.historyDropped,
             anomalies |-> flow.anomalies, anomaliesDropped |-> flow.anomaliesDropped]
  /\ flow.key \in DOMAIN KeyBytes /\ KeyBytes[flow.key] <= MaxKeyBytes
  /\ flow.current \in Nat /\ flow.historyDropped \in Nat /\ flow.anomaliesDropped \in Nat
  /\ flow.history \in Seq(Nat) /\ Len(flow.history) <= MaxHistory
  /\ flow.anomalies \in Seq(Nat) /\ Len(flow.anomalies) <= MaxAnomalies
  /\ flow.generations = [g \in DOMAIN flow.generations |-> flow.generations[g]]
  /\ IsFiniteSet(DOMAIN flow.generations) /\ DOMAIN flow.generations \subseteq Nat
  /\ Cardinality(DOMAIN flow.generations) <= MaxGenerations
  /\ \A g \in DOMAIN flow.generations : SoundGeneration(flow.generations[g], known)

EntrySet == [key : DOMAIN KeyBytes, authority : Nat, retired : BOOLEAN]

SoundSources(sources) ==
  /\ sources = [s \in DOMAIN sources |-> sources[s]]
  /\ IsFiniteSet(DOMAIN sources) /\ DOMAIN sources \subseteq Nat
  /\ \A s \in DOMAIN sources : sources[s] \in EntrySet

SoundFlows(flows, known) ==
  /\ flows = [f \in DOMAIN flows |-> flows[f]]
  /\ IsFiniteSet(DOMAIN flows) /\ DOMAIN flows \subseteq Nat
  /\ \A f \in DOMAIN flows : SoundFlow(flows[f], known)

SoundPeers(peers) ==
  /\ peers = [p \in DOMAIN peers |-> peers[p]]
  /\ \A p \in DOMAIN peers : peers[p] \in DOMAIN KeyBytes
  /\ IsFiniteSet(DOMAIN peers) /\ Cardinality(DOMAIN peers) <= MaxFlows

\* The engine holds what its types and its bounds allow.
Sound(m) ==
  /\ m = [sources |-> m.sources, flows |-> m.flows, peers |-> m.peers]
  /\ SoundSources(m.sources)
  /\ SoundFlows(m.flows, DOMAIN m.sources)
  /\ SoundPeers(m.peers)

\* What persist_state writes of one binding.
SourceOfBinding(m, gen, s) ==
  [id |-> s, key |-> m.sources[s].key, authority |-> m.sources[s].authority,
   accepted |-> gen[s].accepted, hops |-> gen[s].hops]

LEMMA GenerationPersisted ==
  ASSUME NEW m, SoundSources(m.sources), NEW gen, SoundGeneration(gen, DOMAIN m.sources),
         NEW g \in Nat
  PROVE  /\ PersistGeneration(m, g, gen) \in GenerationSet
         /\ PersistGeneration(m, g, gen).id = g
         /\ ToSet(PersistGeneration(m, g, gen).sources) =
              {SourceOfBinding(m, gen, s) : s \in DOMAIN gen}
<1> DEFINE S == DOMAIN gen
           order == Sorted(S)
           links == Together(m, [s \in S |-> gen[s].links])
           queues == Together(m, [s \in S |-> gen[s].queues])
           budget == (Len(order) + 1) * QueuesPerSource
           few == SubSeq(queues, 1, IF Len(queues) <= budget THEN Len(queues) ELSE budget)
           F == [s \in S |-> SourceOfBinding(m, gen, s)]
           sources == [i \in DOMAIN order |-> F[order[i]]]
<1>1. /\ S \in SUBSET Nat /\ IsFiniteSet(S)
      /\ \A s \in S : /\ gen[s].accepted \in Nat /\ gen[s].hops \in Seq(Nat)
                      /\ gen[s].links \in Seq(Nat) /\ gen[s].queues \in Seq(Nat)
                      /\ Len(gen[s].hops) <= MaxSourceHops
                      /\ m.sources[s].key \in DOMAIN KeyBytes /\ m.sources[s].authority \in Nat
  <2>1. S \subseteq DOMAIN m.sources /\ IsFiniteSet(DOMAIN m.sources) /\ DOMAIN m.sources \subseteq Nat
    BY DEF SoundSources, SoundGeneration
  <2>2. IsFiniteSet(S)
    BY <2>1, FS_Subset
  <2>3. \A s \in S : gen[s] \in BindingSet /\ m.sources[s] \in EntrySet
    BY <2>1 DEF SoundSources, SoundGeneration
  <2> QED
    BY <2>1, <2>2, <2>3 DEF BindingSet, EntrySet
<1>2. PICK n : n = Cardinality(S) /\ Lists(order, n, S)
  BY <1>1, SortedIs
<1>3. F \in [S -> SourceSet]
  <2> SUFFICES ASSUME NEW s \in S PROVE SourceOfBinding(m, gen, s) \in SourceSet
    OBVIOUS
  <2> QED
    BY <1>1 DEF SourceSet, SourceOfBinding
<1>4. links \in Seq(Nat) /\ queues \in Seq(Nat)
  <2>1. PICK l : l = [s \in S |-> gen[s].links]
    OBVIOUS
  <2>2. PICK q : q = [s \in S |-> gen[s].queues]
    OBVIOUS
  <2>3. DOMAIN l = S /\ DOMAIN q = S /\ \A s \in S : l[s] \in Seq(Nat) /\ q[s] \in Seq(Nat)
    BY <1>1, <2>1, <2>2
  <2>4. \A s \in DOMAIN l : m.sources[s].authority \in Nat /\ l[s] \in Seq(Nat)
    BY <1>1, <2>3
  <2>5. \A s \in DOMAIN q : m.sources[s].authority \in Nat /\ q[s] \in Seq(Nat)
    BY <1>1, <2>3
  <2>6. IsFiniteSet(DOMAIN l) /\ DOMAIN l \subseteq Nat /\ IsFiniteSet(DOMAIN q) /\ DOMAIN q \subseteq Nat
    BY <1>1, <2>3
  <2>7. Together(m, l) \in Seq(Nat)
    BY <2>4, <2>6, TogetherTyped
  <2>8. Together(m, q) \in Seq(Nat)
    BY <2>5, <2>6, TogetherTyped
  <2> QED
    BY <2>1, <2>2, <2>7, <2>8
<1>5. few \in Seq(Nat)
  <2>1. PICK a \in Nat : a = Len(order)
    <3>1. n \in Nat /\ order \in [1 .. n -> S]
      BY <1>2 DEF Lists
    <3>2. order \in Seq(S)
      BY <3>1
    <3> QED
      BY <3>2
  <2>2. budget \in Nat
    BY <2>1, SnapshotAssumption
  <2>3. PICK q \in Seq(Nat) : q = queues
    BY <1>4
  <2>4. PICK b \in Nat : b = budget
    BY <2>2
  <2>5. PICK l \in Nat : l = IF Len(q) <= b THEN Len(q) ELSE b
    OBVIOUS
  <2>6. l <= Len(q)
    BY <2>5
  <2>7. SubSeq(q, 1, l) \in Seq(Nat)
    <3>1. \A i \in 1 .. l : i \in 1 .. Len(q)
      BY <2>6
    <3> QED
      BY <3>1
  <2> QED
    BY <2>3, <2>4, <2>5, <2>7
<1>6. PICK v : v = sources
  OBVIOUS
<1>7. v \in Seq(SourceSet) /\ ToSet(v) = {F[s] : s \in S}
  <2> HIDE DEF S, order, F
  <2> QED
    BY <1>2, <1>3, <1>6, ListedIs
<1>8. v = [i \in DOMAIN order |-> SourceOfBinding(m, gen, order[i])]
  <2>1. \A i \in DOMAIN order : order[i] \in S
    BY <1>2 DEF Lists
  <2> QED
    BY <1>6, <2>1
<1>9. PersistGeneration(m, g, gen) = [id |-> g, links |-> links, queues |-> few, sources |-> v]
  <2> HIDE DEF F
  <2> QED
    BY <1>8 DEF PersistGeneration, SourceOfBinding
<1>10. {F[s] : s \in S} = {SourceOfBinding(m, gen, s) : s \in S}
  OBVIOUS
<1>11. PICK p : p = PersistGeneration(m, g, gen)
  OBVIOUS
<1>12. PICK a \in Seq(Nat), b \in Seq(Nat) : a = links /\ b = few
  BY <1>4, <1>5
<1>13. p = [id |-> g, links |-> a, queues |-> b, sources |-> v]
  BY <1>9, <1>11, <1>12
<1>14. ToSet(v) = {SourceOfBinding(m, gen, s) : s \in DOMAIN gen}
  BY <1>7, <1>10
<1>15. p \in GenerationSet /\ p.id = g /\ p.sources = v
  BY ONLY <1>7, <1>13, g \in Nat, a \in Seq(Nat), b \in Seq(Nat) DEF GenerationSet
<1> QED
  BY <1>11, <1>14, <1>15

LEMMA FlowPersisted ==
  ASSUME NEW m, SoundSources(m.sources), NEW f \in Nat, NEW flow, flow = m.flows[f],
         SoundFlow(flow, DOMAIN m.sources)
  PROVE  /\ PersistFlow(m, f) \in FlowSet
         /\ PersistFlow(m, f).id = f /\ PersistFlow(m, f).key = flow.key
         /\ PersistFlow(m, f).current = flow.current
         /\ PersistFlow(m, f).history = flow.history
         /\ PersistFlow(m, f).anomalies = flow.anomalies
         /\ PersistFlow(m, f).anomaliesDropped = flow.anomaliesDropped
         /\ ToSet(PersistFlow(m, f).generations) =
              {PersistGeneration(m, g, flow.generations[g]) : g \in DOMAIN flow.generations}
<1> DEFINE S == DOMAIN flow.generations
           order == Sorted(S)
           F == [g \in S |-> PersistGeneration(m, g, flow.generations[g])]
           generations == [i \in DOMAIN order |-> F[order[i]]]
<1>1. /\ flow.key \in DOMAIN KeyBytes /\ KeyBytes[flow.key] <= MaxKeyBytes
      /\ flow.current \in Nat /\ flow.historyDropped \in Nat /\ flow.anomaliesDropped \in Nat
      /\ flow.history \in Seq(Nat) /\ Len(flow.history) <= MaxHistory
      /\ flow.anomalies \in Seq(Nat) /\ Len(flow.anomalies) <= MaxAnomalies
  BY DEF SoundFlow
<1>2. /\ IsFiniteSet(S) /\ S \in SUBSET Nat /\ Cardinality(S) <= MaxGenerations
      /\ \A g \in S : SoundGeneration(flow.generations[g], DOMAIN m.sources)
  BY DEF SoundFlow
<1>3. PICK n : n = Cardinality(S) /\ Lists(order, n, S)
  BY <1>2, SortedIs
<1>4. F \in [S -> GenerationSet]
  <2> SUFFICES ASSUME NEW g \in S
               PROVE  PersistGeneration(m, g, flow.generations[g]) \in GenerationSet
    OBVIOUS
  <2>1. PICK gen : gen = flow.generations[g] /\ SoundGeneration(gen, DOMAIN m.sources)
    BY <1>2
  <2>2. g \in Nat
    BY <1>2
  <2>3. PersistGeneration(m, g, gen) \in GenerationSet
    BY <2>1, <2>2, GenerationPersisted
  <2> QED
    BY <2>1, <2>3
<1>5. PICK v : v = generations
  OBVIOUS
<1>6. v \in Seq(GenerationSet) /\ Len(v) = n /\ ToSet(v) = {F[g] : g \in S}
  <2> HIDE DEF S, order, F
  <2>1. Lists(order, n, S) /\ v = [i \in DOMAIN order |-> F[order[i]]]
    BY <1>3, <1>5
  <2>3. PICK U, o, H, W : U = S /\ o = order /\ H = F /\ W = GenerationSet
    OBVIOUS
  <2>4. H \in [U -> W] /\ Lists(o, n, U) /\ v = [i \in DOMAIN o |-> H[o[i]]]
    BY <1>4, <2>1, <2>3
  <2>5. /\ v \in Seq(W) /\ Len(v) = n /\ ToSet(v) = {H[g] : g \in U}
        /\ \A i \in 1 .. n : v[i] = H[o[i]]
    BY ONLY <2>4, ListedIs, SMTT(30)
  <2>2. v \in Seq(GenerationSet) /\ Len(v) = n /\ ToSet(v) = {F[g] : g \in S}
    BY <2>3, <2>5
  <2> QED
    BY <2>2
<1>7. v = [i \in DOMAIN order |-> PersistGeneration(m, order[i], flow.generations[order[i]])]
  <2>1. \A i \in DOMAIN order : order[i] \in S
    BY <1>3 DEF Lists
  <2> QED
    BY <1>5, <2>1
<1>8. ToSet(v) = {PersistGeneration(m, g, flow.generations[g]) : g \in DOMAIN flow.generations}
  BY <1>6
<1>9. PICK p : p = PersistFlow(m, f)
  OBVIOUS
<1>10. p = [id |-> f, key |-> flow.key, current |-> flow.current, generations |-> v,
            history |-> flow.history, historyDropped |-> flow.historyDropped,
            anomalies |-> flow.anomalies, anomaliesDropped |-> flow.anomaliesDropped]
  <2> HIDE DEF F
  <2> QED
    BY <1>7, <1>9 DEF PersistFlow
<1>11. Len(v) <= MaxGenerations
  BY <1>2, <1>3, <1>6
<1>12. p \in FlowSet
  BY ONLY <1>1, <1>6, <1>10, <1>11, f \in Nat DEF FlowSet
<1>13. /\ p.id = f /\ p.key = flow.key /\ p.current = flow.current /\ p.history = flow.history
       /\ p.anomalies = flow.anomalies /\ p.anomaliesDropped = flow.anomaliesDropped
       /\ p.generations = v
  BY ONLY <1>10
<1> QED
  BY <1>8, <1>9, <1>12, <1>13

\* What persist_state writes of one source.
DescriptorOfEntry(m, s) ==
  [id |-> s, key |-> m.sources[s].key, authority |-> m.sources[s].authority]

Active(m) == {s \in DOMAIN m.sources : ~m.sources[s].retired}

LEMMA StatePersisted ==
  ASSUME NEW m, Sound(m)
  PROVE  /\ PersistState(m) \in StateSet
         /\ ToSet(PersistState(m).sources) = {DescriptorOfEntry(m, s) : s \in Active(m)}
         /\ \A i, j \in 1 .. Len(PersistState(m).sources) :
              PersistState(m).sources[i].id = PersistState(m).sources[j].id => i = j
         /\ ToSet(PersistState(m).flows) = {PersistFlow(m, f) : f \in DOMAIN m.flows}
<1> DEFINE S == Active(m)
           order == Sorted(S)
           F == [s \in S |-> DescriptorOfEntry(m, s)]
           sources == [i \in DOMAIN order |-> F[order[i]]]
           T == DOMAIN m.flows
           places == Sorted(T)
           G == [f \in T |-> PersistFlow(m, f)]
           flows == [i \in DOMAIN places |-> G[places[i]]]
<1>1. /\ IsFiniteSet(S) /\ S \in SUBSET Nat
      /\ \A s \in S : m.sources[s].key \in DOMAIN KeyBytes /\ m.sources[s].authority \in Nat
  <2>1. S \subseteq DOMAIN m.sources /\ IsFiniteSet(DOMAIN m.sources) /\ DOMAIN m.sources \subseteq Nat
    BY DEF Sound, SoundSources, Active
  <2>2. IsFiniteSet(S)
    BY <2>1, FS_Subset
  <2>3. \A s \in S : m.sources[s] \in EntrySet
    BY <2>1 DEF Sound, SoundSources
  <2> QED
    BY <2>1, <2>2, <2>3 DEF EntrySet
<1>2. /\ IsFiniteSet(T) /\ T \in SUBSET Nat /\ SoundSources(m.sources)
      /\ \A f \in T : SoundFlow(m.flows[f], DOMAIN m.sources)
  BY DEF Sound, SoundFlows
<1>3. PICK n : n = Cardinality(S) /\ Lists(order, n, S)
  BY <1>1, SortedIs
<1>4. PICK k : k = Cardinality(T) /\ Lists(places, k, T)
  BY <1>2, SortedIs
<1>5. F \in [S -> DescriptorSet]
  <2> SUFFICES ASSUME NEW s \in S PROVE DescriptorOfEntry(m, s) \in DescriptorSet
    OBVIOUS
  <2> QED
    BY <1>1 DEF DescriptorOfEntry, DescriptorSet
<1>6. G \in [T -> FlowSet]
  <2> SUFFICES ASSUME NEW f \in T PROVE PersistFlow(m, f) \in FlowSet
    OBVIOUS
  <2>1. PICK flow : flow = m.flows[f] /\ SoundFlow(flow, DOMAIN m.sources)
    BY <1>2
  <2>2. f \in Nat
    BY <1>2
  <2> QED
    BY <1>2, <2>1, <2>2, FlowPersisted
<1>7. PICK v : v = sources
  OBVIOUS
<1>8. PICK w : w = flows
  OBVIOUS
<1>9. /\ v \in Seq(DescriptorSet) /\ Len(v) = n /\ ToSet(v) = {F[s] : s \in S}
      /\ \A i \in 1 .. n : v[i] = F[order[i]]
  <2> HIDE DEF S, order, F
  <2> QED
    BY <1>3, <1>5, <1>7, ListedIs
<1>10. w \in Seq(FlowSet) /\ ToSet(w) = {G[f] : f \in T}
  <2> HIDE DEF T, places, G
  <2> QED
    BY <1>4, <1>6, <1>8, ListedIs
<1>11. /\ v = [i \in DOMAIN order |-> DescriptorOfEntry(m, order[i])]
       /\ w = [i \in DOMAIN places |-> PersistFlow(m, places[i])]
  <2>1. (\A i \in DOMAIN order : order[i] \in S) /\ \A i \in DOMAIN places : places[i] \in T
    BY <1>3, <1>4 DEF Lists
  <2> HIDE DEF S, order, T, places
  <2> QED
    BY <1>7, <1>8, <2>1
<1>12. ToSet(v) = {DescriptorOfEntry(m, s) : s \in S} /\ ToSet(w) = {PersistFlow(m, f) : f \in T}
  BY <1>9, <1>10
<1>13. ASSUME NEW i \in 1 .. n, NEW j \in 1 .. n, v[i].id = v[j].id PROVE i = j
  <2>1. order[i] \in S /\ order[j] \in S
    BY <1>3 DEF Lists
  <2>2. v[i].id = order[i] /\ v[j].id = order[j]
    <3>1. /\ v[i] = DescriptorOfEntry(m, order[i]) /\ v[j] = DescriptorOfEntry(m, order[j])
      BY <1>9, <2>1
    <3>2. \A s : DescriptorOfEntry(m, s).id = s
      BY DEF DescriptorOfEntry
    <3> QED
      BY <3>1, <3>2
  <2> QED
    BY <1>3, <1>13, <2>2 DEF Lists
<1>14. PICK p : p = PersistState(m)
  OBVIOUS
<1>15. p = [sources |-> v, flows |-> w]
  <2> HIDE DEF F, G
  <2> QED
    BY <1>11, <1>14 DEF PersistState, DescriptorOfEntry, Active
<1>16. p \in StateSet /\ p.sources = v /\ p.flows = w
  BY ONLY <1>9, <1>10, <1>15 DEF StateSet
<1> QED
  BY <1>9, <1>12, <1>13, <1>14, <1>16

-----------------------------------------------------------------------------
(* The engine stays sound.                                                 *)

LEMMA ObservationIs ==
  ASSUME NEW o \in Observations
  PROVE  /\ o.source \in Nat /\ o.sequence \in Nat /\ o.flow \in Nat /\ o.generation \in Nat
         /\ o.peer \in Nat /\ o.queue \in Nat \cup {None} /\ o.link \in Nat \cup {None}
         /\ o.hops \in Seq(Nat) /\ o.flowKey \in DOMAIN KeyBytes /\ o.peerKey \in DOMAIN KeyBytes
         /\ UnregisteredKey[o.source] \in DOMAIN KeyBytes
         /\ Valid(o) => o \in ObservationSet
<1>1. /\ o = [source |-> o.source, sequence |-> o.sequence, flow |-> o.flow,
              generation |-> o.generation, peer |-> o.peer, queue |-> o.queue,
              link |-> o.link, hops |-> o.hops, flowKey |-> o.flowKey, peerKey |-> o.peerKey]
      /\ {o.source, o.sequence, o.flow, o.generation, o.peer} \subseteq Nat
      /\ {o.queue, o.link} \subseteq Nat \cup {None} /\ o.hops \in Seq(Nat)
      /\ {o.flowKey, o.peerKey} \subseteq DOMAIN KeyBytes
      /\ UnregisteredKey[o.source] \in DOMAIN KeyBytes
  BY SnapshotAssumption
<1>2. Valid(o) => o \in ObservationSet
  BY <1>1 DEF Valid, ObservationSet
<1> QED
  BY <1>1, <1>2

LEMMA PushedTyped ==
  ASSUME NEW log \in Seq(Nat), NEW x \in Nat, NEW max \in Nat \ {0}, Len(log) <= max
  PROVE  Pushed(log, x, max) \in Seq(Nat) /\ Len(Pushed(log, x, max)) <= max
<1>1. CASE Len(log) < max
  <2>1. Append(log, x) \in Seq(Nat) /\ Len(Append(log, x)) = Len(log) + 1
    OBVIOUS
  <2> QED
    BY <1>1, <2>1 DEF Pushed
<1>2. CASE ~(Len(log) < max)
  <2>1. log # <<>>
    BY <1>2
  <2>2. PICK t : t = Tail(log)
    OBVIOUS
  <2>3. t \in Seq(Nat) /\ Len(t) = Len(log) - 1
    BY <2>1, <2>2
  <2>4. Append(t, x) \in Seq(Nat) /\ Len(Append(t, x)) = Len(t) + 1
    BY <2>3
  <2>5. Len(Append(t, x)) <= max
    BY <2>3, <2>4
  <2> QED
    BY <1>2, <2>2, <2>4, <2>5 DEF Pushed
<1> QED
  BY <1>1, <1>2

LEMMA NoPeers == SoundPeers(Empty)
<1>1. Empty = [p \in DOMAIN Empty |-> Empty[p]] /\ DOMAIN Empty = {}
  BY DEF Empty
<1>2. IsFiniteSet({}) /\ Cardinality({}) <= MaxFlows
  BY FS_EmptySet, Limits
<1> HIDE DEF Empty
<1> QED
  BY <1>1, <1>2 DEF SoundPeers

\* The other bounds of the engine's logs.
LEMMA Positive ==
  /\ MaxHistory \in Nat \ {0} /\ MaxAnomalies \in Nat \ {0} /\ MaxGenerations \in Nat \ {0}
  /\ MaxPathHops \in Nat /\ MaxSourceHops \in Nat /\ MaxPathHops <= MaxSourceHops
  BY CodecAssumption DEF MaxSourceHops

LEMMA NoteSound ==
  ASSUME NEW known, NEW flow, SoundFlow(flow, known), NEW detail \in Nat
  PROVE  SoundFlow(Note(flow, detail), known)
<1> DEFINE anomalies == Pushed(flow.anomalies, detail, MaxAnomalies)
           dropped == flow.anomaliesDropped
                        + (IF Len(flow.anomalies) < MaxAnomalies THEN 0 ELSE 1)
<1>1. Note(flow, detail) =
        [key |-> flow.key, current |-> flow.current, generations |-> flow.generations,
         history |-> flow.history, historyDropped |-> flow.historyDropped,
         anomalies |-> anomalies, anomaliesDropped |-> dropped]
  <2>1. PICK k, c, g, h, d, a, l :
          flow = [key |-> k, current |-> c, generations |-> g, history |-> h,
                  historyDropped |-> d, anomalies |-> a, anomaliesDropped |-> l]
    BY DEF SoundFlow
  <2>2. PICK a2, l2 : a2 = anomalies /\ l2 = dropped
    OBVIOUS
  <2>3. Note(flow, detail) = [flow EXCEPT !.anomalies = a2, !.anomaliesDropped = l2]
    BY <2>1, <2>2 DEF Note
  <2>4. Note(flow, detail) = [key |-> k, current |-> c, generations |-> g, history |-> h,
                  historyDropped |-> d, anomalies |-> a2, anomaliesDropped |-> l2]
    BY ONLY <2>1, <2>3
  <2> QED
    BY ONLY <2>1, <2>2, <2>4
<1>2. anomalies \in Seq(Nat) /\ Len(anomalies) <= MaxAnomalies
  BY Positive, PushedTyped DEF SoundFlow
<1>3. dropped \in Nat
  BY DEF SoundFlow
<1> HIDE DEF anomalies, dropped
<1> QED
  BY <1>1, <1>2, <1>3 DEF SoundFlow

LEMMA NewFlowSound ==
  ASSUME NEW known, NEW o \in Observations, Valid(o)
  PROVE  SoundFlow(NewFlow(o), known)
<1>1. o.flowKey \in DOMAIN KeyBytes /\ KeyBytes[o.flowKey] <= MaxKeyBytes
  BY ObservationIs DEF Valid
<1>2. Empty = [g \in DOMAIN Empty |-> Empty[g]] /\ DOMAIN Empty = {}
  BY DEF Empty
<1>3. IsFiniteSet({}) /\ Cardinality({}) = 0
  BY FS_EmptySet
<1>4. <<>> \in Seq(Nat) /\ Len(<<>>) = 0
  BY EmptySeq
<1> HIDE DEF Empty
<1> QED
  BY <1>1, <1>2, <1>3, <1>4, Limits DEF NewFlow, SoundFlow

LEMMA KnownGrows ==
  ASSUME NEW known, NEW more, known \subseteq more, NEW flow, SoundFlow(flow, known)
  PROVE  SoundFlow(flow, more)
  BY DEF SoundFlow, SoundGeneration

LEMMA ExtendedTyped ==
  ASSUME NEW b \in BindingSet, NEW o \in Observations, Valid(o)
  PROVE  Extended(b, o) \in BindingSet
<1>1. /\ b.accepted \in Nat /\ b.hops \in Seq(Nat) /\ b.links \in Seq(Nat) /\ b.queues \in Seq(Nat)
      /\ Len(b.hops) <= MaxSourceHops
  BY DEF BindingSet
<1>2. /\ o.queue \in Nat \cup {None} /\ o.link \in Nat \cup {None} /\ o.hops \in Seq(Nat)
      /\ Len(o.hops) <= MaxSourceHops
  BY ObservationIs, Positive DEF Valid
<1>3. PICK links \in Seq(Nat) : links = Named(b.links, o.link)
  BY <1>1, <1>2, NamedTyped
<1>4. PICK queues \in Seq(Nat) : queues = Named(b.queues, o.queue)
  BY <1>1, <1>2, NamedTyped
<1>5. PICK hops \in Seq(Nat) : hops = (IF b.hops = <<>> THEN o.hops ELSE b.hops)
                               /\ Len(hops) <= MaxSourceHops
  BY <1>1, <1>2
<1>6. PICK accepted \in Nat : accepted = b.accepted + 1
  BY <1>1
<1>7. Extended(b, o) = [accepted |-> accepted, hops |-> hops, links |-> links, queues |-> queues]
  BY <1>3, <1>4, <1>5, <1>6 DEF Extended
<1> QED
  BY <1>5, <1>7 DEF BindingSet

LEMMA NewBindingTyped == NewBinding \in BindingSet
  BY EmptySeq, Positive DEF NewBinding, BindingSet

LEMMA LargerOfTwo ==
  ASSUME NEW a \in Nat, NEW b \in Nat PROVE Max({a, b}) \in Nat
<1>1. {a, b} \in SUBSET Nat /\ {a, b} # {} /\ IsFiniteSet({a, b})
  <2>1. IsFiniteSet({a})
    BY FS_Singleton
  <2>2. IsFiniteSet({a} \cup {b})
    BY ONLY <2>1, FS_AddElement
  <2>3. {a, b} = {a} \cup {b}
    OBVIOUS
  <2> QED
    BY <2>2, <2>3
<1>2. Max({a, b}) \in {a, b}
  BY <1>1, Extremes
<1> QED
  BY <1>2

\* The generations of a flow after one more observation.
Generation(flow, g) == IF g \in DOMAIN flow.generations THEN flow.generations[g] ELSE Empty

Binding(gen, s) == IF s \in DOMAIN gen THEN gen[s] ELSE NewBinding

Observed(flow, o) ==
  With(flow.generations, o.generation,
       With(Generation(flow, o.generation), o.source,
            Extended(Binding(Generation(flow, o.generation), o.source), o)))

\* The flow that Evidenced starts from.
Noted(flow, o) == IF o.generation < flow.current THEN Note(flow, 1) ELSE flow

LEMMA NoteIs ==
  ASSUME NEW known, NEW flow, SoundFlow(flow, known), NEW detail
  PROVE  Note(flow, detail) =
           [key |-> flow.key, current |-> flow.current, generations |-> flow.generations,
            history |-> flow.history, historyDropped |-> flow.historyDropped,
            anomalies |-> Pushed(flow.anomalies, detail, MaxAnomalies),
            anomaliesDropped |-> flow.anomaliesDropped
                                   + (IF Len(flow.anomalies) < MaxAnomalies THEN 0 ELSE 1)]
<1>1. PICK k, c, g, h, d, a, l :
        flow = [key |-> k, current |-> c, generations |-> g, history |-> h,
                historyDropped |-> d, anomalies |-> a, anomaliesDropped |-> l]
  BY DEF SoundFlow
<1>2. PICK a2, l2 : /\ a2 = Pushed(flow.anomalies, detail, MaxAnomalies)
                    /\ l2 = flow.anomaliesDropped
                              + (IF Len(flow.anomalies) < MaxAnomalies THEN 0 ELSE 1)
  OBVIOUS
<1>3. Note(flow, detail) = [flow EXCEPT !.anomalies = a2, !.anomaliesDropped = l2]
  BY <1>1, <1>2 DEF Note
<1>4. Note(flow, detail) = [key |-> k, current |-> c, generations |-> g, history |-> h,
                historyDropped |-> d, anomalies |-> a2, anomaliesDropped |-> l2]
  BY ONLY <1>1, <1>3
<1> QED
  BY ONLY <1>1, <1>2, <1>4

LEMMA EvidencedIs ==
  ASSUME NEW known, NEW flow, SoundFlow(flow, known), NEW o \in Observations,
         SoundFlow(Noted(flow, o), known)
  PROVE  Evidenced(flow, o) =
           [key |-> flow.key, current |-> Max({flow.current, o.generation}),
            generations |-> Observed(flow, o),
            history |-> flow.history, historyDropped |-> flow.historyDropped,
            anomalies |-> Noted(flow, o).anomalies,
            anomaliesDropped |-> Noted(flow, o).anomaliesDropped]
<1>1. PICK n : n = Noted(flow, o)
  OBVIOUS
<1>2. PICK k, c, g, h, d, a, l :
        n = [key |-> k, current |-> c, generations |-> g, history |-> h,
             historyDropped |-> d, anomalies |-> a, anomaliesDropped |-> l]
  BY <1>1 DEF SoundFlow
<1>3. /\ n.key = flow.key /\ n.current = flow.current /\ n.generations = flow.generations
      /\ n.history = flow.history /\ n.historyDropped = flow.historyDropped
  <2>1. CASE o.generation < flow.current
    <3>1. n = Note(flow, 1)
      BY <1>1, <2>1 DEF Noted
    <3> QED
      BY <3>1, NoteIs
  <2>2. CASE ~(o.generation < flow.current)
    BY <1>1, <2>2 DEF Noted
  <2> QED
    BY <2>1, <2>2
<1>4. PICK c2, g2 : c2 = Max({flow.current, o.generation}) /\ g2 = Observed(flow, o)
  OBVIOUS
<1>5. Evidenced(flow, o) = [n EXCEPT !.current = c2, !.generations = g2]
  <2>1. n = IF o.generation < flow.current THEN Note(flow, 1) ELSE flow
    BY <1>1 DEF Noted
  <2>2. g2 = With(n.generations, o.generation,
                  With(IF o.generation \in DOMAIN flow.generations
                       THEN flow.generations[o.generation] ELSE Empty, o.source,
                       Extended(IF o.source \in DOMAIN (IF o.generation \in DOMAIN flow.generations
                                                        THEN flow.generations[o.generation]
                                                        ELSE Empty)
                                THEN (IF o.generation \in DOMAIN flow.generations
                                      THEN flow.generations[o.generation] ELSE Empty)[o.source]
                                ELSE NewBinding, o)))
    BY <1>3, <1>4 DEF Observed, Generation, Binding
  <2>3. c2 = Max({n.current, o.generation})
    BY <1>3, <1>4
  <2> HIDE DEF With, Extended, Note, Max, Empty, NewBinding
  <2> QED
    BY ONLY <1>2, <2>1, <2>2, <2>3 DEF Evidenced
<1>6. Evidenced(flow, o) = [key |-> k, current |-> c2, generations |-> g2, history |-> h,
             historyDropped |-> d, anomalies |-> a, anomaliesDropped |-> l]
  BY ONLY <1>2, <1>5
<1>7. /\ k = flow.key /\ h = flow.history /\ d = flow.historyDropped
      /\ a = n.anomalies /\ l = n.anomaliesDropped
  BY ONLY <1>2, <1>3
<1> QED
  BY ONLY <1>1, <1>4, <1>6, <1>7

LEMMA NotedSound ==
  ASSUME NEW known, NEW flow, SoundFlow(flow, known), NEW o
  PROVE  SoundFlow(Noted(flow, o), known)
<1>1. 1 \in Nat
  OBVIOUS
<1>2. SoundFlow(Note(flow, 1), known)
  BY <1>1, NoteSound
<1> QED
  BY <1>2 DEF Noted

LEMMA ObservedSound ==
  ASSUME NEW known, NEW flow, SoundFlow(flow, known), NEW o \in Observations, Valid(o),
         o.source \in known, known \subseteq Nat
  PROVE  LET gens == Observed(flow, o)
         IN  /\ gens = [g \in DOMAIN gens |-> gens[g]]
             /\ DOMAIN gens = DOMAIN flow.generations \cup {o.generation}
             /\ \A g \in DOMAIN gens : SoundGeneration(gens[g], known)
<1>1. PICK g, s : g = o.generation /\ s = o.source
  OBVIOUS
<1>2. PICK old : old = flow.generations
  OBVIOUS
<1>3. \A x \in DOMAIN old : SoundGeneration(old[x], known)
  BY <1>2 DEF SoundFlow
<1>4. PICK gen : gen = Generation(flow, g)
  OBVIOUS
<1>5. SoundGeneration(gen, known)
  <2>1. SoundGeneration(Empty, known)
    <3>1. Empty = [x \in DOMAIN Empty |-> Empty[x]] /\ DOMAIN Empty = {}
      BY DEF Empty
    <3> HIDE DEF Empty
    <3> QED
      BY <3>1 DEF SoundGeneration
  <2> HIDE DEF Empty
  <2> QED
    BY <1>2, <1>3, <1>4, <2>1 DEF Generation
<1>6. PICK b \in BindingSet : b = Binding(gen, s)
  BY <1>5, NewBindingTyped DEF Binding, SoundGeneration
<1>7. PICK e \in BindingSet : e = Extended(b, o)
  BY ExtendedTyped
<1>8. PICK new : new = With(gen, s, e)
  OBVIOUS
<1>9. SoundGeneration(new, known)
  <2>1. /\ DOMAIN new = DOMAIN gen \cup {s} /\ new[s] = e
        /\ \A z \in DOMAIN gen : z # s => new[z] = gen[z]
        /\ new = [z \in DOMAIN new |-> new[z]]
    BY <1>8 DEF With
  <2> QED
    BY <1>1, <1>5, <2>1 DEF SoundGeneration
<1>10. PICK gens : gens = Observed(flow, o)
  OBVIOUS
<1>11. gens = With(old, g, new)
  BY <1>1, <1>2, <1>4, <1>6, <1>7, <1>8, <1>10 DEF Observed
<1>12. /\ DOMAIN gens = DOMAIN old \cup {g} /\ gens[g] = new
       /\ \A z \in DOMAIN old : z # g => gens[z] = old[z]
       /\ gens = [z \in DOMAIN gens |-> gens[z]]
  BY <1>11 DEF With
<1>13. \A z \in DOMAIN gens : SoundGeneration(gens[z], known)
  BY <1>3, <1>9, <1>12
<1> QED
  BY <1>1, <1>2, <1>10, <1>12, <1>13

LEMMA EvidencedSound ==
  ASSUME NEW known, NEW flow, SoundFlow(flow, known), NEW o \in Observations, Valid(o),
         o.source \in known, known \subseteq Nat,
         \/ o.generation \in DOMAIN flow.generations
         \/ Cardinality(DOMAIN flow.generations) < MaxGenerations
  PROVE  SoundFlow(Evidenced(flow, o), known)
<1>1. PICK n : n = Noted(flow, o) /\ SoundFlow(n, known)
  BY NotedSound
<1>2. PICK current \in Nat : current = Max({flow.current, o.generation})
  BY ObservationIs, LargerOfTwo DEF SoundFlow
<1>3. PICK gens : gens = Observed(flow, o)
  OBVIOUS
<1>4. /\ gens = [g \in DOMAIN gens |-> gens[g]]
      /\ DOMAIN gens = DOMAIN flow.generations \cup {o.generation}
      /\ \A g \in DOMAIN gens : SoundGeneration(gens[g], known)
  BY <1>3, ObservedSound
<1>5. /\ IsFiniteSet(DOMAIN gens) /\ DOMAIN gens \subseteq Nat
      /\ Cardinality(DOMAIN gens) <= MaxGenerations
  <2>1. PICK D : D = DOMAIN flow.generations
    OBVIOUS
  <2>2. /\ IsFiniteSet(D) /\ D \subseteq Nat /\ Cardinality(D) \in Nat
        /\ Cardinality(D) <= MaxGenerations /\ o.generation \in Nat
    BY <2>1, ObservationIs, FS_CardinalityType DEF SoundFlow
  <2>3. /\ IsFiniteSet(D \cup {o.generation})
        /\ Cardinality(D \cup {o.generation}) =
             IF o.generation \in D THEN Cardinality(D) ELSE Cardinality(D) + 1
    BY <2>2, FS_AddElement
  <2>4. Cardinality(D \cup {o.generation}) <= MaxGenerations
    <3>1. CASE o.generation \in D
      BY <2>2, <2>3, <3>1
    <3>2. CASE o.generation \notin D
      <4>1. Cardinality(D) < MaxGenerations
        BY <2>1, <3>2
      <4>2. \A c \in Nat, d \in Nat : c < d => c + 1 <= d
        OBVIOUS
      <4> QED
        BY <2>2, <2>3, <3>2, <4>1, <4>2, Positive
    <3> QED
      BY <3>1, <3>2
  <2> QED
    BY <1>4, <2>1, <2>2, <2>3, <2>4
<1>6. Evidenced(flow, o) =
        [key |-> flow.key, current |-> current, generations |-> gens, history |-> flow.history,
         historyDropped |-> flow.historyDropped, anomalies |-> n.anomalies,
         anomaliesDropped |-> n.anomaliesDropped]
  BY <1>1, <1>2, <1>3, EvidencedIs
<1>7. PICK e : e = Evidenced(flow, o)
  OBVIOUS
<1>8. /\ e.key = flow.key /\ e.current = current /\ e.generations = gens
      /\ e.history = flow.history /\ e.historyDropped = flow.historyDropped
      /\ e.anomalies = n.anomalies /\ e.anomaliesDropped = n.anomaliesDropped
      /\ e = [key |-> e.key, current |-> e.current, generations |-> e.generations,
              history |-> e.history, historyDropped |-> e.historyDropped,
              anomalies |-> e.anomalies, anomaliesDropped |-> e.anomaliesDropped]
  BY <1>6, <1>7
<1>9. /\ flow.key \in DOMAIN KeyBytes /\ KeyBytes[flow.key] <= MaxKeyBytes
      /\ flow.history \in Seq(Nat) /\ Len(flow.history) <= MaxHistory
      /\ flow.historyDropped \in Nat
      /\ n.anomalies \in Seq(Nat) /\ Len(n.anomalies) <= MaxAnomalies /\ n.anomaliesDropped \in Nat
  BY <1>1 DEF SoundFlow
<1> QED
  BY ONLY <1>4, <1>5, <1>7, <1>8, <1>9, current \in Nat DEF SoundFlow

\* The evidence of a source that is registered leaves the engine sound.
LEMMA FlowAppliedSound ==
  ASSUME NEW m, Sound(m), NEW o \in Observations, Valid(o), o.source \in DOMAIN m.sources
  PROVE  Sound(ApplyToFlow(m, o)) /\ ApplyToFlow(m, o).sources = m.sources
<1>1. PICK known : known = DOMAIN m.sources /\ known \subseteq Nat /\ o.source \in known
  BY DEF Sound, SoundSources
<1>2. PICK ss, fs, ps : m = [sources |-> ss, flows |-> fs, peers |-> ps]
  BY DEF Sound
<1>3. /\ SoundSources(ss) /\ SoundFlows(fs, known) /\ DOMAIN ss = known
      /\ SoundPeers(ps)
  BY <1>1, <1>2 DEF Sound
<1>4. PICK flow : /\ flow = (IF o.flow \in DOMAIN m.flows THEN m.flows[o.flow] ELSE NewFlow(o))
                  /\ SoundFlow(flow, known)
  BY <1>2, <1>3, NewFlowSound DEF SoundFlows
<1>5. ASSUME NEW new, SoundFlow(new, known)
      PROVE  SoundFlows(With(fs, o.flow, new), known)
  <2>1. PICK gs : gs = With(fs, o.flow, new)
    OBVIOUS
  <2>2. /\ DOMAIN gs = DOMAIN fs \cup {o.flow} /\ gs[o.flow] = new
        /\ \A z \in DOMAIN fs : z # o.flow => gs[z] = fs[z]
        /\ gs = [z \in DOMAIN gs |-> gs[z]]
    BY <2>1 DEF With
  <2>3. IsFiniteSet(DOMAIN gs) /\ DOMAIN gs \subseteq Nat
    BY <1>3, <2>2, FS_AddElement, ObservationIs DEF SoundFlows
  <2>4. \A z \in DOMAIN gs : SoundFlow(gs[z], known)
    BY <1>3, <1>5, <2>2 DEF SoundFlows
  <2> QED
    BY <2>1, <2>2, <2>3, <2>4 DEF SoundFlows
<1>6. ASSUME NEW gs, SoundFlows(gs, known), NEW qs, SoundPeers(qs),
             NEW r, r = [sources |-> ss, flows |-> gs, peers |-> qs]
      PROVE  Sound(r) /\ r.sources = m.sources
  BY <1>2, <1>3, <1>6 DEF Sound
<1>7. CASE Collides(m, o)
  <2>1. PICK detail \in Nat :
          detail = KeyBytes[m.peers[o.peer]] + KeyBytes[o.peerKey] + DetailOverhead
    <3>1. m.peers[o.peer] \in DOMAIN KeyBytes /\ o.peerKey \in DOMAIN KeyBytes
      BY <1>2, <1>3, <1>7, ObservationIs DEF Collides, SoundPeers
    <3>2. KeyBytes[m.peers[o.peer]] \in Nat /\ KeyBytes[o.peerKey] \in Nat /\ DetailOverhead \in Nat
      BY <3>1, Limits, SnapshotAssumption
    <3> QED
      BY <3>2
  <2>2. PICK gs : gs = With(fs, o.flow, Note(flow, detail)) /\ SoundFlows(gs, known)
    BY <1>4, <1>5, NoteSound
  <2>3. ApplyToFlow(m, o) = [m EXCEPT !.flows = gs]
    BY <1>2, <1>4, <1>7, <2>1, <2>2 DEF ApplyToFlow
  <2>4. ApplyToFlow(m, o) = [sources |-> ss, flows |-> gs, peers |-> ps]
    BY ONLY <1>2, <2>3
  <2> QED
    BY <1>3, <1>6, <2>2, <2>4
<1>8. CASE ~Collides(m, o) /\ RegistryFull(m, o)
  <2>1. 1 \in Nat
    OBVIOUS
  <2>2. PICK gs : gs = With(fs, o.flow, Note(flow, 1)) /\ SoundFlows(gs, known)
    BY <1>4, <1>5, <2>1, NoteSound
  <2>3. ApplyToFlow(m, o) = [m EXCEPT !.flows = gs]
    BY <1>2, <1>4, <1>8, <2>2 DEF ApplyToFlow
  <2>4. ApplyToFlow(m, o) = [sources |-> ss, flows |-> gs, peers |-> ps]
    BY ONLY <1>2, <2>3
  <2> QED
    BY <1>3, <1>6, <2>2, <2>4
<1>9. CASE ~Collides(m, o) /\ ~RegistryFull(m, o)
  <2>1. PICK qs : qs = IF o.peer = 0 THEN m.peers ELSE With(m.peers, o.peer, o.peerKey)
    OBVIOUS
  <2>2. SoundPeers(qs)
    <3>1. CASE o.peer = 0
      BY <1>2, <1>3, <2>1, <3>1
    <3>2. CASE o.peer # 0
      <4>1. qs = With(ps, o.peer, o.peerKey)
        BY <1>2, <2>1, <3>2
      <4>2. /\ DOMAIN qs = DOMAIN ps \cup {o.peer} /\ qs[o.peer] = o.peerKey
            /\ \A z \in DOMAIN ps : z # o.peer => qs[z] = ps[z]
            /\ qs = [z \in DOMAIN qs |-> qs[z]]
        BY <4>1 DEF With
      <4>3. PICK P : P = DOMAIN ps /\ IsFiniteSet(P) /\ Cardinality(P) \in Nat
                     /\ Cardinality(P) <= MaxFlows
        BY <1>3, FS_CardinalityType DEF SoundPeers
      <4>4. o.peer \in P \/ ~(Cardinality(P) >= MaxFlows)
        BY <1>2, <1>9, <3>2, <4>3 DEF RegistryFull
      <4>5. /\ IsFiniteSet(P \cup {o.peer})
            /\ Cardinality(P \cup {o.peer}) =
                 IF o.peer \in P THEN Cardinality(P) ELSE Cardinality(P) + 1
        BY <4>3, FS_AddElement
      <4>6. \A c \in Nat, d \in Nat : ~(c >= d) => c + 1 <= d
        OBVIOUS
      <4>7. Cardinality(P \cup {o.peer}) <= MaxFlows
        BY <4>3, <4>4, <4>5, <4>6, Limits
      <4> QED
        BY <1>3, <4>2, <4>3, <4>5, <4>7, ObservationIs DEF SoundPeers
    <3> QED
      BY <3>1, <3>2
  <2>3. PICK full : full = (/\ o.generation \notin DOMAIN flow.generations
                            /\ Cardinality(DOMAIN flow.generations) >= MaxGenerations)
    OBVIOUS
  <2>4. PICK new : new = (IF full THEN Note(flow, 1) ELSE Evidenced(flow, o)) /\ SoundFlow(new, known)
    <3>1. SoundFlow(Note(flow, 1), known)
      <4>1. 1 \in Nat
        OBVIOUS
      <4> QED
        BY <1>4, <4>1, NoteSound
    <3>2. ~full => SoundFlow(Evidenced(flow, o), known)
      <4> SUFFICES ASSUME ~full PROVE SoundFlow(Evidenced(flow, o), known)
        OBVIOUS
      <4>1. Cardinality(DOMAIN flow.generations) \in Nat
        BY <1>4, FS_CardinalityType DEF SoundFlow
      <4>2. \/ o.generation \in DOMAIN flow.generations
            \/ Cardinality(DOMAIN flow.generations) < MaxGenerations
        BY <2>3, <4>1, Positive
      <4> QED
        BY <1>1, <1>4, <4>2, EvidencedSound
    <3> QED
      BY <3>1, <3>2
  <2>5. PICK gs : gs = With(fs, o.flow, new) /\ SoundFlows(gs, known)
    BY <1>5, <2>4
  <2>6. ApplyToFlow(m, o) = [m EXCEPT !.peers = qs, !.flows = gs]
    BY <1>2, <1>4, <1>9, <2>1, <2>3, <2>4, <2>5 DEF ApplyToFlow
  <2>7. ApplyToFlow(m, o) = [sources |-> ss, flows |-> gs, peers |-> qs]
    BY ONLY <1>2, <2>6
  <2> QED
    BY <1>6, <2>2, <2>5, <2>7
<1> QED
  BY <1>7, <1>8, <1>9

LEMMA SourcesGrow ==
  ASSUME NEW m, Sound(m), NEW ss, SoundSources(ss), DOMAIN m.sources \subseteq DOMAIN ss,
         NEW r, r = [sources |-> ss, flows |-> m.flows, peers |-> m.peers]
  PROVE  Sound(r)
<1>1. r.sources = ss /\ r.flows = m.flows /\ r.peers = m.peers
  OBVIOUS
<1>2. PICK known, more : known = DOMAIN m.sources /\ more = DOMAIN ss /\ known \subseteq more
  OBVIOUS
<1>3. PICK fs : fs = m.flows /\ SoundFlows(fs, known)
  BY <1>2 DEF Sound
<1>4. SoundFlows(fs, more)
  <2>1. \A f \in DOMAIN fs : SoundFlow(fs[f], more)
    BY <1>2, <1>3, KnownGrows DEF SoundFlows
  <2> QED
    BY <1>3, <2>1 DEF SoundFlows
<1> QED
  BY <1>1, <1>2, <1>3, <1>4 DEF Sound

LEMMA SourceAdded ==
  ASSUME NEW ss, SoundSources(ss), NEW s \in Nat, NEW e \in EntrySet
  PROVE  SoundSources(With(ss, s, e))
<1>1. PICK w : w = With(ss, s, e)
  OBVIOUS
<1>2. /\ DOMAIN w = DOMAIN ss \cup {s} /\ w[s] = e /\ \A z \in DOMAIN ss : z # s => w[z] = ss[z]
      /\ w = [z \in DOMAIN w |-> w[z]]
  BY <1>1 DEF With
<1>3. IsFiniteSet(DOMAIN w)
  BY <1>2, FS_AddElement DEF SoundSources
<1> QED
  BY <1>1, <1>2, <1>3 DEF SoundSources

LEMMA WithSourceSound ==
  ASSUME NEW m, Sound(m), NEW o \in Observations
  PROVE  /\ Sound(WithSource(m, o.source))
         /\ DOMAIN m.sources \subseteq DOMAIN WithSource(m, o.source).sources
<1>1. PICK s \in Nat : s = o.source
  BY ObservationIs
<1>2. CASE s \in DOMAIN m.sources \/ Cardinality(DOMAIN m.sources) >= MaxSources
  BY <1>1, <1>2 DEF WithSource
<1>3. CASE ~(s \in DOMAIN m.sources \/ Cardinality(DOMAIN m.sources) >= MaxSources)
  <2>1. PICK e \in EntrySet : e = Unregistered(s)
    BY <1>1, ObservationIs DEF Unregistered, EntrySet
  <2>2. PICK ss : ss = With(m.sources, s, e) /\ SoundSources(ss)
    BY <2>1, SourceAdded DEF Sound
  <2>3. DOMAIN m.sources \subseteq DOMAIN ss
    BY <2>2 DEF With
  <2>4. WithSource(m, s) = [sources |-> ss, flows |-> m.flows, peers |-> m.peers]
    <3>1. PICK a, b, c : m = [sources |-> a, flows |-> b, peers |-> c]
      BY DEF Sound
    <3>2. WithSource(m, s) = [m EXCEPT !.sources = ss]
      BY <1>3, <2>1, <2>2, <3>1 DEF WithSource
    <3> QED
      BY ONLY <3>1, <3>2
  <2> QED
    BY <1>1, <2>2, <2>3, <2>4, SourcesGrow
<1> QED
  BY <1>2, <1>3

\* An observation leaves the engine sound and changes the sources only as
\* the registry does.
LEMMA ApplySound ==
  ASSUME NEW m, Sound(m), NEW o \in Observations
  PROVE  /\ Sound(Apply(m, o))
         /\ Apply(m, o).sources =
              IF Valid(o) THEN WithSource(m, o.source).sources ELSE m.sources
         /\ DOMAIN m.sources \subseteq DOMAIN Apply(m, o).sources
<1>1. CASE ~Valid(o)
  BY <1>1 DEF Apply
<1>2. CASE Valid(o)
  <2>1. PICK n : /\ n = WithSource(m, o.source) /\ Sound(n)
                 /\ DOMAIN m.sources \subseteq DOMAIN n.sources
    BY WithSourceSound
  <2>2. CASE \/ SourceRefused(n, o.source)
             \/ o.flow \notin DOMAIN m.flows /\ Cardinality(DOMAIN m.flows) >= MaxFlows
    <3>1. Apply(m, o) = n
      BY <1>2, <2>1, <2>2 DEF Apply
    <3> QED
      BY <1>2, <2>1, <3>1
  <2>3. CASE ~(\/ SourceRefused(n, o.source)
               \/ o.flow \notin DOMAIN m.flows /\ Cardinality(DOMAIN m.flows) >= MaxFlows)
    <3>1. Apply(m, o) = ApplyToFlow(n, o)
      BY <1>2, <2>1, <2>3 DEF Apply
    <3>2. o.source \in DOMAIN n.sources
      BY <2>3 DEF SourceRefused
    <3> QED
      BY <1>2, <2>1, <3>1, <3>2, FlowAppliedSound
  <2> QED
    BY <2>2, <2>3
<1> QED
  BY <1>1, <1>2

\* A flow that was decided anew has more transitions and is the same otherwise.
Decided(flow, r) ==
  /\ r.key = flow.key /\ r.current = flow.current /\ r.generations = flow.generations
  /\ r.anomalies = flow.anomalies /\ r.anomaliesDropped = flow.anomaliesDropped

LEMMA LoggedSound ==
  ASSUME NEW known, NEW flow, SoundFlow(flow, known), NEW n \in Nat,
         NEW events \in [1 .. n -> DOMAIN flow.generations]
  PROVE  SoundFlow(Logged(flow, events), known) /\ Decided(flow, Logged(flow, events))
<1>1. PICK k, c, g, h, d, a, l :
        flow = [key |-> k, current |-> c, generations |-> g, history |-> h,
                historyDropped |-> d, anomalies |-> a, anomaliesDropped |-> l]
  BY DEF SoundFlow
<1>2. h \in Seq(Nat) /\ d \in Nat /\ DOMAIN g \subseteq Nat
  BY <1>1 DEF SoundFlow
<1>3. events \in [1 .. n -> Nat]
  BY <1>1, <1>2
<1>4. events \in Seq(Nat)
  BY <1>3
<1>5. PICK log \in Seq(Nat) : log = h \o events
  <2>1. \A x, y \in Seq(Nat) : x \o y \in Seq(Nat)
    OBVIOUS
  <2> QED
    BY <1>2, <1>4, <2>1
<1>6. PICK size \in Nat : size = Len(log)
  BY <1>5
<1>7. PICK over \in Nat : over = IF size > MaxHistory THEN size - MaxHistory ELSE 0
  <2>1. \A x, y \in Nat : (IF x > y THEN x - y ELSE 0) \in Nat
    OBVIOUS
  <2>2. MaxHistory \in Nat
    BY Limits
  <2> QED
    BY <2>1, <2>2
<1>8. PICK h2 \in Seq(Nat) : h2 = SubSeq(log, over + 1, size) /\ Len(h2) <= MaxHistory
  <2>1. \A i \in over + 1 .. size : i \in 1 .. Len(log)
    BY <1>6, <1>7
  <2>2. SubSeq(log, over + 1, size) \in Seq(Nat)
    BY <1>5, <1>6, <1>7, <2>1
  <2>3. Len(SubSeq(log, over + 1, size)) = IF over + 1 <= size THEN size - over ELSE 0
    BY <1>5, <1>6, <1>7
  <2>4. Len(SubSeq(log, over + 1, size)) <= MaxHistory
    BY <1>6, <1>7, <2>3, Positive
  <2> QED
    BY <2>2, <2>4
<1>9. PICK d2 \in Nat : d2 = d + over
  BY <1>2, <1>7
<1>10. PICK r : r = Logged(flow, events)
  OBVIOUS
<1>11. r = [flow EXCEPT !.history = h2, !.historyDropped = d2]
  BY <1>1, <1>5, <1>6, <1>7, <1>8, <1>9, <1>10 DEF Logged
<1>12. r = [key |-> k, current |-> c, generations |-> g, history |-> h2,
            historyDropped |-> d2, anomalies |-> a, anomaliesDropped |-> l]
  BY ONLY <1>1, <1>11
<1>13. /\ r.key = k /\ r.current = c /\ r.generations = g /\ r.history = h2
       /\ r.historyDropped = d2 /\ r.anomalies = a /\ r.anomaliesDropped = l
  BY <1>12
<1>14. /\ flow.key = k /\ flow.current = c /\ flow.generations = g
       /\ flow.anomalies = a /\ flow.anomaliesDropped = l
  BY <1>1
<1>15. SoundFlow(r, known)
  BY <1>8, <1>9, <1>12, <1>13, <1>14 DEF SoundFlow
<1> QED
  BY <1>10, <1>13, <1>14, <1>15 DEF Decided

LEMMA RecomputedSound ==
  ASSUME NEW known, NEW flow, SoundFlow(flow, known), NEW r \in Recomputed(flow)
  PROVE  SoundFlow(r, known) /\ Decided(flow, r)
<1>1. PICK room : room = (MaxHistory - Len(flow.history)) + (MaxDropped - flow.historyDropped)
  OBVIOUS
<1>2. \E n \in 0 .. room : \E events \in [1 .. n -> DOMAIN flow.generations] :
        r = Logged(flow, events)
  BY <1>1 DEF Recomputed
<1>3. PICK n \in 0 .. room : \E events \in [1 .. n -> DOMAIN flow.generations] :
                               r = Logged(flow, events)
  BY <1>2
<1>4. n \in Nat
  <2>1. MaxHistory \in Nat /\ MaxDropped \in Nat /\ Len(flow.history) \in Nat
        /\ flow.historyDropped \in Nat
    BY Positive, SnapshotAssumption DEF SoundFlow
  <2> QED
    BY <1>1, <2>1
<1> QED
  BY <1>3, <1>4, LoggedSound

\* The engine after recompute_flow ran over some of its flows.
LEMMA SettledIs ==
  ASSUME NEW m, Sound(m), NEW fs, fs \subseteq DOMAIN m.flows, NEW n \in Settled(m, fs)
  PROVE  /\ Sound(n) /\ n.sources = m.sources /\ n.peers = m.peers
         /\ DOMAIN n.flows = DOMAIN m.flows
         /\ \A f \in DOMAIN m.flows : n.flows[f] = m.flows[f] \/ Decided(m.flows[f], n.flows[f])
<1>1. PICK later :
        /\ \A f \in fs : later[f] \in Recomputed(m.flows[f])
        /\ n = [m EXCEPT !.flows = [f \in DOMAIN @ |-> IF f \in fs THEN later[f] ELSE @[f]]]
  BY DEF Settled
<1>2. PICK ss, ms, ps : m = [sources |-> ss, flows |-> ms, peers |-> ps]
  BY DEF Sound
<1>3. PICK gs : gs = [f \in DOMAIN ms |-> IF f \in fs THEN later[f] ELSE ms[f]]
  OBVIOUS
<1>4. n = [m EXCEPT !.flows = gs]
  BY <1>1, <1>2, <1>3
<1>5. n = [sources |-> ss, flows |-> gs, peers |-> ps]
  BY ONLY <1>2, <1>4
<1>6. SoundSources(ss) /\ SoundPeers(ps) /\ SoundFlows(ms, DOMAIN ss)
  BY <1>2 DEF Sound
<1>7. DOMAIN gs = DOMAIN ms /\ gs = [f \in DOMAIN gs |-> gs[f]]
  BY <1>3
<1>8. ASSUME NEW f \in DOMAIN ms
      PROVE  SoundFlow(gs[f], DOMAIN ss) /\ (gs[f] = ms[f] \/ Decided(ms[f], gs[f]))
  <2>1. PICK flow : flow = ms[f] /\ SoundFlow(flow, DOMAIN ss)
    BY <1>6 DEF SoundFlows
  <2>2. CASE f \in fs
    <3>1. PICK r : r = later[f] /\ r \in Recomputed(flow) /\ gs[f] = r
      BY <1>1, <1>2, <1>3, <2>1, <2>2
    <3> QED
      BY <2>1, <3>1, RecomputedSound
  <2>3. CASE f \notin fs
    BY <1>3, <2>1, <2>3
  <2> QED
    BY <2>2, <2>3
<1>9. SoundFlows(gs, DOMAIN ss)
  BY <1>6, <1>7, <1>8 DEF SoundFlows
<1>10. n.sources = ss /\ n.flows = gs /\ n.peers = ps
  BY <1>5
<1>11. Sound(n)
  BY <1>5, <1>6, <1>9, <1>10 DEF Sound
<1> QED
  BY <1>2, <1>7, <1>8, <1>10, <1>11

\* The engine m after the first n observations, one after the other.
Applies(m, observations, n, a) ==
  a[0] = m /\ \A i \in 1 .. n : a[i] = Apply(a[i - 1], observations[i])

LEMMA ApplyAllIs ==
  ASSUME NEW m, NEW observations, NEW n \in Nat, Len(observations) = n
  PROVE  \E a : Applies(m, observations, n, a) /\ ApplyAll(m, observations) = a[n]
<1> DEFINE Is(h, k) == h = [i \in 0 .. k |-> IF i = 0 THEN m ELSE Apply(h[i - 1], observations[i])]
           Good == {k \in 0 .. n : \E h : Is(h, k)}
<1>1. 0 \in Good
  <2> DEFINE h == [i \in 0 .. 0 |-> m]
  <2>1. Is(h, 0)
    OBVIOUS
  <2>2. 0 \in 0 .. n
    OBVIOUS
  <2> HIDE DEF h, Is
  <2> QED
    BY <2>1, <2>2
<1>2. ASSUME NEW k \in 0 .. n, k # n, k \in Good PROVE k + 1 \in Good
  <2>1. PICK b : Is(b, k)
    BY <1>2
  <2> DEFINE h == [i \in 0 .. k + 1 |-> IF i = k + 1 THEN Apply(b[k], observations[i]) ELSE b[i]]
  <2>2. k + 1 \in 0 .. n /\ \A i \in 0 .. k + 1 : i = k + 1 \/ i \in 0 .. k
    BY <1>2
  <2>3. ASSUME NEW i \in 0 .. k + 1
        PROVE  h[i] = IF i = 0 THEN m ELSE Apply(h[i - 1], observations[i])
    <3>1. CASE i = k + 1
      <4>1. i # 0 /\ i - 1 = k /\ k \in 0 .. k + 1 /\ k # k + 1
        BY <3>1
      <4> QED
        BY <4>1, <3>1
    <3>2. CASE i \in 0 .. k
      <4>1. i # k + 1 /\ (i # 0 => i - 1 \in 0 .. k + 1 /\ i - 1 # k + 1)
        BY <3>2
      <4>2. b[i] = IF i = 0 THEN m ELSE Apply(b[i - 1], observations[i])
        BY <2>1, <3>2
      <4> QED
        BY <4>1, <4>2
    <3> QED
      BY <2>2, <3>1, <3>2
  <2>4. Is(h, k + 1)
    BY <2>3
  <2> HIDE DEF h, Is
  <2> QED
    BY <2>2, <2>4
<1> HIDE DEF Good
<1>3. \A k \in 0 .. n : k \in Good
  BY <1>1, <1>2, UpTo
<1>4. \E h : Is(h, n)
  BY <1>3 DEF Good
<1> DEFINE a == CHOOSE h : Is(h, n)
<1>5. Is(a, n)
  BY <1>4
<1>6. ApplyAll(m, observations) = a[n]
  BY ZenonT(30) DEF ApplyAll
<1> HIDE DEF a
<1>7. Applies(m, observations, n, a)
  <2>1. 0 \in 0 .. n /\ \A i \in 1 .. n : i \in 0 .. n /\ i # 0
    OBVIOUS
  <2> QED
    BY <1>5, <2>1 DEF Applies
<1> QED
  BY <1>6, <1>7

\* The observations leave the engine sound.
LEMMA ApplyAllSound ==
  ASSUME NEW m, Sound(m), NEW observations \in Seq(Observations)
  PROVE  /\ Sound(ApplyAll(m, observations))
         /\ DOMAIN m.sources \subseteq DOMAIN ApplyAll(m, observations).sources
<1>1. PICK n \in Nat : n = Len(observations) /\ \A i \in 1 .. n : observations[i] \in Observations
  OBVIOUS
<1>2. PICK a : Applies(m, observations, n, a) /\ ApplyAll(m, observations) = a[n]
  BY <1>1, ApplyAllIs
<1> DEFINE Good == {i \in 0 .. n : Sound(a[i]) /\ DOMAIN m.sources \subseteq DOMAIN a[i].sources}
<1>3. 0 \in Good
  BY <1>2 DEF Applies
<1>4. ASSUME NEW i \in 0 .. n, i # n, i \in Good PROVE i + 1 \in Good
  <2>1. i + 1 \in 1 .. n /\ i + 1 \in 0 .. n /\ (i + 1) - 1 = i
    BY <1>4
  <2>2. PICK o \in Observations : o = observations[i + 1]
    BY <1>1, <2>1
  <2>3. a[i + 1] = Apply(a[i], o)
    BY <1>2, <2>1, <2>2 DEF Applies
  <2>4. PICK b : b = a[i] /\ Sound(b) /\ DOMAIN m.sources \subseteq DOMAIN b.sources
    BY <1>4
  <2>5. Sound(Apply(b, o)) /\ DOMAIN b.sources \subseteq DOMAIN Apply(b, o).sources
    BY <2>4, ApplySound
  <2> QED
    BY <2>1, <2>3, <2>4, <2>5
<1> HIDE DEF Good
<1>5. \A i \in 0 .. n : i \in Good
  BY <1>3, <1>4, UpTo
<1> QED
  BY <1>2, <1>5 DEF Good

-----------------------------------------------------------------------------
(* What a state restores is sound.                                         *)

LEMMA ImageIsSmall ==
  ASSUME NEW D, IsFiniteSet(D), NEW f
  PROVE  /\ IsFiniteSet({f[x] : x \in D})
         /\ Cardinality({f[x] : x \in D}) <= Cardinality(D)
<1> DEFINE image == {f[x] : x \in D}
           g == [x \in D |-> f[x]]
<1>1. g \in Surjection(D, image)
  BY DEF Surjection
<1> HIDE DEF image, g
<1>2. IsFiniteSet(image) /\ Cardinality(image) <= Cardinality(D)
  BY <1>1, FS_Surjection
<1> QED
  BY <1>2 DEF image

\* The identities in a list.
LEMMA IdsAreFew ==
  ASSUME NEW V, NEW s \in Seq(V)
  PROVE  /\ IsFiniteSet({s[i].id : i \in DOMAIN s})
         /\ Cardinality({s[i].id : i \in DOMAIN s}) <= Len(s)
<1>1. PICK n \in Nat : n = Len(s) /\ DOMAIN s = 1 .. n
  OBVIOUS
<1>2. IsFiniteSet(1 .. n) /\ Cardinality(1 .. n) = n
  <2>1. \A k \in Nat : IsFiniteSet(1 .. k) /\ Cardinality(1 .. k) = k
    BY FS_Interval
  <2> QED
    BY <2>1
<1>3. PICK f : f = [i \in 1 .. n |-> s[i].id]
  OBVIOUS
<1>4. IsFiniteSet({f[i] : i \in 1 .. n}) /\ Cardinality({f[i] : i \in 1 .. n}) <= n
  BY <1>2, ImageIsSmall
<1>5. {f[i] : i \in 1 .. n} = {s[i].id : i \in DOMAIN s}
  BY <1>1, <1>3
<1> QED
  BY <1>1, <1>4, <1>5

LEMMA ToSetIs ==
  ASSUME NEW V, NEW s \in Seq(V)
  PROVE  /\ ToSet(s) \subseteq V /\ IsFiniteSet(ToSet(s))
         /\ {x.id : x \in ToSet(s)} = {s[i].id : i \in DOMAIN s}
         /\ \A i \in 1 .. Len(s) : s[i] \in ToSet(s)
<1>1. PICK n \in Nat : n = Len(s) /\ DOMAIN s = 1 .. n
  OBVIOUS
<1>2. IsFiniteSet(1 .. n)
  BY <1>1, FS_Interval
<1>3. IsFiniteSet({s[i] : i \in 1 .. n})
  BY <1>2, ImageIsFinite
<1>4. PICK D : D = ToSet(s) /\ D = {s[i] : i \in 1 .. n}
  BY <1>1 DEF ToSet
<1>5. \A i \in 1 .. n : s[i] \in V
  BY <1>1
<1>6. D \subseteq V /\ IsFiniteSet(D) /\ {x.id : x \in D} = {s[i].id : i \in 1 .. n}
  BY <1>3, <1>4, <1>5
<1> QED
  BY <1>1, <1>4, <1>6

\* The sources that the generations of one restored flow name.
EvidentIn(f) == UNION {ToSet(g.sources) : g \in ToSet(f.generations)}

LEMMA EvidentInIs ==
  ASSUME NEW f \in FlowSet
  PROVE  EvidentIn(f) \subseteq SourceSet /\ IsFiniteSet(EvidentIn(f))
<1>1. PICK gs \in Seq(GenerationSet) : gs = f.generations
  BY DEF FlowSet
<1>2. PICK D, T : D = ToSet(gs) /\ T = GenerationSet
  OBVIOUS
<1>3. D \subseteq T /\ IsFiniteSet(D)
  BY <1>1, <1>2, ToSetIs
<1>4. ASSUME NEW g \in D PROVE ToSet(g.sources) \subseteq SourceSet /\ IsFiniteSet(ToSet(g.sources))
  <2>1. PICK ss \in Seq(SourceSet) : ss = g.sources
    BY <1>2, <1>3 DEF GenerationSet
  <2>2. PICK U : U = SourceSet
    OBVIOUS
  <2>3. ToSet(ss) \subseteq U /\ IsFiniteSet(ToSet(ss))
    BY <2>1, <2>2, ToSetIs
  <2> QED
    BY <2>1, <2>2, <2>3
<1>5. PICK F : F = [g \in D |-> ToSet(g.sources)]
  OBVIOUS
<1>6. PICK image : image = {F[g] : g \in D} /\ IsFiniteSet(image)
  BY <1>3, ImageIsFinite
<1>7. \A S \in image : IsFiniteSet(S) /\ S \subseteq SourceSet
  BY <1>4, <1>5, <1>6
<1>8. IsFiniteSet(UNION image)
  BY <1>6, <1>7, FS_UNION
<1>9. EvidentIn(f) = UNION image
  BY <1>1, <1>2, <1>5, <1>6 DEF EvidentIn
<1> QED
  BY <1>7, <1>8, <1>9

LEMMA EvidentIs ==
  ASSUME NEW state \in StateSet
  PROVE  /\ Evident(state) = UNION {EvidentIn(f) : f \in ToSet(state.flows)}
         /\ Evident(state) \subseteq SourceSet /\ IsFiniteSet(Evident(state))
<1>1. PICK fs \in Seq(FlowSet) : fs = state.flows
  BY DEF StateSet
<1>2. PICK D, T : D = ToSet(fs) /\ T = FlowSet
  OBVIOUS
<1>3. D \subseteq T /\ IsFiniteSet(D)
  BY <1>1, <1>2, ToSetIs
<1>4. \A f \in D : EvidentIn(f) \subseteq SourceSet /\ IsFiniteSet(EvidentIn(f))
  BY <1>2, <1>3, EvidentInIs
<1>5. PICK F : F = [f \in D |-> EvidentIn(f)]
  OBVIOUS
<1>6. PICK image : image = {F[f] : f \in D} /\ IsFiniteSet(image)
  BY <1>3, ImageIsFinite
<1>7. \A S \in image : IsFiniteSet(S) /\ S \subseteq SourceSet
  BY <1>4, <1>5, <1>6
<1>8. IsFiniteSet(UNION image)
  BY <1>6, <1>7, FS_UNION
<1>9. image = {EvidentIn(f) : f \in ToSet(state.flows)}
  BY <1>1, <1>2, <1>5, <1>6
<1>10. Evident(state) = UNION {EvidentIn(f) : f \in ToSet(state.flows)}
  BY DEF Evident, EvidentIn
<1> QED
  BY <1>7, <1>8, <1>9, <1>10

\* A binding of a record is one of the engine.
LEMMA RestoreBindingTyped ==
  ASSUME NEW s \in SourceSet
  PROVE  /\ RestoreBinding(s) \in BindingSet
         /\ RestoreBinding(s).accepted = s.accepted /\ RestoreBinding(s).hops = s.hops
<1>1. s.accepted \in Nat /\ s.hops \in Seq(Nat) /\ Len(s.hops) <= MaxSourceHops
  BY DEF SourceSet
<1>2. RestoreBinding(s) = [accepted |-> s.accepted, hops |-> s.hops, links |-> <<>>, queues |-> <<>>]
  <2>1. PICK a, h : a = s.accepted /\ h = s.hops
    OBVIOUS
  <2>2. RestoreBinding(s) = [NewBinding EXCEPT !.accepted = a, !.hops = h]
    BY <2>1 DEF RestoreBinding
  <2>3. NewBinding = [accepted |-> 0, hops |-> <<>>, links |-> <<>>, queues |-> <<>>]
    BY DEF NewBinding
  <2>4. RestoreBinding(s) = [accepted |-> a, hops |-> h, links |-> <<>>, queues |-> <<>>]
    BY ONLY <2>2, <2>3
  <2> QED
    BY <2>1, <2>4
<1>3. <<>> \in Seq(Nat)
  BY EmptySeq
<1> QED
  BY <1>1, <1>2, <1>3 DEF BindingSet

\* One generation as it is restored from its record.
RestoreGeneration(g) ==
  [s \in {x.id : x \in ToSet(g.sources)} |->
     RestoreBinding(CHOOSE x \in ToSet(g.sources) : x.id = s)]

LEMMA GenerationRestored ==
  ASSUME NEW g \in GenerationSet, NEW known, {x.id : x \in ToSet(g.sources)} \subseteq known
  PROVE  SoundGeneration(RestoreGeneration(g), known)
<1>1. PICK ss \in Seq(SourceSet) : ss = g.sources
  BY DEF GenerationSet
<1>2. PICK D, U : D = ToSet(ss) /\ U = SourceSet
  OBVIOUS
<1>3. D \subseteq U
  BY <1>1, <1>2, ToSetIs
<1>4. PICK gen : gen = RestoreGeneration(g)
  OBVIOUS
<1>5. /\ gen = [s \in DOMAIN gen |-> gen[s]] /\ DOMAIN gen = {x.id : x \in D}
      /\ \A s \in DOMAIN gen : gen[s] = RestoreBinding(CHOOSE x \in D : x.id = s)
  BY <1>1, <1>2, <1>4 DEF RestoreGeneration
<1>6. ASSUME NEW s \in DOMAIN gen PROVE gen[s] \in BindingSet
  <2>1. PICK x : x = CHOOSE y \in D : y.id = s
    OBVIOUS
  <2>2. x \in D
    BY <1>5, <2>1
  <2>3. x \in SourceSet
    BY <1>2, <1>3, <2>2
  <2> QED
    BY <1>5, <2>1, <2>3, RestoreBindingTyped
<1> QED
  BY <1>1, <1>2, <1>4, <1>5, <1>6 DEF SoundGeneration

LEMMA FlowRestored ==
  ASSUME NEW f \in FlowSet, NEW known, {x.id : x \in EvidentIn(f)} \subseteq known
  PROVE  /\ RestoreFlow(f).key = f.key /\ RestoreFlow(f).current = f.current
         /\ RestoreFlow(f).history = f.history /\ RestoreFlow(f).anomalies = f.anomalies
         /\ RestoreFlow(f).anomaliesDropped = f.anomaliesDropped
         /\ RestoreFlow(f).generations =
              [g \in {x.id : x \in ToSet(f.generations)} |->
                 RestoreGeneration(CHOOSE x \in ToSet(f.generations) : x.id = g)]
         /\ SoundFlow(RestoreFlow(f), known)
<1>1. /\ f.key \in DOMAIN KeyBytes /\ KeyBytes[f.key] <= MaxKeyBytes /\ f.current \in Nat
      /\ f.history \in Seq(Nat) /\ Len(f.history) <= MaxHistory
      /\ f.anomalies \in Seq(Nat) /\ Len(f.anomalies) <= MaxAnomalies
      /\ f.anomaliesDropped \in Nat
  BY DEF FlowSet
<1>2. PICK gs \in Seq(GenerationSet) : gs = f.generations /\ Len(gs) <= MaxGenerations
  BY DEF FlowSet
<1>3. PICK D, T : D = ToSet(gs) /\ T = GenerationSet
  OBVIOUS
<1>4. PICK ids : ids = {gs[i].id : i \in DOMAIN gs}
  OBVIOUS
<1>5. D \subseteq T /\ {x.id : x \in D} = ids
  <2>1. gs \in Seq(T)
    BY <1>3
  <2>2. ToSet(gs) \subseteq T /\ {x.id : x \in ToSet(gs)} = {gs[i].id : i \in DOMAIN gs}
    BY <2>1, ToSetIs
  <2> QED
    BY <1>3, <1>4, <2>2
<1>6. IsFiniteSet(ids) /\ Cardinality(ids) <= MaxGenerations
  <2>1. IsFiniteSet(ids) /\ Cardinality(ids) <= Len(gs)
    BY <1>4, IdsAreFew
  <2>2. Cardinality(ids) \in Nat /\ Len(gs) \in Nat
    BY <2>1, FS_CardinalityType
  <2>3. \A a \in Nat, b \in Nat, c \in Nat : a <= b /\ b <= c => a <= c
    OBVIOUS
  <2> QED
    BY <1>2, <2>1, <2>2, <2>3, Positive
<1>7. PICK gens : gens = [g \in ids |-> RestoreGeneration(CHOOSE x \in D : x.id = g)]
  OBVIOUS
<1>8. RestoreFlow(f) =
        [key |-> f.key, current |-> f.current, generations |-> gens, history |-> f.history,
         historyDropped |-> 0, anomalies |-> f.anomalies, anomaliesDropped |-> f.anomaliesDropped]
  BY <1>2, <1>3, <1>4, <1>7 DEF RestoreFlow, RestoreGeneration
<1>9. ASSUME NEW g \in ids PROVE SoundGeneration(gens[g], known)
  <2>1. PICK x : x = CHOOSE y \in D : y.id = g
    OBVIOUS
  <2>2. x \in D
    BY <1>5, <2>1
  <2>3. x \in GenerationSet
    BY <1>3, <1>5, <2>2
  <2>4. ToSet(x.sources) \subseteq EvidentIn(f)
    BY <1>2, <1>3, <2>2 DEF EvidentIn
  <2>5. {y.id : y \in ToSet(x.sources)} \subseteq known
    BY <2>4
  <2>6. SoundGeneration(RestoreGeneration(x), known)
    BY <2>3, <2>5, GenerationRestored
  <2> QED
    BY <1>7, <2>1, <2>6
<1>10. ids \subseteq Nat
  BY <1>3, <1>5 DEF GenerationSet
<1>11. PICK r : r = RestoreFlow(f)
  OBVIOUS
<1>12. /\ r.key = f.key /\ r.current = f.current /\ r.generations = gens /\ r.history = f.history
       /\ r.historyDropped = 0 /\ r.anomalies = f.anomalies
       /\ r.anomaliesDropped = f.anomaliesDropped
       /\ r = [key |-> r.key, current |-> r.current, generations |-> r.generations,
               history |-> r.history, historyDropped |-> r.historyDropped,
               anomalies |-> r.anomalies, anomaliesDropped |-> r.anomaliesDropped]
  BY <1>8, <1>11
<1>13. gens = [g \in DOMAIN gens |-> gens[g]] /\ DOMAIN gens = ids
  BY <1>7
<1>14. 0 \in Nat
  OBVIOUS
<1>15. SoundFlow(r, known)
  BY ONLY <1>1, <1>6, <1>9, <1>10, <1>12, <1>13, <1>14 DEF SoundFlow
<1> QED
  BY <1>2, <1>3, <1>5, <1>7, <1>11, <1>12, <1>15

\* A source as it is restored from a record that names it.
AsSource(d) == [key |-> d.key, authority |-> d.authority, retired |-> FALSE]

RestoredSources(m, state) ==
  [s \in DOMAIN m.sources \cup {d.id : d \in ToSet(state.sources)}
           \cup {d.id : d \in Evident(state)} |->
     IF \E d \in ToSet(state.sources) : d.id = s
     THEN AsSource(CHOOSE d \in ToSet(state.sources) : d.id = s)
     ELSE IF s \in DOMAIN m.sources THEN m.sources[s]
     ELSE AsSource(CHOOSE d \in Evident(state) : d.id = s)]

RestoredFlows(state) ==
  [f \in {x.id : x \in ToSet(state.flows)} |->
     RestoreFlow(CHOOSE x \in ToSet(state.flows) : x.id = f)]

LEMMA RestoreStateIs ==
  ASSUME NEW m, NEW state
  PROVE  RestoreState(m, state) =
           [sources |-> RestoredSources(m, state), flows |-> RestoredFlows(state), peers |-> Empty]
  BY DEF RestoreState, RestoredSources, RestoredFlows, AsSource

LEMMA StateRestored ==
  ASSUME NEW m, SoundSources(m.sources), NEW state \in StateSet
  PROVE  /\ Sound(RestoreState(m, state))
         /\ DOMAIN m.sources \subseteq DOMAIN RestoreState(m, state).sources
         /\ {d.id : d \in ToSet(state.sources)} \subseteq DOMAIN RestoreState(m, state).sources
<1>1. PICK ds \in Seq(DescriptorSet) : ds = state.sources
  BY DEF StateSet
<1>2. PICK fs \in Seq(FlowSet) : fs = state.flows
  BY DEF StateSet
<1>3. PICK D, T, F, U : D = ToSet(ds) /\ T = DescriptorSet /\ F = ToSet(fs) /\ U = FlowSet
  OBVIOUS
<1>4. D \subseteq T /\ IsFiniteSet(D)
  BY <1>1, <1>3, ToSetIs
<1>5. F \subseteq U /\ IsFiniteSet(F)
  BY <1>2, <1>3, ToSetIs
<1>6. PICK E : E = Evident(state) /\ E \subseteq SourceSet /\ IsFiniteSet(E)
  BY EvidentIs
<1>7. \A d \in D \cup E : d.id \in Nat /\ AsSource(d) \in EntrySet
  BY <1>3, <1>4, <1>6 DEF DescriptorSet, SourceSet, AsSource, EntrySet
<1>8. PICK ss : ss = RestoredSources(m, state)
  OBVIOUS
<1>9. /\ ss = [s \in DOMAIN ss |-> ss[s]]
      /\ DOMAIN ss = DOMAIN m.sources \cup {d.id : d \in D} \cup {d.id : d \in E}
      /\ \A s \in DOMAIN ss :
           ss[s] = IF \E d \in D : d.id = s THEN AsSource(CHOOSE d \in D : d.id = s)
                   ELSE IF s \in DOMAIN m.sources THEN m.sources[s]
                   ELSE AsSource(CHOOSE d \in E : d.id = s)
  BY <1>1, <1>3, <1>6, <1>8 DEF RestoredSources
<1>10. SoundSources(ss)
  <2>1. PICK known : known = DOMAIN m.sources /\ IsFiniteSet(known) /\ known \subseteq Nat
                     /\ \A s \in known : m.sources[s] \in EntrySet
    BY DEF SoundSources
  <2>2. IsFiniteSet({d.id : d \in D}) /\ IsFiniteSet({d.id : d \in E})
    <3>1. PICK I : I = [d \in D \cup E |-> d.id]
      OBVIOUS
    <3>2. IsFiniteSet({I[d] : d \in D}) /\ IsFiniteSet({I[d] : d \in E})
      BY <1>4, <1>6, ImageIsFinite
    <3>3. {I[d] : d \in D} = {d.id : d \in D} /\ {I[d] : d \in E} = {d.id : d \in E}
      BY <3>1
    <3> QED
      BY <3>2, <3>3
  <2>3. IsFiniteSet(DOMAIN ss) /\ DOMAIN ss \subseteq Nat
    <3>1. PICK a, b : a = {d.id : d \in D} /\ b = {d.id : d \in E}
      OBVIOUS
    <3>2. IsFiniteSet(known \cup a)
      BY <2>1, <2>2, <3>1, FS_Union
    <3>3. IsFiniteSet((known \cup a) \cup b)
      BY <2>2, <3>1, <3>2, FS_Union
    <3>4. DOMAIN ss = (known \cup a) \cup b
      BY <1>9, <2>1, <3>1
    <3>5. a \subseteq Nat /\ b \subseteq Nat
      BY <1>7, <3>1
    <3> QED
      BY <2>1, <3>3, <3>4, <3>5
  <2>4. ASSUME NEW s \in DOMAIN ss PROVE ss[s] \in EntrySet
    <3>1. CASE \E d \in D : d.id = s
      <4>1. PICK d \in D : d = CHOOSE x \in D : x.id = s
        BY <3>1
      <4> QED
        BY <1>7, <1>9, <3>1, <4>1
    <3>2. CASE ~(\E d \in D : d.id = s) /\ s \in DOMAIN m.sources
      BY <1>9, <2>1, <3>2
    <3>3. CASE ~(\E d \in D : d.id = s) /\ s \notin DOMAIN m.sources
      <4>1. \E d \in E : d.id = s
        BY <1>9, <3>3
      <4>2. PICK d \in E : d = CHOOSE x \in E : x.id = s
        BY <4>1
      <4> QED
        BY <1>7, <1>9, <3>3, <4>2
    <3> QED
      BY <3>1, <3>2, <3>3
  <2> QED
    BY <1>9, <2>3, <2>4 DEF SoundSources
<1>11. PICK flows : flows = RestoredFlows(state)
  OBVIOUS
<1>12. /\ flows = [f \in DOMAIN flows |-> flows[f]] /\ DOMAIN flows = {x.id : x \in F}
       /\ \A f \in DOMAIN flows : flows[f] = RestoreFlow(CHOOSE x \in F : x.id = f)
  BY <1>2, <1>3, <1>11 DEF RestoredFlows
<1>13. SoundFlows(flows, DOMAIN ss)
  <2>1. ASSUME NEW f \in DOMAIN flows PROVE SoundFlow(flows[f], DOMAIN ss)
    <3>1. PICK x : x = CHOOSE y \in F : y.id = f
      OBVIOUS
    <3>2. x \in F
      BY <1>12, <3>1
    <3>3. x \in FlowSet
      BY <1>3, <1>5, <3>2
    <3>4. EvidentIn(x) \subseteq E
      BY <1>2, <1>3, <1>6, <3>2, EvidentIs
    <3>5. {y.id : y \in EvidentIn(x)} \subseteq DOMAIN ss
      BY <1>9, <3>4
    <3>6. SoundFlow(RestoreFlow(x), DOMAIN ss)
      BY <3>3, <3>5, FlowRestored
    <3> QED
      BY <1>12, <3>1, <3>6
  <2>2. IsFiniteSet(DOMAIN flows)
    <3>1. PICK I : I = [x \in F |-> x.id]
      OBVIOUS
    <3>2. IsFiniteSet({I[x] : x \in F})
      BY <1>5, ImageIsFinite
    <3>3. {I[x] : x \in F} = {x.id : x \in F}
      BY <3>1
    <3> QED
      BY <1>12, <3>2, <3>3
  <2>3. DOMAIN flows \subseteq Nat
    BY <1>3, <1>5, <1>12 DEF FlowSet
  <2> QED
    BY <1>12, <2>1, <2>2, <2>3 DEF SoundFlows
<1>14. SoundPeers(Empty)
  BY NoPeers
<1>15. PICK r : r = RestoreState(m, state)
  OBVIOUS
<1>16. r.sources = ss /\ r.flows = flows /\ r.peers = Empty
       /\ r = [sources |-> r.sources, flows |-> r.flows, peers |-> r.peers]
  BY <1>8, <1>11, <1>15, RestoreStateIs
<1>17. Sound(r)
  <2> HIDE DEF Empty
  <2> QED
    BY ONLY <1>10, <1>13, <1>14, <1>16 DEF Sound
<1> QED
  BY <1>1, <1>3, <1>9, <1>15, <1>16, <1>17

-----------------------------------------------------------------------------
(* The replay of the journal, record by record.                            *)

Listed(s) == \E V : s \in Seq(V)

LEMMA ListedGrows ==
  ASSUME NEW s, Listed(s), NEW x
  PROVE  /\ Listed(Append(s, x)) /\ Len(s) \in Nat /\ Len(Append(s, x)) = Len(s) + 1
         /\ \A i \in 1 .. Len(s) : Append(s, x)[i] = s[i]
         /\ Append(s, x)[Len(s) + 1] = x
<1>1. PICK V : s \in Seq(V)
  BY DEF Listed
<1>2. PICK W : W = V \cup {x}
  OBVIOUS
<1>3. s \in Seq(W) /\ x \in W
  BY <1>1, <1>2
<1>4. /\ Append(s, x) \in Seq(W) /\ Len(Append(s, x)) = Len(s) + 1
      /\ \A i \in 1 .. Len(s) : Append(s, x)[i] = s[i]
      /\ Append(s, x)[Len(s) + 1] = x /\ Len(s) \in Nat
  BY <1>3, AppendIs
<1>5. Listed(Append(s, x))
  BY <1>4 DEF Listed
<1> QED
  BY <1>4, <1>5

LEMMA ReplayAppend ==
  ASSUME NEW records, Listed(records), NEW x
  PROVE  ReplayUpTo(Append(records, x)) = ReplayOne(ReplayUpTo(records), x)
<1>1. PICK n \in Nat : n = Len(records)
  BY ListedGrows
<1>2. PICK more : more = Append(records, x)
  OBVIOUS
<1>3. /\ Len(more) = n + 1 /\ more[n + 1] = x /\ \A i \in 1 .. n : more[i] = records[i]
  BY <1>1, <1>2, ListedGrows
<1>4. PICK r : Replays(records, n, r) /\ ReplayUpTo(records) = r[n]
  BY <1>1, ReplayIs
<1>5. n + 1 \in Nat /\ n + 1 \in 1 .. n + 1 /\ (n + 1) - 1 = n
  OBVIOUS
<1>6. PICK q : Replays(more, n + 1, q) /\ ReplayUpTo(more) = q[n + 1]
  BY <1>3, <1>5, ReplayIs
<1> DEFINE Good == {i \in 0 .. n : q[i] = r[i]}
<1>7. 0 \in Good
  BY <1>4, <1>6 DEF Replays
<1>8. ASSUME NEW i \in 0 .. n, i # n, i \in Good PROVE i + 1 \in Good
  <2>1. i + 1 \in 1 .. n /\ i + 1 \in 1 .. n + 1 /\ i + 1 \in 0 .. n /\ (i + 1) - 1 = i
    BY <1>8
  <2>2. q[i + 1] = ReplayOne(q[i], more[i + 1]) /\ r[i + 1] = ReplayOne(r[i], records[i + 1])
    BY <1>4, <1>6, <2>1 DEF Replays
  <2> QED
    BY <1>3, <1>8, <2>1, <2>2
<1> HIDE DEF Good
<1>9. \A i \in 0 .. n : i \in Good
  BY <1>7, <1>8, UpTo
<1>10. q[n] = r[n]
  BY <1>9 DEF Good
<1>11. q[n + 1] = ReplayOne(q[n], more[n + 1])
  BY <1>5, <1>6 DEF Replays
<1> QED
  BY <1>2, <1>3, <1>4, <1>6, <1>10, <1>11

LEMMA ReplayEmpty ==
  ReplayUpTo(<<>>) = Start /\ Listed(<<>>)
<1>1. Len(<<>>) = 0 /\ 0 \in Nat
  OBVIOUS
<1>2. PICK r : Replays(<<>>, 0, r) /\ ReplayUpTo(<<>>) = r[0]
  BY <1>1, ReplayIs
<1>3. \E V : <<>> \in Seq(V)
  BY EmptySeq
<1> QED
  BY <1>2, <1>3 DEF Replays, Listed

SourceRecord(d) == Record("SourceDescriptor", WriteDescriptor(d))

EvidenceRecord(o) == Record("ObservationRecord", WriteObservation(o))

LEMMA DescriptorReplayed ==
  ASSUME NEW r, r.ok, r.group = <<>>, NEW d \in DescriptorSet
  PROVE  ReplayOne(r, SourceRecord(d)) =
           IF KeyBytes[d.key] <= MaxKeyBytes /\ Upsert(r.state.sources, d, MaxSources).ok
           THEN Replayed(Upsert(r.state.sources, d, MaxSources).entries, r.state.flows,
                         r.observations, <<>>)
           ELSE Refusal
<1>1. PICK x : x = SourceRecord(d)
  OBVIOUS
<1>2. x.kind = "SourceDescriptor" /\ x.payload = WriteDescriptor(d)
  BY <1>1, RecordFields DEF SourceRecord
<1>3. ReplayOne(r, x) = ReplayAlone(r, x)
  BY DEF ReplayOne
<1>4. PICK e : e = DecodeDescriptor(x.payload)
  OBVIOUS
<1>5. ReplayAlone(r, x) =
        IF e.ok /\ Upsert(r.state.sources, DescriptorOf(e.value), MaxSources).ok
        THEN Replayed(Upsert(r.state.sources, DescriptorOf(e.value), MaxSources).entries,
                      r.state.flows, r.observations, <<>>)
        ELSE Refusal
  BY <1>2, <1>4, Zenon DEF ReplayAlone
<1>6. IF KeyBytes[d.key] <= MaxKeyBytes THEN e.ok /\ DescriptorOf(e.value) = d ELSE ~e.ok
  BY <1>2, <1>4, DescriptorDecodes
<1>7. CASE KeyBytes[d.key] <= MaxKeyBytes
  <2>1. e.ok /\ DescriptorOf(e.value) = d
    BY <1>6, <1>7
  <2> QED
    BY <1>1, <1>3, <1>5, <1>7, <2>1
<1>8. CASE ~(KeyBytes[d.key] <= MaxKeyBytes)
  <2>1. ~e.ok
    BY <1>6, <1>8
  <2> QED
    BY <1>1, <1>3, <1>5, <1>8, <2>1
<1> QED
  BY <1>7, <1>8

LEMMA ObservationReplayed ==
  ASSUME NEW r, r.ok, r.group = <<>>, NEW o \in ObservationSet
  PROVE  ReplayOne(r, EvidenceRecord(o)) =
           IF KeyBytes[o.peerKey] <= MaxKeyBytes /\ Len(r.observations) < MaxIngestRecords
           THEN Replayed(r.state.sources, r.state.flows, Append(r.observations, o), <<>>)
           ELSE Refusal
<1>1. PICK x : x = EvidenceRecord(o)
  OBVIOUS
<1>2. x.kind = "ObservationRecord" /\ x.payload = WriteObservation(o)
  BY <1>1, RecordFields DEF EvidenceRecord
<1>3. ReplayOne(r, x) = ReplayAlone(r, x)
  BY DEF ReplayOne
<1>4. PICK e : e = DecodeObservation(x.payload)
  OBVIOUS
<1>5. ReplayAlone(r, x) =
        IF e.ok /\ Len(r.observations) < MaxIngestRecords
        THEN Replayed(r.state.sources, r.state.flows,
                      Append(r.observations, ObservationOf(e.value)), <<>>)
        ELSE Refusal
  BY <1>2, <1>4, Zenon DEF ReplayAlone
<1>6. IF KeyBytes[o.peerKey] <= MaxKeyBytes THEN e.ok /\ ObservationOf(e.value) = o ELSE ~e.ok
  BY <1>2, <1>4, ObservationDecodes
<1>7. CASE KeyBytes[o.peerKey] <= MaxKeyBytes
  <2>1. e.ok /\ ObservationOf(e.value) = o
    BY <1>6, <1>7
  <2> QED
    BY <1>1, <1>3, <1>5, <1>7, <2>1
<1>8. CASE ~(KeyBytes[o.peerKey] <= MaxKeyBytes)
  <2>1. ~e.ok
    BY <1>6, <1>8
  <2> QED
    BY <1>1, <1>3, <1>5, <1>8, <2>1
<1> QED
  BY <1>7, <1>8

\* An entry with a new identity is appended.
LEMMA UpsertNew ==
  ASSUME NEW V, NEW entries \in Seq(V), NEW new, NEW max,
         \A i \in 1 .. Len(entries) : entries[i].id # new.id
  PROVE  /\ Upsert(entries, new, max).ok = (Len(entries) < max)
         /\ Upsert(entries, new, max).entries = Append(entries, new)
<1>1. {i \in DOMAIN entries : entries[i].id = new.id} = {}
  OBVIOUS
<1>2. Upsert(entries, new, max) = [ok |-> Len(entries) < max, entries |-> Append(entries, new)]
  BY <1>1, Zenon DEF Upsert
<1> QED
  BY <1>2

-----------------------------------------------------------------------------
(* The invariant of the engine and of what it wrote.                       *)

ValidObservations == {o \in Observations : Valid(o)}

\* What a replay that is not refused found: no group is open, the records
\* are typed, the sources differ and are known to the engine.
Holds(r, m) ==
  r.ok => /\ r.group = <<>> /\ r.state \in StateSet /\ r.observations \in Seq(ValidObservations)
          /\ \A i, j \in 1 .. Len(r.state.sources) :
               r.state.sources[i].id = r.state.sources[j].id => i = j
          /\ \A i \in 1 .. Len(r.state.sources) :
               r.state.sources[i].id \in DOMAIN m.sources

\* The snapshot file is empty or one group.
FileHolds == file = <<>> \/ \E state \in StateSet : Encodable(state) /\ file = EncodeState(state)

\* The engine is sound, and what it wrote was written from sound states.
EngineSound ==
  /\ Sound(mem) /\ FileHolds
  /\ Listed(journal) /\ Holds(ReplayUpTo(journal), mem)

LEMMA BlankSound == Sound(Blank) /\ DOMAIN Blank.sources = {}
<1>1. Empty = [x \in DOMAIN Empty |-> Empty[x]] /\ DOMAIN Empty = {}
  BY DEF Empty
<1>2. IsFiniteSet({})
  BY FS_EmptySet
<1> HIDE DEF Empty
<1> QED
  BY <1>1, <1>2, NoPeers DEF Blank, Sound, SoundSources, SoundFlows

LEMMA StartHolds ==
  ASSUME NEW m
  PROVE  Holds(Start, m) /\ Start.ok /\ Start.group = <<>> /\ Start.observations = <<>>
         /\ Start.state \in StateSet
<1>1. Start.state = [sources |-> <<>>, flows |-> <<>>] /\ Start.group = <<>>
      /\ Start.observations = <<>> /\ Start.ok
  BY DEF Start, Replayed
<1>2. <<>> \in Seq(DescriptorSet) /\ <<>> \in Seq(FlowSet) /\ <<>> \in Seq(ValidObservations)
      /\ Len(<<>>) = 0
  BY EmptySeq
<1>3. Start.state \in StateSet
  BY <1>1, <1>2 DEF StateSet
<1> QED
  BY <1>1, <1>2, <1>3 DEF Holds

LEMMA HoldsOfMore ==
  ASSUME NEW r, NEW m, Holds(r, m), NEW n, DOMAIN m.sources \subseteq DOMAIN n.sources
  PROVE  Holds(r, n)
  BY DEF Holds

\* What a replay restores is sound.
LEMMA RestoreSound ==
  ASSUME NEW m, SoundSources(m.sources), NEW r, r.state \in StateSet,
         r.observations \in Seq(ValidObservations)
  PROVE  /\ Sound(Restore(m, r))
         /\ DOMAIN m.sources \subseteq DOMAIN Restore(m, r).sources
         /\ \A i \in 1 .. Len(r.state.sources) :
              r.state.sources[i].id \in DOMAIN Restore(m, r).sources
<1>1. PICK state \in StateSet : state = r.state
  OBVIOUS
<1>2. PICK observations \in Seq(Observations) : observations = r.observations
  <2>1. ValidObservations \subseteq Observations
    BY DEF ValidObservations
  <2>2. r.observations \in Seq(Observations)
    <3>1. \A i \in 1 .. Len(r.observations) : r.observations[i] \in Observations
      BY <2>1
    <3> QED
      BY <3>1
  <2> QED
    BY <2>2
<1>3. PICK n : /\ n = RestoreState(m, state) /\ Sound(n)
               /\ DOMAIN m.sources \subseteq DOMAIN n.sources
               /\ {d.id : d \in ToSet(state.sources)} \subseteq DOMAIN n.sources
  BY StateRestored
<1>4. /\ Sound(ApplyAll(n, observations))
      /\ DOMAIN n.sources \subseteq DOMAIN ApplyAll(n, observations).sources
  BY <1>3, ApplyAllSound
<1>5. Restore(m, r) = ApplyAll(n, observations)
  BY <1>1, <1>2, <1>3 DEF Restore
<1>6. \A i \in 1 .. Len(state.sources) : state.sources[i].id \in DOMAIN n.sources
  <2>1. PICK ds \in Seq(DescriptorSet) : ds = state.sources
    BY DEF StateSet
  <2>2. \A i \in 1 .. Len(ds) : ds[i] \in ToSet(ds)
    BY <2>1, ToSetIs
  <2> QED
    BY <1>3, <2>1, <2>2
<1> QED
  BY <1>1, <1>3, <1>4, <1>5, <1>6

LEMMA ReopenedSound ==
  ASSUME NEW m, Sound(m), NEW r,
         r.ok => r.state \in StateSet /\ r.observations \in Seq(ValidObservations)
  PROVE  /\ Sound(Reopened(m, r))
         /\ DOMAIN m.sources \subseteq DOMAIN Reopened(m, r).sources
         /\ r.ok => \A i \in 1 .. Len(r.state.sources) :
                      r.state.sources[i].id \in DOMAIN Reopened(m, r).sources
<1>1. CASE r.ok
  <2>1. SoundSources(m.sources)
    BY DEF Sound
  <2>2. Reopened(m, r) = Restore(m, r)
    BY <1>1 DEF Reopened
  <2> QED
    BY <1>1, <2>1, <2>2, RestoreSound
<1>2. CASE ~r.ok
  BY <1>2 DEF Reopened
<1> QED
  BY <1>1, <1>2

LEMMA IntervalSize ==
  \A c \in Nat : IsFiniteSet(1 .. c) /\ Cardinality(1 .. c) = c
BY FS_Interval

\* A source the engine did not know is registered.
LEMMA HoldsAfterSource ==
  ASSUME NEW r, NEW m, Holds(r, m), Sound(m), NEW d \in DescriptorSet,
         KeyBytes[d.key] <= MaxKeyBytes, d.id \notin DOMAIN m.sources,
         Cardinality(DOMAIN m.sources) < MaxSources, r.ok
  PROVE  /\ ReplayOne(r, SourceRecord(d)) =
              Replayed(Append(r.state.sources, d), r.state.flows, r.observations, <<>>)
         /\ \A n : DOMAIN n.sources = DOMAIN m.sources \cup {d.id} =>
              Holds(ReplayOne(r, SourceRecord(d)), n)
<1>1. PICK ds \in Seq(DescriptorSet) : ds = r.state.sources
  BY DEF Holds, StateSet
<1>2. PICK k \in Nat : k = Len(ds) /\ \A i \in 1 .. k : ds[i] \in DescriptorSet
  BY <1>1
<1>3. /\ \A i, j \in 1 .. k : ds[i].id = ds[j].id => i = j
      /\ \A i \in 1 .. k : ds[i].id \in DOMAIN m.sources
  BY <1>1, <1>2 DEF Holds
<1>4. k < MaxSources
  <2>1. PICK S : S = DOMAIN m.sources /\ IsFiniteSet(S)
    BY DEF Sound, SoundSources
  <2>2. PICK f : f = [i \in 1 .. k |-> ds[i].id]
    OBVIOUS
  <2>3. f \in Injection(1 .. k, S)
    BY <1>3, <2>1, <2>2 DEF Injection, IsInjective
  <2>4. Cardinality(1 .. k) = k /\ IsFiniteSet(1 .. k)
    BY IntervalSize
  <2>5. Cardinality(1 .. k) <= Cardinality(S) /\ Cardinality(S) \in Nat
    BY <2>1, <2>3, FS_Injection, FS_CardinalityType
  <2>6. \A a \in Nat, b \in Nat, c \in Nat : a <= b /\ b < c => a < c
    OBVIOUS
  <2> QED
    BY <2>1, <2>4, <2>5, <2>6, Limits
<1>5. \A i \in 1 .. Len(ds) : ds[i].id # d.id
  BY <1>2, <1>3
<1>6. Upsert(ds, d, MaxSources).ok /\ Upsert(ds, d, MaxSources).entries = Append(ds, d)
  BY <1>2, <1>4, <1>5, UpsertNew
<1>7. PICK p : p = ReplayOne(r, SourceRecord(d))
  OBVIOUS
<1>8. p = Replayed(Append(ds, d), r.state.flows, r.observations, <<>>)
  <2>1. r.group = <<>>
    BY DEF Holds
  <2> QED
    BY <1>1, <1>6, <1>7, <2>1, DescriptorReplayed
<1>9. PICK more \in Seq(DescriptorSet) :
        /\ more = Append(ds, d) /\ Len(more) = k + 1 /\ more[k + 1] = d
        /\ \A i \in 1 .. k : more[i] = ds[i]
  <2>1. PICK V : V = DescriptorSet
    OBVIOUS
  <2>2. /\ Append(ds, d) \in Seq(V) /\ Len(Append(ds, d)) = Len(ds) + 1
        /\ \A i \in 1 .. Len(ds) : Append(ds, d)[i] = ds[i]
        /\ Append(ds, d)[Len(ds) + 1] = d
    BY <2>1, AppendIs
  <2> QED
    BY <1>2, <2>1, <2>2
<1>10. PICK fs \in Seq(FlowSet) : fs = r.state.flows
  BY DEF Holds, StateSet
<1>11. p = Replayed(more, fs, r.observations, <<>>)
  BY <1>8, <1>9, <1>10
<1>12. /\ p.group = <<>> /\ p.state = [sources |-> more, flows |-> fs]
       /\ p.observations = r.observations /\ p.state.sources = more
  BY <1>11 DEF Replayed
<1>13. p.state \in StateSet /\ p.observations \in Seq(ValidObservations)
  BY <1>12 DEF StateSet, Holds
<1>14. \A i, j \in 1 .. k + 1 : more[i].id = more[j].id => i = j
  <2>1. \A i \in 1 .. k + 1 : i = k + 1 \/ i \in 1 .. k
    OBVIOUS
  <2> QED
    BY <1>2, <1>3, <1>5, <1>9, <2>1
<1>15. \A i \in 1 .. k + 1 : more[i].id \in DOMAIN m.sources \cup {d.id}
  <2>1. \A i \in 1 .. k + 1 : i = k + 1 \/ i \in 1 .. k
    OBVIOUS
  <2> QED
    BY <1>3, <1>9, <2>1
<1>16. ASSUME NEW n, DOMAIN n.sources = DOMAIN m.sources \cup {d.id} PROVE Holds(p, n)
  BY <1>9, <1>12, <1>13, <1>14, <1>15, <1>16 DEF Holds
<1> QED
  BY <1>1, <1>7, <1>8, <1>16

\* A refused replay stays refused, so nothing is to be shown of it.
LEMMA RefusedHolds ==
  ASSUME NEW r, ~r.ok, NEW x, NEW m
  PROVE  Holds(ReplayOne(r, x), m) /\ ReplayOne(r, x) = Refusal
<1>1. ReplayOne(r, x) = Refusal
  BY DEF ReplayOne
<1>2. ~Refusal.ok
  BY ReplayedFields
<1> QED
  BY <1>1, <1>2 DEF Holds

\* An observation is added to the journal.
LEMMA HoldsAfterEvidence ==
  ASSUME NEW r, NEW m, Holds(r, m), NEW o \in Observations, Valid(o)
  PROVE  Holds(ReplayOne(r, EvidenceRecord(o)), m)
<1>1. CASE ~r.ok
  BY <1>1, RefusedHolds
<1>2. CASE r.ok
  <2>1. o \in ObservationSet /\ o \in ValidObservations
    BY ObservationIs DEF ValidObservations
  <2>2. /\ r.group = <<>> /\ r.observations \in Seq(ValidObservations)
        /\ r.state \in StateSet
    BY <1>2 DEF Holds
  <2>3. PICK p : p = ReplayOne(r, EvidenceRecord(o))
    OBVIOUS
  <2>4. PICK more : more = Append(r.observations, o) /\ more \in Seq(ValidObservations)
    BY <2>1, <2>2, AppendIs
  <2>5. \/ p = Replayed(r.state.sources, r.state.flows, more, <<>>)
        \/ p = Refusal
    BY <1>2, <2>1, <2>2, <2>3, <2>4, ObservationReplayed
  <2>6. CASE p = Refusal
    <3>1. ~p.ok
      BY <2>6, ReplayedFields
    <3> QED
      BY <2>3, <3>1 DEF Holds
  <2>7. CASE p = Replayed(r.state.sources, r.state.flows, more, <<>>)
    <3>1. PICK ds, fs : ds = r.state.sources /\ fs = r.state.flows
      OBVIOUS
    <3>2. r.state = [sources |-> ds, flows |-> fs]
      BY <2>2, <3>1 DEF StateSet
    <3>3. p.group = <<>> /\ p.state = [sources |-> ds, flows |-> fs] /\ p.observations = more
      BY <2>7, <3>1 DEF Replayed
    <3>4. p.state = r.state
      BY <3>2, <3>3
    <3> QED
      BY <1>2, <2>3, <2>4, <3>3, <3>4 DEF Holds
  <2> QED
    BY <2>5, <2>6, <2>7
<1> QED
  BY <1>1, <1>2

\* What compact and save_snapshot write.
LEMMA WrittenHolds ==
  ASSUME NEW m, Sound(m), NEW state, state = PersistState(m), Encodable(state)
  PROVE  /\ Listed(EncodeState(state))
         /\ \A n : DOMAIN m.sources \subseteq DOMAIN n.sources =>
              Holds(ReplayUpTo(EncodeState(state)), n)
<1>1. state \in StateSet
  BY StatePersisted
<1>2. PICK g : g = EncodeState(state)
  OBVIOUS
<1>3. PICK ds \in Seq(DescriptorSet), fs \in Seq(FlowSet) : ds = state.sources /\ fs = state.flows
  BY <1>1 DEF StateSet
<1>4. Listed(g)
  <2>1. IsGroup(g, ds, fs)
    BY <1>1, <1>2, <1>3, GroupIs
  <2> QED
    BY <2>1, GroupHasShape DEF Listed
<1>5. PICK p : p = ReplayUpTo(g)
  OBVIOUS
<1>6. p = Replayed(ds, fs, <<>>, <<>>) \/ p = Refusal
  BY <1>1, <1>2, <1>3, <1>5, WrittenStateReplays
<1>7. ASSUME NEW n, DOMAIN m.sources \subseteq DOMAIN n.sources PROVE Holds(p, n)
  <2>1. CASE p = Refusal
    <3>1. ~p.ok
      BY <2>1, ReplayedFields
    <3> QED
      BY <3>1 DEF Holds
  <2>2. CASE p = Replayed(ds, fs, <<>>, <<>>)
    <3>1. /\ p.group = <<>> /\ p.state = [sources |-> ds, flows |-> fs] /\ p.observations = <<>>
          /\ p.state.sources = ds
      BY <2>2 DEF Replayed
    <3>2. p.state \in StateSet
      BY <3>1 DEF StateSet
    <3>3. p.observations \in Seq(ValidObservations)
      BY <3>1, EmptySeq
    <3>4. \A i, j \in 1 .. Len(ds) : ds[i].id = ds[j].id => i = j
      BY <1>3, StatePersisted
    <3>5. \A i \in 1 .. Len(ds) : ds[i].id \in DOMAIN m.sources
      <4>1. TAKE i \in 1 .. Len(ds)
      <4>2. ds[i] \in ToSet(ds)
        BY <1>3, ToSetIs
      <4>3. ToSet(ds) = {DescriptorOfEntry(m, s) : s \in Active(m)}
        BY <1>3, StatePersisted
      <4>4. PICK s \in Active(m) : ds[i] = DescriptorOfEntry(m, s)
        BY <4>2, <4>3
      <4> QED
        BY <4>4 DEF DescriptorOfEntry, Active
    <3> QED
      BY <1>7, <3>1, <3>2, <3>3, <3>4, <3>5 DEF Holds
  <2> QED
    BY <1>6, <2>1, <2>2
<1> QED
  BY <1>2, <1>4, <1>5, <1>7

\* What load_snapshot reads is a written state, or nothing.
LEMMA LoadedTyped ==
  ASSUME NEW state \in StateSet, Encodable(state), NEW g, g = EncodeState(state),
         NEW f \in {g} \cup Damaged(g)
  PROVE  ReplayRecords(f).ok =>
           /\ ReplayRecords(f).state \in StateSet
           /\ ReplayRecords(f).observations \in Seq(ValidObservations)
<1>1. PICK ds \in Seq(DescriptorSet), fs \in Seq(FlowSet) : ds = state.sources /\ fs = state.flows
  BY DEF StateSet
<1>2. IsGroup(g, ds, fs)
  BY <1>1, GroupIs
<1>3. GroupShape(g, Len(g)) /\ \E V : g \in Seq(V)
  BY <1>2, GroupHasShape
<1>4. PICK p : p = ReplayUpTo(f)
  OBVIOUS
<1>5. ReplayRecords(f) = IF p.ok /\ p.group = <<>> THEN p ELSE Refusal
  BY <1>4 DEF ReplayRecords, Closed
<1>6. CASE f = g
  <2>1. p = Replayed(ds, fs, <<>>, <<>>) \/ p = Refusal
    BY <1>1, <1>4, <1>6, WrittenStateReplays
  <2>2. CASE p = Refusal
    <3>1. ~p.ok
      BY <2>2, ReplayedFields
    <3> QED
      BY <1>5, <2>2, <3>1
  <2>3. CASE p = Replayed(ds, fs, <<>>, <<>>)
    <3>1. p.state = [sources |-> ds, flows |-> fs] /\ p.observations = <<>> /\ p.ok /\ p.group = <<>>
      BY <2>3 DEF Replayed
    <3>2. p.state \in StateSet
      BY <3>1 DEF StateSet
    <3> QED
      BY <1>5, <3>1, <3>2, EmptySeq
  <2> QED
    BY <2>1, <2>2, <2>3
<1>7. CASE f # g /\ f = <<>>
  <2>1. p = Start
    BY <1>4, <1>7, ReplayEmpty
  <2>2. p.ok /\ p.group = <<>> /\ p.observations = <<>> /\ p.state \in StateSet
    BY <2>1, StartHolds
  <2> QED
    BY <1>5, <2>2, EmptySeq
<1>8. CASE f # g /\ f # <<>>
  <2>1. f \in Damaged(g)
    BY <1>8
  <2> QED
    BY <1>3, <1>8, <2>1, DamagedGroup
<1> QED
  BY <1>6, <1>7, <1>8

-----------------------------------------------------------------------------
(* The steps.                                                              *)

LEMMA DescriptorIs ==
  ASSUME NEW d \in Descriptors
  PROVE  d \in DescriptorSet /\ [key |-> d.key, authority |-> d.authority, retired |-> FALSE] \in EntrySet
<1>1. /\ d = [id |-> d.id, key |-> d.key, authority |-> d.authority]
      /\ d.id \in Nat /\ d.key \in DOMAIN KeyBytes /\ d.authority \in Nat
  BY SnapshotAssumption
<1>2. PICK a, b, c : a = d.id /\ b = d.key /\ c = d.authority
  OBVIOUS
<1>3. a \in Nat /\ b \in DOMAIN KeyBytes /\ c \in Nat /\ d = [id |-> a, key |-> b, authority |-> c]
  BY <1>1, <1>2
<1> QED
  BY ONLY <1>2, <1>3 DEF DescriptorSet, EntrySet

LEMMA RegisterSound ==
  ASSUME EngineSound, NEW d \in Descriptors, Register(d)
  PROVE  EngineSound'
<1>1. PICK new \in EntrySet : new = [key |-> d.key, authority |-> d.authority, retired |-> FALSE]
  BY DescriptorIs
<1>2. d \in DescriptorSet /\ d.id \in Nat
  BY DescriptorIs DEF DescriptorSet
<1>3. /\ KeyBytes[d.key] <= MaxKeyBytes /\ file' = file
      /\ mem' = [mem EXCEPT !.sources = With(@, d.id, new)]
      /\ IF d.id \in DOMAIN mem.sources THEN journal' = journal
         ELSE /\ Cardinality(DOMAIN mem.sources) < MaxSources
              /\ journal' = Append(journal, SourceRecord(d))
  BY <1>1 DEF Register, SourceRecord
<1>4. PICK m, n, r : m = mem /\ n = mem' /\ r = ReplayUpTo(journal)
  OBVIOUS
<1>5. Sound(m) /\ Listed(journal) /\ Holds(r, m)
  BY <1>4 DEF EngineSound
<1>6. PICK ss, fs, ps : ss = m.sources /\ fs = m.flows /\ ps = m.peers
  OBVIOUS
<1>7. m = [sources |-> ss, flows |-> fs, peers |-> ps] /\ SoundSources(ss)
  BY <1>5, <1>6 DEF Sound
<1>8. PICK more : more = With(ss, d.id, new) /\ SoundSources(more)
  BY <1>2, <1>7, SourceAdded
<1>9. DOMAIN more = DOMAIN ss \cup {d.id}
  BY <1>8 DEF With
<1>10. n = [sources |-> more, flows |-> fs, peers |-> ps]
  <2>1. n = [m EXCEPT !.sources = more]
    BY <1>3, <1>4, <1>6, <1>8
  <2> QED
    BY ONLY <1>7, <2>1
<1>11. n.sources = more
  BY <1>10
<1>12. Sound(n)
  <2>1. DOMAIN m.sources \subseteq DOMAIN more
    BY <1>6, <1>9
  <2> QED
    BY <1>5, <1>6, <1>8, <1>10, <2>1, SourcesGrow
<1>13. Listed(journal') /\ Holds(ReplayUpTo(journal'), n)
  <2>1. CASE d.id \in DOMAIN ss
    <3>1. journal' = journal
      BY <1>3, <1>4, <1>6, <2>1
    <3>2. DOMAIN m.sources \subseteq DOMAIN n.sources
      BY <1>6, <1>9, <1>11
    <3> QED
      BY <1>4, <1>5, <3>1, <3>2, HoldsOfMore
  <2>2. CASE d.id \notin DOMAIN ss
    <3>1. journal' = Append(journal, SourceRecord(d)) /\ Cardinality(DOMAIN m.sources) < MaxSources
      BY <1>3, <1>4, <1>6, <2>2
    <3>2. Listed(journal') /\ ReplayUpTo(journal') = ReplayOne(r, SourceRecord(d))
      BY <1>4, <1>5, <3>1, ListedGrows, ReplayAppend
    <3>3. CASE r.ok
      <4>1. DOMAIN n.sources = DOMAIN m.sources \cup {d.id}
        BY <1>6, <1>9, <1>11
      <4>2. d.id \notin DOMAIN m.sources
        BY <1>6, <2>2
      <4>3. Holds(ReplayOne(r, SourceRecord(d)), n)
        BY <1>2, <1>3, <1>5, <3>1, <3>3, <4>1, <4>2, HoldsAfterSource
      <4> QED
        BY <3>2, <4>3
    <3>4. CASE ~r.ok
      BY <3>2, <3>4, RefusedHolds
    <3> QED
      BY <3>3, <3>4
  <2> QED
    BY <2>1, <2>2
<1>14. FileHolds'
  BY <1>3 DEF EngineSound, FileHolds
<1> QED
  BY <1>4, <1>12, <1>13, <1>14 DEF EngineSound

LEMMA RetiredFlowSound ==
  ASSUME NEW flow, NEW known, SoundFlow(flow, known), NEW s
  PROVE  SoundFlow(Retired(flow, s), known)
<1>1. PICK k, c, gs, h, hd, a, ad :
        /\ k = flow.key /\ c = flow.current /\ gs = flow.generations /\ h = flow.history
        /\ hd = flow.historyDropped /\ a = flow.anomalies /\ ad = flow.anomaliesDropped
  OBVIOUS
<1>2. flow = [key |-> k, current |-> c, generations |-> gs, history |-> h, historyDropped |-> hd,
              anomalies |-> a, anomaliesDropped |-> ad]
  BY <1>1 DEF SoundFlow
<1>3. PICK new : new = [g \in DOMAIN gs |-> [r \in DOMAIN gs[g] \ {s} |-> gs[g][r]]]
  OBVIOUS
<1>4. PICK x : x = Retired(flow, s)
  OBVIOUS
<1>5. x = [flow EXCEPT !.generations = new]
  BY <1>1, <1>3, <1>4 DEF Retired
<1>6. x = [key |-> k, current |-> c, generations |-> new, history |-> h, historyDropped |-> hd,
           anomalies |-> a, anomaliesDropped |-> ad]
  BY ONLY <1>2, <1>5
<1>7. /\ x.key = k /\ x.current = c /\ x.generations = new /\ x.history = h
      /\ x.historyDropped = hd /\ x.anomalies = a /\ x.anomaliesDropped = ad
  BY <1>6
<1>8. DOMAIN new = DOMAIN gs /\ new = [g \in DOMAIN new |-> new[g]]
  BY <1>3
<1>9. ASSUME NEW g \in DOMAIN gs PROVE SoundGeneration(new[g], known)
  <2>1. SoundGeneration(gs[g], known)
    BY <1>1, <1>9 DEF SoundFlow
  <2>2. PICK gen : gen = gs[g]
    OBVIOUS
  <2>3. PICK w : w = [r \in DOMAIN gen \ {s} |-> gen[r]] /\ new[g] = w
    BY <1>3, <1>9, <2>2
  <2>4. SoundGeneration(w, known)
    BY <2>1, <2>2, <2>3 DEF SoundGeneration
  <2> QED
    BY <2>3, <2>4
<1>10. SoundFlow(x, known)
  BY <1>1, <1>6, <1>7, <1>8, <1>9 DEF SoundFlow
<1> QED
  BY <1>4, <1>10

LEMMA RetireSound ==
  ASSUME EngineSound, NEW s, Retire(s)
  PROVE  EngineSound'
<1>1. PICK gone :
        /\ gone = [mem EXCEPT !.sources[s].retired = TRUE,
                               !.flows = [f \in DOMAIN @ |-> Retired(@[f], s)]]
        /\ mem' \in Settled(gone, DOMAIN mem.flows)
        /\ s \in DOMAIN mem.sources /\ journal' = journal /\ file' = file
  BY DEF Retire
<1>2. PICK m, n : m = mem /\ n = gone
  OBVIOUS
<1>3. Sound(m) /\ Holds(ReplayUpTo(journal), m)
  BY <1>2 DEF EngineSound
<1>4. PICK ss, fs, ps : ss = m.sources /\ fs = m.flows /\ ps = m.peers
  OBVIOUS
<1>5. /\ m = [sources |-> ss, flows |-> fs, peers |-> ps] /\ SoundSources(ss)
      /\ SoundFlows(fs, DOMAIN ss) /\ s \in DOMAIN ss /\ SoundPeers(ps)
  BY <1>1, <1>2, <1>3, <1>4 DEF Sound
<1>6. PICK t : t = [ss EXCEPT ![s].retired = TRUE]
  OBVIOUS
<1>7. PICK gs : gs = [f \in DOMAIN fs |-> Retired(fs[f], s)]
  OBVIOUS
<1>8. n = [sources |-> t, flows |-> gs, peers |-> ps]
  <2>1. n = [m EXCEPT !.sources = t, !.flows = gs]
    BY <1>1, <1>2, <1>4, <1>6, <1>7
  <2> QED
    BY ONLY <1>5, <2>1
<1>9. SoundSources(t) /\ DOMAIN t = DOMAIN ss
  <2>1. PICK e : e = ss[s] /\ e \in EntrySet
    BY <1>5 DEF SoundSources
  <2>2. PICK new : new = [e EXCEPT !.retired = TRUE]
    OBVIOUS
  <2>3. new \in EntrySet
    BY <2>1, <2>2 DEF EntrySet
  <2>4. t = [ss EXCEPT ![s] = new]
    BY <1>6, <2>1, <2>2
  <2>5. /\ DOMAIN t = DOMAIN ss /\ t = [z \in DOMAIN t |-> t[z]] /\ t[s] = new
        /\ \A z \in DOMAIN ss : z # s => t[z] = ss[z]
    BY <1>5, <2>4 DEF SoundSources
  <2> QED
    BY <1>5, <2>3, <2>5 DEF SoundSources
<1>10. SoundFlows(gs, DOMAIN t)
  <2>1. /\ DOMAIN gs = DOMAIN fs /\ gs = [f \in DOMAIN gs |-> gs[f]]
        /\ \A f \in DOMAIN fs : gs[f] = Retired(fs[f], s)
    BY <1>7
  <2>2. \A f \in DOMAIN fs : SoundFlow(Retired(fs[f], s), DOMAIN ss)
    BY <1>5, RetiredFlowSound DEF SoundFlows
  <2> QED
    BY <1>5, <1>9, <2>1, <2>2 DEF SoundFlows
<1>11. n.sources = t /\ n.flows = gs /\ n.peers = ps
  BY <1>8
<1>12. Sound(n)
  BY <1>5, <1>8, <1>9, <1>10, <1>11 DEF Sound
<1>13. PICK k : k = mem' /\ Sound(k) /\ k.sources = n.sources
  <2>1. DOMAIN m.flows \subseteq DOMAIN n.flows
    BY <1>4, <1>7, <1>11
  <2> QED
    BY <1>1, <1>2, <1>12, <2>1, SettledIs
<1>14. Holds(ReplayUpTo(journal), k)
  BY <1>3, <1>4, <1>9, <1>11, <1>13, HoldsOfMore
<1>15. FileHolds'
  BY <1>1 DEF EngineSound, FileHolds
<1> QED
  BY <1>1, <1>13, <1>14, <1>15 DEF EngineSound

LEMMA IngestSound ==
  ASSUME EngineSound, NEW o \in Observations, Ingest(o)
  PROVE  EngineSound'
<1>1. /\ mem' \in Settled(Apply(mem, o), Touched(mem, Apply(mem, o))) /\ file' = file
      /\ journal' = IF Valid(o) THEN Append(journal, EvidenceRecord(o)) ELSE journal
  BY DEF Ingest, EvidenceRecord
<1>2. PICK m, n, r : m = mem /\ n = mem' /\ r = ReplayUpTo(journal)
  OBVIOUS
<1>3. Sound(m) /\ Listed(journal) /\ Holds(r, m)
  BY <1>2 DEF EngineSound
<1>4. Sound(n) /\ DOMAIN m.sources \subseteq DOMAIN n.sources
  <2>1. PICK a : a = Apply(m, o) /\ Sound(a) /\ DOMAIN m.sources \subseteq DOMAIN a.sources
    BY <1>3, ApplySound
  <2>2. PICK fs : fs = Touched(m, a) /\ fs \subseteq DOMAIN a.flows
    BY DEF Touched
  <2>3. n \in Settled(a, fs)
    BY <1>1, <1>2, <2>1, <2>2
  <2> QED
    BY <2>1, <2>2, <2>3, SettledIs
<1>5. Holds(r, n)
  BY <1>3, <1>4, HoldsOfMore
<1>6. Listed(journal') /\ Holds(ReplayUpTo(journal'), n)
  <2>1. CASE ~Valid(o)
    BY <1>1, <1>2, <1>3, <1>5, <2>1
  <2>2. CASE Valid(o)
    <3>1. journal' = Append(journal, EvidenceRecord(o))
      BY <1>1, <2>2
    <3>2. Listed(journal') /\ ReplayUpTo(journal') = ReplayOne(r, EvidenceRecord(o))
      BY <1>2, <1>3, <3>1, ListedGrows, ReplayAppend
    <3> QED
      BY <1>5, <2>2, <3>2, HoldsAfterEvidence
  <2> QED
    BY <2>1, <2>2
<1>7. FileHolds'
  BY <1>1 DEF EngineSound, FileHolds
<1> QED
  BY <1>2, <1>4, <1>6, <1>7 DEF EngineSound

LEMMA CompactSound ==
  ASSUME EngineSound, Compact
  PROVE  EngineSound'
<1>1. PICK state : state = PersistState(mem)
  OBVIOUS
<1>2. Encodable(state) /\ journal' = EncodeState(state) /\ mem' = mem /\ file' = file
  BY <1>1 DEF Compact
<1>3. Sound(mem)
  BY DEF EngineSound
<1>4. Listed(journal') /\ Holds(ReplayUpTo(journal'), mem)
  BY <1>1, <1>2, <1>3, WrittenHolds
<1>5. FileHolds'
  BY <1>2 DEF EngineSound, FileHolds
<1> QED
  BY <1>2, <1>3, <1>4, <1>5 DEF EngineSound

LEMMA SaveSound ==
  ASSUME EngineSound, Save
  PROVE  EngineSound'
<1>1. PICK state : state = PersistState(mem)
  OBVIOUS
<1>2. Encodable(state) /\ file' = EncodeState(state) /\ mem' = mem /\ journal' = journal
  BY <1>1 DEF Save
<1>3. Sound(mem)
  BY DEF EngineSound
<1>4. state \in StateSet
  BY <1>1, <1>3, StatePersisted
<1>5. FileHolds'
  BY <1>2, <1>4 DEF FileHolds
<1> QED
  BY <1>2, <1>3, <1>5 DEF EngineSound

LEMMA LoadSound ==
  ASSUME EngineSound, Load
  PROVE  EngineSound'
<1>1. PICK f \in {file} \cup Damaged(file) :
        \E read : /\ read = Reopened([mem EXCEPT !.flows = Empty, !.peers = Empty], ReplayRecords(f))
                  /\ mem' \in Settled(read, DOMAIN read.flows)
  BY DEF Load
<1>2. journal' = journal /\ file' = file /\ file # <<>>
  BY DEF Load
<1>3. PICK state \in StateSet : Encodable(state) /\ file = EncodeState(state)
  BY <1>2 DEF EngineSound, FileHolds
<1>4. PICK m, n, p, read :
        /\ m = mem /\ n = mem' /\ p = ReplayRecords(f)
        /\ read = Reopened([m EXCEPT !.flows = Empty, !.peers = Empty], p)
        /\ n \in Settled(read, DOMAIN read.flows)
  BY <1>1
<1>5. p.ok => p.state \in StateSet /\ p.observations \in Seq(ValidObservations)
  BY <1>3, <1>4, LoadedTyped
<1>6. PICK k : k = [m EXCEPT !.flows = Empty, !.peers = Empty]
  OBVIOUS
<1>7. Sound(m) /\ Holds(ReplayUpTo(journal), m)
  BY <1>4 DEF EngineSound
<1>8. Sound(k) /\ k.sources = m.sources
  <2>1. PICK ss, fs, ps : ss = m.sources /\ fs = m.flows /\ ps = m.peers
    OBVIOUS
  <2>2. m = [sources |-> ss, flows |-> fs, peers |-> ps] /\ SoundSources(ss)
    BY <1>7, <2>1 DEF Sound
  <2>3. k = [sources |-> ss, flows |-> Empty, peers |-> Empty]
    BY ONLY <1>6, <2>2
  <2>4. k.sources = ss /\ k.flows = Empty /\ k.peers = Empty
    BY <2>3
  <2>5. Empty = [x \in DOMAIN Empty |-> Empty[x]] /\ DOMAIN Empty = {}
    BY DEF Empty
  <2>6. SoundFlows(Empty, DOMAIN ss)
    BY <2>5, FS_EmptySet DEF SoundFlows
  <2> HIDE DEF Empty
  <2> QED
    BY <2>1, <2>2, <2>3, <2>4, <2>6, NoPeers DEF Sound
<1>9. read = Reopened(k, p)
  BY <1>4, <1>6
<1>10. Sound(n) /\ DOMAIN k.sources \subseteq DOMAIN n.sources
  <2>1. Sound(read) /\ DOMAIN k.sources \subseteq DOMAIN read.sources
    BY <1>5, <1>8, <1>9, ReopenedSound
  <2> QED
    BY <1>4, <2>1, SettledIs
<1>11. Holds(ReplayUpTo(journal), n)
  BY <1>7, <1>8, <1>10, HoldsOfMore
<1>12. FileHolds'
  BY <1>2 DEF EngineSound, FileHolds
<1> QED
  BY <1>2, <1>4, <1>10, <1>11, <1>12 DEF EngineSound

LEMMA RestartSound ==
  ASSUME EngineSound, Restart
  PROVE  EngineSound'
<1>1. PICK p, read : /\ p = ReplayRecords(journal) /\ read = Reopened(Blank, p)
                     /\ mem' \in Settled(read, DOMAIN read.flows)
  BY DEF Restart, Journalled
<1>2. journal' = journal /\ file' = file
  BY DEF Restart
<1>3. PICK r, n : r = ReplayUpTo(journal) /\ n = mem'
  OBVIOUS
<1>4. Holds(r, mem)
  BY <1>3 DEF EngineSound
<1>5. p = IF r.ok THEN r ELSE Refusal
  BY <1>1, <1>3, <1>4 DEF ReplayRecords, Closed, Holds
<1>6. p.ok => p = r
  BY <1>5, ReplayedFields
<1>7. p.ok => p.state \in StateSet /\ p.observations \in Seq(ValidObservations)
  BY <1>4, <1>6 DEF Holds
<1>8. /\ Sound(n)
      /\ p.ok => \A i \in 1 .. Len(p.state.sources) : p.state.sources[i].id \in DOMAIN n.sources
  <2>1. /\ Sound(read)
        /\ p.ok => \A i \in 1 .. Len(p.state.sources) : p.state.sources[i].id \in DOMAIN read.sources
    BY <1>1, <1>7, BlankSound, ReopenedSound
  <2>2. n \in Settled(read, DOMAIN read.flows)
    BY <1>1, <1>3
  <2>3. Sound(n) /\ n.sources = read.sources
    BY <2>1, <2>2, SettledIs
  <2> QED
    BY <2>1, <2>3
<1>9. Holds(r, n)
  <2>1. r.ok => p = r
    BY <1>5
  <2> QED
    BY <1>4, <1>8, <2>1 DEF Holds
<1>10. FileHolds'
  BY <1>2 DEF EngineSound, FileHolds
<1> QED
  BY <1>2, <1>3, <1>8, <1>9, <1>10 DEF EngineSound

LEMMA EngineSoundInit ==
  Init => EngineSound
<1> SUFFICES ASSUME Init PROVE EngineSound
  OBVIOUS
<1>1. mem = Blank /\ journal = <<>> /\ file = <<>>
  BY DEF Init
<1>2. Holds(ReplayUpTo(journal), mem) /\ Listed(journal)
  BY <1>1, ReplayEmpty, StartHolds
<1>3. FileHolds
  BY <1>1 DEF FileHolds
<1> QED
  BY <1>1, <1>2, <1>3, BlankSound DEF EngineSound

LEMMA EngineSoundStep ==
  EngineSound /\ [Next]_vars => EngineSound'
<1> SUFFICES ASSUME EngineSound, [Next]_vars PROVE EngineSound'
  OBVIOUS
<1>1. CASE UNCHANGED vars
  BY <1>1 DEF vars, EngineSound, FileHolds
<1>2. CASE \E d \in Descriptors : Register(d) \/ Retire(d.id)
  BY <1>2, RegisterSound, RetireSound
<1>3. CASE \E o \in Observations : Ingest(o)
  BY <1>3, IngestSound
<1>4. CASE Compact
  BY <1>4, CompactSound
<1>5. CASE Save
  BY <1>5, SaveSound
<1>6. CASE Load
  BY <1>6, LoadSound
<1>7. CASE Restart
  BY <1>7, RestartSound
<1> QED
  BY <1>1, <1>2, <1>3, <1>4, <1>5, <1>6, <1>7 DEF Next

\* The inductive invariant: whatever is registered, ingested, retired,
\* compacted, saved, loaded - damaged or not - and restarted, the engine
\* holds what its types and its bounds allow, the snapshot file is empty or
\* one written group, and what the journal replays to is typed, has no group
\* open and names every source once, none the engine does not know. It is
\* why persist_state writes what encode_state can take apart again.
THEOREM EngineStaysSound == Spec => []EngineSound
<1>1. Init => EngineSound
  BY EngineSoundInit
<1>2. EngineSound /\ [Next]_vars => EngineSound'
  BY EngineSoundStep
<1> QED
  BY <1>1, <1>2, PTL DEF Spec

-----------------------------------------------------------------------------
(* What is written reads back.                                             *)

LEMMA MembersOf ==
  ASSUME NEW V, NEW s \in Seq(V)
  PROVE  /\ \A i \in 1 .. Len(s) : s[i] \in ToSet(s)
         /\ \A x \in ToSet(s) : \E i \in 1 .. Len(s) : s[i] = x
         /\ ToSet(s) \subseteq V
<1>1. DOMAIN s = 1 .. Len(s) /\ \A i \in 1 .. Len(s) : s[i] \in V
  OBVIOUS
<1>2. ToSet(s) = {s[i] : i \in 1 .. Len(s)}
  BY <1>1 DEF ToSet
<1> QED
  BY <1>1, <1>2

\* What WithinReaderBounds says of one flow.
BoundedFlow(f) ==
  /\ \A d \in EvidentIn(f) : KeyBytes[d.key] <= MaxKeyBytes
  /\ \A d \in ToSet(f.anomalies) : d <= MaxDetailBytes
  /\ \A g \in ToSet(f.generations) : Len(g.links) <= MaxPathHops /\ Len(g.queues) <= MaxQueues

LEMMA BoundedIsReadable ==
  ASSUME NEW f \in FlowSet
  PROVE  BoundedFlow(f) <=> ReadableFlow(f)
<1>1. PICK gs \in Seq(GenerationSet), as \in Seq(Nat) : gs = f.generations /\ as = f.anomalies
  BY DEF FlowSet
<1>2. PICK T : T = GenerationSet
  OBVIOUS
<1>3. /\ \A i \in 1 .. Len(gs) : gs[i] \in ToSet(gs) /\ gs[i] \in T
      /\ \A g \in ToSet(gs) : \E i \in 1 .. Len(gs) : gs[i] = g
  <2>1. gs \in Seq(T)
    BY <1>2
  <2>2. /\ \A i \in 1 .. Len(gs) : gs[i] \in ToSet(gs)
        /\ \A g \in ToSet(gs) : \E i \in 1 .. Len(gs) : gs[i] = g
    BY <2>1, MembersOf
  <2> QED
    BY <2>1, <2>2
<1>4. /\ \A i \in 1 .. Len(as) : as[i] \in ToSet(as)
      /\ \A x \in ToSet(as) : \E i \in 1 .. Len(as) : as[i] = x
  BY MembersOf
<1>5. ASSUME NEW i \in 1 .. Len(gs)
      PROVE  (\A d \in ToSet(gs[i].sources) : KeyBytes[d.key] <= MaxKeyBytes)
               <=> (\A j \in 1 .. Len(gs[i].sources) :
                      KeyBytes[gs[i].sources[j].key] <= MaxKeyBytes)
  <2>1. PICK S : S = SourceSet
    OBVIOUS
  <2>2. PICK s \in Seq(S) : s = gs[i].sources
    <3>1. gs[i] \in GenerationSet
      BY <1>2, <1>3
    <3> QED
      BY <2>1, <3>1 DEF GenerationSet
  <2>3. /\ \A j \in 1 .. Len(s) : s[j] \in ToSet(s)
        /\ \A x \in ToSet(s) : \E j \in 1 .. Len(s) : s[j] = x
    BY MembersOf
  <2> QED
    BY <2>2, <2>3
<1>6. (\A d \in EvidentIn(f) : KeyBytes[d.key] <= MaxKeyBytes)
        <=> \A g \in ToSet(gs) : \A d \in ToSet(g.sources) : KeyBytes[d.key] <= MaxKeyBytes
  BY <1>1 DEF EvidentIn
<1>7. (\A g \in ToSet(gs) : \A d \in ToSet(g.sources) : KeyBytes[d.key] <= MaxKeyBytes)
        <=> \A i \in 1 .. Len(gs) : \A d \in ToSet(gs[i].sources) : KeyBytes[d.key] <= MaxKeyBytes
  BY <1>3
<1>8. (\A g \in ToSet(gs) : Len(g.links) <= MaxPathHops /\ Len(g.queues) <= MaxQueues)
        <=> \A i \in 1 .. Len(gs) : Len(gs[i].links) <= MaxPathHops /\ Len(gs[i].queues) <= MaxQueues
  BY <1>3
<1>9. (\A d \in ToSet(as) : d <= MaxDetailBytes) <=> \A i \in 1 .. Len(as) : as[i] <= MaxDetailBytes
  BY <1>4
<1>10. (\A i \in 1 .. Len(gs) : ReadableGeneration(gs[i]))
         <=> /\ \A i \in 1 .. Len(gs) : Len(gs[i].links) <= MaxPathHops /\ Len(gs[i].queues) <= MaxQueues
             /\ \A i \in 1 .. Len(gs) : \A d \in ToSet(gs[i].sources) : KeyBytes[d.key] <= MaxKeyBytes
  BY <1>5 DEF ReadableGeneration
<1> QED
  BY <1>1, <1>6, <1>7, <1>8, <1>9, <1>10 DEF BoundedFlow, ReadableFlow

LEMMA WithinIsReadable ==
  ASSUME NEW state \in StateSet
  PROVE  WithinReaderBounds(state) <=> ReadableState(state)
<1>1. PICK D, F : D = DescriptorSet /\ F = FlowSet
  OBVIOUS
<1>2. PICK ds \in Seq(D), fs \in Seq(F) : ds = state.sources /\ fs = state.flows
  BY <1>1 DEF StateSet
<1>3. /\ \A i \in 1 .. Len(ds) : ds[i] \in ToSet(ds)
      /\ \A d \in ToSet(ds) : \E i \in 1 .. Len(ds) : ds[i] = d
  BY MembersOf
<1>4. /\ \A i \in 1 .. Len(fs) : fs[i] \in ToSet(fs)
      /\ \A f \in ToSet(fs) : \E i \in 1 .. Len(fs) : fs[i] = f
      /\ ToSet(fs) \subseteq F
  BY MembersOf
<1>5. (\A d \in ToSet(ds) : KeyBytes[d.key] <= MaxKeyBytes)
        <=> \A i \in 1 .. Len(ds) : KeyBytes[ds[i].key] <= MaxKeyBytes
  BY <1>3
<1>6. (\A d \in Evident(state) : KeyBytes[d.key] <= MaxKeyBytes)
        <=> \A f \in ToSet(fs) : \A d \in EvidentIn(f) : KeyBytes[d.key] <= MaxKeyBytes
  <2>1. Evident(state) = UNION {EvidentIn(f) : f \in ToSet(fs)}
    BY <1>2, EvidentIs
  <2> QED
    BY <2>1
<1>7. WithinReaderBounds(state)
        <=> /\ \A d \in ToSet(ds) : KeyBytes[d.key] <= MaxKeyBytes
            /\ \A d \in Evident(state) : KeyBytes[d.key] <= MaxKeyBytes
            /\ \A f \in ToSet(fs) :
                 /\ \A d \in ToSet(f.anomalies) : d <= MaxDetailBytes
                 /\ \A g \in ToSet(f.generations) :
                      Len(g.links) <= MaxPathHops /\ Len(g.queues) <= MaxQueues
  BY <1>2 DEF WithinReaderBounds
<1>8. (\A f \in ToSet(fs) : BoundedFlow(f))
        <=> /\ \A f \in ToSet(fs) : \A d \in EvidentIn(f) : KeyBytes[d.key] <= MaxKeyBytes
            /\ \A f \in ToSet(fs) :
                 /\ \A d \in ToSet(f.anomalies) : d <= MaxDetailBytes
                 /\ \A g \in ToSet(f.generations) :
                      Len(g.links) <= MaxPathHops /\ Len(g.queues) <= MaxQueues
  BY DEF BoundedFlow
<1>9. \A f \in ToSet(fs) : BoundedFlow(f) <=> ReadableFlow(f)
  BY <1>1, <1>4, BoundedIsReadable
<1>10. (\A f \in ToSet(fs) : BoundedFlow(f)) <=> \A i \in 1 .. Len(fs) : ReadableFlow(fs[i])
  BY <1>4, <1>9
<1> QED
  BY <1>2, <1>5, <1>6, <1>7, <1>8, <1>10 DEF ReadableState

\* A snapshot of every state the engine reaches reads back as it was written,
\* or is refused because the merged links or queues of a generation, the text
\* of an anomaly or the key of a source nobody registered is beyond what its
\* reader takes, and for no other reason: of every field of the flow, source
\* and generation records, in any number.
THEOREM SnapshotsRoundTrip == Spec => []RoundTrip
<1>1. EngineSound => RoundTrip
  <2> SUFFICES ASSUME EngineSound PROVE RoundTrip
    OBVIOUS
  <2>1. PICK state : state = PersistState(mem)
    OBVIOUS
  <2>2. state \in StateSet
    BY <2>1, StatePersisted DEF EngineSound
  <2>3. PICK decoded : decoded = ReplayRecords(EncodeState(state))
    OBVIOUS
  <2>4. ASSUME Encodable(state)
        PROVE  IF WithinReaderBounds(state) THEN decoded.ok /\ decoded.state = state ELSE ~decoded.ok
    <3>1. PICK p : p = ReplayUpTo(EncodeState(state))
      OBVIOUS
    <3>2. decoded = IF p.ok /\ p.group = <<>> THEN p ELSE Refusal
      BY <2>3, <3>1 DEF ReplayRecords, Closed
    <3>3. CASE ReadableState(state)
      <4>1. p = Replayed(state.sources, state.flows, <<>>, <<>>)
        BY <2>2, <2>4, <3>1, <3>3, WrittenStateReplays
      <4>2. PICK ds, fs : ds = state.sources /\ fs = state.flows /\ state = [sources |-> ds, flows |-> fs]
        BY <2>2 DEF StateSet
      <4>3. p.ok /\ p.group = <<>> /\ p.state = [sources |-> ds, flows |-> fs]
        BY <4>1, <4>2 DEF Replayed
      <4> QED
        BY <2>2, <3>2, <3>3, <4>2, <4>3, WithinIsReadable
    <3>4. CASE ~ReadableState(state)
      <4>1. ~p.ok
        BY <2>2, <2>4, <3>1, <3>4, WrittenStateReplays, ReplayedFields
      <4>2. ~decoded.ok
        BY <3>2, <4>1, ReplayedFields
      <4> QED
        BY <2>2, <3>4, <4>2, WithinIsReadable
    <3> QED
      BY <3>3, <3>4
  <2> QED
    BY <2>1, <2>3, <2>4 DEF RoundTrip
<1> QED
  BY <1>1, EngineStaysSound, PTL

\* A group that save_snapshot wrote of any state the engine reaches and that
\* then lost a record, holds one twice, holds two neighbours in the other
\* order or ends early is refused.
THEOREM DamagedGroupsAreRefused == Spec => DamagedGroupRefused
<1>1. ASSUME EngineSound, Save, NEW f \in Damaged(file') \ {<<>>}
      PROVE  ~ReplayRecords(f).ok
  <2>1. PICK state : state = PersistState(mem) /\ file' = EncodeState(state)
    BY <1>1 DEF Save
  <2>2. state \in StateSet
    BY <1>1, <2>1, StatePersisted DEF EngineSound
  <2>3. PICK ds \in Seq(DescriptorSet), fs \in Seq(FlowSet) : ds = state.sources /\ fs = state.flows
    BY <2>2 DEF StateSet
  <2>4. PICK g : g = file'
    OBVIOUS
  <2>5. IsGroup(g, ds, fs)
    BY <2>1, <2>2, <2>3, <2>4, GroupIs
  <2>6. GroupShape(g, Len(g)) /\ \E V : g \in Seq(V)
    BY <2>5, GroupHasShape
  <2> QED
    BY <1>1, <2>4, <2>6, DamagedGroup
<1>2. EngineSound /\ [Next]_vars =>
        [file' # file => \A f \in Damaged(file') \ {<<>>} : ~ReplayRecords(f).ok]_vars
  <2> SUFFICES ASSUME EngineSound, [Next]_vars, file' # file,
                      NEW f \in Damaged(file') \ {<<>>}
               PROVE  ~ReplayRecords(f).ok
    OBVIOUS
  <2>1. Save
    BY DEF Next, vars, Register, Retire, Ingest, Compact, Load, Restart
  <2> QED
    BY <1>1, <2>1
<1> QED
  BY <1>2, EngineStaysSound, PTL DEF Spec, DamagedGroupRefused

-----------------------------------------------------------------------------
(* Engines that differ only in what a restart does not bring back.         *)

SameBindings(x, y) ==
  /\ DOMAIN x = DOMAIN y
  /\ \A s \in DOMAIN x : x[s].accepted = y[s].accepted /\ x[s].hops = y[s].hops

SameFlow(a, b) ==
  /\ a.key = b.key /\ a.current = b.current
  /\ a.anomalies = b.anomalies /\ a.anomaliesDropped = b.anomaliesDropped
  /\ DOMAIN a.generations = DOMAIN b.generations
  /\ \A g \in DOMAIN a.generations : SameBindings(a.generations[g], b.generations[g])

\* The engine n has the sources and the flows of m, and knows no peer that m
\* does not know by the same key.
Same(m, n) ==
  /\ m.sources = n.sources /\ DOMAIN m.flows = DOMAIN n.flows
  /\ \A f \in DOMAIN m.flows : SameFlow(m.flows[f], n.flows[f])
  /\ \A p \in DOMAIN n.peers : p \in DOMAIN m.peers /\ m.peers[p] = n.peers[p]

LEMMA NoteSame ==
  ASSUME NEW known, NEW a, NEW b, SoundFlow(a, known), SoundFlow(b, known), SameFlow(a, b),
         NEW detail
  PROVE  SameFlow(Note(a, detail), Note(b, detail))
<1>1. PICK x, y : x = Note(a, detail) /\ y = Note(b, detail)
  OBVIOUS
<1>2. /\ x.key = a.key /\ x.current = a.current /\ x.generations = a.generations
      /\ x.anomalies = Pushed(a.anomalies, detail, MaxAnomalies)
      /\ x.anomaliesDropped = a.anomaliesDropped
                                + (IF Len(a.anomalies) < MaxAnomalies THEN 0 ELSE 1)
  BY <1>1, NoteIs
<1>3. /\ y.key = b.key /\ y.current = b.current /\ y.generations = b.generations
      /\ y.anomalies = Pushed(b.anomalies, detail, MaxAnomalies)
      /\ y.anomaliesDropped = b.anomaliesDropped
                                + (IF Len(b.anomalies) < MaxAnomalies THEN 0 ELSE 1)
  BY <1>1, NoteIs
<1>4. /\ a.key = b.key /\ a.current = b.current
      /\ a.anomalies = b.anomalies /\ a.anomaliesDropped = b.anomaliesDropped
      /\ DOMAIN a.generations = DOMAIN b.generations
      /\ \A g \in DOMAIN a.generations : SameBindings(a.generations[g], b.generations[g])
  BY DEF SameFlow
<1>5. SameFlow(x, y)
  BY ONLY <1>2, <1>3, <1>4 DEF SameFlow
<1> QED
  BY <1>1, <1>5

LEMMA ObservedSame ==
  ASSUME NEW a, NEW b, SameFlow(a, b), NEW o
  PROVE  /\ DOMAIN Observed(a, o) = DOMAIN Observed(b, o)
         /\ \A g \in DOMAIN Observed(a, o) : SameBindings(Observed(a, o)[g], Observed(b, o)[g])
<1>1. PICK g, s : g = o.generation /\ s = o.source
  OBVIOUS
<1>2. PICK as, bs : as = a.generations /\ bs = b.generations
  OBVIOUS
<1>3. DOMAIN as = DOMAIN bs /\ \A z \in DOMAIN as : SameBindings(as[z], bs[z])
  BY <1>2 DEF SameFlow
<1>4. PICK x, y : x = Generation(a, g) /\ y = Generation(b, g)
  OBVIOUS
<1>5. DOMAIN x = DOMAIN y /\ \A z \in DOMAIN x : x[z].accepted = y[z].accepted /\ x[z].hops = y[z].hops
  <2>1. CASE g \in DOMAIN as
    <3>1. x = as[g] /\ y = bs[g]
      BY <1>2, <1>3, <1>4, <2>1 DEF Generation
    <3> QED
      BY <1>3, <2>1, <3>1 DEF SameBindings
  <2>2. CASE g \notin DOMAIN as
    <3>1. x = Empty /\ y = Empty
      BY <1>2, <1>3, <1>4, <2>2 DEF Generation
    <3> QED
      BY <3>1
  <2> QED
    BY <2>1, <2>2
<1>6. PICK p, q : p = Binding(x, s) /\ q = Binding(y, s)
  OBVIOUS
<1>7. p.accepted = q.accepted /\ p.hops = q.hops
  BY <1>5, <1>6 DEF Binding
<1>8. PICK d, e : d = Extended(p, o) /\ e = Extended(q, o)
  OBVIOUS
<1>9. d.accepted = e.accepted /\ d.hops = e.hops
  BY <1>7, <1>8 DEF Extended
<1>10. PICK v, w : v = With(x, s, d) /\ w = With(y, s, e)
  OBVIOUS
<1>11. /\ DOMAIN v = DOMAIN x \cup {s} /\ v[s] = d /\ \A z \in DOMAIN x : z # s => v[z] = x[z]
       /\ DOMAIN w = DOMAIN y \cup {s} /\ w[s] = e /\ \A z \in DOMAIN y : z # s => w[z] = y[z]
  BY <1>10 DEF With
<1>12. SameBindings(v, w)
  BY <1>5, <1>9, <1>11 DEF SameBindings
<1>13. PICK t, u : t = With(as, g, v) /\ u = With(bs, g, w)
  OBVIOUS
<1>14. /\ DOMAIN t = DOMAIN as \cup {g} /\ t[g] = v /\ \A z \in DOMAIN as : z # g => t[z] = as[z]
       /\ DOMAIN u = DOMAIN bs \cup {g} /\ u[g] = w /\ \A z \in DOMAIN bs : z # g => u[z] = bs[z]
  BY <1>13 DEF With
<1>15. t = Observed(a, o) /\ u = Observed(b, o)
  BY <1>1, <1>2, <1>4, <1>6, <1>8, <1>10, <1>13 DEF Observed
<1>16. DOMAIN t = DOMAIN u /\ \A z \in DOMAIN t : SameBindings(t[z], u[z])
  BY <1>3, <1>12, <1>14
<1> QED
  BY <1>15, <1>16

LEMMA EvidencedSame ==
  ASSUME NEW known, NEW a, NEW b, SoundFlow(a, known), SoundFlow(b, known), SameFlow(a, b),
         NEW o \in Observations
  PROVE  SameFlow(Evidenced(a, o), Evidenced(b, o))
<1>1. PICK c, d : c = Noted(a, o) /\ d = Noted(b, o)
  OBVIOUS
<1>2. SoundFlow(c, known) /\ SoundFlow(d, known)
  BY <1>1, NotedSound
<1>3. /\ a.key = b.key /\ a.current = b.current
      /\ DOMAIN a.generations = DOMAIN b.generations
  BY DEF SameFlow
<1>4. c.anomalies = d.anomalies /\ c.anomaliesDropped = d.anomaliesDropped
  <2>1. CASE o.generation < a.current
    <3>1. c = Note(a, 1) /\ d = Note(b, 1)
      BY <1>1, <1>3, <2>1 DEF Noted
    <3>2. SameFlow(c, d)
      BY <3>1, NoteSame
    <3> QED
      BY <3>2 DEF SameFlow
  <2>2. CASE ~(o.generation < a.current)
    <3>1. c = a /\ d = b
      BY <1>1, <1>3, <2>2 DEF Noted
    <3> QED
      BY <3>1 DEF SameFlow
  <2> QED
    BY <2>1, <2>2
<1>5. PICK x, y : x = Evidenced(a, o) /\ y = Evidenced(b, o)
  OBVIOUS
<1>6. /\ x.key = a.key /\ x.current = Max({a.current, o.generation})
      /\ x.generations = Observed(a, o)
      /\ x.anomalies = c.anomalies /\ x.anomaliesDropped = c.anomaliesDropped
  <2>1. SoundFlow(Noted(a, o), known)
    BY <1>1, <1>2
  <2>2. PICK r : r = Evidenced(a, o)
    OBVIOUS
  <2>3. r = [key |-> a.key, current |-> Max({a.current, o.generation}),
             generations |-> Observed(a, o),
             history |-> a.history, historyDropped |-> a.historyDropped,
             anomalies |-> Noted(a, o).anomalies,
             anomaliesDropped |-> Noted(a, o).anomaliesDropped]
    BY <2>1, <2>2, EvidencedIs
  <2> QED
    BY ONLY <1>1, <1>5, <2>2, <2>3
<1>7. /\ y.key = b.key /\ y.current = Max({b.current, o.generation})
      /\ y.generations = Observed(b, o)
      /\ y.anomalies = d.anomalies /\ y.anomaliesDropped = d.anomaliesDropped
  <2>1. SoundFlow(Noted(b, o), known)
    BY <1>1, <1>2
  <2>2. PICK r : r = Evidenced(b, o)
    OBVIOUS
  <2>3. r = [key |-> b.key, current |-> Max({b.current, o.generation}),
             generations |-> Observed(b, o),
             history |-> b.history, historyDropped |-> b.historyDropped,
             anomalies |-> Noted(b, o).anomalies,
             anomaliesDropped |-> Noted(b, o).anomaliesDropped]
    BY <2>1, <2>2, EvidencedIs
  <2> QED
    BY ONLY <1>1, <1>5, <2>2, <2>3
<1>8. /\ DOMAIN x.generations = DOMAIN y.generations
      /\ \A g \in DOMAIN x.generations : SameBindings(x.generations[g], y.generations[g])
  BY <1>6, <1>7, ObservedSame
<1>9. SameFlow(x, y)
  BY ONLY <1>3, <1>4, <1>6, <1>7, <1>8 DEF SameFlow
<1> QED
  BY <1>5, <1>9

\* The flow an observation is about, before and after it, and the peers after it.
FlowOrNew(m, o) == IF o.flow \in DOMAIN m.flows THEN m.flows[o.flow] ELSE NewFlow(o)

AppliedFlow(m, o) ==
  IF Collides(m, o)
  THEN Note(FlowOrNew(m, o), KeyBytes[m.peers[o.peer]] + KeyBytes[o.peerKey] + DetailOverhead)
  ELSE IF \/ RegistryFull(m, o)
          \/ /\ o.generation \notin DOMAIN FlowOrNew(m, o).generations
             /\ Cardinality(DOMAIN FlowOrNew(m, o).generations) >= MaxGenerations
       THEN Note(FlowOrNew(m, o), 1) ELSE Evidenced(FlowOrNew(m, o), o)

AppliedPeers(m, o) ==
  IF Collides(m, o) \/ RegistryFull(m, o) \/ o.peer = 0 THEN m.peers ELSE With(m.peers, o.peer, o.peerKey)

LEMMA ApplyToFlowIs ==
  ASSUME NEW m, m = [sources |-> m.sources, flows |-> m.flows, peers |-> m.peers], NEW o
  PROVE  ApplyToFlow(m, o) = [sources |-> m.sources,
                              flows |-> With(m.flows, o.flow, AppliedFlow(m, o)),
                              peers |-> AppliedPeers(m, o)]
<1>1. PICK ss, fs, ps : ss = m.sources /\ fs = m.flows /\ ps = m.peers
  OBVIOUS
<1>2. m = [sources |-> ss, flows |-> fs, peers |-> ps]
  BY <1>1
<1>3. PICK gs, qs : gs = With(fs, o.flow, AppliedFlow(m, o)) /\ qs = AppliedPeers(m, o)
  OBVIOUS
<1>4. CASE Collides(m, o)
  <2>1. ApplyToFlow(m, o) = [m EXCEPT !.flows = gs]
    BY <1>1, <1>3, <1>4 DEF ApplyToFlow, AppliedFlow, FlowOrNew
  <2>2. ApplyToFlow(m, o) = [sources |-> ss, flows |-> gs, peers |-> ps]
    BY ONLY <1>2, <2>1
  <2>3. qs = ps
    BY <1>1, <1>3, <1>4 DEF AppliedPeers
  <2> QED
    BY <1>1, <1>3, <2>2, <2>3
<1>5. CASE ~Collides(m, o) /\ RegistryFull(m, o)
  <2>1. ApplyToFlow(m, o) = [m EXCEPT !.flows = gs]
    BY <1>1, <1>3, <1>5 DEF ApplyToFlow, AppliedFlow, FlowOrNew
  <2>2. ApplyToFlow(m, o) = [sources |-> ss, flows |-> gs, peers |-> ps]
    BY ONLY <1>2, <2>1
  <2>3. qs = ps
    BY <1>1, <1>3, <1>5 DEF AppliedPeers
  <2> QED
    BY <1>1, <1>3, <2>2, <2>3
<1>6. CASE ~Collides(m, o) /\ ~RegistryFull(m, o)
  <2>1. ApplyToFlow(m, o) = [m EXCEPT !.peers = qs, !.flows = gs]
    BY <1>1, <1>3, <1>6 DEF ApplyToFlow, AppliedFlow, FlowOrNew, AppliedPeers
  <2>2. ApplyToFlow(m, o) = [sources |-> ss, flows |-> gs, peers |-> qs]
    BY ONLY <1>2, <2>1
  <2> QED
    BY <1>1, <1>3, <2>2
<1> QED
  BY <1>4, <1>5, <1>6

LEMMA AppliedSame ==
  ASSUME NEW m, NEW n, Sound(m), Sound(n), Same(m, n), NEW o \in Observations, Valid(o),
         o.source \in DOMAIN m.sources, Collides(m, o) => o.peer \in DOMAIN n.peers,
         RegistryFull(m, o) <=> RegistryFull(n, o)
  PROVE  Same(ApplyToFlow(m, o), ApplyToFlow(n, o))
<1>1. PICK known : known = DOMAIN m.sources
  OBVIOUS
<1>2. PICK a, b : a = FlowOrNew(m, o) /\ b = FlowOrNew(n, o)
  OBVIOUS
<1>3. DOMAIN m.flows = DOMAIN n.flows /\ m.sources = n.sources
  BY DEF Same
<1>4. SoundFlow(a, known) /\ SoundFlow(b, known) /\ SameFlow(a, b)
  <2>1. CASE o.flow \in DOMAIN m.flows
    <3>1. a = m.flows[o.flow] /\ b = n.flows[o.flow]
      BY <1>2, <1>3, <2>1 DEF FlowOrNew
    <3> QED
      BY <1>1, <1>3, <2>1, <3>1 DEF Sound, SoundFlows, Same
  <2>2. CASE o.flow \notin DOMAIN m.flows
    <3>1. a = NewFlow(o) /\ b = NewFlow(o)
      BY <1>2, <1>3, <2>2 DEF FlowOrNew
    <3> QED
      BY <3>1, NewFlowSound DEF SameFlow, SameBindings
  <2> QED
    BY <2>1, <2>2
<1>5. Collides(m, o) <=> Collides(n, o)
  BY DEF Collides, Same
<1>6. SameFlow(AppliedFlow(m, o), AppliedFlow(n, o))
  <2>1. CASE Collides(m, o)
    <3>1. m.peers[o.peer] = n.peers[o.peer]
      BY <2>1 DEF Same
    <3>2. PICK detail : detail = KeyBytes[m.peers[o.peer]] + KeyBytes[o.peerKey] + DetailOverhead
      OBVIOUS
    <3>3. AppliedFlow(m, o) = Note(a, detail) /\ AppliedFlow(n, o) = Note(b, detail)
      BY <1>2, <1>5, <2>1, <3>1, <3>2 DEF AppliedFlow
    <3> QED
      BY <1>4, <3>3, NoteSame
  <2>2. CASE ~Collides(m, o)
    <3>1. DOMAIN a.generations = DOMAIN b.generations
      BY <1>4 DEF SameFlow
    <3>2. CASE \/ RegistryFull(m, o)
               \/ /\ o.generation \notin DOMAIN a.generations
                  /\ Cardinality(DOMAIN a.generations) >= MaxGenerations
      <4>1. AppliedFlow(m, o) = Note(a, 1) /\ AppliedFlow(n, o) = Note(b, 1)
        BY <1>2, <1>5, <2>2, <3>1, <3>2 DEF AppliedFlow
      <4> QED
        BY <1>4, <4>1, NoteSame
    <3>3. CASE ~(\/ RegistryFull(m, o)
                 \/ /\ o.generation \notin DOMAIN a.generations
                    /\ Cardinality(DOMAIN a.generations) >= MaxGenerations)
      <4>1. AppliedFlow(m, o) = Evidenced(a, o) /\ AppliedFlow(n, o) = Evidenced(b, o)
        BY <1>2, <1>5, <2>2, <3>1, <3>3 DEF AppliedFlow
      <4> QED
        BY <1>4, <4>1, EvidencedSame
    <3> QED
      BY <3>2, <3>3
  <2> QED
    BY <2>1, <2>2
<1>7. PICK ps, qs : ps = AppliedPeers(m, o) /\ qs = AppliedPeers(n, o)
  OBVIOUS
<1>8. \A p \in DOMAIN qs : p \in DOMAIN ps /\ ps[p] = qs[p]
  <2>1. \A p \in DOMAIN n.peers : p \in DOMAIN m.peers /\ m.peers[p] = n.peers[p]
    BY DEF Same
  <2>2. CASE Collides(m, o) \/ RegistryFull(m, o) \/ o.peer = 0
    <3>1. ps = m.peers /\ qs = n.peers
      BY <1>5, <1>7, <2>2 DEF AppliedPeers
    <3> QED
      BY <2>1, <3>1
  <2>3. CASE ~(Collides(m, o) \/ RegistryFull(m, o) \/ o.peer = 0)
    <3>1. ps = With(m.peers, o.peer, o.peerKey) /\ qs = With(n.peers, o.peer, o.peerKey)
      BY <1>5, <1>7, <2>3 DEF AppliedPeers
    <3> QED
      BY <2>1, <3>1 DEF With
  <2> QED
    BY <2>2, <2>3
<1>9. PICK fs, gs : /\ fs = With(m.flows, o.flow, AppliedFlow(m, o))
                    /\ gs = With(n.flows, o.flow, AppliedFlow(n, o))
  OBVIOUS
<1>10. DOMAIN fs = DOMAIN gs /\ \A f \in DOMAIN fs : SameFlow(fs[f], gs[f])
  <2>1. PICK u, v : u = AppliedFlow(m, o) /\ v = AppliedFlow(n, o) /\ SameFlow(u, v)
    BY <1>6
  <2>2. /\ DOMAIN fs = DOMAIN m.flows \cup {o.flow} /\ fs[o.flow] = u
        /\ \A z \in DOMAIN m.flows : z # o.flow => fs[z] = m.flows[z]
        /\ DOMAIN gs = DOMAIN n.flows \cup {o.flow} /\ gs[o.flow] = v
        /\ \A z \in DOMAIN n.flows : z # o.flow => gs[z] = n.flows[z]
    BY <1>9, <2>1 DEF With
  <2> QED
    BY <1>3, <2>1, <2>2 DEF Same
<1>11. PICK x, y : x = ApplyToFlow(m, o) /\ y = ApplyToFlow(n, o)
  OBVIOUS
<1>12. /\ x = [sources |-> m.sources, flows |-> fs, peers |-> ps]
       /\ y = [sources |-> n.sources, flows |-> gs, peers |-> qs]
  BY <1>7, <1>9, <1>11, ApplyToFlowIs DEF Sound
<1>13. /\ x.sources = m.sources /\ x.flows = fs /\ x.peers = ps
       /\ y.sources = n.sources /\ y.flows = gs /\ y.peers = qs
  BY <1>12
<1>14. Same(x, y)
  BY <1>3, <1>8, <1>10, <1>13 DEF Same
<1> QED
  BY <1>11, <1>14

\* The peers of a replay are peers of the engine, which has no more of them
\* than there is room for: what the replay has no place for, neither has it.
LEMMA FullInBoth ==
  ASSUME NEW m, NEW n, Sound(m), Sound(n), Same(m, n), NEW o, RegistryFull(n, o)
  PROVE  RegistryFull(m, o)
<1>1. PICK P, Q : P = DOMAIN m.peers /\ Q = DOMAIN n.peers /\ Q \subseteq P
  BY DEF Same
<1>2. /\ IsFiniteSet(P) /\ Cardinality(P) \in Nat /\ Cardinality(P) <= MaxFlows
      /\ IsFiniteSet(Q) /\ Cardinality(Q) \in Nat
  BY <1>1, FS_CardinalityType DEF Sound, SoundPeers
<1>3. o.peer # 0 /\ o.peer \notin Q /\ Cardinality(Q) >= MaxFlows
  BY <1>1 DEF RegistryFull
<1>4. Cardinality(Q) <= Cardinality(P) /\ (Cardinality(Q) = Cardinality(P) => Q = P)
  BY <1>1, <1>2, FS_Subset
<1>5. \A c \in Nat, d \in Nat, e \in Nat : c >= e /\ c <= d /\ d <= e => c = d /\ d >= e
  OBVIOUS
<1>6. Q = P /\ Cardinality(P) >= MaxFlows
  BY <1>2, <1>3, <1>4, <1>5, Limits
<1> QED
  BY <1>1, <1>3, <1>6 DEF RegistryFull

\* What recompute_flow changes is not brought back.
LEMMA SettledSame ==
  ASSUME NEW m, Sound(m), NEW fs, fs \subseteq DOMAIN m.flows, NEW n \in Settled(m, fs),
         NEW q, Same(m, q)
  PROVE  Same(n, q)
<1>1. /\ n.sources = m.sources /\ n.peers = m.peers /\ DOMAIN n.flows = DOMAIN m.flows
      /\ \A f \in DOMAIN m.flows : n.flows[f] = m.flows[f] \/ Decided(m.flows[f], n.flows[f])
  BY SettledIs
<1>2. ASSUME NEW f \in DOMAIN m.flows PROVE SameFlow(n.flows[f], q.flows[f])
  <2>1. PICK a, b, c : a = m.flows[f] /\ b = n.flows[f] /\ c = q.flows[f]
    OBVIOUS
  <2>2. SameFlow(a, c) /\ (b = a \/ Decided(a, b))
    BY <1>1, <2>1 DEF Same
  <2>3. SameFlow(b, c)
    BY <2>2 DEF SameFlow, Decided
  <2> QED
    BY <2>1, <2>3
<1> QED
  BY <1>1, <1>2 DEF Same

\* The same evidence leaves such engines alike, unless only one of them
\* takes it for a collision or has no place for its peer.
LEMMA ApplySame ==
  ASSUME NEW m, NEW n, Sound(m), Sound(n), Same(m, n), NEW o \in Observations, Valid(o),
         Collides(m, o) => o.peer \in DOMAIN n.peers,
         RegistryFull(m, o) => RegistryFull(n, o)
  PROVE  Same(Apply(m, o), Apply(n, o))
<1>1. PICK s : s = o.source
  OBVIOUS
<1>2. PICK p, q : p = WithSource(m, s) /\ q = WithSource(n, s)
  OBVIOUS
<1>3. Sound(p) /\ Sound(q)
  BY <1>1, <1>2, WithSourceSound
<1>4. m.sources = n.sources /\ DOMAIN m.flows = DOMAIN n.flows
  BY DEF Same
<1>5. /\ p.sources = q.sources /\ p.flows = m.flows /\ p.peers = m.peers
      /\ q.flows = n.flows /\ q.peers = n.peers
  <2>1. CASE s \in DOMAIN m.sources \/ Cardinality(DOMAIN m.sources) >= MaxSources
    <3>1. p = m /\ q = n
      BY <1>2, <1>4, <2>1 DEF WithSource
    <3> QED
      BY <1>4, <3>1
  <2>2. CASE ~(s \in DOMAIN m.sources \/ Cardinality(DOMAIN m.sources) >= MaxSources)
    <3>1. PICK more : more = With(m.sources, s, Unregistered(s))
      OBVIOUS
    <3>2. p = [m EXCEPT !.sources = more] /\ q = [n EXCEPT !.sources = more]
      BY <1>2, <1>4, <2>2, <3>1 DEF WithSource
    <3>3. PICK ms, mf, mp : m = [sources |-> ms, flows |-> mf, peers |-> mp]
      BY DEF Sound
    <3>4. PICK ns, nf, np : n = [sources |-> ns, flows |-> nf, peers |-> np]
      BY DEF Sound
    <3>5. p = [sources |-> more, flows |-> mf, peers |-> mp]
      BY ONLY <3>2, <3>3
    <3>6. q = [sources |-> more, flows |-> nf, peers |-> np]
      BY ONLY <3>2, <3>4
    <3> QED
      BY <3>3, <3>4, <3>5, <3>6
  <2> QED
    BY <2>1, <2>2
<1>6. Same(p, q)
  BY <1>5 DEF Same
<1>7. SourceRefused(p, s) <=> SourceRefused(q, s)
  BY <1>5 DEF SourceRefused
<1>8. PICK full : full = (o.flow \notin DOMAIN m.flows /\ Cardinality(DOMAIN m.flows) >= MaxFlows)
  OBVIOUS
<1>9. CASE SourceRefused(p, s) \/ full
  <2>1. Apply(m, o) = p /\ Apply(n, o) = q
    BY <1>1, <1>2, <1>4, <1>7, <1>8, <1>9 DEF Apply
  <2> QED
    BY <1>6, <2>1
<1>10. CASE ~(SourceRefused(p, s) \/ full)
  <2>1. Apply(m, o) = ApplyToFlow(p, o) /\ Apply(n, o) = ApplyToFlow(q, o)
    BY <1>1, <1>2, <1>4, <1>7, <1>8, <1>10 DEF Apply
  <2>2. o.source \in DOMAIN p.sources
    BY <1>1, <1>10 DEF SourceRefused
  <2>3. Collides(p, o) => o.peer \in DOMAIN q.peers
    BY <1>5 DEF Collides
  <2>4. RegistryFull(p, o) <=> RegistryFull(q, o)
    <3>1. RegistryFull(m, o) <=> RegistryFull(n, o)
      BY FullInBoth
    <3> QED
      BY <1>5, <3>1 DEF RegistryFull
  <2> QED
    BY <1>3, <1>6, <2>1, <2>2, <2>3, <2>4, AppliedSame
<1> QED
  BY <1>9, <1>10

LEMMA ApplyAllAppend ==
  ASSUME NEW m, NEW V, NEW observations \in Seq(V), NEW o \in V
  PROVE  ApplyAll(m, Append(observations, o)) = Apply(ApplyAll(m, observations), o)
<1>1. PICK n \in Nat : n = Len(observations)
  OBVIOUS
<1>2. PICK more : more = Append(observations, o)
  OBVIOUS
<1>3. /\ Len(more) = n + 1 /\ more[n + 1] = o /\ \A i \in 1 .. n : more[i] = observations[i]
  BY <1>1, <1>2, AppendIs
<1>4. PICK r : Applies(m, observations, n, r) /\ ApplyAll(m, observations) = r[n]
  BY <1>1, ApplyAllIs
<1>5. n + 1 \in Nat /\ n + 1 \in 1 .. n + 1 /\ (n + 1) - 1 = n
  OBVIOUS
<1>6. PICK q : Applies(m, more, n + 1, q) /\ ApplyAll(m, more) = q[n + 1]
  BY <1>3, <1>5, ApplyAllIs
<1> DEFINE Good == {i \in 0 .. n : q[i] = r[i]}
<1>7. 0 \in Good
  BY <1>4, <1>6 DEF Applies
<1>8. ASSUME NEW i \in 0 .. n, i # n, i \in Good PROVE i + 1 \in Good
  <2>1. i + 1 \in 1 .. n /\ i + 1 \in 1 .. n + 1 /\ i + 1 \in 0 .. n /\ (i + 1) - 1 = i
    BY <1>8
  <2>2. q[i + 1] = Apply(q[i], more[i + 1]) /\ r[i + 1] = Apply(r[i], observations[i + 1])
    BY <1>4, <1>6, <2>1 DEF Applies
  <2> QED
    BY <1>3, <1>8, <2>1, <2>2
<1> HIDE DEF Good
<1>9. \A i \in 0 .. n : i \in Good
  BY <1>7, <1>8, UpTo
<1>10. q[n] = r[n]
  BY <1>9 DEF Good
<1>11. q[n + 1] = Apply(q[n], more[n + 1])
  BY <1>5, <1>6 DEF Applies
<1> QED
  BY <1>2, <1>3, <1>4, <1>6, <1>10, <1>11

LEMMA ApplyAllEmpty ==
  ASSUME NEW m
  PROVE  ApplyAll(m, <<>>) = m
<1>1. Len(<<>>) = 0 /\ 0 \in Nat
  OBVIOUS
<1>2. PICK a : Applies(m, <<>>, 0, a) /\ ApplyAll(m, <<>>) = a[0]
  BY <1>1, ApplyAllIs
<1> QED
  BY <1>2 DEF Applies

-----------------------------------------------------------------------------
(* A source registered late is as good as one registered before the        *)
(* evidence, which is the order a replay has them in.                      *)

\* The engine with one source more.
Plus(m, s, e) ==
  [sources |-> With(m.sources, s, e), flows |-> m.flows, peers |-> m.peers]

LEMMA PlusSound ==
  ASSUME NEW m, Sound(m), NEW s \in Nat, NEW e \in EntrySet
  PROVE  Sound(Plus(m, s, e))
<1>1. PICK more : more = With(m.sources, s, e) /\ SoundSources(more)
  BY SourceAdded DEF Sound
<1>2. DOMAIN m.sources \subseteq DOMAIN more
  BY <1>1 DEF With
<1>3. PICK r : r = Plus(m, s, e)
  OBVIOUS
<1>4. r = [sources |-> more, flows |-> m.flows, peers |-> m.peers]
  BY <1>1, <1>3 DEF Plus
<1>5. Sound(r)
  BY <1>1, <1>2, <1>4, SourcesGrow
<1> QED
  BY <1>3, <1>5

LEMMA WithCommutes ==
  ASSUME NEW f, NEW x, NEW y, x # y, NEW u, NEW v
  PROVE  With(With(f, x, u), y, v) = With(With(f, y, v), x, u)
<1>1. PICK a, b : a = With(f, x, u) /\ b = With(f, y, v)
  OBVIOUS
<1>2. /\ DOMAIN a = DOMAIN f \cup {x} /\ a[x] = u /\ \A z \in DOMAIN f : z # x => a[z] = f[z]
      /\ DOMAIN b = DOMAIN f \cup {y} /\ b[y] = v /\ \A z \in DOMAIN f : z # y => b[z] = f[z]
  BY <1>1 DEF With
<1>3. PICK c, d : c = With(a, y, v) /\ d = With(b, x, u)
  OBVIOUS
<1>4. /\ DOMAIN c = DOMAIN a \cup {y} /\ c[y] = v /\ \A z \in DOMAIN a : z # y => c[z] = a[z]
      /\ DOMAIN d = DOMAIN b \cup {x} /\ d[x] = u /\ \A z \in DOMAIN b : z # x => d[z] = b[z]
      /\ c = [z \in DOMAIN c |-> c[z]] /\ d = [z \in DOMAIN d |-> d[z]]
  BY <1>3 DEF With
<1>5. DOMAIN c = DOMAIN d /\ \A z \in DOMAIN c : c[z] = d[z]
  BY <1>2, <1>4
<1>6. c = d
  BY <1>4, <1>5
<1> QED
  BY <1>1, <1>3, <1>6

LEMMA WithSourceIs ==
  ASSUME NEW m, Sound(m), NEW s
  PROVE  WithSource(m, s) =
           IF s \in DOMAIN m.sources \/ ~(Cardinality(DOMAIN m.sources) < MaxSources) THEN m
           ELSE [sources |-> With(m.sources, s, Unregistered(s)), flows |-> m.flows,
                 peers |-> m.peers]
<1>1. PICK ss, fs, ps : ss = m.sources /\ fs = m.flows /\ ps = m.peers
  OBVIOUS
<1>2. m = [sources |-> ss, flows |-> fs, peers |-> ps]
  BY <1>1 DEF Sound
<1>3. PICK c \in Nat : c = Cardinality(DOMAIN ss)
  BY <1>1, FS_CardinalityType DEF Sound, SoundSources
<1>4. c >= MaxSources <=> ~(c < MaxSources)
  <2>1. \A a \in Nat : c >= a <=> ~(c < a)
    OBVIOUS
  <2>2. MaxSources \in Nat
    BY Limits
  <2> QED
    BY <2>1, <2>2
<1>5. CASE s \in DOMAIN ss \/ ~(c < MaxSources)
  <2>1. WithSource(m, s) = m
    BY <1>1, <1>3, <1>4, <1>5 DEF WithSource
  <2> QED
    BY <1>1, <1>3, <1>5, <2>1
<1>6. CASE ~(s \in DOMAIN ss \/ ~(c < MaxSources))
  <2>1. PICK more : more = With(ss, s, Unregistered(s))
    OBVIOUS
  <2>2. WithSource(m, s) = [m EXCEPT !.sources = more]
    BY <1>1, <1>3, <1>4, <1>6, <2>1 DEF WithSource
  <2>3. WithSource(m, s) = [sources |-> more, flows |-> fs, peers |-> ps]
    BY ONLY <1>2, <2>2
  <2> QED
    BY <1>1, <1>3, <1>6, <2>1, <2>3
<1> QED
  BY <1>5, <1>6

LEMMA ApplyPlus ==
  ASSUME NEW m, Sound(m), NEW o \in Observations, Valid(o), NEW s \in Nat, NEW e \in EntrySet,
         s \notin DOMAIN Apply(m, o).sources,
         Cardinality(DOMAIN Apply(m, o).sources) < MaxSources
  PROVE  Apply(Plus(m, s, e), o) = Plus(Apply(m, o), s, e)
<1>1. PICK n : n = Plus(m, s, e) /\ Sound(n)
  BY PlusSound
<1>2. PICK x : x = o.source /\ x \in Nat
  BY ObservationIs
<1>3. PICK p, q : p = WithSource(m, x) /\ q = WithSource(n, x)
  OBVIOUS
<1>4. Sound(p) /\ Sound(q) /\ DOMAIN m.sources \subseteq DOMAIN p.sources
  BY <1>1, <1>2, <1>3, WithSourceSound
<1>5. /\ s \notin DOMAIN p.sources /\ Cardinality(DOMAIN p.sources) < MaxSources
      /\ p.sources = Apply(m, o).sources
  BY <1>2, <1>3, ApplySound
<1>6. PICK ss, fs, ps : m = [sources |-> ss, flows |-> fs, peers |-> ps]
  BY DEF Sound
<1>7. PICK more : more = With(ss, s, e)
  OBVIOUS
<1>8. n = [sources |-> more, flows |-> fs, peers |-> ps] /\ DOMAIN more = DOMAIN ss \cup {s}
      /\ more[s] = e /\ \A z \in DOMAIN ss : z # s => more[z] = ss[z]
  BY <1>1, <1>6, <1>7 DEF Plus, With
<1>9. Cardinality(DOMAIN ss) \in Nat /\ IsFiniteSet(DOMAIN ss)
  BY <1>6, FS_CardinalityType DEF Sound, SoundSources
<1>10. x \in DOMAIN p.sources /\ q = Plus(p, s, e)
  <2>1. CASE x \in DOMAIN ss
    <3>1. p = m
      BY <1>3, <1>6, <2>1 DEF WithSource
    <3>2. q = n
      BY <1>3, <1>8, <2>1 DEF WithSource
    <3> QED
      BY <1>1, <1>6, <2>1, <3>1, <3>2
  <2>2. CASE x \notin DOMAIN ss
    <3>1. Cardinality(DOMAIN ss) < MaxSources
      <4>1. ~(Cardinality(DOMAIN ss) < MaxSources) => p = m
        BY <1>3, <1>6, WithSourceIs
      <4> QED
        BY <1>5, <1>6, <4>1
    <3>2. PICK new, t : new = Unregistered(x) /\ t = With(ss, x, new)
      OBVIOUS
    <3>3. m.sources = ss /\ m.flows = fs /\ m.peers = ps
      BY <1>6
    <3>4. p = [sources |-> t, flows |-> fs, peers |-> ps]
      BY <1>3, <2>2, <3>1, <3>2, <3>3, WithSourceIs
    <3>5. DOMAIN t = DOMAIN ss \cup {x} /\ p.sources = t
      BY <3>2, <3>4 DEF With
    <3>6. x # s
      BY <1>5, <3>5
    <3>7. Cardinality(DOMAIN more) < MaxSources
      <4>1. Cardinality(DOMAIN ss \cup {x}) = Cardinality(DOMAIN ss) + 1
        BY <1>9, <2>2, FS_AddElement
      <4>2. s \notin DOMAIN ss
        BY <1>5, <3>5
      <4>3. Cardinality(DOMAIN ss \cup {s}) = Cardinality(DOMAIN ss) + 1
        BY <1>9, <4>2, FS_AddElement
      <4> QED
        BY <1>5, <1>8, <3>5, <4>1, <4>3
    <3>8. n.sources = more /\ n.flows = fs /\ n.peers = ps
      BY <1>8
    <3>9. x \notin DOMAIN more
      BY <1>8, <2>2, <3>6
    <3>10. PICK u : u = With(more, x, new)
      OBVIOUS
    <3>11. Sound(n)
      BY <1>1
    <3>12. q = [sources |-> u, flows |-> fs, peers |-> ps]
      BY <1>3, <3>2, <3>7, <3>8, <3>9, <3>10, <3>11, WithSourceIs
    <3>13. u = With(t, s, e)
      BY <1>7, <3>2, <3>6, <3>10, WithCommutes
    <3> QED
      BY <3>4, <3>5, <3>12, <3>13 DEF Plus
  <2> QED
    BY <2>1, <2>2
<1>11. PICK pss : pss = p.sources
  OBVIOUS
<1>12. /\ q.flows = p.flows /\ q.peers = p.peers /\ q.sources = With(pss, s, e)
       /\ q = [sources |-> q.sources, flows |-> q.flows, peers |-> q.peers]
       /\ p = [sources |-> p.sources, flows |-> p.flows, peers |-> p.peers]
  BY <1>4, <1>10, <1>11 DEF Plus, Sound
<1>13. SourceRefused(q, x) <=> SourceRefused(p, x)
  <2>1. x # s /\ x \in DOMAIN pss
    BY <1>5, <1>10, <1>11
  <2>2. x \in DOMAIN q.sources /\ q.sources[x] = pss[x]
    BY <1>12, <2>1 DEF With
  <2> QED
    BY <1>11, <2>1, <2>2 DEF SourceRefused
<1>14. PICK full : full = (o.flow \notin DOMAIN m.flows /\ Cardinality(DOMAIN m.flows) >= MaxFlows)
  OBVIOUS
<1>15. n.flows = m.flows
  BY <1>6, <1>8
<1>16. CASE SourceRefused(p, x) \/ full
  <2>1. Apply(m, o) = p /\ Apply(n, o) = q
    BY <1>2, <1>3, <1>13, <1>14, <1>15, <1>16 DEF Apply
  <2> QED
    BY <1>1, <1>10, <2>1
<1>17. CASE ~(SourceRefused(p, x) \/ full)
  <2>1. Apply(m, o) = ApplyToFlow(p, o) /\ Apply(n, o) = ApplyToFlow(q, o)
    BY <1>2, <1>3, <1>13, <1>14, <1>15, <1>17 DEF Apply
  <2>2. AppliedFlow(q, o) = AppliedFlow(p, o) /\ AppliedPeers(q, o) = AppliedPeers(p, o)
    <3>1. Collides(q, o) <=> Collides(p, o)
      BY <1>12 DEF Collides
    <3>2. FlowOrNew(q, o) = FlowOrNew(p, o)
      BY <1>12 DEF FlowOrNew
    <3>3. RegistryFull(q, o) <=> RegistryFull(p, o)
      BY <1>12 DEF RegistryFull
    <3> QED
      BY <1>12, <3>1, <3>2, <3>3 DEF AppliedFlow, AppliedPeers
  <2>3. PICK gs, qs : gs = With(p.flows, o.flow, AppliedFlow(p, o)) /\ qs = AppliedPeers(p, o)
    OBVIOUS
  <2>4. ApplyToFlow(p, o) = [sources |-> pss, flows |-> gs, peers |-> qs]
    BY <1>11, <1>12, <2>3, ApplyToFlowIs
  <2>5. ApplyToFlow(q, o) = [sources |-> With(pss, s, e), flows |-> gs, peers |-> qs]
    BY <1>12, <2>2, <2>3, ApplyToFlowIs
  <2> QED
    BY <1>1, <2>1, <2>4, <2>5 DEF Plus
<1> QED
  BY <1>16, <1>17

LEMMA ApplyAllPlus ==
  ASSUME NEW m, Sound(m), NEW observations \in Seq(ValidObservations), NEW s \in Nat,
         NEW e \in EntrySet, s \notin DOMAIN ApplyAll(m, observations).sources,
         Cardinality(DOMAIN ApplyAll(m, observations).sources) < MaxSources
  PROVE  ApplyAll(Plus(m, s, e), observations) = Plus(ApplyAll(m, observations), s, e)
<1>1. PICK n \in Nat :
        n = Len(observations) /\ \A i \in 1 .. n : observations[i] \in ValidObservations
  OBVIOUS
<1>2. PICK a : Applies(m, observations, n, a) /\ ApplyAll(m, observations) = a[n]
  BY <1>1, ApplyAllIs
<1>3. PICK p : p = Plus(m, s, e)
  OBVIOUS
<1>4. PICK b : Applies(p, observations, n, b) /\ ApplyAll(p, observations) = b[n]
  BY <1>1, ApplyAllIs
<1>5. ASSUME NEW i \in 0 .. n, i # n
      PROVE  /\ i + 1 \in 1 .. n /\ i + 1 \in 0 .. n
             /\ \E o \in Observations :
                  Valid(o) /\ a[i + 1] = Apply(a[i], o) /\ b[i + 1] = Apply(b[i], o)
  <2>1. i + 1 \in 1 .. n /\ i + 1 \in 0 .. n /\ (i + 1) - 1 = i
    BY <1>5
  <2>2. PICK o : o = observations[i + 1] /\ o \in Observations /\ Valid(o)
    BY <1>1, <2>1 DEF ValidObservations
  <2>3. a[i + 1] = Apply(a[i], o) /\ b[i + 1] = Apply(b[i], o)
    BY <1>2, <1>4, <2>1, <2>2 DEF Applies
  <2> QED
    BY <2>1, <2>2, <2>3
<1> DEFINE Good == {k \in 0 .. n : /\ Sound(a[k])
                                   /\ \A j \in 0 .. k : DOMAIN a[j].sources \subseteq DOMAIN a[k].sources}
<1>6. 0 \in Good
  <2>1. a[0] = m /\ \A j \in 0 .. 0 : j = 0
    BY <1>2 DEF Applies
  <2> QED
    BY <2>1
<1>7. ASSUME NEW k \in 0 .. n, k # n, k \in Good PROVE k + 1 \in Good
  <2>1. PICK o \in Observations : a[k + 1] = Apply(a[k], o)
    BY <1>5, <1>7
  <2>2. PICK x, y : x = a[k] /\ y = a[k + 1] /\ Sound(x)
    BY <1>7
  <2>3. Sound(y) /\ DOMAIN x.sources \subseteq DOMAIN y.sources
    BY <2>1, <2>2, ApplySound
  <2>4. \A j \in 0 .. k + 1 : j = k + 1 \/ j \in 0 .. k
    OBVIOUS
  <2> QED
    BY <1>5, <1>7, <2>2, <2>3, <2>4
<1> HIDE DEF Good
<1>8. \A k \in 0 .. n : k \in Good
  BY <1>6, <1>7, UpTo
<1>9. ASSUME NEW j \in 0 .. n
      PROVE  Sound(a[j]) /\ s \notin DOMAIN a[j].sources /\ Cardinality(DOMAIN a[j].sources) < MaxSources
  <2>1. n \in Good /\ j \in Good
    BY <1>8, <1>9
  <2>2. PICK y, z : y = a[j] /\ z = a[n]
    OBVIOUS
  <2>3. DOMAIN y.sources \subseteq DOMAIN z.sources /\ Sound(y) /\ Sound(z)
    BY <2>1, <2>2, <1>9 DEF Good
  <2>4. PICK S, T : S = DOMAIN y.sources /\ T = DOMAIN z.sources /\ S \subseteq T
    BY <2>3
  <2>5. IsFiniteSet(T)
    BY <2>3, <2>4 DEF Sound, SoundSources
  <2>6. Cardinality(S) <= Cardinality(T) /\ Cardinality(T) \in Nat /\ Cardinality(S) \in Nat
    BY <2>4, <2>5, FS_Subset, FS_CardinalityType
  <2>7. \A c \in Nat, d \in Nat, f \in Nat : c <= d /\ d < f => c < f
    OBVIOUS
  <2>8. Cardinality(S) < MaxSources
    BY <1>2, <2>2, <2>4, <2>6, <2>7, Limits
  <2> QED
    BY <1>2, <2>2, <2>3, <2>4, <2>8
<1> DEFINE Moved == {k \in 0 .. n : b[k] = Plus(a[k], s, e)}
<1>10. 0 \in Moved
  BY <1>2, <1>3, <1>4 DEF Applies
<1>11. ASSUME NEW k \in 0 .. n, k # n, k \in Moved PROVE k + 1 \in Moved
  <2>1. k + 1 \in 0 .. n
    BY <1>5, <1>11
  <2>2. PICK o \in Observations :
          Valid(o) /\ a[k + 1] = Apply(a[k], o) /\ b[k + 1] = Apply(b[k], o)
    BY <1>5, <1>11
  <2>3. PICK x, y : x = a[k] /\ y = a[k + 1] /\ b[k] = Plus(x, s, e)
    BY <1>11
  <2>4. Sound(x) /\ s \notin DOMAIN y.sources /\ Cardinality(DOMAIN y.sources) < MaxSources
    BY <1>9, <2>1, <2>3
  <2>5. Apply(Plus(x, s, e), o) = Plus(y, s, e)
    BY <2>2, <2>3, <2>4, ApplyPlus
  <2> QED
    BY <2>1, <2>2, <2>3, <2>5
<1> HIDE DEF Moved
<1>12. \A k \in 0 .. n : k \in Moved
  BY <1>10, <1>11, UpTo
<1>13. n \in Moved
  BY <1>12
<1> QED
  BY <1>2, <1>3, <1>4, <1>13 DEF Moved

\* The registry restored from the descriptors D and the evident sources E.
SourcesFrom(ss, D, E) ==
  /\ ss = [s \in DOMAIN ss |-> ss[s]]
  /\ DOMAIN ss = {x.id : x \in D} \cup {x.id : x \in E}
  /\ \A s \in DOMAIN ss :
       ss[s] = IF \E x \in D : x.id = s THEN AsSource(CHOOSE x \in D : x.id = s)
               ELSE AsSource(CHOOSE x \in E : x.id = s)

LEMMA BlankSources ==
  ASSUME NEW state, NEW D, D = ToSet(state.sources), NEW E, E = Evident(state),
         NEW ss, ss = RestoredSources(Blank, state)
  PROVE  SourcesFrom(ss, D, E)
<1>1. DOMAIN Blank.sources = {}
  BY BlankSound
<1> QED
  BY <1>1 DEF RestoredSources, SourcesFrom

\* One descriptor more in the state.
LEMMA RestoreStatePlus ==
  ASSUME NEW ds \in Seq(DescriptorSet), NEW fs \in Seq(FlowSet), NEW d \in DescriptorSet,
         \A i, j \in 1 .. Len(ds) : ds[i].id = ds[j].id => i = j,
         d.id \notin DOMAIN RestoreState(Blank, [sources |-> ds, flows |-> fs]).sources
  PROVE  RestoreState(Blank, [sources |-> Append(ds, d), flows |-> fs]) =
           Plus(RestoreState(Blank, [sources |-> ds, flows |-> fs]), d.id, AsSource(d))
<1>1. PICK before, after :
        before = [sources |-> ds, flows |-> fs] /\ after = [sources |-> Append(ds, d), flows |-> fs]
  OBVIOUS
<1>2. PICK T : T = DescriptorSet
  OBVIOUS
<1>3. PICK more \in Seq(T) :
        /\ more = Append(ds, d) /\ Len(more) = Len(ds) + 1 /\ more[Len(ds) + 1] = d
        /\ \A i \in 1 .. Len(ds) : more[i] = ds[i]
  <2>1. ds \in Seq(T) /\ d \in T
    BY <1>2
  <2>2. /\ Append(ds, d) \in Seq(T) /\ Len(Append(ds, d)) = Len(ds) + 1
        /\ \A i \in 1 .. Len(ds) : Append(ds, d)[i] = ds[i] /\ Append(ds, d)[Len(ds) + 1] = d
    BY <2>1, AppendIs
  <2>3. Append(ds, d)[Len(ds) + 1] = d
    BY <2>1, AppendIs
  <2> QED
    BY <2>2, <2>3
<1>4. PICK D, N : D = ToSet(ds) /\ N = ToSet(more)
  OBVIOUS
<1>5. PICK n \in Nat : n = Len(ds)
  OBVIOUS
<1>6. /\ \A i \in 1 .. n : ds[i] \in D
      /\ \A x \in D : \E i \in 1 .. n : ds[i] = x
      /\ D \subseteq T
  <2>1. ds \in Seq(T)
    BY <1>2
  <2> QED
    BY <1>4, <1>5, <2>1, MembersOf
<1>7. N = D \cup {d}
  <2>1. /\ \A i \in 1 .. n + 1 : more[i] \in N
        /\ \A x \in N : \E i \in 1 .. n + 1 : more[i] = x
    <3>1. /\ \A i \in 1 .. Len(more) : more[i] \in ToSet(more)
          /\ \A x \in ToSet(more) : \E i \in 1 .. Len(more) : more[i] = x
      BY MembersOf
    <3>2. Len(more) = n + 1
      BY <1>3, <1>5
    <3> QED
      BY <1>4, <3>1, <3>2
  <2>2. \A i \in 1 .. n + 1 : i = n + 1 \/ i \in 1 .. n
    OBVIOUS
  <2>3. n + 1 \in 1 .. n + 1 /\ \A i \in 1 .. n : i \in 1 .. n + 1
    OBVIOUS
  <2>4. \A x \in N : x \in D \cup {d}
    BY <1>3, <1>5, <1>6, <2>1, <2>2
  <2>5. \A x \in D \cup {d} : x \in N
    BY <1>3, <1>5, <1>6, <2>1, <2>3
  <2> QED
    BY <2>4, <2>5
<1>8. \A x, y \in D : x.id = y.id => x = y
  BY <1>5, <1>6
<1>9. PICK E : E = Evident(before) /\ E = Evident(after)
  BY <1>1 DEF Evident
<1>10. PICK ss, us : ss = RestoredSources(Blank, before) /\ us = RestoredSources(Blank, after)
  OBVIOUS
<1>11. before.sources = ds /\ after.sources = more /\ before.flows = fs /\ after.flows = fs
  BY <1>1, <1>3
<1>13. SourcesFrom(ss, D, E)
  <2>1. D = ToSet(before.sources)
    BY <1>4, <1>11
  <2> QED
    BY <1>9, <1>10, <2>1, BlankSources
<1>14. SourcesFrom(us, N, E)
  <2>1. N = ToSet(after.sources)
    BY <1>4, <1>11
  <2> QED
    BY <1>9, <1>10, <2>1, BlankSources
<1>15. d.id \notin DOMAIN ss
  BY <1>1, <1>10, RestoreStateIs
<1>16. DOMAIN us = DOMAIN ss \cup {d.id}
  BY <1>7, <1>13, <1>14 DEF SourcesFrom
<1>17. PICK ws : ws = With(ss, d.id, AsSource(d))
  OBVIOUS
<1>18. /\ DOMAIN ws = DOMAIN ss \cup {d.id} /\ ws[d.id] = AsSource(d)
       /\ \A z \in DOMAIN ss : z # d.id => ws[z] = ss[z]
       /\ ws = [z \in DOMAIN ws |-> ws[z]]
  BY <1>17 DEF With
<1>19. ASSUME NEW s \in DOMAIN us PROVE us[s] = ws[s]
  <2>1. CASE s = d.id
    <3>1. \A x \in N : x.id = s => x = d
      BY <1>7, <1>13, <1>15, <2>1 DEF SourcesFrom
    <3>2. PICK x : x = CHOOSE y \in N : y.id = s
      OBVIOUS
    <3>3. \E y \in N : y.id = s
      BY <1>7, <2>1
    <3>4. x \in N /\ x.id = s
      BY <3>2, <3>3
    <3>5. us[s] = AsSource(x)
      BY <1>14, <1>19, <3>2, <3>3 DEF SourcesFrom
    <3> QED
      BY <1>18, <2>1, <3>1, <3>4, <3>5
  <2>2. CASE s # d.id
    <3>1. s \in DOMAIN ss /\ ws[s] = ss[s]
      BY <1>16, <1>18, <2>2
    <3>2. (\E x \in N : x.id = s) <=> (\E x \in D : x.id = s)
      BY <1>7, <2>2
    <3>3. CASE \E x \in D : x.id = s
      <4>1. PICK x, y : x = (CHOOSE z \in N : z.id = s) /\ y = CHOOSE z \in D : z.id = s
        OBVIOUS
      <4>2. x \in N /\ x.id = s /\ y \in D /\ y.id = s
        BY <3>2, <3>3, <4>1
      <4>3. x = y
        BY <1>7, <1>8, <2>2, <4>2
      <4>4. us[s] = AsSource(x) /\ ss[s] = AsSource(y)
        BY <1>13, <1>14, <1>19, <3>1, <3>2, <3>3, <4>1 DEF SourcesFrom
      <4> QED
        BY <3>1, <4>3, <4>4
    <3>4. CASE ~(\E x \in D : x.id = s)
      <4>1. PICK x : x = CHOOSE z \in E : z.id = s
        OBVIOUS
      <4>2. us[s] = AsSource(x)
        BY <1>14, <1>19, <3>2, <3>4, <4>1 DEF SourcesFrom
      <4>3. ss[s] = AsSource(x)
        BY <1>13, <3>1, <3>4, <4>1 DEF SourcesFrom
      <4> QED
        BY ONLY <3>1, <4>2, <4>3
    <3> QED
      BY <3>3, <3>4
  <2> QED
    BY <2>1, <2>2
<1>20. us = ws
  BY <1>14, <1>16, <1>18, <1>19 DEF SourcesFrom
<1>21. RestoredFlows(before) = RestoredFlows(after)
  BY <1>11 DEF RestoredFlows
<1>22. PICK gs : gs = RestoredFlows(before)
  OBVIOUS
<1>23. /\ RestoreState(Blank, before) = [sources |-> ss, flows |-> gs, peers |-> Empty]
       /\ RestoreState(Blank, after) = [sources |-> us, flows |-> gs, peers |-> Empty]
  BY <1>10, <1>21, <1>22, RestoreStateIs
<1>24. PICK p : p = RestoreState(Blank, before)
  OBVIOUS
<1>25. p.sources = ss /\ p.flows = gs /\ p.peers = Empty
  BY <1>23, <1>24
<1>26. Plus(p, d.id, AsSource(d)) = [sources |-> ws, flows |-> gs, peers |-> Empty]
  BY <1>17, <1>25 DEF Plus
<1> QED
  BY <1>1, <1>3, <1>20, <1>23, <1>24, <1>26

-----------------------------------------------------------------------------
(* What persist_state writes restores what it was written from.            *)

LEMMA SourcesPersisted ==
  ASSUME NEW m, SoundSources(m.sources), NEW gen, SoundGeneration(gen, DOMAIN m.sources),
         NEW g \in Nat, NEW x \in ToSet(PersistGeneration(m, g, gen).sources)
  PROVE  \E s \in DOMAIN gen : x = SourceOfBinding(m, gen, s)
<1>1. PICK p \in GenerationSet : p = PersistGeneration(m, g, gen)
  BY GenerationPersisted
<1>2. PICK D : D = ToSet(p.sources)
  OBVIOUS
<1>3. D = {SourceOfBinding(m, gen, s) : s \in DOMAIN gen}
  BY <1>1, <1>2, GenerationPersisted
<1> QED
  BY <1>1, <1>2, <1>3

LEMMA GenerationBack ==
  ASSUME NEW m, SoundSources(m.sources), NEW gen, SoundGeneration(gen, DOMAIN m.sources),
         NEW g \in Nat
  PROVE  SameBindings(gen, RestoreGeneration(PersistGeneration(m, g, gen)))
<1>1. PICK p \in GenerationSet : p = PersistGeneration(m, g, gen)
  BY GenerationPersisted
<1>2. PICK D : D = ToSet(p.sources)
  OBVIOUS
<1>3. D = {SourceOfBinding(m, gen, s) : s \in DOMAIN gen}
  BY <1>1, <1>2, GenerationPersisted
<1>4. D \subseteq SourceSet
  <2>1. PICK ss \in Seq(SourceSet) : ss = p.sources
    BY DEF GenerationSet
  <2> QED
    BY <1>2, <2>1, ToSetIs
<1>5. PICK back : back = RestoreGeneration(p)
  OBVIOUS
<1>6. /\ DOMAIN back = {x.id : x \in D}
      /\ \A s \in DOMAIN back : back[s] = RestoreBinding(CHOOSE x \in D : x.id = s)
  BY <1>2, <1>5 DEF RestoreGeneration
<1>7. \A s \in DOMAIN gen :
        /\ SourceOfBinding(m, gen, s).id = s
        /\ SourceOfBinding(m, gen, s).accepted = gen[s].accepted
        /\ SourceOfBinding(m, gen, s).hops = gen[s].hops
  BY DEF SourceOfBinding
<1>8. DOMAIN back = DOMAIN gen
  <2>1. \A x \in D : x.id \in DOMAIN gen
    BY <1>3, <1>7
  <2>2. \A s \in DOMAIN gen : \E x \in D : x.id = s
    BY <1>3, <1>7
  <2> QED
    BY <1>6, <2>1, <2>2
<1>9. ASSUME NEW s \in DOMAIN gen
      PROVE  gen[s].accepted = back[s].accepted /\ gen[s].hops = back[s].hops
  <2>1. PICK x : x = CHOOSE y \in D : y.id = s
    OBVIOUS
  <2>2. \E y \in D : y.id = s
    BY <1>3, <1>7, <1>9
  <2>3. x \in D /\ x.id = s
    BY <2>1, <2>2
  <2>4. x = SourceOfBinding(m, gen, s)
    BY <1>3, <1>7, <2>3
  <2>5. back[s] = RestoreBinding(x)
    BY <1>6, <1>8, <1>9, <2>1
  <2>6. x \in SourceSet
    BY <1>4, <2>3
  <2>7. back[s].accepted = x.accepted /\ back[s].hops = x.hops
    BY <2>5, <2>6, RestoreBindingTyped
  <2> QED
    BY <1>7, <1>9, <2>4, <2>7
<1>10. SameBindings(gen, back)
  BY <1>8, <1>9 DEF SameBindings
<1> QED
  BY <1>1, <1>5, <1>10

PersistedGenerations(m, flow) ==
  {PersistGeneration(m, g, flow.generations[g]) : g \in DOMAIN flow.generations}

LEMMA GenerationsPersisted ==
  ASSUME NEW m, SoundSources(m.sources), NEW f \in Nat, NEW flow, flow = m.flows[f],
         SoundFlow(flow, DOMAIN m.sources)
  PROVE  ToSet(PersistFlow(m, f).generations) = PersistedGenerations(m, flow)
<1>1. ToSet(PersistFlow(m, f).generations) =
        {PersistGeneration(m, g, flow.generations[g]) : g \in DOMAIN flow.generations}
  BY FlowPersisted
<1> QED
  BY <1>1 DEF PersistedGenerations

LEMMA FlowBack ==
  ASSUME NEW m, SoundSources(m.sources), NEW f \in Nat, NEW flow, flow = m.flows[f],
         SoundFlow(flow, DOMAIN m.sources)
  PROVE  SameFlow(flow, RestoreFlow(PersistFlow(m, f)))
<1>1. PICK p \in FlowSet :
        /\ p = PersistFlow(m, f) /\ p.key = flow.key /\ p.current = flow.current
        /\ p.history = flow.history /\ p.anomalies = flow.anomalies
        /\ p.anomaliesDropped = flow.anomaliesDropped
  BY FlowPersisted
<1>2. PICK D : D = ToSet(p.generations)
  OBVIOUS
<1>3. D = {PersistGeneration(m, g, flow.generations[g]) : g \in DOMAIN flow.generations}
  <2>1. ToSet(PersistFlow(m, f).generations) = PersistedGenerations(m, flow)
    BY GenerationsPersisted
  <2> QED
    BY <1>1, <1>2, <2>1 DEF PersistedGenerations
<1>4. PICK back : back = RestoreFlow(p)
  OBVIOUS
<1>5. PICK known : known = {x.id : x \in EvidentIn(p)}
  OBVIOUS
<1>6. /\ back.key = p.key /\ back.current = p.current /\ back.history = p.history
      /\ back.anomalies = p.anomalies /\ back.anomaliesDropped = p.anomaliesDropped
      /\ back.generations = [g \in {x.id : x \in D} |->
                               RestoreGeneration(CHOOSE x \in D : x.id = g)]
  BY <1>2, <1>4, <1>5, FlowRestored
<1>7. PICK gens : gens = back.generations
  OBVIOUS
<1>8. DOMAIN gens = {x.id : x \in D}
      /\ \A g \in DOMAIN gens : gens[g] = RestoreGeneration(CHOOSE x \in D : x.id = g)
  BY <1>6, <1>7
<1>9. \A g \in DOMAIN flow.generations :
        /\ SoundGeneration(flow.generations[g], DOMAIN m.sources) /\ g \in Nat
        /\ PersistGeneration(m, g, flow.generations[g]).id = g
  <2>1. TAKE g \in DOMAIN flow.generations
  <2>2. PICK gen : gen = flow.generations[g] /\ SoundGeneration(gen, DOMAIN m.sources) /\ g \in Nat
    BY DEF SoundFlow
  <2>3. PersistGeneration(m, g, gen).id = g
    BY <2>2, GenerationPersisted
  <2> QED
    BY <2>2, <2>3
<1>10. DOMAIN gens = DOMAIN flow.generations
  BY <1>3, <1>8, <1>9
<1>11. ASSUME NEW g \in DOMAIN flow.generations PROVE SameBindings(flow.generations[g], gens[g])
  <2>1. PICK gen : gen = flow.generations[g] /\ SoundGeneration(gen, DOMAIN m.sources) /\ g \in Nat
    BY <1>9
  <2>2. PICK x : x = CHOOSE y \in D : y.id = g
    OBVIOUS
  <2>3. \E y \in D : y.id = g
    BY <1>3, <1>9
  <2>4. x \in D /\ x.id = g
    BY <2>2, <2>3
  <2>5. x = PersistGeneration(m, g, gen)
    BY <1>3, <1>9, <2>1, <2>4
  <2>6. gens[g] = RestoreGeneration(x)
    BY <1>8, <1>10, <2>2
  <2>7. SameBindings(gen, RestoreGeneration(x))
    BY <2>1, <2>5, GenerationBack
  <2> QED
    BY <2>1, <2>6, <2>7
<1>12. SameFlow(flow, back)
  BY <1>1, <1>6, <1>7, <1>10, <1>11 DEF SameFlow
<1> QED
  BY <1>1, <1>4, <1>12

\* Of an engine without a retired source.
LEMMA StateBack ==
  ASSUME NEW m, Sound(m), Active(m) = DOMAIN m.sources
  PROVE  Same(m, RestoreState(Blank, PersistState(m)))
<1>1. PICK state \in StateSet : state = PersistState(m)
  BY StatePersisted
<1>2. PICK D, F, E : D = ToSet(state.sources) /\ F = ToSet(state.flows) /\ E = Evident(state)
  OBVIOUS
<1>3. D = {DescriptorOfEntry(m, s) : s \in DOMAIN m.sources}
  BY <1>1, <1>2, StatePersisted
<1>4. F = {PersistFlow(m, f) : f \in DOMAIN m.flows}
  BY <1>1, <1>2, StatePersisted
<1>5. SoundSources(m.sources) /\ SoundFlows(m.flows, DOMAIN m.sources)
  BY DEF Sound
<1>6. PICK ss, gs : ss = RestoredSources(Blank, state) /\ gs = RestoredFlows(state)
  OBVIOUS
<1>7. SourcesFrom(ss, D, E)
  BY <1>2, <1>6, BlankSources
<1>8. \A s \in DOMAIN m.sources : DescriptorOfEntry(m, s).id = s
  BY DEF DescriptorOfEntry
<1>9. \A f \in DOMAIN m.flows : f \in Nat /\ SoundFlow(m.flows[f], DOMAIN m.sources)
  BY <1>5 DEF SoundFlows
<1>10. \A f \in DOMAIN m.flows : PersistFlow(m, f).id = f
  BY <1>5, <1>9, FlowPersisted
<1>11. \A x \in E : x.id \in DOMAIN m.sources
  <2>1. TAKE x \in E
  <2>2. E = UNION {EvidentIn(p) : p \in F}
    BY <1>2, EvidentIs
  <2>3. PICK p \in F : x \in EvidentIn(p)
    BY <2>2
  <2>4. PICK f \in DOMAIN m.flows : p = PersistFlow(m, f)
    BY <1>4, <2>3
  <2>5. PICK flow : flow = m.flows[f] /\ f \in Nat /\ SoundFlow(flow, DOMAIN m.sources)
    BY <1>9
  <2>6. ToSet(p.generations) = PersistedGenerations(m, flow)
    BY <1>5, <2>4, <2>5, GenerationsPersisted
  <2>7. PICK g \in DOMAIN flow.generations :
          x \in ToSet(PersistGeneration(m, g, flow.generations[g]).sources)
    BY <2>3, <2>6 DEF EvidentIn, PersistedGenerations
  <2>8. PICK gen : gen = flow.generations[g] /\ SoundGeneration(gen, DOMAIN m.sources) /\ g \in Nat
    BY <2>5 DEF SoundFlow
  <2>9. PICK s \in DOMAIN gen : x = SourceOfBinding(m, gen, s)
    BY <1>5, <2>7, <2>8, SourcesPersisted
  <2> QED
    BY <2>8, <2>9 DEF SourceOfBinding, SoundGeneration
<1>12. DOMAIN ss = DOMAIN m.sources
  BY <1>3, <1>7, <1>8, <1>11 DEF SourcesFrom
<1>13. ASSUME NEW s \in DOMAIN m.sources PROVE ss[s] = m.sources[s]
  <2>1. PICK x : x = CHOOSE y \in D : y.id = s
    OBVIOUS
  <2>2. \E y \in D : y.id = s
    BY <1>3, <1>8
  <2>3. x \in D /\ x.id = s
    BY <2>1, <2>2
  <2>4. x = DescriptorOfEntry(m, s)
    BY <1>3, <1>8, <2>3
  <2>5. ss[s] = AsSource(x)
    BY <1>7, <1>12, <2>1, <2>2 DEF SourcesFrom
  <2>6. PICK e \in EntrySet : e = m.sources[s]
    BY <1>5 DEF SoundSources
  <2>7. e.retired = FALSE
    BY <2>6 DEF Active, EntrySet
  <2>8. e = [key |-> e.key, authority |-> e.authority, retired |-> e.retired]
    BY DEF EntrySet
  <2>9. AsSource(x) = [key |-> e.key, authority |-> e.authority, retired |-> FALSE]
    BY <2>4, <2>6 DEF AsSource, DescriptorOfEntry
  <2> QED
    BY <2>5, <2>6, <2>7, <2>8, <2>9
<1>14. ss = m.sources
  BY <1>5, <1>7, <1>12, <1>13 DEF SourcesFrom, SoundSources
<1>15. /\ DOMAIN gs = {x.id : x \in F}
       /\ \A f \in DOMAIN gs : gs[f] = RestoreFlow(CHOOSE x \in F : x.id = f)
  BY <1>2, <1>6 DEF RestoredFlows
<1>16. DOMAIN gs = DOMAIN m.flows
  BY <1>4, <1>10, <1>15
<1>17. ASSUME NEW f \in DOMAIN m.flows PROVE SameFlow(m.flows[f], gs[f])
  <2>1. PICK x : x = CHOOSE y \in F : y.id = f
    OBVIOUS
  <2>2. \E y \in F : y.id = f
    BY <1>4, <1>10
  <2>3. x \in F /\ x.id = f
    BY <2>1, <2>2
  <2>4. x = PersistFlow(m, f)
    BY <1>4, <1>10, <2>3
  <2>5. gs[f] = RestoreFlow(x)
    BY <1>15, <1>16, <2>1
  <2>6. f \in Nat /\ SoundFlow(m.flows[f], DOMAIN m.sources)
    BY <1>9
  <2> QED
    BY <1>5, <2>4, <2>5, <2>6, FlowBack
<1>18. PICK r : r = RestoreState(Blank, state)
  OBVIOUS
<1>19. r.sources = ss /\ r.flows = gs /\ r.peers = Empty
  BY <1>6, <1>18, RestoreStateIs
<1>20. DOMAIN r.peers = {}
  BY <1>19 DEF Empty
<1>21. Same(m, r)
  BY <1>14, <1>16, <1>17, <1>19, <1>20 DEF Same
<1> QED
  BY <1>1, <1>18, <1>21

-----------------------------------------------------------------------------
(* Which journals a replay refuses.                                        *)

Evidences(j) == {i \in DOMAIN j : j[i].kind = "ObservationRecord"}

\* A record its reader does not take.
Unfit(x) ==
  \/ x.kind = "ObservationRecord" /\ KeyBytes[Last(x.payload)] > MaxKeyBytes
  \/ x.kind = "SourceDescriptor" /\ ~DecodeDescriptor(x.payload).ok
  \/ x.kind = "Flow" /\ ~DecodeFlow(x.payload).ok

\* Unreadable of any record sequence.
Unread(j) == Cardinality(Evidences(j)) > MaxIngestRecords \/ \E x \in ToSet(j) : Unfit(x)

\* r reads j: it is refused if and only if j is one of those, and otherwise
\* has all its observations.
Reading(j, r) ==
  /\ r.ok <=> ~Unread(j)
  /\ r.ok => Len(r.observations) = Cardinality(Evidences(j))

\* The key of the peer is the last token of an observation.
LEMMA LastIsPeerKey ==
  ASSUME NEW o \in ObservationSet
  PROVE  Last(WriteObservation(o)) = o.peerKey
<1>1. /\ o.source \in Nat /\ o.sequence \in Nat /\ o.flow \in Nat /\ o.generation \in Nat
      /\ o.peer \in Nat /\ o.queue \in Nat \cup {None} /\ o.link \in Nat \cup {None}
      /\ o.hops \in Seq(Nat) /\ o.flowKey \in Nat /\ o.peerKey \in Nat
  BY Limits DEF ObservationSet
<1>2. PICK tokens \in Seq(Nat) : tokens = <<>>
  BY EmptySeq
<1>3. PICK ws : ws = << <<o.source>>, <<o.sequence>>, <<o.flow>>, <<o.generation>>, <<o.peer>>,
                        WriteOptional(o.queue), WriteOptional(o.link), WriteScalars(o.hops),
                        <<o.flowKey>>, <<o.peerKey>> >>
  OBVIOUS
<1>4. WriteOptional(o.queue) \in Seq(Nat) /\ WriteOptional(o.link) \in Seq(Nat)
  BY <1>1, <1>2, OptionReads
<1>5. WriteScalars(o.hops) \in Seq(Nat)
  BY <1>1, <1>2, Limits, ScalarsRead
<1>6. ws \in [1 .. 10 -> Seq(Nat)]
  <2>1. /\ <<o.source>> \in Seq(Nat) /\ <<o.sequence>> \in Seq(Nat) /\ <<o.flow>> \in Seq(Nat)
        /\ <<o.generation>> \in Seq(Nat) /\ <<o.peer>> \in Seq(Nat)
        /\ <<o.flowKey>> \in Seq(Nat) /\ <<o.peerKey>> \in Seq(Nat)
    BY <1>1
  <2>2. PICK S : S = Seq(Nat)
    OBVIOUS
  <2> QED
    BY <1>3, <1>4, <1>5, <2>1, <2>2, TuplesTyped
<1>7. 10 \in Nat \ {0} /\ 10 \in 2 .. 10 /\ 10 - 1 = 9 /\ 9 \in 1 .. 10
  OBVIOUS
<1>8. PICK f \in [1 .. 10 -> Seq(Nat)] :
        FlattenSeq(ws) = f[10] /\ \A i \in 2 .. 10 : f[i] = f[i - 1] \o ws[i]
  BY <1>6, <1>7, FlattenIs
<1>9. PICK a \in Seq(Nat) : a = f[9]
  BY <1>7, <1>8
<1>10. f[10] = a \o <<o.peerKey>>
  <2>1. ws[10] = <<o.peerKey>>
    BY <1>3
  <2> QED
    BY <1>7, <1>8, <1>9, <2>1
<1>11. PICK w : w = a \o <<o.peerKey>>
  OBVIOUS
<1>12. Len(w) = Len(a) + 1 /\ w[Len(a) + 1] = o.peerKey
  BY <1>1, <1>9, <1>11
<1>13. WriteObservation(o) = w
  BY <1>3, <1>8, <1>10, <1>11 DEF WriteObservation
<1> QED
  BY <1>12, <1>13 DEF Last

\* One record more, and one observation more if it is one.
LEMMA UnreadAppend ==
  ASSUME NEW j, Listed(j), NEW x
  PROVE  /\ Cardinality(Evidences(j)) \in Nat
         /\ Cardinality(Evidences(Append(j, x))) =
              Cardinality(Evidences(j)) + IF x.kind = "ObservationRecord" THEN 1 ELSE 0
         /\ ToSet(Append(j, x)) = ToSet(j) \cup {x}
<1>1. PICK n \in Nat : n = Len(j) /\ DOMAIN j = 1 .. n
  BY DEF Listed
<1>2. PICK more : more = Append(j, x)
  OBVIOUS
<1>3. /\ Len(more) = n + 1 /\ DOMAIN more = 1 .. n + 1 /\ more[n + 1] = x
      /\ \A i \in 1 .. n : more[i] = j[i]
  <2>1. Listed(more)
    BY <1>2, ListedGrows
  <2>2. DOMAIN more = 1 .. Len(more)
    BY <2>1 DEF Listed
  <2> QED
    BY <1>1, <1>2, <2>2, ListedGrows
<1>4. PICK E : E = Evidences(j) /\ E \subseteq 1 .. n
  BY <1>1 DEF Evidences
<1>5. IsFiniteSet(E) /\ Cardinality(E) \in Nat
  <2>1. IsFiniteSet(1 .. n)
    BY IntervalSize
  <2> QED
    BY <1>4, <2>1, FS_Subset, FS_CardinalityType
<1>6. Evidences(more) = IF x.kind = "ObservationRecord" THEN E \cup {n + 1} ELSE E
  <2>1. \A i \in 1 .. n + 1 : i = n + 1 \/ i \in 1 .. n
    OBVIOUS
  <2>2. 1 .. n \subseteq 1 .. n + 1 /\ n + 1 \in 1 .. n + 1 /\ n + 1 \notin 1 .. n
    OBVIOUS
  <2> QED
    BY <1>1, <1>3, <1>4, <2>1, <2>2 DEF Evidences
<1>7. n + 1 \notin E
  BY <1>4
<1>8. Cardinality(E \cup {n + 1}) = Cardinality(E) + 1
  BY <1>5, <1>7, FS_AddElement
<1>9. Cardinality(Evidences(more)) =
        Cardinality(E) + IF x.kind = "ObservationRecord" THEN 1 ELSE 0
  BY <1>5, <1>6, <1>8
<1>10. ToSet(more) = ToSet(j) \cup {x}
  <2>1. \A i \in 1 .. n + 1 : i = n + 1 \/ i \in 1 .. n
    OBVIOUS
  <2>2. 1 .. n \subseteq 1 .. n + 1 /\ n + 1 \in 1 .. n + 1
    OBVIOUS
  <2>3. ToSet(more) = {more[i] : i \in 1 .. n + 1} /\ ToSet(j) = {j[i] : i \in 1 .. n}
    BY <1>1, <1>3 DEF ToSet
  <2> QED
    BY <1>3, <2>1, <2>2, <2>3
<1> QED
  BY <1>2, <1>4, <1>5, <1>9, <1>10

\* A sequence that one more record cannot save.
LEMMA UnreadGrows ==
  ASSUME NEW j, Listed(j), NEW x
  PROVE  Unread(Append(j, x)) <=>
           \/ Unread(j) \/ Unfit(x)
           \/ x.kind = "ObservationRecord" /\ Cardinality(Evidences(j)) >= MaxIngestRecords
<1>1. PICK a \in Nat : a = Cardinality(Evidences(j))
  BY UnreadAppend
<1>2. PICK more : more = Append(j, x)
  OBVIOUS
<1>3. PICK b : b = Cardinality(Evidences(more)) /\ b = a + IF x.kind = "ObservationRecord" THEN 1 ELSE 0
  BY <1>1, <1>2, UnreadAppend
<1>4. ToSet(more) = ToSet(j) \cup {x}
  BY <1>2, UnreadAppend
<1>5. b > MaxIngestRecords <=>
        a > MaxIngestRecords \/ (x.kind = "ObservationRecord" /\ a >= MaxIngestRecords)
  <2>1. \A c \in Nat : (a + 1 > c <=> a >= c) /\ (a > c => a >= c) /\ a + 0 = a
    OBVIOUS
  <2> QED
    BY <1>3, <2>1, Limits
<1>6. (\E y \in ToSet(more) : Unfit(y)) <=> (\E y \in ToSet(j) : Unfit(y)) \/ Unfit(x)
  BY <1>4
<1>7. Unread(more) <=> b > MaxIngestRecords \/ \E y \in ToSet(more) : Unfit(y)
  BY <1>3 DEF Unread
<1>8. Unread(j) <=> a > MaxIngestRecords \/ \E y \in ToSet(j) : Unfit(y)
  BY <1>1 DEF Unread
<1>9. Unread(more) <=> \/ Unread(j) \/ Unfit(x)
                       \/ x.kind = "ObservationRecord" /\ a >= MaxIngestRecords
  BY ONLY <1>5, <1>6, <1>7, <1>8, Zenon
<1> QED
  BY <1>1, <1>2, <1>9, Zenon

\* An observation is added.
LEMMA ReadingAfterEvidence ==
  ASSUME NEW j, Listed(j), NEW r, NEW m, Holds(r, m), Reading(j, r),
         NEW o \in Observations, Valid(o)
  PROVE  Reading(Append(j, EvidenceRecord(o)), ReplayOne(r, EvidenceRecord(o)))
<1>1. PICK x, more, p : /\ x = EvidenceRecord(o) /\ more = Append(j, x)
                        /\ p = ReplayOne(r, x)
  OBVIOUS
<1>2. o \in ObservationSet /\ o \in ValidObservations
  BY ObservationIs DEF ValidObservations
<1>3. x.kind = "ObservationRecord" /\ Last(x.payload) = o.peerKey
  <2>1. x.kind = "ObservationRecord" /\ x.payload = WriteObservation(o)
    BY <1>1, RecordFields DEF EvidenceRecord
  <2> QED
    BY <1>2, <2>1, LastIsPeerKey
<1>4. Unfit(x) <=> KeyBytes[o.peerKey] > MaxKeyBytes
  BY <1>3 DEF Unfit
<1>5. PICK a \in Nat : a = Cardinality(Evidences(j)) /\ Cardinality(Evidences(more)) = a + 1
  BY <1>1, <1>3, UnreadAppend
<1>6. Unread(more) <=> Unread(j) \/ KeyBytes[o.peerKey] > MaxKeyBytes \/ a >= MaxIngestRecords
  <2>1. Unread(more) <=> \/ Unread(j) \/ Unfit(x)
                         \/ x.kind = "ObservationRecord" /\ a >= MaxIngestRecords
    BY <1>1, <1>5, UnreadGrows
  <2> QED
    BY <1>3, <1>4, <2>1
<1>7. CASE ~r.ok
  <2>1. p = Refusal
    BY <1>1, <1>7, RefusedHolds
  <2>2. ~p.ok
    BY <2>1, ReplayedFields
  <2>3. Unread(more)
    BY <1>6, <1>7 DEF Reading
  <2> QED
    BY <1>1, <2>2, <2>3 DEF Reading
<1>8. CASE r.ok
  <2>1. ~Unread(j) /\ Len(r.observations) = a
    BY <1>5, <1>8 DEF Reading
  <2>2. r.group = <<>> /\ r.observations \in Seq(ValidObservations)
    BY <1>8 DEF Holds
  <2>3. p = IF KeyBytes[o.peerKey] <= MaxKeyBytes /\ a < MaxIngestRecords
            THEN Replayed(r.state.sources, r.state.flows, Append(r.observations, o), <<>>)
            ELSE Refusal
    BY <1>1, <1>2, <1>8, <2>1, <2>2, ObservationReplayed
  <2>4. KeyBytes[o.peerKey] \in Nat
    BY <1>2, Limits DEF ObservationSet
  <2>5. CASE KeyBytes[o.peerKey] <= MaxKeyBytes /\ a < MaxIngestRecords
    <3>1. p.ok /\ p.observations = Append(r.observations, o)
      <4>1. PICK ds, fs, os :
              ds = r.state.sources /\ fs = r.state.flows /\ os = Append(r.observations, o)
        OBVIOUS
      <4>2. p = Replayed(ds, fs, os, <<>>)
        BY <2>3, <2>5, <4>1
      <4>3. p.ok /\ p.observations = os
        BY <4>2, ReplayedFields
      <4> QED
        BY <4>1, <4>3
    <3>2. Len(p.observations) = a + 1
      BY <1>2, <2>1, <2>2, <3>1, AppendIs
    <3>3. ~Unread(more)
      <4>1. ~(KeyBytes[o.peerKey] > MaxKeyBytes) /\ ~(a >= MaxIngestRecords)
        BY <2>4, <2>5, Limits
      <4> QED
        BY <1>6, <2>1, <4>1
    <3> QED
      BY <1>1, <1>5, <3>1, <3>2, <3>3 DEF Reading
  <2>6. CASE ~(KeyBytes[o.peerKey] <= MaxKeyBytes /\ a < MaxIngestRecords)
    <3>1. ~p.ok
      BY <2>3, <2>6, ReplayedFields
    <3>2. Unread(more)
      <4>1. KeyBytes[o.peerKey] > MaxKeyBytes \/ a >= MaxIngestRecords
        BY <2>4, <2>6, Limits
      <4> QED
        BY <1>6, <4>1
    <3> QED
      BY <1>1, <3>1, <3>2 DEF Reading
  <2> QED
    BY <2>5, <2>6
<1> QED
  BY <1>7, <1>8

\* A source is added.
LEMMA ReadingAfterSource ==
  ASSUME NEW j, Listed(j), NEW r, NEW m, Holds(r, m), Reading(j, r), Sound(m),
         NEW d \in DescriptorSet, KeyBytes[d.key] <= MaxKeyBytes, d.id \notin DOMAIN m.sources,
         Cardinality(DOMAIN m.sources) < MaxSources
  PROVE  Reading(Append(j, SourceRecord(d)), ReplayOne(r, SourceRecord(d)))
<1>1. PICK x, more, p : /\ x = SourceRecord(d) /\ more = Append(j, x)
                        /\ p = ReplayOne(r, x)
  OBVIOUS
<1>2. x.kind = "SourceDescriptor" /\ x.payload = WriteDescriptor(d)
  BY <1>1, RecordFields DEF SourceRecord
<1>3. ~Unfit(x)
  <2>1. DecodeDescriptor(x.payload).ok
    BY <1>2, DescriptorDecodes
  <2> QED
    BY <1>2, <2>1 DEF Unfit
<1>4. PICK a \in Nat : a = Cardinality(Evidences(j)) /\ Cardinality(Evidences(more)) = a
  <2>1. PICK a \in Nat : a = Cardinality(Evidences(j)) /\ Cardinality(Evidences(more)) = a + 0
    BY <1>1, <1>2, UnreadAppend
  <2> QED
    BY <2>1
<1>5. Unread(more) <=> Unread(j)
  <2>1. Unread(more) <=> \/ Unread(j) \/ Unfit(x)
                         \/ x.kind = "ObservationRecord" /\ a >= MaxIngestRecords
    BY <1>1, <1>4, UnreadGrows
  <2> QED
    BY <1>2, <1>3, <2>1
<1>6. CASE ~r.ok
  <2>1. p = Refusal
    BY <1>1, <1>6, RefusedHolds
  <2>2. ~p.ok
    BY <2>1, ReplayedFields
  <2> QED
    BY <1>1, <1>5, <1>6, <2>2 DEF Reading
<1>7. CASE r.ok
  <2>1. p = Replayed(Append(r.state.sources, d), r.state.flows, r.observations, <<>>)
    BY <1>1, <1>7, HoldsAfterSource
  <2>2. p.ok /\ p.observations = r.observations
    BY <2>1, ReplayedFields
  <2> QED
    BY <1>1, <1>4, <1>5, <1>7, <2>2 DEF Reading
<1> QED
  BY <1>6, <1>7

\* Nothing was read yet.
LEMMA ReadingOfNothing == Reading(<<>>, ReplayUpTo(<<>>))
<1>1. DOMAIN <<>> = {} /\ ToSet(<<>>) = {}
  BY DEF ToSet
<1>2. Evidences(<<>>) = {}
  BY <1>1 DEF Evidences
<1>3. Cardinality(Evidences(<<>>)) = 0 /\ Len(<<>>) = 0
  BY <1>2, FS_EmptySet
<1>4. ~Unread(<<>>)
  <2>1. ~(0 > MaxIngestRecords)
    BY Limits
  <2> QED
    BY <1>1, <1>3, <2>1 DEF Unread
<1>5. Start.ok /\ Start.observations = <<>>
  BY StartHolds
<1>6. PICK r : r = ReplayUpTo(<<>>) /\ r.ok /\ r.observations = <<>>
  BY <1>5, ReplayEmpty
<1> QED
  BY <1>3, <1>4, <1>6 DEF Reading

\* What compact writes has no observations, and can be read if and only if
\* every source and every flow of the state can.
LEMMA ReadingOfWritten ==
  ASSUME NEW state \in StateSet, Encodable(state)
  PROVE  Reading(EncodeState(state), ReplayUpTo(EncodeState(state)))
<1>1. PICK ds \in Seq(DescriptorSet), fs \in Seq(FlowSet) : ds = state.sources /\ fs = state.flows
  BY DEF StateSet
<1>2. PICK g, p : g = EncodeState(state) /\ p = ReplayUpTo(g)
  OBVIOUS
<1>3. IsGroup(g, ds, fs)
  BY <1>1, <1>2, GroupIs
<1>4. PICK n \in Nat, m \in Nat : /\ n = Len(ds) /\ \A i \in 1 .. n : ds[i] \in DescriptorSet
                                  /\ m = Len(fs) /\ \A i \in 1 .. m : fs[i] \in FlowSet
  OBVIOUS
<1>5. /\ DOMAIN g = 1 .. n + m + 3
      /\ g[1] = Record("SnapshotBegin", <<>>) /\ g[2] = Record("LimitsRecord", <<MaxFlows>>)
      /\ \A i \in 1 .. n : g[i + 2] = Record("SourceDescriptor", WriteDescriptor(ds[i]))
      /\ \A i \in 1 .. m : g[i + (n + 2)] = Record("Flow", WriteFlow(fs[i]))
      /\ g[n + m + 3].kind = "SnapshotEnd"
  <2>1. PICK end : end = <<Digest(SubSeq(g, 1, Len(ds) + Len(fs) + 2)), Len(ds), Len(fs)>>
    OBVIOUS
  <2>2. g[n + m + 3] = Record("SnapshotEnd", end)
    BY <1>3, <1>4, <2>1 DEF IsGroup
  <2>3. g[n + m + 3].kind = "SnapshotEnd"
    BY <2>2, RecordFields
  <2>4. Len(g) = n + m + 3 /\ DOMAIN g = 1 .. n + m + 3
    BY <1>3, <1>4 DEF IsGroup
  <2> QED
    BY <1>3, <1>4, <2>3, <2>4 DEF IsGroup
<1>6. ASSUME NEW i \in DOMAIN g
      PROVE  /\ g[i].kind # "ObservationRecord"
             /\ Unfit(g[i]) => \/ \E c \in 1 .. n : ~(KeyBytes[ds[c].key] <= MaxKeyBytes)
                               \/ \E c \in 1 .. m : ~ReadableFlow(fs[c])
  <2>1. \/ i = 1 \/ i = 2 \/ i = n + m + 3
        \/ \E c \in 1 .. n : i = c + 2
        \/ \E c \in 1 .. m : i = c + (n + 2)
    <3>1. i \in 1 .. n + m + 3
      BY <1>5
    <3>2. CASE i \in 3 .. n + 2
      <4>1. i - 2 \in 1 .. n /\ i = (i - 2) + 2
        BY <1>4, <3>2
      <4> QED
        BY <4>1
    <3>3. CASE i \in n + 3 .. n + m + 2
      <4>1. i - (n + 2) \in 1 .. m /\ i = (i - (n + 2)) + (n + 2)
        BY <1>4, <3>3
      <4> QED
        BY <4>1
    <3>4. i = 1 \/ i = 2 \/ i = n + m + 3 \/ i \in 3 .. n + 2 \/ i \in n + 3 .. n + m + 2
      BY <1>4, <3>1
    <3> QED
      BY <3>2, <3>3, <3>4
  <2>2. CASE i = 1
    <3>1. g[i].kind = "SnapshotBegin"
      BY <1>5, <2>2, RecordFields
    <3> QED
      BY <3>1 DEF Unfit
  <2>3. CASE i = 2
    <3>1. g[i].kind = "LimitsRecord"
      BY <1>5, <2>3, RecordFields
    <3> QED
      BY <3>1 DEF Unfit
  <2>4. CASE i = n + m + 3
    <3>1. g[i].kind = "SnapshotEnd"
      BY <1>5, <2>4
    <3> QED
      BY <3>1 DEF Unfit
  <2>5. CASE \E c \in 1 .. n : i = c + 2
    <3>1. PICK c \in 1 .. n : i = c + 2
      BY <2>5
    <3>2. PICK d \in DescriptorSet : d = ds[c]
      BY <1>4
    <3>3. g[i] = Record("SourceDescriptor", WriteDescriptor(d))
      BY <1>5, <3>1, <3>2
    <3>4. g[i].kind = "SourceDescriptor" /\ g[i].payload = WriteDescriptor(d)
      BY <3>3, RecordFields
    <3>5. Unfit(g[i]) => ~(KeyBytes[d.key] <= MaxKeyBytes)
      BY <3>4, DescriptorDecodes DEF Unfit
    <3> QED
      BY <3>2, <3>4, <3>5
  <2>6. CASE \E c \in 1 .. m : i = c + (n + 2)
    <3>1. PICK c \in 1 .. m : i = c + (n + 2)
      BY <2>6
    <3>2. PICK f \in FlowSet : f = fs[c]
      BY <1>4
    <3>3. g[i] = Record("Flow", WriteFlow(f))
      BY <1>5, <3>1, <3>2
    <3>4. g[i].kind = "Flow" /\ g[i].payload = WriteFlow(f)
      BY <3>3, RecordFields
    <3>5. Unfit(g[i]) => ~ReadableFlow(f)
      BY <3>4, FlowDecodes DEF Unfit
    <3> QED
      BY <3>2, <3>4, <3>5
  <2> QED
    BY <2>1, <2>2, <2>3, <2>4, <2>5, <2>6
<1>7. Evidences(g) = {}
  BY <1>6 DEF Evidences
<1>8. Cardinality(Evidences(g)) = 0 /\ ~(0 > MaxIngestRecords) /\ Len(<<>>) = 0
  BY <1>7, FS_EmptySet, Limits
<1>9. ToSet(g) = {g[i] : i \in DOMAIN g}
  BY DEF ToSet
<1>10. Unread(g) <=> \E x \in ToSet(g) : Unfit(x)
  BY <1>8 DEF Unread
<1>11. Unread(g) => \/ \E c \in 1 .. n : ~(KeyBytes[ds[c].key] <= MaxKeyBytes)
                    \/ \E c \in 1 .. m : ~ReadableFlow(fs[c])
  BY <1>6, <1>9, <1>10
<1>12. ASSUME NEW c \in 1 .. n, ~(KeyBytes[ds[c].key] <= MaxKeyBytes) PROVE Unread(g)
  <2>1. PICK d \in DescriptorSet : d = ds[c]
    BY <1>4
  <2>2. PICK i \in DOMAIN g : i = c + 2
    <3>1. c + 2 \in 1 .. n + m + 3
      BY <1>4
    <3> QED
      BY <1>5, <3>1
  <2>3. g[i] = Record("SourceDescriptor", WriteDescriptor(d))
    BY <1>5, <2>1, <2>2
  <2>4. g[i].kind = "SourceDescriptor" /\ g[i].payload = WriteDescriptor(d)
    BY <2>3, RecordFields
  <2>5. ~DecodeDescriptor(g[i].payload).ok
    BY <1>12, <2>1, <2>4, DescriptorDecodes
  <2>6. Unfit(g[i]) /\ g[i] \in ToSet(g)
    BY <1>9, <2>4, <2>5 DEF Unfit
  <2> QED
    BY <1>10, <2>6
<1>13. ASSUME NEW c \in 1 .. m, ~ReadableFlow(fs[c]) PROVE Unread(g)
  <2>1. PICK f \in FlowSet : f = fs[c]
    BY <1>4
  <2>2. PICK i \in DOMAIN g : i = c + (n + 2)
    <3>1. c + (n + 2) \in 1 .. n + m + 3
      BY <1>4
    <3> QED
      BY <1>5, <3>1
  <2>3. g[i] = Record("Flow", WriteFlow(f))
    BY <1>5, <2>1, <2>2
  <2>4. g[i].kind = "Flow" /\ g[i].payload = WriteFlow(f)
    BY <2>3, RecordFields
  <2>5. ~DecodeFlow(g[i].payload).ok
    BY <1>13, <2>1, <2>4, FlowDecodes
  <2>6. Unfit(g[i]) /\ g[i] \in ToSet(g)
    BY <1>9, <2>4, <2>5 DEF Unfit
  <2> QED
    BY <1>10, <2>6
<1>14. ReadableState(state) <=>
         /\ \A c \in 1 .. n : KeyBytes[ds[c].key] <= MaxKeyBytes
         /\ \A c \in 1 .. m : ReadableFlow(fs[c])
  BY <1>1, <1>4 DEF ReadableState
<1>15. Unread(g) <=> ~ReadableState(state)
  BY <1>11, <1>12, <1>13, <1>14
<1>16. CASE ReadableState(state)
  <2>1. p = Replayed(ds, fs, <<>>, <<>>)
    BY <1>1, <1>2, <1>16, WrittenStateReplays
  <2>2. p.ok /\ p.observations = <<>>
    BY <2>1, ReplayedFields
  <2> QED
    BY <1>2, <1>8, <1>15, <1>16, <2>2 DEF Reading
<1>17. CASE ~ReadableState(state)
  <2>1. p = Refusal
    BY <1>1, <1>2, <1>17, WrittenStateReplays
  <2>2. ~p.ok
    BY <2>1, ReplayedFields
  <2> QED
    BY <1>2, <1>15, <1>17, <2>2 DEF Reading
<1> QED
  BY <1>16, <1>17

LEMMA UnreadableIs == Unreadable <=> Unread(journal)
  BY DEF Unreadable, Unread, Unfit, Evidences

-----------------------------------------------------------------------------
(* What a restart brings back.                                             *)

\* The replay of one observation more restores the engine and applies it.
LEMMA RestoreWithEvidence ==
  ASSUME NEW r, NEW m, Holds(r, m), NEW o \in Observations, Valid(o),
         ReplayOne(r, EvidenceRecord(o)).ok
  PROVE  /\ r.ok
         /\ Restore(Blank, ReplayOne(r, EvidenceRecord(o))) = Apply(Restore(Blank, r), o)
<1>1. PICK p : p = ReplayOne(r, EvidenceRecord(o))
  OBVIOUS
<1>2. r.ok
  <2>1. CASE ~r.ok
    <3>1. p = Refusal
      BY <1>1, <2>1, RefusedHolds
    <3> QED
      BY <1>1, <3>1, ReplayedFields
  <2> QED
    BY <2>1
<1>3. r.group = <<>> /\ r.observations \in Seq(ValidObservations) /\ r.state \in StateSet
  BY <1>2 DEF Holds
<1>4. o \in ObservationSet /\ o \in ValidObservations
  BY ObservationIs DEF ValidObservations
<1>5. PICK ds, fs, os : /\ ds = r.state.sources /\ fs = r.state.flows /\ os = r.observations
                        /\ r.state = [sources |-> ds, flows |-> fs]
  BY <1>3 DEF StateSet
<1>6. p = Replayed(ds, fs, Append(os, o), <<>>)
  <2>1. p = Replayed(ds, fs, Append(os, o), <<>>) \/ p = Refusal
    BY <1>1, <1>2, <1>3, <1>4, <1>5, ObservationReplayed
  <2>2. p # Refusal
    BY <1>1, ReplayedFields
  <2> QED
    BY <2>1, <2>2
<1>7. p.state = r.state /\ p.observations = Append(os, o)
  BY <1>5, <1>6 DEF Replayed
<1>8. PICK V : V = ValidObservations
  OBVIOUS
<1>9. PICK n : n = RestoreState(Blank, r.state)
  OBVIOUS
<1>10. ApplyAll(n, Append(os, o)) = Apply(ApplyAll(n, os), o)
  BY <1>3, <1>4, <1>5, <1>8, ApplyAllAppend
<1> QED
  BY <1>1, <1>2, <1>5, <1>7, <1>9, <1>10 DEF Restore

\* The replay of one source more restores the engine with that source.
LEMMA RestoreWithSource ==
  ASSUME NEW r, NEW m, Holds(r, m), r.ok, Sound(m), NEW d \in DescriptorSet,
         KeyBytes[d.key] <= MaxKeyBytes, d.id \notin DOMAIN m.sources,
         Cardinality(DOMAIN m.sources) < MaxSources, Restore(Blank, r).sources = m.sources
  PROVE  Restore(Blank, ReplayOne(r, SourceRecord(d))) =
           Plus(Restore(Blank, r), d.id, AsSource(d))
<1>1. PICK p : p = ReplayOne(r, SourceRecord(d))
  OBVIOUS
<1>2. r.observations \in Seq(ValidObservations) /\ r.state \in StateSet
  BY DEF Holds
<1>3. PICK ds \in Seq(DescriptorSet), fs \in Seq(FlowSet), os \in Seq(ValidObservations) :
        /\ ds = r.state.sources /\ fs = r.state.flows /\ os = r.observations
        /\ r.state = [sources |-> ds, flows |-> fs]
  BY <1>2 DEF StateSet
<1>4. p = Replayed(Append(ds, d), fs, os, <<>>)
  BY <1>1, <1>3, HoldsAfterSource
<1>5. p.state = [sources |-> Append(ds, d), flows |-> fs] /\ p.observations = os
  BY <1>4 DEF Replayed
<1>6. \A i, j \in 1 .. Len(ds) : ds[i].id = ds[j].id => i = j
  BY <1>3 DEF Holds
<1>7. PICK n : n = RestoreState(Blank, [sources |-> ds, flows |-> fs])
  OBVIOUS
<1>8. Sound(n)
  <2>1. SoundSources(Blank.sources)
    BY BlankSound DEF Sound
  <2> QED
    BY <1>2, <1>3, <1>7, <2>1, StateRestored
<1>9. PICK q : q = ApplyAll(n, os) /\ q = Restore(Blank, r)
  BY <1>3, <1>7 DEF Restore
<1>10. DOMAIN n.sources \subseteq DOMAIN q.sources
  <2>1. os \in Seq(Observations)
    <3>1. \A i \in 1 .. Len(os) : os[i] \in Observations
      BY <1>3 DEF ValidObservations
    <3> QED
      BY <1>3, <3>1
  <2> QED
    BY <1>8, <1>9, <2>1, ApplyAllSound
<1>11. d.id \notin DOMAIN q.sources /\ Cardinality(DOMAIN q.sources) < MaxSources
  BY <1>9
<1>12. d.id \notin DOMAIN n.sources
  BY <1>10, <1>11
<1>13. PICK s \in Nat, e \in EntrySet : s = d.id /\ e = AsSource(d)
  <2>1. PICK a \in Nat, b \in DOMAIN KeyBytes, c \in Nat : d = [id |-> a, key |-> b, authority |-> c]
    BY DEF DescriptorSet
  <2>2. d.id \in Nat /\ d.key \in DOMAIN KeyBytes /\ d.authority \in Nat
    BY <2>1
  <2> QED
    BY <2>2 DEF AsSource, EntrySet
<1>14. RestoreState(Blank, p.state) = Plus(n, s, e)
  <2>1. d.id \notin DOMAIN RestoreState(Blank, [sources |-> ds, flows |-> fs]).sources
    BY <1>7, <1>12
  <2>2. RestoreState(Blank, [sources |-> Append(ds, d), flows |-> fs]) =
          Plus(RestoreState(Blank, [sources |-> ds, flows |-> fs]), d.id, AsSource(d))
    BY ONLY d \in DescriptorSet, ds \in Seq(DescriptorSet), fs \in Seq(FlowSet),
            <1>6, <2>1, RestoreStatePlus
  <2> QED
    BY <1>5, <1>7, <1>13, <2>2
<1>15. ApplyAll(Plus(n, s, e), os) = Plus(q, s, e)
  <2>1. /\ s \notin DOMAIN ApplyAll(n, os).sources
        /\ Cardinality(DOMAIN ApplyAll(n, os).sources) < MaxSources
    BY <1>9, <1>11, <1>13
  <2>2. ApplyAll(Plus(n, s, e), os) = Plus(ApplyAll(n, os), s, e)
    BY ONLY os \in Seq(ValidObservations), s \in Nat, e \in EntrySet, <1>8, <2>1, ApplyAllPlus
  <2> QED
    BY <1>9, <2>2
<1>16. Restore(Blank, p) = ApplyAll(RestoreState(Blank, p.state), p.observations)
  BY DEF Restore
<1>17. Restore(Blank, p) = Plus(q, s, e)
  BY <1>5, <1>14, <1>15, <1>16
<1> QED
  BY <1>1, <1>9, <1>13, <1>17

LEMMA SamePlus ==
  ASSUME NEW m, NEW n, Same(m, n), NEW s, NEW e
  PROVE  Same(Plus(m, s, e), Plus(n, s, e))
<1>1. PICK x, y : x = Plus(m, s, e) /\ y = Plus(n, s, e)
  OBVIOUS
<1>2. /\ x.sources = With(m.sources, s, e) /\ x.flows = m.flows /\ x.peers = m.peers
      /\ y.sources = With(n.sources, s, e) /\ y.flows = n.flows /\ y.peers = n.peers
  BY <1>1 DEF Plus
<1>3. x.sources = y.sources
  BY <1>2 DEF Same
<1> QED
  BY <1>1, <1>2, <1>3 DEF Same

\* While nothing happened that is not journalled, the journal restores an
\* engine that is the same in what is durable.
Accounted ==
  covered /\ ReplayUpTo(journal).ok => Same(mem, Restore(Blank, ReplayUpTo(journal)))

\* The inductive invariant of the restart.
RestartInv ==
  /\ EngineSound /\ Accounted /\ Reading(journal, ReplayUpTo(journal))

LEMMA SameSelf ==
  ASSUME NEW m PROVE Same(m, m)
  BY DEF Same, SameFlow, SameBindings

LEMMA RestartInvInit ==
  Init => RestartInv
<1> SUFFICES ASSUME Init PROVE RestartInv
  OBVIOUS
<1>1. mem = Blank /\ journal = <<>>
  BY DEF Init
<1>2. PICK r, st : r = ReplayUpTo(journal) /\ st = r.state
  OBVIOUS
<1>3. st = [sources |-> <<>>, flows |-> <<>>] /\ r.observations = <<>>
  BY <1>1, <1>2, ReplayEmpty DEF Start, Replayed
<1>4. PICK n : n = RestoreState(Blank, st) /\ Restore(Blank, r) = n
  BY <1>2, <1>3, ApplyAllEmpty DEF Restore
<1>5. ToSet(st.sources) = {} /\ ToSet(st.flows) = {} /\ Evident(st) = {}
  <2>1. ToSet(<<>>) = {}
    BY DEF ToSet
  <2>2. ToSet(st.sources) = {} /\ ToSet(st.flows) = {}
    BY <1>3, <2>1
  <2> QED
    BY <2>2 DEF Evident
<1>6. PICK ss, fs : ss = RestoredSources(Blank, st) /\ fs = RestoredFlows(st)
  OBVIOUS
<1>7. n = [sources |-> ss, flows |-> fs, peers |-> Empty]
  BY <1>4, <1>6, RestoreStateIs
<1>8. ss = [s \in DOMAIN ss |-> ss[s]] /\ DOMAIN ss = {}
  BY <1>5, <1>6, BlankSound DEF RestoredSources
<1>9. DOMAIN fs = {}
  BY <1>5, <1>6 DEF RestoredFlows
<1>10. PICK e : e = Empty /\ e = [x \in {} |-> x] /\ DOMAIN e = {}
  BY DEF Empty
<1>11. ss = e
  BY <1>8, <1>10
<1>12. /\ mem.sources = e /\ DOMAIN mem.flows = {} /\ DOMAIN mem.peers = {}
       /\ n.sources = e /\ DOMAIN n.flows = {} /\ DOMAIN n.peers = {}
  BY <1>1, <1>7, <1>9, <1>10, <1>11 DEF Blank
<1>13. Same(mem, n)
  BY <1>12 DEF Same
<1>14. Reading(journal, ReplayUpTo(journal))
  BY <1>1, ReadingOfNothing
<1> QED
  BY <1>2, <1>4, <1>13, <1>14, EngineSoundInit DEF RestartInv, Accounted

\* An observation: both the engine and what the journal restores apply it.
LEMMA IngestAccounted ==
  ASSUME RestartInv, NEW o \in Observations, Ingest(o)
  PROVE  Accounted' /\ Reading(journal, ReplayUpTo(journal))'
<1>1. PICK m, n, j, r : m = mem /\ n = mem' /\ j = journal /\ r = ReplayUpTo(journal)
  OBVIOUS
<1>2. /\ Sound(m) /\ Listed(j) /\ Holds(r, m) /\ Reading(j, r)
      /\ covered /\ r.ok => Same(m, Restore(Blank, r))
  BY <1>1 DEF RestartInv, Accounted, EngineSound
<1>3. PICK a, fs :
        /\ a = Apply(m, o) /\ fs = Touched(m, a) /\ n \in Settled(a, fs)
        /\ covered' => /\ covered /\ (Collides(m, o) => o.peer \in DOMAIN Journalled.peers)
                       /\ (RegistryFull(m, o) => RegistryFull(Journalled, o))
        /\ journal' = IF Valid(o) THEN Append(j, EvidenceRecord(o)) ELSE j
  BY <1>1 DEF Ingest, EvidenceRecord
<1>4. fs \subseteq DOMAIN a.flows /\ Sound(a)
  BY <1>2, <1>3, ApplySound DEF Touched
<1>5. ASSUME NEW q, Same(a, q) PROVE Same(n, q)
  BY <1>3, <1>4, <1>5, SettledSame
<1>6. CASE ~Valid(o)
  <2>1. a = m /\ journal' = journal /\ (covered' => covered)
    BY <1>1, <1>3, <1>6 DEF Apply
  <2>2. ReplayUpTo(journal') = r
    BY <1>1, <2>1
  <2>3. Accounted'
    BY <1>1, <1>2, <1>5, <2>1, <2>2 DEF Accounted
  <2> QED
    BY <1>1, <1>2, <2>1, <2>2, <2>3
<1>7. CASE Valid(o)
  <2>1. PICK k, p : /\ k = journal' /\ k = Append(j, EvidenceRecord(o))
                    /\ p = ReplayOne(r, EvidenceRecord(o)) /\ p = ReplayUpTo(journal')
    BY <1>1, <1>2, <1>3, <1>7, ReplayAppend
  <2>2. Reading(k, p)
    BY <1>2, <1>7, <2>1, ReadingAfterEvidence
  <2>3. ASSUME covered', p.ok PROVE Same(n, Restore(Blank, p))
    <3>1. r.ok /\ Restore(Blank, p) = Apply(Restore(Blank, r), o)
      BY <1>2, <1>7, <2>1, <2>3, RestoreWithEvidence
    <3>2. PICK q : q = Restore(Blank, r)
      OBVIOUS
    <3>3. Same(m, q)
      BY <1>2, <1>3, <2>3, <3>1, <3>2
    <3>4. Sound(q)
      <4>1. SoundSources(Blank.sources)
        BY BlankSound DEF Sound
      <4>2. r.state \in StateSet /\ r.observations \in Seq(ValidObservations)
        BY <1>2, <3>1 DEF Holds
      <4> QED
        BY <3>2, <4>1, <4>2, RestoreSound
    <3>5. /\ Collides(m, o) => o.peer \in DOMAIN q.peers
          /\ RegistryFull(m, o) => RegistryFull(q, o)
      <4>1. r.group = <<>>
        BY <1>2, <3>1 DEF Holds
      <4>2. ReplayRecords(journal) = r
        BY <1>1, <3>1, <4>1 DEF ReplayRecords, Closed
      <4>3. Journalled = q
        BY <3>1, <3>2, <4>2 DEF Reopened, Journalled
      <4> QED
        BY <1>3, <2>3, <4>3
    <3>6. Same(Apply(m, o), Apply(q, o))
      BY <1>2, <1>7, <3>3, <3>4, <3>5, ApplySame
    <3> QED
      BY <1>3, <1>5, <3>1, <3>2, <3>6
  <2>4. Accounted'
    BY <1>1, <2>1, <2>3 DEF Accounted
  <2> QED
    BY <2>1, <2>2, <2>4
<1> QED
  BY <1>6, <1>7

\* A source: the journal has it behind the evidence, the engine wherever it
\* was registered.
LEMMA RegisterAccounted ==
  ASSUME RestartInv, NEW d \in Descriptors, Register(d)
  PROVE  Accounted' /\ Reading(journal, ReplayUpTo(journal))'
<1>1. PICK m, n, j, r : m = mem /\ n = mem' /\ j = journal /\ r = ReplayUpTo(journal)
  OBVIOUS
<1>2. /\ Sound(m) /\ Listed(j) /\ Holds(r, m) /\ Reading(j, r)
      /\ covered /\ r.ok => Same(m, Restore(Blank, r))
  BY <1>1 DEF RestartInv, Accounted, EngineSound
<1>3. d \in DescriptorSet
  BY DescriptorIs
<1>4. PICK e : e = AsSource(d)
  OBVIOUS
<1>5. /\ KeyBytes[d.key] <= MaxKeyBytes /\ mem' = [mem EXCEPT !.sources = With(@, d.id, e)]
      /\ covered' <=> (covered /\ (d.id \in DOMAIN mem.sources => mem.sources[d.id] = e))
      /\ IF d.id \in DOMAIN mem.sources THEN journal' = journal
         ELSE /\ Cardinality(DOMAIN mem.sources) < MaxSources
              /\ journal' = Append(journal, SourceRecord(d))
  BY <1>4 DEF Register, SourceRecord, AsSource
<1>6. n = Plus(m, d.id, e)
  <2>1. PICK a, b, c, s : /\ m = [sources |-> a, flows |-> b, peers |-> c] /\ s = With(a, d.id, e)
                          /\ m.sources = a /\ m.flows = b /\ m.peers = c
    BY <1>2 DEF Sound
  <2>2. n = [m EXCEPT !.sources = s]
    BY <1>1, <1>5, <2>1
  <2>3. n = [sources |-> s, flows |-> b, peers |-> c]
    BY ONLY <2>1, <2>2
  <2> QED
    BY <2>1, <2>3 DEF Plus
<1>7. CASE d.id \in DOMAIN m.sources
  <2>1. journal' = journal /\ (covered' => covered /\ m.sources[d.id] = e)
    BY <1>1, <1>5, <1>7
  <2>2. ReplayUpTo(journal') = r
    BY <1>1, <2>1
  <2>3. ASSUME covered' PROVE n = m
    <3>1. m.sources[d.id] = e
      BY <2>1, <2>3
    <3>2. With(m.sources, d.id, e) = m.sources
      <4>1. PICK a : a = m.sources /\ a = [s \in DOMAIN a |-> a[s]]
        BY <1>2 DEF Sound, SoundSources
      <4>2. DOMAIN a \cup {d.id} = DOMAIN a /\ a[d.id] = e
        BY <1>7, <3>1, <4>1
      <4> QED
        BY <4>1, <4>2 DEF With
    <3> QED
      BY <1>2, <1>6, <3>2 DEF Plus, Sound
  <2>4. Accounted'
    BY <1>1, <1>2, <2>1, <2>2, <2>3 DEF Accounted
  <2> QED
    BY <1>1, <1>2, <2>1, <2>2, <2>4
<1>8. CASE d.id \notin DOMAIN m.sources
  <2>1. Cardinality(DOMAIN m.sources) < MaxSources /\ (covered' => covered)
    BY <1>1, <1>5, <1>8
  <2>2. PICK k, p : /\ k = journal' /\ k = Append(j, SourceRecord(d))
                    /\ p = ReplayOne(r, SourceRecord(d)) /\ p = ReplayUpTo(journal')
    BY <1>1, <1>2, <1>5, <1>8, ReplayAppend
  <2>3. Reading(k, p)
    BY <1>2, <1>3, <1>5, <1>8, <2>1, <2>2, ReadingAfterSource
  <2>4. ASSUME covered', p.ok PROVE Same(n, Restore(Blank, p))
    <3>1. r.ok
      <4>1. CASE ~r.ok
        <5>1. p = Refusal
          BY <2>2, <4>1, RefusedHolds
        <5> QED
          BY <2>4, <5>1, ReplayedFields
      <4> QED
        BY <4>1
    <3>2. PICK q : q = Restore(Blank, r) /\ Same(m, q)
      BY <1>2, <2>1, <2>4, <3>1
    <3>3. q.sources = m.sources
      BY <3>2 DEF Same
    <3>4. Restore(Blank, p) = Plus(q, d.id, e)
      BY <1>2, <1>3, <1>4, <1>5, <1>8, <2>1, <2>2, <3>1, <3>2, <3>3, RestoreWithSource
    <3>5. Same(Plus(m, d.id, e), Plus(q, d.id, e))
      BY <3>2, SamePlus
    <3> QED
      BY <1>6, <3>4, <3>5
  <2>5. Accounted'
    BY <1>1, <2>2, <2>4 DEF Accounted
  <2> QED
    BY <2>2, <2>3, <2>5
<1> QED
  BY <1>7, <1>8

\* A compaction: with no retired source the state has all of the engine.
LEMMA CompactAccounted ==
  ASSUME RestartInv, Compact
  PROVE  Accounted' /\ Reading(journal, ReplayUpTo(journal))'
<1>1. PICK m, state : m = mem /\ state = PersistState(m)
  OBVIOUS
<1>2. /\ Encodable(state) /\ journal' = EncodeState(state) /\ mem' = m
      /\ covered' <=> Active(m) = DOMAIN m.sources
  <2>1. covered' = \A s \in DOMAIN mem.sources : ~mem.sources[s].retired
    BY DEF Compact
  <2>2. (\A s \in DOMAIN m.sources : ~m.sources[s].retired) <=> Active(m) = DOMAIN m.sources
    BY DEF Active
  <2> QED
    BY <1>1, <2>1, <2>2 DEF Compact
<1>3. Sound(m)
  BY <1>1 DEF RestartInv, EngineSound
<1>4. state \in StateSet
  BY <1>1, <1>3, StatePersisted
<1>5. PICK g, p : g = journal' /\ g = EncodeState(state) /\ p = ReplayUpTo(g)
  BY <1>2
<1>6. Reading(g, p)
  BY <1>2, <1>4, <1>5, ReadingOfWritten
<1>7. ASSUME covered', p.ok PROVE Same(m, Restore(Blank, p))
  <2>1. PICK ds, fs : ds = state.sources /\ fs = state.flows /\ state = [sources |-> ds, flows |-> fs]
    BY <1>4 DEF StateSet
  <2>2. p = Replayed(ds, fs, <<>>, <<>>) \/ p = Refusal
    BY <1>2, <1>4, <1>5, <2>1, WrittenStateReplays
  <2>3. p # Refusal
    BY <1>7, ReplayedFields
  <2>4. p.state = state /\ p.observations = <<>>
    BY <2>1, <2>2, <2>3 DEF Replayed
  <2>5. Restore(Blank, p) = RestoreState(Blank, state)
    BY <2>4, ApplyAllEmpty DEF Restore
  <2>6. Active(m) = DOMAIN m.sources
    BY <1>2, <1>7
  <2>7. Same(m, RestoreState(Blank, PersistState(m)))
    BY <1>3, <2>6, StateBack
  <2> QED
    BY <1>1, <2>5, <2>7
<1>8. Accounted'
  BY <1>2, <1>5, <1>7 DEF Accounted
<1> QED
  BY <1>5, <1>6, <1>8

\* A restart: the engine is what the journal restores.
LEMMA RestartAccounted ==
  ASSUME RestartInv, Restart
  PROVE  Accounted' /\ Reading(journal, ReplayUpTo(journal))'
<1>1. PICK read : /\ read = Reopened(Blank, ReplayRecords(journal)) /\ journal' = journal
                  /\ mem' \in Settled(read, DOMAIN read.flows)
  BY DEF Restart, Journalled
<1>2. PICK r : r = ReplayUpTo(journal) /\ r = ReplayUpTo(journal')
  BY <1>1
<1>3. Holds(r, mem) /\ Reading(journal, r)
  BY <1>2 DEF RestartInv, EngineSound
<1>4. ASSUME r.ok PROVE Same(mem', Restore(Blank, r))
  <2>1. ReplayRecords(journal) = r
    BY <1>2, <1>3, <1>4 DEF ReplayRecords, Closed, Holds
  <2>2. read = Restore(Blank, r)
    BY <1>1, <1>4, <2>1 DEF Reopened
  <2>3. Sound(read)
    <3>1. SoundSources(Blank.sources)
      BY BlankSound DEF Sound
    <3>2. r.state \in StateSet /\ r.observations \in Seq(ValidObservations)
      BY <1>3, <1>4 DEF Holds
    <3> QED
      BY <2>2, <3>1, <3>2, RestoreSound
  <2> QED
    BY <1>1, <2>2, <2>3, SameSelf, SettledSame
<1>5. Accounted'
  BY <1>2, <1>4 DEF Accounted
<1> QED
  BY <1>1, <1>3, <1>2, <1>5

LEMMA RestartInvStep ==
  RestartInv /\ [Next]_vars => RestartInv'
<1> SUFFICES ASSUME RestartInv, [Next]_vars PROVE RestartInv'
  OBVIOUS
<1>1. EngineSound'
  BY EngineSoundStep DEF RestartInv
<1>2. Accounted' /\ Reading(journal, ReplayUpTo(journal))'
  <2>1. ASSUME journal' = journal, ~covered' \/ (mem' = mem /\ covered' = covered)
        PROVE  Accounted' /\ Reading(journal, ReplayUpTo(journal))'
    <3>1. Accounted /\ Reading(journal, ReplayUpTo(journal))
      BY DEF RestartInv
    <3>2. ReplayUpTo(journal') = ReplayUpTo(journal)
      BY <2>1
    <3>3. Reading(journal, ReplayUpTo(journal))'
      BY <2>1, <3>1
    <3>4. Accounted'
      BY <2>1, <3>1, <3>2 DEF Accounted
    <3> QED
      BY <3>3, <3>4
  <2>2. CASE UNCHANGED vars
    BY <2>1, <2>2 DEF vars
  <2>3. ASSUME NEW d \in Descriptors, Register(d)
        PROVE  Accounted' /\ Reading(journal, ReplayUpTo(journal))'
    BY <2>3, RegisterAccounted
  <2>4. ASSUME NEW s, Retire(s) PROVE Accounted' /\ Reading(journal, ReplayUpTo(journal))'
    BY <2>1, <2>4 DEF Retire
  <2>5. ASSUME NEW o \in Observations, Ingest(o)
        PROVE  Accounted' /\ Reading(journal, ReplayUpTo(journal))'
    BY <2>5, IngestAccounted
  <2>6. CASE Compact
    BY <2>6, CompactAccounted
  <2>7. CASE Save
    BY <2>1, <2>7 DEF Save
  <2>8. CASE Load
    BY <2>1, <2>8 DEF Load
  <2>9. CASE Restart
    BY <2>9, RestartAccounted
  <2> QED
    BY <2>2, <2>3, <2>4, <2>5, <2>6, <2>7, <2>8, <2>9 DEF Next
<1> QED
  BY <1>1, <1>2 DEF RestartInv

\* As long as nothing happened that is not journalled, the journal accounts
\* for the engine: replayed from nothing it gives the sources, the flows and
\* the accounting of the engine and no peer the engine does not know by the
\* same key; and it is refused if and only if it is Unreadable.
THEOREM JournalAccountsForEngine == Spec => []RestartInv
  BY RestartInvInit, RestartInvStep, PTL DEF Spec

\* The flows of engines that are the same are the same to a restart.
LEMMA SameDurable ==
  ASSUME NEW m, NEW n, Same(m, n)
  PROVE  Durable(m) = Durable(n)
<1> DEFINE Bindings(gen) == [s \in DOMAIN gen |-> [accepted |-> gen[s].accepted,
                                                   hops     |-> gen[s].hops]]
           Generations(flow) == [g \in DOMAIN flow.generations |-> Bindings(flow.generations[g])]
           Kept(flow) == [key |-> flow.key, current |-> flow.current,
                          generations |-> Generations(flow),
                          anomalies |-> flow.anomalies,
                          anomaliesDropped |-> flow.anomaliesDropped]
           Flows(x) == [f \in DOMAIN x.flows |-> Kept(x.flows[f])]
<1>1. ASSUME NEW x, NEW y, SameBindings(x, y) PROVE Bindings(x) = Bindings(y)
  BY <1>1 DEF SameBindings
<1>2. ASSUME NEW a, NEW b, SameFlow(a, b) PROVE Kept(a) = Kept(b)
  <2>1. Generations(a) = Generations(b)
    <3>1. DOMAIN a.generations = DOMAIN b.generations
      BY <1>2 DEF SameFlow
    <3>2. \A g \in DOMAIN a.generations :
            Bindings(a.generations[g]) = Bindings(b.generations[g])
      BY <1>1, <1>2 DEF SameFlow
    <3> HIDE DEF Bindings
    <3> QED
      BY <3>1, <3>2
  <2> HIDE DEF Generations
  <2> QED
    BY <1>2, <2>1 DEF SameFlow
<1> HIDE DEF Kept
<1>3. Flows(m) = Flows(n)
  <2>1. DOMAIN m.flows = DOMAIN n.flows
    BY DEF Same
  <2>2. \A f \in DOMAIN m.flows : Kept(m.flows[f]) = Kept(n.flows[f])
    BY <1>2 DEF Same
  <2> QED
    BY <2>1, <2>2
<1>4. \A x : Durable(x) = [sources |-> x.sources, flows |-> Flows(x)]
  BY DEF Durable, Kept
<1> HIDE DEF Flows
<1>5. m.sources = n.sources
  BY DEF Same
<1> QED
  BY <1>3, <1>4, <1>5

\* An engine that starts again opens its journal unless it wrote what its
\* own readers refuse, and then has the sources, the accounting and the
\* anomalies it had, whatever it decides anew of them, through any number of
\* compactions and restarts, unless something that is not journalled, or a
\* refusal by the peers of the ended process alone, came in between.
THEOREM RestartsRestore == Spec => RestartRestores
<1>1. ASSUME RestartInv, Restart
      PROVE  /\ status' = IF Unreadable THEN "refused" ELSE "open"
             /\ (status' = "open" /\ covered) => Durable(mem') = Durable(mem)
  <2>1. PICK r : r = ReplayUpTo(journal)
    OBVIOUS
  <2>2. /\ Holds(r, mem) /\ Reading(journal, r)
        /\ covered /\ r.ok => Same(mem, Restore(Blank, r))
    BY <1>1, <2>1 DEF RestartInv, EngineSound, Accounted
  <2>3. PICK p : p = ReplayRecords(journal)
    OBVIOUS
  <2>4. p = IF r.ok THEN r ELSE Refusal
    BY <2>1, <2>2, <2>3 DEF ReplayRecords, Closed, Holds
  <2>5. p.ok <=> ~Unreadable
    <3>1. r.ok <=> ~Unreadable
      BY <2>2, UnreadableIs DEF Reading
    <3>2. CASE r.ok
      BY <2>4, <3>1, <3>2
    <3>3. CASE ~r.ok
      BY <2>4, <3>1, <3>3, ReplayedFields
    <3> QED
      BY <3>2, <3>3
  <2>6. PICK read : /\ status' = (IF p.ok THEN "open" ELSE "refused")
                    /\ read = Reopened(Blank, p) /\ mem' \in Settled(read, DOMAIN read.flows)
    BY <1>1, <2>3 DEF Restart, Journalled
  <2>7. status' = IF Unreadable THEN "refused" ELSE "open"
    BY <2>5, <2>6
  <2>8. ASSUME status' = "open", covered PROVE Durable(mem') = Durable(mem)
    <3>1. p.ok
      BY <2>6, <2>8
    <3>2. r.ok /\ p = r
      BY <2>4, <3>1, ReplayedFields
    <3>3. PICK n : n = Restore(Blank, r) /\ read = n
      BY <2>6, <3>1, <3>2 DEF Reopened
    <3>4. Same(mem, n)
      BY <2>2, <2>8, <3>2, <3>3
    <3>5. Sound(n)
      <4>1. SoundSources(Blank.sources)
        BY BlankSound DEF Sound
      <4>2. r.state \in StateSet /\ r.observations \in Seq(ValidObservations)
        BY <2>2, <3>2 DEF Holds
      <4> QED
        BY <3>3, <4>1, <4>2, RestoreSound
    <3>6. Same(mem', n)
      BY <2>6, <3>3, <3>5, SameSelf, SettledSame
    <3> QED
      BY <3>4, <3>6, SameDurable
  <2> QED
    BY <2>7, <2>8
<1>2. RestartInv /\ [Next]_vars =>
        [epoch' # epoch =>
           /\ status' = IF Unreadable THEN "refused" ELSE "open"
           /\ (status' = "open" /\ covered) => Durable(mem') = Durable(mem)]_vars
  <2> SUFFICES ASSUME RestartInv, [Next]_vars, epoch' # epoch
               PROVE  /\ status' = IF Unreadable THEN "refused" ELSE "open"
                      /\ (status' = "open" /\ covered) => Durable(mem') = Durable(mem)
    OBVIOUS
  <2>1. Restart
    BY DEF Next, vars, Register, Retire, Ingest, Compact, Save, Load
  <2> QED
    BY <1>1, <2>1
<1> QED
  BY <1>2, JournalAccountsForEngine, PTL DEF Spec, RestartRestores
=============================================================================
