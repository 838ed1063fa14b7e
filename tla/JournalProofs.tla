--------------------------- MODULE JournalProofs ---------------------------
(***************************************************************************)
(* What a recovery of the journal restores, for every number of crashes,   *)
(* faults, observations and compactions, when one process uses the path.   *)
(* (With two, the file a compaction puts in place is not locked, and the   *)
(* property is not claimed.)                                               *)
(***************************************************************************)
EXTENDS Journal, SequenceTheorems, FiniteSetTheorems, ProofLemmas, TLAPS

\* One process uses the journal path.
OneRuntime == \A r, s \in Runtimes : r = s

Cell == [kind : {"observation", "snapshot", "fragment"}, holds : SUBSET Observations, size : Nat]
File == [header : [found : BOOLEAN, epoch : Nat], cells : Seq(Cell), synced : Nat]

\* The variables the argument is about.
JournalTypes ==
  /\ path \in Files \cup {NoFile}
  /\ file \in [Files -> File]
  /\ pc \in [Runtimes -> {"down", "opening", "up", "compacting", "replacing", "retry"}]
  /\ handle \in [Runtimes -> Files \cup {NoFile}]
  /\ temp \in [Runtimes -> Files \cup {NoFile}]
  /\ epoch \in [Runtimes -> Nat]
  /\ live \in [Runtimes -> SUBSET Observations]
  /\ todo \in [Runtimes -> SUBSET Observations]
  /\ log \in Seq(Observations) /\ flushed \in 0 .. Len(log) /\ lastEpoch \in Nat
  /\ \A i, j \in 1 .. Len(log) : log[i] = log[j] => i = j

\* Which files a runtime has at which place of its program.
FilesInUse ==
  /\ path = NoFile => log = <<>> /\ lastEpoch = 0
  /\ \A r \in Runtimes :
       /\ handle[r] # NoFile => handle[r] = path
       /\ pc[r] = "down" => handle[r] = NoFile
       /\ pc[r] # "down" => path # NoFile
       /\ pc[r] \in {"opening", "retry"} => handle[r] # NoFile
       /\ temp[r] # NoFile <=> pc[r] = "replacing"
       /\ temp[r] # NoFile => temp[r] # path
       /\ pc[r] \in {"down", "opening", "up"} => todo[r] = {}
       /\ todo[r] \cap Elements(log) = {}

\* What the first k cells of a file hold, and whether they are all intact.
Holds(cells, k) == UNION {cells[j].holds : j \in 1 .. k}
Whole(cells, k) == \A j \in 1 .. k : cells[j].kind # "fragment"

\* The first n observations of a log.
First(l, n) == {l[i] : i \in 1 .. n}

\* A file holds a log, in order: its intact part is a prefix of the log, and
\* its synced part, while no later record hides behind a fragment of it,
\* covers the first d observations.
HoldsLog(f, l, d) ==
  /\ \A j \in 1 .. Len(f.cells) : f.cells[j].kind = "snapshot" => j = 1
  /\ \A j \in 1 .. Len(f.cells) : f.cells[j].kind = "fragment" => f.cells[j].holds = {}
  /\ \A k \in 0 .. Len(f.cells) :
       Whole(f.cells, k) => \E n \in 0 .. Len(l) : Holds(f.cells, k) = First(l, n)
  /\ f.synced <= Len(f.cells)
  /\ Whole(f.cells, f.synced - 1) => First(l, d) \subseteq Holds(f.cells, f.synced)

\* Without a record behind a fragment it holds all of the log.
Complete(f, l) ==
  Whole(f.cells, Len(f.cells) - 1) => Holds(f.cells, Len(f.cells)) = First(l, Len(l))

Contents ==
  /\ path # NoFile => HoldsLog(file[path], log, flushed)
  /\ \A r \in Runtimes : pc[r] # "down" =>
       /\ live[r] = Elements(log)
       /\ Complete(file[path], log)
  /\ \A r \in Runtimes : pc[r] = "replacing" =>
       /\ file[temp[r]].header = Header(epoch[r])
       /\ Len(file[temp[r]].cells) = 1 /\ file[temp[r]].synced = 1
       /\ file[temp[r]].cells[1].kind = "snapshot"
       /\ file[temp[r]].cells[1].holds = live[r]

\* The header carries the epoch of the last open that completed.
Epochs ==
  /\ path # NoFile =>
       lastEpoch = IF file[path].header.found THEN file[path].header.epoch ELSE 0
  /\ \A r \in Runtimes :
       /\ pc[r] = "opening" => epoch[r] > lastEpoch
       /\ pc[r] \notin {"down", "opening"} => epoch[r] = lastEpoch

\* The inductive invariant.
IInv == JournalTypes /\ FilesInUse /\ Contents /\ Epochs

-----------------------------------------------------------------------------
\* Cells and logs are read from their start.
LEMMA HoldsStep ==
  ASSUME NEW cells, NEW i \in Nat, i # 0
  PROVE  Holds(cells, i) = Holds(cells, i - 1) \cup cells[i].holds
<1>1. 1 .. i = (1 .. (i - 1)) \cup {i}
  OBVIOUS
<1> QED
  BY <1>1 DEF Holds

\* replay_records on cells of which only the first may be a snapshot: the
\* recursive definition computes the union of what they hold.
LEMMA ReplayHolds ==
  ASSUME NEW cells, Len(cells) \in Nat,
         \A j \in 2 .. Len(cells) : cells[j].kind # "snapshot"
  PROVE  Replay(cells) = Holds(cells, Len(cells))
<1> DEFINE n == Len(cells)
           upTo[i \in 0 .. n] == IF i = 0 THEN {}
                         ELSE IF cells[i].kind = "snapshot" THEN cells[i].holds
                         ELSE upTo[i - 1] \cup cells[i].holds
           all == [i \in 0 .. n |-> Holds(cells, i)]
<1>1. Replay(cells) = upTo[n]
  BY DEF Replay
<1>2. all = [i \in 0 .. n |-> IF i = 0 THEN {}
                         ELSE IF cells[i].kind = "snapshot" THEN cells[i].holds
                         ELSE all[i - 1] \cup cells[i].holds]
  <2>1. Holds(cells, 0) = {}
    BY DEF Holds
  <2>2. ASSUME NEW i \in 0 .. n, i # 0, cells[i].kind = "snapshot"
        PROVE  Holds(cells, i) = cells[i].holds
    <3>1. i \in Nat /\ i - 1 = 0
      BY <2>2
    <3>2. Holds(cells, i) = Holds(cells, i - 1) \cup cells[i].holds
      BY <2>2, <3>1, HoldsStep
    <3> QED
      BY <2>1, <3>1, <3>2
  <2>3. ASSUME NEW i \in 0 .. n, i # 0
        PROVE  i - 1 \in 0 .. n /\ Holds(cells, i) = all[i - 1] \cup cells[i].holds
    BY <2>3, HoldsStep
  <2> QED
    BY <2>1, <2>2, <2>3
<1>3. upTo = [i \in 0 .. n |-> IF i = 0 THEN {}
                         ELSE IF cells[i].kind = "snapshot" THEN cells[i].holds
                         ELSE upTo[i - 1] \cup cells[i].holds]
  <2> HIDE DEF all
  <2> QED BY <1>2
<1>4. \A i \in 0 .. n : upTo[i] = all[i]
  <2> HIDE DEF upTo
  <2> DEFINE Wrong == {i \in 0 .. n : upTo[i] # all[i]}
  <2> SUFFICES ASSUME Wrong # {} PROVE FALSE
    OBVIOUS
  <2>1. Wrong \in SUBSET Nat
    OBVIOUS
  <2>2. PICK i \in Wrong : \A j \in Wrong : i <= j
    BY <2>1, LeastNumber
  <2> HIDE DEF all
  <2>3. CASE i = 0
    BY <1>2, <1>3, <2>3
  <2>4. CASE i # 0
    <3>1. i \in 0 .. n /\ i - 1 \in 0 .. n /\ ~(i <= i - 1)
      BY <2>4
    <3>2. upTo[i - 1] = all[i - 1]
      BY <2>2, <3>1
    <3>3. upTo[i] = IF cells[i].kind = "snapshot" THEN cells[i].holds
                    ELSE upTo[i - 1] \cup cells[i].holds
      BY <1>3, <2>4, <3>1
    <3>4. all[i] = IF cells[i].kind = "snapshot" THEN cells[i].holds
                   ELSE all[i - 1] \cup cells[i].holds
      BY <1>2, <2>4, <3>1
    <3> QED
      BY <3>2, <3>3, <3>4
  <2> QED
    BY <2>3, <2>4
<1> QED
  BY <1>1, <1>4

\* A longer part holds more, and is whole only if the shorter one is.
LEMMA HoldsGrows ==
  ASSUME NEW cells, NEW k \in Int, NEW m \in Int, k <= m
  PROVE  Holds(cells, k) \subseteq Holds(cells, m) /\ (Whole(cells, m) => Whole(cells, k))
<1>1. 1 .. k \subseteq 1 .. m
  OBVIOUS
<1> QED
  BY <1>1 DEF Holds, Whole

\* Only the part itself matters.
LEMMA SamePart ==
  ASSUME NEW cells, NEW other, NEW k \in Int, \A j \in 1 .. k : other[j] = cells[j]
  PROVE  Holds(other, k) = Holds(cells, k) /\ (Whole(other, k) <=> Whole(cells, k))
  BY DEF Holds, Whole

\* A cell behind the others.
LEMMA AppendedCell ==
  ASSUME NEW cells \in Seq(Cell), NEW c \in Cell
  PROVE  /\ Append(cells, c) \in Seq(Cell) /\ Len(Append(cells, c)) = Len(cells) + 1
         /\ Append(cells, c)[Len(cells) + 1] = c
         /\ \A j \in 1 .. Len(cells) : Append(cells, c)[j] = cells[j]
         /\ \A k \in Int : k <= Len(cells) => /\ Holds(Append(cells, c), k) = Holds(cells, k)
                                              /\ Whole(Append(cells, c), k) <=> Whole(cells, k)
         /\ Holds(Append(cells, c), Len(cells) + 1) = Holds(cells, Len(cells)) \cup c.holds
<1> DEFINE more == Append(cells, c)
<1>1. /\ more \in Seq(Cell) /\ Len(more) = Len(cells) + 1 /\ Len(cells) \in Nat
      /\ more[Len(cells) + 1] = c /\ \A j \in 1 .. Len(cells) : more[j] = cells[j]
  BY AppendProperties, LenProperties
<1> HIDE DEF more
<1>2. ASSUME NEW k \in Int, k <= Len(cells)
      PROVE  Holds(more, k) = Holds(cells, k) /\ (Whole(more, k) <=> Whole(cells, k))
  <2>1. \A j \in 1 .. k : more[j] = cells[j]
    BY <1>1, <1>2
  <2> QED
    BY <2>1, SamePart
<1>3. Holds(more, Len(cells) + 1) = Holds(more, Len(cells)) \cup c.holds
  <2>1. Len(cells) + 1 \in Nat /\ Len(cells) + 1 # 0 /\ (Len(cells) + 1) - 1 = Len(cells)
    BY <1>1
  <2> QED
    BY <1>1, <2>1, HoldsStep
<1> QED
  BY <1>1, <1>2, <1>3 DEF more

\* What FirstLogged computes.
LEMMA FirstOf ==
  ASSUME NEW l \in Seq(Observations), NEW n \in 0 .. Len(l)
  PROVE  /\ SubSeq(l, 1, n) \in Seq(Observations) /\ Len(SubSeq(l, 1, n)) = n
         /\ \A i \in 1 .. n : SubSeq(l, 1, n)[i] = l[i]
         /\ Elements(SubSeq(l, 1, n)) = First(l, n)
<1>1. /\ SubSeq(l, 1, n) \in Seq(Observations) /\ Len(SubSeq(l, 1, n)) = n
      /\ \A i \in 1 .. n : SubSeq(l, 1, n)[i] = l[i]
  BY SubSeqProperties, LenProperties
<1> QED
  BY <1>1 DEF Elements, First

\* Prefixes of a log without repetitions: their order and their size.
LEMMA FirstOrdered ==
  ASSUME NEW l \in Seq(Observations), \A i, j \in 1 .. Len(l) : l[i] = l[j] => i = j,
         NEW n \in 0 .. Len(l)
  PROVE  /\ \A m \in 0 .. Len(l) : First(l, m) \subseteq First(l, n) => m <= n
         /\ IsFiniteSet(First(l, n)) /\ Cardinality(First(l, n)) = n
<1>0. Len(l) \in Nat /\ n \in Nat
  BY LenProperties
<1>1. ASSUME NEW m \in 0 .. Len(l), First(l, m) \subseteq First(l, n), ~(m <= n)
      PROVE  FALSE
  <2>1. m \in 1 .. m /\ m \in 1 .. Len(l)
    BY <1>0, <1>1
  <2>2. l[m] \in First(l, n)
    BY <1>1, <2>1 DEF First
  <2>3. PICK i \in 1 .. n : l[i] = l[m]
    BY <2>2 DEF First
  <2> QED
    BY <1>0, <1>1, <2>1, <2>3
<1>2. IsFiniteSet(1 .. n) /\ Cardinality(1 .. n) = n
  BY <1>0, FS_Interval
<1> DEFINE b == [i \in 1 .. n |-> l[i]]
<1>3. b \in Bijection(1 .. n, First(l, n))
  <2>1. b \in [1 .. n -> First(l, n)]
    BY DEF First
  <2>2. \A i, j \in 1 .. n : b[i] = b[j] => i = j
    BY <1>0
  <2>3. \A x \in First(l, n) : \E i \in 1 .. n : b[i] = x
    BY DEF First
  <2> QED
    BY <2>1, <2>2, <2>3 DEF Bijection, Injection, Surjection, IsInjective
<1>4. IsFiniteSet(First(l, n)) /\ Cardinality(First(l, n)) = n
  <2>1. ExistsBijection(1 .. n, First(l, n))
    BY <1>3 DEF ExistsBijection
  <2> QED
    BY <1>2, <2>1, FS_Bijection
<1> QED
  BY <1>1, <1>4

-----------------------------------------------------------------------------
\* The first m cells of a file, replayed.
LEMMA ReplayPart ==
  ASSUME NEW cells \in Seq(Cell), NEW m \in 0 .. Len(cells),
         \A j \in 1 .. Len(cells) : cells[j].kind = "snapshot" => j = 1
  PROVE  Replay(SubSeq(cells, 1, m)) = Holds(cells, m)
<1> DEFINE part == SubSeq(cells, 1, m)
<1>1. /\ Len(cells) \in Nat /\ Len(part) = m
      /\ \A j \in 1 .. m : part[j] = cells[j]
  BY SubSeqProperties, LenProperties
<1> HIDE DEF part
<1>2. \A j \in 2 .. Len(part) : part[j].kind # "snapshot"
  BY <1>1
<1>3. Replay(part) = Holds(part, Len(part))
  BY <1>1, <1>2, ReplayHolds
<1>4. Holds(part, m) = Holds(cells, m)
  BY <1>1, SamePart
<1> QED
  BY <1>1, <1>3, <1>4 DEF part

\* What read_all and replay_records recover from a file: its longest whole
\* part, and that is everything the file holds unless a record lies behind
\* a fragment.
LEMMA ReadsLongestPart ==
  ASSUME NEW f \in File, NEW out \in ReadAll(f), out.ok,
         \A j \in 1 .. Len(f.cells) : f.cells[j].kind = "snapshot" => j = 1,
         \A j \in 1 .. Len(f.cells) : f.cells[j].kind = "fragment" => f.cells[j].holds = {}
  PROVE  \E m \in 0 .. Len(f.cells) :
           /\ Whole(f.cells, m) /\ out.obs = Holds(f.cells, m)
           /\ \A k \in 0 .. Len(f.cells) : Whole(f.cells, k) => k <= m
           /\ Whole(f.cells, Len(f.cells) - 1) => out.obs = Holds(f.cells, Len(f.cells))
<1> DEFINE cells == f.cells
<1>1. cells \in Seq(Cell) /\ Len(cells) \in Nat
  BY LenProperties DEF File
<1>2. CASE Fragments(f) = {}
  <2>1. out = Recovered(Replay(cells))
    BY <1>2 DEF ReadAll, Refused, Recovered
  <2>2. Whole(cells, Len(cells))
    BY <1>2 DEF Whole, Fragments
  <2>3. \A j \in 2 .. Len(cells) : cells[j].kind # "snapshot"
    BY <1>1
  <2>4. out.obs = Holds(cells, Len(cells))
    BY <1>1, <2>1, <2>3, ReplayHolds DEF Recovered
  <2> QED
    BY <1>1, <2>2, <2>4
<1>3. CASE Fragments(f) # {}
  <2> DEFINE first == CHOOSE i \in Fragments(f) : \A j \in Fragments(f) : i <= j
  <2>1. first \in Fragments(f) /\ \A j \in Fragments(f) : first <= j
    <3>1. Fragments(f) \in SUBSET Nat
      BY <1>1 DEF Fragments
    <3>2. \E i \in Fragments(f) : \A j \in Fragments(f) : i <= j
      BY <1>3, <3>1, LeastNumber
    <3> QED
      BY <3>2
  <2> DEFINE m == first - 1
  <2>2. out.obs = Replay(SubSeq(cells, 1, m))
    <3>1. out = Recovered(Replay(Intact(f)))
      BY <1>3 DEF ReadAll, Refused, Recovered
    <3>2. Intact(f) = SubSeq(cells, 1, m)
      BY <1>3 DEF Intact
    <3> QED
      BY <3>1, <3>2 DEF Recovered
  <2> HIDE DEF first
  <2>3. /\ first \in 1 .. Len(cells) /\ cells[first].kind = "fragment"
        /\ m \in 0 .. Len(cells) /\ m \in Int
    BY <1>1, <2>1 DEF Fragments
  <2>4. out.obs = Holds(cells, m)
    BY <1>1, <2>2, <2>3, ReplayPart
  <2>5. Whole(cells, m)
    <3>1. \A j \in 1 .. m : j \in 1 .. Len(cells) /\ ~(first <= j)
      BY <1>1, <2>3
    <3> QED
      BY <2>1, <3>1 DEF Whole, Fragments
  <2>6. ASSUME NEW k \in Int, Whole(cells, k) PROVE k <= m
    BY <1>1, <2>3, <2>6 DEF Whole
  <2>7. ASSUME Whole(cells, Len(cells) - 1) PROVE Holds(cells, m) = Holds(cells, Len(cells))
    <3>1. first = Len(cells) /\ Len(cells) # 0
      BY <1>1, <2>3, <2>6, <2>7
    <3>2. Holds(cells, Len(cells)) = Holds(cells, Len(cells) - 1) \cup cells[Len(cells)].holds
      BY <1>1, <3>1, HoldsStep
    <3>3. cells[Len(cells)].holds = {}
      BY <2>3, <3>1
    <3> QED
      BY <3>1, <3>2, <3>3
  <2> HIDE DEF m
  <2> QED
    BY <2>3, <2>4, <2>5, <2>6, <2>7
<1> QED
  BY <1>2, <1>3

-----------------------------------------------------------------------------
\* The files of the operations. A shorter prefix of a log is part of a longer.
LEMMA FirstGrows ==
  ASSUME NEW l, NEW m \in Int, NEW n \in Int, m <= n
  PROVE  First(l, m) \subseteq First(l, n)
<1>1. 1 .. m \subseteq 1 .. n
  OBVIOUS
<1> QED
  BY <1>1 DEF First

\* A flush, or the close of a file: nothing is lost by calling all of it
\* synced, and then it covers the whole log.
LEMMA FlushKeeps ==
  ASSUME NEW l \in Seq(Observations), NEW d, NEW e \in 0 .. Len(l), NEW f \in File,
         HoldsLog(f, l, d), Complete(f, l),
         NEW g \in File, g.cells = f.cells, g.synced = Len(f.cells)
  PROVE  HoldsLog(g, l, e) /\ Complete(g, l)
<1>1. Len(f.cells) \in Nat /\ Len(l) \in Nat
  BY LenProperties DEF File
<1>2. First(l, e) \subseteq First(l, Len(l))
  BY <1>1, FirstGrows
<1> QED
  BY <1>1, <1>2 DEF HoldsLog, Complete

\* What one more cell changes: nothing in the part before it.
OneMore(more, cells, c) ==
  /\ Len(more) = Len(cells) + 1 /\ more[Len(cells) + 1] = c
  /\ \A j \in 1 .. Len(cells) : more[j] = cells[j]
  /\ \A k \in Int : k <= Len(cells) => /\ Holds(more, k) = Holds(cells, k)
                                       /\ Whole(more, k) => Whole(cells, k)
  /\ Holds(more, Len(cells) + 1) = Holds(cells, Len(cells)) \cup c.holds

\* What a journal file holds after one more cell has been written to its end.
LEMMA AppendIsOneMore ==
  ASSUME NEW cells \in Seq(Cell), NEW c \in Cell
  PROVE  OneMore(Append(cells, c), cells, c)
<1> DEFINE more == Append(cells, c)
<1>1. ASSUME NEW k \in Int, k <= Len(cells)
      PROVE  Holds(more, k) = Holds(cells, k) /\ (Whole(more, k) => Whole(cells, k))
  <2>1. \A i \in Int : i <= Len(cells) => /\ Holds(more, i) = Holds(cells, i)
                                          /\ Whole(more, i) <=> Whole(cells, i)
    BY AppendedCell
  <2> HIDE DEF more
  <2> QED
    BY <1>1, <2>1
<1>2. /\ Len(more) = Len(cells) + 1 /\ more[Len(cells) + 1] = c
      /\ \A j \in 1 .. Len(cells) : more[j] = cells[j]
      /\ Holds(more, Len(cells) + 1) = Holds(cells, Len(cells)) \cup c.holds
  BY AppendedCell
<1> HIDE DEF more
<1>3. OneMore(more, cells, c)
  BY <1>1, <1>2 DEF OneMore
<1> QED
  BY <1>3 DEF more

\* A cell behind the others, with a log that is longer by what it holds.
LEMMA CellKeeps ==
  ASSUME NEW f \in File, NEW g \in File, NEW c, OneMore(g.cells, f.cells, c),
         g.synced = f.synced, c.kind \in {"observation", "fragment"},
         c.kind = "fragment" => c.holds = {},
         NEW l \in Seq(Observations), NEW m \in Seq(Observations), NEW d \in 0 .. Len(l),
         Len(l) <= Len(m), \A n \in 0 .. Len(l) : First(m, n) = First(l, n),
         First(m, Len(m)) = First(l, Len(l)) \cup c.holds,
         HoldsLog(f, l, d), Complete(f, l)
  PROVE  HoldsLog(g, m, d) /\ Complete(g, m)
<1>1. Len(f.cells) \in Nat /\ Len(l) \in Nat /\ Len(m) \in Nat /\ f.synced \in Nat
  BY LenProperties DEF File
<1>2. ASSUME NEW k \in Int, k <= Len(f.cells)
      PROVE  Holds(g.cells, k) = Holds(f.cells, k) /\ (Whole(g.cells, k) => Whole(f.cells, k))
  BY <1>2 DEF OneMore
<1>3. Complete(g, m)
  <2>1. Len(g.cells) - 1 = Len(f.cells)
    BY <1>1 DEF OneMore
  <2>2. SUFFICES ASSUME Whole(g.cells, Len(f.cells))
                 PROVE  Holds(g.cells, Len(g.cells)) = First(m, Len(m))
    BY <2>1 DEF Complete
  <2>3. Whole(f.cells, Len(f.cells) - 1)
    <3>1. Len(f.cells) - 1 \in Int /\ Len(f.cells) \in Int /\ Len(f.cells) - 1 <= Len(f.cells)
      BY <1>1
    <3>2. Whole(f.cells, Len(f.cells))
      BY <1>1, <1>2, <2>2
    <3> QED
      BY <3>1, <3>2, HoldsGrows
  <2>4. Holds(f.cells, Len(f.cells)) = First(l, Len(l))
    BY <2>3 DEF Complete
  <2> QED
    BY <2>4 DEF OneMore
<1>4. ASSUME NEW k \in 0 .. Len(g.cells), Whole(g.cells, k)
      PROVE  \E n \in 0 .. Len(m) : Holds(g.cells, k) = First(m, n)
  <2>1. CASE k <= Len(f.cells)
    <3>1. k \in 0 .. Len(f.cells) /\ k \in Int
      BY <1>1, <2>1
    <3>2. Whole(f.cells, k) /\ Holds(g.cells, k) = Holds(f.cells, k)
      BY <1>2, <1>4, <2>1, <3>1
    <3>3. PICK n \in 0 .. Len(l) : Holds(f.cells, k) = First(l, n)
      BY <3>1, <3>2 DEF HoldsLog
    <3>4. n \in 0 .. Len(m)
      BY <1>1
    <3> QED
      BY <3>2, <3>3, <3>4
  <2>2. CASE k > Len(f.cells)
    <3>1. k = Len(g.cells) /\ k - 1 \in Int /\ k \in Int /\ k - 1 <= k
      BY <1>1, <2>2 DEF OneMore
    <3>2. Whole(g.cells, Len(g.cells) - 1)
      BY <1>4, <3>1, HoldsGrows
    <3>3. Holds(g.cells, k) = First(m, Len(m))
      BY <1>3, <3>1, <3>2 DEF Complete
    <3> QED
      BY <1>1, <3>3
  <2> QED
    BY <1>1, <2>1, <2>2
<1>5. Whole(g.cells, g.synced - 1) => First(m, d) \subseteq Holds(g.cells, g.synced)
  <2>1. /\ f.synced <= Len(f.cells) /\ f.synced - 1 <= Len(f.cells)
        /\ f.synced \in Int /\ f.synced - 1 \in Int
    BY <1>1 DEF HoldsLog
  <2>2. /\ Whole(g.cells, f.synced - 1) => Whole(f.cells, f.synced - 1)
        /\ Holds(g.cells, f.synced) = Holds(f.cells, f.synced)
    BY <1>2, <2>1
  <2> QED
    BY <2>2 DEF HoldsLog
<1>6. /\ \A j \in 1 .. Len(g.cells) : g.cells[j].kind = "snapshot" => j = 1
      /\ \A j \in 1 .. Len(g.cells) : g.cells[j].kind = "fragment" => g.cells[j].holds = {}
      /\ g.synced <= Len(g.cells)
  <2>1. \A j \in 1 .. Len(g.cells) : j \in 1 .. Len(f.cells) \/ j = Len(f.cells) + 1
    BY <1>1 DEF OneMore
  <2>2. ASSUME NEW j \in 1 .. Len(f.cells)
        PROVE  /\ g.cells[j].kind = "snapshot" => j = 1
               /\ g.cells[j].kind = "fragment" => g.cells[j].holds = {}
    BY <2>2 DEF HoldsLog, OneMore
  <2>3. g.cells[Len(f.cells) + 1] = c
    BY DEF OneMore
  <2>4. g.synced <= Len(g.cells)
    BY <1>1 DEF HoldsLog, OneMore
  <2> QED
    BY <2>1, <2>2, <2>3, <2>4
<1> QED
  BY <1>3, <1>4, <1>5, <1>6 DEF HoldsLog

\* A record behind the others.
LEMMA RecordKeeps ==
  ASSUME NEW l \in Seq(Observations), NEW d \in 0 .. Len(l), NEW f \in File,
         HoldsLog(f, l, d), Complete(f, l), NEW o \in Observations,
         NEW g \in File, g.cells = Append(f.cells, ObsCell(o)), g.synced = f.synced
  PROVE  HoldsLog(g, Append(l, o), d) /\ Complete(g, Append(l, o))
<1> DEFINE m == Append(l, o)
           c == ObsCell(o)
<1>1. /\ f.cells \in Seq(Cell) /\ Len(l) \in Nat
      /\ c \in Cell /\ c.kind = "observation" /\ c.holds = {o}
  BY LenProperties DEF File, Cell, ObsCell
<1>2. /\ m \in Seq(Observations) /\ Len(m) = Len(l) + 1 /\ m[Len(l) + 1] = o
      /\ \A i \in 1 .. Len(l) : m[i] = l[i]
  BY <1>1, AppendProperties
<1>3. OneMore(g.cells, f.cells, c)
  BY <1>1, AppendIsOneMore
<1> HIDE DEF m, c
<1>4. ASSUME NEW n \in 0 .. Len(l) PROVE First(m, n) = First(l, n)
  <2>1. \A i \in 1 .. n : m[i] = l[i]
    BY <1>1, <1>2
  <2> QED
    BY <2>1 DEF First
<1>5. First(m, Len(m)) = First(l, Len(l)) \cup c.holds
  <2>1. 1 .. Len(m) = (1 .. Len(l)) \cup {Len(l) + 1}
    BY <1>1, <1>2
  <2>2. First(m, Len(m)) = {m[i] : i \in 1 .. Len(l)} \cup {m[Len(l) + 1]}
    BY <2>1 DEF First
  <2>3. {m[i] : i \in 1 .. Len(l)} = {l[i] : i \in 1 .. Len(l)}
    BY <1>2
  <2> QED
    BY <1>1, <1>2, <2>2, <2>3 DEF First
<1>6. Len(l) <= Len(m)
  BY <1>1, <1>2
<1>7. HoldsLog(g, m, d) /\ Complete(g, m)
  BY <1>1, <1>2, <1>3, <1>4, <1>5, <1>6, CellKeeps
<1> QED
  BY <1>7 DEF m

\* A short write.
LEMMA FragmentKeeps ==
  ASSUME NEW l \in Seq(Observations), NEW d \in 0 .. Len(l), NEW f \in File,
         HoldsLog(f, l, d), Complete(f, l),
         NEW g \in File, g.cells = Append(f.cells, Fragment), g.synced = f.synced
  PROVE  HoldsLog(g, l, d) /\ Complete(g, l)
<1> DEFINE c == Fragment
<1>1. /\ f.cells \in Seq(Cell) /\ Len(l) \in Nat
      /\ c \in Cell /\ c.kind = "fragment" /\ c.holds = {}
  BY LenProperties DEF File, Cell, Fragment
<1>2. OneMore(g.cells, f.cells, c)
  BY <1>1, AppendIsOneMore
<1> HIDE DEF c
<1>3. First(l, Len(l)) = First(l, Len(l)) \cup c.holds /\ Len(l) <= Len(l)
  BY <1>1
<1> QED
  BY <1>1, <1>2, <1>3, CellKeeps

\* What a crash leaves: all that was synced, a part of the rest and perhaps a
\* fragment.
LEMMA Survivor ==
  ASSUME NEW l \in Seq(Observations), NEW d \in 0 .. Len(l), NEW f \in File,
         HoldsLog(f, l, d), NEW g \in Survivors(f)
  PROVE  /\ g \in File /\ HoldsLog(g, l, d)
         /\ f.header.found => g.header = f.header
         /\ ~f.header.found => ~g.header.found \/ g.header.epoch = 0
<1>1. /\ f.cells \in Seq(Cell) /\ Len(f.cells) \in Nat /\ f.synced \in Nat
      /\ f.synced <= Len(f.cells) /\ f.header \in [found : BOOLEAN, epoch : Nat]
  BY LenProperties DEF File, HoldsLog
<1> DEFINE headers == IF f.header.found THEN {f.header} ELSE {NoHeader, Header(0)}
           whole   == {SubSeq(f.cells, 1, k) : k \in f.synced .. Len(f.cells)}
           broken  == {Append(SubSeq(f.cells, 1, k), Fragment) :
                         k \in f.synced .. Len(f.cells) - 1}
<1>2. PICK h \in headers, c \in whole \cup broken :
        g = [header |-> h, cells |-> c, synced |-> Len(c)]
  BY DEF Survivors
<1>3. PICK k \in f.synced .. Len(f.cells), torn \in BOOLEAN :
        c = IF torn THEN Append(SubSeq(f.cells, 1, k), Fragment) ELSE SubSeq(f.cells, 1, k)
  <2>1. f.synced .. Len(f.cells) - 1 \subseteq f.synced .. Len(f.cells)
    BY <1>1
  <2>2. CASE c \in whole
    BY <2>2
  <2>3. CASE c \in broken
    BY <2>1, <2>3
  <2> QED
    BY <2>2, <2>3
<1> HIDE DEF whole, broken
<1> DEFINE part == SubSeq(f.cells, 1, k)
<1>4. /\ part \in Seq(Cell) /\ Len(part) = k /\ \A j \in 1 .. k : part[j] = f.cells[j]
      /\ k \in Nat
  BY <1>1, SubSeqProperties
<1>5. /\ g.cells = (IF torn THEN Append(part, Fragment) ELSE part)
      /\ g.header = h /\ g.synced = Len(g.cells)
  BY <1>2, <1>3
<1> HIDE DEF part
<1>6. Fragment \in Cell /\ Fragment.kind = "fragment" /\ Fragment.holds = {}
  BY DEF Fragment, Cell
<1>7. g.cells \in Seq(Cell) /\ Len(g.cells) = (IF torn THEN k + 1 ELSE k)
  BY <1>4, <1>5, <1>6, AppendProperties
<1>8. \A j \in 1 .. k : g.cells[j] = f.cells[j]
  BY <1>4, <1>5, <1>6, AppendProperties
<1>9. torn => g.cells[k + 1] = Fragment
  BY <1>4, <1>5, <1>6, AppendProperties
<1>10. /\ g \in File
       /\ f.header.found => g.header = f.header
       /\ ~f.header.found => ~g.header.found \/ g.header.epoch = 0
  <2>1. h \in [found : BOOLEAN, epoch : Nat]
    <3>1. {NoHeader, Header(0)} \subseteq [found : BOOLEAN, epoch : Nat]
      BY DEF NoHeader, Header
    <3> QED
      BY <1>1, <3>1
  <2>2. g = [header |-> g.header, cells |-> g.cells, synced |-> g.synced]
    BY <1>2
  <2>3. g.synced \in Nat
    BY <1>4, <1>5, <1>7
  <2>4. g \in File
    BY <1>5, <1>7, <2>1, <2>2, <2>3 DEF File
  <2> QED
    BY <1>5, <2>4 DEF NoHeader, Header
<1>11. ASSUME NEW i \in Int, i <= k
       PROVE  Holds(g.cells, i) = Holds(f.cells, i) /\ (Whole(g.cells, i) <=> Whole(f.cells, i))
  <2>1. \A j \in 1 .. i : g.cells[j] = f.cells[j]
    BY <1>4, <1>8, <1>11
  <2> QED
    BY <2>1, SamePart
<1>12. ASSUME NEW i \in 0 .. Len(g.cells), Whole(g.cells, i)
       PROVE  \E n \in 0 .. Len(l) : Holds(g.cells, i) = First(l, n)
  <2>1. i \in 0 .. k
    <3>1. CASE i = k + 1 /\ torn
      <4>1. k + 1 \in 1 .. i
        BY <1>4, <3>1
      <4> QED
        BY <1>6, <1>9, <1>12, <3>1, <4>1 DEF Whole
    <3> QED
      BY <1>4, <1>7, <3>1
  <2>2. i \in Int /\ i <= k /\ i \in 0 .. Len(f.cells)
    BY <1>1, <1>4, <2>1
  <2>3. Holds(g.cells, i) = Holds(f.cells, i) /\ Whole(f.cells, i)
    BY <1>11, <1>12, <2>2
  <2> QED
    BY <2>2, <2>3 DEF HoldsLog
<1>13. ASSUME Whole(g.cells, g.synced - 1) PROVE First(l, d) \subseteq Holds(g.cells, g.synced)
  <2>1. /\ f.synced - 1 \in Int /\ f.synced - 1 <= g.synced - 1 /\ g.synced - 1 \in Int
        /\ f.synced - 1 <= k /\ f.synced <= k /\ f.synced \in Int /\ k \in Int
        /\ k <= g.synced /\ g.synced \in Int
    BY <1>1, <1>4, <1>5, <1>7
  <2>2. Whole(g.cells, f.synced - 1)
    BY <1>13, <2>1, HoldsGrows
  <2>3. Whole(f.cells, f.synced - 1)
    BY <1>11, <2>1, <2>2
  <2>4. First(l, d) \subseteq Holds(f.cells, f.synced)
    BY <2>3 DEF HoldsLog
  <2>5. Holds(g.cells, f.synced) \subseteq Holds(g.cells, g.synced)
    BY <2>1, HoldsGrows
  <2> QED
    BY <1>11, <2>1, <2>4, <2>5
<1>14. /\ \A j \in 1 .. Len(g.cells) : g.cells[j].kind = "snapshot" => j = 1
       /\ \A j \in 1 .. Len(g.cells) : g.cells[j].kind = "fragment" => g.cells[j].holds = {}
       /\ g.synced <= Len(g.cells)
  <2>1. \A j \in 1 .. Len(g.cells) : j \in 1 .. k \/ (torn /\ j = k + 1)
    BY <1>4, <1>7
  <2>2. ASSUME NEW j \in 1 .. k
        PROVE  /\ g.cells[j].kind = "snapshot" => j = 1
               /\ g.cells[j].kind = "fragment" => g.cells[j].holds = {}
    <3>1. j \in 1 .. Len(f.cells) /\ g.cells[j] = f.cells[j]
      BY <1>1, <1>4, <1>8
    <3> QED
      BY <3>1 DEF HoldsLog
  <2>3. g.synced <= Len(g.cells)
    BY <1>4, <1>5, <1>7
  <2> QED
    BY <1>6, <1>9, <2>1, <2>2, <2>3
<1>15. HoldsLog(g, l, d)
  BY <1>12, <1>13, <1>14 DEF HoldsLog
<1> QED
  BY <1>10, <1>15

\* A recovery that is not refused restores a prefix of the log, and the file
\* is complete for that prefix.
LEMMA Reopen ==
  ASSUME NEW l \in Seq(Observations), NEW d \in 0 .. Len(l), NEW f \in File,
         \A i, j \in 1 .. Len(l) : l[i] = l[j] => i = j,
         HoldsLog(f, l, d), NEW out \in ReadAll(f), out.ok
  PROVE  \E n \in 0 .. Len(l) :
           /\ out.obs = First(l, n) /\ Cardinality(out.obs) = n
           /\ HoldsLog(f, SubSeq(l, 1, n), IF d < n THEN d ELSE n)
           /\ Complete(f, SubSeq(l, 1, n))
<1>1. /\ Len(f.cells) \in Nat /\ Len(l) \in Nat /\ f.synced \in Nat
      /\ f.synced <= Len(f.cells)
  BY LenProperties DEF File, HoldsLog
<1>2. PICK m \in 0 .. Len(f.cells) :
        /\ Whole(f.cells, m) /\ out.obs = Holds(f.cells, m)
        /\ \A k \in 0 .. Len(f.cells) : Whole(f.cells, k) => k <= m
        /\ Whole(f.cells, Len(f.cells) - 1) => out.obs = Holds(f.cells, Len(f.cells))
  BY ReadsLongestPart DEF HoldsLog
<1>3. PICK n \in 0 .. Len(l) : Holds(f.cells, m) = First(l, n)
  BY <1>2 DEF HoldsLog
<1> DEFINE p == SubSeq(l, 1, n)
           e == IF d < n THEN d ELSE n
<1>4. n \in Nat /\ d \in Nat /\ e \in 0 .. n /\ e <= d
  BY <1>1
<1>5. Len(p) = n /\ \A i \in 1 .. n : p[i] = l[i]
  BY FirstOf
<1> HIDE DEF p, e
<1>6. ASSUME NEW k \in 0 .. n PROVE First(p, k) = First(l, k)
  <2>1. \A i \in 1 .. k : p[i] = l[i]
    BY <1>4, <1>5
  <2> QED
    BY <2>1 DEF First
<1>7. Complete(f, p)
  BY <1>2, <1>3, <1>4, <1>5, <1>6 DEF Complete
<1>8. ASSUME NEW k \in 0 .. Len(f.cells), Whole(f.cells, k)
      PROVE  \E i \in 0 .. Len(p) : Holds(f.cells, k) = First(p, i)
  <2>1. PICK i \in 0 .. Len(l) : Holds(f.cells, k) = First(l, i)
    BY <1>8 DEF HoldsLog
  <2>2. k <= m /\ k \in Int /\ m \in Int
    BY <1>2, <1>8
  <2>3. First(l, i) \subseteq First(l, n)
    BY <1>3, <2>1, <2>2, HoldsGrows
  <2>4. i <= n
    BY <2>3, FirstOrdered
  <2>5. i \in 0 .. n
    BY <1>1, <1>4, <2>4
  <2> QED
    BY <1>5, <1>6, <2>1, <2>5
<1>9. Whole(f.cells, f.synced - 1) => First(p, e) \subseteq Holds(f.cells, f.synced)
  <2>1. First(p, e) \subseteq First(l, d)
    BY <1>4, <1>6, FirstGrows
  <2> QED
    BY <2>1 DEF HoldsLog
<1>10. HoldsLog(f, p, e)
  BY <1>8, <1>9 DEF HoldsLog
<1>11. out.obs = First(l, n) /\ Cardinality(out.obs) = n
  BY <1>2, <1>3, FirstOrdered
<1> QED
  BY <1>7, <1>10, <1>11 DEF p, e

\* The file of a compaction.
LEMMA SnapshotHolds ==
  ASSUME NEW l \in Seq(Observations), NEW d \in 0 .. Len(l), NEW f \in File,
         Len(f.cells) = 1, f.synced = 1, f.cells[1].kind = "snapshot",
         f.cells[1].holds = First(l, Len(l))
  PROVE  HoldsLog(f, l, d) /\ Complete(f, l)
<1>1. Len(l) \in Nat
  BY LenProperties
<1>2. Holds(f.cells, 0) = First(l, 0)
  BY DEF Holds, First
<1>3. Holds(f.cells, 1) = First(l, Len(l))
  <2>1. 1 .. 1 = {1}
    OBVIOUS
  <2> QED
    BY <2>1 DEF Holds
<1>4. First(l, d) \subseteq First(l, Len(l))
  BY <1>1, FirstGrows
<1>5. Complete(f, l)
  BY <1>3 DEF Complete
<1>6. ASSUME NEW k \in 0 .. Len(f.cells)
      PROVE  \E n \in 0 .. Len(l) : Holds(f.cells, k) = First(l, n)
  <2>1. (k = 0 \/ k = 1) /\ 0 \in 0 .. Len(l) /\ Len(l) \in 0 .. Len(l)
    BY <1>1
  <2> QED
    BY <1>2, <1>3, <2>1
<1>7. /\ \A j \in 1 .. Len(f.cells) : f.cells[j].kind = "snapshot" => j = 1
      /\ \A j \in 1 .. Len(f.cells) : f.cells[j].kind = "fragment" => f.cells[j].holds = {}
      /\ f.synced <= Len(f.cells)
  <2>1. \A j \in 1 .. Len(f.cells) : j = 1
    OBVIOUS
  <2> QED
    BY <2>1
<1> QED
  BY <1>3, <1>4, <1>5, <1>6, <1>7 DEF HoldsLog

\* A file that was just created.
LEMMA EmptyHolds ==
  EmptyFile \in File /\ HoldsLog(EmptyFile, <<>>, 0) /\ Complete(EmptyFile, <<>>)
<1>1. EmptyFile \in File
  BY DEF EmptyFile, File, NoHeader
<1>2. EmptyFile.cells = <<>> /\ EmptyFile.synced = 0 /\ Len(<<>>) = 0
  BY DEF EmptyFile
<1>3. Holds(<<>>, 0) = First(<<>>, 0) /\ First(<<>>, 0) = {}
  BY DEF Holds, First
<1>4. Complete(EmptyFile, <<>>)
  BY <1>2, <1>3 DEF Complete
<1>5. HoldsLog(EmptyFile, <<>>, 0)
  BY <1>2, <1>3 DEF HoldsLog
<1> QED
  BY <1>1, <1>4, <1>5

-----------------------------------------------------------------------------
\* The initial states satisfy the invariant.
LEMMA IInvInit ==
  Init => IInv
<1> SUFFICES ASSUME Init PROVE IInv
  OBVIOUS
<1> USE DEF Init
<1>1. JournalTypes
  <2>1. EmptyFile \in File
    BY EmptyHolds
  <2>2. <<>> \in Seq(Observations) /\ Len(<<>>) = 0
    OBVIOUS
  <2> QED
    BY <2>1, <2>2 DEF JournalTypes
<1>2. FilesInUse /\ Contents /\ Epochs
  BY DEF FilesInUse, Contents, Epochs
<1> QED
  BY <1>1, <1>2 DEF IInv

\* What the invariant says of a runtime that has the journal open.
LEMMA OpenJournal ==
  ASSUME IInv, NEW r \in Runtimes, handle[r] # NoFile
  PROVE  /\ path \in Files /\ handle[r] = path /\ path # NoFile /\ pc[r] # "down"
         /\ file[path] \in File /\ log \in Seq(Observations) /\ flushed \in 0 .. Len(log)
         /\ HoldsLog(file[path], log, flushed) /\ Complete(file[path], log)
         /\ live[r] = Elements(log)
<1>1. handle[r] = path /\ path \in Files /\ path # NoFile /\ pc[r] # "down"
  BY DEF IInv, JournalTypes, FilesInUse
<1> QED
  BY <1>1 DEF IInv, JournalTypes, Contents

\* Steps that only move the program of a runtime.
LEMMA MovesOnly ==
  ASSUME IInv, OneRuntime, NEW r \in Runtimes,
         \/ CompactBegins(r) \/ CompactTooBig(r)
         \/ \E o \in Observations : AppendIsFull(r, o)
  PROVE  IInv'
<1>1. /\ UNCHANGED <<path, file, handle, epoch, live, temp, log, flushed, lastEpoch>>
      /\ \A s \in Runtimes : s = r
      /\ \/ pc[r] = "up" /\ pc' = [pc EXCEPT ![r] = "compacting"]
         \/ pc[r] = "compacting" /\ pc' = [pc EXCEPT ![r] = "up"]
      /\ \/ todo' = todo
         \/ todo' = [todo EXCEPT ![r] = {}]
         \/ \E o \in Observations \ Elements(log) :
              todo' = [todo EXCEPT ![r] = {o}] /\ pc[r] = "up"
      /\ pc[r] = "compacting" => todo' = [todo EXCEPT ![r] = {}]
  BY DEF OneRuntime, CompactBegins, CompactTooBig, AppendIsFull
<1>2. JournalTypes'
  BY <1>1 DEF IInv, JournalTypes
<1>3. FilesInUse'
  BY <1>1 DEF IInv, JournalTypes, FilesInUse
<1>4. Contents'
  BY <1>1 DEF IInv, JournalTypes, Contents
<1>5. Epochs'
  BY <1>1 DEF IInv, JournalTypes, Epochs
<1> QED
  BY <1>2, <1>3, <1>4, <1>5 DEF IInv

\* A flush, at the end of an open or of its own: the header gets the epoch of
\* the runtime.
LEMMA Flushes ==
  ASSUME IInv, OneRuntime, NEW r \in Runtimes, Flush(r) \/ OpenFlushes(r)
  PROVE  IInv'
<1> DEFINE g == FlushedFile(r)
<1>1. /\ UNCHANGED <<path, handle, epoch, live, todo, temp, log>>
      /\ \A s \in Runtimes : s = r
      /\ handle[r] # NoFile /\ file' = [file EXCEPT ![handle[r]] = g] /\ flushed' = Len(log)
      /\ pc[r] \in {"up", "opening"} /\ pc' = [pc EXCEPT ![r] = "up"]
      /\ lastEpoch' = epoch[r]
  <2>1. CASE Flush(r)
    BY <2>1 DEF OneRuntime, Flush, IInv, JournalTypes, FilesInUse, Epochs
  <2>2. CASE OpenFlushes(r)
    BY <2>2 DEF OneRuntime, OpenFlushes, IInv, JournalTypes, FilesInUse
  <2> QED
    BY <2>1, <2>2
<1>2. /\ path \in Files /\ handle[r] = path /\ path # NoFile
      /\ file[path] \in File /\ log \in Seq(Observations)
      /\ HoldsLog(file[path], log, flushed) /\ Complete(file[path], log)
      /\ live[r] = Elements(log) /\ temp[r] = NoFile
  <2>1. temp[r] = NoFile
    BY <1>1 DEF IInv, FilesInUse
  <2> QED
    BY <1>1, <2>1, OpenJournal
<1>3. g \in File /\ g.cells = file[path].cells /\ g.synced = Len(file[path].cells)
      /\ g.header = Header(epoch[r])
  <2>1. epoch[r] \in Nat /\ Len(file[path].cells) \in Nat
    BY <1>2, LenProperties DEF IInv, JournalTypes, File
  <2> QED
    BY <1>2, <2>1 DEF FlushedFile, Header, File
<1> HIDE DEF g
<1>4. Len(log) \in 0 .. Len(log)
  BY <1>2, LenProperties
<1>5. HoldsLog(g, log, Len(log)) /\ Complete(g, log)
  BY <1>2, <1>3, <1>4, FlushKeeps
<1>6. file' \in [Files -> File] /\ file'[path] = g
  BY <1>1, <1>2, <1>3 DEF IInv, JournalTypes
<1>7. JournalTypes'
  BY <1>1, <1>4, <1>6 DEF IInv, JournalTypes
<1>8. FilesInUse'
  BY <1>1, <1>2 DEF IInv, JournalTypes, FilesInUse
<1>9. Contents'
  <2>1. pc'[r] = "up"
    BY <1>1 DEF IInv, JournalTypes
  <2> QED
    BY <1>1, <1>2, <1>5, <1>6, <2>1 DEF Contents
<1>10. Epochs'
  <2>1. pc'[r] = "up" /\ g.header.found /\ g.header.epoch = epoch[r]
    BY <1>1, <1>3 DEF IInv, JournalTypes, Header
  <2> QED
    BY <1>1, <1>6, <2>1 DEF Epochs
<1> QED
  BY <1>7, <1>8, <1>9, <1>10 DEF IInv

\* A record reaches the end of the journal and of the log.
LEMMA Records ==
  ASSUME IInv, OneRuntime, NEW r \in Runtimes, NEW o \in Observations \ Elements(log),
         pc[r] \in {"up", "retry"}, handle[r] # NoFile, Record(r, o),
         pc' = [pc EXCEPT ![r] = "up"], todo' = [todo EXCEPT ![r] = {}],
         UNCHANGED <<path, handle, epoch, temp, flushed, lastEpoch>>
  PROVE  IInv'
<1> DEFINE f == file[path]
           g == [f EXCEPT !.cells = Append(f.cells, ObsCell(o))]
<1>1. /\ path \in Files /\ handle[r] = path /\ path # NoFile
      /\ f \in File /\ log \in Seq(Observations) /\ flushed \in 0 .. Len(log)
      /\ HoldsLog(f, log, flushed) /\ Complete(f, log)
      /\ live[r] = Elements(log)
  BY OpenJournal
<1>2. /\ \A s \in Runtimes : s = r
      /\ temp[r] = NoFile
  BY DEF OneRuntime, IInv, FilesInUse
<1>3. g \in File /\ g.cells = Append(f.cells, ObsCell(o)) /\ g.synced = f.synced
      /\ g.header = f.header
  <2>1. ObsCell(o) \in Cell
    BY DEF ObsCell, Cell
  <2>2. Append(f.cells, ObsCell(o)) \in Seq(Cell)
    BY <1>1, <2>1, AppendProperties DEF File
  <2> QED
    BY <1>1, <2>2 DEF File
<1>4. file' = [file EXCEPT ![path] = g]
  BY <1>1 DEF Record, Write
<1>5. file' \in [Files -> File] /\ file'[path] = g
  BY <1>1, <1>3, <1>4 DEF IInv, JournalTypes
<1>6. HoldsLog(g, Append(log, o), flushed) /\ Complete(g, Append(log, o))
  BY <1>1, <1>3, RecordKeeps
<1> HIDE DEF f, g
<1>7. /\ log' = Append(log, o) /\ log' \in Seq(Observations) /\ Len(log) \in Nat
      /\ Len(log') = Len(log) + 1 /\ log'[Len(log) + 1] = o
      /\ \A i \in 1 .. Len(log) : log'[i] = log[i]
  BY <1>1, AppendProperties, LenProperties DEF Record
<1>8. Elements(log') = Elements(log) \cup {o}
  <2>1. 1 .. Len(log') = (1 .. Len(log)) \cup {Len(log) + 1}
    BY <1>7
  <2> QED
    BY <1>7, <2>1 DEF Elements
<1>9. JournalTypes'
  <2>1. \A i, j \in 1 .. Len(log') : log'[i] = log'[j] => i = j
    <3>1. \A i \in 1 .. Len(log') : i \in 1 .. Len(log) \/ i = Len(log) + 1
      BY <1>7
    <3>2. \A i \in 1 .. Len(log) : log[i] # o
      BY DEF Elements
    <3> QED
      BY <1>7, <3>1, <3>2 DEF IInv, JournalTypes
  <2>2. flushed \in 0 .. Len(log')
    BY <1>1, <1>7
  <2>3. live' \in [Runtimes -> SUBSET Observations]
    BY DEF Record, IInv, JournalTypes
  <2> QED
    BY <1>5, <1>7, <2>1, <2>2, <2>3 DEF IInv, JournalTypes
<1>10. FilesInUse'
  <2>1. pc'[r] = "up" /\ todo'[r] = {}
    BY DEF IInv, JournalTypes
  <2> QED
    BY <1>1, <1>2, <2>1 DEF FilesInUse
<1>11. Contents'
  <2>1. pc'[r] = "up" /\ live'[r] = live[r] \cup {o}
    BY DEF IInv, JournalTypes, Record
  <2> QED
    BY <1>1, <1>2, <1>5, <1>6, <1>7, <1>8, <2>1 DEF Contents
<1>12. Epochs'
  <2>1. pc'[r] = "up" /\ g.header = f.header
    BY <1>3 DEF IInv, JournalTypes
  <2> QED
    BY <1>1, <1>2, <1>5, <2>1 DEF IInv, Epochs, f
<1> QED
  BY <1>9, <1>10, <1>11, <1>12 DEF IInv

\* append_observation_locked, at once or after a compaction.
LEMMA Appends ==
  ASSUME IInv, OneRuntime, NEW r \in Runtimes,
         AppendRetries(r) \/ \E o \in Observations : AppendRecord(r, o)
  PROVE  IInv'
<1>1. CASE \E o \in Observations : AppendRecord(r, o)
  <2>1. PICK o \in Observations : AppendRecord(r, o)
    BY <1>1
  <2>2. pc' = [pc EXCEPT ![r] = "up"] /\ todo' = [todo EXCEPT ![r] = {}]
    BY <2>1 DEF AppendRecord, IInv, JournalTypes, FilesInUse
  <2> QED
    BY <2>1, <2>2, Records DEF AppendRecord
<1>2. CASE AppendRetries(r)
  <2>1. PICK o \in todo[r] : IF Fits(r) THEN Record(r, o) ELSE UNCHANGED <<file, size, live, log>>
    BY <1>2 DEF AppendRetries
  <2>2. /\ o \in Observations \ Elements(log) /\ handle[r] # NoFile /\ pc[r] = "retry"
        /\ pc' = [pc EXCEPT ![r] = "up"] /\ todo' = [todo EXCEPT ![r] = {}]
        /\ UNCHANGED <<path, handle, epoch, temp, flushed, lastEpoch>>
    BY <1>2, <2>1 DEF AppendRetries, IInv, JournalTypes, FilesInUse
  <2>3. CASE Record(r, o)
    BY <2>2, <2>3, Records
  <2>4. CASE UNCHANGED <<file, live, log>>
    <3>1. /\ \A s \in Runtimes : s = r
          /\ pc'[r] = "up" /\ todo'[r] = {}
      BY <2>2 DEF OneRuntime, IInv, JournalTypes
    <3>2. JournalTypes'
      BY <2>2, <2>4 DEF IInv, JournalTypes
    <3>3. FilesInUse'
      BY <2>2, <2>4, <3>1 DEF IInv, FilesInUse
    <3>4. Contents'
      BY <2>2, <2>4, <3>1 DEF IInv, Contents
    <3>5. Epochs'
      BY <2>2, <2>4, <3>1 DEF IInv, Epochs
    <3> QED
      BY <3>2, <3>3, <3>4, <3>5 DEF IInv
  <2> QED
    BY <2>1, <2>3, <2>4
<1> QED
  BY <1>1, <1>2

\* A short write.
LEMMA FailingAppend ==
  ASSUME IInv, OneRuntime, NEW r \in Runtimes, NEW o \in Observations, AppendFails(r, o)
  PROVE  IInv'
<1> DEFINE f == file[path]
           g == [f EXCEPT !.cells = Append(f.cells, Fragment)]
<1>1. /\ path \in Files /\ handle[r] = path /\ path # NoFile
      /\ f \in File /\ log \in Seq(Observations) /\ flushed \in 0 .. Len(log)
      /\ HoldsLog(f, log, flushed) /\ Complete(f, log)
      /\ live[r] = Elements(log)
  BY OpenJournal DEF AppendFails
<1>2. /\ \A s \in Runtimes : s = r
      /\ pc[r] = "up" /\ temp[r] = NoFile
      /\ UNCHANGED <<path, pc, handle, epoch, live, todo, temp, log, flushed, lastEpoch>>
  BY DEF OneRuntime, IInv, FilesInUse, AppendFails
<1>3. g \in File /\ g.cells = Append(f.cells, Fragment) /\ g.synced = f.synced
      /\ g.header = f.header
  <2>1. Fragment \in Cell
    BY DEF Fragment, Cell
  <2>2. Append(f.cells, Fragment) \in Seq(Cell)
    BY <1>1, <2>1, AppendProperties DEF File
  <2> QED
    BY <1>1, <2>2 DEF File
<1>4. file' = [file EXCEPT ![path] = g]
  BY <1>1 DEF AppendFails, Write
<1>5. file' \in [Files -> File] /\ file'[path] = g
  BY <1>1, <1>3, <1>4 DEF IInv, JournalTypes
<1>6. HoldsLog(g, log, flushed) /\ Complete(g, log)
  BY <1>1, <1>3, FragmentKeeps
<1> HIDE DEF f, g
<1>7. JournalTypes'
  BY <1>2, <1>5 DEF IInv, JournalTypes
<1>8. FilesInUse'
  BY <1>2 DEF IInv, FilesInUse
<1>9. Contents'
  BY <1>1, <1>2, <1>5, <1>6 DEF IInv, Contents
<1>10. Epochs'
  BY <1>1, <1>2, <1>3, <1>5 DEF IInv, Epochs, f
<1> QED
  BY <1>7, <1>8, <1>9, <1>10 DEF IInv

\* Engine::close.
LEMMA Closes ==
  ASSUME IInv, OneRuntime, NEW r \in Runtimes, Close(r)
  PROVE  IInv'
<1>1. /\ \A s \in Runtimes : s = r
      /\ pc[r] = "up" /\ temp[r] = NoFile /\ todo[r] = {} /\ epoch[r] = lastEpoch
      /\ path # NoFile /\ path \in Files
      /\ pc'[r] = "down" /\ handle'[r] = NoFile
      /\ UNCHANGED <<path, epoch, todo, temp, log, lastEpoch>>
  BY DEF OneRuntime, IInv, JournalTypes, FilesInUse, Epochs, Close
<1>2. /\ file' \in [Files -> File] /\ flushed' \in 0 .. Len(log)
      /\ HoldsLog(file'[path], log, flushed')
      /\ IF file'[path].header.found THEN file'[path].header.epoch = lastEpoch
         ELSE lastEpoch = 0
  <2>1. CASE handle[r] = NoFile
    BY <1>1, <2>1 DEF Close, IInv, JournalTypes, Contents, Epochs
  <2>2. CASE handle[r] # NoFile
    <3> DEFINE g == FlushedFile(r)
    <3>1. /\ handle[r] = path /\ file[path] \in File /\ log \in Seq(Observations)
          /\ HoldsLog(file[path], log, flushed) /\ Complete(file[path], log)
      BY <2>2, OpenJournal
    <3>2. g \in File /\ g.cells = file[path].cells /\ g.synced = Len(file[path].cells)
          /\ g.header = Header(epoch[r])
      <4>1. epoch[r] \in Nat /\ Len(file[path].cells) \in Nat
        BY <3>1, LenProperties DEF IInv, JournalTypes, File
      <4> QED
        BY <3>1, <4>1 DEF FlushedFile, Header, File
    <3>3. file' = [file EXCEPT ![handle[r]] = g] /\ flushed' = Len(log)
      BY <2>2 DEF Close
    <3> HIDE DEF g
    <3>4. Len(log) \in 0 .. Len(log)
      BY <3>1, LenProperties
    <3>5. HoldsLog(g, log, Len(log))
      BY <3>1, <3>2, <3>4, FlushKeeps
    <3>6. file' \in [Files -> File] /\ file'[path] = g
      BY <1>1, <3>1, <3>2, <3>3 DEF IInv, JournalTypes
    <3> QED
      BY <1>1, <3>2, <3>3, <3>4, <3>5, <3>6 DEF Header
  <2> QED
    BY <2>1, <2>2
<1>3. JournalTypes'
  <2>1. /\ pc' = [pc EXCEPT ![r] = "down"] /\ handle' = [handle EXCEPT ![r] = NoFile]
        /\ live' = [live EXCEPT ![r] = {}]
    BY DEF Close
  <2> QED
    BY <1>1, <1>2, <2>1 DEF IInv, JournalTypes
<1>4. FilesInUse'
  BY <1>1 DEF IInv, FilesInUse
<1>5. Contents'
  BY <1>1, <1>2 DEF Contents
<1>6. Epochs'
  BY <1>1, <1>2 DEF Epochs
<1> QED
  BY <1>3, <1>4, <1>5, <1>6 DEF IInv

\* A process dies.
LEMMA Crashes ==
  ASSUME IInv, OneRuntime, NEW r \in Runtimes, Crash(r)
  PROVE  IInv'
<1>1. /\ \A s \in Runtimes : s = r
      /\ path # NoFile /\ path \in Files
      /\ pc'[r] = "down" /\ handle'[r] = NoFile /\ temp'[r] = NoFile /\ todo'[r] = {}
      /\ UNCHANGED <<path, epoch, log, flushed, lastEpoch>>
  BY DEF OneRuntime, IInv, JournalTypes, FilesInUse, Crash
<1>2. /\ file' \in [Files -> File]
      /\ HoldsLog(file'[path], log, flushed)
      /\ IF file'[path].header.found THEN file'[path].header.epoch = lastEpoch
         ELSE lastEpoch = 0
  <2>1. CASE handle[r] = NoFile
    BY <1>1, <2>1 DEF Crash, IInv, JournalTypes, Contents, Epochs
  <2>2. CASE handle[r] # NoFile
    <3> DEFINE f == file[path]
    <3>1. /\ handle[r] = path /\ f \in File /\ log \in Seq(Observations)
          /\ flushed \in 0 .. Len(log) /\ HoldsLog(f, log, flushed)
      BY <2>2, OpenJournal
    <3>2. PICK g \in Survivors(f) : file' = [file EXCEPT ![path] = g]
      BY <2>2, <3>1 DEF Crash
    <3>3. /\ g \in File /\ HoldsLog(g, log, flushed)
          /\ f.header.found => g.header = f.header
          /\ ~f.header.found => ~g.header.found \/ g.header.epoch = 0
      BY <3>1, <3>2, Survivor
    <3>4. file' \in [Files -> File] /\ file'[path] = g
      BY <1>1, <3>2, <3>3 DEF IInv, JournalTypes
    <3>5. lastEpoch = IF f.header.found THEN f.header.epoch ELSE 0
      BY <1>1 DEF IInv, Epochs
    <3> HIDE DEF f
    <3> QED
      BY <3>3, <3>4, <3>5
  <2> QED
    BY <2>1, <2>2
<1>3. JournalTypes'
  <2>1. /\ pc' = [pc EXCEPT ![r] = "down"] /\ handle' = [handle EXCEPT ![r] = NoFile]
        /\ live' = [live EXCEPT ![r] = {}] /\ temp' = [temp EXCEPT ![r] = NoFile]
        /\ todo' = [todo EXCEPT ![r] = {}]
    BY DEF Crash
  <2> QED
    BY <1>1, <1>2, <2>1 DEF IInv, JournalTypes
<1>4. FilesInUse'
  BY <1>1 DEF IInv, FilesInUse
<1>5. Contents'
  BY <1>1, <1>2 DEF Contents
<1>6. Epochs'
  BY <1>1, <1>2 DEF Epochs
<1> QED
  BY <1>3, <1>4, <1>5, <1>6 DEF IInv

\* Journal::open of a missing file.
LEMMA OpensFresh ==
  ASSUME IInv, OneRuntime, NEW r \in Runtimes, OpenFresh(r)
  PROVE  IInv'
<1>1. PICK i \in Unused : /\ path' = i /\ file' = [file EXCEPT ![i] = EmptyFile]
                          /\ handle' = [handle EXCEPT ![r] = i]
  BY DEF OpenFresh
<1>2. /\ i \in Files /\ i # NoFile
      /\ EmptyFile \in File /\ HoldsLog(EmptyFile, <<>>, 0) /\ Complete(EmptyFile, <<>>)
  BY EmptyHolds, JournalAssumption DEF Unused
<1>3. /\ \A s \in Runtimes : s = r
      /\ log = <<>> /\ lastEpoch = 0 /\ flushed = 0 /\ temp[r] = NoFile /\ todo[r] = {}
      /\ pc' = [pc EXCEPT ![r] = "opening"] /\ epoch' = [epoch EXCEPT ![r] = 1]
      /\ live' = [live EXCEPT ![r] = {}]
      /\ UNCHANGED <<todo, temp, log, flushed, lastEpoch>>
  <2>1. log = <<>> /\ Len(<<>>) = 0 /\ flushed \in 0 .. Len(log)
    BY DEF OpenFresh, IInv, JournalTypes, FilesInUse
  <2> QED
    BY <2>1 DEF OneRuntime, OpenFresh, IInv, FilesInUse
<1>4. JournalTypes'
  BY <1>1, <1>2, <1>3 DEF IInv, JournalTypes
<1>5. /\ pc'[r] = "opening" /\ handle'[r] = i /\ live'[r] = {} /\ epoch'[r] = 1
      /\ file'[path'] = EmptyFile
  BY <1>1, <1>2, <1>3 DEF IInv, JournalTypes
<1>6. FilesInUse'
  BY <1>1, <1>2, <1>3, <1>5 DEF FilesInUse
<1>7. Contents'
  <2>1. Elements(<<>>) = {}
    BY DEF Elements
  <2> QED
    BY <1>2, <1>3, <1>5, <2>1 DEF Contents
<1>8. Epochs'
  <2>1. ~EmptyFile.header.found
    BY DEF EmptyFile, NoHeader
  <2> QED
    BY <1>3, <1>5, <2>1 DEF Epochs
<1> QED
  BY <1>4, <1>6, <1>7, <1>8 DEF IInv

\* Journal::open of an existing file and the recovery from it.
LEMMA OpensExisting ==
  ASSUME IInv, OneRuntime, NEW r \in Runtimes, OpenExisting(r)
  PROVE  IInv'
<1> DEFINE f == file[path]
<1>1. /\ path \in Files /\ path # NoFile /\ f \in File /\ log \in Seq(Observations)
      /\ flushed \in 0 .. Len(log) /\ HoldsLog(f, log, flushed)
      /\ \A i, j \in 1 .. Len(log) : log[i] = log[j] => i = j
      /\ f.header.found /\ lastEpoch = f.header.epoch /\ lastEpoch \in Nat
  BY DEF OpenExisting, IInv, JournalTypes, Contents, Epochs
<1>2. PICK out \in ReadAll(f) :
        /\ out.ok /\ live' = [live EXCEPT ![r] = out.obs]
        /\ log' = SubSeq(log, 1, Cardinality(out.obs))
        /\ flushed' = IF flushed < Cardinality(out.obs) THEN flushed ELSE Cardinality(out.obs)
  BY DEF OpenExisting
<1>3. PICK n \in 0 .. Len(log) :
        /\ out.obs = First(log, n) /\ Cardinality(out.obs) = n
        /\ HoldsLog(f, SubSeq(log, 1, n), IF flushed < n THEN flushed ELSE n)
        /\ Complete(f, SubSeq(log, 1, n))
  BY <1>1, <1>2, Reopen
<1>4. /\ log' \in Seq(Observations) /\ Len(log') = n /\ \A i \in 1 .. n : log'[i] = log[i]
      /\ Elements(log') = out.obs
  BY <1>1, <1>2, <1>3, FirstOf
<1>5. HoldsLog(f, log', flushed') /\ Complete(f, log')
  BY <1>2, <1>3
<1>6. Len(log) \in Nat /\ n \in Nat /\ flushed' \in 0 .. n
  BY <1>1, <1>2, <1>3, LenProperties
<1>7. /\ \A s \in Runtimes : s = r
      /\ temp[r] = NoFile /\ todo[r] = {}
      /\ pc' = [pc EXCEPT ![r] = "opening"] /\ handle' = [handle EXCEPT ![r] = path]
      /\ epoch' = [epoch EXCEPT ![r] = f.header.epoch + 1]
      /\ UNCHANGED <<path, file, todo, temp, lastEpoch>>
  BY DEF OneRuntime, OpenExisting, IInv, FilesInUse
<1> HIDE DEF f
<1>8. JournalTypes'
  <2>1. out.obs \in SUBSET Observations
    BY <1>4 DEF Elements
  <2>2. \A i, j \in 1 .. Len(log') : log'[i] = log'[j] => i = j
    BY <1>1, <1>4, <1>6
  <2>3. epoch' \in [Runtimes -> Nat]
    BY <1>1, <1>7 DEF IInv, JournalTypes
  <2> QED
    BY <1>1, <1>2, <1>4, <1>6, <1>7, <2>1, <2>2, <2>3 DEF IInv, JournalTypes
<1>9. /\ pc'[r] = "opening" /\ handle'[r] = path /\ live'[r] = out.obs
      /\ epoch'[r] = lastEpoch + 1
  BY <1>1, <1>2, <1>7 DEF IInv, JournalTypes
<1>10. FilesInUse'
  BY <1>1, <1>7, <1>9 DEF FilesInUse
<1>11. Contents'
  BY <1>4, <1>5, <1>7, <1>9 DEF Contents, f
<1>12. Epochs'
  BY <1>1, <1>7, <1>9 DEF Epochs, f
<1> QED
  BY <1>8, <1>10, <1>11, <1>12 DEF IInv

\* Journal::rewrite up to the rename.
LEMMA Compacts ==
  ASSUME IInv, OneRuntime, NEW r \in Runtimes, CompactWrites(r)
  PROVE  IInv'
<1>1. PICK n \in {k \in 1 .. MaxSnapshot : 2 * k <= MaxBytes}, i \in Unused :
        /\ file' = [file EXCEPT ![i] = [header |-> Header(epoch[r]),
                                        cells  |-> <<SnapCell(live[r], n)>>, synced |-> 1]]
        /\ temp' = [temp EXCEPT ![r] = i]
  BY DEF CompactWrites
<1> DEFINE g == [header |-> Header(epoch[r]), cells |-> <<SnapCell(live[r], n)>>, synced |-> 1]
<1>2. /\ \A s \in Runtimes : s = r
      /\ pc[r] = "compacting" /\ pc' = [pc EXCEPT ![r] = "replacing"]
      /\ path # NoFile /\ path \in Files /\ i \in Files /\ i # path /\ i # NoFile
      /\ UNCHANGED <<path, handle, epoch, live, todo, log, flushed, lastEpoch>>
  BY JournalAssumption DEF OneRuntime, CompactWrites, Unused, IInv, JournalTypes, FilesInUse
<1>3. g \in File
  <2>1. SnapCell(live[r], n) \in Cell
    BY DEF SnapCell, Cell, IInv, JournalTypes
  <2>2. Header(epoch[r]) \in [found : BOOLEAN, epoch : Nat]
    BY DEF Header, IInv, JournalTypes
  <2>3. <<SnapCell(live[r], n)>> \in Seq(Cell)
    BY <2>1
  <2> QED
    BY <2>2, <2>3 DEF File
<1>4. /\ g.header = Header(epoch[r]) /\ Len(g.cells) = 1 /\ g.synced = 1
      /\ g.cells[1].kind = "snapshot" /\ g.cells[1].holds = live[r]
  BY DEF SnapCell
<1>5. file' = [file EXCEPT ![i] = g]
  BY <1>1
<1> HIDE DEF g
<1>6. /\ file' \in [Files -> File] /\ file'[i] = g /\ file'[path] = file[path]
      /\ pc'[r] = "replacing" /\ temp'[r] = i
  BY <1>1, <1>2, <1>3, <1>5 DEF IInv, JournalTypes
<1>7. JournalTypes'
  BY <1>1, <1>2, <1>6 DEF IInv, JournalTypes
<1>8. FilesInUse'
  BY <1>2, <1>6 DEF IInv, FilesInUse
<1>9. Contents'
  BY <1>2, <1>4, <1>6 DEF IInv, Contents
<1>10. Epochs'
  BY <1>2, <1>6 DEF IInv, Epochs
<1> QED
  BY <1>7, <1>8, <1>9, <1>10 DEF IInv

\* The rename.
LEMMA Replaces ==
  ASSUME IInv, OneRuntime, NEW r \in Runtimes, CompactReplaces(r)
  PROVE  IInv'
<1> DEFINE g == file[temp[r]]
<1>1. /\ \A s \in Runtimes : s = r
      /\ pc[r] = "replacing" /\ path \in Files /\ path # NoFile
      /\ temp[r] \in Files /\ temp[r] # NoFile /\ temp[r] # path
      /\ log \in Seq(Observations) /\ live[r] = Elements(log)
      /\ epoch[r] = lastEpoch /\ todo[r] \cap Elements(log) = {}
      /\ g \in File /\ g.header = Header(epoch[r])
      /\ Len(g.cells) = 1 /\ g.synced = 1
      /\ g.cells[1].kind = "snapshot" /\ g.cells[1].holds = live[r]
  BY DEF OneRuntime, CompactReplaces, IInv, JournalTypes, FilesInUse, Contents, Epochs
<1>2. /\ path' = temp[r] /\ file' = [file EXCEPT ![path] = Unlinked(r, path)]
      /\ handle' = [handle EXCEPT ![r] = temp[r]] /\ temp' = [temp EXCEPT ![r] = NoFile]
      /\ flushed' = Len(log)
      /\ pc' = [pc EXCEPT ![r] = IF todo[r] = {} THEN "up" ELSE "retry"]
      /\ UNCHANGED <<epoch, live, todo, log, lastEpoch>>
  BY DEF CompactReplaces
<1>3. Unlinked(r, path) \in File
  BY <1>1, EmptyHolds DEF Unlinked, IInv, JournalTypes
<1>4. Len(log) \in 0 .. Len(log) /\ live[r] = First(log, Len(log))
  BY <1>1, LenProperties DEF Elements, First
<1>5. HoldsLog(g, log, Len(log)) /\ Complete(g, log)
  BY <1>1, <1>4, SnapshotHolds
<1>6. /\ file' \in [Files -> File] /\ file'[path'] = g
      /\ handle'[r] = path' /\ temp'[r] = NoFile
      /\ pc'[r] = IF todo[r] = {} THEN "up" ELSE "retry"
  BY <1>1, <1>2, <1>3 DEF IInv, JournalTypes
<1> HIDE DEF g
<1>7. JournalTypes'
  BY <1>1, <1>2, <1>4, <1>6 DEF IInv, JournalTypes
<1>8. FilesInUse'
  BY <1>1, <1>2, <1>6 DEF FilesInUse
<1>9. Contents'
  BY <1>1, <1>2, <1>5, <1>6 DEF Contents
<1>10. Epochs'
  BY <1>1, <1>2, <1>6 DEF Epochs, Header
<1> QED
  BY <1>7, <1>8, <1>9, <1>10 DEF IInv

\* A rename that fails.
LEMMA FailingReplace ==
  ASSUME IInv, OneRuntime, NEW r \in Runtimes, ReplaceFails(r)
  PROVE  IInv'
<1> DEFINE f == file[path]
<1>1. /\ \A s \in Runtimes : s = r
      /\ pc[r] = "replacing" /\ path \in Files /\ path # NoFile
      /\ f \in File /\ log \in Seq(Observations) /\ live[r] = Elements(log)
      /\ flushed \in 0 .. Len(log)
      /\ HoldsLog(f, log, flushed) /\ Complete(f, log)
      /\ handle[r] # NoFile => handle[r] = path
  BY DEF OneRuntime, ReplaceFails, IInv, JournalTypes, FilesInUse, Contents
<1>2. /\ file' = [i \in Files |-> IF i = handle[r]
                                 THEN [file[i] EXCEPT !.synced = Len(file[i].cells)] ELSE file[i]]
      /\ handle' = [handle EXCEPT ![r] = NoFile] /\ temp' = [temp EXCEPT ![r] = NoFile]
      /\ todo' = [todo EXCEPT ![r] = {}] /\ pc' = [pc EXCEPT ![r] = "up"]
      /\ UNCHANGED <<path, epoch, live, log, flushed, lastEpoch>>
  BY DEF ReplaceFails
<1> DEFINE g == [f EXCEPT !.synced = Len(f.cells)]
<1>3. g \in File /\ g.cells = f.cells /\ g.synced = Len(f.cells) /\ g.header = f.header
  BY <1>1, LenProperties DEF File
<1>4. file'[path] = IF handle[r] = path THEN g ELSE f
  BY <1>1, <1>2
<1> HIDE DEF f, g
<1>5. HoldsLog(g, log, flushed) /\ Complete(g, log)
  BY <1>1, <1>3, FlushKeeps
<1>6. ASSUME NEW i \in Files PROVE file'[i] \in File
  <2>1. CASE i = handle[r]
    <3>1. i = path
      BY <1>1, <2>1, JournalAssumption
    <3> QED
      BY <1>3, <1>4, <2>1, <3>1
  <2>2. CASE i # handle[r]
    BY <1>2, <2>2 DEF IInv, JournalTypes
  <2> QED
    BY <2>1, <2>2
<1>7. file' \in [Files -> File]
  BY <1>2, <1>6
<1>8. HoldsLog(file'[path], log, flushed) /\ Complete(file'[path], log)
      /\ file'[path].header = f.header
  BY <1>1, <1>3, <1>4, <1>5
<1>9. JournalTypes'
  BY <1>2, <1>7 DEF IInv, JournalTypes
<1>10. pc'[r] = "up" /\ handle'[r] = NoFile /\ temp'[r] = NoFile /\ todo'[r] = {}
  BY <1>2 DEF IInv, JournalTypes
<1>11. FilesInUse'
  BY <1>1, <1>2, <1>10 DEF FilesInUse
<1>12. Contents'
  BY <1>1, <1>2, <1>8, <1>10 DEF Contents
<1>13. Epochs'
  BY <1>1, <1>2, <1>8, <1>10 DEF IInv, Epochs, f
<1> QED
  BY <1>9, <1>11, <1>12, <1>13 DEF IInv

-----------------------------------------------------------------------------
\* Every step preserves the invariant.
LEMMA IInvStep ==
  ASSUME OneRuntime, IInv, [Next]_vars
  PROVE  IInv'
<1>1. CASE UNCHANGED vars
  BY <1>1 DEF vars, IInv, JournalTypes, FilesInUse, Contents, Epochs
<1>2. CASE Next
  <2>1. PICK r \in Runtimes :
          \/ OpenFresh(r) \/ OpenExisting(r) \/ OpenFlushes(r)
          \/ \E o \in Observations : AppendRecord(r, o) \/ AppendFails(r, o) \/ AppendIsFull(r, o)
          \/ AppendRetries(r) \/ Flush(r) \/ Close(r)
          \/ CompactBegins(r) \/ CompactTooBig(r) \/ CompactWrites(r)
          \/ CompactReplaces(r) \/ ReplaceFails(r)
          \/ Crash(r)
    BY <1>2 DEF Next
  <2>2. CASE OpenFresh(r)
    BY <2>2, OpensFresh
  <2>3. CASE OpenExisting(r)
    BY <2>3, OpensExisting
  <2>4. CASE OpenFlushes(r) \/ Flush(r)
    BY <2>4, Flushes
  <2>5. CASE AppendRetries(r) \/ \E o \in Observations : AppendRecord(r, o)
    BY <2>5, Appends
  <2>6. CASE \E o \in Observations : AppendFails(r, o)
    BY <2>6, FailingAppend
  <2>7. CASE \/ CompactBegins(r) \/ CompactTooBig(r)
             \/ \E o \in Observations : AppendIsFull(r, o)
    BY <2>7, MovesOnly
  <2>8. CASE Close(r)
    BY <2>8, Closes
  <2>9. CASE CompactWrites(r)
    BY <2>9, Compacts
  <2>10. CASE CompactReplaces(r)
    BY <2>10, Replaces
  <2>11. CASE ReplaceFails(r)
    BY <2>11, FailingReplace
  <2>12. CASE Crash(r)
    BY <2>12, Crashes
  <2> QED
    BY <2>1, <2>2, <2>3, <2>4, <2>5, <2>6, <2>7, <2>8, <2>9, <2>10, <2>11, <2>12
<1> QED
  BY <1>1, <1>2

\* The invariant holds in every reachable state.
THEOREM JournalInvariant ==
  ASSUME OneRuntime PROVE Spec => []IInv
<1>1. Init => IInv
  BY IInvInit
<1>2. IInv /\ [Next]_vars => IInv'
  BY IInvStep
<1> QED
  BY <1>1, <1>2, PTL DEF Spec

\* read_all and replay_records: whatever crashed, failed or was compacted, a
\* recovery that is not refused restores the appended observations in order
\* up to some point.
THEOREM RecoveryRestoresPrefix ==
  ASSUME OneRuntime PROVE Spec => []RecoveryIsPrefix
<1>1. ASSUME IInv PROVE RecoveryIsPrefix
  <2> SUFFICES ASSUME path # NoFile, NEW out \in ReadAll(file[path]), out.ok
               PROVE  \E n \in 0 .. Len(log) : out.obs = FirstLogged(n)
    BY DEF RecoveryIsPrefix
  <2>1. /\ file[path] \in File /\ log \in Seq(Observations) /\ flushed \in 0 .. Len(log)
        /\ \A i, j \in 1 .. Len(log) : log[i] = log[j] => i = j
        /\ HoldsLog(file[path], log, flushed)
    BY <1>1 DEF IInv, JournalTypes, Contents
  <2>2. PICK n \in 0 .. Len(log) : out.obs = First(log, n)
    BY <2>1, Reopen
  <2>3. FirstLogged(n) = First(log, n)
    BY <2>1, FirstOf DEF FirstLogged
  <2> QED
    BY <2>2, <2>3
<1> QED
  BY <1>1, JournalInvariant, PTL

\* Journal::flush, the synced file of a compaction and the crash: as long as
\* no record was written behind a fragment, everything flushed is recovered.
THEOREM FlushedDataIsRecovered ==
  ASSUME OneRuntime PROVE Spec => []FlushedIsRecovered
<1>1. ASSUME IInv PROVE FlushedIsRecovered
  <2> SUFFICES ASSUME path # NoFile, ~Buried(file[path]),
                      NEW out \in ReadAll(file[path]), out.ok
               PROVE  FirstLogged(flushed) \subseteq out.obs
    BY DEF FlushedIsRecovered
  <2> DEFINE f == file[path]
  <2>1. /\ f \in File /\ log \in Seq(Observations) /\ flushed \in 0 .. Len(log)
        /\ HoldsLog(f, log, flushed)
    BY <1>1 DEF IInv, JournalTypes, Contents
  <2>2. /\ Len(f.cells) \in Nat /\ f.synced \in Nat /\ f.synced <= Len(f.cells)
    BY <2>1, LenProperties DEF File, HoldsLog
  <2>3. Whole(f.cells, Len(f.cells) - 1)
    BY <2>2 DEF Buried, Fragments, Whole
  <2>4. out.obs = Holds(f.cells, Len(f.cells))
    BY <2>1, <2>3, ReadsLongestPart DEF HoldsLog
  <2>5. Whole(f.cells, f.synced - 1)
    <3>1. /\ f.synced - 1 \in Int /\ Len(f.cells) - 1 \in Int
          /\ f.synced - 1 <= Len(f.cells) - 1
      BY <2>2
    <3> QED
      BY <2>3, <3>1, HoldsGrows
  <2>6. First(log, flushed) \subseteq Holds(f.cells, f.synced)
    BY <2>1, <2>5 DEF HoldsLog
  <2>7. Holds(f.cells, f.synced) \subseteq Holds(f.cells, Len(f.cells))
    BY <2>2, HoldsGrows
  <2>8. FirstLogged(flushed) = First(log, flushed)
    BY <2>1, FirstOf DEF FirstLogged
  <2> QED
    BY <2>4, <2>6, <2>7, <2>8
<1> QED
  BY <1>1, JournalInvariant, PTL

\* append_observation_locked and compact: while a runtime is up and no write
\* was torn, the journal at the path holds exactly what the runtime accepted.
THEOREM JournalMatchesRuntime ==
  ASSUME OneRuntime PROVE Spec => []JournalHoldsLive
<1>1. ASSUME IInv PROVE JournalHoldsLive
  <2> SUFFICES ASSUME NEW r \in Runtimes, handle[r] # NoFile, Fragments(file[handle[r]]) = {}
               PROVE  handle[r] = path /\ Replay(file[path].cells) = live[r]
    BY DEF JournalHoldsLive
  <2> DEFINE f == file[path]
  <2>1. /\ handle[r] = path /\ f \in File /\ log \in Seq(Observations)
        /\ HoldsLog(f, log, flushed) /\ Complete(f, log) /\ live[r] = Elements(log)
    BY <1>1, OpenJournal
  <2>2. Len(f.cells) \in Nat
    BY <2>1, LenProperties DEF File
  <2>3. Whole(f.cells, Len(f.cells) - 1)
    BY <2>1, <2>2 DEF Fragments, Whole
  <2>4. Holds(f.cells, Len(f.cells)) = Elements(log)
    BY <2>1, <2>3 DEF Complete, Elements, First
  <2>5. \A j \in 2 .. Len(f.cells) : f.cells[j].kind # "snapshot"
    BY <2>1, <2>2 DEF HoldsLog
  <2>6. Replay(f.cells) = Holds(f.cells, Len(f.cells))
    BY <2>2, <2>5, ReplayHolds
  <2> QED
    BY <2>1, <2>4, <2>6
<1> QED
  BY <1>1, JournalInvariant, PTL

\* Journal::open and Journal::flush: an open that completes has a higher epoch
\* than every open before it, through crashes before the header is written
\* and through compactions.
THEOREM EpochsGrow ==
  ASSUME OneRuntime PROVE Spec => EpochsIncrease
<1>1. IInv => \A r \in Runtimes : pc[r] = "opening" /\ pc'[r] = "up" => epoch[r] > lastEpoch
  BY DEF IInv, Epochs
<1> QED
  BY <1>1, JournalInvariant, PTL DEF EpochsIncrease
=============================================================================
