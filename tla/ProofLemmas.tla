---------------------------- MODULE ProofLemmas ----------------------------
(***************************************************************************)
(* Facts about numbers and finite sets that several proofs need. Induction *)
(* takes the form of the least counterexample: a set of naturals that is   *)
(* not empty has a least element, and a family of finite sets a minimal    *)
(* one. SubsetInduction states the principle with a set of subsets where   *)
(* the library has an operator, UpTo that over an interval.                *)
(***************************************************************************)
EXTENDS Naturals, Functions, Folds, FiniteSetsExt, FiniteSetTheorems, WellFoundedInduction, TLAPS

\* A set of numbers that is not empty has a least one.
LEMMA LeastNumber ==
  ASSUME NEW T \in SUBSET Nat, T # {}
  PROVE  \E x \in T : \A y \in T : x <= y
<1> DEFINE Less == {ss \in Nat \X Nat : ss[1] < ss[2]}
<1>1. IsWellFoundedOn(Less, Nat)
  BY NatLessThanWellFounded DEF OpToRel
<1> HIDE DEF Less
<1>2. PICK x \in T : \A y \in T : <<y, x>> \notin Less
  BY <1>1, WFMin
<1>3. \A y \in T : ~(y < x)
  BY <1>2 DEF Less
<1> QED
  BY <1>3

\* Induction over the numbers from a to b: Good is any set.
LEMMA UpTo ==
  ASSUME NEW a \in Nat, NEW b \in Nat, NEW Good, a \in Good,
         \A i \in a .. b : i # b /\ i \in Good => i + 1 \in Good
  PROVE  \A i \in a .. b : i \in Good
<1> DEFINE Wrong == {i \in a .. b : i \notin Good}
<1> SUFFICES ASSUME Wrong # {} PROVE FALSE
  OBVIOUS
<1>1. Wrong \in SUBSET Nat
  OBVIOUS
<1>2. PICK x \in Wrong : \A y \in Wrong : x <= y
  <2> HIDE DEF Wrong
  <2> QED BY <1>1, LeastNumber
<1>3. x \in a .. b /\ x # a /\ x \in Nat
  OBVIOUS
<1>4. x - 1 \in a .. b /\ x - 1 # b /\ (x - 1) + 1 = x
  BY <1>3
<1>5. x - 1 \in Good
  BY <1>2, <1>3, <1>4
<1> QED
  BY <1>4, <1>5

\* A finite set of numbers that is not empty has a greatest one.
LEMMA GreatestNumber ==
  ASSUME NEW T \in SUBSET Nat, T # {}, IsFiniteSet(T)
  PROVE  \E x \in T : \A y \in T : y <= x
<1>1. PICK n \in Nat : ExistsSurjection(1 .. n, T)
  BY FS_NatSurjection
<1>2. PICK f \in Surjection(1 .. n, T) : TRUE
  BY <1>1 DEF ExistsSurjection
<1>3. f \in [1 .. n -> T] /\ \A x \in T : \E i \in 1 .. n : f[i] = x
  BY DEF Surjection
<1>0. (\A x \in T : x \in Nat) /\ (\A i \in 1 .. n : f[i] \in Nat)
  BY <1>3
<1> DEFINE Bounded(k) == \E b \in Nat : \A i \in 1 .. k : f[i] <= b
           Wrong == {k \in 0 .. n : ~Bounded(k)}
<1>4. Bounded(n)
  <2> SUFFICES ASSUME ~Bounded(n) PROVE FALSE
    OBVIOUS
  <2>1. Wrong \in SUBSET Nat /\ n \in Wrong
    BY <1>1
  <2> HIDE DEF Wrong
  <2>2. PICK k \in Wrong : \A j \in Wrong : k <= j
    BY <2>1, LeastNumber
  <2> USE DEF Wrong
  <2>3. k \in 0 .. n /\ ~Bounded(k) /\ k # 0
    OBVIOUS
  <2>4. k - 1 \in 0 .. n /\ ~(k <= k - 1)
    BY <2>3
  <2>5. PICK b \in Nat : \A i \in 1 .. (k - 1) : f[i] <= b
    BY <2>2, <2>4
  <2>6. f[k] \in Nat
    BY <1>0, <1>1, <2>3
  <2> HIDE DEF Wrong, Bounded
  <2> DEFINE c == IF b < f[k] THEN f[k] ELSE b
  <2>7. c \in Nat /\ \A i \in 1 .. k : i \in 1 .. (k - 1) \/ i = k
    BY <2>3, <2>6
  <2>8. b <= c /\ f[k] <= c
    BY <2>6
  <2> HIDE DEF c
  <2>9. ASSUME NEW i \in 1 .. k PROVE f[i] <= c
    <3>1. CASE i = k
      BY <2>8, <3>1
    <3>2. CASE i \in 1 .. (k - 1)
      <4>1. f[i] <= b /\ f[i] \in Nat
        BY <1>0, <1>1, <2>3, <2>5, <3>2
      <4> QED
        BY <2>7, <2>8, <4>1
    <3> QED
      BY <2>7, <3>1, <3>2
  <2> QED
    BY <2>3, <2>7, <2>9 DEF Bounded
<1>5. PICK b \in Nat : \A x \in T : x <= b
  BY <1>3, <1>4
<1> DEFINE Gaps == {b - x : x \in T}
<1>6. Gaps \in SUBSET Nat /\ Gaps # {}
  <2>1. \A x \in T : b - x \in Nat
    BY <1>0, <1>5
  <2>2. Gaps \subseteq Nat
    BY <2>1
  <2>3. PICK x \in T : TRUE
    BY <1>0
  <2>4. b - x \in Gaps
    OBVIOUS
  <2> QED
    BY <2>2, <2>4
<1>7. PICK g \in Gaps : \A h \in Gaps : g <= h
  <2> HIDE DEF Gaps
  <2> QED BY <1>6, LeastNumber
<1>8. PICK x \in T : g = b - x
  OBVIOUS
<1>9. \A y \in T : b - x <= b - y
  BY <1>7, <1>8
<1> QED
  BY <1>0, <1>5, <1>9

\* The image of a finite set.
LEMMA ImageIsFinite ==
  ASSUME NEW D, IsFiniteSet(D), NEW f
  PROVE  IsFiniteSet({f[x] : x \in D})
<1> DEFINE image == {f[x] : x \in D}
           g == [x \in D |-> f[x]]
<1>1. g \in Surjection(D, image)
  BY DEF Surjection
<1> HIDE DEF image, g
<1>2. IsFiniteSet(image)
  BY <1>1, FS_Surjection
<1> QED
  BY <1>2 DEF image

\* Induction over the subsets of a finite set: of some of them, one is minimal.
LEMMA MinimalSubset ==
  ASSUME NEW S, IsFiniteSet(S), NEW W \in SUBSET (SUBSET S), W # {}
  PROVE  \E s \in W : \A t \in W : t \subseteq s => t = s
<1> DEFINE Sizes == {Cardinality(s) : s \in W}
<1>1. \A s \in W : IsFiniteSet(s) /\ Cardinality(s) \in Nat
  BY FS_Subset, FS_CardinalityType
<1>2. Sizes \in SUBSET Nat /\ Sizes # {}
  BY <1>1
<1>3. PICK k \in Sizes : \A j \in Sizes : k <= j
  <2> HIDE DEF Sizes
  <2> QED
    BY <1>2, LeastNumber
<1>4. PICK s \in W : k = Cardinality(s)
  OBVIOUS
<1>5. ASSUME NEW t \in W, t \subseteq s PROVE t = s
  <2>1. Cardinality(t) <= Cardinality(s) /\ (Cardinality(s) = Cardinality(t) => s = t)
    BY <1>1, <1>5, FS_Subset
  <2>2. Cardinality(s) <= Cardinality(t)
    BY <1>3, <1>4
  <2> QED
    BY <1>1, <2>1, <2>2
<1> QED
  BY <1>5

\* The same as a principle of induction: Good is any set of subsets of S.
LEMMA SubsetInduction ==
  ASSUME NEW S, IsFiniteSet(S), NEW Good,
         \A s \in SUBSET S : (\A x \in s : s \ {x} \in Good) => s \in Good
  PROVE  \A s \in SUBSET S : s \in Good
<1> DEFINE W == {s \in SUBSET S : s \notin Good}
<1> SUFFICES ASSUME W # {} PROVE FALSE
  OBVIOUS
<1>1. W \in SUBSET (SUBSET S)
  OBVIOUS
<1>2. PICK s \in W : \A t \in W : t \subseteq s => t = s
  <2> HIDE DEF W
  <2> QED
    BY <1>1, MinimalSubset
<1>3. s \in SUBSET S /\ s \notin Good
  OBVIOUS
<1>4. \A x \in s : s \ {x} \notin W
  BY <1>2
<1> QED
  BY <1>3, <1>4

\* The last of some elements that are in a strict order.
LEMMA LastInOrder ==
  ASSUME NEW S, IsFiniteSet(S), NEW R,
         \A x, y, z \in S : <<x, y>> \in R /\ <<y, z>> \in R => <<x, z>> \in R,
         \A x, y \in S : x # y => <<x, y>> \in R \/ <<y, x>> \in R
  PROVE  \A T \in SUBSET S : T # {} => \E m \in T : \A x \in T \ {m} : <<x, m>> \in R
<1> DEFINE HasLast(T) == \E m \in T : \A x \in T \ {m} : <<x, m>> \in R
           Good == {T \in SUBSET S : T # {} => HasLast(T)}
<1>1. ASSUME NEW T \in SUBSET S, \A x \in T : T \ {x} \in Good PROVE T \in Good
  <2> SUFFICES ASSUME T # {} PROVE HasLast(T)
    OBVIOUS
  <2>1. PICK x \in T : TRUE
    OBVIOUS
  <2>2. CASE T \ {x} = {}
    BY <2>1, <2>2
  <2>3. CASE T \ {x} # {}
    <3>1. PICK m \in T \ {x} : \A y \in (T \ {x}) \ {m} : <<y, m>> \in R
      BY <1>1, <2>1, <2>3
    <3>2. CASE <<x, m>> \in R
      BY <3>1, <3>2
    <3>3. CASE <<m, x>> \in R
      <4>1. \A y \in T \ {x} : <<y, x>> \in R
        BY <3>1, <3>3
      <4> QED
        BY <4>1
    <3> QED
      BY <3>1, <3>2, <3>3
  <2> QED
    BY <2>2, <2>3
<1> HIDE DEF Good
<1>2. \A T \in SUBSET S : T \in Good
  BY <1>1, SubsetInduction
<1> QED
  BY <1>2 DEF Good

\* A sequence s of n elements, each before those it precedes.
Arranged(s, n, R) == \A i, j \in 1 .. n : i < j => <<s[i], s[j]>> \in R

\* Elements that are in a strict order can be arranged in it.
LEMMA CanBeArranged ==
  ASSUME NEW S, IsFiniteSet(S), NEW R,
         \A x, y, z \in S : <<x, y>> \in R /\ <<y, z>> \in R => <<x, z>> \in R,
         \A x, y \in S : x # y => <<x, y>> \in R \/ <<y, x>> \in R
  PROVE  \E s \in [1 .. Cardinality(S) -> S] : Arranged(s, Cardinality(S), R)
<1> DEFINE Ordered(T) == \E s \in [1 .. Cardinality(T) -> T] : Arranged(s, Cardinality(T), R)
           Good == {T \in SUBSET S : Ordered(T)}
<1>1. ASSUME NEW T \in SUBSET S, \A x \in T : T \ {x} \in Good PROVE T \in Good
  <2>1. IsFiniteSet(T) /\ Cardinality(T) \in Nat
    BY FS_Subset, FS_CardinalityType
  <2>2. CASE T = {}
    <3>1. Cardinality(T) = 0
      BY <2>2, FS_EmptySet
    <3>2. [i \in 1 .. 0 |-> 0] \in [1 .. 0 -> T] /\ Arranged([i \in 1 .. 0 |-> 0], 0, R)
      BY DEF Arranged
    <3> QED
      BY <3>1, <3>2
  <2>3. CASE T # {}
    <3>1. PICK m \in T : \A y \in T \ {m} : <<y, m>> \in R
      BY <2>3, LastInOrder
    <3> DEFINE n == Cardinality(T)
               U == T \ {m}
    <3>2. Cardinality(U) = n - 1 /\ n \in Nat
      BY <2>1, FS_RemoveElement
    <3>3. Ordered(U)
      BY <1>1
    <3>4. PICK s \in [1 .. n - 1 -> U] : Arranged(s, n - 1, R)
      BY <3>2, <3>3
    <3> DEFINE t == [i \in 1 .. n |-> IF i = n THEN m ELSE s[i]]
    <3>5. \A i \in 1 .. n : i # n => i \in 1 .. n - 1 /\ s[i] \in U
      BY <3>2, <3>4
    <3>6. t \in [1 .. n -> T]
      BY <3>5
    <3>7. Arranged(t, n, R)
      <4> SUFFICES ASSUME NEW i \in 1 .. n, NEW j \in 1 .. n, i < j PROVE <<t[i], t[j]>> \in R
        BY DEF Arranged
      <4>1. i # n /\ i \in 1 .. n - 1 /\ t[i] = s[i] /\ s[i] \in U
        BY <3>2, <3>5
      <4>2. CASE j = n
        <5>1. t[j] = m
          BY <4>2
        <5> QED
          BY <3>1, <4>1, <5>1
      <4>3. CASE j # n
        <5>1. j \in 1 .. n - 1 /\ t[j] = s[j]
          BY <4>3, <3>5
        <5> QED
          BY <4>1, <5>1, <3>4 DEF Arranged
      <4> QED
        BY <4>2, <4>3
    <3> QED
      BY <3>6, <3>7
  <2> QED
    BY <2>2, <2>3
<1> HIDE DEF Good
<1>2. \A T \in SUBSET S : T \in Good
  BY <1>1, SubsetInduction
<1>3. S \in Good
  BY <1>2
<1> QED
  BY <1>3 DEF Good

\* Such an arrangement meets every element, each once.
LEMMA ArrangedMeetsAll ==
  ASSUME NEW S, IsFiniteSet(S), NEW R, \A x \in S : <<x, x>> \notin R,
         NEW n, n = Cardinality(S), NEW s \in [1 .. n -> S], Arranged(s, n, R)
  PROVE  /\ n \in Nat
         /\ \A x \in S : \E i \in 1 .. n : s[i] = x
         /\ \A i, j \in 1 .. n : s[i] = s[j] => i = j
<1>1. n \in Nat
  BY FS_CardinalityType
<1>2. ASSUME NEW i \in 1 .. n, NEW j \in 1 .. n, s[i] = s[j] PROVE i = j
  <2>1. ~(i < j) /\ ~(j < i)
    BY <1>2 DEF Arranged
  <2> QED
    BY <2>1, <1>1
<1>3. s \in Injection(1 .. n, S)
  BY <1>2 DEF Injection, IsInjective
<1>4. Cardinality(1 .. n) = Cardinality(S)
  BY <1>1, FS_Interval
<1>5. s \in Surjection(1 .. n, S)
  BY <1>3, <1>4, FS_Injection
<1> QED
  BY <1>1, <1>2, <1>5 DEF Surjection

\* The least and the greatest number of a finite set, as the code's loops find them.
LEMMA Extremes ==
  ASSUME NEW T \in SUBSET Nat, T # {}, IsFiniteSet(T)
  PROVE  /\ Max(T) \in T /\ Min(T) \in T
         /\ \A x \in T : Min(T) <= x /\ x <= Max(T)
<1>1. \E x \in T : \A y \in T : x >= y
  BY GreatestNumber
<1>2. \E x \in T : \A y \in T : x <= y
  BY LeastNumber
<1>3. Max(T) \in T /\ \A y \in T : Max(T) >= y
  BY <1>1 DEF Max
<1>4. Min(T) \in T /\ \A y \in T : Min(T) <= y
  BY <1>2 DEF Min
<1> QED
  BY <1>3, <1>4

\* The cap of add_saturating: the smaller of a sum and the largest word.
LEMMA SmallerOfTwo ==
  ASSUME NEW a \in Nat, NEW b \in Nat
  PROVE  Min({a, b}) = IF a <= b THEN a ELSE b
<1>1. {a, b} \in SUBSET Nat /\ {a, b} # {} /\ IsFiniteSet({a, b})
  <2>1. IsFiniteSet({a})
    BY FS_Singleton
  <2>2. IsFiniteSet({a} \cup {b})
    BY ONLY <2>1, FS_AddElement
  <2>3. {a, b} = {a} \cup {b}
    OBVIOUS
  <2> QED
    BY <2>2, <2>3
<1>2. Min({a, b}) \in {a, b} /\ \A x \in {a, b} : Min({a, b}) <= x
  BY <1>1, Extremes
<1> QED
  BY <1>2

-----------------------------------------------------------------------------
(* Sums over finite sets.                                                  *)

\* The sum of f over S.
Over(f, S) == SumFunctionOnSet(f, S)

\* SumFunctionOnSet adds the elements one by one, in an order of its own.
LEMMA OverRecurs ==
  ASSUME NEW f, NEW S, IsFiniteSet(S)
  PROVE  Over(f, S) = IF S = {} THEN 0
                      ELSE f[CHOOSE x \in S : TRUE] + Over(f, S \ {CHOOSE x \in S : TRUE})
<1> DEFINE F(s) == Over(f, s)
           H(s) == CHOOSE x \in s : TRUE
           A(x, o) == f[o] + x
           Body(s) == IF s = {} THEN 0 ELSE A(F(s \ {H(s)}), H(s))
           Iter(s) == CHOOSE it : it = [u \in SUBSET s |->
                        IF u = {} THEN 0 ELSE A(it[u \ {H(u)}], H(u))]
           W == {s \in SUBSET S : F(s) # Body(s)}
<1>1. ASSUME NEW s PROVE F(s) = Iter(s)[s]
  BY Zenon DEF Over, SumFunctionOnSet, FoldFunctionOnSet, MapThenFoldSet
<1>2. ASSUME NEW u \in SUBSET S, u # {} PROVE H(u) \in u
  BY <1>2
<1> HIDE DEF F, A, H
<1> SUFFICES ASSUME W # {} PROVE FALSE
  BY DEF F, A, H
<1>3. W \in SUBSET (SUBSET S) /\ IsFiniteSet(S)
  OBVIOUS
<1>4. PICK s \in W : \A t \in W : t \subseteq s => t = s
  <2> HIDE DEF W
  <2> QED
    BY <1>3, MinimalSubset
<1>5. s \in SUBSET S /\ F(s) # Body(s)
  OBVIOUS
<1>6. ASSUME NEW u \in SUBSET s, u # s PROVE F(u) = Body(u)
  BY <1>4, <1>5, <1>6
<1> DEFINE v == [u \in SUBSET s |-> Body(u)]
<1> HIDE DEF W, Body
<1>7. ASSUME NEW u \in SUBSET s, u # {}
      PROVE  /\ u \ {H(u)} \in SUBSET s /\ u \ {H(u)} # s /\ u \ {H(u)} # u
             /\ v[u \ {H(u)}] = F(u \ {H(u)})
  <2>1. H(u) \in u
    BY <1>2, <1>5, <1>7
  <2>2. u \ {H(u)} \in SUBSET s /\ u \ {H(u)} # s /\ u \ {H(u)} # u
    BY <2>1
  <2>3. v[u \ {H(u)}] = Body(u \ {H(u)})
    BY <2>2
  <2> QED
    BY <1>6, <2>2, <2>3
<1>8. v = [u \in SUBSET s |-> IF u = {} THEN 0 ELSE A(v[u \ {H(u)}], H(u))]
  <2>1. ASSUME NEW u \in SUBSET s
        PROVE  Body(u) = IF u = {} THEN 0 ELSE A(v[u \ {H(u)}], H(u))
    BY <1>7 DEF Body
  <2> QED
    BY <2>1
<1> HIDE DEF v
<1> DEFINE it == Iter(s)
<1>9. it = [u \in SUBSET s |-> IF u = {} THEN 0 ELSE A(it[u \ {H(u)}], H(u))]
  BY <1>8, Zenon
<1> HIDE DEF it
<1> DEFINE D == {u \in SUBSET s : it[u] # v[u]}
<1>10. it[s] = v[s]
  <2> SUFFICES ASSUME D # {} PROVE FALSE
    OBVIOUS
  <2>1. D \in SUBSET (SUBSET s) /\ IsFiniteSet(s)
    BY <1>3, <1>5, FS_Subset
  <2>2. PICK u \in D : \A t \in D : t \subseteq u => t = u
    <3> HIDE DEF D
    <3> QED
      BY <2>1, MinimalSubset
  <2>3. u \in SUBSET s /\ it[u] # v[u]
    OBVIOUS
  <2>4. /\ it[u] = IF u = {} THEN 0 ELSE A(it[u \ {H(u)}], H(u))
        /\ v[u] = IF u = {} THEN 0 ELSE A(v[u \ {H(u)}], H(u))
    BY <1>8, <1>9, <2>3
  <2>5. CASE u = {}
    BY <2>3, <2>4, <2>5
  <2>6. CASE u # {}
    <3>1. u \ {H(u)} \in SUBSET s /\ u \ {H(u)} # u
      BY <1>7, <2>3, <2>6
    <3>2. it[u \ {H(u)}] = v[u \ {H(u)}]
      BY <2>2, <3>1
    <3> QED
      BY <2>3, <2>4, <2>6, <3>2
  <2> QED
    BY <2>5, <2>6
<1>11. v[s] = Body(s)
  BY DEF v
<1>12. F(s) = it[s]
  BY <1>1 DEF it
<1> QED
  BY <1>5, <1>10, <1>11, <1>12


\* The empty sum is zero.
LEMMA OverEmpty ==
  ASSUME NEW f
  PROVE  Over(f, {}) = 0
  BY FS_EmptySet, OverRecurs

\* A part of a finite set is finite.
LEMMA SubsetIsFinite ==
  ASSUME NEW S, IsFiniteSet(S), NEW s \in SUBSET S
  PROVE  IsFiniteSet(s)
  BY FS_Subset

\* A sum of numbers is a number, and any element may be taken out of it first.
LEMMA OverRemove ==
  ASSUME NEW f, NEW S, IsFiniteSet(S), \A x \in S : f[x] \in Nat
  PROVE  /\ Over(f, S) \in Nat
         /\ Over(f, {}) = 0
         /\ \A x \in S : Over(f, S) = f[x] + Over(f, S \ {x})
         /\ \A x \in S : Over(f, S \ {x}) \in Nat
<1> DEFINE Numbers == {s \in SUBSET S : Over(f, s) \in Nat}
           Orderless == {s \in SUBSET S : \A x \in s : Over(f, s) = f[x] + Over(f, s \ {x})}
           H(s) == CHOOSE x \in s : TRUE
<1>1. ASSUME NEW s \in SUBSET S, s # {}
      PROVE  H(s) \in s /\ Over(f, s) = f[H(s)] + Over(f, s \ {H(s)})
  BY <1>1, SubsetIsFinite, OverRecurs
<1>2. Over(f, {}) = 0
  BY FS_EmptySet, OverRecurs
<1> HIDE DEF H
<1>3. \A s \in SUBSET S : s \in Numbers
  <2>1. {} \in Numbers
    BY <1>2
  <2>2. ASSUME NEW s \in SUBSET S, \A x \in s : s \ {x} \in Numbers PROVE s \in Numbers
    <3>1. CASE s = {}
      BY <2>1, <3>1
    <3>2. CASE s # {}
      <4>1. H(s) \in s /\ Over(f, s) = f[H(s)] + Over(f, s \ {H(s)})
        BY <1>1, <3>2
      <4>2. f[H(s)] \in Nat /\ Over(f, s \ {H(s)}) \in Nat
        BY <2>2, <4>1
      <4> QED
        BY <4>1, <4>2
    <3> QED
      BY <3>1, <3>2
  <2> HIDE DEF Numbers
  <2> QED
    BY <2>2, SubsetInduction
<1>4. \A s \in SUBSET S : s \in Orderless
  <2>1. {} \in Orderless
    OBVIOUS
  <2>2. ASSUME NEW s \in SUBSET S, \A x \in s : s \ {x} \in Orderless PROVE s \in Orderless
    <3> SUFFICES ASSUME NEW x \in s PROVE Over(f, s) = f[x] + Over(f, s \ {x})
      OBVIOUS
    <3> DEFINE c == H(s)
    <3>1. c \in s /\ Over(f, s) = f[c] + Over(f, s \ {c})
      BY <1>1
    <3> HIDE DEF c
    <3>2. CASE x = c
      BY <3>1, <3>2
    <3>3. CASE x # c
      <4>1. Over(f, s \ {c}) = f[x] + Over(f, (s \ {c}) \ {x})
        BY <2>2, <3>1, <3>3
      <4>2. Over(f, s \ {x}) = f[c] + Over(f, (s \ {x}) \ {c})
        BY <2>2, <3>1, <3>3
      <4>3. (s \ {c}) \ {x} = (s \ {x}) \ {c} /\ (s \ {c}) \ {x} \in SUBSET S
        OBVIOUS
      <4>4. Over(f, (s \ {c}) \ {x}) \in Nat
        BY <1>3, <4>3
      <4>5. f[x] \in Nat /\ f[c] \in Nat
        BY <3>1
      <4>6. Over(f, s) = f[c] + (f[x] + Over(f, (s \ {c}) \ {x}))
        BY <3>1, <4>1
      <4>7. Over(f, s \ {x}) = f[c] + Over(f, (s \ {c}) \ {x})
        BY <4>2, <4>3
      <4> QED
        BY ONLY <4>4, <4>5, <4>6, <4>7
    <3> QED
      BY <3>2, <3>3
  <2> HIDE DEF Orderless
  <2> QED
    BY <2>2, SubsetInduction
<1>5. S \in SUBSET S /\ \A x \in S : S \ {x} \in SUBSET S
  OBVIOUS
<1>6. Over(f, S) \in Nat /\ \A x \in S : Over(f, S \ {x}) \in Nat
  BY <1>3, <1>5
<1>7. \A x \in S : Over(f, S) = f[x] + Over(f, S \ {x})
  BY <1>4, <1>5
<1> QED
  BY <1>2, <1>6, <1>7

\* Functions that agree on S have one sum over it.
LEMMA OverAgrees ==
  ASSUME NEW f, NEW g, NEW S, IsFiniteSet(S), \A x \in S : f[x] \in Nat /\ f[x] = g[x]
  PROVE  Over(f, S) = Over(g, S)
<1> DEFINE Good == {s \in SUBSET S : Over(f, s) = Over(g, s)}
<1>1. {} \in Good
  BY OverEmpty
<1>2. ASSUME NEW s \in SUBSET S, \A x \in s : s \ {x} \in Good PROVE s \in Good
  <2>1. IsFiniteSet(s)
    BY SubsetIsFinite
  <2>2. ASSUME NEW x \in s PROVE Over(f, s) = Over(g, s)
    <3>1. Over(f, s) = f[x] + Over(f, s \ {x})
      BY <2>1, OverRemove
    <3>2. Over(g, s) = g[x] + Over(g, s \ {x})
      BY <2>1, OverRemove
    <3> QED
      BY <1>2, <3>1, <3>2
  <2> QED
    BY <1>1, <2>2
<1> HIDE DEF Good
<1>3. \A s \in SUBSET S : s \in Good
  BY <1>2, SubsetInduction
<1> QED
  BY <1>3 DEF Good

\* One element changes, and the sum by as much.
LEMMA OverUpdate ==
  ASSUME NEW S, IsFiniteSet(S), NEW f, NEW g, NEW i \in S,
         \A x \in S : f[x] \in Nat /\ g[x] \in Nat,
         \A x \in S \ {i} : f[x] = g[x]
  PROVE  Over(g, S) = (Over(f, S) - f[i]) + g[i]
<1>0. (\A x \in S : f[x] \in Nat) /\ (\A x \in S : g[x] \in Nat)
  OBVIOUS
<1>1. Over(f, S) = f[i] + Over(f, S \ {i}) /\ Over(g, S) = g[i] + Over(g, S \ {i})
  <2>1. \A x \in S : Over(f, S) = f[x] + Over(f, S \ {x})
    BY ONLY <1>0, IsFiniteSet(S), OverRemove, Zenon
  <2>2. \A x \in S : Over(g, S) = g[x] + Over(g, S \ {x})
    BY ONLY <1>0, IsFiniteSet(S), OverRemove, Zenon
  <2> QED
    BY <2>1, <2>2
<1>2. Over(f, S \ {i}) = Over(g, S \ {i})
  BY SubsetIsFinite, OverAgrees
<1>3. Over(f, S \ {i}) \in Nat /\ f[i] \in Nat /\ g[i] \in Nat
  BY OverRemove
<1> QED
  BY <1>1, <1>2, <1>3

\* A sum is monotone.
LEMMA OverMonotone ==
  ASSUME NEW f, NEW g, NEW S, IsFiniteSet(S),
         \A x \in S : f[x] \in Nat /\ g[x] \in Nat /\ f[x] <= g[x]
  PROVE  Over(f, S) <= Over(g, S)
<1> DEFINE Good == {s \in SUBSET S : Over(f, s) <= Over(g, s)}
<1>1. {} \in Good
  BY OverEmpty
<1>2. ASSUME NEW s \in SUBSET S, \A x \in s : s \ {x} \in Good PROVE s \in Good
  <2>1. IsFiniteSet(s)
    BY SubsetIsFinite
  <2>2. ASSUME NEW x \in s PROVE Over(f, s) <= Over(g, s)
    <3>1. Over(f, s) = f[x] + Over(f, s \ {x}) /\ Over(f, s \ {x}) \in Nat
      <4>1. \A y \in s : f[y] \in Nat
        OBVIOUS
      <4>2. /\ \A y \in s : Over(f, s) = f[y] + Over(f, s \ {y})
            /\ \A y \in s : Over(f, s \ {y}) \in Nat
        BY <2>1, <4>1, OverRemove, Zenon
      <4> QED
        BY <4>2, Zenon
    <3>2. Over(g, s) = g[x] + Over(g, s \ {x}) /\ Over(g, s \ {x}) \in Nat
      <4>1. \A y \in s : g[y] \in Nat
        OBVIOUS
      <4>2. /\ \A y \in s : Over(g, s) = g[y] + Over(g, s \ {y})
            /\ \A y \in s : Over(g, s \ {y}) \in Nat
        BY <2>1, <4>1, OverRemove, Zenon
      <4> QED
        BY <4>2, Zenon
    <3>3. Over(f, s \ {x}) <= Over(g, s \ {x})
      BY <1>2
    <3> QED
      BY <3>1, <3>2, <3>3
  <2> QED
    BY <1>1, <2>2
<1> HIDE DEF Good
<1>3. \A s \in SUBSET S : s \in Good
  BY <1>2, SubsetInduction
<1> QED
  BY <1>3 DEF Good

\* A sum is linear.
LEMMA OverLinear ==
  ASSUME NEW f, NEW g, NEW h, NEW c \in Nat, NEW S, IsFiniteSet(S),
         \A x \in S : /\ f[x] \in Nat /\ g[x] \in Nat /\ h[x] \in Nat
                      /\ f[x] = c * g[x] + h[x]
  PROVE  Over(f, S) = c * Over(g, S) + Over(h, S)
<1> DEFINE Good == {s \in SUBSET S : Over(f, s) = c * Over(g, s) + Over(h, s)}
<1>1. {} \in Good
  BY OverEmpty
<1>2. ASSUME NEW s \in SUBSET S, \A x \in s : s \ {x} \in Good PROVE s \in Good
  <2>1. IsFiniteSet(s)
    BY SubsetIsFinite
  <2>2. ASSUME NEW x \in s PROVE Over(f, s) = c * Over(g, s) + Over(h, s)
    <3>1. Over(f, s) = f[x] + Over(f, s \ {x}) /\ Over(f, s \ {x}) \in Nat
      <4>1. \A y \in s : f[y] \in Nat
        OBVIOUS
      <4>2. /\ \A y \in s : Over(f, s) = f[y] + Over(f, s \ {y})
            /\ \A y \in s : Over(f, s \ {y}) \in Nat
        BY ONLY <2>1, <4>1, OverRemove, Zenon
      <4> QED
        BY <4>2, Zenon
    <3>2. Over(g, s) = g[x] + Over(g, s \ {x}) /\ Over(g, s \ {x}) \in Nat
      <4>1. \A y \in s : g[y] \in Nat
        OBVIOUS
      <4>2. /\ \A y \in s : Over(g, s) = g[y] + Over(g, s \ {y})
            /\ \A y \in s : Over(g, s \ {y}) \in Nat
        BY ONLY <2>1, <4>1, OverRemove, Zenon
      <4> QED
        BY <4>2, Zenon
    <3>3. Over(h, s) = h[x] + Over(h, s \ {x}) /\ Over(h, s \ {x}) \in Nat
      <4>1. \A y \in s : h[y] \in Nat
        OBVIOUS
      <4>2. /\ \A y \in s : Over(h, s) = h[y] + Over(h, s \ {y})
            /\ \A y \in s : Over(h, s \ {y}) \in Nat
        BY ONLY <2>1, <4>1, OverRemove, Zenon
      <4> QED
        BY <4>2, Zenon
    <3>4. Over(f, s \ {x}) = c * Over(g, s \ {x}) + Over(h, s \ {x})
      BY <1>2
    <3>5. \A a, b \in Nat : c * (a + b) = c * a + c * b /\ c * a \in Nat
      OBVIOUS
    <3>6. c * Over(g, s) = c * g[x] + c * Over(g, s \ {x})
      BY <3>2, <3>5
    <3>7. c * g[x] \in Nat /\ c * Over(g, s \ {x}) \in Nat
      BY <3>2, <3>5
    <3> QED
      BY <3>1, <3>3, <3>4, <3>6, <3>7
  <2> QED
    BY <1>1, <2>2
<1> HIDE DEF Good
<1>3. \A s \in SUBSET S : s \in Good
  BY <1>2, SubsetInduction
<1> QED
  BY <1>3 DEF Good

\* The sum of a sum of two functions.
LEMMA OverPlus ==
  ASSUME NEW f, NEW g, NEW h, NEW S, IsFiniteSet(S),
         \A x \in S : /\ f[x] \in Nat /\ g[x] \in Nat /\ h[x] \in Nat
                      /\ f[x] = g[x] + h[x]
  PROVE  Over(f, S) = Over(g, S) + Over(h, S)
<1> DEFINE Good == {s \in SUBSET S : Over(f, s) = Over(g, s) + Over(h, s)}
<1>1. {} \in Good
  BY OverEmpty
<1>2. ASSUME NEW s \in SUBSET S, \A x \in s : s \ {x} \in Good PROVE s \in Good
  <2>1. IsFiniteSet(s)
    BY SubsetIsFinite
  <2>2. ASSUME NEW x \in s PROVE Over(f, s) = Over(g, s) + Over(h, s)
    <3>1. Over(f, s) = f[x] + Over(f, s \ {x}) /\ Over(f, s \ {x}) \in Nat
      <4>1. \A y \in s : f[y] \in Nat
        OBVIOUS
      <4>2. /\ \A y \in s : Over(f, s) = f[y] + Over(f, s \ {y})
            /\ \A y \in s : Over(f, s \ {y}) \in Nat
        BY ONLY <2>1, <4>1, OverRemove, Zenon
      <4> QED
        BY <4>2, Zenon
    <3>2. Over(g, s) = g[x] + Over(g, s \ {x}) /\ Over(g, s \ {x}) \in Nat
      <4>1. \A y \in s : g[y] \in Nat
        OBVIOUS
      <4>2. /\ \A y \in s : Over(g, s) = g[y] + Over(g, s \ {y})
            /\ \A y \in s : Over(g, s \ {y}) \in Nat
        BY ONLY <2>1, <4>1, OverRemove, Zenon
      <4> QED
        BY <4>2, Zenon
    <3>3. Over(h, s) = h[x] + Over(h, s \ {x}) /\ Over(h, s \ {x}) \in Nat
      <4>1. \A y \in s : h[y] \in Nat
        OBVIOUS
      <4>2. /\ \A y \in s : Over(h, s) = h[y] + Over(h, s \ {y})
            /\ \A y \in s : Over(h, s \ {y}) \in Nat
        BY ONLY <2>1, <4>1, OverRemove, Zenon
      <4> QED
        BY <4>2, Zenon
    <3>4. Over(f, s \ {x}) = Over(g, s \ {x}) + Over(h, s \ {x})
      BY <1>2
    <3> QED
      BY <3>1, <3>2, <3>3, <3>4
  <2> QED
    BY <1>1, <2>2
<1> HIDE DEF Good
<1>3. \A s \in SUBSET S : s \in Good
  BY <1>2, SubsetInduction
<1> QED
  BY <1>3 DEF Good

\* Counting the elements of T is a sum.
LEMMA OverCounts ==
  ASSUME NEW S, IsFiniteSet(S), NEW T
  PROVE  /\ Over([x \in S |-> IF x \in T THEN 1 ELSE 0], S) = Cardinality(S \cap T)
         /\ IsFiniteSet(S \cap T) /\ Cardinality(S \cap T) \in Nat
<1> DEFINE f == [x \in S |-> IF x \in T THEN 1 ELSE 0]
           Good == {s \in SUBSET S : Over(f, s) = Cardinality(s \cap T)}
<1>0. \A x \in S : f[x] \in Nat /\ f[x] = IF x \in T THEN 1 ELSE 0
  OBVIOUS
<1> HIDE DEF f
<1>1. {} \in Good
  BY OverEmpty, FS_EmptySet
<1>2. ASSUME NEW s \in SUBSET S, \A x \in s : s \ {x} \in Good PROVE s \in Good
  <2>1. IsFiniteSet(s)
    BY SubsetIsFinite
  <2>2. ASSUME NEW x \in s PROVE Over(f, s) = Cardinality(s \cap T)
    <3>1. Over(f, s) = f[x] + Over(f, s \ {x})
      BY <1>0, <2>1, OverRemove
    <3>2. Over(f, s \ {x}) = Cardinality((s \ {x}) \cap T)
      BY <1>2
    <3>3. CASE x \in T
      <4>1. s \cap T = ((s \ {x}) \cap T) \cup {x} /\ x \notin (s \ {x}) \cap T
        BY <2>2, <3>3
      <4>2. IsFiniteSet((s \ {x}) \cap T)
        BY <2>1, FS_Subset
      <4>3. /\ Cardinality(s \cap T) = Cardinality((s \ {x}) \cap T) + 1
            /\ Cardinality((s \ {x}) \cap T) \in Nat
        BY <4>1, <4>2, FS_AddElement, FS_CardinalityType
      <4> QED
        BY <1>0, <3>1, <3>2, <3>3, <4>3
    <3>4. CASE x \notin T
      <4>1. s \cap T = (s \ {x}) \cap T
        BY <3>4
      <4>2. IsFiniteSet(s \cap T) /\ Cardinality(s \cap T) \in Nat
        BY <2>1, FS_Subset, FS_CardinalityType
      <4> QED
        BY <1>0, <3>1, <3>2, <3>4, <4>1, <4>2
    <3> QED
      BY <3>3, <3>4
  <2> QED
    BY <1>1, <2>2
<1> HIDE DEF Good
<1>3. \A s \in SUBSET S : s \in Good
  BY <1>2, SubsetInduction
<1>4. IsFiniteSet(S \cap T) /\ Cardinality(S \cap T) \in Nat
  BY FS_Subset, FS_CardinalityType
<1> QED
  BY <1>3, <1>4 DEF Good, f

=============================================================================
