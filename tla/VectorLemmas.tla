---------------------------- MODULE VectorLemmas ----------------------------
(***************************************************************************)
(* Facts about the operators on sequences that the other proofs cite.      *)
(* The recursive functions behind them are unfolded with one lemma on      *)
(* definition by recursion over 0 .. n; what holds for every position is   *)
(* shown by looking at the least position where it would not hold.         *)
(***************************************************************************)
EXTENDS Vectors, SequenceTheorems, WellFoundedInduction, TLAPS

(* A non-empty set of natural numbers has a least element.                 *)
LEMMA LeastElement ==
  ASSUME NEW T, T \subseteq Nat, T # {}
  PROVE  \E x \in T : \A y \in T : x <= y
<1>1. \E x \in T : \A y \in T : ~ (<< y, x >> \in OpToRel(<, Nat))
  BY NatLessThanWellFounded, WFMin, Zenon
<1>2. PICK x \in T : \A y \in T : ~ (<< y, x >> \in OpToRel(<, Nat))
  BY <1>1
<1>3. ASSUME NEW y \in T PROVE x <= y
  <2>1. ~ (<< y, x >> \in OpToRel(<, Nat))
    BY <1>2
  <2>2. x \in Nat /\ y \in Nat
    OBVIOUS
  <2>3. ~ (y < x)
    BY <2>1, <2>2 DEF OpToRel
  <2> QED BY <2>2, <2>3
<1> QED BY <1>3

(* Min(T), of the community modules, is that element.                      *)
LEMMA MinProperties ==
  ASSUME NEW T, T \subseteq Nat, T # {}
  PROVE  Min(T) \in T /\ \A y \in T : Min(T) <= y
BY LeastElement, Zenon DEF Min

(* If a property of 0 .. n, given as the set T where it holds, holds at 0  *)
(* and passes from k - 1 to k, it holds everywhere.                        *)
LEMMA UpTo ==
  ASSUME NEW n \in Nat, NEW T, 0 \in T,
         \A k \in 1 .. n : k - 1 \in T => k \in T
  PROVE  \A k \in 0 .. n : k \in T
<1> SUFFICES ASSUME NEW b \in 0 .. n, b \notin T PROVE FALSE
  OBVIOUS
<1> DEFINE Bad == { k \in 0 .. n : k \notin T }
<1>1. PICK k \in Bad : \A y \in Bad : k <= y
  <2>1. Bad \subseteq Nat /\ b \in Bad
    OBVIOUS
  <2> QED BY <2>1, LeastElement
<1>2. k \in 1 .. n
  BY <1>1
<1>3. k - 1 \in T
  BY <1>1, <1>2
<1> QED BY <1>1, <1>2, <1>3

(* Definition by recursion over 0 .. n, with values in A: step takes the   *)
(* position and the value before it.                                       *)
Steps(n, A) == [(1 .. n) \X A -> A]
IsRecursion(g, n, A, a, step) ==
  /\ g \in [0 .. n -> A]
  /\ g[0] = a
  /\ \A k \in 1 .. n : g[k] = step[<< k, g[k - 1] >>]

LEMMA RecursionExists ==
  ASSUME NEW n \in Nat, NEW A, NEW a \in A, NEW step \in Steps(n, A)
  PROVE  \E g : IsRecursion(g, n, A, a, step)
<1> USE DEF Steps
<1> DEFINE Good(m, g) == IsRecursion(g, m, A, a, step)
           T == { m \in 0 .. n : \E g : Good(m, g) }
<1>1. 0 \in T
  <2>1. Good(0, [k \in 0 .. 0 |-> a])
    BY DEF IsRecursion
  <2>2. \E g : Good(0, g)
    <3> HIDE DEF Good
    <3> QED BY <2>1
  <2> HIDE DEF Good
  <2> QED BY <2>2
<1>2. ASSUME NEW m \in 1 .. n, m - 1 \in T PROVE m \in T
  <2>1. PICK g : Good(m - 1, g)
    BY <1>2
  <2> DEFINE h == [k \in 0 .. m |-> IF k = m THEN step[<< m, g[m - 1] >>] ELSE g[k]]
  <2> USE DEF IsRecursion
  <2>2. g[m - 1] \in A
    BY <2>1
  <2>3. step[<< m, g[m - 1] >>] \in A
    BY <2>2
  <2>4. h \in [0 .. m -> A]
    <3>1. ASSUME NEW k \in 0 .. m PROVE h[k] \in A
      BY <2>1, <2>3
    <3> QED BY <3>1
  <2>5. h[0] = a
    BY <2>1
  <2>6. ASSUME NEW k \in 1 .. m PROVE h[k] = step[<< k, h[k - 1] >>]
    <3>1. CASE k = m
      <4>1. h[k - 1] = g[m - 1] /\ h[k] = step[<< m, g[m - 1] >>]
        BY <3>1
      <4> QED BY <3>1, <4>1
    <3>2. CASE k # m
      <4>1. k \in 1 .. m - 1 /\ k - 1 \in 0 .. m - 1
        BY <3>2
      <4>2. h[k] = g[k] /\ h[k - 1] = g[k - 1]
        BY <3>2
      <4>3. g[k] = step[<< k, g[k - 1] >>]
        BY <2>1, <4>1
      <4> QED BY <4>2, <4>3
    <3> QED BY <3>1, <3>2
  <2>7. Good(m, h)
    BY <2>4, <2>5, <2>6
  <2>8. \E f : Good(m, f)
    <3> HIDE DEF Good, h
    <3> QED BY <2>7
  <2> HIDE DEF Good, h
  <2> QED BY <2>8
<1>3. n \in T
  <2> HIDE DEF T
  <2> QED BY <1>1, <1>2, UpTo
<1> QED BY <1>3

(* The recursive function inside Subsequence satisfies its equation.       *)
LEMMA SubsequenceUnfolds ==
  ASSUME NEW S, NEW s \in Seq(S), NEW I
  PROVE  \E kept \in [0 .. Len(s) -> Seq(S)] :
           /\ Subsequence(s, I) = kept[Len(s)]
           /\ kept[0] = << >>
           /\ \A k \in 1 .. Len(s) :
                kept[k] = IF k \in I THEN Append(kept[k - 1], s[k]) ELSE kept[k - 1]
<1> DEFINE n == Len(s)
           A == Seq(S)
           Next(k, t) == IF k \in I THEN Append(t, s[k]) ELSE t
           step == [p \in (1 .. n) \X A |-> Next(p[1], p[2])]
           Body(f) == [k \in 0 .. n |->
                         IF k = 0 THEN << >> ELSE Next(k, f[k - 1])]
           kept == CHOOSE f : f = Body(f)
<1>1. n \in Nat /\ << >> \in A
  BY LenProperties, EmptySeq
<1>2. \A k \in 1 .. n : \A t \in A : Next(k, t) \in A
  BY ElementOfSeq, AppendProperties
<1>3. Subsequence(s, I) = kept[n]
  BY DEF Subsequence
<1> HIDE DEF n, A, Next
<1>4. step \in Steps(n, A)
  BY <1>2 DEF Steps
<1>5. PICK g \in [0 .. n -> A] :
        /\ g[0] = << >>
        /\ \A k \in 1 .. n : g[k] = step[<< k, g[k - 1] >>]
  <2> HIDE DEF step
  <2>1. PICK g : IsRecursion(g, n, A, << >>, step)
    BY <1>1, <1>4, RecursionExists
  <2> QED BY <2>1 DEF IsRecursion
<1>6. \A k \in 1 .. n : g[k] = Next(k, g[k - 1])
  <2>1. TAKE k \in 1 .. n
  <2>2. g[k - 1] \in A
    BY <1>1
  <2>3. step[<< k, g[k - 1] >>] = Next(k, g[k - 1])
    BY <2>2
  <2> QED BY <1>5, <2>3
<1>7. g = Body(g)
  <2>1. \A k \in 0 .. n : g[k] = Body(g)[k]
    BY <1>1, <1>5, <1>6
  <2>2. g = [k \in 0 .. n |-> g[k]] /\ Body(g) = [k \in 0 .. n |-> Body(g)[k]]
    OBVIOUS
  <2> HIDE DEF Body
  <2> QED BY <2>1, <2>2
<1>8. kept = Body(kept)
  <2> HIDE DEF Body
  <2> QED BY <1>7
<1> HIDE DEF kept, step
<1>9. kept = g
  <2> DEFINE T == { k \in 0 .. n : kept[k] = g[k] }
  <2>1. 0 \in T
    BY <1>1, <1>5, <1>8
  <2>2. ASSUME NEW k \in 1 .. n, k - 1 \in T PROVE k \in T
    BY <1>6, <1>8, <2>2
  <2>3. \A k \in 0 .. n : k \in T
    <3> HIDE DEF T
    <3> QED BY <1>1, <2>1, <2>2, UpTo
  <2>4. kept = [k \in 0 .. n |-> kept[k]]
    BY <1>8
  <2> QED BY <2>3, <2>4
<1>10. \A k \in 1 .. n : g[k] = IF k \in I THEN Append(g[k - 1], s[k]) ELSE g[k - 1]
  BY <1>6 DEF Next
<1> QED BY <1>3, <1>5, <1>9, <1>10 DEF n, A

(* Subsequence selects exactly the elements at the positions in I.         *)
LEMMA SubsequenceProperties ==
  ASSUME NEW S, NEW s \in Seq(S), NEW I
  PROVE  /\ Subsequence(s, I) \in Seq(S)
         /\ \A j \in 1 .. Len(Subsequence(s, I)) :
              \E i \in 1 .. Len(s) : i \in I /\ Subsequence(s, I)[j] = s[i]
         /\ \A i \in 1 .. Len(s) : i \in I =>
              \E j \in 1 .. Len(Subsequence(s, I)) : Subsequence(s, I)[j] = s[i]
<1> DEFINE n == Len(s)
<1>1. PICK kept \in [0 .. n -> Seq(S)] :
        /\ Subsequence(s, I) = kept[n]
        /\ kept[0] = << >>
        /\ \A k \in 1 .. n :
             kept[k] = IF k \in I THEN Append(kept[k - 1], s[k]) ELSE kept[k - 1]
  BY SubsequenceUnfolds
<1>2. n \in Nat /\ \A k \in 1 .. n : s[k] \in S
  BY LenProperties, ElementOfSeq
<1> DEFINE From(k) == \A j \in 1 .. Len(kept[k]) :
                        \E i \in 1 .. k : i \in I /\ kept[k][j] = s[i]
           Into(k) == \A i \in 1 .. k : i \in I =>
                        \E j \in 1 .. Len(kept[k]) : kept[k][j] = s[i]
           T == { k \in 0 .. n : From(k) /\ Into(k) }
<1> HIDE DEF n
<1>3. From(0) /\ Into(0)
  BY <1>1, EmptySeq
<1>4. ASSUME NEW k \in 1 .. n, From(k - 1), Into(k - 1) PROVE From(k) /\ Into(k)
  <2>1. k - 1 \in 0 .. n /\ kept[k - 1] \in Seq(S) /\ s[k] \in S
    BY <1>2
  <2>2. CASE k \in I
    <3> DEFINE t == kept[k - 1]
               u == kept[k]
    <3>1. /\ Len(t) \in Nat
          /\ Len(u) = Len(t) + 1
          /\ \A j \in 1 .. Len(t) : u[j] = t[j]
          /\ u[Len(t) + 1] = s[k]
      <4>1. u = Append(t, s[k]) /\ t \in Seq(S)
        BY <1>1, <2>1, <2>2
      <4> HIDE DEF t, u
      <4> QED BY <2>1, <4>1, AppendProperties, LenProperties
    <3>2. ASSUME NEW j \in 1 .. Len(u)
          PROVE  \E i \in 1 .. k : i \in I /\ u[j] = s[i]
      <4>1. CASE j \in 1 .. Len(t)
        BY <1>2, <1>4, <3>1, <4>1
      <4>2. CASE j = Len(t) + 1
        BY <1>2, <2>2, <3>1, <4>2
      <4> HIDE DEF t, u
      <4> QED BY <3>1, <4>1, <4>2
    <3>3. ASSUME NEW i \in 1 .. k, i \in I
          PROVE  \E j \in 1 .. Len(u) : u[j] = s[i]
      <4>1. CASE i \in 1 .. k - 1
        <5>1. PICK j \in 1 .. Len(t) : t[j] = s[i]
          BY <1>4, <3>3, <4>1
        <5> HIDE DEF t, u
        <5> QED BY <3>1, <5>1
      <4>2. CASE i = k
        <5> HIDE DEF t, u
        <5> QED BY <3>1, <4>2
      <4> QED BY <1>2, <4>1, <4>2
    <3> QED BY <3>2, <3>3
  <2>3. CASE k \notin I
    <3>1. kept[k] = kept[k - 1]
      BY <1>1, <2>3
    <3> DEFINE t == kept[k]
    <3>2. From(k)
      <4>1. \A j \in 1 .. Len(t) : \E i \in 1 .. k - 1 : i \in I /\ t[j] = s[i]
        BY <1>4, <3>1
      <4>2. \A i \in 1 .. k - 1 : i \in 1 .. k
        BY <1>2
      <4> HIDE DEF t
      <4>3. \A j \in 1 .. Len(t) : \E i \in 1 .. k : i \in I /\ t[j] = s[i]
        BY <4>1, <4>2
      <4> QED BY <4>3 DEF t
    <3>3. Into(k)
      <4>1. \A i \in 1 .. k - 1 : i \in I => \E j \in 1 .. Len(t) : t[j] = s[i]
        BY <1>4, <3>1
      <4>2. \A i \in 1 .. k : i \in I => i \in 1 .. k - 1
        BY <1>2, <2>3
      <4> HIDE DEF t
      <4>3. \A i \in 1 .. k : i \in I => \E j \in 1 .. Len(t) : t[j] = s[i]
        BY <4>1, <4>2
      <4> QED BY <4>3 DEF t
    <3> QED BY <3>2, <3>3
  <2> QED BY <2>2, <2>3
<1> HIDE DEF From, Into
<1>5. From(n) /\ Into(n)
  <2>1. 0 \in T /\ \A k \in 1 .. n : k - 1 \in T => k \in T
    BY <1>2, <1>3, <1>4
  <2> HIDE DEF T
  <2>2. \A k \in 0 .. n : k \in T
    BY <1>2, <2>1, UpTo
  <2>3. n \in T
    BY <1>2, <2>2
  <2> QED BY <2>3 DEF T
<1> QED BY <1>1, <1>2, <1>5 DEF n, From, Into

(* FlattenSeq, of the community modules, keeps exactly the elements of the *)
(* sequences it joins.                                                     *)
LEMMA FlattenUnfolds ==
  ASSUME NEW S, NEW ss \in Seq(Seq(S)), Len(ss) > 0
  PROVE  \E g \in [0 .. Len(ss) -> Seq(S)] :
           /\ FlattenSeq(ss) = g[Len(ss)]
           /\ g[0] = << >>
           /\ \A k \in 1 .. Len(ss) : g[k] = g[k - 1] \o ss[k]
<1> DEFINE n == Len(ss)
           A == Seq(S)
           Join(t, k) == t \o ss[k]
           step == [p \in (1 .. n) \X A |-> Join(p[2], p[1])]
           Body(f) == [i \in 1 .. n |->
                         IF i = 1 THEN ss[i] ELSE Join(f[i - 1], i)]
           flatten == CHOOSE f : f = Body(f)
<1>1. n \in Nat /\ n > 0 /\ << >> \in A /\ \A k \in 1 .. n : ss[k] \in A
  BY LenProperties, EmptySeq, ElementOfSeq
<1>2. \A k \in 1 .. n : Join(<< >>, k) = ss[k] /\ \A t \in A : Join(t, k) \in A
  BY <1>1, ConcatProperties, ConcatEmptySeq
<1>3. FlattenSeq(ss) = flatten[n]
  BY <1>1 DEF FlattenSeq
<1> DEFINE e == << >>
<1>4. e \in A /\ \A k \in 1 .. n : Join(e, k) = ss[k]
  BY <1>1, <1>2
<1> HIDE DEF n, A, Join, e
<1>5. step \in Steps(n, A)
  BY <1>2 DEF Steps
<1>6. PICK g \in [0 .. n -> A] :
        /\ g[0] = e
        /\ \A k \in 1 .. n : g[k] = step[<< k, g[k - 1] >>]
  <2> HIDE DEF step
  <2>1. PICK g : IsRecursion(g, n, A, e, step)
    BY <1>1, <1>4, <1>5, RecursionExists
  <2> QED BY <2>1 DEF IsRecursion
<1>7. \A k \in 1 .. n : g[k] = Join(g[k - 1], k)
  <2>1. TAKE k \in 1 .. n
  <2>2. g[k - 1] \in A
    BY <1>1
  <2>3. step[<< k, g[k - 1] >>] = Join(g[k - 1], k)
    BY <2>2
  <2> QED BY <1>6, <2>3
<1>8. g[1] = ss[1]
  <2>1. g[1] = Join(g[0], 1) /\ 1 \in 1 .. n
    BY <1>1, <1>7
  <2> QED BY <1>4, <1>6, <2>1
<1> DEFINE r == [i \in 1 .. n |-> g[i]]
<1>9. r = Body(r)
  <2>1. \A k \in 1 .. n : r[k] = Body(r)[k]
    BY <1>1, <1>7, <1>8
  <2>2. r = [k \in 1 .. n |-> r[k]] /\ Body(r) = [k \in 1 .. n |-> Body(r)[k]]
    OBVIOUS
  <2> HIDE DEF Body, r
  <2> QED BY <2>1, <2>2
<1>10. flatten = Body(flatten)
  <2> HIDE DEF Body, r
  <2> QED BY <1>9
<1> HIDE DEF flatten, step
<1>11. \A k \in 1 .. n : flatten[k] = g[k]
  <2> DEFINE T == { k \in 0 .. n : k > 0 => flatten[k] = g[k] }
  <2>1. 0 \in T
    BY <1>1
  <2>2. ASSUME NEW k \in 1 .. n, k - 1 \in T PROVE k \in T
    BY <1>1, <1>7, <1>8, <1>10, <2>2, SMTT(30)
  <2>3. \A k \in 0 .. n : k \in T
    <3> HIDE DEF T
    <3> QED BY <1>1, <2>1, <2>2, UpTo
  <2> QED BY <2>3
<1>12. FlattenSeq(ss) = g[n]
  BY <1>1, <1>3, <1>11
<1> QED BY <1>6, <1>7, <1>12 DEF n, A, Join, e

LEMMA FlattenProperties ==
  ASSUME NEW S, NEW ss \in Seq(Seq(S))
  PROVE  /\ FlattenSeq(ss) \in Seq(S)
         /\ \A j \in 1 .. Len(FlattenSeq(ss)) :
              \E i \in 1 .. Len(ss) : \E m \in 1 .. Len(ss[i]) :
                FlattenSeq(ss)[j] = ss[i][m]
<1> DEFINE n == Len(ss)
<1>1. n \in Nat /\ \A k \in 1 .. n : ss[k] \in Seq(S)
  BY LenProperties, ElementOfSeq
<1>2. CASE n = 0
  <2>1. ss = << >> /\ FlattenSeq(ss) = << >>
    BY <1>2, EmptySeq DEF FlattenSeq
  <2>2. FlattenSeq(ss) \in Seq(S) /\ Len(FlattenSeq(ss)) = 0
    BY <2>1, EmptySeq
  <2> QED BY <2>2
<1>3. CASE n > 0
  <2>1. PICK g \in [0 .. n -> Seq(S)] :
          /\ FlattenSeq(ss) = g[n]
          /\ g[0] = << >>
          /\ \A k \in 1 .. n : g[k] = g[k - 1] \o ss[k]
    BY <1>3, FlattenUnfolds
  <2> DEFINE From(k) == \A j \in 1 .. Len(g[k]) :
                          \E i \in 1 .. k : \E m \in 1 .. Len(ss[i]) : g[k][j] = ss[i][m]
             T == { k \in 0 .. n : From(k) }
  <2> HIDE DEF n
  <2>2. From(0)
    BY <2>1, EmptySeq
  <2>3. ASSUME NEW k \in 1 .. n, From(k - 1) PROVE From(k)
    <3> DEFINE t == g[k - 1]
               u == g[k]
               v == ss[k]
    <3>1. t \in Seq(S) /\ v \in Seq(S) /\ u = t \o v
      <4>1. k - 1 \in 0 .. n
        BY <1>1
      <4>2. t \in Seq(S)
        BY <4>1
      <4>3. u = t \o v
        BY <2>1
      <4> QED BY <1>1, <4>2, <4>3
    <3>2. /\ Len(t) \in Nat /\ Len(v) \in Nat /\ Len(u) = Len(t) + Len(v)
          /\ \A j \in 1 .. Len(t) + Len(v) :
               u[j] = IF j <= Len(t) THEN t[j] ELSE v[j - Len(t)]
      <4> HIDE DEF t, u, v
      <4> QED BY <3>1, ConcatProperties, LenProperties
    <3>3. ASSUME NEW j \in 1 .. Len(u)
          PROVE  \E i \in 1 .. k : \E m \in 1 .. Len(ss[i]) : u[j] = ss[i][m]
      <4>1. CASE j <= Len(t)
        <5>1. u[j] = t[j] /\ j \in 1 .. Len(t)
          <6> HIDE DEF t, u, v
          <6> QED BY <3>2, <4>1
        <5>2. PICK i \in 1 .. k - 1 : \E m \in 1 .. Len(ss[i]) : t[j] = ss[i][m]
          BY <2>3, <5>1
        <5>3. i \in 1 .. k
          <6> HIDE DEF t, u, v
          <6> QED BY <1>1
        <5> HIDE DEF t, u, v
        <5> QED BY <5>1, <5>2, <5>3, Zenon
      <4>2. CASE j > Len(t)
        <5>1. u[j] = v[j - Len(t)] /\ j - Len(t) \in 1 .. Len(v)
          <6> HIDE DEF t, u, v
          <6> QED BY <3>2, <4>2
        <5>2. k \in 1 .. k
          BY <1>1
        <5> HIDE DEF t, u
        <5> QED BY <5>1, <5>2
      <4>3. j <= Len(t) \/ j > Len(t)
        <5> HIDE DEF t, u, v
        <5> QED BY <3>2
      <4> QED BY <4>1, <4>2, <4>3
    <3> QED BY <3>3
  <2> HIDE DEF From
  <2>4. From(n)
    <3>1. 0 \in T /\ \A k \in 1 .. n : k - 1 \in T => k \in T
      BY <1>1, <2>2, <2>3
    <3> HIDE DEF T
    <3>2. \A k \in 0 .. n : k \in T
      BY <1>1, <3>1, UpTo
    <3>3. n \in T
      BY <1>1, <3>2
    <3> QED BY <3>3 DEF T
  <2>5. g[n] \in Seq(S)
    BY <1>1
  <2> QED BY <2>1, <2>4, <2>5 DEF n, From
<1>4. n = 0 \/ n > 0
  BY <1>1
<1> HIDE DEF n
<1> QED BY <1>2, <1>3, <1>4

(***************************************************************************)
(* The same facts for sequences of which no set of elements is given.      *)
(***************************************************************************)
LEMMA SeqShape ==
  ASSUME NEW s, IsSeq(s)
  PROVE  /\ Len(s) \in Nat
         /\ DOMAIN s = 1 .. Len(s)
         /\ s = << >> <=> Len(s) = 0
         /\ \A S : (\A i \in 1 .. Len(s) : s[i] \in S) => s \in Seq(S)
<1>1. s \in Seq(Range(s))
  BY DEF IsSeq
<1>2. Len(s) \in Nat /\ DOMAIN s = 1 .. Len(s) /\ s \in [1 .. Len(s) -> Range(s)]
  BY <1>1, LenProperties
<1>3. s = << >> <=> Len(s) = 0
  BY <1>1, EmptySeq
<1>4. ASSUME NEW S, \A i \in 1 .. Len(s) : s[i] \in S PROVE s \in Seq(S)
  <2>1. s \in [1 .. Len(s) -> S]
    BY <1>2, <1>4
  <2> QED BY <1>2, <2>1, SeqDef
<1> QED BY <1>2, <1>3, <1>4

LEMMA SeqOfFunction ==
  ASSUME NEW n \in Nat, NEW f, DOMAIN f = 1 .. n, f = [i \in 1 .. n |-> f[i]]
  PROVE  IsSeq(f) /\ Len(f) = n
<1>1. f \in [1 .. n -> Range(f)]
  BY DEF Range
<1>2. f \in Seq(Range(f))
  BY <1>1, SeqDef
<1>3. DOMAIN f = 1 .. Len(f) /\ Len(f) \in Nat
  BY <1>2, LenProperties
<1> QED BY <1>2, <1>3 DEF IsSeq

LEMMA SameSeq ==
  ASSUME NEW s, NEW t, IsSeq(s), IsSeq(t), Len(s) = Len(t),
         \A i \in 1 .. Len(s) : s[i] = t[i]
  PROVE  s = t
<1>1. s \in [1 .. Len(s) -> Range(s)] /\ t \in [1 .. Len(s) -> Range(t)]
  BY LenProperties DEF IsSeq
<1> QED BY <1>1

LEMMA IsSeqOf ==
  ASSUME NEW S, NEW s \in Seq(S)
  PROVE  IsSeq(s)
BY SeqOfRange DEF IsSeq

LEMMA AppendShape ==
  ASSUME NEW s, NEW e, IsSeq(s)
  PROVE  /\ IsSeq(Append(s, e))
         /\ Len(Append(s, e)) = Len(s) + 1
         /\ \A i \in 1 .. Len(s) : Append(s, e)[i] = s[i]
         /\ Append(s, e)[Len(s) + 1] = e
<1> DEFINE S == Range(s) \cup {e}
<1>1. s \in Seq(S) /\ e \in S
  BY SeqMonotonic DEF IsSeq
<1>2. Append(s, e) \in Seq(S)
  BY <1>1, AppendProperties
<1> HIDE DEF S
<1>3. IsSeq(Append(s, e))
  BY <1>2, IsSeqOf
<1> QED BY <1>1, <1>3, AppendProperties

LEMMA ConcatShape ==
  ASSUME NEW s, NEW t, IsSeq(s), IsSeq(t)
  PROVE  /\ IsSeq(s \o t)
         /\ Len(s \o t) = Len(s) + Len(t)
         /\ \A i \in 1 .. Len(s) + Len(t) :
              (s \o t)[i] = IF i <= Len(s) THEN s[i] ELSE t[i - Len(s)]
<1> DEFINE S == Range(s) \cup Range(t)
<1>1. s \in Seq(S) /\ t \in Seq(S)
  BY SeqMonotonic DEF IsSeq
<1> HIDE DEF S
<1>2. s \o t \in Seq(S)
  BY <1>1, ConcatProperties
<1>3. IsSeq(s \o t)
  BY <1>2, IsSeqOf
<1> QED BY <1>1, <1>3, ConcatProperties

LEMMA SubsequenceShape ==
  ASSUME NEW s, NEW I, IsSeq(s)
  PROVE  /\ IsSeq(Subsequence(s, I))
         /\ \A j \in 1 .. Len(Subsequence(s, I)) :
              \E i \in 1 .. Len(s) : i \in I /\ Subsequence(s, I)[j] = s[i]
         /\ \A i \in 1 .. Len(s) : i \in I =>
              \E j \in 1 .. Len(Subsequence(s, I)) : Subsequence(s, I)[j] = s[i]
<1>1. s \in Seq(Range(s))
  BY DEF IsSeq
<1>2. Subsequence(s, I) \in Seq(Range(s))
  BY <1>1, SubsequenceProperties
<1>3. IsSeq(Subsequence(s, I))
  BY <1>2, IsSeqOf
<1> QED BY <1>1, <1>3, SubsequenceProperties

(* A selection under a name of its own holds elements of s only.           *)
LEMMA SubsequenceTakes ==
  ASSUME NEW s, IsSeq(s), NEW I, NEW q, q = Subsequence(s, I)
  PROVE  IsSeq(q) /\ \A j \in 1 .. Len(q) : \E i \in 1 .. Len(s) : i \in I /\ q[j] = s[i]
<1>1. s \in Seq(Range(s))
  BY DEF IsSeq
<1>2. /\ q \in Seq(Range(s))
      /\ \A j \in 1 .. Len(q) : \E i \in 1 .. Len(s) : i \in I /\ q[j] = s[i]
  BY <1>1, SubsequenceProperties, SMTT(30)
<1> QED BY <1>2, IsSeqOf

LEMMA PrefixShape ==
  ASSUME NEW s, IsSeq(s), NEW k \in 0 .. Len(s)
  PROVE  /\ IsSeq(SubSeq(s, 1, k))
         /\ Len(SubSeq(s, 1, k)) = k
         /\ \A i \in 1 .. k : SubSeq(s, 1, k)[i] = s[i]
<1>1. Len(s) \in Nat /\ s \in Seq(Range(s))
  BY SeqShape DEF IsSeq
<1>2. \A i \in 1 .. k : s[i] \in Range(s)
  BY <1>1, ElementOfSeq
<1>3. SubSeq(s, 1, k) \in Seq(Range(s))
  BY <1>1, <1>2, SubSeqProperties
<1>4. IsSeq(SubSeq(s, 1, k))
  BY <1>3, IsSeqOf
<1> QED BY <1>1, <1>2, <1>4, SubSeqProperties

LEMMA FlattenShape ==
  ASSUME NEW ss, IsSeq(ss), \A i \in 1 .. Len(ss) : IsSeq(ss[i])
  PROVE  /\ IsSeq(FlattenSeq(ss))
         /\ \A j \in 1 .. Len(FlattenSeq(ss)) :
              \E i \in 1 .. Len(ss) : \E m \in 1 .. Len(ss[i]) :
                FlattenSeq(ss)[j] = ss[i][m]
<1> DEFINE n == Len(ss)
<1> DEFINE S == UNION { Range(ss[i]) : i \in 1 .. n }
<1>1. \A i \in 1 .. n : ss[i] \in Seq(S)
  <2>1. TAKE i \in 1 .. n
  <2>2. Range(ss[i]) \subseteq S
    OBVIOUS
  <2> HIDE DEF S
  <2> QED BY <2>2, SeqMonotonic DEF IsSeq
<1> HIDE DEF S
<1>2. ss \in Seq(Seq(S))
  BY <1>1, SeqShape
<1>3. FlattenSeq(ss) \in Seq(S)
  BY <1>2, FlattenProperties
<1> QED BY <1>2, <1>3, FlattenProperties, IsSeqOf

LEMMA SuffixShape ==
  ASSUME NEW s, IsSeq(s), NEW k \in Nat
  PROVE  /\ IsSeq(SubSeq(s, k + 1, Len(s)))
         /\ \A j \in 1 .. Len(SubSeq(s, k + 1, Len(s))) :
              \E i \in 1 .. Len(s) : SubSeq(s, k + 1, Len(s))[j] = s[i]
<1> DEFINE n == Len(s)
           t == SubSeq(s, k + 1, n)
           len == IF k <= n THEN n - k ELSE 0
<1>1. n \in Nat
  BY SeqShape
<1>2. len \in Nat /\ 1 .. (1 + n - (k + 1)) = 1 .. len
  BY <1>1
<1>3. t = [i \in 1 .. (1 + n - (k + 1)) |-> s[i + (k + 1) - 1]]
  OBVIOUS
<1>4. /\ DOMAIN t = 1 .. len /\ t = [i \in 1 .. len |-> t[i]]
      /\ \A j \in 1 .. len : t[j] = s[j + (k + 1) - 1]
  <2> HIDE DEF t, len, n
  <2> QED BY <1>2, <1>3
<1>5. \A j \in 1 .. len : j + (k + 1) - 1 \in 1 .. n
  BY <1>1
<1>6. IsSeq(t) /\ Len(t) = len
  <2> HIDE DEF t, len
  <2> QED BY <1>2, <1>4, SeqOfFunction
<1> HIDE DEF t, len, n
<1>7. \A j \in 1 .. Len(t) : \E i \in 1 .. n : t[j] = s[i]
  BY <1>4, <1>5, <1>6
<1> QED BY <1>6, <1>7 DEF t, n

LEMMA EmptyShape == IsSeq(<< >>) /\ Len(<< >>) = 0 /\ DOMAIN << >> = {}
<1>1. << >> \in Seq({})
  OBVIOUS
<1>2. IsSeq(<< >>)
  BY <1>1, IsSeqOf
<1>3. Len(<< >>) = 0
  BY <1>2, SeqShape
<1>4. DOMAIN << >> = 1 .. Len(<< >>)
  BY <1>2, SeqShape
<1>5. 1 .. 0 = {}
  OBVIOUS
<1> QED BY <1>2, <1>3, <1>4, <1>5

(***************************************************************************)
(* Induction along a sequence, and what selections and joins do when one   *)
(* element more comes.                                                     *)
(***************************************************************************)
(* A prefix is the prefix before it and one element more.                  *)
LEMMA PrefixGrows ==
  ASSUME NEW s, IsSeq(s), NEW k \in 1 .. Len(s)
  PROVE  SubSeq(s, 1, k) = Append(SubSeq(s, 1, k - 1), s[k])
<1> DEFINE p == SubSeq(s, 1, k - 1)
           q == SubSeq(s, 1, k)
<1>1. Len(s) \in Nat
  BY SeqShape
<1>2. IsSeq(p) /\ Len(p) = k - 1 /\ \A i \in 1 .. k - 1 : p[i] = s[i]
  <2>1. k - 1 \in 0 .. Len(s)
    BY <1>1
  <2> QED BY <2>1, PrefixShape
<1>3. IsSeq(q) /\ Len(q) = k /\ \A i \in 1 .. k : q[i] = s[i]
  <2>1. k \in 0 .. Len(s)
    BY <1>1
  <2> QED BY <2>1, PrefixShape
<1> HIDE DEF p, q
<1>4. /\ IsSeq(Append(p, s[k])) /\ Len(Append(p, s[k])) = k
      /\ \A i \in 1 .. k - 1 : Append(p, s[k])[i] = s[i]
      /\ Append(p, s[k])[k] = s[k]
  BY <1>2, AppendShape
<1>5. \A i \in 1 .. k : Append(p, s[k])[i] = q[i]
  BY <1>3, <1>4
<1>6. q = Append(p, s[k])
  BY <1>3, <1>4, <1>5, SameSeq
<1> QED BY <1>6 DEF p, q

(* A set of sequences that has the empty one, and with each prefix of s    *)
(* the next, has s.                                                        *)
LEMMA AlongSeq ==
  ASSUME NEW s, IsSeq(s), NEW P, << >> \in P,
         \A k \in 1 .. Len(s) :
           SubSeq(s, 1, k - 1) \in P => Append(SubSeq(s, 1, k - 1), s[k]) \in P
  PROVE  s \in P
<1> DEFINE n == Len(s)
           prefix(k) == SubSeq(s, 1, k)
           T == { k \in 0 .. n : prefix(k) \in P }
<1>1. n \in Nat
  BY SeqShape
<1>2. SubSeq(s, 1, 0) = << >>
  <2>1. 0 \in 0 .. n
    BY <1>1
  <2>2. IsSeq(SubSeq(s, 1, 0)) /\ Len(SubSeq(s, 1, 0)) = 0
    BY <2>1, PrefixShape
  <2> QED BY <2>2, SeqShape
<1>3. SubSeq(s, 1, n) = s
  <2>1. n \in 0 .. n
    BY <1>1
  <2>2. /\ IsSeq(SubSeq(s, 1, n)) /\ Len(SubSeq(s, 1, n)) = n
        /\ \A i \in 1 .. n : SubSeq(s, 1, n)[i] = s[i]
    BY <2>1, PrefixShape
  <2> QED BY <2>2, SameSeq
<1>4. \A k \in 1 .. n : prefix(k - 1) \in P => prefix(k) \in P
  BY PrefixGrows
<1>5. prefix(0) \in P
  BY <1>2
<1>6. prefix(n) \in P
  <2> HIDE DEF prefix
  <2>1. 0 \in T
    BY <1>1, <1>5
  <2>2. ASSUME NEW k \in 1 .. n, k - 1 \in T PROVE k \in T
    BY <1>1, <1>4, <2>2
  <2>3. n \in T
    <3> HIDE DEF T, n
    <3> QED BY <1>1, <2>1, <2>2, UpTo
  <2> QED BY <2>3
<1> QED BY <1>3, <1>6

(* Selecting by positions from a sequence with one element more.           *)
LEMMA SubsequenceAppend ==
  ASSUME NEW s, IsSeq(s), NEW e, NEW I, NEW J
  PROVE  (\A i \in 1 .. Len(s) : i \in I <=> i \in J) =>
           Subsequence(Append(s, e), J)
             = IF Len(s) + 1 \in J THEN Append(Subsequence(s, I), e) ELSE Subsequence(s, I)
<1> DEFINE n == Len(s)
<1>0. PICK S : s \in Seq(S) /\ e \in S
  <2> DEFINE R == Range(s) \cup {e}
  <2>1. s \in Seq(R) /\ e \in R
    BY SeqMonotonic DEF IsSeq
  <2> QED BY <2>1
<1>1. s \in Seq(S) /\ e \in S /\ n \in Nat
  BY <1>0, LenProperties
<1>9. PICK r : r = Append(s, e)
  OBVIOUS
<1>2. r \in Seq(S) /\ Len(r) = n + 1 /\ (\A i \in 1 .. n : r[i] = s[i]) /\ r[n + 1] = e
  BY <1>1, <1>9, AppendProperties
<1>3. PICK old \in [0 .. n -> Seq(S)] :
        /\ Subsequence(s, I) = old[n]
        /\ old[0] = << >>
        /\ \A k \in 1 .. n :
             old[k] = IF k \in I THEN Append(old[k - 1], s[k]) ELSE old[k - 1]
  BY <1>0, SubsequenceUnfolds
<1>4. PICK new \in [0 .. Len(r) -> Seq(S)] :
        /\ Subsequence(r, J) = new[Len(r)]
        /\ new[0] = << >>
        /\ \A k \in 1 .. Len(r) :
             new[k] = IF k \in J THEN Append(new[k - 1], r[k]) ELSE new[k - 1]
  <2>1. r \in Seq(S)
    BY <1>2
  <2> QED BY <2>1, SubsequenceUnfolds
<1> SUFFICES ASSUME \A i \in 1 .. Len(s) : i \in I <=> i \in J
             PROVE  Subsequence(Append(s, e), J)
                      = IF Len(s) + 1 \in J THEN Append(Subsequence(s, I), e)
                        ELSE Subsequence(s, I)
  OBVIOUS
<1> DEFINE T == { k \in 0 .. n : new[k] = old[k] }
<1> HIDE DEF n
<1>5. 0 \in T
  BY <1>1, <1>3, <1>4
<1>6. ASSUME NEW k \in 1 .. n, k - 1 \in T PROVE k \in T
  <2>1. new[k - 1] = old[k - 1] /\ r[k] = s[k] /\ (k \in I <=> k \in J) /\ k \in 1 .. Len(r)
    BY <1>1, <1>2, <1>6 DEF n
  <2>2. new[k] = IF k \in J THEN Append(new[k - 1], r[k]) ELSE new[k - 1]
    BY <1>4, <2>1
  <2>3. old[k] = IF k \in I THEN Append(old[k - 1], s[k]) ELSE old[k - 1]
    BY <1>3
  <2>4. new[k] = old[k]
    BY <2>1, <2>2, <2>3
  <2> QED BY <1>1, <2>4
<1>7. new[n] = old[n]
  <2>1. \A k \in 0 .. n : k \in T
    <3> HIDE DEF T
    <3> QED BY <1>1, <1>5, <1>6, UpTo
  <2> QED BY <1>1, <2>1
<1>8. new[n + 1] = IF n + 1 \in J THEN Append(new[n], r[n + 1]) ELSE new[n]
  <2>1. n + 1 \in 1 .. Len(r) /\ (n + 1) - 1 = n
    BY <1>1, <1>2
  <2> QED BY <1>4, <2>1
<1> QED BY <1>2, <1>3, <1>4, <1>7, <1>8, <1>9 DEF n

LEMMA SubsequenceEmpty ==
  ASSUME NEW I
  PROVE  Subsequence(<< >>, I) = << >>
<1>1. IsSeq(<< >>) /\ Len(<< >>) = 0
  BY EmptyShape
<1>2. PICK e : e = << >>
  OBVIOUS
<1>3. IsSeq(e) /\ Len(e) = 0
  BY <1>1, <1>2
<1>4. IsSeq(Subsequence(e, I)) /\ \A j \in 1 .. Len(Subsequence(e, I)) : FALSE
  BY <1>3, SubsequenceShape
<1>5. Len(Subsequence(e, I)) = 0
  <2>1. Len(Subsequence(e, I)) \in Nat
    BY <1>4, SeqShape
  <2> QED BY <1>4, <2>1
<1> QED BY <1>2, <1>4, <1>5, SeqShape

(* Elements selected from two places stand at two places, in their order.  *)
LEMMA SubsequenceInOrder ==
  ASSUME NEW s, NEW I, IsSeq(s),
         NEW a \in 1 .. Len(s), NEW b \in 1 .. Len(s), a < b, a \in I, b \in I
  PROVE  \E i, j \in 1 .. Len(Subsequence(s, I)) :
           i < j /\ Subsequence(s, I)[i] = s[a] /\ Subsequence(s, I)[j] = s[b]
<1> DEFINE n == Len(s)
<1>0. PICK S : s \in Seq(S)
  BY DEF IsSeq
<1>1. n \in Nat /\ \A k \in 1 .. n : s[k] \in S
  BY <1>0, LenProperties, ElementOfSeq
<1>2. PICK kept \in [0 .. n -> Seq(S)] :
        /\ Subsequence(s, I) = kept[n]
        /\ kept[0] = << >>
        /\ \A k \in 1 .. n :
             kept[k] = IF k \in I THEN Append(kept[k - 1], s[k]) ELSE kept[k - 1]
  BY <1>0, SubsequenceUnfolds
<1> DEFINE First(k) == \E i \in 1 .. Len(kept[k]) : kept[k][i] = s[a]
           Both(k) == \E i, j \in 1 .. Len(kept[k]) :
                        i < j /\ kept[k][i] = s[a] /\ kept[k][j] = s[b]
           T == { k \in 0 .. n : (k >= a => First(k)) /\ (k >= b => Both(k)) }
<1> HIDE DEF n
<1>3. 0 \in T
  BY <1>1
<1>4. ASSUME NEW k \in 1 .. n, k - 1 \in T PROVE k \in T
  <2> DEFINE t == kept[k - 1]
             u == kept[k]
  <2>1. t \in Seq(S) /\ Len(t) \in Nat /\ s[k] \in S /\ k - 1 \in 0 .. n
    <3>1. k - 1 \in 0 .. n
      BY <1>1
    <3>2. t \in Seq(S)
      BY <3>1
    <3> HIDE DEF t
    <3> QED BY <1>1, <3>1, <3>2, LenProperties
  <2>2. u = IF k \in I THEN Append(t, s[k]) ELSE t
    BY <1>2
  <2>3. /\ k - 1 >= a => \E i \in 1 .. Len(t) : t[i] = s[a]
        /\ k - 1 >= b => \E i, j \in 1 .. Len(t) : i < j /\ t[i] = s[a] /\ t[j] = s[b]
    BY <1>4
  <2> HIDE DEF t, u
  <2>4. CASE k \in I
    <3>1. /\ Len(u) = Len(t) + 1 /\ u[Len(t) + 1] = s[k]
          /\ \A j \in 1 .. Len(t) : u[j] = t[j]
      BY <2>1, <2>2, <2>4, AppendProperties
    <3>2. ASSUME k >= a PROVE \E i \in 1 .. Len(u) : u[i] = s[a]
      <4>1. CASE k = a
        BY <2>1, <3>1, <4>1
      <4>2. CASE k - 1 >= a
        <5>1. PICK i \in 1 .. Len(t) : t[i] = s[a]
          BY <2>3, <4>2
        <5> QED BY <2>1, <3>1, <5>1
      <4> QED BY <3>2, <4>1, <4>2
    <3>3. ASSUME k >= b
          PROVE  \E i, j \in 1 .. Len(u) : i < j /\ u[i] = s[a] /\ u[j] = s[b]
      <4>1. CASE k = b
        <5>1. PICK i \in 1 .. Len(t) : t[i] = s[a]
          BY <2>3, <4>1
        <5>2. i \in 1 .. Len(u) /\ Len(t) + 1 \in 1 .. Len(u) /\ i < Len(t) + 1
          BY <2>1, <3>1, <5>1
        <5>3. u[i] = s[a] /\ u[Len(t) + 1] = s[b]
          BY <3>1, <4>1, <5>1
        <5> QED BY <5>2, <5>3
      <4>2. CASE k - 1 >= b
        <5>1. PICK i \in 1 .. Len(t), j \in 1 .. Len(t) : i < j /\ t[i] = s[a] /\ t[j] = s[b]
          BY <2>3, <4>2
        <5> QED BY <2>1, <3>1, <5>1
      <4> QED BY <3>3, <4>1, <4>2
    <3> QED BY <3>2, <3>3 DEF u
  <2>5. CASE k \notin I
    <3>1. u = t /\ k # a /\ k # b
      BY <2>2, <2>5
    <3>2. (k >= a => k - 1 >= a) /\ (k >= b => k - 1 >= b)
      BY <3>1
    <3> QED BY <2>3, <3>1, <3>2 DEF u
  <2> QED BY <2>4, <2>5
<1>5. Both(n)
  <2>1. \A k \in 0 .. n : k \in T
    <3> HIDE DEF T
    <3> QED BY <1>1, <1>3, <1>4, UpTo
  <2>2. n \in T /\ n >= b
    <3>1. n >= b /\ n \in 0 .. n
      BY <1>1 DEF n
    <3> QED BY <2>1, <3>1
  <2> QED BY <2>2
<1> QED BY <1>2, <1>5

(* A selected element stands after all the selected ones before it.        *)
LEMMA SubsequenceBefore ==
  ASSUME NEW s, NEW I, IsSeq(s)
  PROVE  \A j \in 1 .. Len(Subsequence(s, I)) :
           \E i \in 1 .. Len(s) :
             /\ i \in I /\ Subsequence(s, I)[j] = s[i]
             /\ \A a \in 1 .. i - 1 : a \in I =>
                  \E l \in 1 .. j - 1 : Subsequence(s, I)[l] = s[a]
<1> DEFINE n == Len(s)
<1>0. PICK S : s \in Seq(S)
  BY DEF IsSeq
<1>1. n \in Nat /\ \A k \in 1 .. n : s[k] \in S
  BY <1>0, LenProperties, ElementOfSeq
<1>2. PICK kept \in [0 .. n -> Seq(S)] :
        /\ Subsequence(s, I) = kept[n]
        /\ kept[0] = << >>
        /\ \A k \in 1 .. n :
             kept[k] = IF k \in I THEN Append(kept[k - 1], s[k]) ELSE kept[k - 1]
  BY <1>0, SubsequenceUnfolds
<1> DEFINE Into(r, k) == \A a \in 1 .. k : a \in I => \E l \in 1 .. Len(r) : r[l] = s[a]
           At(r, j, i) == /\ i \in I /\ r[j] = s[i]
                          /\ \A a \in 1 .. i - 1 : a \in I => \E l \in 1 .. j - 1 : r[l] = s[a]
           From(r, k) == \A j \in 1 .. Len(r) : \E i \in 1 .. k : At(r, j, i)
           T == { k \in 0 .. n : Into(kept[k], k) /\ From(kept[k], k) }
<1> HIDE DEF n
<1>3. 0 \in T
  BY <1>1, <1>2, EmptySeq
<1>4. ASSUME NEW k \in 1 .. n, k - 1 \in T PROVE k \in T
  <2> DEFINE t == kept[k - 1]
             u == kept[k]
  <2>1. t \in Seq(S) /\ Len(t) \in Nat /\ s[k] \in S /\ k \in Nat
    <3>1. k - 1 \in 0 .. n
      BY <1>1
    <3>2. t \in Seq(S)
      BY <3>1
    <3> HIDE DEF t
    <3> QED BY <1>1, <3>1, <3>2, LenProperties
  <2>2. u = IF k \in I THEN Append(t, s[k]) ELSE t
    BY <1>2
  <2>3. Into(t, k - 1) /\ From(t, k - 1)
    BY <1>4
  <2> HIDE DEF t, u
  <2>4. CASE k \in I
    <3>1. /\ Len(u) = Len(t) + 1 /\ u[Len(t) + 1] = s[k]
          /\ \A j \in 1 .. Len(t) : u[j] = t[j]
      BY <2>1, <2>2, <2>4, AppendProperties
    <3>2. ASSUME NEW a \in 1 .. k, a \in I PROVE \E l \in 1 .. Len(u) : u[l] = s[a]
      <4>1. CASE a = k
        BY <2>1, <3>1, <4>1
      <4>2. CASE a \in 1 .. k - 1
        <5>1. PICK l \in 1 .. Len(t) : t[l] = s[a]
          BY <2>3, <3>2, <4>2
        <5> QED BY <2>1, <3>1, <5>1
      <4> QED BY <2>1, <4>1, <4>2
    <3>3. ASSUME NEW j \in 1 .. Len(u) PROVE \E i \in 1 .. k : At(u, j, i)
      <4>1. CASE j \in 1 .. Len(t)
        <5>1. PICK i \in 1 .. k - 1 : At(t, j, i)
          BY <2>3, <4>1
        <5>2. \A l \in 1 .. j : u[l] = t[l]
          BY <2>1, <3>1, <4>1
        <5>3. \A a \in 1 .. i - 1 : a \in I => \E l \in 1 .. j - 1 : u[l] = s[a]
          <6>1. TAKE a \in 1 .. i - 1
          <6>2. HAVE a \in I
          <6>3. PICK l \in 1 .. j - 1 : t[l] = s[a]
            BY <5>1, <6>2
          <6>4. l \in 1 .. j
            BY <4>1
          <6> QED BY <5>2, <6>3, <6>4
        <5>4. i \in I /\ u[j] = s[i] /\ i \in 1 .. k
          BY <2>1, <3>1, <4>1, <5>1
        <5> QED BY <5>3, <5>4
      <4>2. CASE j = Len(t) + 1
        <5>1. j - 1 = Len(t)
          BY <2>1, <4>2
        <5>2. \A a \in 1 .. k - 1 : a \in I => \E l \in 1 .. j - 1 : u[l] = s[a]
          <6>1. TAKE a \in 1 .. k - 1
          <6>2. HAVE a \in I
          <6>3. PICK l \in 1 .. Len(t) : t[l] = s[a]
            BY <2>3, <6>2
          <6> QED BY <3>1, <5>1, <6>3
        <5>3. k \in I /\ u[j] = s[k] /\ k \in 1 .. k
          BY <2>1, <2>4, <3>1, <4>2
        <5> QED BY <5>2, <5>3
      <4> QED BY <2>1, <3>1, <4>1, <4>2
    <3> HIDE DEF At
    <3> QED BY <3>2, <3>3 DEF u
  <2>5. CASE k \notin I
    <3>1. u = t
      BY <2>2, <2>5
    <3>2. Into(u, k)
      BY <2>1, <2>3, <2>5, <3>1
    <3>3. From(u, k)
      <4> HIDE DEF At
      <4>1. \A i \in 1 .. k - 1 : i \in 1 .. k
        BY <2>1
      <4> QED BY <2>3, <3>1, <4>1
    <3> HIDE DEF At, Into, From
    <3> QED BY <3>2, <3>3 DEF u
  <2> QED BY <2>4, <2>5
<1>5. From(kept[n], n)
  <2> HIDE DEF From, Into
  <2>1. \A k \in 0 .. n : k \in T
    <3> HIDE DEF T
    <3> QED BY <1>1, <1>3, <1>4, UpTo
  <2>2. n \in 0 .. n
    BY <1>1
  <2> QED BY <2>1, <2>2
<1> QED BY <1>2, <1>5 DEF n

(* Selecting at no position, and at all positions.                         *)
LEMMA SubsequenceNone ==
  ASSUME NEW s, IsSeq(s)
  PROVE  Subsequence(s, {}) = << >>
<1>1. PICK I : I = {}
  OBVIOUS
<1>2. IsSeq(Subsequence(s, I)) /\ \A j \in 1 .. Len(Subsequence(s, I)) : FALSE
  BY <1>1, SubsequenceShape
<1>3. Len(Subsequence(s, I)) = 0
  <2>1. Len(Subsequence(s, I)) \in Nat
    BY <1>2, SeqShape
  <2> QED BY <1>2, <2>1
<1> QED BY <1>1, <1>2, <1>3, SeqShape

LEMMA SubsequenceAll ==
  ASSUME NEW s, IsSeq(s)
  PROVE  Subsequence(s, DOMAIN s) = s
<1> DEFINE n == Len(s)
           I == DOMAIN s
<1>1. n \in Nat /\ I = 1 .. n
  BY SeqShape
<1> HIDE DEF I
<1>2. PICK S : s \in Seq(S)
  BY DEF IsSeq
<1>3. PICK kept \in [0 .. n -> Seq(S)] :
        /\ Subsequence(s, I) = kept[n]
        /\ kept[0] = << >>
        /\ \A k \in 1 .. n :
             kept[k] = IF k \in I THEN Append(kept[k - 1], s[k]) ELSE kept[k - 1]
  BY <1>2, SubsequenceUnfolds
<1>4. \A k \in 0 .. n : IsSeq(SubSeq(s, 1, k)) /\ Len(SubSeq(s, 1, k)) = k
                        /\ \A i \in 1 .. k : SubSeq(s, 1, k)[i] = s[i]
  BY PrefixShape
<1>5. \A k \in 1 .. n : SubSeq(s, 1, k) = Append(SubSeq(s, 1, k - 1), s[k])
  BY PrefixGrows
<1> HIDE DEF n
<1> DEFINE T == { k \in 0 .. n : kept[k] = SubSeq(s, 1, k) }
<1>6. 0 \in T
  <2>1. 0 \in 0 .. n
    BY <1>1
  <2>2. SubSeq(s, 1, 0) = << >>
    BY <1>4, <2>1, SeqShape
  <2> QED BY <1>3, <2>1, <2>2
<1>7. ASSUME NEW k \in 1 .. n, k - 1 \in T PROVE k \in T
  <2>1. kept[k - 1] = SubSeq(s, 1, k - 1)
    BY <1>7
  <2>2. kept[k] = Append(kept[k - 1], s[k])
    BY <1>1, <1>3
  <2>3. kept[k] = SubSeq(s, 1, k)
    BY <1>5, <2>1, <2>2
  <2>4. k \in 0 .. n
    BY <1>1
  <2> QED BY <2>3, <2>4, Zenon
<1>8. n \in T
  <2>1. n \in 0 .. n
    BY <1>1
  <2> HIDE DEF T
  <2>2. \A k \in 0 .. n : k \in T
    BY <1>1, <1>6, <1>7, UpTo
  <2> QED BY <2>1, <2>2
<1>9. SubSeq(s, 1, n) = s
  <2>1. n \in 0 .. n
    BY <1>1
  <2> QED BY <1>4, <2>1, SameSeq DEF n
<1> QED BY <1>3, <1>8, <1>9 DEF I
=============================================================================
