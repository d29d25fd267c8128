------------------------------- MODULE SeqFacts -------------------------------
(***************************************************************************)
(* Facts about naturals and sequences that the proofs of the components    *)
(* cite.  Induction is stated about a set, not about a predicate: the set   *)
(* is an ordinary parameter, which every prover can instantiate.            *)
(***************************************************************************)
EXTENDS Integers, Sequences, SequencesExt, FiniteSetTheorems, WellFoundedInduction, TLAPS

\* A set of naturals that is not empty has a least element.
LEMMA Least ==
  ASSUME NEW S \in SUBSET Nat, S # {}
  PROVE  \E n \in S : \A m \in S : n <= m
<1> DEFINE less == OpToRel(<, Nat)
<1>1. IsWellFoundedOn(less, Nat)
  BY NatLessThanWellFounded
<1> HIDE DEF less
<1>2. PICK n \in S : \A m \in S : <<m, n>> \notin less
  BY <1>1, WFMin
<1>3. \A m \in S : ~(m < n)
  BY <1>2 DEF less, OpToRel
<1> QED
  BY <1>3

\* A set with 0 in it, and with n + 1 whenever it has n, has every natural.
LEMMA SetInduction ==
  ASSUME NEW S, 0 \in S, \A n \in Nat : n \in S => n + 1 \in S
  PROVE  Nat \subseteq S
<1> SUFFICES ASSUME Nat \ S # {} PROVE FALSE
  OBVIOUS
<1>1. PICK n \in Nat \ S : \A m \in Nat \ S : n <= m
  BY Least
<1>2. n # 0 /\ n - 1 \in Nat
  BY <1>1
<1>3. n - 1 \in S
  BY <1>1, <1>2
<1> QED
  BY <1>1, <1>2, <1>3

-----------------------------------------------------------------------------
(* FlattenSeq: the function it is built from exists, on every prefix.       *)

\* f holds the flattenings of the first 1, 2, ..., k parts of ss.
Flattens(f, ss, k) ==
  f = [i \in 1..k |-> IF i = 1 THEN ss[i] ELSE f[i - 1] \o ss[i]]

\* The partial flattenings of a sequence of sequences exist.
LEMMA FlattensExist ==
  ASSUME NEW ss, NEW n \in Nat
  PROVE  \E f : Flattens(f, ss, n)
<1> DEFINE S == {k \in Nat : \E f : Flattens(f, ss, k)}
<1>1. 0 \in S
  <2> DEFINE f == [i \in 1..0 |-> ss[i]]
  <2>1. f = [i \in 1..0 |-> IF i = 1 THEN ss[i] ELSE f[i - 1] \o ss[i]]
    OBVIOUS
  <2> QED
    BY <2>1 DEF Flattens
<1>2. ASSUME NEW k \in Nat, k \in S PROVE k + 1 \in S
  <2>1. PICK f : Flattens(f, ss, k)
    BY <1>2
  <2> DEFINE g == [i \in 1..(k + 1) |->
                     IF i \in 1..k THEN f[i]
                     ELSE IF i = 1 THEN ss[i] ELSE f[i - 1] \o ss[i]]
  <2>2. \A i \in 1..(k + 1) : g[i] = IF i = 1 THEN ss[i] ELSE g[i - 1] \o ss[i]
    <3> SUFFICES ASSUME NEW i \in 1..(k + 1)
                 PROVE  g[i] = IF i = 1 THEN ss[i] ELSE g[i - 1] \o ss[i]
      OBVIOUS
    <3>1. i # 1 => i - 1 \in 1..k /\ g[i - 1] = f[i - 1]
      OBVIOUS
    <3>2. i \in 1..k => f[i] = IF i = 1 THEN ss[i] ELSE f[i - 1] \o ss[i]
      BY <2>1 DEF Flattens
    <3> QED
      BY <3>1, <3>2
  <2>3. g = [i \in 1..(k + 1) |-> IF i = 1 THEN ss[i] ELSE g[i - 1] \o ss[i]]
    <3> DEFINE h == [i \in 1..(k + 1) |-> IF i = 1 THEN ss[i] ELSE g[i - 1] \o ss[i]]
    <3> SUFFICES g = h
      OBVIOUS
    <3>1. DOMAIN g = 1..(k + 1) /\ DOMAIN h = 1..(k + 1)
      OBVIOUS
    <3>2. \A i \in 1..(k + 1) : g[i] = h[i]
      BY <2>2
    <3>3. g = [i \in DOMAIN g |-> g[i]] /\ h = [i \in DOMAIN h |-> h[i]]
      OBVIOUS
    <3> HIDE DEF g, h
    <3> QED
      BY <3>1, <3>2, <3>3
  <2> HIDE DEF g
  <2>4. Flattens(g, ss, k + 1)
    BY <2>3 DEF Flattens
  <2> QED
    BY <2>4
<1> HIDE DEF S
<1>3. n \in S
  BY <1>1, <1>2, SetInduction
<1> QED
  BY <1>3 DEF S

\* FlattenSeq is the last of the partial flattenings.
LEMMA FlattenSeqIs ==
  ASSUME NEW ss, Len(ss) \in Nat \ {0}
  PROVE  \E f : Flattens(f, ss, Len(ss)) /\ FlattenSeq(ss) = f[Len(ss)]
<1> DEFINE f == CHOOSE f : Flattens(f, ss, Len(ss))
<1>1. Flattens(f, ss, Len(ss))
  BY FlattensExist
<1>2. FlattenSeq(ss) = f[Len(ss)]
  BY DEF FlattenSeq, Flattens
<1> QED
  BY <1>1, <1>2

\* What holds of the empty sequence and of a \o b whenever it holds of a and of
\* b, holds of a flattening when it holds of the parts.
LEMMA FlattenIn ==
  ASSUME NEW C, NEW ss \in Seq(C), <<>> \in C, \A a, b \in C : a \o b \in C
  PROVE  FlattenSeq(ss) \in C
<1>1. CASE Len(ss) = 0
  BY <1>1 DEF FlattenSeq
<1>2. CASE Len(ss) # 0
  <2>1. PICK f : Flattens(f, ss, Len(ss)) /\ FlattenSeq(ss) = f[Len(ss)]
    BY <1>2, FlattenSeqIs
  <2> DEFINE S == {k \in Nat : k \in 1..Len(ss) => f[k] \in C}
  <2>2. 0 \in S
    OBVIOUS
  <2>3. ASSUME NEW k \in Nat, k \in S PROVE k + 1 \in S
    <3> SUFFICES ASSUME k + 1 \in 1..Len(ss) PROVE f[k + 1] \in C
      OBVIOUS
    <3>0. \A m \in 1..Len(ss) : f[m] = IF m = 1 THEN ss[m] ELSE f[m - 1] \o ss[m]
      BY <2>1 DEF Flattens
    <3>1. f[k + 1] = IF k + 1 = 1 THEN ss[k + 1] ELSE f[k] \o ss[k + 1]
      <4>1. k + 1 - 1 = k
        OBVIOUS
      <4> QED
        BY <3>0, <4>1
    <3>2. k + 1 # 1 => f[k] \in C
      BY <2>3
    <3>3. ss[k + 1] \in C
      OBVIOUS
    <3> QED
      BY <3>1, <3>2, <3>3
  <2> HIDE DEF S
  <2>4. Len(ss) \in S
    BY <2>2, <2>3, SetInduction
  <2> QED
    BY <1>2, <2>1, <2>4 DEF S
<1> QED
  BY <1>1, <1>2

\* A flattening of sequences of elements of S is a sequence of elements of S.
LEMMA FlattenType ==
  ASSUME NEW S, NEW ss \in Seq(Seq(S))
  PROVE  FlattenSeq(ss) \in Seq(S)
<1> DEFINE C == Seq(S)
<1>1. <<>> \in C /\ \A a, b \in C : a \o b \in C
  OBVIOUS
<1>2. ss \in Seq(C)
  OBVIOUS
<1> HIDE DEF C
<1>3. FlattenSeq(ss) \in C
  BY <1>1, <1>2, FlattenIn
<1> QED
  BY <1>3 DEF C

\* Every element of every part is an element of the flattening.
LEMMA FlattenHas ==
  ASSUME NEW S, NEW ss \in Seq(Seq(S)), NEW i \in 1..Len(ss), NEW j \in 1..Len(ss[i])
  PROVE  \E m \in 1..Len(FlattenSeq(ss)) : FlattenSeq(ss)[m] = ss[i][j]
<1>1. PICK f : Flattens(f, ss, Len(ss)) /\ FlattenSeq(ss) = f[Len(ss)]
  BY FlattenSeqIs
<1>2. \A k \in 1..Len(ss) : f[k] = IF k = 1 THEN ss[k] ELSE f[k - 1] \o ss[k]
  BY <1>1 DEF Flattens
<1> DEFINE Has(s) == \E m \in 1..Len(s) : s[m] = ss[i][j]
           T == {k \in Nat : k \in 1..Len(ss) =>
                   f[k] \in Seq(S) /\ (i <= k => Has(f[k]))}
<1>3. ASSUME NEW a \in Seq(S), NEW b \in Seq(S), Has(a) \/ Has(b) PROVE Has(a \o b)
  <2>1. CASE Has(a)
    BY <2>1
  <2>2. CASE Has(b)
    <3>1. PICK m \in 1..Len(b) : b[m] = ss[i][j]
      BY <2>2
    <3>2. Len(a) + m \in 1..Len(a \o b) /\ (a \o b)[Len(a) + m] = b[m]
      OBVIOUS
    <3> QED
      BY <3>1, <3>2
  <2> QED
    BY <1>3, <2>1, <2>2
<1>4. 0 \in T
  OBVIOUS
<1>5. ASSUME NEW k \in Nat, k \in T PROVE k + 1 \in T
  <2> SUFFICES ASSUME k + 1 \in 1..Len(ss)
               PROVE  f[k + 1] \in Seq(S) /\ (i <= k + 1 => Has(f[k + 1]))
    OBVIOUS
  <2>1. f[k + 1] = IF k + 1 = 1 THEN ss[k + 1] ELSE f[k] \o ss[k + 1]
    BY <1>2
  <2>2. ss[k + 1] \in Seq(S) /\ (i = k + 1 => Has(ss[k + 1]))
    OBVIOUS
  <2>3. k + 1 # 1 => f[k] \in Seq(S) /\ (i <= k => Has(f[k]))
    BY <1>5
  <2> HIDE DEF Has
  <2>4. CASE k + 1 = 1
    BY <2>1, <2>2, <2>4
  <2>5. CASE k + 1 # 1
    BY <2>1, <2>2, <2>3, <2>5, <1>3
  <2> QED
    BY <2>4, <2>5
<1> HIDE DEF T, Has
<1>6. Len(ss) \in T
  <2>1. Len(ss) \in Nat
    OBVIOUS
  <2>2. Nat \subseteq T
    BY <1>4, <1>5, SetInduction
  <2> QED
    BY <2>1, <2>2
<1>7. Has(FlattenSeq(ss))
  BY <1>1, <1>6 DEF T
<1> QED
  BY <1>7 DEF Has

-----------------------------------------------------------------------------
(* Suffixes.                                                                *)

\* A suffix, position by position from the end.
LEMMA SuffixIs ==
  ASSUME NEW S, NEW s \in Seq(S), NEW t \in Seq(S)
  PROVE  IsSuffix(s, t) <=> /\ Len(s) <= Len(t)
                            /\ \A i \in 1..Len(s) : s[i] = t[Len(t) - Len(s) + i]
<1> DEFINE rs == Reverse(s)
           rt == Reverse(t)
<1>1. rs \in Seq(S) /\ Len(rs) = Len(s)
      /\ \A i \in 1..Len(s) : rs[i] = s[Len(s) - i + 1]
  BY DEF Reverse
<1>2. rt \in Seq(S) /\ Len(rt) = Len(t)
      /\ \A i \in 1..Len(t) : rt[i] = t[Len(t) - i + 1]
  BY DEF Reverse
<1> HIDE DEF rs, rt
<1>3. IsSuffix(s, t) <=> Len(s) <= Len(t) /\ SubSeq(rs, 1, Len(s)) = SubSeq(rt, 1, Len(s))
  BY <1>1, <1>2 DEF IsSuffix, IsPrefix, rs, rt
<1>4. Len(s) <= Len(t) =>
        (SubSeq(rs, 1, Len(s)) = SubSeq(rt, 1, Len(s))
           <=> \A i \in 1..Len(s) : rs[i] = rt[i])
  BY <1>1, <1>2
<1>5. Len(s) <= Len(t) =>
        ((\A i \in 1..Len(s) : rs[i] = rt[i])
           <=> \A i \in 1..Len(s) : s[i] = t[Len(t) - Len(s) + i])
  <2> SUFFICES ASSUME Len(s) <= Len(t)
               PROVE  (\A i \in 1..Len(s) : rs[i] = rt[i])
                        <=> \A i \in 1..Len(s) : s[i] = t[Len(t) - Len(s) + i]
    OBVIOUS
  <2>1. ASSUME \A i \in 1..Len(s) : rs[i] = rt[i], NEW i \in 1..Len(s)
        PROVE  s[i] = t[Len(t) - Len(s) + i]
    <3> DEFINE j == Len(s) - i + 1
    <3>1. j \in 1..Len(s) /\ j \in 1..Len(t)
          /\ Len(s) - j + 1 = i /\ Len(t) - j + 1 = Len(t) - Len(s) + i
      OBVIOUS
    <3> HIDE DEF j
    <3>2. rs[j] = s[i] /\ rt[j] = t[Len(t) - Len(s) + i]
      BY <3>1, <1>1, <1>2
    <3> QED
      BY <3>1, <3>2, <2>1
  <2>2. ASSUME \A i \in 1..Len(s) : s[i] = t[Len(t) - Len(s) + i], NEW j \in 1..Len(s)
        PROVE  rs[j] = rt[j]
    <3> DEFINE i == Len(s) - j + 1
    <3>1. i \in 1..Len(s) /\ Len(t) - j + 1 = Len(t) - Len(s) + i /\ j \in 1..Len(t)
      OBVIOUS
    <3>2. rs[j] = s[i]
      BY <1>1
    <3>3. rt[j] = t[Len(t) - j + 1]
      BY <3>1, <1>2
    <3> HIDE DEF i
    <3> QED
      BY <3>1, <3>2, <3>3, <2>2
  <2> QED
    BY <2>1, <2>2
<1> QED
  BY <1>3, <1>4, <1>5

\* A sequence is a suffix of itself.
LEMMA SuffixSelf ==
  ASSUME NEW S, NEW t \in Seq(S)
  PROVE  IsSuffix(t, t)
<1>1. \A i \in 1..Len(t) : t[i] = t[Len(t) - Len(t) + i]
  OBVIOUS
<1> QED
  BY <1>1, SuffixIs

\* The empty sequence is a suffix.
LEMMA SuffixEmpty ==
  ASSUME NEW S, NEW t \in Seq(S)
  PROVE  IsSuffix(<<>>, t)
<1> DEFINE none == <<>>
<1>1. none \in Seq(S) /\ Len(none) = 0
  OBVIOUS
<1> HIDE DEF none
<1>2. Len(none) <= Len(t)
      /\ \A i \in 1..Len(none) : none[i] = t[Len(t) - Len(none) + i]
  BY <1>1
<1>3. IsSuffix(none, t)
  BY <1>1, <1>2, SuffixIs
<1> QED
  BY <1>3 DEF none

\* What is left of a suffix is one.
LEMMA SuffixTail ==
  ASSUME NEW S, NEW s \in Seq(S), NEW t \in Seq(S), IsSuffix(s, t), s # <<>>
  PROVE  IsSuffix(Tail(s), t)
<1>1. Len(s) <= Len(t) /\ \A i \in 1..Len(s) : s[i] = t[Len(t) - Len(s) + i]
  BY SuffixIs
<1>2. Tail(s) \in Seq(S) /\ Len(Tail(s)) = Len(s) - 1
      /\ \A i \in 1..Len(Tail(s)) : Tail(s)[i] = s[i + 1]
  OBVIOUS
<1> DEFINE u == Tail(s)
<1>u. u \in Seq(S) /\ Len(u) = Len(s) - 1 /\ \A i \in 1..Len(u) : u[i] = s[i + 1]
  BY <1>2
<1> HIDE DEF u
<1>3. \A i \in 1..Len(u) : u[i] = t[Len(t) - Len(u) + i]
  <2> SUFFICES ASSUME NEW i \in 1..Len(u) PROVE u[i] = t[Len(t) - Len(u) + i]
    OBVIOUS
  <2>1. i + 1 \in 1..Len(s) /\ Len(t) - Len(s) + (i + 1) = Len(t) - Len(u) + i
    BY <1>u
  <2> QED
    BY <2>1, <1>1, <1>u
<1>4. u \in Seq(S) /\ Len(u) <= Len(t)
  BY <1>1, <1>u
<1>5. IsSuffix(u, t)
  BY <1>3, <1>4, SuffixIs
<1> QED
  BY <1>5 DEF u

-----------------------------------------------------------------------------
(* A finite set in an order.                                                *)

\* The pairs of R order the elements of S, any two of them.
StrictlyOrders(R, S) ==
  /\ \A a \in S : <<a, a>> \notin R
  /\ \A a, b \in S : a # b => (<<a, b>> \in R \/ <<b, a>> \in R)
  /\ \A a, b, c \in S : <<a, b>> \in R /\ <<b, c>> \in R => <<a, c>> \in R

\* Each element at its place: as many are before it as the order puts there.
Listed(S, R) ==
  [k \in 1..Cardinality(S) |->
     CHOOSE m \in S : Cardinality({l \in S : <<l, m>> \in R}) = k - 1]

\* The image of a finite set is finite.
LEMMA ImageIsFinite ==
  ASSUME NEW f, IsFiniteSet(DOMAIN f), f = [x \in DOMAIN f |-> f[x]]
  PROVE  /\ IsFiniteSet({f[x] : x \in DOMAIN f})
         /\ Cardinality({f[x] : x \in DOMAIN f}) <= Cardinality(DOMAIN f)
<1> DEFINE S == DOMAIN f
           T == {f[x] : x \in S}
<1>1. f \in [S -> T] /\ \A t \in T : \E s \in S : f[s] = t
  OBVIOUS
<1>2. f \in Surjection(S, T)
  BY <1>1 DEF Surjection
<1> HIDE DEF S, T
<1>3. IsFiniteSet(S)
  BY DEF S
<1>4. IsFiniteSet(T) /\ Cardinality(T) <= Cardinality(S)
  BY <1>2, <1>3, FS_Surjection
<1> QED
  BY <1>4 DEF S, T

\* Listed is a sequence of all the elements, once each, in the order.
LEMMA ListedIs ==
  ASSUME NEW S, IsFiniteSet(S), NEW R, StrictlyOrders(R, S)
  PROVE  /\ Listed(S, R) \in Seq(S) /\ Len(Listed(S, R)) = Cardinality(S)
         /\ \A m \in S : \E k \in 1..Cardinality(S) : Listed(S, R)[k] = m
         /\ \A i, j \in 1..Cardinality(S) :
              i < j <=> <<Listed(S, R)[i], Listed(S, R)[j]>> \in R
<1> DEFINE n == Cardinality(S)
           below(m) == {l \in S : <<l, m>> \in R}
           rank == [m \in S |-> Cardinality(below(m)) + 1]
           L == Listed(S, R)
<1>1. n \in Nat
  BY FS_CardinalityType
<1>2. ASSUME NEW m \in S
      PROVE  /\ IsFiniteSet(below(m)) /\ Cardinality(below(m)) \in Nat
             /\ Cardinality(below(m)) < n
  <2>1. below(m) \subseteq S \ {m}
    BY DEF StrictlyOrders
  <2>2. IsFiniteSet(S \ {m}) /\ Cardinality(S \ {m}) = n - 1
    BY FS_RemoveElement
  <2> HIDE DEF below, n
  <2>3. IsFiniteSet(below(m)) /\ Cardinality(below(m)) <= n - 1
    BY <2>1, <2>2, FS_Subset
  <2>4. Cardinality(below(m)) \in Nat
    BY <2>3, FS_CardinalityType
  <2> QED
    BY <1>1, <2>3, <2>4
<1>3. ASSUME NEW a \in S, NEW b \in S, <<a, b>> \in R
      PROVE  Cardinality(below(a)) < Cardinality(below(b))
  <2>1. a \notin below(a) /\ below(a) \cup {a} \subseteq below(b)
    BY <1>3 DEF StrictlyOrders
  <2> HIDE DEF below
  <2>2. Cardinality(below(a) \cup {a}) = Cardinality(below(a)) + 1
    BY <1>2, <2>1, FS_AddElement
  <2>3. Cardinality(below(a) \cup {a}) <= Cardinality(below(b))
    BY <1>2, <2>1, FS_Subset
  <2> QED
    BY <1>2, <2>2, <2>3
<1> HIDE DEF below, n
<1>4. rank \in [S -> 1..n] /\ \A m \in S : rank[m] = Cardinality(below(m)) + 1
  BY <1>1, <1>2
<1> HIDE DEF rank
<1>5. \A a, b \in S : rank[a] < rank[b] <=> <<a, b>> \in R
  <2>1. ASSUME NEW a \in S, NEW b \in S, <<a, b>> \in R PROVE rank[a] < rank[b]
    BY <1>2, <1>3, <1>4, <2>1
  <2>2. ASSUME NEW a \in S, NEW b \in S, rank[a] < rank[b] PROVE <<a, b>> \in R
    <3>1. a # b /\ ~(rank[b] < rank[a])
      BY <1>1, <1>4, <2>2
    <3>2. <<b, a>> \notin R
      BY <2>1, <3>1
    <3> QED
      BY <3>1, <3>2 DEF StrictlyOrders
  <2> QED
    BY <2>1, <2>2
<1>6. \A a, b \in S : rank[a] = rank[b] => a = b
  BY <1>1, <1>4, <1>5 DEF StrictlyOrders
<1>7. \A k \in 1..n : \E m \in S : rank[m] = k
  <2>1. rank \in Injection(S, 1..n)
    BY <1>4, <1>6 DEF Injection, IsInjective
  <2>2. 1 \in Int /\ n \in Int
    BY <1>1
  <2>3. IsFiniteSet(1..n) /\ Cardinality(1..n) = IF 1 > n THEN 0 ELSE n - 1 + 1
    BY <2>2, FS_Interval
  <2>4. Cardinality(1..n) = Cardinality(S)
    BY <1>1, <2>3 DEF n
  <2>5. rank \in Surjection(S, 1..n)
    BY <2>1, <2>3, <2>4, FS_Injection
  <2> QED
    BY <2>5 DEF Surjection
<1>8. L = [k \in 1..n |-> CHOOSE m \in S : Cardinality(below(m)) = k - 1]
  BY DEF Listed, below, n
<1> HIDE DEF L
<1>9. \A k \in 1..n : L[k] \in S /\ rank[L[k]] = k
  <2> SUFFICES ASSUME NEW k \in 1..n PROVE L[k] \in S /\ rank[L[k]] = k
    OBVIOUS
  <2>1. \E m \in S : Cardinality(below(m)) = k - 1
    <3>1. PICK m \in S : rank[m] = k
      BY <1>7
    <3>2. Cardinality(below(m)) = k - 1
      BY <1>1, <1>2, <1>4, <3>1
    <3> QED
      BY <3>2
  <2>2. L[k] \in S /\ Cardinality(below(L[k])) = k - 1
    BY <1>8, <2>1
  <2> QED
    BY <1>1, <1>4, <2>2
<1>10. L \in Seq(S) /\ Len(L) = n
  <2>1. L \in [1..n -> S]
    BY <1>8, <1>9
  <2> QED
    BY <1>1, <2>1
<1>11. \A m \in S : rank[m] \in 1..n /\ L[rank[m]] = m
  BY <1>4, <1>6, <1>9
<1>12. \A i, j \in 1..n : i < j <=> <<L[i], L[j]>> \in R
  BY <1>5, <1>9
<1> QED
  BY <1>10, <1>11, <1>12 DEF L, n

-----------------------------------------------------------------------------
(* Sums and products over finite sets.                                      *)

\* The element a fold takes first.
Some(s) == CHOOSE x \in s : TRUE

\* g holds the sums of f over the sets of D.
Sums(g, f, D) ==
  g = [s \in D |-> IF s = {} THEN 0 ELSE f[Some(s)] + g[s \ {Some(s)}]]

\* Or their sums or products, as kind says.
Unity(kind) == IF kind = "sum" THEN 0 ELSE 1
Combine(kind, a, b) == IF kind = "sum" THEN a + b ELSE a * b
Folds(g, kind, f, D) ==
  g = [s \in D |-> IF s = {} THEN Unity(kind) ELSE Combine(kind, f[Some(s)], g[s \ {Some(s)}])]

\* A set without one of its elements is smaller.
LEMMA SomeIsLess ==
  ASSUME NEW s, IsFiniteSet(s), s # {}
  PROVE  /\ Some(s) \in s /\ IsFiniteSet(s \ {Some(s)})
         /\ Cardinality(s) \in Nat /\ Cardinality(s \ {Some(s)}) = Cardinality(s) - 1
<1>1. Some(s) \in s
  BY DEF Some
<1> QED
  BY <1>1, FS_RemoveElement, FS_CardinalityType

\* What holds of the empty set, and of a set when it holds of every set with one
\* element less of it, holds of every finite set.
LEMMA SubsetInduction ==
  ASSUME NEW S, IsFiniteSet(S), NEW P, {} \in P,
         \A s \in SUBSET S : s # {} /\ (\A x \in s : s \ {x} \in P) => s \in P
  PROVE  SUBSET S \subseteq P
<1> DEFINE N == {n \in Nat : \A s \in SUBSET S : Cardinality(s) = n => s \in P}
<1>0. \A s \in SUBSET S : IsFiniteSet(s) /\ Cardinality(s) \in Nat
  BY FS_Subset, FS_CardinalityType
<1>1. 0 \in N
  BY <1>0, FS_EmptySet
<1>2. ASSUME NEW n \in Nat, n \in N PROVE n + 1 \in N
  <2> SUFFICES ASSUME NEW s \in SUBSET S, Cardinality(s) = n + 1 PROVE s \in P
    OBVIOUS
  <2>1. s # {}
    BY FS_EmptySet
  <2>2. ASSUME NEW x \in s PROVE s \ {x} \in P
    <3>1. Cardinality(s \ {x}) = n
      BY <1>0, FS_RemoveElement
    <3> QED
      BY <1>2, <3>1
  <2> QED
    BY <2>1, <2>2
<1> HIDE DEF N
<1>3. Nat \subseteq N
  BY <1>1, <1>2, SetInduction
<1> QED
  BY <1>0, <1>3 DEF N

\* The sums or products over the subsets of a finite set exist.
LEMMA FoldsExist ==
  ASSUME NEW S, IsFiniteSet(S), NEW f, NEW kind
  PROVE  \E g : Folds(g, kind, f, SUBSET S)
<1> DEFINE D(n) == {s \in SUBSET S : Cardinality(s) <= n}
           N == {n \in Nat : \E g : Folds(g, kind, f, D(n))}
           next(g, s) == IF s = {} THEN Unity(kind) ELSE Combine(kind, f[Some(s)], g[s \ {Some(s)}])
<1>0. \A s \in SUBSET S : IsFiniteSet(s) /\ Cardinality(s) \in Nat
                          /\ Cardinality(s) <= Cardinality(S)
  BY FS_Subset, FS_CardinalityType
<1>d. \A g, T : Folds(g, kind, f, T) <=> g = [s \in T |-> next(g, s)]
  BY DEF Folds
<1>e. \A s \in SUBSET S : s # {} =>
        Some(s) \in s /\ Cardinality(s \ {Some(s)}) = Cardinality(s) - 1
  BY <1>0, SomeIsLess
<1>1. 0 \in N
  <2> DEFINE g == [s \in D(0) |-> Unity(kind)]
  <2>1. \A s \in D(0) : s = {}
    BY <1>0, FS_EmptySet
  <2>2. g = [s \in D(0) |-> next(g, s)]
    <3>1. \A s \in D(0) : next(g, s) = Unity(kind)
      BY <2>1
    <3> HIDE DEF D, next
    <3> QED
      BY <3>1
  <2> HIDE DEF g, D, next
  <2> QED
    BY <1>d, <2>2
<1>2. ASSUME NEW n \in Nat, n \in N PROVE n + 1 \in N
  <2>1. PICK g : Folds(g, kind, f, D(n))
    BY <1>2
  <2> DEFINE h == [s \in D(n + 1) |-> next(g, s)]
  <2>2. \A s \in D(n) : g[s] = next(g, s)
    <3>1. g = [s \in D(n) |-> next(g, s)]
      BY <1>d, <2>1
    <3> HIDE DEF D, next
    <3> QED
      BY <3>1
  <2>3. \A s \in D(n) : s \in D(n + 1) /\ h[s] = g[s]
    <3>1. \A s \in D(n) : s \in D(n + 1)
      BY <1>0
    <3> HIDE DEF D, next
    <3> QED
      BY <2>2, <3>1
  <2>4. \A s \in D(n + 1) : next(h, s) = next(g, s)
    <3> SUFFICES ASSUME NEW s \in D(n + 1), s # {} PROVE next(h, s) = next(g, s)
      BY DEF next
    <3>1. s \ {Some(s)} \in D(n)
      BY <1>0, <1>e
    <3>2. h[s \ {Some(s)}] = g[s \ {Some(s)}]
      BY <2>3, <3>1
    <3> HIDE DEF h, D
    <3> QED
      BY <3>2
  <2>5. h = [s \in D(n + 1) |-> next(h, s)]
    <3>1. h = [s \in D(n + 1) |-> next(g, s)]
      OBVIOUS
    <3> HIDE DEF h, D, next
    <3> QED
      BY <2>4, <3>1
  <2> HIDE DEF h, D, next
  <2>6. Folds(h, kind, f, D(n + 1))
    BY <1>d, <2>5
  <2> QED
    BY <2>6
<1> HIDE DEF N, next
<1>3. Nat \subseteq N
  BY <1>1, <1>2, SetInduction
<1>4. Cardinality(S) \in N
  BY <1>3, FS_CardinalityType
<1>5. D(Cardinality(S)) = SUBSET S
  BY <1>0
<1> HIDE DEF D
<1> QED
  BY <1>4, <1>5 DEF N

LEMMA SumsExist ==
  ASSUME NEW S, IsFiniteSet(S), NEW f
  PROVE  \E g : Sums(g, f, SUBSET S)
<1>1. PICK g : Folds(g, "sum", f, SUBSET S)
  BY FoldsExist
<1>2. Sums(g, f, SUBSET S)
  BY <1>1 DEF Sums, Folds, Unity, Combine
<1> QED
  BY <1>2

\* A product of numbers above zero is above zero.
Product(f, S) == FoldFunctionOnSet(LAMBDA v, rest : v * rest, 1, f, S)

LEMMA ProductIs ==
  ASSUME NEW S, IsFiniteSet(S), NEW f, \A x \in S : f[x] \in Nat \ {0}
  PROVE  Product(f, S) \in Nat \ {0}
<1> DEFINE body(g) == [s \in SUBSET S |-> IF s = {} THEN 1 ELSE f[Some(s)] * g[s \ {Some(s)}]]
           product == CHOOSE g : g = body(g)
           P == {s \in SUBSET S : product[s] \in Nat \ {0}}
<1>1. Product(f, S) = product[S]
  BY DEF Product, FoldFunctionOnSet, MapThenFoldSet, Some
<1>2. \E g : g = body(g)
  <2>1. PICK g : Folds(g, "product", f, SUBSET S)
    BY FoldsExist
  <2>2. g = body(g)
    BY <2>1 DEF Folds, Unity, Combine
  <2> QED
    BY <2>2
<1>3. product = body(product)
  <2> HIDE DEF body
  <2> QED
    BY <1>2
<1> HIDE DEF product
<1>4. \A s \in SUBSET S : product[s] = IF s = {} THEN 1 ELSE f[Some(s)] * product[s \ {Some(s)}]
  BY <1>3
<1> HIDE DEF body
<1>5. {} \in P
  BY <1>4
<1>6. ASSUME NEW s \in SUBSET S, s # {}, \A x \in s : s \ {x} \in P PROVE s \in P
  <2> DEFINE a == f[Some(s)]
             b == product[s \ {Some(s)}]
  <2>1. Some(s) \in s
    BY <1>6 DEF Some
  <2>2. product[s] = a * b
    BY <1>4, <1>6
  <2>3. a \in Nat \ {0} /\ b \in Nat \ {0}
    BY <1>6, <2>1
  <2> HIDE DEF a, b
  <2>4. a * b \in Nat \ {0}
    BY <2>3
  <2> QED
    BY <2>2, <2>4
<1> HIDE DEF P
<1>7. S \in P
  BY <1>5, <1>6, SubsetInduction
<1> QED
  BY <1>1, <1>7 DEF P

\* A sum, by its elements: of none it is 0, and every element can be taken first.
LEMMA SumsAre ==
  ASSUME NEW S, IsFiniteSet(S), NEW f \in [S -> Int], NEW g, Sums(g, f, SUBSET S)
  PROVE  /\ g[{}] = 0
         /\ \A s \in SUBSET S : g[s] \in Int
         /\ \A s \in SUBSET S : \A y \in s : g[s] = f[y] + g[s \ {y}]
<1> DEFINE I == {s \in SUBSET S : g[s] \in Int}
           A == {s \in SUBSET S : \A y \in s : g[s] = f[y] + g[s \ {y}]}
<1>1. \A s \in SUBSET S : g[s] = IF s = {} THEN 0 ELSE f[Some(s)] + g[s \ {Some(s)}]
  BY DEF Sums
<1>2. \A s \in SUBSET S : s # {} => Some(s) \in s
  BY DEF Some
<1>3. g[{}] = 0
  BY <1>1
<1>4. SUBSET S \subseteq I
  <2>1. {} \in I
    BY <1>3
  <2>2. ASSUME NEW s \in SUBSET S, s # {}, \A x \in s : s \ {x} \in I PROVE s \in I
    <3>1. Some(s) \in s /\ g[s] = f[Some(s)] + g[s \ {Some(s)}]
      BY <1>1, <1>2, <2>2
    <3>2. f[Some(s)] \in Int /\ g[s \ {Some(s)}] \in Int
      BY <2>2, <3>1
    <3> QED
      BY <3>1, <3>2
  <2> HIDE DEF I
  <2> QED
    BY <2>1, <2>2, SubsetInduction
<1>5. SUBSET S \subseteq A
  <2>1. {} \in A
    OBVIOUS
  <2>2. ASSUME NEW s \in SUBSET S, s # {}, \A x \in s : s \ {x} \in A PROVE s \in A
    <3> DEFINE x == Some(s)
    <3>1. x \in s /\ g[s] = f[x] + g[s \ {x}]
      BY <1>1, <1>2, <2>2
    <3> HIDE DEF x
    <3> SUFFICES ASSUME NEW y \in s, y # x PROVE g[s] = f[y] + g[s \ {y}]
      BY <3>1
    <3> DEFINE rest == s \ {x, y}
    <3>2. (s \ {x}) \ {y} = rest /\ (s \ {y}) \ {x} = rest
      OBVIOUS
    <3>3. g[s \ {x}] = f[y] + g[rest]
      BY <2>2, <3>1, <3>2
    <3>4. g[s \ {y}] = f[x] + g[rest]
      BY <2>2, <3>1, <3>2
    <3>5. g[rest] \in Int /\ f[x] \in Int /\ f[y] \in Int
      BY <1>4, <3>1
    <3> HIDE DEF rest
    <3> QED
      BY <3>1, <3>3, <3>4, <3>5
  <2> HIDE DEF A
  <2> QED
    BY <2>1, <2>2, SubsetInduction
<1> QED
  BY <1>3, <1>4, <1>5

\* Two functions have the same values on a set.
Agree(f, h, S) == \A x \in S : f[x] = h[x]

\* Sums of functions that agree, over sets that overlap, agree.
LEMMA SumsAgree ==
  ASSUME NEW S, IsFiniteSet(S), NEW f, NEW h, Agree(f, h, S),
         NEW D, NEW g, Sums(g, f, D), NEW E, NEW k, Sums(k, h, E),
         SUBSET S \subseteq D, SUBSET S \subseteq E
  PROVE  g[S] = k[S]
<1> DEFINE P == {s \in SUBSET S : g[s] = k[s]}
<1>1. \A s \in SUBSET S : g[s] = IF s = {} THEN 0 ELSE f[Some(s)] + g[s \ {Some(s)}]
  BY DEF Sums
<1>2. \A s \in SUBSET S : k[s] = IF s = {} THEN 0 ELSE h[Some(s)] + k[s \ {Some(s)}]
  BY DEF Sums
<1>3. {} \in P
  BY <1>1, <1>2
<1>4. ASSUME NEW s \in SUBSET S, s # {}, \A x \in s : s \ {x} \in P PROVE s \in P
  <2>1. Some(s) \in s
    BY <1>4 DEF Some
  <2>2. g[s \ {Some(s)}] = k[s \ {Some(s)}] /\ f[Some(s)] = h[Some(s)]
    BY <1>4, <2>1 DEF Agree
  <2> QED
    BY <1>1, <1>2, <1>4, <2>2
<1> HIDE DEF P
<1>5. S \in P
  BY <1>3, <1>4, SubsetInduction
<1> QED
  BY <1>5 DEF P

\* The sum of f over S.
Total(f, S) == (CHOOSE g : Sums(g, f, SUBSET S))[S]

\* Any element can be taken first.
LEMMA TakenFirst ==
  ASSUME NEW S, IsFiniteSet(S), NEW f \in [S -> Int], NEW g, NEW D, Sums(g, f, D),
         D = SUBSET S, NEW y \in S
  PROVE  g[S] = f[y] + g[S \ {y}]
<1>1. ASSUME NEW s \in SUBSET S, NEW z \in s PROVE g[s] = f[z] + g[s \ {z}]
  BY SumsAre
<1>2. PICK s \in SUBSET S : s = S
  OBVIOUS
<1>3. y \in s
  BY <1>2
<1> QED
  BY <1>1, <1>2, <1>3

LEMMA TotalOf ==
  ASSUME NEW S, IsFiniteSet(S), NEW f, NEW g, Sums(g, f, SUBSET S)
  PROVE  Total(f, S) = g[S]
<1> DEFINE k == CHOOSE k : Sums(k, f, SUBSET S)
<1>1. Sums(k, f, SUBSET S)
  OBVIOUS
<1> HIDE DEF k
<1>2. k[S] = g[S]
  <2>1. SUBSET S \subseteq SUBSET S /\ Agree(f, f, S)
    BY DEF Agree
  <2> QED
    BY <1>1, <2>1, SumsAgree
<1> QED
  BY <1>2 DEF Total, k

\* It is that of what is summed.
LEMMA TotalSame ==
  ASSUME NEW S, IsFiniteSet(S), NEW f, NEW h, \A x \in S : f[x] = h[x]
  PROVE  Total(f, S) = Total(h, S)
<1>1. PICK g : Sums(g, f, SUBSET S)
  BY SumsExist
<1>2. PICK k : Sums(k, h, SUBSET S)
  BY SumsExist
<1>3. g[S] = k[S]
  <2>1. SUBSET S \subseteq SUBSET S /\ Agree(f, h, S)
    BY DEF Agree
  <2> QED
    BY <1>1, <1>2, <2>1, SumsAgree
<1> QED
  BY <1>1, <1>2, <1>3, TotalOf

LEMMA TotalSteps ==
  ASSUME NEW S, IsFiniteSet(S), NEW f \in [S -> Int], NEW y \in S
  PROVE  Total(f, S) = f[y] + Total(f, S \ {y})
<1> DEFINE rest == S \ {y}
<1>1. PICK g : Sums(g, f, SUBSET S)
  BY SumsExist
<1>2. rest \in SUBSET S /\ S \in SUBSET S /\ IsFiniteSet(rest)
  BY FS_Subset
<1>3. g[S] = f[y] + g[rest]
  <2>1. Sums(g, f, SUBSET S)
    BY <1>1
  <2> QED
    BY <1>2, <2>1, TakenFirst
<1>4. Total(f, S) = g[S]
  BY <1>1, TotalOf
<1>5. Total(f, rest) = g[rest]
  <2>1. PICK k : Sums(k, f, SUBSET rest)
    BY <1>2, SumsExist
  <2>2. SUBSET rest \subseteq SUBSET S /\ SUBSET rest \subseteq SUBSET rest /\ Agree(f, f, rest)
    BY <1>2 DEF Agree
  <2> HIDE DEF rest
  <2>3. k[rest] = g[rest]
    BY <1>1, <1>2, <2>1, <2>2, SumsAgree
  <2> QED
    BY <1>2, <2>1, <2>3, TotalOf
<1> QED
  BY <1>3, <1>4, <1>5

\* A sum, by its elements: of none it is 0, and any element can be taken first.
LEMMA TotalIs ==
  ASSUME NEW S, IsFiniteSet(S), NEW f, \A x \in S : f[x] \in Int
  PROVE  /\ S = {} => Total(f, S) = 0
         /\ Total(f, S) \in Int
         /\ \A y \in S : Total(f, S) = f[y] + Total(f, S \ {y})
<1> DEFINE h == [x \in S |-> f[x]]
<1>0. h \in [S -> Int] /\ \A x \in S : h[x] = f[x]
  OBVIOUS
<1> HIDE DEF h
<1>1. ASSUME NEW s \in SUBSET S PROVE Total(f, s) = Total(h, s)
  BY <1>0, FS_Subset, TotalSame
<1>2. Total(h, S) \in Int /\ (S = {} => Total(h, S) = 0)
  <2>1. PICK g : Sums(g, h, SUBSET S)
    BY SumsExist
  <2>2. g[{}] = 0 /\ g[S] \in Int
    <3>1. S \in SUBSET S
      OBVIOUS
    <3> QED
      BY <1>0, <2>1, <3>1, SumsAre
  <2>3. Total(h, S) = g[S]
    BY <2>1, TotalOf
  <2> QED
    BY <2>2, <2>3
<1>3. ASSUME NEW y \in S PROVE Total(f, S) = f[y] + Total(f, S \ {y})
  <2>1. Total(h, S) = h[y] + Total(h, S \ {y})
    BY <1>0, TotalSteps
  <2>2. Total(f, S) = Total(h, S)
    BY <1>1
  <2>3. Total(f, S \ {y}) = Total(h, S \ {y})
    BY <1>1
  <2> QED
    BY <1>0, <2>1, <2>2, <2>3
<1>4. Total(f, S) = Total(h, S)
  BY <1>1
<1> QED
  BY <1>2, <1>3, <1>4

\* Nothing adds up to nothing.
LEMMA TotalOfNothing ==
  ASSUME NEW S, IsFiniteSet(S), NEW f, \A x \in S : f[x] = 0
  PROVE  Total(f, S) = 0
<1> DEFINE P == {s \in SUBSET S : Total(f, s) = 0}
<1>1. {} \in P
  BY TotalIs, FS_EmptySet
<1>2. ASSUME NEW s \in SUBSET S, s # {}, \A x \in s : s \ {x} \in P PROVE s \in P
  <2>1. PICK y : y \in s
    BY <1>2
  <2>2. IsFiniteSet(s) /\ \A x \in s : f[x] \in Int
    BY FS_Subset
  <2>3. Total(f, s) = f[y] + Total(f, s \ {y})
    BY <2>1, <2>2, TotalIs
  <2> QED
    BY <1>2, <2>1, <2>3
<1> HIDE DEF P
<1>3. S \in P
  BY <1>1, <1>2, SubsetInduction
<1> QED
  BY <1>3 DEF P

\* The sum of a function over a set, as the folds of the library take it.
LEMMA SumIs ==
  ASSUME NEW f, NEW S, IsFiniteSet(S)
  PROVE  SumFunctionOnSet(f, S) = Total(f, S)
<1> DEFINE body(g) == [s \in SUBSET S |-> IF s = {} THEN 0 ELSE f[Some(s)] + g[s \ {Some(s)}]]
           sum == CHOOSE g : g = body(g)
<1>1. SumFunctionOnSet(f, S) = sum[S]
  BY DEF SumFunctionOnSet, FoldFunctionOnSet, MapThenFoldSet, Some
<1>2. \A g : Sums(g, f, SUBSET S) <=> g = body(g)
  BY DEF Sums
<1>3. \E g : Sums(g, f, SUBSET S)
  BY SumsExist
<1> HIDE DEF body
<1>4. \E g : g = body(g)
  BY <1>2, <1>3
<1>5. sum = body(sum)
  BY <1>4
<1> HIDE DEF sum
<1>6. Sums(sum, f, SUBSET S)
  BY <1>2, <1>5
<1>7. Total(f, S) = sum[S]
  BY <1>6, TotalOf
<1> QED
  BY <1>1, <1>7

\* And over all its arguments.
LEMMA SumOfAll ==
  ASSUME NEW f, IsFiniteSet(DOMAIN f)
  PROVE  SumFunction(f) = Total(f, DOMAIN f)
<1> DEFINE D == DOMAIN f
<1>1. SumFunction(f) = SumFunctionOnSet(f, D)
  BY DEF SumFunction
<1>2. IsFiniteSet(D)
  OBVIOUS
<1> HIDE DEF D
<1>3. SumFunctionOnSet(f, D) = Total(f, D)
  BY <1>2, SumIs
<1> QED
  BY <1>1, <1>3 DEF D

\* What is appended is added.
LEMMA SumOfAppend ==
  ASSUME NEW seq \in Seq(Int), NEW x \in Int
  PROVE  /\ SumFunction(seq) \in Int
         /\ SumFunction(Append(seq, x)) = SumFunction(seq) + x
<1> DEFINE longer == Append(seq, x)
           n == Len(seq)
<1>1. n \in Nat /\ DOMAIN seq = 1..n /\ \A i \in 1..n : seq[i] \in Int
  OBVIOUS
<1>2. longer \in Seq(Int) /\ Len(longer) = n + 1 /\ longer[n + 1] = x
      /\ \A i \in 1..n : longer[i] = seq[i]
  OBVIOUS
<1>3. DOMAIN longer = 1..(n + 1) /\ \A i \in 1..(n + 1) : longer[i] \in Int
  BY <1>2
<1> HIDE DEF longer, n
<1>4. IsFiniteSet(1..n) /\ IsFiniteSet(1..(n + 1))
  <2>1. 1 \in Int /\ n \in Int /\ n + 1 \in Int
    BY <1>1
  <2> QED
    BY <2>1, FS_Interval
<1>5. n + 1 \in 1..(n + 1) /\ (1..(n + 1)) \ {n + 1} = 1..n
  BY <1>1
<1>6. Total(longer, 1..(n + 1)) = x + Total(longer, 1..n)
  <2> DEFINE all == 1..(n + 1)
  <2>1. IsFiniteSet(all) /\ n + 1 \in all /\ \A i \in all : longer[i] \in Int
    BY <1>3, <1>4, <1>5
  <2> HIDE DEF all
  <2>2. Total(longer, all) = longer[n + 1] + Total(longer, all \ {n + 1})
    BY <2>1, TotalIs
  <2> QED
    BY <1>2, <1>5, <2>2 DEF all
<1>7. Total(longer, 1..n) = Total(seq, 1..n)
  BY <1>2, <1>4, TotalSame
<1>8. Total(seq, 1..n) \in Int
  BY <1>1, <1>4, TotalIs
<1>9. SumFunction(seq) = Total(seq, 1..n) /\ SumFunction(longer) = Total(longer, 1..(n + 1))
  BY <1>1, <1>3, <1>4, SumOfAll
<1> DEFINE old == SumFunction(seq)
           new == SumFunction(longer)
<1>10. old = Total(seq, 1..n) /\ new = Total(longer, 1..(n + 1))
  BY <1>9
<1> HIDE DEF old, new
<1>11. old \in Int /\ new = old + x
  BY <1>6, <1>7, <1>8, <1>10
<1> QED
  BY <1>11 DEF old, new, longer

LEMMA SumOfNone == SumFunction(<<>>) = 0
<1>1. DOMAIN <<>> = {}
  OBVIOUS
<1>2. IsFiniteSet({})
  BY FS_EmptySet
<1>3. Total(<<>>, {}) = 0
  BY <1>2, TotalIs
<1>4. SumFunction(<<>>) = Total(<<>>, DOMAIN <<>>)
  BY <1>1, <1>2, SumOfAll
<1> QED
  BY <1>1, <1>3, <1>4

-----------------------------------------------------------------------------
(* Images and unions of finite sets, and the first of a finite set.         *)

\* The image of a finite set under a function is finite, and not larger.
LEMMA ImageOf ==
  ASSUME NEW S, IsFiniteSet(S), NEW f
  PROVE  /\ IsFiniteSet({f[x] : x \in S})
         /\ Cardinality({f[x] : x \in S}) <= Cardinality(S)
<1> DEFINE g == [x \in S |-> f[x]]
<1>1. IsFiniteSet(DOMAIN g) /\ g = [x \in DOMAIN g |-> g[x]] /\ DOMAIN g = S
  OBVIOUS
<1>2. {g[x] : x \in DOMAIN g} = {f[x] : x \in S}
  OBVIOUS
<1> HIDE DEF g
<1>3. /\ IsFiniteSet({g[x] : x \in DOMAIN g})
      /\ Cardinality({g[x] : x \in DOMAIN g}) <= Cardinality(DOMAIN g)
  BY <1>1, ImageIsFinite
<1> QED
  BY <1>1, <1>2, <1>3

\* One that can be undone leaves the size as it was.
LEMMA ImageSameSize ==
  ASSUME NEW S, IsFiniteSet(S), NEW f, NEW g, \A x \in S : g[f[x]] = x
  PROVE  Cardinality({f[x] : x \in S}) = Cardinality(S)
<1> DEFINE T == {f[x] : x \in S}
<1>1. {g[y] : y \in T} = S
  OBVIOUS
<1>2. IsFiniteSet(T) /\ Cardinality(T) <= Cardinality(S)
  BY ImageOf
<1> HIDE DEF T
<1>3. Cardinality({g[y] : y \in T}) <= Cardinality(T)
  BY <1>2, ImageOf
<1>4. Cardinality(T) \in Nat /\ Cardinality(S) \in Nat
  BY <1>2, FS_CardinalityType
<1>5. Cardinality(T) = Cardinality(S)
  BY <1>1, <1>2, <1>3, <1>4
<1> QED
  BY <1>5 DEF T

\* Finitely many finite sets make a finite one.
LEMMA UnionIsFinite ==
  ASSUME NEW n \in Nat, NEW f, \A i \in 1..n : IsFiniteSet(f[i])
  PROVE  IsFiniteSet(UNION {f[i] : i \in 1..n})
<1> DEFINE U(k) == UNION {f[i] : i \in 1..k}
           N == {k \in Nat : k <= n => IsFiniteSet(U(k))}
<1>1. 0 \in N
  <2>1. U(0) = {}
    OBVIOUS
  <2> HIDE DEF U
  <2> QED
    BY <2>1, FS_EmptySet
<1>2. ASSUME NEW k \in Nat, k \in N PROVE k + 1 \in N
  <2> SUFFICES ASSUME k + 1 <= n PROVE IsFiniteSet(U(k + 1))
    OBVIOUS
  <2>1. U(k + 1) = U(k) \cup f[k + 1]
    <3>1. 1..(k + 1) = 1..k \cup {k + 1}
      OBVIOUS
    <3> QED
      BY <3>1
  <2>2. IsFiniteSet(U(k)) /\ IsFiniteSet(f[k + 1])
    BY <1>2
  <2> HIDE DEF U
  <2> QED
    BY <2>1, <2>2, FS_Union
<1> HIDE DEF N
<1>3. n \in N
  BY <1>1, <1>2, SetInduction
<1> QED
  BY <1>3 DEF N

\* A finite set that is ordered has a first element.
LEMMA FirstOf ==
  ASSUME NEW S, IsFiniteSet(S), S # {}, NEW R, StrictlyOrders(R, S)
  PROVE  \E a \in S : \A b \in S : b # a => <<a, b>> \in R
<1> DEFINE L == Listed(S, R)
           n == Cardinality(S)
<1>1. n \in Nat \ {0}
  BY FS_CardinalityType, FS_EmptySet
<1>2. /\ L \in Seq(S) /\ Len(L) = n /\ \A m \in S : \E k \in 1..n : L[k] = m
      /\ \A i, j \in 1..n : i < j <=> <<L[i], L[j]>> \in R
  BY ListedIs
<1> HIDE DEF L, n
<1>3. L[1] \in S
  BY <1>1, <1>2
<1>4. ASSUME NEW b \in S, b # L[1] PROVE <<L[1], b>> \in R
  <2>1. PICK k \in 1..n : L[k] = b
    BY <1>2
  <2>2. 1 \in 1..n /\ 1 < k
    BY <1>1, <1>4, <2>1
  <2> QED
    BY <1>2, <2>1, <2>2
<1> QED
  BY <1>3, <1>4

\* Numbers are ordered.
LEMMA NumbersAreOrdered ==
  ASSUME NEW S \in SUBSET Int
  PROVE  StrictlyOrders({p \in S \X S : p[1] < p[2]}, S)
BY DEF StrictlyOrders

\* A finite set of numbers that is not empty has a least one.
LEMMA MinIs ==
  ASSUME NEW S \in SUBSET Int, IsFiniteSet(S), S # {}
  PROVE  Min(S) \in S /\ \A x \in S : Min(S) <= x
<1> DEFINE R == {p \in S \X S : p[1] < p[2]}
<1>1. StrictlyOrders(R, S)
  BY NumbersAreOrdered
<1>2. \A a, b \in S : <<a, b>> \in R => a < b
  OBVIOUS
<1> HIDE DEF R
<1>3. PICK a \in S : \A b \in S : b # a => <<a, b>> \in R
  BY <1>1, FirstOf
<1>4. ASSUME NEW b \in S PROVE a <= b
  <2>1. a \in Int /\ b \in Int
    OBVIOUS
  <2>2. b # a => a < b
    BY <1>2, <1>3
  <2> QED
    BY <2>1, <2>2
<1> QED
  BY <1>4 DEF Min

\* A finite set of numbers that is not empty has a greatest one.
LEMMA MaxIs ==
  ASSUME NEW S \in SUBSET Int, IsFiniteSet(S), S # {}
  PROVE  Max(S) \in S /\ \A x \in S : Max(S) >= x
<1> DEFINE R == {p \in S \X S : p[1] > p[2]}
<1>1. StrictlyOrders(R, S)
  BY DEF StrictlyOrders
<1>2. \A a, b \in S : <<a, b>> \in R => a > b
  OBVIOUS
<1> HIDE DEF R
<1>3. PICK a \in S : \A b \in S : b # a => <<a, b>> \in R
  BY <1>1, FirstOf
<1>4. ASSUME NEW b \in S PROVE a >= b
  <2>1. a \in Int /\ b \in Int
    OBVIOUS
  <2>2. b # a => a > b
    BY <1>2, <1>3
  <2> QED
    BY <2>1, <2>2
<1> QED
  BY <1>4 DEF Max

\* A sum of numbers above zero is at least as great as their number.
LEMMA TotalGrows ==
  ASSUME NEW S, IsFiniteSet(S), NEW f, \A x \in S : f[x] \in Nat \ {0}
  PROVE  Total(f, S) \in Nat /\ Total(f, S) >= Cardinality(S)
<1> DEFINE P == {s \in SUBSET S : Total(f, s) \in Nat /\ Total(f, s) >= Cardinality(s)}
<1>1. {} \in P
  BY TotalIs, FS_EmptySet
<1>2. ASSUME NEW s \in SUBSET S, s # {}, \A x \in s : s \ {x} \in P PROVE s \in P
  <2>1. PICK y : y \in s
    BY <1>2
  <2>2. IsFiniteSet(s) /\ \A x \in s : f[x] \in Int
    BY FS_Subset
  <2>3. Total(f, s) = f[y] + Total(f, s \ {y})
    BY <2>1, <2>2, TotalIs
  <2>4. Cardinality(s \ {y}) = Cardinality(s) - 1 /\ Cardinality(s) \in Nat
    BY <2>1, <2>2, FS_RemoveElement, FS_CardinalityType
  <2>5. Total(f, s \ {y}) \in Nat /\ Total(f, s \ {y}) >= Cardinality(s \ {y})
    BY <1>2, <2>1
  <2>6. f[y] \in Nat \ {0}
    BY <2>1
  <2> QED
    BY <2>3, <2>4, <2>5, <2>6
<1> HIDE DEF P
<1>3. S \in P
  BY <1>1, <1>2, SubsetInduction
<1> QED
  BY <1>3 DEF P

\* A sum can be taken over an image that keeps elements apart.
LEMMA TotalOfImage ==
  ASSUME NEW S, IsFiniteSet(S), NEW f, NEW g, \A x \in S : g[f[x]] = x,
         NEW u, NEW v, \A x \in S : u[x] \in Int /\ v[f[x]] = u[x]
  PROVE  Total(v, {f[x] : x \in S}) = Total(u, S)
<1> DEFINE image(s) == {f[x] : x \in s}
           P == {s \in SUBSET S : Total(v, image(s)) = Total(u, s)}
<1>1. {} \in P
  <2>1. image({}) = {}
    OBVIOUS
  <2>2. Total(v, {}) = 0 /\ Total(u, {}) = 0
    BY TotalOfNothing, FS_EmptySet
  <2> QED
    BY <2>1, <2>2
<1>2. ASSUME NEW s \in SUBSET S, s # {}, \A x \in s : s \ {x} \in P PROVE s \in P
  <2>1. PICK y : y \in s
    BY <1>2
  <2>2. IsFiniteSet(s) /\ \A x \in s : u[x] \in Int
    BY FS_Subset
  <2>3. IsFiniteSet(image(s))
    BY <2>2, ImageOf
  <2>4. \A z \in image(s) : v[z] \in Int
    BY <2>2
  <2>5. f[y] \in image(s) /\ image(s) \ {f[y]} = image(s \ {y})
    BY <2>1
  <2>6. Total(u, s) = u[y] + Total(u, s \ {y})
    BY <2>1, <2>2, TotalIs
  <2>7. Total(v, image(s \ {y})) = Total(u, s \ {y})
    BY <1>2, <2>1
  <2>8. v[f[y]] = u[y]
    BY <2>1
  <2> HIDE DEF image
  <2>9. Total(v, image(s)) = v[f[y]] + Total(v, image(s) \ {f[y]})
    BY <2>3, <2>4, <2>5, TotalIs
  <2> QED
    BY <2>5, <2>6, <2>7, <2>8, <2>9
<1> HIDE DEF P
<1>3. S \in P
  BY <1>1, <1>2, SubsetInduction
<1> QED
  BY <1>3 DEF P

\* A factor above zero can be cancelled.
LEMMA Cancels ==
  ASSUME NEW t \in Nat \ {0}, NEW x \in Int, NEW y \in Int, t * x <= t * y
  PROVE  x <= y
<1> SUFFICES ASSUME x >= y + 1 PROVE FALSE
  OBVIOUS
<1> DEFINE d == x - y - 1
<1>1. d \in Nat /\ x = (y + 1) + d
  OBVIOUS
<1> HIDE DEF d
<1>2. t * x = t * y + t + t * d
  BY <1>1
<1>3. t * d \in Nat
  BY <1>1
<1>4. t * y \in Int /\ t * x \in Int
  OBVIOUS
<1> QED
  BY <1>2, <1>3, <1>4
=============================================================================
