--------------------------- MODULE SequenceLemmas ---------------------------
(* Facts about sequences that the proofs of several components need: how often *)
(* a value occurs in one, what FlattenSeq() makes of a sequence of them; and    *)
(* about loops, as functions of the number of their turns.                     *)
EXTENDS Naturals, SequencesExt, NaturalsInduction, WellFoundedInduction, SequenceTheorems, FiniteSetTheorems, TLAPS

-----------------------------------------------------------------------------
(* Occurrences of a value *)

Occurrences(s, x) == Cardinality({k \in DOMAIN s : s[k] = x})

LEMMA OccurrencesType ==
  ASSUME NEW S, NEW s \in Seq(S), NEW x
  PROVE  /\ Occurrences(s, x) \in Nat
         /\ IsFiniteSet({k \in DOMAIN s : s[k] = x})
<1>1. IsFiniteSet(1..Len(s)) /\ DOMAIN s = 1..Len(s)
  BY FS_Interval
<1>2. IsFiniteSet({k \in DOMAIN s : s[k] = x})
  BY <1>1, FS_Subset
<1> QED
  BY <1>2, FS_CardinalityType DEF Occurrences

LEMMA OccurrencesAppend ==
  ASSUME NEW S, NEW s \in Seq(S), NEW e \in S, NEW x
  PROVE  Occurrences(Append(s, e), x) = Occurrences(s, x) + (IF e = x THEN 1 ELSE 0)
<1> DEFINE old == {k \in DOMAIN s : s[k] = x}
           new == {k \in DOMAIN Append(s, e) : Append(s, e)[k] = x}
<1>1. /\ DOMAIN s = 1..Len(s) /\ Len(s) \in Nat /\ DOMAIN Append(s, e) = 1..(Len(s) + 1)
      /\ \A k \in 1..Len(s) : Append(s, e)[k] = s[k]
      /\ Append(s, e)[Len(s) + 1] = e
  OBVIOUS
<1>2. \A k : k \in 1..(Len(s) + 1) <=> k \in 1..Len(s) \/ k = Len(s) + 1
  BY <1>1
<1>3. Len(s) + 1 \notin old
  BY <1>1
<1>4. new = IF e = x THEN old \cup {Len(s) + 1} ELSE old
  BY <1>1, <1>2
<1>5. IsFiniteSet(old) /\ Occurrences(s, x) = Cardinality(old) /\ Cardinality(old) \in Nat
  BY OccurrencesType, FS_CardinalityType DEF Occurrences
<1>6. Cardinality(old \cup {Len(s) + 1}) = Cardinality(old) + 1
  BY <1>3, <1>5, FS_AddElement
<1>7. Occurrences(Append(s, e), x) = Cardinality(new)
  BY DEF Occurrences
<1> HIDE DEF old, new
<1> QED
  BY <1>4, <1>5, <1>6, <1>7

LEMMA OccurrencesTail ==
  ASSUME NEW S, NEW s \in Seq(S), s # <<>>, NEW x
  PROVE  Occurrences(s, x) = Occurrences(Tail(s), x) + (IF Head(s) = x THEN 1 ELSE 0)
<1> DEFINE all == {k \in DOMAIN s : s[k] = x}
           rest == {k \in DOMAIN Tail(s) : Tail(s)[k] = x}
           shift == [k \in rest |-> k + 1]
<1>1. /\ DOMAIN s = 1..Len(s) /\ Len(s) \in Nat \ {0} /\ Head(s) = s[1] /\ Tail(s) \in Seq(S)
      /\ DOMAIN Tail(s) = 1..(Len(s) - 1)
      /\ \A k \in 1..(Len(s) - 1) : Tail(s)[k] = s[k + 1]
  OBVIOUS
<1>2. IsFiniteSet(all) /\ Occurrences(s, x) = Cardinality(all)
  BY OccurrencesType DEF Occurrences
<1>3. IsFiniteSet(rest) /\ Occurrences(Tail(s), x) = Cardinality(rest) /\ Cardinality(rest) \in Nat
  <2>1. \A u \in Seq(S) : Occurrences(u, x) \in Nat /\ IsFiniteSet({k \in DOMAIN u : u[k] = x})
    BY OccurrencesType
  <2>2. Occurrences(Tail(s), x) \in Nat /\ IsFiniteSet({k \in DOMAIN Tail(s) : Tail(s)[k] = x})
    BY <1>1, <2>1
  <2>3. Occurrences(Tail(s), x) = Cardinality(rest)
    BY DEF Occurrences
  <2> QED
    BY <2>2, <2>3
<1>4. \A k \in rest : k \in 1..(Len(s) - 1) /\ k + 1 \in 1..Len(s) /\ k + 1 # 1 /\ s[k + 1] = x
  BY <1>1
<1>5. \A k \in all \ {1} : k - 1 \in rest /\ (k - 1) + 1 = k
  BY <1>1
<1>6. shift \in Bijection(rest, all \ {1})
  <2>1. shift \in [rest -> all \ {1}]
    BY <1>1, <1>4
  <2>2. \A j, k \in rest : shift[j] = shift[k] => j = k
    BY <1>4
  <2>3. \A k \in all \ {1} : \E j \in rest : shift[j] = k
    BY <1>5
  <2> HIDE DEF shift, rest, all
  <2> QED
    BY <2>1, <2>2, <2>3 DEF Bijection, Injection, Surjection, IsInjective
<1>7. Cardinality(all \ {1}) = Cardinality(rest) /\ IsFiniteSet(all \ {1})
  BY <1>3, <1>6, FS_Bijection DEF ExistsBijection
<1>8. 1 \in all <=> Head(s) = x
  BY <1>1
<1>10. Cardinality((all \ {1}) \cup {1}) = Cardinality(all \ {1}) + 1
  BY <1>7, FS_AddElement
<1> HIDE DEF all, rest
<1>11. Cardinality(all) = Cardinality(rest) + (IF 1 \in all THEN 1 ELSE 0)
  <2>1. CASE 1 \in all
    <3>1. all = (all \ {1}) \cup {1}
      BY <2>1
    <3> QED
      BY <1>7, <1>10, <2>1, <3>1
  <2>2. CASE 1 \notin all
    <3>1. all = all \ {1}
      BY <2>2
    <3>2. Cardinality(all) = Cardinality(rest)
      BY <1>7, <3>1, Zenon
    <3> QED
      BY <1>3, <2>2, <3>2
  <2> QED
    BY <2>1, <2>2
<1> QED
  BY <1>2, <1>3, <1>8, <1>11

-----------------------------------------------------------------------------
(* Concatenation *)

\* Two sequences are the same when they are so one by one.
LEMMA SameSeq ==
  ASSUME NEW S, NEW s \in Seq(S), NEW t \in Seq(S), Len(s) = Len(t), \A i \in 1..Len(s) : s[i] = t[i]
  PROVE  s = t
  OBVIOUS

LEMMA Concat ==
  ASSUME NEW S, NEW s \in Seq(S), NEW t \in Seq(S)
  PROVE  /\ s \o t \in Seq(S) /\ Len(s \o t) = Len(s) + Len(t)
         /\ \A i \in 1..Len(s) : (s \o t)[i] = s[i]
         /\ \A i \in 1..Len(t) : (s \o t)[Len(s) + i] = t[i]
         /\ \A i \in 1..Len(s) + Len(t) : (s \o t)[i] = IF i <= Len(s) THEN s[i] ELSE t[i - Len(s)]
  OBVIOUS

LEMMA Assoc ==
  ASSUME NEW S, NEW s \in Seq(S), NEW t \in Seq(S), NEW u \in Seq(S)
  PROVE  (s \o t) \o u = s \o (t \o u)
  BY ConcatAssociative

\* The recursion of FlattenSeq() has a solution.
IsFlat(f, s, n) == f = [i \in 1..n |-> IF i = 1 THEN s[i] ELSE f[i - 1] \o s[i]]

LEMMA FlatExists == \A s : \A n \in Nat : \E f : IsFlat(f, s, n)
<1> SUFFICES ASSUME NEW s PROVE \A n \in Nat : \E f : IsFlat(f, s, n)
  OBVIOUS
<1> DEFINE Bad == {n \in Nat : ~ \E f : IsFlat(f, s, n)}
<1>1. ASSUME Bad # {} PROVE FALSE
  <2>1. PICK n \in Bad : \A m \in Bad : ~(<<m, n>> \in OpToRel(<, Nat))
    <3>1. IsWellFoundedOn(OpToRel(<, Nat), Nat)
      BY NatLessThanWellFounded
    <3>2. Bad \subseteq Nat
      OBVIOUS
    <3> HIDE DEF Bad
    <3> QED
      BY <3>1, <3>2, <1>1, WFMin
  <2>2. \A m \in Bad : ~(m < n)
    BY <2>1 DEF OpToRel
  <2>3. n \in Nat /\ ~ \E f : IsFlat(f, s, n)
    OBVIOUS
  <2>4. CASE n = 0
    <3>1. IsFlat([i \in 1..0 |-> 0], s, 0)
      BY DEF IsFlat
    <3> QED
      BY <2>3, <2>4, <3>1
  <2>5. CASE n # 0
    <3>1. n - 1 \in Nat /\ n - 1 < n
      BY <2>3, <2>5
    <3>2. n - 1 \notin Bad
      <4> HIDE DEF Bad
      <4> QED
        BY <3>1, <2>2
    <3>3. PICK g : IsFlat(g, s, n - 1)
      BY <3>1, <3>2
    <3> DEFINE f == [i \in 1..n |-> IF i = n THEN (IF n = 1 THEN s[1] ELSE g[n - 1] \o s[n]) ELSE g[i]]
    <3>4. \A i \in 1..n - 1 : g[i] = IF i = 1 THEN s[i] ELSE g[i - 1] \o s[i]
      BY <3>3 DEF IsFlat
    <3>5. \A i \in 1..n : f[i] = IF i = 1 THEN s[i] ELSE f[i - 1] \o s[i]
      <4> TAKE i \in 1..n
      <4> HIDE DEF Bad
      <4>1. CASE i = n
        BY <4>1, <2>3, <3>1
      <4>2. CASE i # n
        <5>1. i \in 1..n - 1 /\ f[i] = g[i] /\ (i # 1 => i - 1 \in 1..n /\ i - 1 # n)
          BY <4>2, <2>3
        <5> QED
          BY <5>1, <3>4
      <4> QED
        BY <4>1, <4>2
    <3>6. f = [i \in 1..n |-> f[i]]
      OBVIOUS
    <3> HIDE DEF f
    <3>7. IsFlat(f, s, n)
      BY <3>5, <3>6 DEF IsFlat
    <3> QED
      BY <2>3, <3>7
  <2> QED
    BY <2>4, <2>5
<1> QED
  BY <1>1

LEMMA FlattenIs ==
  ASSUME NEW s, Len(s) \in Nat \ {0}
  PROVE  \E f : IsFlat(f, s, Len(s)) /\ FlattenSeq(s) = f[Len(s)]
<1> DEFINE f == CHOOSE f : f = [i \in 1..Len(s) |-> IF i = 1 THEN s[i] ELSE f[i - 1] \o s[i]]
<1>1. FlattenSeq(s) = f[Len(s)]
  BY DEF FlattenSeq
<1>2. \E g : IsFlat(g, s, Len(s))
  BY FlatExists
<1>3. IsFlat(f, s, Len(s))
  BY <1>2 DEF IsFlat
<1> QED
  BY <1>1, <1>3

-----------------------------------------------------------------------------
(* Recursion and induction over the numbers up to n *)

\* What holds of the first and is kept from one to the next holds of all.
LEMMA UpTo ==
  ASSUME NEW n \in Nat, NEW h, NEW P, h[0] \in P, \A k \in 1..n : h[k - 1] \in P => h[k] \in P
  PROVE  \A k \in 0..n : h[k] \in P
<1> DEFINE Bad == {k \in Nat : k <= n /\ h[k] \notin P}
<1>1. SUFFICES ASSUME Bad # {} PROVE FALSE
  OBVIOUS
<1>2. PICK k \in Bad : \A j \in Bad : ~(<<j, k>> \in OpToRel(<, Nat))
  <2>1. IsWellFoundedOn(OpToRel(<, Nat), Nat) /\ Bad \subseteq Nat
    BY NatLessThanWellFounded
  <2> HIDE DEF Bad
  <2> QED BY <1>1, <2>1, WFMin
<1>3. k \in 0..n /\ h[k] \notin P /\ \A j \in Bad : ~(j < k)
  <2>1. \A j \in Bad : ~(j < k)
    <3>1. Bad \subseteq Nat /\ k \in Bad
      OBVIOUS
    <3> HIDE DEF Bad
    <3> QED BY <1>2, <3>1 DEF OpToRel
  <2> QED BY <2>1
<1>4. k # 0 /\ k \in 1..n /\ k - 1 \in 0..n /\ k - 1 < k
  BY <1>3
<1>5. h[k - 1] \in P
  BY <1>3, <1>4
<1> QED BY <1>3, <1>4, <1>5

\* The steps of a loop, from b by F, n of them.
IsSteps(h, F, b, n) == h = [k \in 0..n |-> IF k = 0 THEN b ELSE F[<<k, h[k - 1]>>]]

LEMMA StepsExist ==
  ASSUME NEW F, NEW b
  PROVE  \A n \in Nat : \E h : IsSteps(h, F, b, n)
<1> DEFINE Bad == {n \in Nat : ~ \E h : IsSteps(h, F, b, n)}
<1>1. SUFFICES ASSUME Bad # {} PROVE FALSE
  OBVIOUS
<1>2. PICK n \in Bad : \A j \in Bad : ~(<<j, n>> \in OpToRel(<, Nat))
  <2>1. IsWellFoundedOn(OpToRel(<, Nat), Nat) /\ Bad \subseteq Nat
    BY NatLessThanWellFounded
  <2> HIDE DEF Bad
  <2> QED BY <1>1, <2>1, WFMin
<1>3. n \in Nat /\ (~ \E h : IsSteps(h, F, b, n)) /\ \A j \in Bad : ~(j < n)
  BY <1>2 DEF OpToRel
<1>4. CASE n = 0
  <2>1. IsSteps([k \in 0..0 |-> b], F, b, 0)
    BY DEF IsSteps
  <2> QED BY <1>3, <1>4, <2>1
<1>5. CASE n # 0
  <2>1. n - 1 \in Nat /\ n - 1 < n
    BY <1>3, <1>5
  <2>2. n - 1 \notin Bad
    <3> HIDE DEF Bad
    <3> QED BY <1>3, <2>1
  <2>3. PICK g : IsSteps(g, F, b, n - 1)
    BY <2>1, <2>2
  <2> DEFINE h == [k \in 0..n |-> IF k = n THEN F[<<n, g[n - 1]>>] ELSE g[k]]
  <2>4. \A k \in 0..n - 1 : g[k] = IF k = 0 THEN b ELSE F[<<k, g[k - 1]>>]
    BY <2>3 DEF IsSteps
  <2>5. ASSUME NEW k \in 0..n PROVE h[k] = IF k = 0 THEN b ELSE F[<<k, h[k - 1]>>]
    <3> HIDE DEF Bad
    <3>1. CASE k = n
      <4>1. k # 0 /\ k - 1 \in 0..n /\ k - 1 # n
        BY <1>3, <1>5, <3>1
      <4> QED BY <3>1, <4>1
    <3>2. CASE k # n
      <4>1. k \in 0..n - 1 /\ h[k] = g[k] /\ (k # 0 => k - 1 \in 0..n /\ k - 1 # n)
        BY <3>2, <1>3
      <4> QED BY <4>1, <2>4
    <3> QED BY <3>1, <3>2
  <2>6. h = [k \in 0..n |-> h[k]]
    OBVIOUS
  <2> HIDE DEF h
  <2>7. IsSteps(h, F, b, n)
    BY <2>5, <2>6 DEF IsSteps
  <2> QED BY <1>3, <2>7
<1> QED BY <1>4, <1>5

\* A loop that stays in X.
IsLoop(h, F, b, n) == h[0] = b /\ \A k \in 1..n : h[k] = F[<<k, h[k - 1]>>]

LEMMA StepsIn ==
  ASSUME NEW X, NEW b \in X, NEW n \in Nat, NEW F \in [(1..n) \X X -> X]
  PROVE  \E h \in [0..n -> X] : IsLoop(h, F, b, n)
<1>1. PICK h : IsSteps(h, F, b, n)
  BY StepsExist
<1>2. h = [k \in 0..n |-> IF k = 0 THEN b ELSE F[<<k, h[k - 1]>>]]
  BY <1>1 DEF IsSteps
<1>3. h[0] = b
  <2>1. 0 \in 0..n
    OBVIOUS
  <2> QED BY <1>2, <2>1
<1>4. \A k \in 1..n : h[k] = F[<<k, h[k - 1]>>]
  <2>1. \A k \in 1..n : k \in 0..n /\ k # 0
    OBVIOUS
  <2> QED BY <1>2, <2>1
<1>5. \A k \in 1..n : h[k - 1] \in X => h[k] \in X
  BY <1>4
<1>6. \A k \in 0..n : h[k] \in X
  BY <1>3, <1>5, UpTo
<1>7. DOMAIN h = 0..n
  BY <1>2
<1>8. h \in [0..n -> X]
  BY <1>2, <1>6, <1>7
<1> QED BY <1>3, <1>4, <1>8 DEF IsLoop
=============================================================================
