---------------------------------- MODULE DataLemmas -----------------------------------
(**************************************************************************************)
(* Induction on the natural numbers, for sets given by their members, and what        *)
(* the proofs about the collector use of sequences and of their elements.             *)
(**************************************************************************************)
EXTENDS Integers, Sequences, FiniteSets, SequencesExt, FiniteSetTheorems,
        FunctionTheorems, SequenceTheorems, TLAPS

----------------------------------------------------------------------------------------
(* Numbers. *)

\* Induction, from the pigeonhole principle: were m the first number that is
\* missing in T, the map that takes each number below it to the next one would
\* be injective on 0..m and miss 0.
LEMMA Induction ==
  ASSUME NEW T, 0 \in T, \A n \in Nat : n \in T => n + 1 \in T
  PROVE  Nat \subseteq T
<1> SUFFICES ASSUME NEW m \in Nat, m \notin T PROVE FALSE
  OBVIOUS
<1> DEFINE A == {n \in 0..m : \A k \in 0..n : k \in T}
           S == 0..m
           f == [n \in S |-> IF n \in A THEN n + 1 ELSE n]
<1>1. \A n \in A : n + 1 \in A
  <2> SUFFICES ASSUME NEW n \in A PROVE n + 1 \in A
    OBVIOUS
  <2>1. n \in T /\ n # m /\ n \in Nat
    OBVIOUS
  <2>2. \A k \in 0..n + 1 : k \in 0..n \/ k = n + 1
    BY <2>1
  <2> QED
    BY <2>1, <2>2
<1>2. f \in [S -> S]
  BY <1>1
<1>3. \A a, b \in S : f[a] = f[b] => a = b
  BY <1>1
<1>4. IsFiniteSet(S) /\ 0 \in S
  BY FS_Interval
<1>5. \E n \in S : f[n] = 0
  <2> HIDE DEF f, S
  <2>1. f \in Injection(S, S)
    BY <1>2, <1>3, Fun_IsInj
  <2>2. f \in Surjection(S, S)
    BY <1>4, <2>1, FS_Injection
  <2> QED
    BY <1>4, <2>2, Fun_SurjectionProperties
<1> QED
  BY <1>5

\* A set of numbers has a least one.
LEMMA HasLeast ==
  ASSUME NEW S \in SUBSET Nat, S # {}
  PROVE  \E i \in S : \A j \in S : i <= j
<1> DEFINE T == {n \in Nat : \A k \in 0..n : k \notin S}
<1> SUFFICES ASSUME \A i \in S : \E j \in S : j < i PROVE FALSE
  OBVIOUS
<1>1. 0 \in T
  OBVIOUS
<1>2. ASSUME NEW n \in Nat, n \in T PROVE n + 1 \in T
  <2>1. n + 1 \notin S
    BY <1>2
  <2>2. \A k \in 0..n + 1 : k \in 0..n \/ k = n + 1
    OBVIOUS
  <2> QED
    BY <1>2, <2>1, <2>2
<1>3. \A n \in T : n \notin S
  OBVIOUS
<1> HIDE DEF T
<1>4. Nat \subseteq T
  BY <1>1, <1>2, Induction
<1> QED
  BY <1>3, <1>4

----------------------------------------------------------------------------------------
(* Sequences and the sets of their elements. *)

\* What a sequence is made of.
LEMMA ElementsOf ==
  ASSUME NEW S, NEW s \in Seq(S)
  PROVE  /\ Len(s) \in Nat /\ DOMAIN s = 1..Len(s)
         /\ \A i \in 1..Len(s) : s[i] \in S
         /\ s # <<>> => Len(s) \in 1..Len(s)
         /\ s = <<>> <=> Len(s) = 0
<1>1. s = <<>> <=> Len(s) = 0
  BY EmptySeq
<1> QED
  BY <1>1

\* A function on 1..n is a sequence of length n.
LEMMA SequenceOf ==
  ASSUME NEW S, NEW n \in Nat, NEW f \in [1..n -> S]
  PROVE  f \in Seq(S) /\ Len(f) = n
  OBVIOUS

\* What the set of the elements of a sequence is made of.
LEMMA InToSet ==
  ASSUME NEW S, NEW s \in Seq(S), NEW x
  PROVE  /\ x \in ToSet(s) <=> \E i \in 1..Len(s) : x = s[i]
         /\ x \in ToSet(s) => x \in S
         /\ DOMAIN s = 1..Len(s) /\ Len(s) \in Nat
  BY DEF ToSet

\* Every element of a sequence is in that set.
LEMMA ToSetOf ==
  ASSUME NEW S, NEW s \in Seq(S)
  PROVE  /\ ToSet(s) \subseteq S
         /\ \A i \in 1..Len(s) : s[i] \in ToSet(s)
         /\ \A i \in DOMAIN s : s[i] \in ToSet(s)
  BY DEF ToSet

\* The empty sequence has no elements.
LEMMA ToSetEmpty == ToSet(<<>>) = {}
  BY DEF ToSet

\* A concatenation has the elements of both sequences.
LEMMA ToSetConcat ==
  ASSUME NEW S, NEW s \in Seq(S), NEW t \in Seq(S)
  PROVE  s \o t \in Seq(S) /\ ToSet(s \o t) = ToSet(s) \union ToSet(t)
<1>1. /\ s \o t \in Seq(S) /\ Len(s \o t) = Len(s) + Len(t)
      /\ Len(s) \in Nat /\ Len(t) \in Nat
  BY ConcatProperties
<1>2. \A i \in 1..Len(s) : (s \o t)[i] = s[i] /\ i \in 1..Len(s \o t)
  BY <1>1, ConcatProperties
<1>3. \A i \in 1..Len(t) : (s \o t)[Len(s) + i] = t[i] /\ Len(s) + i \in 1..Len(s \o t)
  BY <1>1, ConcatProperties
<1>4. ASSUME NEW x \in ToSet(s \o t) PROVE x \in ToSet(s) \union ToSet(t)
  <2>1. PICK i \in 1..Len(s \o t) : x = (s \o t)[i]
    <3> DEFINE u == s \o t
    <3>1. u \in Seq(S) /\ x \in ToSet(u)
      BY <1>1
    <3> HIDE DEF u
    <3>2. \E i \in 1..Len(u) : x = u[i]
      BY <3>1, InToSet
    <3> QED
      BY <3>2 DEF u
  <2>2. CASE i \in 1..Len(s)
    BY <1>2, <2>1, <2>2, InToSet
  <2>3. CASE i \notin 1..Len(s)
    <3>1. i - Len(s) \in 1..Len(t) /\ Len(s) + (i - Len(s)) = i
      BY <1>1, <2>3
    <3>2. x = t[i - Len(s)]
      BY <1>3, <2>1, <3>1
    <3> QED
      BY <3>1, <3>2, InToSet
  <2> QED
    BY <2>2, <2>3
<1>5. ASSUME NEW x \in ToSet(s) PROVE x \in ToSet(s \o t)
  <2>1. PICK i \in 1..Len(s) : x = s[i]
    BY InToSet
  <2> QED
    BY <1>1, <1>2, <2>1, InToSet
<1>6. ASSUME NEW x \in ToSet(t) PROVE x \in ToSet(s \o t)
  <2>1. PICK i \in 1..Len(t) : x = t[i]
    BY InToSet
  <2>2. Len(s) + i \in 1..Len(s \o t) /\ x = (s \o t)[Len(s) + i]
    BY <1>3, <2>1
  <2> QED
    BY <1>1, <2>2, InToSet
<1> QED
  BY <1>1, <1>4, <1>5, <1>6

\* A sequence with one more element.
LEMMA ToSetAppend ==
  ASSUME NEW S, NEW s \in Seq(S), NEW x \in S
  PROVE  Append(s, x) \in Seq(S) /\ ToSet(Append(s, x)) = ToSet(s) \union {x}
<1>1. /\ Append(s, x) \in Seq(S) /\ Len(Append(s, x)) = Len(s) + 1 /\ Len(s) \in Nat
      /\ \A i \in 1..Len(s) : Append(s, x)[i] = s[i] /\ i \in 1..Len(s) + 1
      /\ Append(s, x)[Len(s) + 1] = x /\ Len(s) + 1 \in 1..Len(s) + 1
  OBVIOUS
<1>2. \A i \in 1..Len(s) + 1 : i \in 1..Len(s) \/ i = Len(s) + 1
  BY <1>1
<1>3. ASSUME NEW y PROVE y \in ToSet(Append(s, x)) <=> y \in ToSet(s) \/ y = x
  <2>1. y \in ToSet(Append(s, x)) <=> \E i \in 1..Len(s) + 1 : y = Append(s, x)[i]
    <3> DEFINE u == Append(s, x)
    <3>1. u \in Seq(S) /\ Len(u) = Len(s) + 1
      BY <1>1
    <3> HIDE DEF u
    <3>2. y \in ToSet(u) <=> \E i \in 1..Len(s) + 1 : y = u[i]
      BY <3>1, InToSet
    <3> QED
      BY <3>2 DEF u
  <2>2. y \in ToSet(s) <=> \E i \in 1..Len(s) : y = s[i]
    BY InToSet
  <2> QED
    BY <1>1, <1>2, <2>1, <2>2
<1> QED
  BY <1>1, <1>3

\* A sequence with another element in one place.
LEMMA ToSetPut ==
  ASSUME NEW S, NEW s \in Seq(S), NEW i \in DOMAIN s, NEW x \in S
  PROVE  [s EXCEPT ![i] = x] \in Seq(S) /\ ToSet([s EXCEPT ![i] = x]) \subseteq ToSet(s) \union {x}
<1> DEFINE t == [s EXCEPT ![i] = x]
<1>1. DOMAIN t = DOMAIN s /\ \A j \in DOMAIN s : t[j] = x \/ t[j] = s[j]
  OBVIOUS
<1>2. t \in Seq(S)
  OBVIOUS
<1> HIDE DEF t
<1>3. ToSet(t) \subseteq ToSet(s) \union {x}
  BY <1>1 DEF ToSet
<1> QED
  BY <1>2, <1>3 DEF t

\* A part of a sequence.
LEMMA ToSetSub ==
  ASSUME NEW S, NEW s \in Seq(S), NEW m \in Nat \ {0}, NEW n \in Int, n <= Len(s)
  PROVE  SubSeq(s, m, n) \in Seq(S) /\ ToSet(SubSeq(s, m, n)) \subseteq ToSet(s)
<1>1. \A i \in m..n : s[i] \in S /\ s[i] \in ToSet(s)
  BY ToSetOf
<1>2. /\ SubSeq(s, m, n) \in Seq(S)
      /\ Len(SubSeq(s, m, n)) = IF m <= n THEN n - m + 1 ELSE 0
      /\ \A i \in 1..n - m + 1 : SubSeq(s, m, n)[i] = s[m + i - 1]
  BY <1>1, SubSeqProperties
<1>3. ASSUME NEW x \in ToSet(SubSeq(s, m, n)) PROVE x \in ToSet(s)
  <2>1. PICK i \in 1..Len(SubSeq(s, m, n)) : x = SubSeq(s, m, n)[i]
    <3> DEFINE u == SubSeq(s, m, n)
    <3>1. u \in Seq(S) /\ x \in ToSet(u)
      BY <1>2
    <3> HIDE DEF u
    <3>2. \E i \in 1..Len(u) : x = u[i]
      BY <3>1, InToSet
    <3> QED
      BY <3>2 DEF u
  <2>2. i \in 1..n - m + 1 /\ m + i - 1 \in m..n
    BY <1>2
  <2> QED
    BY <1>1, <1>2, <2>1, <2>2
<1> QED
  BY <1>2, <1>3

\* A sequence has its head and the elements of its tail.
LEMMA ToSetHeadTail ==
  ASSUME NEW S, NEW s \in Seq(S), s # <<>>
  PROVE  /\ Head(s) \in S /\ Tail(s) \in Seq(S)
         /\ ToSet(s) = {Head(s)} \union ToSet(Tail(s))
<1>1. /\ Len(s) \in Nat \ {0} /\ Head(s) = s[1] /\ Head(s) \in S
      /\ Tail(s) \in Seq(S) /\ Len(Tail(s)) = Len(s) - 1
      /\ \A i \in 1..Len(s) - 1 : Tail(s)[i] = s[i + 1] /\ i + 1 \in 1..Len(s)
  BY EmptySeq
<1>2. \A i \in 1..Len(s) : i = 1 \/ (i - 1 \in 1..Len(s) - 1 /\ s[i] = Tail(s)[i - 1])
  BY <1>1
<1>3. ASSUME NEW y PROVE y \in ToSet(s) <=> y = Head(s) \/ y \in ToSet(Tail(s))
  <2>1. y \in ToSet(Tail(s)) <=> \E i \in 1..Len(s) - 1 : y = Tail(s)[i]
    <3> DEFINE u == Tail(s)
    <3>1. u \in Seq(S) /\ Len(u) = Len(s) - 1
      BY <1>1
    <3> HIDE DEF u
    <3>2. y \in ToSet(u) <=> \E i \in 1..Len(s) - 1 : y = u[i]
      BY <3>1, InToSet
    <3> QED
      BY <3>2 DEF u
  <2>2. y \in ToSet(s) <=> \E i \in 1..Len(s) : y = s[i]
    BY InToSet
  <2>3. 1 \in 1..Len(s)
    BY <1>1
  <2> QED
    BY <1>1, <1>2, <2>1, <2>2, <2>3
<1> QED
  BY <1>1, <1>3

\* The last of a sequence.
LEMMA LastOf ==
  ASSUME NEW S, NEW s \in Seq(S), s # <<>>
  PROVE  Last(s) = s[Len(s)] /\ Len(s) \in 1..Len(s) /\ Last(s) \in S /\ Last(s) \in ToSet(s)
<1>1. Len(s) \in Nat \ {0}
  BY EmptySeq
<1> QED
  BY <1>1, ToSetOf DEF Last

\* The function that FlattenSeq is defined by exists.
LEMMA FlattenExists ==
  ASSUME NEW ss, NEW n \in Nat
  PROVE  \E f : f = [i \in 1..n |-> IF i = 1 THEN ss[i] ELSE f[i - 1] \o ss[i]]
<1> DEFINE Step(i, x) == IF i = 1 THEN ss[i] ELSE x \o ss[i]
           T == {k \in Nat : \E f : f = [i \in 1..k |-> Step(i, f[i - 1])]}
<1>1. 0 \in T
  <2> DEFINE e == [i \in 1..0 |-> 0]
  <2> HIDE DEF Step
  <2>1. e = [i \in 1..0 |-> Step(i, e[i - 1])]
    OBVIOUS
  <2> QED
    BY <2>1
<1>2. ASSUME NEW k \in Nat, k \in T PROVE k + 1 \in T
  <2>1. PICK f : f = [i \in 1..k |-> Step(i, f[i - 1])]
    BY <1>2
  <2> DEFINE g == [i \in 1..k + 1 |-> Step(i, f[i - 1])]
  <2>a. \A x, y : Step(1, x) = Step(1, y)
    OBVIOUS
  <2> HIDE DEF Step
  <2>2. \A i \in 1..k : f[i] = Step(i, f[i - 1])
    BY <2>1
  <2>3. \A i \in 1..k : g[i] = f[i]
    BY <2>2
  <2>4. \A i \in 1..k + 1 : Step(i, g[i - 1]) = Step(i, f[i - 1])
    <3> SUFFICES ASSUME NEW i \in 1..k + 1, i # 1
                 PROVE  Step(i, g[i - 1]) = Step(i, f[i - 1])
      BY <2>a
    <3>1. i - 1 \in 1..k
      OBVIOUS
    <3> QED
      BY <2>3, <3>1
  <2>5. g = [i \in 1..k + 1 |-> Step(i, g[i - 1])]
    BY <2>4
  <2>6. \E h : h = [i \in 1..k + 1 |-> Step(i, h[i - 1])]
    BY <2>5
  <2> QED
    BY <2>6
<1> HIDE DEF T
<1>3. n \in T
  BY <1>1, <1>2, Induction
<1> QED
  BY <1>3 DEF T

\* What a sequence of sequences is flattened to has their elements.
LEMMA ToSetFlatten ==
  ASSUME NEW S, NEW ss \in Seq(Seq(S))
  PROVE  /\ FlattenSeq(ss) \in Seq(S)
         /\ ToSet(FlattenSeq(ss)) = UNION {ToSet(ss[i]) : i \in DOMAIN ss}
<1> DEFINE Sets(k) == UNION {ToSet(ss[i]) : i \in 1..k}
<1>1. Len(ss) \in Nat /\ DOMAIN ss = 1..Len(ss) /\ \A i \in 1..Len(ss) : ss[i] \in Seq(S)
  OBVIOUS
<1>2. CASE Len(ss) = 0
  <2>1. FlattenSeq(ss) = ss /\ ss = <<>>
    BY <1>2 DEF FlattenSeq
  <2> QED
    BY <2>1 DEF ToSet
<1>3. CASE Len(ss) # 0
  <2>1. \E f : /\ f = [i \in 1..Len(ss) |-> IF i = 1 THEN ss[i] ELSE f[i - 1] \o ss[i]]
               /\ FlattenSeq(ss) = f[Len(ss)]
    <3>1. \E f : f = [i \in 1..Len(ss) |-> IF i = 1 THEN ss[i] ELSE f[i - 1] \o ss[i]]
      BY <1>1, FlattenExists
    <3> QED
      BY <1>3, <3>1, Zenon DEF FlattenSeq
  <2>2. PICK f : /\ f = [i \in 1..Len(ss) |-> IF i = 1 THEN ss[i] ELSE f[i - 1] \o ss[i]]
                 /\ FlattenSeq(ss) = f[Len(ss)]
    BY <2>1
  <2>3. \A i \in 1..Len(ss) : f[i] = IF i = 1 THEN ss[i] ELSE f[i - 1] \o ss[i]
    BY <2>2
  <2>4. Sets(1) = ToSet(ss[1])
    OBVIOUS
  <2>5. \A k \in Nat : Sets(k + 2) = Sets(k + 1) \union ToSet(ss[k + 2])
    <3> SUFFICES ASSUME NEW k \in Nat
                 PROVE  Sets(k + 2) = Sets(k + 1) \union ToSet(ss[k + 2])
      OBVIOUS
    <3>1. 1..k + 2 = (1..k + 1) \union {k + 2}
      OBVIOUS
    <3> QED
      BY <3>1
  <2> HIDE DEF Sets
  <2> DEFINE T == {k \in Nat : k + 1 <= Len(ss) =>
                      f[k + 1] \in Seq(S) /\ ToSet(f[k + 1]) = Sets(k + 1)}
  <2>6. 0 \in T
    <3>1. f[1] = ss[1] /\ ss[1] \in Seq(S)
      BY <1>1, <1>3, <2>3
    <3> QED
      BY <2>4, <3>1
  <2>7. ASSUME NEW k \in Nat, k \in T PROVE k + 1 \in T
    <3>1. CASE ~(k + 2 <= Len(ss))
      BY <1>1, <3>1
    <3>2. CASE k + 2 <= Len(ss)
      <4>1. k + 1 <= Len(ss) /\ k + 2 \in 1..Len(ss) /\ k + 2 # 1 /\ (k + 2) - 1 = k + 1
        BY <1>1, <3>2
      <4>2. f[k + 1] \in Seq(S) /\ ToSet(f[k + 1]) = Sets(k + 1)
        BY <2>7, <4>1
      <4>3. f[k + 2] = f[k + 1] \o ss[k + 2] /\ ss[k + 2] \in Seq(S)
        BY <1>1, <2>3, <4>1
      <4>4. f[k + 2] \in Seq(S) /\ ToSet(f[k + 2]) = ToSet(f[k + 1]) \union ToSet(ss[k + 2])
        BY <4>2, <4>3, ToSetConcat
      <4>5. f[(k + 1) + 1] \in Seq(S) /\ ToSet(f[(k + 1) + 1]) = Sets((k + 1) + 1)
        <5>1. (k + 1) + 1 = k + 2
          OBVIOUS
        <5> QED
          BY <2>5, <4>2, <4>4, <5>1
      <4> QED
        BY <4>5
    <3> QED
      BY <3>1, <3>2
  <2>8. Len(ss) - 1 \in Nat /\ (Len(ss) - 1) + 1 = Len(ss)
    BY <1>1, <1>3
  <2>9. Len(ss) - 1 \in T
    <3> HIDE DEF T
    <3>1. Nat \subseteq T
      BY <2>6, <2>7, Induction
    <3> QED
      BY <2>8, <3>1
  <2>10. f[Len(ss)] \in Seq(S) /\ ToSet(f[Len(ss)]) = Sets(Len(ss))
    BY <2>8, <2>9
  <2> QED
    BY <1>1, <2>2, <2>10 DEF Sets
<1> QED
  BY <1>2, <1>3
========================================================================================
