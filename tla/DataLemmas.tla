----------------------------- MODULE DataLemmas -----------------------------
(***************************************************************************)
(* What the proofs need to know of least elements and of sequences, and    *)
(* the library of theorems does not say.                                   *)
(***************************************************************************)
EXTENDS Integers, Sequences, SequencesExt, FiniteSetTheorems, SequenceTheorems,
        WellFoundedInduction, TLAPS

-----------------------------------------------------------------------------
(* Numbers. *)

\* A set of numbers that is not empty has a least element, which Min is.
LEMMA MinFacts ==
  ASSUME NEW S \in SUBSET Nat, S # {}
  PROVE  /\ Min(S) \in S
         /\ \A y \in S : Min(S) <= y
<1> DEFINE T == {0..x : x \in S}
           R == StrictSubsetOrdering(Nat)
<1>1. T \subseteq FiniteSubsetsOf(Nat) /\ T # {}
  <2>1. \A x \in S : x \in Int /\ (0..x) \in SUBSET Nat
    OBVIOUS
  <2>2. \A x \in S : IsFiniteSet(0..x)
    BY <2>1, FS_Interval
  <2> QED
    BY <2>1, <2>2 DEF FiniteSubsetsOf
<1>2. IsWellFoundedOn(R, FiniteSubsetsOf(Nat))
  BY FS_StrictSubsetOrderingWellFounded
<1>3. \E u \in T : \A v \in T : ~ (<<v, u>> \in R)
  <2> HIDE DEF T, R
  <2> QED
    BY <1>1, <1>2, WFMin
<1>4. PICK x \in S : \A y \in S : ~ (<<0..y, 0..x>> \in R)
  BY <1>3
<1>5. ASSUME NEW y \in S PROVE x <= y
  <2> SUFFICES ASSUME y < x PROVE FALSE
    OBVIOUS
  <2>1. (0..y) \subseteq 0..x /\ x \in 0..x /\ x \notin 0..y /\ (0..x) \subseteq Nat
    OBVIOUS
  <2>2. <<0..y, 0..x>> \in (SUBSET Nat) \X (SUBSET Nat) /\ 0..y # 0..x
    BY <2>1
  <2> QED
    BY <1>4, <2>1, <2>2 DEF StrictSubsetOrdering
<1> QED
  BY <1>5 DEF Min

-----------------------------------------------------------------------------
(* Sequences. *)

\* A sequence over some set or other.
IsSequence(s) == \E S : s \in Seq(S)

\* A sequence over a set is one over any larger set.
LEMMA WiderSeq ==
  ASSUME NEW S, NEW T, NEW s \in Seq(S), S \subseteq T
  PROVE  s \in Seq(T)
<1>1. Len(s) \in Nat /\ s \in [1..Len(s) -> S]
  BY LenProperties
<1> QED
  BY <1>1

\* A short list is a sequence.
LEMMA Lists ==
  ASSUME NEW x, NEW y, NEW z
  PROVE  /\ IsSequence(<<>>) /\ IsSequence(<<x>>)
         /\ IsSequence(<<x, y>>) /\ IsSequence(<<x, y, z>>)
<1> DEFINE S == {x, y, z}
<1>1. <<>> \in Seq(S) /\ <<x>> \in Seq(S) /\ <<x, y>> \in Seq(S) /\ <<x, y, z>> \in Seq(S)
  OBVIOUS
<1> QED
  BY <1>1 DEF IsSequence

\* What a sequence keeps when its last elements are taken.
LEMMA StackFacts ==
  ASSUME NEW S, NEW s \in Seq(S), NEW n \in Nat, n <= Len(s)
  PROVE  /\ SubSeq(s, 1, Len(s) - n) \in Seq(S)
         /\ Len(SubSeq(s, 1, Len(s) - n)) = Len(s) - n
         /\ \A i \in 1..(Len(s) - n) : SubSeq(s, 1, Len(s) - n)[i] = s[i]
<1> DEFINE m == Len(s) - n
<1>1. m \in Nat /\ Len(s) \in Nat
  BY LenProperties
<1>2. \A i \in 1..m : s[i] \in S
  BY <1>1, ElementOfSeq
<1> HIDE DEF m
<1>3. /\ SubSeq(s, 1, m) \in Seq(S)
      /\ Len(SubSeq(s, 1, m)) = m
      /\ \A i \in 1..m : SubSeq(s, 1, m)[i] = s[i]
  BY <1>1, <1>2, SubSeqProperties
<1> QED
  BY <1>3 DEF m

\* A prefix depends on its elements only.
LEMMA SamePrefix ==
  ASSUME NEW S, NEW s \in Seq(S), NEW r \in Seq(S), NEW k \in Nat,
         k <= Len(s), k <= Len(r), \A i \in 1..k : s[i] = r[i]
  PROVE  SubSeq(s, 1, k) = SubSeq(r, 1, k)
<1>1. Len(s) \in Nat /\ Len(r) \in Nat
  BY LenProperties
<1>2. \A i \in 1..k : s[i] \in S /\ r[i] \in S
  BY <1>1, ElementOfSeq
<1>3. /\ SubSeq(s, 1, k) \in Seq(S) /\ Len(SubSeq(s, 1, k)) = k
      /\ \A i \in 1..k : SubSeq(s, 1, k)[i] = s[i]
  BY <1>2, SubSeqProperties
<1>4. /\ SubSeq(r, 1, k) \in Seq(S) /\ Len(SubSeq(r, 1, k)) = k
      /\ \A i \in 1..k : SubSeq(r, 1, k)[i] = r[i]
  BY <1>2, SubSeqProperties
<1> QED
  BY <1>3, <1>4, SeqEqual

\* g has the joins of the parts of s up to each of the first m.  The function
\* that FlattenSeq defines by recursion is one.
Joins(s, m, g) ==
  g = [i \in 1..m |-> IF i = 1 THEN s[i] ELSE g[i - 1] \o s[i]]

LEMMA JoinExists ==
  ASSUME NEW s, NEW n \in Nat \ {0}
  PROVE  \E g : Joins(s, n, g)
<1> DEFINE Bad == {m \in Nat \ {0} : ~ \E g : Joins(s, m, g)}
<1> SUFFICES ASSUME Bad # {} PROVE FALSE
  OBVIOUS
<1>1. PICK m \in Bad : \A y \in Bad : m <= y
  <2> Bad \in SUBSET Nat
    OBVIOUS
  <2> HIDE DEF Bad
  <2> QED
    BY MinFacts
<1>2. CASE m = 1
  <2> DEFINE g == [i \in 1..m |-> s[i]]
  <2>1. \A i \in 1..m : i = 1
    BY <1>2
  <2>2. Joins(s, m, g)
    BY <2>1 DEF Joins
  <2> QED
    BY <2>2
<1>3. CASE m # 1
  <2>1. m - 1 \in Nat \ {0} /\ m - 1 \notin Bad
    BY <1>1, <1>3
  <2>2. PICK g : Joins(s, m - 1, g)
    BY <2>1
  <2> DEFINE h == [i \in 1..m |-> IF i = m THEN g[m - 1] \o s[m] ELSE g[i]]
  <2>3. \A i \in 1..m - 1 : g[i] = IF i = 1 THEN s[i] ELSE g[i - 1] \o s[i]
    BY <2>2 DEF Joins
  <2>4. ASSUME NEW i \in 1..m
        PROVE  h[i] = IF i = 1 THEN s[i] ELSE h[i - 1] \o s[i]
    <3>1. CASE i = m
      <4>1. i - 1 \in 1..m /\ i - 1 # m
        BY <1>3, <2>1, <3>1
      <4>2. h[i] = g[m - 1] \o s[m] /\ h[i - 1] = g[m - 1]
        BY <3>1, <4>1
      <4> QED
        BY <1>3, <3>1, <4>2
    <3>2. CASE i # m /\ i # 1
      <4>1. i \in 1..m - 1 /\ i - 1 \in 1..m /\ i - 1 # m
        BY <3>2
      <4>2. h[i] = g[i] /\ h[i - 1] = g[i - 1]
        BY <3>2, <4>1
      <4> QED
        BY <2>3, <3>2, <4>1, <4>2
    <3>3. CASE i # m /\ i = 1
      BY <2>3, <3>3
    <3> QED
      BY <3>1, <3>2, <3>3
  <2>5. Joins(s, m, h)
    <3>1. h = [i \in 1..m |-> h[i]]
      OBVIOUS
    <3> HIDE DEF h
    <3> QED
      BY <2>4, <3>1 DEF Joins
  <2> QED
    BY <2>5
<1> QED
  BY <1>2, <1>3

\* What FlattenSeq joins is not empty when one of the parts is not.
LEMMA FlattenNonEmpty ==
  ASSUME NEW S, NEW s \in Seq(Seq(S)), NEW m \in 1..Len(s), s[m] # <<>>
  PROVE  FlattenSeq(s) \in Seq(S) /\ FlattenSeq(s) # <<>>
<1> DEFINE n == Len(s)
           g == CHOOSE h : Joins(s, n, h)
<1>1. n \in Nat \ {0}
  BY LenProperties
<1>2. Joins(s, n, g)
  BY <1>1, JoinExists
<1>3. FlattenSeq(s) = g[n]
  BY <1>1 DEF FlattenSeq, Joins
<1> HIDE DEF g
<1>4. \A i \in 1..n : g[i] = IF i = 1 THEN s[i] ELSE g[i - 1] \o s[i]
  BY <1>2 DEF Joins
<1>5. \A i \in 1..n : s[i] \in Seq(S)
  BY ElementOfSeq
<1> DEFINE Good(i) == g[i] \in Seq(S) /\ (i >= m => g[i] # <<>>)
           Bad == {i \in 1..n : ~Good(i)}
<1>6. ASSUME Bad # {} PROVE FALSE
  <2>1. PICK i \in Bad : \A y \in Bad : i <= y
    <3> Bad \in SUBSET Nat
      OBVIOUS
    <3> HIDE DEF Bad
    <3> QED
      BY <1>6, MinFacts
  <2>2. i \in 1..n
    OBVIOUS
  <2>3. CASE i = 1
    <3>1. i >= m => m = i
      BY <2>3
    <3> QED
      BY <1>4, <1>5, <2>2, <2>3, <3>1
  <2>4. CASE i # 1
    <3>1. i - 1 \in 1..n /\ i - 1 \notin Bad
      BY <1>1, <2>1, <2>2, <2>4
    <3>2. Good(i - 1)
      BY <3>1
    <3>3. g[i] = g[i - 1] \o s[i] /\ g[i - 1] \in Seq(S) /\ s[i] \in Seq(S)
      BY <1>4, <1>5, <2>2, <2>4, <3>2
    <3>4. g[i] \in Seq(S) /\ Len(g[i]) = Len(g[i - 1]) + Len(s[i])
      BY <3>3, ConcatProperties
    <3>5. ASSUME i >= m PROVE g[i] # <<>>
      <4>1. g[i - 1] # <<>> \/ s[i] # <<>>
        <5>1. i = m \/ i - 1 >= m
          BY <2>2, <3>5
        <5> QED
          BY <3>2, <5>1
      <4>2. Len(g[i - 1]) \in Nat /\ Len(s[i]) \in Nat
        BY <3>3, LenProperties
      <4>3. Len(g[i - 1]) # 0 \/ Len(s[i]) # 0
        BY <3>3, <4>1, EmptySeq
      <4>4. Len(g[i]) # 0
        <5>1. \A a, b \in Nat : a # 0 \/ b # 0 => a + b # 0
          OBVIOUS
        <5>2. Len(g[i]) = Len(g[i - 1]) + Len(s[i])
          BY <3>4
        <5> HIDE DEF Bad
        <5> QED
          BY <4>2, <4>3, <5>1, <5>2
      <4> QED
        BY <4>4, EmptySeq
    <3> QED
      BY <3>4, <3>5
  <2> QED
    BY <2>3, <2>4
<1>7. n \in 1..n /\ n >= m
  BY <1>1
<1>8. Good(n)
  BY <1>6, <1>7
<1> QED
  BY <1>3, <1>7, <1>8
=============================================================================
