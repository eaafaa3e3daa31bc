---------------------------- MODULE DesugarProofs ----------------------------
(***************************************************************************)
(* What Desugar guarantees for every set of well-formed files: the stack   *)
(* of contexts holds the open declarations in both passes, every node the  *)
(* second pass asks for its type has one, a key keeps its node, and an     *)
(* assertion fails only on a name in the place of a type; and the key the  *)
(* parser binds a declaration to is the key the second pass looks it up    *)
(* with, whatever stands between the two (ast_build.c, ast_desug.c,        *)
(* context.c).                                                             *)
(***************************************************************************)
EXTENDS Desugar, DataLemmas

-----------------------------------------------------------------------------
(* Counting visits. *)

\* One more visit is in the set, or not.
LEMMA WithinStep ==
  ASSUME NEW S \in SUBSET Nat, NEW i \in Nat, NEW n \in Nat, i <= n
  PROVE  /\ Within(S, i, n) \in Nat
         /\ Within(S, i, i) = 0
         /\ n \in S => Within(S, i, n + 1) = Within(S, i, n) + 1
         /\ n \notin S => Within(S, i, n + 1) = Within(S, i, n)
<1> DEFINE F(m) == {j \in S : i <= j /\ j < m}
<1>0. \A j \in S : j \in Nat
  OBVIOUS
<1>1. IsFiniteSet(F(n)) /\ Cardinality(F(n)) \in Nat
  <2>1. IsFiniteSet(i..n)
    BY FS_Interval
  <2>2. \A j : j \in S /\ i <= j /\ j < n => j \in i..n
    BY <1>0
  <2>3. F(n) \in SUBSET (i..n)
    BY <2>2
  <2>4. IsFiniteSet(F(n))
    BY <2>1, <2>3, FS_Subset
  <2> QED
    BY <2>4, FS_CardinalityType
<1>2. F(i) = {}
  <2>1. \A j \in S : ~(i <= j /\ j < i)
    BY <1>0
  <2> QED
    BY <2>1
<1>3. ASSUME n \in S PROVE Cardinality(F(n + 1)) = Cardinality(F(n)) + 1
  <2>1. \A j \in S : /\ i <= j /\ j < n + 1 <=> (i <= j /\ j < n) \/ j = n
                     /\ j = n => ~(j < n)
    BY <1>0
  <2>2. F(n + 1) = F(n) \union {n} /\ n \notin F(n)
    BY <1>3, <2>1
  <2> HIDE DEF F
  <2> QED
    BY <1>1, <2>2, FS_AddElement
<1>4. ASSUME n \notin S PROVE F(n + 1) = F(n)
  <2>1. \A j \in S : i <= j /\ j < n + 1 <=> i <= j /\ j < n
    BY <1>0, <1>4
  <2> QED
    BY <2>1
<1> QED
  BY <1>1, <1>2, <1>3, <1>4, FS_EmptySet DEF Within

\* The members of a set are ranked by how many there are before them.
LEMMA Ranks ==
  ASSUME NEW n \in Nat, NEW S \in SUBSET (1..n)
  PROVE  /\ Cardinality(S) \in Nat
         /\ \A i \in S : Within(S, 1, i) \in 0..Cardinality(S) - 1
         /\ \A i, j \in S : i < j => Within(S, 1, i) < Within(S, 1, j)
         /\ \A k \in 1..Cardinality(S) : \E i \in S : Within(S, 1, i) = k - 1
<1> DEFINE F(m) == {j \in S : 1 <= j /\ j < m}
<1>1. IsFiniteSet(S) /\ Cardinality(S) \in Nat
  <2>1. IsFiniteSet(1..n)
    BY FS_Interval
  <2> QED
    BY <2>1, FS_Subset, FS_CardinalityType
<1>2. ASSUME NEW m
      PROVE  F(m) \in SUBSET S /\ IsFiniteSet(F(m)) /\ Within(S, 1, m) = Cardinality(F(m))
  <2>1. F(m) \in SUBSET S /\ Within(S, 1, m) = Cardinality(F(m))
    BY DEF Within
  <2> HIDE DEF F
  <2> QED
    BY <1>1, <2>1, FS_Subset
<1>3. ASSUME NEW m \in Nat \ {0}
      PROVE  /\ Within(S, 1, m) \in Nat /\ Within(S, 1, 1) = 0
             /\ m \in S => Within(S, 1, m + 1) = Within(S, 1, m) + 1
             /\ m \notin S => Within(S, 1, m + 1) = Within(S, 1, m)
  BY WithinStep
<1>4. ASSUME NEW i \in Nat \ {0}, NEW j \in Nat \ {0}, i <= j
      PROVE  Within(S, 1, i) <= Within(S, 1, j)
  <2>1. F(i) \in SUBSET F(j)
    <3>1. \A x \in S : x \in Nat
      OBVIOUS
    <3>2. \A x \in Nat : x < i => x < j
      BY <1>4
    <3> QED
      BY <3>1, <3>2
  <2> HIDE DEF F
  <2>2. Cardinality(F(i)) <= Cardinality(F(j))
    BY <1>2, <2>1, FS_Subset
  <2> QED
    BY <1>2, <2>2
<1>5. Within(S, 1, n + 1) = Cardinality(S)
  <2>1. F(n + 1) = S
    <3>1. \A j \in S : j \in 1..n
      OBVIOUS
    <3>2. \A j \in 1..n : 1 <= j /\ j < n + 1
      OBVIOUS
    <3> QED
      BY <3>1, <3>2
  <2> QED
    BY <1>2, <2>1
<1> HIDE DEF F
<1>6. ASSUME NEW i \in S PROVE Within(S, 1, i) \in 0..Cardinality(S) - 1
  <2>1. i \in Nat \ {0} /\ i + 1 \in Nat \ {0} /\ i + 1 <= n + 1 /\ n + 1 \in Nat \ {0}
    OBVIOUS
  <2>2. Within(S, 1, i + 1) <= Cardinality(S)
    BY <1>4, <1>5, <2>1
  <2> QED
    BY <1>1, <1>3, <2>1, <2>2
<1>7. ASSUME NEW i \in S, NEW j \in S, i < j PROVE Within(S, 1, i) < Within(S, 1, j)
  <2>1. i \in Nat \ {0} /\ j \in Nat \ {0} /\ i + 1 \in Nat \ {0} /\ i + 1 <= j
    BY <1>7
  <2>2. Within(S, 1, i + 1) <= Within(S, 1, j)
    BY <1>4, <2>1
  <2> QED
    BY <1>3, <2>1, <2>2
<1>8. ASSUME NEW k \in 1..Cardinality(S) PROVE \E i \in S : Within(S, 1, i) = k - 1
  <2> DEFINE T == {m \in Nat \ {0} : Within(S, 1, m + 1) >= k}
  <2>1. T \in SUBSET Nat /\ n \in T
    <3>1. n # 0
      <4>1. n = 0 => Within(S, 1, n + 1) = 0
        BY <1>3
      <4> QED
        BY <1>5, <4>1
    <3> QED
      BY <1>1, <1>5, <3>1
  <2>2. PICK m \in T : \A y \in T : m <= y
    <3> HIDE DEF T
    <3> QED
      BY <2>1, MinFacts
  <2>3. Within(S, 1, m) < k
    <3>1. CASE m = 1
      BY <1>1, <1>3, <3>1
    <3>2. CASE m # 1
      <4>1. m - 1 \in Nat \ {0} /\ m - 1 + 1 = m /\ m - 1 \notin T
        BY <2>2, <3>2
      <4> QED
        BY <1>1, <1>3, <4>1
    <3> QED
      BY <3>1, <3>2
  <2>4. m \in S /\ Within(S, 1, m) = k - 1
    BY <1>1, <1>3, <2>3
  <2> QED
    BY <2>4
<1> QED
  BY <1>1, <1>6, <1>7, <1>8

\* A declaration that opens adds one to the balance, one that closes takes one.
LEMMA BalanceStep ==
  ASSUME NEW c, WellFormed(c), NEW n \in DOMAIN c, NEW i \in 1..n
  PROVE  /\ Balance(c, i, n) \in Int
         /\ Balance(c, i, i) = 0
         /\ c[n].op \in Opens => Balance(c, i, n + 1) = Balance(c, i, n) + 1
         /\ c[n].op \in Closes => Balance(c, i, n + 1) = Balance(c, i, n) - 1
         /\ c[n].op \notin Opens \union Closes => Balance(c, i, n + 1) = Balance(c, i, n)
<1>1. DOMAIN c = 1..Len(c) /\ Len(c) \in Nat
  BY LenProperties DEF WellFormed
<1>2. n \in Nat /\ i \in Nat /\ i <= n
  BY <1>1
<1> DEFINE U == Where(c, Opens)
           V == Where(c, Closes)
<1>3. U \in SUBSET Nat /\ V \in SUBSET Nat
  BY <1>1 DEF Where
<1>4. /\ n \in U <=> c[n].op \in Opens
      /\ n \in V <=> c[n].op \in Closes
  BY DEF Where
<1>5. ~(c[n].op \in Opens /\ c[n].op \in Closes)
  BY DEF Opens, Closes
<1> HIDE DEF U, V
<1>6. /\ Within(U, i, n) \in Nat /\ Within(U, i, i) = 0
      /\ n \in U => Within(U, i, n + 1) = Within(U, i, n) + 1
      /\ n \notin U => Within(U, i, n + 1) = Within(U, i, n)
  BY <1>2, <1>3, WithinStep
<1>7. /\ Within(V, i, n) \in Nat /\ Within(V, i, i) = 0
      /\ n \in V => Within(V, i, n + 1) = Within(V, i, n) + 1
      /\ n \notin V => Within(V, i, n + 1) = Within(V, i, n)
  BY <1>2, <1>3, WithinStep
<1>8. \A m : Balance(c, i, m) = Within(U, i, m) - Within(V, i, m)
  BY DEF Balance, U, V
<1> QED
  BY <1>4, <1>5, <1>6, <1>7, <1>8

\* The depth before the first visit, and after one of each kind.
LEMMA DepthStep ==
  ASSUME NEW c, WellFormed(c), NEW n \in DOMAIN c
  PROVE  /\ Depth(c, n) \in Int
         /\ Depth(c, 1) = 0
         /\ n \in Pushes(c) => Depth(c, n + 1) = Depth(c, n) + 1
         /\ n \in Pops(c) /\ c[n].op # "inited" => Depth(c, n + 1) = Depth(c, n) - 1
         /\ c[n].op = "inited" => Depth(c, n + 1) = Depth(c, n) - 2
         /\ n \notin Pushes(c) \union Pops(c) => Depth(c, n + 1) = Depth(c, n)
<1>1. DOMAIN c = 1..Len(c) /\ Len(c) \in Nat
  BY LenProperties DEF WellFormed
<1>2. n \in Nat /\ 1 <= n
  BY <1>1
<1> DEFINE U == Pushes(c)
           V == Pops(c)
           W == Where(c, {"inited"})
<1>3. U \in SUBSET Nat /\ V \in SUBSET Nat /\ W \in SUBSET Nat
  BY <1>1 DEF Where, Pushes, Pops
<1>4. /\ n \in W <=> c[n].op = "inited"
      /\ n \in W => n \in V
      /\ n \in U => n \notin V
  BY DEF Where, Pushes, Pops
<1>5. \A m : Depth(c, m) = Within(U, 1, m) - Within(V, 1, m) - Within(W, 1, m)
  BY DEF Depth
<1> HIDE DEF U, V, W
<1>6. /\ Within(U, 1, n) \in Nat /\ Within(U, 1, 1) = 0
      /\ n \in U => Within(U, 1, n + 1) = Within(U, 1, n) + 1
      /\ n \notin U => Within(U, 1, n + 1) = Within(U, 1, n)
  BY <1>2, <1>3, WithinStep
<1>7. /\ Within(V, 1, n) \in Nat /\ Within(V, 1, 1) = 0
      /\ n \in V => Within(V, 1, n + 1) = Within(V, 1, n) + 1
      /\ n \notin V => Within(V, 1, n + 1) = Within(V, 1, n)
  BY <1>2, <1>3, WithinStep
<1>8. /\ Within(W, 1, n) \in Nat /\ Within(W, 1, 1) = 0
      /\ n \in W => Within(W, 1, n + 1) = Within(W, 1, n) + 1
      /\ n \notin W => Within(W, 1, n + 1) = Within(W, 1, n)
  BY <1>2, <1>3, WithinStep
<1>9. /\ Depth(c, n) \in Int /\ Depth(c, 1) = 0
      /\ n \in U => Depth(c, n + 1) = Depth(c, n) + 1
      /\ n \in V /\ n \notin W => Depth(c, n + 1) = Depth(c, n) - 1
      /\ n \in W => Depth(c, n + 1) = Depth(c, n) - 2
      /\ n \notin U \union V => Depth(c, n + 1) = Depth(c, n)
  BY <1>4, <1>5, <1>6, <1>7, <1>8
<1> QED
  BY <1>4, <1>9 DEF U, V

\* What is open after a visit.
LEMMA OpenStep ==
  ASSUME NEW c, WellFormed(c), NEW n \in DOMAIN c
  PROVE  /\ OpenAt(c, 1) = {}
         /\ \A i \in 1..(n - 1) : i \in OpenAt(c, n + 1)
                                  <=> i \in OpenAt(c, n) /\ Balance(c, i, n + 1) > 0
         /\ n \in OpenAt(c, n + 1) <=> c[n].op \in Opens
         /\ OpenAt(c, n) \subseteq 1..(n - 1)
         /\ OpenAt(c, n + 1) \subseteq 1..n
<1>1. DOMAIN c = 1..Len(c) /\ Len(c) \in Nat
  BY LenProperties DEF WellFormed
<1>2. n \in Nat \ {0}
  BY <1>1
<1>3. ASSUME NEW i \in 1..(n - 1)
      PROVE  i \in OpenAt(c, n + 1) <=> i \in OpenAt(c, n) /\ Balance(c, i, n + 1) > 0
  <2>1. (i + 1)..(n + 1) = ((i + 1)..n) \union {n + 1}
    BY <1>2
  <2> QED
    BY <1>2, <2>1 DEF OpenAt
<1>4. n \in OpenAt(c, n + 1) <=> c[n].op \in Opens
  <2>1. (n + 1)..(n + 1) = {n + 1}
    BY <1>2
  <2>2. c[n].op \in Opens => Balance(c, n, n + 1) > 0
    BY <1>2, BalanceStep
  <2> QED
    BY <1>2, <2>1, <2>2 DEF OpenAt
<1> QED
  BY <1>2, <1>3, <1>4 DEF OpenAt

-----------------------------------------------------------------------------
(* The stack of contexts. *)

FramesOf(c) == {FrameAt(c, i) : i \in Where(c, Opens)}

\* s holds what is open at visit n: frame k has all frames above it still to
\* close, and itself.
Follows(c, s, n) ==
  /\ s \in Seq(FramesOf(c))
  /\ \A k \in 1..Len(s) : /\ s[k].node \in OpenAt(c, n)
                          /\ Balance(c, s[k].node, n) = Len(s) - k + 1
  /\ \A i \in OpenAt(c, n) : \E k \in 1..Len(s) : s[k].node = i
  /\ \A j, k \in 1..Len(s) : j < k => s[j].node < s[k].node

\* Nothing is open at the start of a pass.
LEMMA FollowsStart ==
  ASSUME NEW c, WellFormed(c), c # <<>>
  PROVE  Follows(c, <<>>, 1)
<1>1. 1 \in DOMAIN c
  BY LenProperties, EmptySeq DEF WellFormed
<1>2. OpenAt(c, 1) = {}
  BY <1>1, OpenStep
<1>3. <<>> \in Seq(FramesOf(c)) /\ Len(<<>>) = 0
  BY EmptySeq
<1> QED
  BY <1>2, <1>3 DEF Follows

\* The file is at the bottom of the stack, whose height is what is open in it.
LEMMA Rooted ==
  ASSUME NEW c, WellFormed(c), NEW n \in DOMAIN c, n # 1, NEW s, Follows(c, s, n)
  PROVE  /\ s # <<>> /\ Len(s) \in Nat \ {0}
         /\ Len(s) = Balance(c, 1, n)
         /\ s[1].node = 1
<1>1. DOMAIN c = 1..Len(c) /\ Len(c) \in Nat
  BY LenProperties DEF WellFormed
<1>2. n \in Nat /\ n > 1
  BY <1>1
<1>3. Where(c, {"file"}) = {1}
  BY DEF WellFormed
<1>4. c[1].op = "file" /\ \A m \in 2..Len(c) : c[m].op # "file"
  BY <1>1, <1>3 DEF Where
<1>5. \A m \in 2..n : Balance(c, 1, m) >= 1
  <2> TAKE m \in 2..n
  <2>1. m \in DOMAIN c /\ m \in 2..Len(c)
    BY <1>1, <1>2
  <2> QED
    BY <1>4, <2>1 DEF WellFormed
<1>6. \A m \in (1 + 1)..n : Balance(c, 1, m) > 0
  <2> TAKE m \in (1 + 1)..n
  <2>1. m \in 2..n
    OBVIOUS
  <2>2. m \in DOMAIN c /\ 1 \in 1..m
    BY <1>1, <1>2, <2>1
  <2>3. Balance(c, 1, m) \in Int
    BY <2>2, BalanceStep
  <2> QED
    BY <1>5, <2>1, <2>3
<1>7. 1 \in OpenAt(c, n)
  BY <1>2, <1>4, <1>6 DEF OpenAt, Opens
<1>8. PICK k \in 1..Len(s) : s[k].node = 1
  BY <1>7 DEF Follows
<1>9. Len(s) \in Nat
  BY LenProperties DEF Follows
<1>10. OpenAt(c, n) \subseteq 1..(n - 1)
  BY OpenStep
<1>11. k = 1
  <2> SUFFICES ASSUME k # 1 PROVE FALSE
    OBVIOUS
  <2>1. 1 \in 1..Len(s) /\ 1 < k
    BY <1>8, <1>9
  <2>2. s[1].node < s[k].node
    BY <1>8, <2>1 DEF Follows
  <2>3. s[1].node \in 1..(n - 1)
    BY <1>10, <2>1 DEF Follows
  <2> QED
    BY <1>8, <2>2, <2>3
<1>12. Balance(c, s[1].node, n) = Len(s) - 1 + 1
  BY <1>8, <1>11 DEF Follows
<1>13. Len(s) = Balance(c, 1, n) /\ s[1].node = 1 /\ Len(s) \in Nat \ {0}
  BY <1>8, <1>9, <1>11, <1>12
<1> QED
  BY <1>13, EmptySeq

\* A visit that opens and closes nothing leaves the stack as it is.
LEMMA FollowsPlain ==
  ASSUME NEW c, WellFormed(c), NEW n \in DOMAIN c, NEW s, Follows(c, s, n),
         c[n].op \notin Opens \union Closes
  PROVE  Follows(c, s, n + 1)
<1>1. n \in Nat \ {0}
  BY LenProperties DEF WellFormed
<1>2. \A i \in 1..n : Balance(c, i, n + 1) = Balance(c, i, n)
  BY BalanceStep
<1>3. OpenAt(c, n + 1) = OpenAt(c, n)
  <2>1. OpenAt(c, n) \subseteq 1..(n - 1) /\ OpenAt(c, n + 1) \subseteq 1..n
    BY OpenStep
  <2>2. n \notin OpenAt(c, n + 1)
    BY OpenStep
  <2>3. \A i \in OpenAt(c, n) : Balance(c, i, n) > 0
    BY <1>1 DEF OpenAt
  <2>4. \A i \in 1..(n - 1) : i \in OpenAt(c, n + 1)
                              <=> i \in OpenAt(c, n) /\ Balance(c, i, n + 1) > 0
    BY OpenStep
  <2>5. \A i \in 1..(n - 1) : i \in 1..n
    BY <1>1
  <2>6. \A i : i \in 1..n /\ i # n => i \in 1..(n - 1)
    BY <1>1
  <2>7. OpenAt(c, n + 1) \subseteq OpenAt(c, n)
    BY <2>1, <2>2, <2>4, <2>6
  <2>8. OpenAt(c, n) \subseteq OpenAt(c, n + 1)
    BY <1>2, <2>1, <2>3, <2>4, <2>5
  <2> QED
    BY <2>7, <2>8
<1>4. \A i \in OpenAt(c, n) : i \in 1..n
  BY <1>1 DEF OpenAt
<1>5. ASSUME NEW k \in 1..Len(s)
      PROVE  s[k].node \in OpenAt(c, n) /\ Balance(c, s[k].node, n + 1) = Len(s) - k + 1
  BY <1>2, <1>4 DEF Follows
<1> QED
  BY <1>3, <1>5 DEF Follows

\* A visit that opens a declaration puts it on the stack.
LEMMA FollowsOpen ==
  ASSUME NEW c, WellFormed(c), NEW n \in DOMAIN c, NEW s, Follows(c, s, n),
         c[n].op \in Opens, NEW f \in FramesOf(c), f.node = n
  PROVE  Follows(c, Append(s, f), n + 1)
<1> DEFINE r == Append(s, f)
           h == Len(s)
<1>1. n \in Nat \ {0} /\ s \in Seq(FramesOf(c)) /\ h \in Nat
  BY LenProperties DEF WellFormed, Follows
<1>2. /\ r \in Seq(FramesOf(c))
      /\ Len(r) = h + 1
      /\ \A k \in 1..h : r[k] = s[k]
      /\ r[h + 1].node = n
  BY <1>1, AppendProperties
<1>3. \A k \in 1..h + 1 : k \in 1..h \/ k = h + 1
  BY <1>1
<1> HIDE DEF r
<1>4. \A i \in 1..n : Balance(c, i, n + 1) = Balance(c, i, n) + 1
  BY BalanceStep
<1>5. Balance(c, n, n + 1) = 1
  <2>1. n \in 1..n
    BY <1>1
  <2>2. Balance(c, n, n) = 0
    BY <2>1, BalanceStep
  <2> QED
    BY <1>4, <2>1, <2>2
<1>6. OpenAt(c, n) \subseteq 1..(n - 1)
  BY OpenStep
<1>7. \A i \in OpenAt(c, n) : i \in 1..n /\ i < n /\ Balance(c, i, n) > 0
  BY <1>1 DEF OpenAt
<1>8. OpenAt(c, n + 1) = OpenAt(c, n) \union {n}
  <2>1. OpenAt(c, n + 1) \subseteq 1..n /\ n \in OpenAt(c, n + 1)
    BY OpenStep
  <2>2. \A i \in 1..(n - 1) : i \in OpenAt(c, n + 1)
                              <=> i \in OpenAt(c, n) /\ Balance(c, i, n + 1) > 0
    BY OpenStep
  <2>3. ASSUME NEW i \in OpenAt(c, n) PROVE Balance(c, i, n + 1) > 0
    <3>1. Balance(c, i, n) \in Int
      BY <1>7, BalanceStep
    <3> QED
      BY <1>4, <1>7, <3>1
  <2>4. \A i : i \in 1..n /\ i # n => i \in 1..(n - 1)
    BY <1>1
  <2>5. OpenAt(c, n + 1) \subseteq OpenAt(c, n) \union {n}
    BY <2>1, <2>2, <2>4
  <2>6. OpenAt(c, n) \subseteq OpenAt(c, n + 1)
    BY <1>6, <2>2, <2>3
  <2> QED
    BY <2>1, <2>5, <2>6
<1>9. ASSUME NEW k \in 1..Len(r)
      PROVE  r[k].node \in OpenAt(c, n + 1) /\ Balance(c, r[k].node, n + 1) = Len(r) - k + 1
  <2>1. CASE k \in 1..h
    <3>1. s[k].node \in OpenAt(c, n) /\ Balance(c, s[k].node, n) = h - k + 1
      BY <2>1 DEF Follows
    <3>2. Balance(c, s[k].node, n + 1) = h - k + 1 + 1
      BY <1>4, <1>7, <3>1
    <3> QED
      BY <1>1, <1>2, <1>8, <2>1, <3>1, <3>2
  <2>2. CASE k = h + 1
    BY <1>1, <1>2, <1>5, <1>8, <2>2
  <2> QED
    BY <1>2, <1>3, <2>1, <2>2
<1>10. ASSUME NEW i \in OpenAt(c, n + 1) PROVE \E k \in 1..Len(r) : r[k].node = i
  <2>1. CASE i = n
    BY <1>1, <1>2, <2>1
  <2>2. CASE i \in OpenAt(c, n)
    <3>1. PICK k \in 1..h : s[k].node = i
      BY <2>2 DEF Follows
    <3>2. k \in 1..Len(r) /\ r[k].node = i
      BY <1>1, <1>2, <3>1
    <3> QED
      BY <3>2
  <2> QED
    BY <1>8, <2>1, <2>2
<1>11. ASSUME NEW j \in 1..Len(r), NEW k \in 1..Len(r), j < k
       PROVE  r[j].node < r[k].node
  <2>1. j \in 1..h
    BY <1>1, <1>2, <1>11
  <2>2. CASE k \in 1..h
    <3>1. s[j].node < s[k].node
      BY <1>11, <2>1, <2>2 DEF Follows
    <3> QED
      BY <1>2, <2>1, <2>2, <3>1
  <2>3. CASE k = h + 1
    <3>1. s[j].node \in OpenAt(c, n)
      BY <2>1 DEF Follows
    <3> QED
      BY <1>2, <1>7, <2>1, <2>3, <3>1
  <2> QED
    BY <1>2, <1>3, <2>2, <2>3
<1>12. Follows(c, r, n + 1)
  BY <1>2, <1>9, <1>10, <1>11 DEF Follows
<1> QED
  BY <1>12 DEF r

\* A visit that closes a declaration takes the frame on top from the stack.
LEMMA FollowsClose ==
  ASSUME NEW c, WellFormed(c), NEW n \in DOMAIN c, NEW s, Follows(c, s, n),
         c[n].op \in Closes, s # <<>>
  PROVE  /\ Follows(c, Front(s), n + 1)
         /\ Front(s) \in Seq(FramesOf(c)) /\ Len(Front(s)) = Len(s) - 1
<1> DEFINE r == Front(s)
           h == Len(s)
<1>1. n \in Nat \ {0} /\ s \in Seq(FramesOf(c)) /\ h \in Nat \ {0}
  BY LenProperties, EmptySeq DEF WellFormed, Follows
<1>2. /\ r \in Seq(FramesOf(c))
      /\ Len(r) = h - 1
      /\ \A k \in 1..h - 1 : r[k] = s[k]
  <2> DEFINE m == h - 1
  <2>1. m \in Nat /\ \A k \in 1..m : s[k] \in FramesOf(c)
    BY <1>1, ElementOfSeq
  <2>2. h - 1 = m
    OBVIOUS
  <2> HIDE DEF m
  <2>3. /\ SubSeq(s, 1, m) \in Seq(FramesOf(c))
        /\ Len(SubSeq(s, 1, m)) = m
        /\ \A k \in 1..m : SubSeq(s, 1, m)[k] = s[k]
    BY <2>1, SubSeqProperties
  <2> QED
    BY <2>2, <2>3 DEF Front
<1> HIDE DEF r
<1>3. \A k \in 1..h : k \in 1..h - 1 \/ k = h
  BY <1>1
<1>4. \A i \in 1..n : Balance(c, i, n + 1) = Balance(c, i, n) - 1
  BY BalanceStep
<1>5. \A i \in OpenAt(c, n) : i \in 1..n
  BY <1>1 DEF OpenAt
<1>6. ASSUME NEW k \in 1..h
      PROVE  /\ s[k].node \in OpenAt(c, n)
             /\ Balance(c, s[k].node, n + 1) = h - k
  <2>1. s[k].node \in OpenAt(c, n) /\ Balance(c, s[k].node, n) = h - k + 1
    BY DEF Follows
  <2> QED
    BY <1>1, <1>4, <1>5, <2>1
<1>7. \A i \in OpenAt(c, n + 1) : i \in OpenAt(c, n) /\ Balance(c, i, n + 1) > 0
  <2>1. OpenAt(c, n + 1) \subseteq 1..n /\ n \notin OpenAt(c, n + 1)
    BY OpenStep DEF Opens, Closes
  <2>2. \A i \in 1..(n - 1) : i \in OpenAt(c, n + 1)
                              <=> i \in OpenAt(c, n) /\ Balance(c, i, n + 1) > 0
    BY OpenStep
  <2>3. \A i : i \in 1..n /\ i # n => i \in 1..(n - 1)
    BY <1>1
  <2> QED
    BY <2>1, <2>2, <2>3
<1>8. \A i \in OpenAt(c, n) : Balance(c, i, n + 1) > 0 => i \in OpenAt(c, n + 1)
  <2>1. OpenAt(c, n) \subseteq 1..(n - 1)
    BY OpenStep
  <2>2. \A i \in 1..(n - 1) : i \in OpenAt(c, n + 1)
                              <=> i \in OpenAt(c, n) /\ Balance(c, i, n + 1) > 0
    BY OpenStep
  <2> QED
    BY <2>1, <2>2
<1>9. ASSUME NEW k \in 1..Len(r)
      PROVE  r[k].node \in OpenAt(c, n + 1) /\ Balance(c, r[k].node, n + 1) = Len(r) - k + 1
  <2>1. k \in 1..h - 1 /\ k \in 1..h /\ h - k > 0 /\ Len(r) - k + 1 = h - k
    BY <1>1, <1>2
  <2>2. s[k].node \in OpenAt(c, n) /\ Balance(c, s[k].node, n + 1) = h - k
    BY <1>6, <2>1
  <2>3. Balance(c, s[k].node, n + 1) > 0
    BY <2>1, <2>2
  <2> QED
    BY <1>2, <1>8, <2>1, <2>2, <2>3
<1>10. ASSUME NEW i \in OpenAt(c, n + 1) PROVE \E k \in 1..Len(r) : r[k].node = i
  <2>1. i \in OpenAt(c, n) /\ Balance(c, i, n + 1) > 0
    BY <1>7
  <2>2. PICK k \in 1..h : s[k].node = i
    BY <2>1 DEF Follows
  <2>3. Balance(c, i, n + 1) = h - k
    BY <1>6, <2>2
  <2>4. k # h
    BY <1>1, <2>1, <2>3
  <2>5. k \in 1..Len(r) /\ r[k].node = i
    BY <1>2, <1>3, <2>2, <2>4
  <2> QED
    BY <2>5
<1>11. ASSUME NEW j \in 1..Len(r), NEW k \in 1..Len(r), j < k
       PROVE  r[j].node < r[k].node
  <2>1. j \in 1..h /\ k \in 1..h /\ j \in 1..h - 1 /\ k \in 1..h - 1
    BY <1>1, <1>2
  <2>2. s[j].node < s[k].node
    BY <1>11, <2>1 DEF Follows
  <2> QED
    BY <1>2, <2>1, <2>2
<1>12. Follows(c, r, n + 1)
  BY <1>2, <1>9, <1>10, <1>11 DEF Follows
<1> QED
  BY <1>2, <1>12 DEF r

-----------------------------------------------------------------------------
(* The invariant. *)

TypeRecords == [id : SourceIds, refc : Nat]
OperandRecords == [kind : Operands \union {"var", "call"}, of : Owners(code)]

ContextsOK ==
  /\ ctx \in Seq(FramesOf(code))
  /\ Len(ctx) <= MAX_CONTEXT
  /\ verdict = "running" => Follows(code, ctx, pc)

SymbolsOK == \A k \in DOMAIN symbols : symbols[k] \in Owners(code)

\* The depth of a type changes, its name does not.
TypesOK ==
  /\ types \in [Owners(code) -> TypeRecords]
  /\ \A i \in Owners(code) : types[i].id = code[i].type.id

OperandsOK ==
  /\ operands \in Seq(OperandRecords)
  /\ pass = "parse" => operands = <<>>
  /\ verdict = "running" /\ pass = "desug" => Len(operands) = Depth(code, pc)

IInv ==
  /\ prog \in Programs
  /\ pc \in DOMAIN code
  /\ pass \in {"parse", "desug"}
  /\ verdict \in {"running", "accepted", "rejected", "aborted"}
  /\ ContextsOK /\ SymbolsOK /\ TypesOK /\ OperandsOK
  /\ AssertionsHold

\* Where a pass is in its file.
LEMMA Here ==
  ASSUME IInv
  PROVE  /\ WellFormed(code)
         /\ Len(code) \in Nat /\ DOMAIN code = 1..Len(code)
         /\ Visit.op \in Ops
         /\ Visit.op = "file" <=> pc = 1
         /\ Visit.op = "eof" <=> pc = Len(code)
         /\ Visit.op # "eof" => pc + 1 \in DOMAIN code
         /\ Visit.op \in {"lit", "var", "enter"} => pc \in Owners(code)
<1>1. WellFormed(code)
  BY ProgramsAssumption DEF IInv, code
<1>2. Len(code) \in Nat /\ DOMAIN code = 1..Len(code) /\ pc \in DOMAIN code
  BY <1>1, LenProperties DEF WellFormed, IInv
<1>3. Where(code, {"file"}) = {1} /\ Where(code, {"eof"}) = {Len(code)}
  BY <1>1 DEF WellFormed
<1>4. Visit.op = "file" <=> pc = 1
  BY <1>2, <1>3 DEF Where, Visit
<1>5. Visit.op = "eof" <=> pc = Len(code)
  BY <1>2, <1>3 DEF Where, Visit
<1>6. Visit.op \in Ops
  BY <1>1, <1>2 DEF WellFormed, Visit
<1>7. Visit.op \in {"lit", "var", "enter"} => pc \in Owners(code)
  BY <1>2 DEF Owners, Visit
<1> QED
  BY <1>1, <1>2, <1>4, <1>5, <1>6, <1>7

\* Nothing is open where a pass starts.
LEMMA EmptyAtStart ==
  ASSUME IInv, verdict = "running", pc = 1
  PROVE  ctx = <<>>
<1>1. OpenAt(code, 1) = {}
  BY Here, OpenStep DEF IInv
<1>2. ctx \in Seq(FramesOf(code)) /\ Follows(code, ctx, 1)
  BY DEF IInv, ContextsOK
<1>3. 1..Len(ctx) = {}
  BY <1>1, <1>2 DEF Follows
<1>4. Len(ctx) \in Nat
  BY <1>2, LenProperties
<1>5. Len(ctx) = 0
  BY <1>3, <1>4
<1> QED
  BY <1>2, <1>5, EmptySeq

\* Behind the first visit the stack is as high as what is open in the file.
LEMMA Height ==
  ASSUME IInv, verdict = "running", pc # 1
  PROVE  /\ ctx # <<>> /\ Len(ctx) \in Nat \ {0}
         /\ Len(ctx) = Balance(code, 1, pc)
         /\ ctx[1].node = 1
BY Here, Rooted DEF IInv, ContextsOK

-----------------------------------------------------------------------------
(* Kinds of steps. *)

\* An error changes nothing but the verdict.
LEMMA RejectInv ==
  ASSUME IInv, Reject
  PROVE  IInv'
<1>1. code' = code
  BY DEF Reject, code
<1> QED
  BY <1>1 DEF Reject, IInv, ContextsOK, SymbolsOK, TypesOK, TypeRecords, OperandsOK,
              OperandRecords, AssertionsHold

\* Nor does a failed assertion.
LEMMA AbortInv ==
  ASSUME IInv, Abort, \E i \in Owners(code) : code[i].type.id = UNRESOLVED
  PROVE  IInv'
<1>1. code' = code
  BY DEF Abort, code
<1> QED
  BY <1>1 DEF Abort, IInv, ContextsOK, SymbolsOK, TypesOK, TypeRecords, OperandsOK,
              OperandRecords, AssertionsHold

\* A step to the next visit needs the parts of the invariant there.
LEMMA AdvanceInv ==
  ASSUME IInv, Visit.op # "eof", Advance, UNCHANGED <<prog, pass>>,
         verdict' \in {"running", "rejected"},
         Follows(code, ctx', pc + 1), Len(ctx') <= MAX_CONTEXT,
         SymbolsOK', TypesOK', OperandsOK'
  PROVE  IInv'
<1>1. code' = code
  BY DEF code
<1>2. pc' = pc + 1 /\ pc' \in DOMAIN code'
  BY <1>1, Here DEF Advance
<1>3. ContextsOK'
  BY <1>1, <1>2 DEF ContextsOK, Follows
<1>4. AssertionsHold'
  BY DEF AssertionsHold
<1> QED
  BY <1>2, <1>3, <1>4 DEF IInv

\* The contexts after a visit that opens and closes nothing.
LEMMA PlainContext ==
  ASSUME IInv, verdict = "running", Visit.op \notin Opens \union Closes
  PROVE  Follows(code, ctx, pc + 1) /\ Len(ctx) <= MAX_CONTEXT
BY Here, FollowsPlain DEF IInv, ContextsOK, Visit

\* After one that opens a declaration.
LEMMA PushedContext ==
  ASSUME IInv, verdict = "running", Visit.op \in Opens, ~CtxFull,
         NEW f, f = FrameAt(code, pc), ctx_push(f)
  PROVE  Follows(code, ctx', pc + 1) /\ Len(ctx') <= MAX_CONTEXT
<1>1. f \in FramesOf(code) /\ f.node = pc
  BY DEF IInv, FramesOf, FrameAt, FileFrame, FunFrame, Where, Visit
<1>2. Follows(code, Append(ctx, f), pc + 1)
  BY <1>1, Here, FollowsOpen DEF IInv, ContextsOK, Visit
<1>3. ctx \in Seq(FramesOf(code)) /\ Len(ctx) \in Nat
  BY LenProperties DEF IInv, ContextsOK
<1>4. Len(Append(ctx, f)) = Len(ctx) + 1
  BY <1>1, <1>3, AppendProperties
<1>5. Len(ctx) < MAX_CONTEXT
  BY <1>3, ContextAssumption DEF CtxFull
<1> QED
  BY <1>2, <1>3, <1>4, <1>5, ContextAssumption DEF ctx_push

\* After one that closes a declaration.
LEMMA PoppedContext ==
  ASSUME IInv, verdict = "running", Visit.op \in Closes, ctx_pop
  PROVE  /\ Follows(code, ctx', pc + 1) /\ ctx' \in Seq(FramesOf(code))
         /\ Len(ctx') = Len(ctx) - 1 /\ Len(ctx') <= MAX_CONTEXT
<1>1. pc # 1
  BY Here DEF Closes
<1>2. ctx # <<>> /\ Len(ctx) \in Nat
  BY <1>1, Height
<1>3. /\ Follows(code, Front(ctx), pc + 1)
      /\ Front(ctx) \in Seq(FramesOf(code)) /\ Len(Front(ctx)) = Len(ctx) - 1
  BY <1>2, Here, FollowsClose DEF IInv, ContextsOK, Visit
<1>4. Len(ctx) <= MAX_CONTEXT
  BY DEF IInv, ContextsOK
<1> QED
  BY <1>2, <1>3, <1>4, ContextAssumption DEF ctx_pop

\* A symbol for a declaration.
LEMMA AddedSymbol ==
  ASSUME IInv, NEW key, NEW n \in Owners(code), add_symbol(key, n), UNCHANGED prog
  PROVE  SymbolsOK'
BY DEF IInv, SymbolsOK, add_symbol, code

-----------------------------------------------------------------------------
(* The first pass. *)

\* Its steps leave the types and the operands alone.
LEMMA ParseKeeps ==
  ASSUME IInv, pass = "parse", UNCHANGED <<prog, pass, types, operands>>
  PROVE  TypesOK' /\ OperandsOK'
<1>1. code' = code
  BY DEF code
<1> QED
  BY <1>1 DEF IInv, TypesOK, TypeRecords, OperandsOK, OperandRecords

\* parse_file, parse_fun_decl, parse_var_decl and what is between them.
LEMMA ParseDownInv ==
  ASSUME IInv, ParseFile \/ ParseFunDecl \/ ParseVarDecl \/ ParseOther
  PROVE  IInv'
<1>1. CASE ParseFile
  <2>1. /\ verdict = "running" /\ pass = "parse" /\ Visit.op = "file"
        /\ ctx_push(FileFrame(pc)) /\ Advance
        /\ UNCHANGED <<prog, pass, verdict, symbols, types, operands>>
    BY <1>1 DEF ParseFile, At
  <2>2. ctx = <<>>
    BY <2>1, Here, EmptyAtStart
  <2>3. ~CtxFull
    BY <2>2, EmptySeq, ContextAssumption DEF CtxFull
  <2>4. Follows(code, ctx', pc + 1) /\ Len(ctx') <= MAX_CONTEXT
    BY <2>1, <2>3, PushedContext DEF Opens, FrameAt, Visit
  <2>5. SymbolsOK'
    BY <2>1 DEF IInv, SymbolsOK, code
  <2> QED
    BY <2>1, <2>4, <2>5, ParseKeeps, AdvanceInv
<1>2. CASE ParseFunDecl
  <2>1. verdict = "running" /\ pass = "parse" /\ Visit.op = "enter"
    BY <1>2 DEF ParseFunDecl, At
  <2>2. CASE Reject
    BY <2>2, RejectInv
  <2>3. CASE ~Reject
    <3>1. /\ ~CtxFull /\ ctx_push(FunFrame(Visit.name, pc)) /\ Advance
          /\ UNCHANGED <<prog, pass, verdict, symbols, types, operands>>
      BY <1>2, <2>3 DEF ParseFunDecl
    <3>2. Follows(code, ctx', pc + 1) /\ Len(ctx') <= MAX_CONTEXT
      BY <2>1, <3>1, PushedContext DEF Opens, FrameAt, Visit
    <3>3. SymbolsOK'
      BY <3>1 DEF IInv, SymbolsOK, code
    <3> QED
      BY <2>1, <3>1, <3>2, <3>3, ParseKeeps, AdvanceInv
  <2> QED
    BY <2>2, <2>3
<1>3. CASE ParseVarDecl
  <2>1. verdict = "running" /\ pass = "parse" /\ Visit.op = "var"
    BY <1>3 DEF ParseVarDecl, At
  <2>2. CASE Reject
    BY <2>2, RejectInv
  <2>3. CASE ~Reject
    <3>1. /\ add_symbol(ParseKey(ctx, Visit.name), pc) /\ Advance
          /\ UNCHANGED <<prog, pass, verdict, ctx, types, operands>>
      BY <1>3, <2>3 DEF ParseVarDecl
    <3>2. Follows(code, ctx, pc + 1) /\ Len(ctx) <= MAX_CONTEXT
      BY <2>1, PlainContext DEF Opens, Closes
    <3>3. SymbolsOK'
      BY <2>1, <3>1, Here, AddedSymbol
    <3> QED
      BY <2>1, <3>1, <3>2, <3>3, ParseKeeps, AdvanceInv
  <2> QED
    BY <2>2, <2>3
<1>4. CASE ParseOther
  <2>1. /\ verdict = "running" /\ pass = "parse"
        /\ Visit.op \notin Opens \union Closes
        /\ Advance
        /\ UNCHANGED <<prog, pass, verdict, ctx, symbols, types, operands>>
    BY <1>4 DEF ParseOther, Opens, Closes
  <2>2. Follows(code, ctx, pc + 1) /\ Len(ctx) <= MAX_CONTEXT
    BY <2>1, PlainContext
  <2>3. SymbolsOK'
    BY <2>1 DEF IInv, SymbolsOK, code
  <2> QED
    BY <2>1, <2>2, <2>3, ParseKeeps, AdvanceInv DEF Closes
<1> QED
  BY <1>1, <1>2, <1>3, <1>4

\* The function that ends is on top of the stack: a function, not the file.
LEMMA FunOnTop ==
  ASSUME IInv, verdict = "running", Visit.op = "leave"
  PROVE  ctx_peek.node \in Owners(code)
<1>1. pc # 1 /\ pc \in DOMAIN code /\ WellFormed(code)
  BY Here DEF IInv
<1>2. /\ Len(ctx) \in Nat \ {0} /\ Len(ctx) = Balance(code, 1, pc)
      /\ ctx[1].node = 1
  BY <1>1, Height
<1>3. Balance(code, 1, pc) >= 2
  BY <1>1 DEF WellFormed, Visit
<1>4. 1 \in 1..Len(ctx) /\ Len(ctx) \in 1..Len(ctx) /\ 1 < Len(ctx)
  BY <1>2, <1>3
<1>5. Follows(code, ctx, pc)
  BY DEF IInv, ContextsOK
<1> DEFINE n == ctx[Len(ctx)].node
<1>6. n \in OpenAt(code, pc) /\ 1 < n
  BY <1>2, <1>4, <1>5 DEF Follows
<1>7. n \in DOMAIN code /\ code[n].op \in Opens
  BY <1>6, Here DEF OpenAt, IInv
<1>8. n # 1
  BY <1>6
<1>9. code[n].op # "file"
  <2>1. Where(code, {"file"}) = {1}
    BY <1>1 DEF WellFormed
  <2> QED
    BY <1>7, <1>8, <2>1 DEF Where
<1> QED
  BY <1>7, <1>9 DEF Opens, Owners, ctx_peek, Last

\* The end of a function in the parser.
LEMMA ParseFunEndInv ==
  ASSUME IInv, ParseFunEnd
  PROVE  IInv'
<1>1. /\ verdict = "running" /\ pass = "parse" /\ Visit.op = "leave"
      /\ ctx_pop /\ Advance
      /\ add_symbol(ParseKey(ctx', ctx_peek.name), ctx_peek.node)
      /\ verdict' \in {"running", "rejected"}
      /\ UNCHANGED <<prog, pass, types, operands>>
  BY DEF ParseFunEnd, At
<1>2. Follows(code, ctx', pc + 1) /\ Len(ctx') <= MAX_CONTEXT
  BY <1>1, PoppedContext DEF Closes
<1>3. SymbolsOK'
  BY <1>1, FunOnTop, AddedSymbol
<1> QED
  BY <1>1, <1>2, <1>3, ParseKeeps, AdvanceInv

\* The second pass starts with nothing open and no operand.
LEMMA ParseEndInv ==
  ASSUME IInv, ParseEnd
  PROVE  IInv'
<1>1. /\ verdict = "running" /\ pass = "parse" /\ Visit.op = "eof"
      /\ ctx_pop /\ pass' = "desug" /\ pc' = 1
      /\ UNCHANGED <<prog, verdict, symbols, types, operands>>
  BY DEF ParseEnd, At
<1>2. code' = code /\ WellFormed(code) /\ pc \in DOMAIN code
  BY <1>1, Here DEF code, IInv
<1>3. pc # 1
  BY <1>1, Here
<1>4. Len(ctx) = 1
  BY <1>1, <1>2, <1>3, Height DEF WellFormed, Visit
<1>5. ctx' = <<>>
  <2>1. ctx' \in Seq(FramesOf(code)) /\ Len(ctx') = Len(ctx) - 1
    BY <1>1, PoppedContext DEF Closes
  <2> QED
    BY <1>4, <2>1, EmptySeq
<1>6. code # <<>> /\ 1 \in DOMAIN code
  BY <1>2, Here, EmptySeq
<1>7. ContextsOK'
  <2>1. Follows(code, <<>>, 1)
    BY <1>2, <1>6, FollowsStart
  <2>2. Len(<<>>) <= MAX_CONTEXT /\ <<>> \in Seq(FramesOf(code))
    BY EmptySeq, ContextAssumption
  <2> QED
    BY <1>1, <1>2, <1>5, <2>1, <2>2 DEF ContextsOK
<1>8. OperandsOK'
  <2>1. Depth(code, 1) = 0
    BY <1>2, DepthStep
  <2>2. operands = <<>> /\ operands \in Seq(OperandRecords)
    BY <1>1 DEF IInv, OperandsOK
  <2> QED
    BY <1>1, <1>2, <2>1, <2>2, EmptySeq DEF OperandsOK, OperandRecords
<1>9. SymbolsOK' /\ TypesOK' /\ AssertionsHold'
  BY <1>1, <1>2 DEF IInv, SymbolsOK, TypesOK, TypeRecords, AssertionsHold
<1> QED
  BY <1>1, <1>2, <1>6, <1>7, <1>8, <1>9 DEF IInv

-----------------------------------------------------------------------------
(* The second pass. *)

\* The operands a visit asks for are there, and own types.
LEMMA OperandsAt ==
  ASSUME IInv, verdict = "running", pass = "desug"
  PROVE  /\ operands \in Seq(OperandRecords)
         /\ Len(operands) \in Nat /\ Len(operands) = Depth(code, pc)
         /\ Len(operands) >= Needed(Visit.op)
         /\ Len(operands) >= 1 => Top \in OperandRecords
         /\ Len(operands) >= 2 => Under \in OperandRecords
         /\ Len(operands) >= 1 => /\ Below(1) \in Seq(OperandRecords)
                                  /\ Len(Below(1)) = Len(operands) - 1
         /\ Len(operands) >= 2 => /\ Below(2) \in Seq(OperandRecords)
                                  /\ Len(Below(2)) = Len(operands) - 2
<1>1. operands \in Seq(OperandRecords) /\ Len(operands) = Depth(code, pc)
  BY DEF IInv, OperandsOK
<1>2. Len(operands) \in Nat
  BY <1>1, LenProperties
<1>3. Depth(code, pc) >= Needed(Visit.op)
  BY Here DEF IInv, WellFormed, Visit
<1>4. ASSUME Len(operands) >= 1
      PROVE  /\ Top \in OperandRecords
             /\ Below(1) \in Seq(OperandRecords)
             /\ Len(Below(1)) = Len(operands) - 1
             /\ \A i \in 1..Len(operands) - 1 : Below(1)[i] = operands[i]
  <2>1. Len(operands) \in 1..Len(operands)
    BY <1>2, <1>4
  <2>2. Top \in OperandRecords
    BY <1>1, <2>1, ElementOfSeq DEF Top, Last
  <2> QED
    BY <1>1, <1>2, <1>4, <2>2, StackFacts DEF Below
<1>5. ASSUME Len(operands) >= 2
      PROVE  /\ Under \in OperandRecords
             /\ Below(2) \in Seq(OperandRecords)
             /\ Len(Below(2)) = Len(operands) - 2
  <2>1. Len(operands) - 1 \in 1..Len(operands) - 1 /\ Len(operands) - 1 \in 1..Len(operands)
    BY <1>2, <1>5
  <2>2. Under = operands[Len(operands) - 1]
    BY <1>2, <1>4, <1>5, <2>1 DEF Under, Last
  <2>3. Under \in OperandRecords
    BY <1>1, <2>1, <2>2, ElementOfSeq
  <2> QED
    BY <1>1, <1>2, <1>5, <2>3, StackFacts DEF Below
<1> QED
  BY <1>1, <1>2, <1>3, <1>4, <1>5

\* How many operands the next visit finds.
LEMMA DepthAfter ==
  ASSUME IInv, verdict = "running", pass = "desug"
  PROVE  /\ Visit.op \in {"lit", "ident", "call"} \/ (Visit.op = "var" /\ Visit.init)
              => Depth(code, pc + 1) = Len(operands) + 1
         /\ Visit.op \in {"add", "mul", "assign", "arg", "return", "next"}
              => Depth(code, pc + 1) = Len(operands) - 1
         /\ Visit.op = "inited" => Depth(code, pc + 1) = Len(operands) - 2
         /\ (Visit.op \in {"deref", "ref", "called"} \union Opens \union Closes
             \/ (Visit.op = "var" /\ ~Visit.init))
              => Depth(code, pc + 1) = Len(operands)
<1>1. WellFormed(code) /\ pc \in DOMAIN code
  BY Here DEF IInv
<1>2. /\ pc \in Pushes(code) <=>
           Visit.op \in {"lit", "ident", "call"} \/ (Visit.op = "var" /\ Visit.init)
      /\ pc \in Pops(code)
           <=> Visit.op \in {"add", "mul", "assign", "arg", "return", "next", "inited"}
  BY <1>1 DEF Pushes, Pops, Where, Visit
<1>3. Len(operands) = Depth(code, pc)
  BY OperandsAt
<1>4. /\ pc \in Pushes(code) => Depth(code, pc + 1) = Len(operands) + 1
      /\ pc \in Pops(code) /\ Visit.op # "inited" => Depth(code, pc + 1) = Len(operands) - 1
      /\ Visit.op = "inited" => Depth(code, pc + 1) = Len(operands) - 2
      /\ pc \notin Pushes(code) \union Pops(code) => Depth(code, pc + 1) = Len(operands)
  BY <1>1, <1>3, DepthStep DEF Visit
<1> QED
  BY <1>2, <1>4 DEF Opens, Closes

\* A visit that ends well, with the operands the next one finds.
LEMMA LeavesInv ==
  ASSUME IInv, verdict = "running", pass = "desug",
         Visit.op \notin Opens \union Closes,
         NEW stack \in Seq(OperandRecords), Len(stack) = Depth(code, pc + 1),
         operands' = stack, Advance, UNCHANGED <<prog, pass, verdict, ctx, symbols>>,
         TypesOK'
  PROVE  IInv'
<1>1. code' = code
  BY DEF code
<1>2. OperandsOK'
  BY <1>1 DEF OperandsOK, OperandRecords, Advance
<1>3. SymbolsOK'
  BY <1>1 DEF IInv, SymbolsOK
<1>4. Follows(code, ctx, pc + 1) /\ Len(ctx) <= MAX_CONTEXT
  BY PlainContext
<1> QED
  BY <1>2, <1>3, <1>4, AdvanceInv DEF Closes

\* The same where no type changes.
LEMMA LeavesPlainInv ==
  ASSUME IInv, verdict = "running", pass = "desug",
         Visit.op \notin Opens \union Closes,
         NEW stack \in Seq(OperandRecords), Len(stack) = Depth(code, pc + 1),
         Leaves(stack)
  PROVE  IInv'
<1>1. TypesOK'
  BY DEF Leaves, IInv, TypesOK, TypeRecords, code
<1> QED
  BY <1>1, LeavesInv DEF Leaves

\* The same where the depth of the type on top changes.
LEMMA LeavesWithInv ==
  ASSUME IInv, verdict = "running", pass = "desug",
         Visit.op \notin Opens \union Closes,
         NEW stack \in Seq(OperandRecords), Len(stack) = Depth(code, pc + 1),
         NEW owner \in Owners(code), NEW n \in Nat, LeavesWith(stack, owner, n)
  PROVE  IInv'
<1>1. code' = code
  BY DEF LeavesWith, code
<1>2. types \in [Owners(code) -> TypeRecords]
  BY DEF IInv, TypesOK
<1>3. types' = [types EXCEPT ![owner].refc = n]
  BY DEF LeavesWith
<1>4. types' \in [Owners(code) -> TypeRecords]
  BY <1>2, <1>3 DEF TypeRecords
<1>5. \A i \in Owners(code) : types'[i].id = types[i].id
  BY <1>2, <1>3 DEF TypeRecords
<1>6. TypesOK'
  BY <1>1, <1>4, <1>5 DEF IInv, TypesOK, TypeRecords
<1> QED
  BY <1>6, LeavesInv DEF LeavesWith

\* A node on top of what was below it.
LEMMA NodeOnTop ==
  ASSUME NEW s \in Seq(OperandRecords), NEW n \in Owners(code),
         Visit.op \in Operands \union {"var", "call"}
  PROVE  /\ Append(s, Node(n)) \in Seq(OperandRecords)
         /\ Len(Append(s, Node(n))) = Len(s) + 1
<1>1. Node(n) \in OperandRecords
  BY DEF Node, OperandRecords
<1> QED
  BY <1>1, AppendProperties

\* Literals, names, variables and calls add a node.
LEMMA PushInv ==
  ASSUME IInv, DesugLit \/ DesugIdent \/ DesugVar \/ DesugCall
  PROVE  IInv'
<1>1. /\ verdict = "running" /\ pass = "desug"
      /\ Visit.op \in {"lit", "ident", "var", "call"}
  BY DEF DesugLit, DesugIdent, DesugVar, DesugCall, At
<1>2. Visit.op \notin Opens \union Closes /\ Visit.op \in Operands \union {"var", "call"}
  BY <1>1 DEF Opens, Closes, Operands
<1>3. operands \in Seq(OperandRecords) /\ Len(operands) \in Nat
  BY <1>1, OperandsAt
<1>4. ASSUME NEW n \in Owners(code), Leaves(Append(operands, Node(n))),
             Visit.op = "var" => Visit.init
      PROVE  IInv'
  <2>1. /\ Append(operands, Node(n)) \in Seq(OperandRecords)
        /\ Len(Append(operands, Node(n))) = Depth(code, pc + 1)
    BY <1>1, <1>2, <1>3, <1>4, NodeOnTop, DepthAfter
  <2> QED
    BY <1>1, <1>2, <1>4, <2>1, LeavesPlainInv
<1>5. CASE DesugLit
  <2>1. pc \in Owners(code) /\ Visit.op = "lit" /\ Leaves(Append(operands, Node(pc)))
    BY <1>5, Here DEF DesugLit, At
  <2> QED
    BY <1>4, <2>1
<1>6. CASE DesugIdent
  <2> DEFINE key == DesugKey(ctx, Visit.name)
  <2>1. CASE is_symbol(key)
    <3>1. symbols[key] \in Owners(code)
      BY <2>1 DEF IInv, SymbolsOK, is_symbol
    <3>2. Visit.op = "ident" /\ Leaves(Append(operands, Node(symbols[key])))
      BY <1>6, <2>1 DEF DesugIdent, At
    <3> QED
      BY <1>4, <3>1, <3>2
  <2>2. CASE ~is_symbol(key)
    BY <1>6, <2>2, RejectInv DEF DesugIdent
  <2> QED
    BY <2>1, <2>2
<1>7. CASE DesugVar
  <2>1. Visit.op = "var" /\ pc \in Owners(code)
    BY <1>7, Here DEF DesugVar, At
  <2>2. CASE types[pc].id = UNRESOLVED
    <3>1. code[pc].type.id = UNRESOLVED
      BY <2>1, <2>2 DEF IInv, TypesOK
    <3>2. Abort
      BY <1>7, <2>2 DEF DesugVar
    <3> QED
      BY <2>1, <3>1, <3>2, AbortInv
  <2>3. CASE types[pc].id # UNRESOLVED /\ Visit.init
    <3>1. Leaves(Append(operands, Node(pc)))
      BY <1>7, <2>3 DEF DesugVar
    <3> QED
      BY <1>4, <2>1, <2>3, <3>1
  <2>4. CASE types[pc].id # UNRESOLVED /\ ~Visit.init
    <3>1. Leaves(operands)
      BY <1>7, <2>4 DEF DesugVar
    <3>2. Len(operands) = Depth(code, pc + 1)
      BY <1>1, <2>1, <2>4, DepthAfter
    <3> QED
      BY <1>1, <1>2, <1>3, <3>1, <3>2, LeavesPlainInv
  <2> QED
    BY <2>2, <2>3, <2>4
<1>8. CASE DesugCall
  <2>1. CASE Reject
    BY <2>1, RejectInv
  <2>2. CASE ~Reject
    <3>1. /\ Visit.op = "call" /\ is_symbol(Visit.name)
          /\ Leaves(Append(operands, Node(symbols[Visit.name])))
      BY <1>8, <2>2 DEF DesugCall, At
    <3>2. symbols[Visit.name] \in Owners(code)
      BY <3>1 DEF IInv, SymbolsOK, is_symbol
    <3> QED
      BY <1>4, <3>1, <3>2
  <2> QED
    BY <2>1, <2>2
<1> QED
  BY <1>5, <1>6, <1>7, <1>8

\* The operators of two operands leave one.
LEMMA BinaryInv ==
  ASSUME IInv, DesugAdd \/ DesugMul \/ DesugAssign
  PROVE  IInv'
<1>1. /\ verdict = "running" /\ pass = "desug"
      /\ Visit.op \in {"add", "mul", "assign"}
  BY DEF DesugAdd, DesugMul, DesugAssign, At
<1>2. Visit.op \notin Opens \union Closes /\ Visit.op \in Operands
  BY <1>1 DEF Opens, Closes, Operands
<1>3. Len(operands) \in Nat /\ Len(operands) >= 2
  BY <1>1, OperandsAt DEF Needed
<1>4. /\ Under.of \in Owners(code) /\ Top.of \in Owners(code)
      /\ Below(2) \in Seq(OperandRecords) /\ Len(Below(2)) = Len(operands) - 2
  BY <1>1, <1>3, OperandsAt DEF OperandRecords
<1>5. ASSUME Leaves(Append(Below(2), Node(Under.of))) PROVE IInv'
  <2>1. /\ Append(Below(2), Node(Under.of)) \in Seq(OperandRecords)
        /\ Len(Append(Below(2), Node(Under.of))) = Len(operands) - 2 + 1
    BY <1>2, <1>4, NodeOnTop
  <2>2. Len(Append(Below(2), Node(Under.of))) = Depth(code, pc + 1)
    BY <1>1, <1>3, <2>1, DepthAfter
  <2> QED
    BY <1>1, <1>2, <1>5, <2>1, <2>2, LeavesPlainInv
<1>6. CASE DesugAdd
  BY <1>5, <1>6 DEF DesugAdd
<1>7. CASE DesugMul
  BY <1>5, <1>7, RejectInv DEF DesugMul
<1>8. CASE DesugAssign
  <2>1. CASE UNRESOLVED \in {TypeOf(Under).id, TypeOf(Top).id}
    <3>1. Abort
      BY <1>8, <2>1 DEF DesugAssign
    <3>2. PICK i \in Owners(code) : types[i].id = UNRESOLVED
      BY <1>4, <2>1 DEF TypeOf
    <3>3. code[i].type.id = UNRESOLVED
      BY <3>2 DEF IInv, TypesOK
    <3> QED
      BY <3>1, <3>3, AbortInv
  <2>2. CASE ~(UNRESOLVED \in {TypeOf(Under).id, TypeOf(Top).id})
    <3>1. Reject \/ Leaves(Append(Below(2), Node(Under.of)))
      BY <1>8, <2>2 DEF DesugAssign
    <3> QED
      BY <1>5, <3>1, RejectInv
  <2> QED
    BY <2>1, <2>2
<1> QED
  BY <1>6, <1>7, <1>8

\* * and & change the depth of the type they find, which stays a number.
LEMMA UnaryInv ==
  ASSUME IInv, DesugDeref \/ DesugRef \/ DesugCalled
  PROVE  IInv'
<1>1. /\ verdict = "running" /\ pass = "desug"
      /\ Visit.op \in {"deref", "ref", "called"}
  BY DEF DesugDeref, DesugRef, DesugCalled, At
<1>2. Visit.op \notin Opens \union Closes /\ Visit.op \in Operands
  BY <1>1 DEF Opens, Closes, Operands
<1>3. Len(operands) \in Nat /\ Len(operands) >= 1
  BY <1>1, OperandsAt DEF Needed
<1>4. /\ Top.of \in Owners(code)
      /\ Below(1) \in Seq(OperandRecords) /\ Len(Below(1)) = Len(operands) - 1
  BY <1>1, <1>3, OperandsAt DEF OperandRecords
<1> DEFINE stack == Append(Below(1), Node(Top.of))
<1>5. stack \in Seq(OperandRecords) /\ Len(stack) = Depth(code, pc + 1)
  <2>1. stack \in Seq(OperandRecords) /\ Len(stack) = Len(operands) - 1 + 1
    BY <1>2, <1>4, NodeOnTop
  <2>2. Depth(code, pc + 1) = Len(operands)
    BY <1>1, DepthAfter
  <2> QED
    BY <1>3, <2>1, <2>2
<1>6. TypeOf(Top).refc \in Nat
  BY <1>4 DEF TypeOf, IInv, TypesOK, TypeRecords
<1>7. CASE DesugCalled
  BY <1>1, <1>2, <1>5, <1>7, LeavesPlainInv DEF DesugCalled
<1>8. CASE DesugDeref
  <2>1. CASE TypeOf(Top).refc = 0
    BY <1>8, <2>1, RejectInv DEF DesugDeref
  <2>2. CASE TypeOf(Top).refc # 0
    <3>1. TypeOf(Top).refc - 1 \in Nat
      BY <1>6, <2>2
    <3>2. LeavesWith(stack, Top.of, TypeOf(Top).refc - 1)
      BY <1>8, <2>2 DEF DesugDeref
    <3> HIDE DEF stack
    <3> QED
      BY <1>1, <1>2, <1>4, <1>5, <3>1, <3>2, LeavesWithInv
  <2> QED
    BY <2>1, <2>2
<1>9. CASE DesugRef
  <2>1. Reject \/ LeavesWith(stack, Top.of, TypeOf(Top).refc + 1)
    BY <1>9 DEF DesugRef
  <2>2. TypeOf(Top).refc + 1 \in Nat
    BY <1>6
  <2> HIDE DEF stack
  <2> QED
    BY <1>1, <1>2, <1>4, <1>5, <2>1, <2>2, LeavesWithInv, RejectInv
<1> QED
  BY <1>7, <1>8, <1>9

\* Initialisers, arguments, returns and statements consume what they look at.
LEMMA ConsumeInv ==
  ASSUME IInv, DesugInit \/ DesugArg \/ DesugReturn \/ DesugNext
  PROVE  IInv'
<1>1. /\ verdict = "running" /\ pass = "desug"
      /\ Visit.op \in {"inited", "arg", "return", "next"}
  BY DEF DesugInit, DesugArg, DesugReturn, DesugNext, At
<1>2. Visit.op \notin Opens \union Closes
  BY <1>1 DEF Opens, Closes
<1>3. Len(operands) \in Nat /\ Len(operands) >= Needed(Visit.op)
  BY <1>1, OperandsAt
<1>4. CASE DesugInit
  <2>1. Visit.op = "inited" /\ Len(operands) >= 2 /\ (Reject \/ Leaves(Below(2)))
    BY <1>3, <1>4 DEF DesugInit, At, Needed
  <2>2. Below(2) \in Seq(OperandRecords) /\ Len(Below(2)) = Depth(code, pc + 1)
    BY <1>1, <2>1, OperandsAt, DepthAfter
  <2> QED
    BY <1>1, <1>2, <2>1, <2>2, LeavesPlainInv, RejectInv
<1>5. CASE DesugArg \/ DesugReturn
  <2>1. /\ Visit.op \in {"arg", "return"} /\ Len(operands) >= 1
        /\ Reject \/ Leaves(Below(1))
    BY <1>3, <1>5 DEF DesugArg, DesugReturn, At, Needed
  <2>2. Below(1) \in Seq(OperandRecords) /\ Len(Below(1)) = Depth(code, pc + 1)
    BY <1>1, <2>1, OperandsAt, DepthAfter
  <2> QED
    BY <1>1, <1>2, <2>1, <2>2, LeavesPlainInv, RejectInv
<1>6. CASE DesugNext
  <2>1. Visit.op = "next" /\ Leaves(<<>>)
    BY <1>6 DEF DesugNext, At
  <2>2. Depth(code, pc) = 1
    BY <2>1, Here DEF IInv, WellFormed, Visit
  <2>3. Depth(code, pc + 1) = 0
    <3>1. Len(operands) = 1
      BY <1>1, <2>2, OperandsAt
    <3>2. Depth(code, pc + 1) = Len(operands) - 1
      BY <1>1, <2>1, DepthAfter
    <3> QED
      BY <3>1, <3>2
  <2>4. <<>> \in Seq(OperandRecords) /\ Len(<<>>) = 0
    BY EmptySeq
  <2> QED
    BY <1>1, <1>2, <2>1, <2>3, <2>4, LeavesPlainInv
<1> QED
  BY <1>4, <1>5, <1>6

\* Entering and leaving a declaration.
LEMMA ScopeInv ==
  ASSUME IInv, DesugEnter \/ DesugLeave
  PROVE  IInv'
<1>1. verdict = "running" /\ pass = "desug" /\ Visit.op \in {"file", "enter", "leave"}
  BY DEF DesugEnter, DesugLeave, At
<1>2. CASE Reject
  BY <1>2, RejectInv
<1>3. CASE ~Reject
  <2>1. Advance /\ UNCHANGED <<prog, pass, verdict, symbols, types, operands>>
    BY <1>3 DEF DesugEnter, DesugLeave
  <2>2. code' = code
    BY <2>1 DEF code
  <2>3. Follows(code, ctx', pc + 1) /\ Len(ctx') <= MAX_CONTEXT
    <3>1. CASE DesugLeave
      BY <1>1, <3>1, PoppedContext DEF DesugLeave, At, Closes
    <3>2. CASE DesugEnter
      <4>1. Visit.op \in Opens /\ ~CtxFull
        BY <1>3, <3>2 DEF DesugEnter, At, Opens
      <4>2. ctx_push(FrameAt(code, pc))
        BY <1>3, <3>2 DEF DesugEnter, FrameAt, Visit
      <4> QED
        BY <1>1, <4>1, <4>2, PushedContext
    <3> QED
      BY <3>1, <3>2
  <2>4. Depth(code, pc + 1) = Len(operands)
    BY <1>1, DepthAfter DEF Opens, Closes
  <2>5. OperandsOK'
    BY <1>1, <2>1, <2>2, <2>4 DEF IInv, OperandsOK, OperandRecords, Advance
  <2>6. SymbolsOK' /\ TypesOK'
    BY <2>1, <2>2 DEF IInv, SymbolsOK, TypesOK, TypeRecords
  <2> QED
    BY <1>1, <2>1, <2>3, <2>5, <2>6, AdvanceInv
<1> QED
  BY <1>2, <1>3

\* The end of the compilation.
LEMMA DesugEndInv ==
  ASSUME IInv, DesugEnd
  PROVE  IInv'
<1>1. /\ verdict = "running" /\ Visit.op = "eof" /\ ctx_pop /\ verdict' = "accepted"
      /\ UNCHANGED <<prog, pass, pc, symbols, types, operands>>
  BY DEF DesugEnd, At
<1>2. code' = code
  BY <1>1 DEF code
<1>3. ctx' \in Seq(FramesOf(code)) /\ Len(ctx') <= MAX_CONTEXT
  BY <1>1, PoppedContext DEF Closes
<1>4. ContextsOK'
  BY <1>1, <1>2, <1>3 DEF ContextsOK
<1>5. SymbolsOK' /\ TypesOK' /\ OperandsOK' /\ AssertionsHold'
  BY <1>1, <1>2 DEF IInv, SymbolsOK, TypesOK, TypeRecords, OperandsOK, OperandRecords,
                    AssertionsHold
<1> QED
  BY <1>1, <1>2, <1>4, <1>5 DEF IInv

\* A context that is closed is open.
LEMMA ClosesOpen ==
  ASSUME IInv, DesugLeave \/ DesugEnd PROVE ctx # <<>>
BY Here, Height DEF DesugLeave, DesugEnd, At

\* The end of the file closes the last one.
LEMMA DesugEndEmpties ==
  ASSUME IInv, DesugEnd PROVE ctx' = <<>>
<1>1. verdict = "running" /\ Visit.op = "eof" /\ ctx_pop
  BY DEF DesugEnd, At
<1>2. Balance(code, 1, pc) = 1 /\ pc # 1
  BY <1>1, Here DEF IInv, WellFormed, Visit
<1>3. Len(ctx) = 1
  BY <1>1, <1>2, Height
<1>4. ctx' \in Seq(FramesOf(code)) /\ Len(ctx') = Len(ctx) - 1
  BY <1>1, PoppedContext DEF Closes
<1> QED
  BY <1>3, <1>4, EmptySeq

\* A step enters a scope where there is room for one, leaves one that is open, or
\* neither; the file is accepted when all are left.
LEMMA ContextSteps ==
  ASSUME IInv, Desug
  PROVE  /\ \/ UNCHANGED ctx
            \/ ~CtxFull /\ \E f : ctx' = Append(ctx, f)
            \/ ctx # <<>> /\ ctx' = Front(ctx)
         /\ verdict' = "accepted" => ctx' = <<>>
<1>1. CASE DesugLeave \/ DesugEnd
  <2>1. ctx' = Front(ctx) /\ ctx # <<>>
    BY <1>1, ClosesOpen DEF DesugLeave, DesugEnd, ctx_pop
  <2>2. DesugLeave => verdict' = "running"
    BY DEF DesugLeave, At
  <2> QED
    BY <1>1, <2>1, <2>2, DesugEndEmpties
<1>2. CASE DesugEnter
  <2>1. CASE CtxFull
    BY <1>2, <2>1 DEF DesugEnter, Reject
  <2>2. CASE ~CtxFull
    BY <1>2, <2>2 DEF DesugEnter, At, ctx_push
  <2> QED
    BY <2>1, <2>2
<1>3. CASE ~(DesugLeave \/ DesugEnd \/ DesugEnter)
  <2>1. UNCHANGED ctx /\ verdict' \in {"running", "rejected", "aborted"}
    BY <1>3 DEF Desug, DesugLit, DesugIdent, DesugAdd, DesugMul, DesugDeref, DesugRef,
                DesugAssign, DesugVar, DesugInit, DesugCall, DesugArg, DesugCalled,
                DesugReturn, DesugNext, Reject, Abort, Leaves, LeavesWith, At
  <2> QED
    BY <2>1
<1> QED
  BY <1>1, <1>2, <1>3

-----------------------------------------------------------------------------
(* The theorems. *)

\* A pass starts on a whole file, with no context and no operand.
Fresh ==
  /\ prog \in Programs
  /\ pass \in {"parse", "desug"} /\ verdict = "running" /\ pc = 1
  /\ ctx = <<>> /\ operands = <<>>
  /\ types = [i \in Owners(code) |-> code[i].type]

\* The invariant holds at the start of a pass.
LEMMA FreshInv ==
  Fresh /\ SymbolsOK => IInv
<1> SUFFICES ASSUME Fresh, SymbolsOK PROVE IInv
  OBVIOUS
<1>1. WellFormed(code) /\ prog \in Programs
  BY ProgramsAssumption DEF Fresh, code
<1>2. Len(code) \in Nat /\ DOMAIN code = 1..Len(code)
  BY <1>1, LenProperties DEF WellFormed
<1>3. 1 \in DOMAIN code
  BY <1>1 DEF WellFormed, Where
<1>4. code # <<>>
  BY <1>2, <1>3, EmptySeq
<1>5. ContextsOK
  <2>1. Follows(code, <<>>, 1)
    BY <1>1, <1>4, FollowsStart
  <2>2. <<>> \in Seq(FramesOf(code)) /\ Len(<<>>) <= MAX_CONTEXT
    BY EmptySeq, ContextAssumption
  <2> QED
    BY <2>1, <2>2 DEF Fresh, ContextsOK
<1>6. TypesOK
  <2>1. \A i \in Owners(code) : code[i].type \in TypeRecords
    BY <1>1 DEF WellFormed, TypeRecords
  <2> QED
    BY <2>1 DEF Fresh, TypesOK
<1>7. OperandsOK
  <2>1. Depth(code, 1) = 0
    BY <1>1, <1>3, DepthStep
  <2> QED
    BY <2>1, EmptySeq DEF Fresh, OperandsOK
<1>8. AssertionsHold
  BY DEF Fresh, AssertionsHold
<1> QED
  BY <1>1, <1>3, <1>5, <1>6, <1>7, <1>8 DEF Fresh, IInv

\* It holds at the start.
LEMMA InitInv ==
  Init => IInv
BY FreshInv DEF Init, Fresh, SymbolsOK

\* Every step keeps it.
LEMMA NextInv ==
  IInv /\ [Next]_vars => IInv'
<1> SUFFICES ASSUME IInv, [Next]_vars PROVE IInv'
  OBVIOUS
<1>1. CASE Parse
  BY <1>1, ParseDownInv, ParseFunEndInv, ParseEndInv DEF Parse
<1>2. CASE Desug
  BY <1>2, PushInv, BinaryInv, UnaryInv, ConsumeInv, ScopeInv, DesugEndInv DEF Desug
<1>3. CASE UNCHANGED vars
  <2>1. code' = code
    BY <1>3 DEF vars, code
  <2> QED
    BY <1>3, <2>1 DEF vars, IInv, ContextsOK, SymbolsOK, TypesOK, TypeRecords, OperandsOK,
                      OperandRecords, AssertionsHold
<1> QED
  BY <1>1, <1>2, <1>3 DEF Next

\* The invariant always holds.
LEMMA InvHolds ==
  Spec => []IInv
<1> QED
  BY InitInv, NextInv, PTL DEF Spec

\* What the invariant says of the state, part by part.
LEMMA InvTypes ==
  ASSUME IInv PROVE TypeOK
<1>1. pc \in 1..Len(code)
  BY Here DEF IInv
<1>2. \A i \in DOMAIN ctx : ctx[i].node \in DOMAIN code
  <2>1. ctx \in Seq(FramesOf(code))
    BY DEF IInv, ContextsOK
  <2>2. \A i \in DOMAIN ctx : ctx[i] \in FramesOf(code)
    BY <2>1, LenProperties, ElementOfSeq
  <2>3. \A fr \in FramesOf(code) : fr.node \in DOMAIN code
    BY DEF FramesOf, FrameAt, FileFrame, FunFrame, Where
  <2> QED
    BY <2>2, <2>3
<1>3. \A i \in Owners(code) : types[i].id \in SourceIds /\ types[i].refc \in Nat
  BY DEF IInv, TypesOK, TypeRecords
<1>4. \A i \in DOMAIN operands :
        /\ operands[i].kind \in Operands \union {"var", "call"}
        /\ operands[i].of \in Owners(code)
  <2>1. operands \in Seq(OperandRecords)
    BY DEF IInv, OperandsOK
  <2>2. \A i \in DOMAIN operands : operands[i] \in OperandRecords
    BY <2>1, LenProperties, ElementOfSeq
  <2> QED
    BY <2>2 DEF OperandRecords
<1> QED
  BY <1>1, <1>2, <1>3, <1>4 DEF IInv, SymbolsOK, TypeOK

\* Whatever the file: contexts, symbols and operands refer to nodes that exist
\* and own a type, and no * takes the depth of a type below zero
\* (ast_desug.c:85-121).
THEOREM TypeCorrect ==
  Spec => []TypeOK
BY InvTypes, InvHolds, PTL

\* In both passes the stack of contexts holds the declarations that are open,
\* outermost first (every ctx_push of ast_build.c and ast_desug.c has its
\* ctx_pop).
THEOREM ContextCorrect ==
  Spec => []ContextIsEnclosing
<1>1. ASSUME IInv PROVE ContextIsEnclosing
  <2> SUFFICES ASSUME verdict = "running"
               PROVE  /\ {ctx[k].node : k \in DOMAIN ctx} = OpenAt(code, pc)
                      /\ \A j, k \in DOMAIN ctx : j < k => ctx[j].node < ctx[k].node
    BY DEF ContextIsEnclosing
  <2>1. Follows(code, ctx, pc)
    BY <1>1 DEF IInv, ContextsOK
  <2>2. DOMAIN ctx = 1..Len(ctx)
    BY <2>1, LenProperties DEF Follows
  <2> QED
    BY <2>1, <2>2 DEF Follows
<1> QED
  BY <1>1, InvHolds, PTL

\* No push of either pass goes beyond ctx_stack (context.c:13).
THEOREM ContextBounded ==
  Spec => []ContextFits
<1>1. IInv => ContextFits
  BY DEF IInv, ContextsOK, ContextFits
<1> QED
  BY <1>1, InvHolds, PTL

\* An assertion of ast_desug.c fails only on a file that writes a name where a
\* type is due.
THEOREM AssertionsCorrect ==
  Spec => []AssertionsHold
<1>1. IInv => AssertionsHold
  BY DEF IInv
<1> QED
  BY <1>1, InvHolds, PTL

\* Adding a symbol keeps the ones there are.
LEMMA BoundStays ==
  ASSUME NEW key, NEW n, add_symbol(key, n)
  PROVE  \A k \in DOMAIN symbols : k \in DOMAIN symbols' /\ symbols'[k] = symbols[k]
BY DEF add_symbol

\* A key keeps the node it was first given, in the parser and ever after.
THEOREM SymbolsStable ==
  Spec => BindingsStable
<1> DEFINE Kept == \A k \in DOMAIN symbols : k \in DOMAIN symbols' /\ symbols'[k] = symbols[k]
<1>1. ASSUME [Next]_vars PROVE Kept
  <2>1. CASE UNCHANGED symbols
    BY <2>1
  <2>2. CASE ParseFunEnd
    <3>1. add_symbol(ParseKey(ctx', ctx_peek.name), ctx_peek.node)
      BY <2>2 DEF ParseFunEnd
    <3> QED
      BY <3>1, BoundStays
  <2>3. CASE ParseVarDecl
    <3>1. UNCHANGED symbols \/ add_symbol(ParseKey(ctx, Visit.name), pc)
      BY <2>3 DEF ParseVarDecl, Reject
    <3> QED
      BY <2>1, <3>1, BoundStays
  <2>4. CASE ParseFile \/ ParseFunDecl \/ ParseOther \/ ParseEnd
    <3>1. UNCHANGED symbols
      BY <2>4 DEF ParseFile, ParseFunDecl, ParseOther, ParseEnd, Reject
    <3> QED
      BY <2>1, <3>1
  <2>5. CASE Desug
    <3>1. UNCHANGED symbols
      BY <2>5 DEF Desug, DesugLit, DesugIdent, DesugAdd, DesugMul, DesugDeref, DesugRef,
                  DesugAssign, DesugVar, DesugInit, DesugCall, DesugArg, DesugCalled,
                  DesugReturn, DesugNext, DesugEnter, DesugLeave, DesugEnd,
                  Reject, Abort, Leaves, LeavesWith
    <3> QED
      BY <2>1, <3>1
  <2> QED
    BY <1>1, <2>1, <2>2, <2>3, <2>4, <2>5 DEF Next, Parse, vars
<1>2. [Next]_vars => [Kept]_vars
  BY <1>1
<1> QED
  BY <1>2, PTL DEF Spec, BindingsStable

-----------------------------------------------------------------------------
(* The declarations around a visit. *)

\* The frames of what is open at a visit are one sequence only.
LEMMA FramesAre ==
  ASSUME NEW c, WellFormed(c), NEW n \in DOMAIN c, NEW s, Follows(c, s, n)
  PROVE  /\ s = Frames(c, n)
         /\ Len(Enclosing(c, n)) = Len(s)
         /\ \A k \in 1..Len(s) : Enclosing(c, n)[k] = s[k].node
<1>1. n \in Nat \ {0} /\ s \in Seq(FramesOf(c)) /\ Len(s) \in Nat
  BY LenProperties DEF WellFormed, Follows
<1>2. Balance(c, 1, n) = Len(s)
  <2>1. CASE n = 1
    <3>1. OpenAt(c, n) = {} /\ Balance(c, 1, n) = 0
      BY <2>1, OpenStep, BalanceStep
    <3>2. 1..Len(s) = {}
      BY <3>1 DEF Follows
    <3> QED
      BY <1>1, <3>1, <3>2
  <2> QED
    BY <2>1, Rooted
<1>3. ASSUME NEW k \in 1..Len(s)
      PROVE  /\ Enclosing(c, n)[k] = s[k].node
             /\ s[k] = FrameAt(c, s[k].node)
  <2> DEFINE P(i) == i \in OpenAt(c, n) /\ Balance(c, i, n) = Len(s) - k + 1
  <2>1. P(s[k].node)
    BY DEF Follows
  <2>2. ASSUME NEW i, P(i) PROVE i = s[k].node
    <3>1. PICK j \in 1..Len(s) : s[j].node = i
      BY <2>2 DEF Follows
    <3>2. Balance(c, i, n) = Len(s) - j + 1
      BY <3>1 DEF Follows
    <3>3. j = k
      BY <1>1, <2>2, <3>2
    <3> QED
      BY <3>1, <3>3
  <2>3. Enclosing(c, n)[k] = CHOOSE i \in OpenAt(c, n) : Balance(c, i, n) = Len(s) - k + 1
    BY <1>2 DEF Enclosing
  <2>4. s[k] \in FramesOf(c)
    BY <1>1, ElementOfSeq
  <2>5. s[k] = FrameAt(c, s[k].node)
    BY <2>4 DEF FramesOf, FrameAt, FileFrame, FunFrame
  <2> QED
    BY <2>1, <2>2, <2>3, <2>5
<1>4. DOMAIN Enclosing(c, n) = 1..Len(s) /\ Len(Enclosing(c, n)) = Len(s)
  BY <1>1, <1>2 DEF Enclosing
<1>5. s = Frames(c, n)
  <2>1. s = [k \in 1..Len(s) |-> s[k]]
    BY <1>1, LenProperties
  <2> QED
    BY <1>3, <1>4, <2>1 DEF Frames
<1> QED
  BY <1>3, <1>4, <1>5

\* Below a frame stands what is open where its declaration begins.
Nested(c, s) == \A k \in 1..Len(s) : SubSeq(s, 1, k - 1) = Frames(c, s[k].node)

\* The stack of the visits so far leads to one for the next visit.
LEMMA NestedStep ==
  ASSUME NEW c, WellFormed(c), NEW n \in DOMAIN c, NEW s, Follows(c, s, n), Nested(c, s)
  PROVE  \E r : Follows(c, r, n + 1) /\ Nested(c, r)
<1>1. n \in Nat \ {0} /\ s \in Seq(FramesOf(c)) /\ Len(s) \in Nat
  BY LenProperties DEF WellFormed, Follows
<1>2. CASE c[n].op \notin Opens \union Closes
  BY <1>2, FollowsPlain
<1>3. CASE c[n].op \in Opens
  <2> DEFINE f == FrameAt(c, n)
             r == Append(s, f)
  <2>1. f \in FramesOf(c) /\ f.node = n
    BY <1>3 DEF FramesOf, FrameAt, FileFrame, FunFrame, Where
  <2>2. Follows(c, r, n + 1)
    BY <1>3, <2>1, FollowsOpen
  <2>3. /\ r \in Seq(FramesOf(c)) /\ Len(r) = Len(s) + 1 /\ r[Len(s) + 1] = f
        /\ \A i \in 1..Len(s) : r[i] = s[i]
    BY <1>1, <2>1, AppendProperties
  <2> HIDE DEF f, r
  <2>4. ASSUME NEW k \in 1..Len(r) PROVE SubSeq(r, 1, k - 1) = Frames(c, r[k].node)
    <3>1. k - 1 \in Nat /\ k - 1 <= Len(s) /\ k - 1 <= Len(r)
      BY <1>1, <2>3
    <3>2. SubSeq(r, 1, k - 1) = SubSeq(s, 1, k - 1)
      BY <1>1, <2>3, <3>1, SamePrefix
    <3>3. CASE k = Len(s) + 1
      <4>1. s = Frames(c, n)
        BY FramesAre
      <4>2. SubSeq(s, 1, Len(s)) = s
        BY <1>1, SubSeqFull
      <4>3. k - 1 = Len(s)
        BY <1>1, <3>3
      <4> QED
        BY <2>1, <2>3, <3>2, <3>3, <4>1, <4>2, <4>3
    <3>4. CASE k # Len(s) + 1
      <4>1. k \in 1..Len(s)
        BY <1>1, <2>3, <3>4
      <4> QED
        BY <2>3, <3>2, <4>1 DEF Nested
    <3> QED
      BY <3>3, <3>4
  <2> QED
    BY <2>2, <2>4 DEF Nested
<1>4. CASE c[n].op \in Closes
  <2> DEFINE r == Front(s)
  <2>1. n # 1
    BY <1>4 DEF WellFormed, Where, Closes
  <2>2. s # <<>>
    BY <2>1, Rooted
  <2>3. /\ Follows(c, r, n + 1)
        /\ r \in Seq(FramesOf(c)) /\ Len(r) = Len(s) - 1
    BY <1>4, <2>2, FollowsClose
  <2>4. Len(s) - 1 \in Nat
    BY <1>1, <2>2, EmptySeq
  <2>5. \A i \in 1..Len(r) : r[i] = s[i]
    BY <1>1, <2>3, <2>4, StackFacts DEF Front
  <2> HIDE DEF r
  <2>6. ASSUME NEW k \in 1..Len(r) PROVE SubSeq(r, 1, k - 1) = Frames(c, r[k].node)
    <3>1. k - 1 \in Nat /\ k - 1 <= Len(s) /\ k - 1 <= Len(r) /\ k \in 1..Len(s)
      BY <1>1, <2>3
    <3>2. \A i \in 1..k - 1 : r[i] = s[i]
      BY <1>1, <2>3, <2>5
    <3>3. SubSeq(r, 1, k - 1) = SubSeq(s, 1, k - 1)
      BY <1>1, <2>3, <3>1, <3>2, SamePrefix
    <3> QED
      BY <2>5, <3>1, <3>3 DEF Nested
  <2> QED
    BY <2>3, <2>6 DEF Nested
<1> QED
  BY <1>2, <1>3, <1>4

\* At every visit of a file the frames around it are those of a stack.
LEMMA Walk ==
  ASSUME NEW c, WellFormed(c)
  PROVE  \A n \in DOMAIN c : Follows(c, Frames(c, n), n) /\ Nested(c, Frames(c, n))
<1> DEFINE G(n) == \E s : Follows(c, s, n) /\ Nested(c, s)
           Bad == {n \in DOMAIN c : ~G(n)}
<1>1. DOMAIN c = 1..Len(c) /\ Len(c) \in Nat
  BY LenProperties DEF WellFormed
<1>2. ASSUME Bad # {} PROVE FALSE
  <2>1. PICK n \in Bad : \A y \in Bad : n <= y
    <3> Bad \in SUBSET Nat
      BY <1>1
    <3> HIDE DEF Bad
    <3> QED
      BY <1>2, MinFacts
  <2>2. n \in 1..Len(c)
    BY <1>1
  <2>3. CASE n = 1
    <3>1. c # <<>>
      BY <1>1, <2>2, EmptySeq
    <3>2. Follows(c, <<>>, 1)
      BY <3>1, FollowsStart
    <3>3. Nested(c, <<>>)
      BY EmptySeq DEF Nested
    <3> QED
      BY <2>3, <3>2, <3>3
  <2>4. CASE n # 1
    <3>1. n - 1 \in DOMAIN c /\ n - 1 \notin Bad /\ n - 1 + 1 = n
      BY <1>1, <2>1, <2>2, <2>4
    <3>2. PICK s : Follows(c, s, n - 1) /\ Nested(c, s)
      BY <3>1
    <3>3. \E r : Follows(c, r, n - 1 + 1) /\ Nested(c, r)
      BY <3>1, <3>2, NestedStep
    <3> QED
      BY <3>1, <3>3
  <2> QED
    BY <2>3, <2>4
<1> QED
  BY <1>2, FramesAre

\* Two visits in one innermost declaration have one stack.
LEMMA SameScope ==
  ASSUME NEW c, WellFormed(c), NEW n \in DOMAIN c, n # 1
  PROVE  LET d == Last(Enclosing(c, n))
         IN  /\ d \in OpenAt(c, n)
             /\ Frames(c, n) = Append(Frames(c, d), FrameAt(c, d))
<1> DEFINE s == Frames(c, n)
           h == Len(s)
<1>1. Follows(c, s, n) /\ Nested(c, s)
  BY Walk
<1>2. h \in Nat \ {0} /\ s # <<>>
  BY <1>1, Rooted
<1>3. s \in Seq(FramesOf(c)) /\ h \in 1..h
  BY <1>1, <1>2 DEF Follows
<1>4. Last(Enclosing(c, n)) = s[h].node
  BY <1>1, <1>3, FramesAre DEF Last
<1>5. s[h].node \in OpenAt(c, n)
  BY <1>1, <1>3 DEF Follows
<1>6. s[h] = FrameAt(c, s[h].node)
  <2>1. s[h] \in FramesOf(c)
    BY <1>3, ElementOfSeq
  <2> QED
    BY <2>1 DEF FramesOf, FrameAt, FileFrame, FunFrame
<1>7. SubSeq(s, 1, h - 1) = Frames(c, s[h].node)
  BY <1>1, <1>3 DEF Nested
<1>8. s = Append(SubSeq(s, 1, h - 1), s[h])
  <2> DEFINE r == SubSeq(s, 1, h - 1)
  <2>1. 1 \in Nat /\ 1 <= h
    BY <1>2
  <2>2. /\ r \in Seq(FramesOf(c)) /\ Len(r) = h - 1
        /\ \A i \in 1..h - 1 : r[i] = s[i]
    BY <1>2, <1>3, <2>1, StackFacts
  <2>3. s[h] \in FramesOf(c)
    BY <1>3, ElementOfSeq
  <2> HIDE DEF r, s
  <2>4. /\ Append(r, s[h]) \in Seq(FramesOf(c)) /\ Len(Append(r, s[h])) = h - 1 + 1
        /\ Append(r, s[h])[h - 1 + 1] = s[h]
        /\ \A i \in 1..h - 1 : Append(r, s[h])[i] = r[i]
    BY <2>2, <2>3, AppendProperties
  <2>5. \A i \in 1..h : i \in 1..h - 1 \/ i = h
    BY <1>2
  <2>6. \A i \in 1..h : Append(r, s[h])[i] = s[i]
    BY <1>2, <2>2, <2>4, <2>5
  <2>7. Len(Append(r, s[h])) = h
    BY <1>2, <2>4
  <2>8. Append(r, s[h]) = s
    BY <1>3, <2>4, <2>6, <2>7, SeqEqual
  <2> QED
    BY <2>8 DEF r
<1> QED
  BY <1>4, <1>5, <1>6, <1>7, <1>8

\* Inside a function the name of the context is not empty.
LEMMA NamedContext ==
  ASSUME NEW c, WellFormed(c), NEW n \in DOMAIN c, NEW s, Follows(c, s, n), Len(s) > 1
  PROVE  ctx_currname(s) # <<>>
<1> DEFINE names == [i \in DOMAIN s |-> s[i].name]
<1>1. s \in Seq(FramesOf(c)) /\ Len(s) \in Nat /\ DOMAIN s = 1..Len(s)
  BY LenProperties DEF Follows
<1>2. DOMAIN c = 1..Len(c) /\ Len(c) \in Nat
  BY LenProperties DEF WellFormed
<1>3. ASSUME NEW fr \in FramesOf(c)
      PROVE  /\ fr.name \in Seq(STRING) /\ fr.node \in DOMAIN c
             /\ fr.node # 1 => fr.name # <<>>
  <2>1. PICK i \in Where(c, Opens) : fr = FrameAt(c, i)
    BY DEF FramesOf
  <2>2. CASE c[i].op = "file"
    <3>1. i = 1
      BY <2>1, <2>2 DEF WellFormed, Where
    <3>2. fr.name = <<>> /\ fr.node = i
      BY <2>1, <2>2 DEF FrameAt, FileFrame
    <3> QED
      BY <2>1, <3>1, <3>2, EmptySeq DEF Where
  <2>3. CASE c[i].op # "file"
    <3>1. i \in Declarations(c)
      BY <2>1, <2>3 DEF Where, Opens, Declarations
    <3>2. c[i].name \in Seq(STRING) \ {<<>>}
      BY <3>1 DEF WellFormed
    <3>3. fr.name = c[i].name /\ fr.node = i
      BY <2>1, <2>3 DEF FrameAt, FunFrame
    <3> QED
      BY <2>1, <3>2, <3>3 DEF Where
  <2> QED
    BY <2>2, <2>3
<1>4. \A i \in 1..Len(s) : s[i] \in FramesOf(c)
  BY <1>1, ElementOfSeq
<1>5. names \in [1..Len(s) -> Seq(STRING)]
  BY <1>1, <1>3, <1>4
<1>6. names \in Seq(Seq(STRING)) /\ Len(names) = Len(s)
  <2> HIDE DEF names
  <2> QED
    BY <1>1, <1>5, SeqDef
<1>7. 2 \in 1..Len(s) /\ 1 \in 1..Len(s)
  BY <1>1
<1>8. names[2] # <<>>
  <2>1. s[1].node < s[2].node
    BY <1>7 DEF Follows
  <2>2. s[1].node \in 1..Len(c)
    BY <1>2, <1>3, <1>4, <1>7
  <2>3. s[2].node # 1
    BY <2>1, <2>2
  <2> QED
    BY <1>1, <1>3, <1>4, <1>7, <2>3
<1> HIDE DEF names
<1>9. FlattenSeq(names) # <<>>
  BY <1>6, <1>7, <1>8, FlattenNonEmpty
<1> QED
  BY <1>9 DEF ctx_currname, names

-----------------------------------------------------------------------------
(* The table of symbols. *)

\* Every key is that of the declaration it is bound to, and every variable the
\* parser has been at has its key bound, to a declaration no later than itself.
SymbolsKeyed ==
  /\ \A k \in DOMAIN symbols :
       /\ symbols[k] \in Declarations(code)
       /\ KeyAt(code, symbols[k]) = k
       /\ pass = "parse" => symbols[k] < pc
  /\ verdict = "running" =>
       \A j \in Where(code, {"var"}) :
         pass = "desug" \/ j < pc =>
           KeyAt(code, j) \in DOMAIN symbols /\ symbols[KeyAt(code, j)] <= j

\* The stack of contexts is the one of the place the pass has reached.
LEMMA ContextNow ==
  ASSUME IInv, verdict = "running"
  PROVE  /\ Follows(code, ctx, pc) /\ ctx = Frames(code, pc) /\ Nested(code, ctx)
         /\ pc # 1 => /\ ctx_peek.node = Last(Enclosing(code, pc))
                      /\ ctx_peek.node \in OpenAt(code, pc)
                      /\ ctx_peek = FrameAt(code, ctx_peek.node)
                      /\ Front(ctx) = Frames(code, ctx_peek.node)
<1>1. WellFormed(code) /\ pc \in DOMAIN code /\ Follows(code, ctx, pc)
  BY Here DEF IInv, ContextsOK
<1>2. ctx = Frames(code, pc) /\ Nested(code, ctx)
  BY <1>1, FramesAre, Walk
<1>3. ASSUME pc # 1
      PROVE  /\ ctx_peek.node = Last(Enclosing(code, pc))
             /\ ctx_peek.node \in OpenAt(code, pc)
             /\ ctx_peek = FrameAt(code, ctx_peek.node)
             /\ Front(ctx) = Frames(code, ctx_peek.node)
  <2>1. Len(ctx) \in Nat \ {0} /\ Len(ctx) \in 1..Len(ctx)
    BY <1>3, Height
  <2>2. Last(Enclosing(code, pc)) = ctx[Len(ctx)].node
    BY <1>1, <2>1, FramesAre DEF Last
  <2>3. ctx[Len(ctx)] \in FramesOf(code)
    BY <1>1, <2>1, ElementOfSeq DEF Follows
  <2>4. ctx[Len(ctx)] = FrameAt(code, ctx[Len(ctx)].node)
    BY <2>3 DEF FramesOf, FrameAt, FileFrame, FunFrame
  <2>5. ctx[Len(ctx)].node \in OpenAt(code, pc)
    BY <1>1, <2>1 DEF Follows
  <2>6. SubSeq(ctx, 1, Len(ctx) - 1) = Frames(code, ctx[Len(ctx)].node)
    BY <1>2, <2>1 DEF Nested
  <2> QED
    BY <2>2, <2>4, <2>5, <2>6 DEF ctx_peek, Last, Front
<1> QED
  BY <1>1, <1>2, <1>3

\* A declaration is registered under its key.
LEMMA RegisteredKeyed ==
  ASSUME IInv, SymbolsKeyed, verdict = "running", pass = "parse", Visit.op # "eof",
         NEW d \in Declarations(code), d <= pc,
         add_symbol(KeyAt(code, d), d), UNCHANGED <<prog, pass>>, Advance,
         Visit.op = "var" => d = pc
  PROVE  SymbolsKeyed'
<1>1. code' = code /\ pc' = pc + 1
  BY DEF code, Advance
<1>2. DOMAIN code = 1..Len(code) /\ Len(code) \in Nat /\ pc \in DOMAIN code
  BY Here DEF IInv
<1>3. Declarations(code) \subseteq DOMAIN code /\ Where(code, {"var"}) \subseteq DOMAIN code
  BY DEF Declarations, Where
<1> DEFINE key == KeyAt(code, d)
<1>4. /\ DOMAIN symbols' = DOMAIN symbols \union {key}
      /\ \A k \in DOMAIN symbols : symbols'[k] = symbols[k]
      /\ key \notin DOMAIN symbols => symbols'[key] = d
  BY DEF add_symbol
<1> HIDE DEF key
<1>5. ASSUME NEW k \in DOMAIN symbols'
      PROVE  /\ symbols'[k] \in Declarations(code)
             /\ KeyAt(code, symbols'[k]) = k
             /\ symbols'[k] < pc'
  <2>1. CASE k \in DOMAIN symbols
    <3>1. symbols[k] \in Declarations(code) /\ KeyAt(code, symbols[k]) = k /\ symbols[k] < pc
      BY <2>1 DEF SymbolsKeyed
    <3> QED
      BY <1>1, <1>2, <1>3, <1>4, <2>1, <3>1
  <2>2. CASE k \notin DOMAIN symbols
    <3>1. k = key /\ symbols'[k] = d
      BY <1>4, <2>2
    <3> QED
      BY <1>1, <1>2, <1>3, <3>1 DEF key
  <2> QED
    BY <2>1, <2>2
<1>6. ASSUME NEW j \in Where(code, {"var"}), j < pc'
      PROVE  KeyAt(code, j) \in DOMAIN symbols' /\ symbols'[KeyAt(code, j)] <= j
  <2>1. CASE j < pc
    <3>1. KeyAt(code, j) \in DOMAIN symbols /\ symbols[KeyAt(code, j)] <= j
      BY <2>1 DEF SymbolsKeyed
    <3> QED
      BY <1>4, <3>1
  <2>2. CASE j >= pc
    <3>1. j = pc
      BY <1>1, <1>2, <1>3, <1>6, <2>2
    <3>2. d = pc
      BY <3>1 DEF Where, Visit
    <3>3. KeyAt(code, j) = key
      BY <3>1, <3>2 DEF key
    <3>4. symbols'[key] < pc' /\ symbols'[key] \in Nat
      BY <1>2, <1>3, <1>4, <1>5
    <3> QED
      BY <1>1, <1>2, <1>4, <3>1, <3>3, <3>4
  <2> QED
    BY <1>2, <1>3, <2>1, <2>2
<1> QED
  BY <1>1, <1>5, <1>6 DEF SymbolsKeyed

\* A step that registers nothing.
LEMMA UntouchedKeyed ==
  ASSUME IInv, SymbolsKeyed, UNCHANGED <<prog, symbols>>,
         verdict' = "running" => verdict = "running",
         \/ UNCHANGED <<pass, pc>>
         \/ Advance /\ UNCHANGED pass /\ Visit.op # "var"
         \/ pass = "desug" /\ pass' = "desug"
         \/ pass' = "desug" /\ Visit.op = "eof"
  PROVE  SymbolsKeyed'
<1>1. code' = code
  BY DEF code
<1>2. DOMAIN code = 1..Len(code) /\ Len(code) \in Nat /\ pc \in DOMAIN code
  BY Here DEF IInv
<1>3. Declarations(code) \subseteq DOMAIN code /\ Where(code, {"var"}) \subseteq DOMAIN code
  BY DEF Declarations, Where
<1>4. \A k \in DOMAIN symbols :
        /\ symbols[k] \in Declarations(code) /\ KeyAt(code, symbols[k]) = k
        /\ pass = "parse" => symbols[k] < pc
  BY DEF SymbolsKeyed
<1>5. \A k \in DOMAIN symbols : pass' = "parse" => symbols[k] < pc'
  <2> SUFFICES ASSUME NEW k \in DOMAIN symbols, pass' = "parse" PROVE symbols[k] < pc'
    OBVIOUS
  <2>1. pass = "parse" /\ (pc' = pc \/ pc' = pc + 1)
    BY DEF Advance
  <2>2. symbols[k] < pc /\ symbols[k] \in Nat
    BY <1>2, <1>3, <1>4, <2>1
  <2> QED
    BY <1>2, <2>1, <2>2
<1>6. ASSUME verdict = "running", NEW j \in Where(code, {"var"}),
             pass' = "desug" \/ j < pc'
      PROVE  pass = "desug" \/ j < pc
  <2>1. j \in 1..Len(code) /\ code[j].op = "var"
    BY <1>2, <1>3 DEF Where
  <2>2. CASE UNCHANGED <<pass, pc>>
    BY <1>6, <2>2
  <2>3. CASE Advance /\ UNCHANGED pass /\ Visit.op # "var"
    <3>1. j # pc
      BY <2>1, <2>3 DEF Visit
    <3> QED
      BY <1>2, <1>6, <2>1, <2>3, <3>1 DEF Advance
  <2>4. CASE pass' = "desug" /\ Visit.op = "eof"
    <3>1. pc = Len(code) /\ j # pc
      BY <2>1, <2>4, Here DEF Visit
    <3>2. \A n \in Nat : \A i \in 1..n : i # n => i < n
      OBVIOUS
    <3> QED
      BY <1>2, <2>1, <3>1, <3>2
  <2> QED
    BY <2>2, <2>3, <2>4
<1>7. verdict = "running" =>
        \A j \in Where(code, {"var"}) :
          pass = "desug" \/ j < pc =>
            KeyAt(code, j) \in DOMAIN symbols /\ symbols[KeyAt(code, j)] <= j
  BY DEF SymbolsKeyed
<1>8. verdict' = "running" =>
        \A j \in Where(code, {"var"}) :
          pass' = "desug" \/ j < pc' =>
            KeyAt(code, j) \in DOMAIN symbols /\ symbols[KeyAt(code, j)] <= j
  BY <1>6, <1>7
<1> QED
  BY <1>1, <1>4, <1>5, <1>8 DEF SymbolsKeyed

\* parse_fun_decl registers the function once its context is closed.
LEMMA FunEndKeyed ==
  ASSUME IInv, SymbolsKeyed, ParseFunEnd
  PROVE  SymbolsKeyed'
<1>1. /\ verdict = "running" /\ pass = "parse" /\ Visit.op = "leave"
      /\ ctx' = Front(ctx) /\ Advance
      /\ add_symbol(ParseKey(ctx', ctx_peek.name), ctx_peek.node)
      /\ UNCHANGED <<prog, pass>>
  BY DEF ParseFunEnd, At, ctx_pop
<1> DEFINE d == ctx_peek.node
<1>2. pc # 1 /\ pc \in DOMAIN code /\ pc \in Nat
  BY <1>1, Here DEF IInv
<1>3. d \in OpenAt(code, pc) /\ ctx_peek = FrameAt(code, d) /\ Front(ctx) = Frames(code, d)
  BY <1>1, <1>2, ContextNow
<1>4. d \in Owners(code)
  BY <1>1, FunOnTop
<1>5. d \in 1..(pc - 1) /\ code[d].op = "enter"
  <2>1. d \in 1..(pc - 1) /\ code[d].op \in Opens
    BY <1>3 DEF OpenAt
  <2> QED
    BY <1>4, <2>1 DEF Owners, Opens
<1>6. d \in Declarations(code)
  BY <1>4, <1>5 DEF Declarations, Where, Owners
<1>7. ctx_peek.name = code[d].name
  BY <1>3, <1>5 DEF FrameAt, FunFrame
<1>8. add_symbol(KeyAt(code, d), d)
  BY <1>1, <1>3, <1>7 DEF KeyAt
<1>9. d <= pc
  BY <1>2, <1>5
<1> HIDE DEF d
<1> QED
  BY <1>1, <1>6, <1>8, <1>9, RegisteredKeyed

\* parse_var_decl registers the variable in the context it stands in.
LEMMA VarDeclKeyed ==
  ASSUME IInv, SymbolsKeyed, ParseVarDecl
  PROVE  SymbolsKeyed'
<1>1. CASE Reject
  BY <1>1, UntouchedKeyed DEF Reject
<1>2. CASE ~Reject
  <2>1. /\ verdict = "running" /\ pass = "parse" /\ Visit.op = "var"
        /\ add_symbol(ParseKey(ctx, Visit.name), pc) /\ Advance
        /\ UNCHANGED <<prog, pass>>
    BY <1>2 DEF ParseVarDecl, At
  <2>2. pc \in Declarations(code) /\ pc \in Nat
    BY <2>1, Here DEF Declarations, Where, Visit, IInv
  <2>3. add_symbol(KeyAt(code, pc), pc)
    BY <2>1, ContextNow DEF KeyAt, Visit
  <2> QED
    BY <2>1, <2>2, <2>3, RegisteredKeyed
<1> QED
  BY <1>1, <1>2

\* Every step keeps the keys right.
LEMMA KeyedNext ==
  ASSUME IInv, SymbolsKeyed, [Next]_vars
  PROVE  SymbolsKeyed'
<1>1. CASE ParseFile \/ ParseFunDecl \/ ParseOther
  <2>1. UNCHANGED <<prog, symbols, pass>> /\ (verdict' = "running" => verdict = "running")
    BY <1>1 DEF ParseFile, ParseFunDecl, ParseOther, Reject
  <2>2. UNCHANGED pc \/ (Advance /\ Visit.op # "var")
    BY <1>1 DEF ParseFile, ParseFunDecl, ParseOther, Reject, At
  <2> QED
    BY <2>1, <2>2, UntouchedKeyed
<1>2. CASE ParseEnd
  <2>1. UNCHANGED <<prog, symbols, verdict>> /\ pass' = "desug" /\ Visit.op = "eof"
    BY <1>2 DEF ParseEnd, At
  <2> QED
    BY <2>1, UntouchedKeyed
<1>3. CASE Desug
  <2>1. /\ UNCHANGED <<prog, symbols, pass>> /\ pass = "desug"
        /\ verdict = "running"
    BY <1>3 DEF Desug, DesugLit, DesugIdent, DesugAdd, DesugMul, DesugDeref, DesugRef,
                DesugAssign, DesugVar, DesugInit, DesugCall, DesugArg, DesugCalled,
                DesugReturn, DesugNext, DesugEnter, DesugLeave, DesugEnd,
                Reject, Abort, Leaves, LeavesWith, At
  <2> QED
    BY <2>1, UntouchedKeyed
<1>4. CASE UNCHANGED vars
  BY <1>4, UntouchedKeyed DEF vars
<1> QED
  BY <1>1, <1>2, <1>3, <1>4, FunEndKeyed, VarDeclKeyed DEF Next, Parse

LEMMA KeyedHolds ==
  Spec => []SymbolsKeyed
<1>1. Init => SymbolsKeyed
  <2> SUFFICES ASSUME Init PROVE SymbolsKeyed
    OBVIOUS
  <2>1. symbols = <<>> /\ pc = 1 /\ pass = "parse"
    BY DEF Init
  <2>2. \A j \in Where(code, {"var"}) : ~(j < pc)
    <3>1. WellFormed(code)
      BY ProgramsAssumption DEF Init, code
    <3>2. DOMAIN code = 1..Len(code) /\ Len(code) \in Nat
      BY <3>1, LenProperties DEF WellFormed
    <3> QED
      BY <2>1, <3>2 DEF Where
  <2> QED
    BY <2>1, <2>2 DEF SymbolsKeyed
<1>2. IInv /\ SymbolsKeyed /\ [Next]_vars => SymbolsKeyed'
  BY KeyedNext
<1> QED
  BY <1>1, <1>2, InvHolds, PTL DEF Spec

\* Where the invariants hold, the passes agree on the name at hand.
LEMMA KeyedAgree ==
  ASSUME IInv, SymbolsKeyed PROVE PassesAgree
<1> SUFFICES ASSUME At("desug", "ident"), Len(ctx) > 1
             PROVE  LET key == DesugKey(ctx, Visit.name)
                        same == {i \in Where(code, {"var"}) :
                                   /\ code[i].name = Visit.name
                                   /\ Last(Enclosing(code, i)) = ctx_peek.node}
                        alone == \A j \in Declarations(code) :
                                   KeyAt(code, j) = key => j \in same
                    IN  same # {} => /\ is_symbol(key)
                                     /\ alone => symbols[key] = Min(same)
  BY DEF PassesAgree
<1> DEFINE key == DesugKey(ctx, Visit.name)
           same == {i \in Where(code, {"var"}) :
                      /\ code[i].name = Visit.name
                      /\ Last(Enclosing(code, i)) = ctx_peek.node}
<1>1. /\ verdict = "running" /\ pass = "desug" /\ Visit.op = "ident"
      /\ pc # 1 /\ pc \in DOMAIN code /\ WellFormed(code)
      /\ DOMAIN code = 1..Len(code) /\ Len(code) \in Nat
  BY Here DEF At, IInv
<1>2. /\ Follows(code, ctx, pc) /\ ctx = Frames(code, pc)
      /\ ctx_peek.node = Last(Enclosing(code, pc))
  BY <1>1, ContextNow
<1>3. DesugKey(ctx, Visit.name) = ParseKey(ctx, Visit.name)
  <2>1. ctx_currname(ctx) # <<>>
    BY <1>1, <1>2, NamedContext
  <2> QED
    BY <2>1 DEF DesugKey, ParseKey
<1>4. ASSUME NEW i \in same PROVE i \in Where(code, {"var"}) /\ KeyAt(code, i) = key
  <2>1. i \in Where(code, {"var"}) /\ i \in DOMAIN code /\ i # 1
    BY <1>1 DEF WellFormed, Where
  <2>2. Last(Enclosing(code, i)) = Last(Enclosing(code, pc))
    BY <1>2
  <2>3. Frames(code, i) = Frames(code, pc)
    BY <1>1, <2>1, <2>2, SameScope
  <2> QED
    BY <1>2, <1>3, <2>1, <2>3 DEF KeyAt
<1> HIDE DEF key
<1>5. ASSUME NEW i \in same PROVE key \in DOMAIN symbols /\ symbols[key] <= i
  BY <1>1, <1>4 DEF SymbolsKeyed
<1>6. ASSUME same # {}, \A j \in Declarations(code) : KeyAt(code, j) = key => j \in same
      PROVE  symbols[key] = Min(same)
  <2>1. symbols[key] \in same
    BY <1>5, <1>6 DEF SymbolsKeyed
  <2>2. same \subseteq Nat
    BY <1>1 DEF Where
  <2> HIDE DEF same
  <2>3. ASSUME NEW x \in same, \A y \in same : x <= y PROVE x = symbols[key]
    <3>1. x <= symbols[key] /\ symbols[key] <= x
      BY <1>5, <2>1, <2>3
    <3>2. x \in Nat /\ symbols[key] \in Nat
      BY <2>1, <2>2
    <3> QED
      BY <3>1, <3>2
  <2> QED
    BY <1>5, <2>1, <2>3 DEF Min
<1> QED
  BY <1>5, <1>6 DEF key, is_symbol

\* A name used in a function that declares it is found by the second pass, and
\* is the first declaration of it there, unless its key is also that of a
\* declaration elsewhere (ast_build.c:405, ast_desug.c:24, context.c).
THEOREM NamesResolved ==
  Spec => []PassesAgree
BY KeyedAgree, InvHolds, KeyedHolds, PTL

=============================================================================
