---------------------------- MODULE DriverProofs ----------------------------
(***************************************************************************)
(* The command line of cmlc, for every sequence of arguments and whatever  *)
(* files there are: the loop of main has, after each turn, read the        *)
(* arguments up to one as the whole command line means them (main.c).      *)
(***************************************************************************)
EXTENDS Driver, DataLemmas

-----------------------------------------------------------------------------
(* What the loop has read. *)

\* No file is named by the null pointer, nor holds what is not read yet.
Sensible ==
  /\ argv \in Seq(STRING)
  /\ NoPath \notin Words /\ NoPath \notin DOMAIN disk
  /\ NoSource \notin {disk[p] : p \in DOMAIN disk}

UpTo(S, n) == {i \in S : i <= n}

ArgsRead(n) == n \in 0..Len(argv) /\ args = SubSeq(argv, n + 1, Len(argv))
OutRead(n) ==
  IF UpTo(Outs, n) = {} THEN opts.fout = NoPath
  ELSE opts.fout = OutPath /\ (Min(Outs) < n \/ n = Len(argv))
FlagsRead(n) == opts.flags = {argv[i] : i \in UpTo(Others, n)} \intersect Flags
FinRead(n) ==
  IF UpTo(Left, n) = {} THEN opts.fin = NoPath
  ELSE \E i \in UpTo(Left, n) : opts.fin = argv[i] /\ UpTo(Left, n) = {i}
ReadTo(n) == ArgsRead(n) /\ OutRead(n) /\ FlagsRead(n) /\ FinRead(n)

DriverInv ==
  /\ TypeOK /\ Sensible
  /\ phase = "args" => source = NoSource /\ \E n \in 0..Len(argv) : ReadTo(n)
  /\ OptionsAsWritten
  /\ phase = "desug" => "--ast" \notin Given
  /\ EmitsUnasked

-----------------------------------------------------------------------------
(* Words. *)

LEMMA SensibleFacts ==
  ASSUME Sensible
  PROVE  /\ Len(argv) \in Nat /\ DOMAIN argv = 1..Len(argv)
         /\ argv \in Seq(Words)
         /\ Outs \in SUBSET Nat /\ Outs \subseteq 1..Len(argv)
         /\ Others \subseteq 1..Len(argv) /\ Left \subseteq Others
<1>1. argv \in Seq(STRING)
  BY DEF Sensible
<1>2. Len(argv) \in Nat /\ DOMAIN argv = 1..Len(argv) /\ argv \in [1..Len(argv) -> STRING]
  BY <1>1, LenProperties
<1>3. argv \in [1..Len(argv) -> Words]
  BY <1>2 DEF Words
<1>4. argv \in Seq(Words)
  BY <1>2, <1>3
<1> QED
  BY <1>2, <1>4 DEF Outs, Others, Left

\* What is left to read is words.
LEMMA RestOfWords ==
  ASSUME Sensible, NEW n \in 0..Len(argv)
  PROVE  SubSeq(argv, n + 1, Len(argv)) \in Seq(Words)
<1>1. argv \in Seq(Words) /\ Len(argv) \in Nat
  BY SensibleFacts
<1>2. \A i \in (n + 1)..Len(argv) : argv[i] \in Words
  BY <1>1, ElementOfSeq
<1> QED
  BY <1>1, <1>2, SubSeqProperties

\* What is left to read, and what the loop goes on with.
LEMMA ArgsFacts ==
  ASSUME Sensible, NEW n \in 0..Len(argv), ArgsRead(n)
  PROVE  /\ args \in Seq(Words)
         /\ args = <<>> <=> n = Len(argv)
         /\ args # <<>> =>
              /\ n + 1 \in 1..Len(argv) /\ Arg = argv[n + 1] /\ Arg \in Words
              /\ Len(args) = Len(argv) - n
              /\ SubSeq(args, 2, Len(args)) = SubSeq(argv, n + 2, Len(argv))
              /\ IF Len(args) > 1
                 THEN /\ args[2] = argv[n + 2] /\ args[2] \in Words
                      /\ SubSeq(args, 3, Len(args)) = SubSeq(argv, n + 3, Len(argv))
                 ELSE SubSeq(args, 3, Len(args)) = SubSeq(argv, n + 2, Len(argv))
<1>1. Len(argv) \in Nat /\ argv \in Seq(Words)
  BY SensibleFacts
<1>2. \A i \in (n + 1)..Len(argv) : argv[i] \in Words
  BY <1>1, ElementOfSeq
<1>3. args = SubSeq(argv, n + 1, Len(argv))
  BY DEF ArgsRead
<1>4. /\ args \in Seq(Words)
      /\ Len(args) = IF n + 1 <= Len(argv) THEN Len(argv) - (n + 1) + 1 ELSE 0
      /\ \A i \in 1..(Len(argv) - (n + 1) + 1) : args[i] = argv[n + 1 + i - 1]
  BY <1>1, <1>2, <1>3, SubSeqProperties
<1>5. args = <<>> <=> n = Len(argv)
  BY <1>1, <1>4, EmptySeq
<1>6. ASSUME args # <<>>
      PROVE  /\ n + 1 \in 1..Len(argv) /\ Arg = argv[n + 1] /\ Arg \in Words
             /\ Len(args) = Len(argv) - n
             /\ SubSeq(args, 2, Len(args)) = SubSeq(argv, n + 2, Len(argv))
             /\ IF Len(args) > 1
                THEN /\ args[2] = argv[n + 2] /\ args[2] \in Words
                     /\ SubSeq(args, 3, Len(args)) = SubSeq(argv, n + 3, Len(argv))
                ELSE SubSeq(args, 3, Len(args)) = SubSeq(argv, n + 2, Len(argv))
  <2>1. n + 1 \in 1..Len(argv) /\ Len(args) = Len(argv) - n
    BY <1>1, <1>4, <1>5, <1>6
  <2>2. \A i \in 1..Len(args) : args[i] = argv[n + i] /\ args[i] \in Words
    BY <1>1, <1>2, <1>4, <2>1
  <2>3. Arg = argv[n + 1] /\ Arg \in Words
    BY <1>1, <1>3, <2>1, HeadTailOfSubSeq, ElementOfSeq DEF Arg
  <2>4. \A k \in 1..2 : k < Len(args) =>
          SubSeq(args, k + 1, Len(args)) = SubSeq(argv, n + k + 1, Len(argv))
    <3> SUFFICES ASSUME NEW k \in 1..2, k < Len(args)
                 PROVE  SubSeq(args, k + 1, Len(args)) = SubSeq(argv, n + k + 1, Len(argv))
      OBVIOUS
    <3>1. /\ n + 1 \in 1..Len(argv) /\ Len(argv) \in 1..Len(argv)
          /\ k + 1 \in 1..(Len(argv) - (n + 1) + 1)
          /\ Len(args) \in 1..(Len(argv) - (n + 1) + 1)
      BY <1>1, <2>1
    <3>2. /\ n + 1 + (k + 1) - 1 = n + k + 1
          /\ n + 1 + Len(args) - 1 = Len(argv)
      BY <1>1, <2>1
    <3>3. SubSeq(SubSeq(argv, n + 1, Len(argv)), k + 1, Len(args))
            = SubSeq(argv, n + 1 + (k + 1) - 1, n + 1 + Len(args) - 1)
      BY <1>1, <3>1, SubSeqOfSubSeq
    <3> QED
      BY <1>3, <3>2, <3>3
  <2> DEFINE l == Len(argv)
             k == Len(args)
  <2>0. l \in Nat /\ k = l - n /\ n \in Nat
    BY <1>1, <2>1
  <2>5. CASE Len(args) = 1
    <3>1. Len(argv) < n + 2
      <4>1. k = 1
        BY <2>5
      <4> HIDE DEF l, k
      <4>2. l < n + 2
        BY <2>0, <4>1
      <4> QED
        BY <4>2 DEF l
    <3>2. /\ SubSeq(args, 2, Len(args)) = <<>> /\ SubSeq(args, 3, Len(args)) = <<>>
          /\ SubSeq(argv, n + 2, Len(argv)) = <<>>
      BY <1>1, <2>5, <3>1, SubSeqEmpty
    <3>3. ~ (Len(args) > 1)
      BY <2>5
    <3>4. SubSeq(args, 2, Len(args)) = SubSeq(argv, n + 2, Len(argv))
      BY <3>2, Zenon
    <3>5. SubSeq(args, 3, Len(args)) = SubSeq(argv, n + 2, Len(argv))
      BY <3>2, Zenon
    <3> QED
      BY <2>1, <2>3, <3>3, <3>4, <3>5
  <2>6. CASE Len(args) = 2
    <3>1. Len(argv) < n + 3
      <4>1. k = 2
        BY <2>6
      <4> HIDE DEF l, k
      <4>2. l < n + 3
        BY <2>0, <4>1
      <4> QED
        BY <4>2 DEF l
    <3>2. /\ SubSeq(args, 3, Len(args)) = <<>>
          /\ SubSeq(argv, n + 3, Len(argv)) = <<>>
      BY <1>1, <2>6, <3>1, SubSeqEmpty
    <3> QED
      BY <2>1, <2>2, <2>3, <2>4, <2>6, <3>2
  <2>7. CASE Len(args) > 2
    BY <1>1, <2>1, <2>2, <2>3, <2>4, <2>7
  <2> QED
    BY <1>1, <2>1, <2>5, <2>6, <2>7
<1> QED
  BY <1>4, <1>5, <1>6

\* The argument that is next is the first -o, or it is none of those -o takes.
LEMMA NextWord ==
  ASSUME Sensible, NEW n \in 0..Len(argv), ArgsRead(n), OutRead(n), args # <<>>
  PROVE  IF IsOut THEN /\ Outs # {} /\ Min(Outs) = n + 1
                       /\ OutPath = IF Len(args) > 1 THEN args[2] ELSE NoPath
         ELSE /\ n + 1 \in Others
              /\ IF UpTo(Outs, n + 1) = {} THEN opts.fout = NoPath
                 ELSE opts.fout = OutPath /\ Min(Outs) < n + 1
<1> DEFINE l == Len(argv)
           m == Min(Outs)
<1>1. l \in Nat /\ n \in 0..l /\ DOMAIN argv = 1..l /\ Outs \subseteq 1..l
  BY SensibleFacts
<1>2. /\ n + 1 \in 1..l /\ Arg = argv[n + 1] /\ (Len(args) > 1 <=> n + 1 < l)
      /\ n + 1 < l => args[2] = argv[n + 2]
  <2>1. n + 1 \in 1..l /\ Arg = argv[n + 1] /\ Len(args) = l - n
    BY ArgsFacts
  <2>2. Len(args) > 1 => args[2] = argv[n + 2]
    BY ArgsFacts
  <2> HIDE DEF l
  <2> QED
    BY <1>1, <2>1, <2>2
<1>3. ASSUME Outs # {} PROVE m \in Outs /\ m \in 1..l /\ \A i \in Outs : m <= i
  <2> Outs \in SUBSET Nat
    BY SensibleFacts
  <2> QED
    BY <1>1, <1>3, MinFacts
<1>4. n + 1 \in Outs <=> Arg = "-o"
  BY <1>1, <1>2 DEF Outs
<1>5. /\ OutPath = IF Outs = {} \/ m = l THEN NoPath ELSE argv[m + 1]
      /\ Others = 1..l \ IF Outs = {} THEN {} ELSE {m, m + 1}
      /\ IF UpTo(Outs, n) = {} THEN opts.fout = NoPath
         ELSE opts.fout = OutPath /\ (m < n \/ n = l)
  BY <1>1 DEF OutPath, Others, OutRead
<1> HIDE DEF l, m
<1>6. CASE UpTo(Outs, n) = {}
  <2>1. opts.fout = NoPath
    BY <1>5, <1>6
  <2>2. \A i \in Outs : i >= n + 1
    BY <1>1, <1>6 DEF UpTo
  <2>3. CASE Arg = "-o"
    <3>1. Outs # {} /\ m = n + 1
      BY <1>1, <1>3, <1>4, <2>2, <2>3
    <3>2. OutPath = IF Len(args) > 1 THEN args[2] ELSE NoPath
      <4>1. m + 1 = n + 2 /\ (m = l <=> ~ (n + 1 < l))
        BY <1>1, <1>2, <3>1
      <4> QED
        BY <1>2, <1>5, <3>1, <4>1
    <3> QED
      BY <2>1, <2>3, <3>1, <3>2 DEF IsOut, m
  <2>4. CASE Arg # "-o"
    <3>1. \A i \in Outs : i > n + 1
      BY <1>1, <1>2, <1>4, <2>2, <2>4
    <3>2. n + 1 \in Others
      BY <1>1, <1>2, <1>3, <1>5, <3>1
    <3>3. UpTo(Outs, n + 1) = {}
      <4>1. \A i \in Outs : ~ (i <= n + 1)
        BY <1>1, <3>1
      <4> QED
        BY <4>1 DEF UpTo
    <3> QED
      BY <2>1, <2>4, <3>2, <3>3 DEF IsOut
  <2> QED
    BY <2>3, <2>4
<1>7. CASE UpTo(Outs, n) # {}
  <2>1. Outs # {} /\ opts.fout = OutPath /\ m < n
    BY <1>1, <1>2, <1>5, <1>7 DEF UpTo
  <2>2. m \in 1..l /\ m # l /\ n + 1 # m /\ n + 1 # m + 1 /\ m < n + 1 /\ m + 1 \in 1..l
    BY <1>1, <1>3, <2>1
  <2>3. opts.fout # NoPath
    <3>1. OutPath = argv[m + 1] /\ m + 1 \in DOMAIN argv
      BY <1>1, <1>5, <2>1, <2>2
    <3> QED
      BY <2>1, <3>1 DEF Sensible, Words
  <2>4. n + 1 \in Others
    BY <1>2, <1>5, <2>1, <2>2
  <2>5. UpTo(Outs, n + 1) # {}
    BY <1>1, <1>3, <2>1, <2>2 DEF UpTo
  <2> QED
    BY <2>1, <2>2, <2>3, <2>4, <2>5 DEF IsOut, m
<1> QED
  BY <1>6, <1>7

\* One more of the others, and none when -o has taken what is read.
LEMMA OneMore ==
  ASSUME Sensible, NEW n \in 0..Len(argv), NEW S \in SUBSET Others
  PROVE  /\ n + 1 \in S => UpTo(S, n + 1) = UpTo(S, n) \union {n + 1}
         /\ n + 1 \notin S => UpTo(S, n + 1) = UpTo(S, n)
         /\ Outs # {} /\ Min(Outs) = n + 1 =>
              UpTo(S, n + 1) = UpTo(S, n) /\ UpTo(S, n + 2) = UpTo(S, n)
<1>1. Len(argv) \in Nat /\ S \subseteq 1..Len(argv)
  BY SensibleFacts
<1>2. \A i \in S : i <= n + 1 <=> i <= n \/ i = n + 1
  BY <1>1
<1>3. Outs # {} /\ Min(Outs) = n + 1 => n + 1 \notin S /\ n + 2 \notin S
  BY DEF Others
<1>4. \A i \in S : i <= n + 2 <=> i <= n \/ i = n + 1 \/ i = n + 2
  BY <1>1
<1>5. UpTo(S, n + 1) = UpTo(S, n) \union (S \intersect {n + 1})
  BY <1>1, <1>2 DEF UpTo
<1>6. UpTo(S, n + 2) = UpTo(S, n) \union (S \intersect {n + 1, n + 2})
  BY <1>1, <1>4 DEF UpTo
<1> QED
  BY <1>3, <1>5, <1>6

\* The command line says what it says throughout.
LEMMA SameGiven ==
  ASSUME UNCHANGED given
  PROVE  /\ argv' = argv /\ disk' = disk /\ Words' = Words /\ (Sensible => Sensible')
         /\ Outs' = Outs /\ OutPath' = OutPath /\ Others' = Others /\ Given' = Given
         /\ Left' = Left /\ (Accepted => Accepted') /\ (Accepted' => Accepted)
<1>1. argv' = argv /\ disk' = disk
  BY DEF given
<1>2. Words' = Words /\ Outs' = Outs
  BY <1>1 DEF Words, Outs
<1>3. OutPath' = OutPath /\ Others' = Others
  BY <1>1, <1>2 DEF OutPath, Others
<1>4. Given' = Given
  BY <1>1, <1>3 DEF Given
<1>5. Left' = Left
  BY <1>1, <1>3 DEF Left, First
<1>6. (Accepted => Accepted') /\ (Accepted' => Accepted)
  BY <1>4, <1>5 DEF Accepted
<1> QED
  BY <1>1, <1>2, <1>3, <1>4, <1>5, <1>6 DEF Sensible

-----------------------------------------------------------------------------
(* The turns of the loop. *)

LEMMA OutTurn ==
  ASSUME Sensible, TypeOK, NEW n \in 0..Len(argv), ReadTo(n), ArgOut
  PROVE  /\ args' \in Seq(Words) /\ opts'.fout \in Words \union {NoPath}
         /\ \E k \in 0..Len(argv) : ReadTo(k)'
<1> USE DEF ReadTo
<1>1. args # <<>> /\ IsOut /\ UNCHANGED given
  BY DEF ArgOut, Reads
<1>2. /\ argv' = argv /\ Words' = Words /\ Outs' = Outs /\ OutPath' = OutPath
      /\ Others' = Others /\ Left' = Left
  BY <1>1, SameGiven
<1>3. /\ Outs # {} /\ Min(Outs) = n + 1
      /\ OutPath = IF Len(args) > 1 THEN args[2] ELSE NoPath
  BY <1>1, NextWord
<1>4. /\ opts'.fout = OutPath /\ opts'.flags = opts.flags /\ opts'.fin = opts.fin
      /\ args' = SubSeq(args, 3, Len(args))
  BY <1>3 DEF ArgOut, Set, Shift, TypeOK
<1>5. /\ n + 1 \in 1..Len(argv) /\ Len(args) = Len(argv) - n
      /\ Len(args) > 1 => args[2] \in Words /\ args' = SubSeq(argv, n + 3, Len(argv))
      /\ ~ (Len(args) > 1) => args' = SubSeq(argv, n + 2, Len(argv))
  BY <1>1, <1>4, ArgsFacts
<1>6. opts'.fout \in Words \union {NoPath}
  BY <1>3, <1>4, <1>5
<1>7. PICK k \in {n + 1, n + 2} :
        /\ k \in 0..Len(argv) /\ args' = SubSeq(argv, k + 1, Len(argv))
        /\ n + 1 < k \/ k = Len(argv)
  <2>1. CASE Len(args) > 1
    <3>1. n + 2 \in 0..Len(argv) /\ n + 2 + 1 = n + 3 /\ n + 1 < n + 2
      BY <1>5, <2>1
    <3> QED
      BY <1>5, <2>1, <3>1
  <2>2. CASE ~ (Len(args) > 1)
    <3>1. n + 1 = Len(argv) /\ n + 1 + 1 = n + 2 /\ n + 1 \in 0..Len(argv)
      BY <1>5, <2>2
    <3> QED
      BY <1>5, <2>2, <3>1
  <2> QED
    BY <2>1, <2>2
<1>8. ArgsRead(k)'
  BY <1>2, <1>7 DEF ArgsRead
<1>9. OutRead(k)'
  <2>1. Min(Outs) <= k /\ (Min(Outs) < k \/ k = Len(argv))
    BY <1>3, <1>7
  <2>2. Min(Outs) \in Outs
    <3> Outs \in SUBSET Nat
      BY SensibleFacts
    <3> QED
      BY <1>3, MinFacts
  <2>3. UpTo(Outs, k) # {}
    BY <2>1, <2>2 DEF UpTo
  <2> QED
    BY <1>2, <1>4, <2>1, <2>3 DEF OutRead
<1>10. UpTo(Others, k) = UpTo(Others, n) /\ UpTo(Left, k) = UpTo(Left, n)
  <2> Left \in SUBSET Others /\ Others \in SUBSET Others
    BY SensibleFacts
  <2> QED
    BY <1>3, <1>7, OneMore
<1>11. FlagsRead(k)' /\ FinRead(k)'
  BY <1>2, <1>4, <1>10 DEF FlagsRead, FinRead
<1>12. args' \in Seq(Words)
  BY <1>7, RestOfWords
<1> QED
  BY <1>6, <1>7, <1>8, <1>9, <1>11, <1>12

\* The other turns read one word, which is none of those -o takes.
LEMMA OtherTurn ==
  ASSUME Sensible, NEW n \in 0..Len(argv), ReadTo(n), Reads, ~IsOut,
         UNCHANGED given, Shift(1), opts'.fout = opts.fout
  PROVE  /\ n + 1 \in 0..Len(argv) /\ n + 1 \in Others /\ Arg = argv[n + 1]
         /\ args' \in Seq(Words)
         /\ ArgsRead(n + 1)' /\ OutRead(n + 1)'
<1> USE DEF ReadTo
<1>1. args # <<>>
  BY DEF Reads
<1>2. argv' = argv /\ Outs' = Outs /\ OutPath' = OutPath /\ Others' = Others
  BY SameGiven
<1>3. /\ n + 1 \in 0..Len(argv) /\ Arg = argv[n + 1]
      /\ args' = SubSeq(argv, n + 2, Len(argv))
  <2>1. args' = SubSeq(args, 2, Len(args))
    BY DEF Shift
  <2> QED
    BY <1>1, <2>1, ArgsFacts
<1>4. /\ n + 1 \in Others
      /\ IF UpTo(Outs, n + 1) = {} THEN opts.fout = NoPath
         ELSE opts.fout = OutPath /\ Min(Outs) < n + 1
  BY <1>1, NextWord
<1>5. n + 1 + 1 = n + 2
  OBVIOUS
<1>6. args' = SubSeq(argv, n + 1 + 1, Len(argv))
  BY <1>3, <1>5
<1>7. args' \in Seq(Words)
  BY <1>3, <1>6, RestOfWords
<1>8. ArgsRead(n + 1)' /\ OutRead(n + 1)'
  BY <1>2, <1>3, <1>4, <1>6 DEF ArgsRead, OutRead
<1> QED
  BY <1>3, <1>4, <1>7, <1>8

LEMMA FlagTurn ==
  ASSUME Sensible, TypeOK, NEW n \in 0..Len(argv), ReadTo(n), ArgFlag
  PROVE  /\ args' \in Seq(Words)
         /\ \E k \in 0..Len(argv) : ReadTo(k)'
<1> USE DEF ReadTo
<1>1. Reads /\ IsFlag /\ UNCHANGED given /\ Shift(1)
  BY DEF ArgFlag
<1>2. /\ opts'.fout = opts.fout /\ opts'.fin = opts.fin
      /\ opts'.flags = opts.flags \union {Arg}
  BY DEF ArgFlag, Set, TypeOK
<1>3. ~IsOut
  BY <1>1 DEF IsFlag, IsOut, Flags
<1>4. /\ n + 1 \in 0..Len(argv) /\ n + 1 \in Others /\ Arg = argv[n + 1]
      /\ args' \in Seq(Words) /\ ArgsRead(n + 1)' /\ OutRead(n + 1)'
  BY <1>1, <1>2, <1>3, OtherTurn
<1>5. argv' = argv /\ Others' = Others /\ Left' = Left
  BY <1>1, SameGiven
<1>6. First(n + 1)
  <2> SUFFICES ASSUME NEW j \in Others, argv[j] = argv[n + 1], ~ (n + 1 <= j)
               PROVE  FALSE
    BY DEF First
  <2>1. j \in Nat
    BY SensibleFacts
  <2>2. j \in UpTo(Others, n)
    BY <2>1 DEF UpTo
  <2>3. Arg \in Flags \ opts.flags
    BY <1>1 DEF IsFlag
  <2> QED
    BY <1>4, <2>2, <2>3 DEF FlagsRead
<1>7. n + 1 \notin Left
  BY <1>1, <1>4, <1>6 DEF Left, IsFlag
<1>8. /\ UpTo(Others, n + 1) = UpTo(Others, n) \union {n + 1}
      /\ UpTo(Left, n + 1) = UpTo(Left, n)
  <2> Left \in SUBSET Others /\ Others \in SUBSET Others
    BY SensibleFacts
  <2> QED
    BY <1>4, <1>7, OneMore
<1>9. FlagsRead(n + 1)'
  <2>1. Arg \in Flags
    BY <1>1 DEF IsFlag
  <2> QED
    BY <1>2, <1>4, <1>5, <1>8, <2>1 DEF FlagsRead
<1>10. FinRead(n + 1)'
  BY <1>2, <1>5, <1>8 DEF FinRead
<1> QED
  BY <1>4, <1>9, <1>10

\* What is neither an option nor the first of its flag is left over.
LEMMA LeftWord ==
  ASSUME Sensible, NEW n \in 0..Len(argv), ReadTo(n), n + 1 \in Others,
         Arg = argv[n + 1], ~IsFlag
  PROVE  n + 1 \in Left
<1> SUFFICES ASSUME Arg \in Flags, First(n + 1) PROVE FALSE
  BY DEF Left
<1>1. Arg \in opts.flags
  BY DEF IsFlag
<1>2. PICK j \in UpTo(Others, n) : argv[j] = Arg
  BY <1>1 DEF ReadTo, FlagsRead
<1>3. n + 1 <= j /\ j <= n /\ j \in Nat
  BY <1>2, SensibleFacts DEF First, UpTo
<1> QED
  BY <1>3

LEMMA FinTurn ==
  ASSUME Sensible, TypeOK, NEW n \in 0..Len(argv), ReadTo(n), ArgFin
  PROVE  /\ args' \in Seq(Words) /\ opts'.fin \in Words
         /\ \E k \in 0..Len(argv) : ReadTo(k)'
<1> USE DEF ReadTo
<1>1. Reads /\ ~IsOut /\ ~IsFlag /\ UNCHANGED given /\ Shift(1) /\ opts.fin = NoPath
  BY DEF ArgFin
<1>2. /\ opts'.fout = opts.fout /\ opts'.flags = opts.flags
      /\ opts'.fin = Arg
  BY DEF ArgFin, Set, TypeOK
<1>3. /\ n + 1 \in 0..Len(argv) /\ n + 1 \in Others /\ Arg = argv[n + 1]
      /\ args' \in Seq(Words) /\ ArgsRead(n + 1)' /\ OutRead(n + 1)'
  BY <1>1, <1>2, OtherTurn
<1>4. argv' = argv /\ Others' = Others /\ Left' = Left
  BY <1>1, SameGiven
<1>5. n + 1 \in Left
  BY <1>1, <1>3, LeftWord
<1>6. Arg \in Words
  BY <1>1, ArgsFacts DEF Reads
<1>7. UpTo(Left, n) = {}
  <2> SUFFICES ASSUME NEW i \in UpTo(Left, n), opts.fin = argv[i] PROVE FALSE
    BY DEF FinRead
  <2>1. i \in DOMAIN argv
    BY SensibleFacts DEF UpTo
  <2> QED
    BY <1>1, <2>1 DEF Sensible, Words
<1>8. /\ UpTo(Others, n + 1) = UpTo(Others, n) \union {n + 1}
      /\ UpTo(Left, n + 1) = {n + 1}
  <2> Left \in SUBSET Others /\ Others \in SUBSET Others
    BY SensibleFacts
  <2> QED
    BY <1>3, <1>5, <1>7, OneMore
<1>9. FlagsRead(n + 1)'
  <2>1. Arg \in Flags => Arg \in opts.flags
    BY <1>1 DEF IsFlag
  <2> QED
    BY <1>2, <1>3, <1>4, <1>8, <2>1 DEF FlagsRead
<1>10. FinRead(n + 1)'
  BY <1>2, <1>3, <1>4, <1>8 DEF FinRead
<1> QED
  BY <1>2, <1>3, <1>6, <1>9, <1>10

-----------------------------------------------------------------------------
(* The end of the loop. *)

LEMMA AllRead ==
  ASSUME Sensible, NEW n \in 0..Len(argv), ReadTo(n), args = <<>>
  PROVE  /\ opts.fout = OutPath /\ opts.flags = Given
         /\ \A i, j \in Left : i = j
         /\ IF Left = {} THEN opts.fin = NoPath ELSE \E i \in Left : opts.fin = argv[i]
<1> USE DEF ReadTo
<1>1. n = Len(argv)
  BY ArgsFacts
<1>2. UpTo(Outs, n) = Outs /\ UpTo(Others, n) = Others /\ UpTo(Left, n) = Left
  BY <1>1, SensibleFacts DEF UpTo
<1>3. opts.fout = OutPath
  BY <1>2 DEF OutRead, OutPath
<1>4. opts.flags = Given
  BY <1>2 DEF FlagsRead, Given
<1> QED
  BY <1>2, <1>3, <1>4 DEF FinRead

\* Two words are left over.
LEMMA TwoLeft ==
  ASSUME Sensible, NEW n \in 0..Len(argv), ReadTo(n), Reads, ~IsOut, ~IsFlag,
         opts.fin # NoPath
  PROVE  ~Accepted
<1> USE DEF ReadTo
<1>1. n + 1 \in Others /\ Arg = argv[n + 1]
  BY NextWord, ArgsFacts DEF Reads
<1>2. n + 1 \in Left
  BY <1>1, LeftWord
<1>3. PICK i \in UpTo(Left, n) : TRUE
  BY DEF FinRead
<1>4. i \in Left /\ i # n + 1
  BY <1>3, SensibleFacts DEF UpTo
<1> QED
  BY <1>2, <1>4 DEF Accepted

-----------------------------------------------------------------------------
(* Every step. *)

LEMMA InitInv ==
  ASSUME Init
  PROVE  DriverInv
<1>1. PICK run \in Runs : argv = run.argv /\ disk = run.disk
  BY DEF Init
<1>2. Sensible
  BY <1>1, RunsAssumption DEF Sensible, Words
<1>3. Len(argv) \in Nat /\ argv \in Seq(Words) /\ Outs \subseteq 1..Len(argv)
      /\ Others \subseteq 1..Len(argv) /\ Left \subseteq 1..Len(argv)
  BY <1>2, SensibleFacts
<1>4. ReadTo(0) /\ 0 \in 0..Len(argv)
  <2>1. args = SubSeq(argv, 0 + 1, Len(argv))
    BY <1>3, SubSeqFull DEF Init
  <2>2. UpTo(Outs, 0) = {} /\ UpTo(Others, 0) = {} /\ UpTo(Left, 0) = {}
    <3>1. \A i \in 1..Len(argv) : ~ (i <= 0)
      BY <1>3
    <3> QED
      BY <1>3, <3>1 DEF UpTo
  <2> QED
    BY <1>3, <2>1, <2>2 DEF ReadTo, ArgsRead, OutRead, FlagsRead, FinRead, Init
<1>5. TypeOK
  BY <1>3 DEF Init, TypeOK, Phases, Flags
<1>6. OptionsAsWritten /\ EmitsUnasked
  BY DEF Init, OptionsAsWritten, EmitsUnasked
<1> QED
  BY <1>2, <1>4, <1>5, <1>6 DEF DriverInv, Init

\* A run that ends before a source is read was refused.
LEMMA Refused ==
  ASSUME DriverInv, phase = "args", Exit(1),
         Accepted => \A i \in Left : argv[i] \notin DOMAIN disk
  PROVE  DriverInv'
<1>1. UNCHANGED <<given, args, opts, source>> /\ phase' = "exit" /\ status' = 1
  BY DEF Exit
<1>2. /\ argv' = argv /\ disk' = disk /\ Words' = Words /\ Sensible' /\ Left' = Left
      /\ Given' = Given /\ (Accepted' => Accepted)
  BY <1>1, SameGiven DEF DriverInv
<1>3. source' = NoSource
  BY <1>1 DEF DriverInv
<1>4. TypeOK'
  BY <1>1, <1>2, <1>3 DEF DriverInv, TypeOK, Phases
<1>5. OptionsAsWritten'
  BY <1>1, <1>2, <1>3 DEF OptionsAsWritten
<1> QED
  BY <1>1, <1>2, <1>4, <1>5 DEF DriverInv, EmitsUnasked

LEMMA TurnInv ==
  ASSUME DriverInv, ArgOut \/ ArgFlag \/ ArgFin
  PROVE  DriverInv'
<1>1. UNCHANGED <<given, source, phase, status>> /\ phase = "args"
  BY DEF ArgOut, ArgFlag, ArgFin, Reads
<1>2. /\ argv' = argv /\ disk' = disk /\ Words' = Words /\ Sensible'
  BY <1>1, SameGiven DEF DriverInv
<1>3. PICK n \in 0..Len(argv) : ReadTo(n)
  BY <1>1 DEF DriverInv
<1>4. /\ args' \in Seq(Words) /\ \E k \in 0..Len(argv) : ReadTo(k)'
      /\ opts' \in [fin : Words \union {NoPath}, fout : Words \union {NoPath},
                    flags : SUBSET Flags]
  <2>1. CASE ArgOut
    BY <1>3, <2>1, OutTurn DEF DriverInv, ArgOut, Set, TypeOK
  <2>2. CASE ArgFlag
    BY <1>3, <2>2, FlagTurn DEF DriverInv, ArgFlag, Set, TypeOK, IsFlag
  <2>3. CASE ArgFin
    BY <1>3, <2>3, FinTurn DEF DriverInv, ArgFin, Set, TypeOK
  <2> QED
    BY <2>1, <2>2, <2>3
<1>5. TypeOK'
  BY <1>1, <1>2, <1>4 DEF DriverInv, TypeOK
<1>6. source' = NoSource /\ phase' = "args"
  BY <1>1 DEF DriverInv
<1>7. OptionsAsWritten' /\ EmitsUnasked'
  BY <1>6 DEF OptionsAsWritten, EmitsUnasked
<1> QED
  BY <1>2, <1>4, <1>5, <1>6, <1>7 DEF DriverInv

LEMMA ParseInv ==
  ASSUME DriverInv, StartParse
  PROVE  DriverInv'
<1>1. /\ phase = "args" /\ args = <<>> /\ UNCHANGED <<given, args, opts, status>>
      /\ ~ ("--irep" \in opts.flags /\ "--ast" \in opts.flags)
      /\ opts.fin \in DOMAIN disk /\ source' = disk[opts.fin] /\ phase' = "parse"
  BY DEF StartParse, Opens, ArgsDone, Asked
<1>2. PICK n \in 0..Len(argv) : ReadTo(n)
  BY <1>1 DEF DriverInv
<1>3. /\ argv' = argv /\ disk' = disk /\ Words' = Words /\ Sensible' /\ Left' = Left
      /\ OutPath' = OutPath /\ Given' = Given /\ (Accepted => Accepted')
  BY <1>1, SameGiven DEF DriverInv
<1>4. /\ opts.fout = OutPath /\ opts.flags = Given
      /\ \A i, j \in Left : i = j
      /\ IF Left = {} THEN opts.fin = NoPath ELSE \E i \in Left : opts.fin = argv[i]
  BY <1>1, <1>2, AllRead DEF DriverInv
<1>5. opts.fin \in {argv[i] : i \in Left}
  BY <1>1, <1>4 DEF DriverInv, Sensible
<1>6. Accepted
  BY <1>1, <1>4 DEF Accepted
<1>7. source' # NoSource /\ source' \in {disk[p] : p \in DOMAIN disk}
  BY <1>1 DEF DriverInv, Sensible
<1>8. TypeOK'
  BY <1>1, <1>3, <1>7 DEF DriverInv, TypeOK, Phases
<1>9. OptionsAsWritten'
  BY <1>1, <1>3, <1>4, <1>5, <1>6 DEF OptionsAsWritten
<1> QED
  BY <1>1, <1>3, <1>8, <1>9 DEF DriverInv, EmitsUnasked

LEMMA CommandLineInv ==
  ASSUME DriverInv, CommandLine
  PROVE  DriverInv'
<1>1. CASE ArgOut \/ ArgFlag \/ ArgFin
  BY <1>1, TurnInv
<1>2. CASE ArgInvalid
  <2>1. phase = "args" /\ Reads /\ ~IsOut /\ ~IsFlag /\ opts.fin # NoPath /\ Exit(1)
    BY <1>2 DEF ArgInvalid, Reads
  <2>2. ~Accepted
    BY <2>1, TwoLeft DEF DriverInv
  <2> QED
    BY <2>1, <2>2, Refused
<1>3. CASE Conflict \/ NoInput
  <2>1. phase = "args" /\ args = <<>> /\ Exit(1)
    BY <1>3 DEF Conflict, NoInput, Opens, ArgsDone
  <2>2. PICK n \in 0..Len(argv) : ReadTo(n)
    BY <2>1 DEF DriverInv
  <2>3. /\ opts.flags = Given /\ \A i, j \in Left : i = j
        /\ IF Left = {} THEN opts.fin = NoPath ELSE \E i \in Left : opts.fin = argv[i]
    BY <2>1, <2>2, AllRead DEF DriverInv
  <2>4. CASE Conflict
    <3>1. ~Accepted
      BY <2>3, <2>4 DEF Conflict, Asked, Accepted
    <3> QED
      BY <2>1, <3>1, Refused
  <2>5. CASE NoInput
    <3>1. \A i \in Left : argv[i] \notin DOMAIN disk
      BY <2>3, <2>5 DEF NoInput
    <3> QED
      BY <2>1, <3>1, Refused
  <2> QED
    BY <1>3, <2>4, <2>5
<1>4. CASE StartParse
  BY <1>4, ParseInv
<1> QED
  BY <1>1, <1>2, <1>3, <1>4 DEF CommandLine

\* A pass leaves what was read alone, and is begun for what was asked.
LEMMA PassesInv ==
  ASSUME DriverInv, Passes
  PROVE  DriverInv'
<1>1. /\ phase \in {"parse", "desug", "emit"}
      /\ UNCHANGED <<given, args, opts, source>>
      /\ \/ phase' = "exit" /\ status' \in {-1, 0, 1}
         \/ phase = "parse" /\ phase' = "desug" /\ "--ast" \notin opts.flags /\ status' = status
         \/ phase = "desug" /\ phase' = "emit" /\ "--irep" \notin opts.flags /\ status' = status
  BY DEF Passes, ParseFails, StartDesug, StartEmit, SymbolsKilled, NoOutput, NoDirectory,
         EmitDone, DumpTree, DumpTyped, DesugFails, Emits, Exit, Goes, Asked
<1>2. /\ argv' = argv /\ disk' = disk /\ Words' = Words /\ Sensible' /\ Left' = Left
      /\ OutPath' = OutPath /\ Given' = Given /\ (Accepted => Accepted')
  BY <1>1, SameGiven DEF DriverInv
<1>3. source # NoSource /\ source' = source /\ phase' # "args"
  BY <1>1 DEF DriverInv, TypeOK
<1>4. opts.flags = Given
  BY <1>3 DEF DriverInv, OptionsAsWritten
<1>5. TypeOK'
  BY <1>1, <1>2 DEF DriverInv, TypeOK, Phases
<1>6. OptionsAsWritten'
  BY <1>1, <1>2, <1>3 DEF DriverInv, OptionsAsWritten
<1>7. phase' = "desug" => "--ast" \notin Given'
  BY <1>1, <1>2, <1>4
<1>8. EmitsUnasked'
  BY <1>1, <1>2, <1>4 DEF DriverInv, EmitsUnasked
<1> QED
  BY <1>2, <1>3, <1>5, <1>6, <1>7, <1>8 DEF DriverInv

LEMMA StutterInv ==
  ASSUME DriverInv, UNCHANGED vars
  PROVE  DriverInv'
<1>1. UNCHANGED <<given, args, opts, source, phase, status>>
  BY DEF vars
<1>2. /\ argv' = argv /\ disk' = disk /\ Words' = Words /\ Sensible' /\ Left' = Left
      /\ Outs' = Outs /\ Others' = Others /\ OutPath' = OutPath /\ Given' = Given
      /\ (Accepted => Accepted') /\ (Accepted' => Accepted)
  BY <1>1, SameGiven DEF DriverInv
<1>3. \A n \in 0..Len(argv) : ReadTo(n) => ReadTo(n)'
  BY <1>1, <1>2 DEF ReadTo, ArgsRead, OutRead, FlagsRead, FinRead
<1>4. TypeOK' /\ OptionsAsWritten' /\ EmitsUnasked'
  BY <1>1, <1>2 DEF DriverInv, TypeOK, OptionsAsWritten, EmitsUnasked
<1> QED
  BY <1>1, <1>2, <1>3, <1>4 DEF DriverInv

LEMMA DriverHolds == Spec => []DriverInv
<1>1. Init => DriverInv
  BY InitInv
<1>2. DriverInv /\ [Next]_vars => DriverInv'
  BY CommandLineInv, PassesInv, StutterInv DEF Next
<1> QED
  BY <1>1, <1>2, PTL DEF Spec

-----------------------------------------------------------------------------
(* The theorems. *)

\* Nothing is parsed that has not been read.
THEOREM TypesHold == Spec => []TypeOK
BY DriverHolds, PTL DEF DriverInv

\* Whatever the arguments and their order, the loop of main leaves the paths and
\* the flags that the whole command line says, and refuses only what it should.
THEOREM LineUnderstood == Spec => []OptionsAsWritten
BY DriverHolds, PTL DEF DriverInv

\* C is emitted only when no dump is asked for.
THEOREM DumpOrEmit == Spec => []EmitsUnasked
BY DriverHolds, PTL DEF DriverInv
=============================================================================
