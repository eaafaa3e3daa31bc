---------------------------- MODULE LexerProofs -----------------------------
(***************************************************************************)
(* What Lexer guarantees for every text and all tables: positions never    *)
(* move back, no two tokens overlap, the row of a token is the number of   *)
(* its line, and a word ends where its characters do.                      *)
(***************************************************************************)
EXTENDS Lexer, DataLemmas

-----------------------------------------------------------------------------
(* Helpers. *)

\* Of two numbers Min is the smaller one.
LEMMA MinOfTwo ==
  ASSUME NEW a \in Nat, NEW b \in Nat
  PROVE  Min({a, b}) = IF a <= b THEN a ELSE b
<1>1. {a, b} \in SUBSET Nat /\ {a, b} # {}
  OBVIOUS
<1>2. Min({a, b}) \in {a, b} /\ Min({a, b}) <= a /\ Min({a, b}) <= b
  BY <1>1, MinFacts
<1> QED
  BY <1>2

\* Two least elements are one.
LEMMA LeastIsOne ==
  ASSUME NEW S \in SUBSET Nat, NEW i, NEW j, IsLeast(i, S), IsLeast(j, S)
  PROVE  i = j
BY DEF IsLeast

\* A text of the instance is a sequence.
LEMMA TextFacts ==
  ASSUME text \in Texts
  PROVE  /\ text \in Seq(Range(text))
         /\ Len(text) \in Nat
         /\ DOMAIN text = 1..Len(text)
         /\ Cardinality({i \in DOMAIN text : text[i] = NewLine}) < MaxRow
<1>1. text \in Seq(Range(text))
  BY TextsAssumption
<1> QED
  BY <1>1, TextsAssumption, LenProperties

\* Tables are sequences of strings.
LEMMA TableFacts ==
  /\ Len(Keywords) \in Nat /\ DOMAIN Keywords = 1..Len(Keywords)
  /\ DOMAIN Delims \in SUBSET (Nat \ {0})
  /\ \A k \in DOMAIN Keywords : Keywords[k] \in Strings(Range(Keywords[k]) \ {NewLine})
  /\ \A d \in DOMAIN Delims :
       /\ Delims[d][1] \in Strings(Range(Delims[d][1]) \ {NewLine})
       /\ Delims[d][2] \in Strings(Range(Delims[d][2]))
<1>1. Len(Keywords) \in Nat /\ DOMAIN Keywords = 1..Len(Keywords)
  BY StringsAssumption, LenProperties
<1>2. Len(Delims) \in Nat /\ DOMAIN Delims = 1..Len(Delims)
  BY StringsAssumption, LenProperties
<1>3. \A k \in DOMAIN Keywords : Keywords[k] \in Range(Keywords)
  BY DEF Range
<1> QED
  BY <1>1, <1>2, <1>3, StringsAssumption

\* A string has characters.
LEMMA StringFacts ==
  ASSUME NEW C, NEW w \in Strings(C)
  PROVE  /\ Len(w) \in Nat \ {0}
         /\ \A i \in 1..Len(w) : w[i] \in C
<1>1. w \in Seq(C) /\ w # <<>>
  BY DEF Strings
<1> QED
  BY <1>1, LenProperties, EmptySeq, ElementOfSeq

\* What stands at a position is within the text and the same there.
LEMMA AtFacts ==
  ASSUME text \in Texts, NEW C, NEW w \in Strings(C), NEW n \in Nat, At(w, n)
  PROVE  /\ n + Len(w) <= Len(text)
         /\ \A i \in 1..Len(w) : text[n + i] \in C
<1>1. Len(w) \in Nat \ {0} /\ \A i \in 1..Len(w) : w[i] \in C
  BY StringFacts
<1>2. n + Len(w) <= Len(text) /\ SubSeq(text, n + 1, n + Len(w)) = w
  BY DEF At
<1>3. \A i \in n + 1 .. n + Len(w) : text[i] \in Range(text)
  BY <1>1, <1>2, TextFacts DEF Range
<1>4. \A i \in 1 .. Len(w) : SubSeq(text, n + 1, n + Len(w))[i] = text[n + i]
  <2>1. \A i \in 1 .. (n + Len(w)) - (n + 1) + 1 :
           SubSeq(text, n + 1, n + Len(w))[i] = text[n + 1 + i - 1]
    BY <1>1, <1>3, SubSeqProperties
  <2>2. (n + Len(w)) - (n + 1) + 1 = Len(w) /\ \A i \in 1..Len(w) : n + 1 + i - 1 = n + i
    BY <1>1
  <2> QED
    BY <2>1, <2>2
<1> QED
  BY <1>1, <1>2, <1>4

-----------------------------------------------------------------------------
(* Rows. *)

\* Lines add up, and there are fewer than MaxRow.
LEMMA LinesFacts ==
  ASSUME text \in Texts, NEW n \in Nat, NEW m \in Nat, n <= m
  PROVE  /\ Lines(0, n) \in Nat /\ Lines(n, m) \in Nat
         /\ Lines(0, n) + Lines(n, m) = Lines(0, m)
         /\ Lines(0, m) < MaxRow
<1> DEFINE L(a, b) == {i \in DOMAIN text : a < i /\ i <= b /\ text[i] = NewLine}
           All == {i \in DOMAIN text : text[i] = NewLine}
<1>1. DOMAIN text = 1..Len(text) /\ Len(text) \in Nat /\ Cardinality(All) < MaxRow
  BY TextFacts
<1>2. IsFiniteSet(All) /\ Cardinality(All) \in Nat
  <2>1. IsFiniteSet(1..Len(text)) /\ All \in SUBSET (1..Len(text))
    BY <1>1, FS_Interval
  <2> QED
    BY <2>1, FS_Subset, FS_CardinalityType
<1>3. L(0, n) \in SUBSET All /\ L(n, m) \in SUBSET All /\ L(0, m) \in SUBSET All
  OBVIOUS
<1>4. /\ IsFiniteSet(L(0, n)) /\ IsFiniteSet(L(n, m))
      /\ Cardinality(L(0, n)) \in Nat /\ Cardinality(L(n, m)) \in Nat
      /\ Cardinality(L(0, m)) <= Cardinality(All) /\ Cardinality(L(0, m)) \in Nat
  BY <1>2, <1>3, FS_Subset, FS_CardinalityType
<1>5. L(0, n) \union L(n, m) = L(0, m) /\ L(0, n) \cap L(n, m) = {}
  BY <1>1
<1>6. Cardinality(L(0, m)) = Cardinality(L(0, n)) + Cardinality(L(n, m)) - 0
  BY <1>4, <1>5, FS_Union, FS_EmptySet
<1>7. Lines(0, n) = Cardinality(L(0, n)) /\ Lines(n, m) = Cardinality(L(n, m))
      /\ Lines(0, m) = Cardinality(L(0, m))
  BY DEF Lines
<1> HIDE DEF L, All
<1> QED
  BY <1>1, <1>2, <1>4, <1>6, <1>7, TextsAssumption

\* A stretch without a line end.
LEMMA WithinLine ==
  ASSUME NEW n \in Nat, NEW m \in Nat, text \in Texts,
         \A i \in n + 1 .. m : text[i] # NewLine
  PROVE  Lines(n, m) = 0
<1>1. {i \in DOMAIN text : n < i /\ i <= m /\ text[i] = NewLine} = {}
  BY TextFacts
<1> QED
  BY <1>1, FS_EmptySet DEF Lines

\* The counter never leaves its range.
LEMMA RowAtType ==
  ASSUME text \in Texts, NEW r \in 1..MaxRow, NEW n, NEW m
  PROVE  RowAt(r, n, m) \in 1..MaxRow
<1> DEFINE L == {i \in DOMAIN text : n < i /\ i <= m /\ text[i] = NewLine}
<1>1. Cardinality(L) \in Nat
  <2>1. IsFiniteSet(1..Len(text)) /\ L \in SUBSET (1..Len(text))
    BY TextFacts, FS_Interval
  <2> QED
    BY <2>1, FS_Subset, FS_CardinalityType
<1>2. Lines(n, m) \in Nat
  BY <1>1 DEF Lines
<1> QED
  BY <1>2, MinOfTwo, TextsAssumption DEF RowAt

\* From an exact row the next one is exact.
LEMMA RowAtExact ==
  ASSUME text \in Texts, NEW n \in Nat, NEW m \in Nat, n <= m
  PROVE  RowAt(1 + Lines(0, n), n, m) = 1 + Lines(0, m)
<1>1. /\ Lines(0, n) \in Nat /\ Lines(n, m) \in Nat
      /\ Lines(0, n) + Lines(n, m) = Lines(0, m)
      /\ Lines(0, m) < MaxRow
  BY LinesFacts
<1> QED
  BY <1>1, MinOfTwo, TextsAssumption DEF RowAt

-----------------------------------------------------------------------------
(* The invariant. *)

\* At a comment that is never closed the lexer stays, and counts its lines
\* again and again; everywhere else the row is exact.
Stuck == /\ cur = Start /\ cur < Len(text)
         /\ \E d \in DOMAIN Delims : /\ IsLeast(d, Opening) /\ d \notin Literals
                                     /\ Closings(d) = {}
RowOK == status = "scanning" /\ ~Stuck => row = 1 + Lines(0, cur)

\* A token lies behind the one before it and in front of the lexer.
InOrder ==
  \A i \in DOMAIN tokens :
    /\ tokens[i].begin <= tokens[i].end /\ tokens[i].end <= cur
    /\ tokens[i].kind # "END" => tokens[i].begin < Len(text)
    /\ \A j \in 1..i - 1 : tokens[j].end <= tokens[i].begin

\* An identifier ends in front of a character that is none of a word.
WordEnds ==
  \A i \in DOMAIN tokens :
    tokens[i].kind = "IDENT" /\ tokens[i].end < Len(text)
      => text[tokens[i].end + 1] \notin WordChars

IInv ==
  /\ text \in Texts
  /\ cur \in 0..Len(text)
  /\ row \in 1..MaxRow
  /\ tokens \in Seq(Token)
  /\ status \in {"scanning", "end", "invalid", "crashed"}
  /\ RowOK /\ RowExact /\ InOrder /\ WordEnds /\ KeywordsLongest /\ Lossless

\* The next token begins at or behind the lexer, in the row counted so far.
LEMMA StartFacts ==
  ASSUME IInv
  PROVE  /\ Start \in cur..Len(text)
         /\ StartRow \in 1..MaxRow
         /\ status = "scanning" /\ ~Stuck => StartRow = 1 + Lines(0, Start)
<1> DEFINE S == {n \in cur..Len(text) : n = Len(text) \/ text[n + 1] \notin Skips}
<1>1. text \in Texts /\ cur \in Nat /\ cur <= Len(text) /\ Len(text) \in Nat
  BY TextFacts DEF IInv
<1>2. S \in SUBSET Nat /\ Len(text) \in S
  BY <1>1
<1>3. Start \in S
  BY <1>2, MinFacts DEF Start
<1>4. Start \in cur..Len(text) /\ Start \in Nat /\ cur <= Start
  BY <1>1, <1>3
<1>5. StartRow \in 1..MaxRow
  BY <1>1, RowAtType DEF IInv, StartRow
<1>6. status = "scanning" /\ ~Stuck => StartRow = 1 + Lines(0, Start)
  BY <1>1, <1>4, RowAtExact DEF IInv, RowOK, StartRow
<1> QED
  BY <1>4, <1>5, <1>6

\* An opening delimiter is within a line, and its text ends behind it.
LEMMA DelimFacts ==
  ASSUME IInv, NEW d \in DOMAIN Delims, d \in Opening
  PROVE  /\ Start + Len(Delims[d][1]) \in Start + 1 .. Len(text)
         /\ Lines(0, Start + Len(Delims[d][1])) = Lines(0, Start)
         /\ Closings(d) # {} =>
              /\ Closing(d) \in Start + Len(Delims[d][1]) .. Len(text)
              /\ Closing(d) > Start
<1> DEFINE open == Delims[d][1]
           close == Delims[d][2]
           inner == Start + Len(open)
<1>1. /\ open \in Strings(Range(open) \ {NewLine}) /\ Len(open) \in Nat \ {0}
      /\ Len(close) \in Nat \ {0}
  <2>1. open \in Strings(Range(open) \ {NewLine}) /\ close \in Strings(Range(close))
    BY TableFacts
  <2> HIDE DEF open, close
  <2> QED
    BY <2>1, StringFacts
<1>2. text \in Texts /\ Start \in Nat /\ Len(text) \in Nat
  <2>1. text \in Texts /\ cur \in Nat
    BY TextFacts DEF IInv
  <2> QED
    BY <2>1, StartFacts, TextFacts
<1>3. At(open, Start)
  BY DEF Opening
<1>4. inner <= Len(text) /\ \A i \in 1..Len(open) : text[Start + i] # NewLine
  BY <1>1, <1>2, <1>3, AtFacts
<1>5. \A i \in Start + 1 .. inner : text[i] # NewLine
  <2> SUFFICES ASSUME NEW i \in Start + 1 .. inner PROVE text[i] # NewLine
    OBVIOUS
  <2>1. i - Start \in 1..Len(open) /\ Start + (i - Start) = i
    BY <1>1, <1>2
  <2> QED
    BY <1>4, <2>1
<1>6. inner \in Nat /\ Start <= inner /\ inner > Start
  BY <1>1, <1>2
<1>7. Lines(0, inner) = Lines(0, Start)
  <2> HIDE DEF inner
  <2>1. Lines(Start, inner) = 0
    BY <1>2, <1>5, <1>6, WithinLine
  <2>2. Lines(0, Start) \in Nat /\ Lines(0, Start) + Lines(Start, inner) = Lines(0, inner)
    BY <1>2, <1>6, LinesFacts
  <2> QED
    BY <2>1, <2>2
<1>8. ASSUME Closings(d) # {}
      PROVE  Closing(d) \in inner..Len(text) /\ Closing(d) > Start
  <2>1. Closings(d) \in SUBSET Nat
    BY <1>6 DEF Closings
  <2>2. Min(Closings(d)) \in Closings(d)
    BY <1>8, <2>1, MinFacts
  <2>3. /\ Min(Closings(d)) \in inner..Len(text)
        /\ At(close, Min(Closings(d)))
    BY <2>2 DEF Closings
  <2>4. Min(Closings(d)) + Len(close) <= Len(text)
    BY <2>3 DEF At
  <2> QED
    BY <1>1, <1>2, <1>6, <2>3, <2>4 DEF Closing
<1> QED
  BY <1>2, <1>4, <1>6, <1>7, <1>8

\* A keyword is within a line.
LEMMA SymbolFacts ==
  ASSUME IInv, NEW k \in DOMAIN Keywords, k \in Symbol
  PROVE  /\ Start + Len(Keywords[k]) \in Start + 1 .. Len(text)
         /\ Lines(0, Start + Len(Keywords[k])) = Lines(0, Start)
<1> DEFINE w == Keywords[k]
           end == Start + Len(w)
<1>1. w \in Strings(Range(w) \ {NewLine}) /\ Len(w) \in Nat \ {0}
  BY TableFacts, StringFacts
<1>2. text \in Texts /\ Start \in Nat /\ Len(text) \in Nat
  <2>1. text \in Texts /\ cur \in Nat
    BY TextFacts DEF IInv
  <2> QED
    BY <2>1, StartFacts, TextFacts
<1>3. At(w, Start)
  BY DEF Symbol
<1>4. end <= Len(text) /\ \A i \in 1..Len(w) : text[Start + i] # NewLine
  BY <1>1, <1>2, <1>3, AtFacts
<1>5. \A i \in Start + 1 .. end : text[i] # NewLine
  <2> SUFFICES ASSUME NEW i \in Start + 1 .. end PROVE text[i] # NewLine
    OBVIOUS
  <2>1. i - Start \in 1..Len(w) /\ Start + (i - Start) = i
    BY <1>1, <1>2
  <2> QED
    BY <1>4, <2>1
<1>6. end \in Nat /\ Start <= end /\ end > Start
  BY <1>1, <1>2
<1>7. Lines(0, end) = Lines(0, Start)
  <2> HIDE DEF end
  <2>1. Lines(Start, end) = 0
    BY <1>2, <1>5, <1>6, WithinLine
  <2>2. Lines(0, Start) \in Nat /\ Lines(0, Start) + Lines(Start, end) = Lines(0, end)
    BY <1>2, <1>6, LinesFacts
  <2> QED
    BY <2>1, <2>2
<1> QED
  BY <1>2, <1>4, <1>6, <1>7

\* A word is within a line and ends where its characters do.
LEMMA WordFacts ==
  ASSUME IInv
  PROVE  /\ WordEnd \in Start..Len(text)
         /\ Lines(0, WordEnd) = Lines(0, Start)
         /\ WordEnd < Len(text) => text[WordEnd + 1] \notin WordChars
<1> DEFINE S == {n \in Start..Len(text) : n = Len(text) \/ text[n + 1] \notin WordChars}
<1>1. text \in Texts /\ Start \in Nat /\ Len(text) \in Nat /\ Start <= Len(text)
  <2>1. text \in Texts /\ cur \in Nat
    BY TextFacts DEF IInv
  <2> QED
    BY <2>1, StartFacts, TextFacts
<1>2. S \in SUBSET Nat /\ Len(text) \in S
  BY <1>1
<1>3. WordEnd \in S /\ \A n \in S : WordEnd <= n
  BY <1>2, MinFacts DEF WordEnd
<1>4. WordEnd \in Nat /\ Start <= WordEnd /\ WordEnd <= Len(text)
  BY <1>1, <1>3
<1>5. ASSUME NEW i \in Start + 1 .. WordEnd PROVE text[i] # NewLine
  <2>1. i - 1 \in Start..Len(text) /\ ~(WordEnd <= i - 1) /\ (i - 1) + 1 = i
    BY <1>1, <1>4
  <2>2. text[i] \in WordChars
    BY <1>3, <2>1
  <2> QED
    BY <2>2, NewLineAssumption
<1>6. Lines(Start, WordEnd) = 0
  BY <1>1, <1>4, <1>5, WithinLine
<1>7. WordEnd < Len(text) => text[WordEnd + 1] \notin WordChars
  BY <1>1, <1>3
<1> QED
  BY <1>1, <1>4, <1>6, <1>7, LinesFacts

\* No keyword that stands at the start of a token is longer.
Longest(end) ==
  \A k \in DOMAIN Keywords : At(Keywords[k], Start) => Start + Len(Keywords[k]) <= end

\* The first keyword is the longest: a longer one behind it would begin with it.
LEMMA FirstIsLongest ==
  ASSUME IInv, Collisions = {}, NEW k \in DOMAIN Keywords, IsLeast(k, Symbol)
  PROVE  Longest(Start + Len(Keywords[k]))
<1> DEFINE w == Keywords[k]
<1>1. text \in Texts /\ Start \in Nat /\ Len(text) \in Nat
  <2>1. text \in Texts /\ cur \in Nat
    BY TextFacts DEF IInv
  <2> QED
    BY <2>1, StartFacts, TextFacts
<1>2. \A j \in DOMAIN Keywords : Len(Keywords[j]) \in Nat
  BY TableFacts, StringFacts
<1>3. DOMAIN Keywords \in SUBSET Nat
  BY TableFacts
<1> SUFFICES ASSUME NEW j \in DOMAIN Keywords, At(Keywords[j], Start),
                    Len(Keywords[j]) > Len(w)
             PROVE  FALSE
  BY <1>1, <1>2 DEF Longest
<1> DEFINE v == Keywords[j]
<1>4. Len(w) \in Nat /\ Len(v) \in Nat /\ Len(w) < Len(v)
  BY <1>2
<1>5. j \in Symbol /\ k \in Symbol /\ k <= j /\ k # j
  BY <1>4 DEF Symbol, IsLeast
<1>6. /\ Start + Len(w) <= Len(text) /\ SubSeq(text, Start + 1, Start + Len(w)) = w
      /\ Start + Len(v) <= Len(text) /\ SubSeq(text, Start + 1, Start + Len(v)) = v
  BY <1>5 DEF Symbol, At
<1>7. \A i \in 1..Len(text) : text[i] \in Range(text)
  BY <1>1, TextFacts DEF Range
<1> HIDE DEF w, v
<1>8. IsPrefix(w, v)
  <2>1. ASSUME NEW u, Len(u) \in Nat, Start + Len(u) <= Len(text),
               SubSeq(text, Start + 1, Start + Len(u)) = u
        PROVE  \A i \in 1..Len(u) : u[i] = text[Start + i] /\ u[i] \in Range(text)
    <3>1. \A i \in Start + 1..Start + Len(u) : text[i] \in Range(text)
      BY <1>1, <1>7, <2>1
    <3>2. \A i \in 1..(Start + Len(u)) - (Start + 1) + 1 :
             SubSeq(text, Start + 1, Start + Len(u))[i] = text[Start + 1 + i - 1]
      BY <1>1, <2>1, <3>1, SubSeqProperties
    <3>3. (Start + Len(u)) - (Start + 1) + 1 = Len(u)
      BY <1>1, <2>1
    <3>4. \A i \in 1..Len(u) : Start + 1 + i - 1 = Start + i /\ Start + i \in 1..Len(text)
      BY <1>1, <2>1
    <3> QED
      BY <1>7, <2>1, <3>2, <3>3, <3>4
  <2>2. \A i \in 1..Len(w) : w[i] = v[i] /\ w[i] \in Range(text)
    <3>1. \A i \in 1..Len(w) : w[i] = text[Start + i] /\ w[i] \in Range(text)
      BY <1>4, <1>6, <2>1
    <3>2. \A i \in 1..Len(v) : v[i] = text[Start + i]
      BY <1>4, <1>6, <2>1
    <3> QED
      BY <1>4, <3>1, <3>2
  <2>3. /\ SubSeq(w, 1, Len(w)) \in Seq(Range(text)) /\ Len(SubSeq(w, 1, Len(w))) = Len(w)
        /\ \A i \in 1..Len(w) : SubSeq(w, 1, Len(w))[i] = w[i]
    BY <1>4, <2>2, SubSeqProperties
  <2>4. /\ SubSeq(v, 1, Len(w)) \in Seq(Range(text)) /\ Len(SubSeq(v, 1, Len(w))) = Len(w)
        /\ \A i \in 1..Len(w) : SubSeq(v, 1, Len(w))[i] = v[i]
    BY <1>4, <2>2, SubSeqProperties
  <2>5. SubSeq(w, 1, Len(w)) = SubSeq(v, 1, Len(w))
    BY <2>2, <2>3, <2>4, SeqEqual
  <2> QED
    BY <1>4, <2>5 DEF IsPrefix
<1>9. <<j, k>> \in Collisions
  BY <1>3, <1>5, <1>8 DEF Collisions, w, v
<1> QED
  BY <1>9

-----------------------------------------------------------------------------
(* What stands between tokens. *)

\* Blanks that meet are one blank.
LEMMA BlankJoins ==
  ASSUME NEW n \in Nat, NEW k \in Nat, NEW m \in Nat, Blank(n, k), Blank(k, m)
  PROVE  Blank(n, m)
<1>1. PICK S \in SUBSET (n..k) :
         /\ {n, k} \subseteq S
         /\ \A i \in S \ {k} : \E j \in S : i < j /\ Passed(i, j)
  BY DEF Blank
<1>2. PICK T \in SUBSET (k..m) :
         /\ {k, m} \subseteq T
         /\ \A i \in T \ {m} : \E j \in T : i < j /\ Passed(i, j)
  BY DEF Blank
<1>3. S \union T \in SUBSET (n..m) /\ {n, m} \subseteq S \union T
  BY <1>1, <1>2
<1>4. ASSUME NEW i \in (S \union T) \ {m}
      PROVE  \E j \in S \union T : i < j /\ Passed(i, j)
  <2>1. CASE i \in S \ {k}
    BY <1>1, <2>1
  <2>2. CASE i \in T
    BY <1>2, <1>4, <2>2
  <2>3. k \in T
    BY <1>2
  <2> QED
    BY <1>4, <2>1, <2>2, <2>3
<1> QED
  BY <1>3, <1>4 DEF Blank

\* Nothing is a blank.
LEMMA BlankNothing ==
  ASSUME NEW n \in Nat
  PROVE  Blank(n, n)
<1>1. {n} \in SUBSET (n..n) /\ \A i \in {n} \ {n} : \E j \in {n} : i < j /\ Passed(i, j)
  OBVIOUS
<1> QED
  BY <1>1 DEF Blank

\* bth_lex_skip passes a blank.
LEMMA BlankSkipped ==
  ASSUME IInv
  PROVE  Blank(cur, Start)
<1> DEFINE S == {n \in cur..Len(text) : n = Len(text) \/ text[n + 1] \notin Skips}
<1>1. cur \in Nat /\ Len(text) \in Nat /\ cur <= Len(text)
      /\ Start \in Nat /\ cur <= Start /\ Start <= Len(text)
  <2>1. Len(text) \in Nat /\ cur \in 0..Len(text)
    BY TextFacts DEF IInv
  <2> QED
    BY <2>1, StartFacts
<1>2. \A n \in S : Start <= n
  <2>1. S \in SUBSET Nat /\ Len(text) \in S
    BY <1>1
  <2> HIDE DEF S
  <2> QED
    BY <2>1, MinFacts DEF Start, S
<1>3. ASSUME NEW i \in (cur..Start) \ {Start}
      PROVE  \E j \in cur..Start : i < j /\ Passed(i, j)
  <2>1. i \in Nat /\ i \in cur..Len(text) /\ i < Start /\ i # Len(text)
        /\ i + 1 \in cur..Start
    BY <1>1
  <2>2. i \notin S
    BY <1>1, <1>2, <2>1
  <2>3. text[i + 1] \in Skips
    BY <2>1, <2>2
  <2> QED
    BY <2>1, <2>3 DEF Passed
<1>4. {cur, Start} \subseteq cur..Start
  BY <1>1
<1> QED
  BY <1>3, <1>4 DEF Blank

LEMMA BlankHere ==
  ASSUME IInv
  PROVE  Blank(Start, Start)
<1>1. Start \in Nat
  <2>1. Len(text) \in Nat /\ cur \in 0..Len(text)
    BY TextFacts DEF IInv
  <2> QED
    BY <2>1, StartFacts
<1> QED
  BY <1>1, BlankNothing

\* A comment is a blank.
LEMMA BlankComment ==
  ASSUME IInv, NEW d \in DOMAIN Delims, d \in Opening, d \notin Literals, Closings(d) # {}
  PROVE  Blank(Start, Closing(d))
<1>1. Start \in Nat /\ Closing(d) \in Nat /\ Start < Closing(d)
  <2>1. Start \in Nat /\ Len(text) \in Nat
    BY StartFacts, TextFacts DEF IInv
  <2> QED
    BY <2>1, DelimFacts
<1>2. Passed(Start, Closing(d))
  BY DEF Passed, OpensComment, CommentEnds, Closing, Closings, Opening
<1>3. {Start, Closing(d)} \in SUBSET (Start..Closing(d))
  BY <1>1
<1> QED
  BY <1>1, <1>2, <1>3 DEF Blank

\* The end of the last token is a position.
LEMMA EndOfType ==
  ASSUME IInv
  PROVE  \A i \in 0..Len(tokens) : EndOf(i) \in Nat
<1>1. Len(tokens) \in Nat /\ DOMAIN tokens = 1..Len(tokens)
      /\ \A i \in 1..Len(tokens) : tokens[i] \in Token
  BY LenProperties, ElementOfSeq DEF IInv
<1> QED
  BY <1>1 DEF EndOf, Token

\* A blank stays one while the text does.
LEMMA BlankStays ==
  ASSUME UNCHANGED text, NEW n, NEW m, Blank(n, m)
  PROVE  Blank(n, m)'
<1>1. \A i, j : Passed(i, j)' <=> Passed(i, j)
  BY DEF Passed, OpensComment, CommentEnds, At
<1> QED
  BY <1>1 DEF Blank

-----------------------------------------------------------------------------
(* Steps. *)

\* A step that returns no token.
LEMMA QuietKeeps ==
  ASSUME IInv, UNCHANGED <<text, tokens>>,
         cur' \in Start..Len(text), Blank(Start, cur'), row' \in 1..MaxRow,
         status' \in {"scanning", "end", "invalid", "crashed"},
         status' = "scanning" => row' = 1 + Lines(0, cur') \/ Stuck'
  PROVE  IInv'
<1>1. /\ text \in Texts /\ Len(text) \in Nat /\ Start \in cur..Len(text)
      /\ cur \in 0..Len(text)
  BY TextFacts, StartFacts DEF IInv
<1>2. cur' \in 0..Len(text) /\ cur <= cur'
  BY <1>1
<1>3. RowOK'
  <2>1. Lines(0, cur)' = Lines(0, cur')
    BY DEF Lines
  <2> QED
    BY <2>1 DEF RowOK
<1>4. RowExact'
  BY DEF IInv, RowExact, Lines
<1>5. InOrder'
  <2>1. \A i \in DOMAIN tokens : tokens[i] \in Token
    BY LenProperties, ElementOfSeq DEF IInv
  <2>2. \A i \in DOMAIN tokens : tokens[i].end <= cur => tokens[i].end <= cur'
    BY <1>1, <1>2, <2>1 DEF Token
  <2> QED
    BY <2>2 DEF IInv, InOrder
<1>6. WordEnds' /\ KeywordsLongest'
  BY DEF IInv, WordEnds, KeywordsLongest, Collisions, At
<1>7. EndOf(Len(tokens)) \in Nat /\ Blank(EndOf(Len(tokens)), cur')
  <2>1. EndOf(Len(tokens)) \in Nat
    BY EndOfType
  <2>2. Blank(EndOf(Len(tokens)), cur) /\ Blank(cur, Start)
    BY BlankSkipped DEF IInv, Lossless
  <2> QED
    BY <1>1, <2>1, <2>2, BlankJoins
<1>8. Lossless'
  <2>1. Blank(EndOf(Len(tokens)), cur)'
    BY <1>7, BlankStays DEF EndOf
  <2>2. \A i \in DOMAIN tokens : Blank(EndOf(i - 1), tokens[i].begin)'
    BY BlankStays DEF IInv, Lossless, EndOf
  <2> QED
    BY <2>1, <2>2 DEF IInv, Lossless
<1> QED
  BY <1>2, <1>3, <1>4, <1>5, <1>6, <1>8 DEF IInv

\* A step that returns a token, which the lexer then stands behind.
LEMMA EmitKeeps ==
  ASSUME IInv, UNCHANGED text, status = "scanning", ~Stuck,
         NEW kind \in {"DELIMITED", "SYMBOL", "IDENT", "END"}, NEW idx \in Nat,
         NEW end \in Start..Len(text), Emit(kind, idx, end),
         kind # "END" => Start < end,
         kind = "IDENT" /\ end < Len(text) => text[end + 1] \notin WordChars,
         kind = "SYMBOL" /\ Collisions = {} => Longest(end),
         cur' = end, row' = 1 + Lines(0, end),
         status' \in {"scanning", "end"}
  PROVE  IInv'
<1> DEFINE new == [kind |-> kind, idx |-> idx, begin |-> Start, end |-> end, row |-> StartRow]
<1>1. /\ text \in Texts /\ Len(text) \in Nat /\ cur \in Nat
      /\ Start \in Nat /\ cur <= Start /\ end \in Nat /\ Start <= end /\ end <= Len(text)
      /\ StartRow \in Nat /\ StartRow = 1 + Lines(0, Start)
  <2>1. text \in Texts /\ Len(text) \in Nat /\ cur \in 0..Len(text)
    BY TextFacts DEF IInv
  <2>2. Start \in cur..Len(text) /\ StartRow = 1 + Lines(0, Start) /\ StartRow \in 1..MaxRow
    BY StartFacts
  <2> QED
    BY <2>1, <2>2, TextsAssumption
<1>2. new \in Token /\ tokens \in Seq(Token)
  BY <1>1 DEF Token, IInv
<1>3. /\ tokens' = Append(tokens, new) /\ tokens' \in Seq(Token)
      /\ Len(tokens) \in Nat /\ DOMAIN tokens = 1..Len(tokens)
      /\ DOMAIN tokens' = 1..Len(tokens) + 1
      /\ \A i \in 1..Len(tokens) : tokens'[i] = tokens[i]
      /\ tokens'[Len(tokens) + 1] = new
  <2>1. tokens' = Append(tokens, new)
    BY DEF Emit
  <2> HIDE DEF new
  <2> QED
    BY <1>2, <2>1, AppendProperties, LenProperties
<1>4. \A i \in 1..Len(tokens) : tokens[i] \in Token
  BY <1>2, <1>3, ElementOfSeq
<1>5. row' \in 1..MaxRow
  <2>1. Lines(0, end) \in Nat /\ Lines(0, end) < MaxRow
    BY <1>1, LinesFacts
  <2> QED
    BY <2>1, TextsAssumption
<1>6. RowOK'
  <2>1. Lines(0, cur)' = Lines(0, cur')
    BY DEF Lines
  <2> QED
    BY <2>1 DEF RowOK
<1>7. RowExact'
  <2> SUFFICES ASSUME NEW i \in DOMAIN tokens'
               PROVE  tokens'[i].row = (1 + Lines(0, tokens[i].begin))'
    BY DEF RowExact
  <2>1. (1 + Lines(0, tokens[i].begin))' = 1 + Lines(0, tokens'[i].begin)
    BY DEF Lines
  <2>2. CASE i \in 1..Len(tokens)
    BY <1>3, <2>1, <2>2 DEF IInv, RowExact
  <2>3. CASE i = Len(tokens) + 1
    BY <1>1, <1>3, <2>1, <2>3
  <2> QED
    BY <1>3, <2>2, <2>3
<1>8. InOrder'
  <2> SUFFICES ASSUME NEW i \in DOMAIN tokens'
               PROVE  /\ tokens'[i].begin <= tokens'[i].end /\ tokens'[i].end <= cur'
                      /\ tokens'[i].kind # "END" => tokens'[i].begin < Len(text)
                      /\ \A j \in 1..i - 1 : tokens'[j].end <= tokens'[i].begin
    BY DEF InOrder
  <2>1. CASE i \in 1..Len(tokens)
    <3>1. /\ tokens[i].begin <= tokens[i].end /\ tokens[i].end <= cur
          /\ tokens[i].kind # "END" => tokens[i].begin < Len(text)
          /\ \A j \in 1..i - 1 : tokens[j].end <= tokens[i].begin
      BY <1>3, <2>1 DEF IInv, InOrder
    <3>2. tokens[i].end \in Nat
      BY <1>4, <2>1 DEF Token
    <3>3. \A j \in 1..i - 1 : j \in 1..Len(tokens)
      BY <1>3, <2>1
    <3> QED
      BY <1>1, <1>3, <2>1, <3>1, <3>2, <3>3
  <2>2. CASE i = Len(tokens) + 1
    <3>1. tokens'[i] = new
      BY <1>3, <2>2
    <3>2. \A j \in 1..Len(tokens) : tokens[j].end <= cur /\ tokens[j].end \in Nat
      BY <1>3, <1>4 DEF IInv, InOrder, Token
    <3>3. \A j \in 1..i - 1 : tokens'[j].end <= Start
      BY <1>1, <1>3, <2>2, <3>2
    <3> QED
      BY <1>1, <3>1, <3>3
  <2> QED
    BY <1>3, <2>1, <2>2
<1>9. WordEnds'
  <2> SUFFICES ASSUME NEW i \in DOMAIN tokens', tokens'[i].kind = "IDENT",
                      tokens'[i].end < Len(text)
               PROVE  text[tokens'[i].end + 1] \notin WordChars
    BY DEF WordEnds
  <2>1. CASE i \in 1..Len(tokens)
    BY <1>3, <2>1 DEF IInv, WordEnds
  <2>2. CASE i = Len(tokens) + 1
    BY <1>3, <2>2
  <2> QED
    BY <1>3, <2>1, <2>2
<1>10. KeywordsLongest'
  <2> SUFFICES ASSUME Collisions = {}, NEW i \in DOMAIN tokens', tokens'[i].kind = "SYMBOL",
                      NEW k \in DOMAIN Keywords, At(Keywords[k], tokens'[i].begin)
               PROVE  tokens'[i].begin + Len(Keywords[k]) <= tokens'[i].end
    BY DEF KeywordsLongest, Collisions, At
  <2>1. CASE i \in 1..Len(tokens)
    BY <1>3, <2>1 DEF IInv, KeywordsLongest
  <2>2. CASE i = Len(tokens) + 1
    BY <1>3, <2>2 DEF Longest
  <2> QED
    BY <1>3, <2>1, <2>2
<1>11. Lossless'
  <2>1. ASSUME NEW i \in DOMAIN tokens'
        PROVE  /\ Blank(EndOf(i - 1), tokens[i].begin)'
               /\ tokens'[i].kind # "END" => tokens'[i].begin < tokens'[i].end
    <3>1. CASE i \in 1..Len(tokens)
      <4>1. i - 1 = 0 \/ i - 1 \in 1..Len(tokens)
        BY <1>3, <3>1
      <4>2. EndOf(i - 1)' = EndOf(i - 1) /\ tokens'[i] = tokens[i]
        BY <1>3, <3>1, <4>1 DEF EndOf
      <4>3. /\ Blank(EndOf(i - 1), tokens[i].begin)
            /\ tokens[i].kind # "END" => tokens[i].begin < tokens[i].end
        BY <1>3, <3>1 DEF IInv, Lossless
      <4>4. \A n, m : Blank(n, m) => Blank(n, m)'
        BY BlankStays
      <4> QED
        BY <4>2, <4>3, <4>4
    <3>2. CASE i = Len(tokens) + 1
      <4>1. EndOf(Len(tokens)) \in Nat /\ EndOf(i - 1)' = EndOf(Len(tokens))
        <5>1. EndOf(Len(tokens)) \in Nat
          BY <1>3, EndOfType
        <5>2. i - 1 = Len(tokens) /\ (Len(tokens) = 0 \/ Len(tokens) \in 1..Len(tokens))
          BY <1>3, <3>2
        <5> QED
          BY <1>3, <5>1, <5>2 DEF EndOf
      <4>2. Blank(EndOf(Len(tokens)), Start)
        <5>1. Blank(EndOf(Len(tokens)), cur) /\ Blank(cur, Start)
          BY BlankSkipped DEF IInv, Lossless
        <5> QED
          BY <1>1, <4>1, <5>1, BlankJoins
      <4>3. \A n, m : Blank(n, m) => Blank(n, m)'
        BY BlankStays
      <4>4. tokens'[i] = new
        BY <1>3, <3>2
      <4> QED
        BY <4>1, <4>2, <4>3, <4>4
    <3> QED
      BY <1>3, <3>1, <3>2
  <2>2. Blank(EndOf(Len(tokens)), cur)'
    <3>1. Len(tokens)' = Len(tokens) + 1 /\ Len(tokens)' # 0
      BY <1>3, LenProperties
    <3>2. EndOf(Len(tokens))' = end
      BY <1>3, <3>1 DEF EndOf
    <3>3. Blank(end, end)
      BY <1>1, BlankNothing
    <3>4. Blank(end, end)'
      BY <3>3, BlankStays
    <3> QED
      BY <3>2, <3>4
  <2> QED
    BY <2>1, <2>2 DEF Lossless
<1> QED
  BY <1>1, <1>3, <1>5, <1>6, <1>7, <1>8, <1>9, <1>10, <1>11 DEF IInv

\* A lexer that stands at the start of a token finds the same token again.
LEMMA StartStays ==
  ASSUME IInv, Start < Len(text), UNCHANGED text, cur' = Start
  PROVE  Start' = Start /\ Opening' = Opening /\ \A d : Closings(d)' = Closings(d)
<1> DEFINE T(c) == {n \in c..Len(text) : n = Len(text) \/ text[n + 1] \notin Skips}
<1>1. cur \in Nat /\ Start \in Nat /\ Len(text) \in Nat /\ cur <= Start
  <2>1. Len(text) \in Nat /\ cur \in 0..Len(text)
    BY TextFacts DEF IInv
  <2> QED
    BY <2>1, StartFacts
<1>2. T(cur) \in SUBSET Nat /\ Len(text) \in T(cur) /\ Start = Min(T(cur))
  <2>1. Len(text) \in cur..Len(text)
    BY StartFacts, <1>1
  <2> QED
    BY <1>1, <2>1 DEF Start
<1>3. Start \in T(cur)
  <2> HIDE DEF T
  <2> QED
    BY <1>2, MinFacts
<1>4. T(Start) \in SUBSET Nat /\ Start \in T(Start) /\ \A n \in T(Start) : Start <= n
  BY <1>1, <1>3
<1>5. Min(T(Start)) = Start
  <2>1. Min(T(Start)) \in T(Start) /\ Min(T(Start)) <= Start
    <3> HIDE DEF T
    <3> QED
      BY <1>4, MinFacts
  <2> QED
    BY <1>1, <1>4, <2>1
<1>6. Start' = Start
  <2>1. Start' = Min(T(Start))
    BY DEF Start
  <2> QED
    BY <1>5, <2>1
<1>7. Opening' = Opening /\ \A d : Closings(d)' = Closings(d)
  BY <1>6 DEF Opening, Closings, At
<1> QED
  BY <1>6, <1>7

\* At a comment that is never closed no other delimiter is found.
LEMMA StuckFacts ==
  ASSUME IInv, Stuck
  PROVE  /\ Start < Len(text)
         /\ Opening # {}
         /\ \A d \in DOMAIN Delims : IsLeast(d, Opening) => d \notin Literals /\ Closings(d) = {}
<1>1. PICK e \in DOMAIN Delims : IsLeast(e, Opening) /\ e \notin Literals /\ Closings(e) = {}
  BY DEF Stuck
<1>2. Opening \in SUBSET Nat
  BY TableFacts DEF Opening
<1>3. \A d \in DOMAIN Delims : IsLeast(d, Opening) => d = e
  BY <1>1, <1>2, LeastIsOne
<1> QED
  BY <1>1, <1>3 DEF IsLeast, Stuck

\* Behind a delimited text the row is exact if it was in front of it.
LEMMA RowAfterExact ==
  ASSUME IInv, status = "scanning", ~Stuck, NEW d \in DOMAIN Delims, d \in Opening,
         Closings(d) # {}
  PROVE  RowAfter(d) = 1 + Lines(0, Closing(d))
<1> DEFINE inner == Start + Len(Delims[d][1])
<1>1. /\ inner \in Start + 1..Len(text) /\ Closing(d) \in inner..Len(text)
      /\ Lines(0, inner) = Lines(0, Start)
  BY DelimFacts
<1>2. text \in Texts /\ Len(text) \in Nat /\ Start \in Nat /\ StartRow = 1 + Lines(0, Start)
  <2>1. text \in Texts /\ Len(text) \in Nat /\ cur \in 0..Len(text)
    BY TextFacts DEF IInv
  <2> QED
    BY <2>1, StartFacts
<1>3. inner \in Nat /\ Closing(d) \in Nat /\ inner <= Closing(d)
  BY <1>1, <1>2
<1>4. RowAfter(d) = RowAt(1 + Lines(0, inner), inner, Closing(d))
  BY <1>1, <1>2 DEF RowAfter
<1> HIDE DEF inner
<1> QED
  BY <1>2, <1>3, <1>4, RowAtExact

LEMMA GetLiteralInv ==
  ASSUME IInv, NEW d \in DOMAIN Delims, GetLiteral(d)
  PROVE  IInv'
<1>1. /\ status = "scanning" /\ Start < Len(text) /\ IsLeast(d, Opening) /\ d \in Literals
      /\ Closings(d) # {} /\ Emit("DELIMITED", d, Closing(d))
      /\ cur' = Closing(d) /\ row' = RowAfter(d) /\ UNCHANGED <<text, status>>
  BY DEF GetLiteral, Scanning
<1>2. ~Stuck
  BY <1>1, StuckFacts
<1>3. d \in Opening
  BY <1>1 DEF IsLeast
<1>4. Closing(d) \in Start..Len(text)
  <2>1. Start \in Nat /\ Len(text) \in Nat
    BY StartFacts, TextFacts DEF IInv
  <2> QED
    BY <1>1, <1>3, <2>1, DelimFacts
<1>5. row' = 1 + Lines(0, Closing(d))
  BY <1>1, <1>2, <1>3, RowAfterExact
<1>6. d \in Nat
  BY TableFacts
<1>7. Start < Closing(d)
  <2>1. Start \in Nat /\ Len(text) \in Nat
    BY StartFacts, TextFacts DEF IInv
  <2> QED
    BY <1>1, <1>3, <2>1, DelimFacts
<1> QED
  BY <1>1, <1>2, <1>4, <1>5, <1>6, <1>7, EmitKeeps

LEMMA SkipCommentInv ==
  ASSUME IInv, NEW d \in DOMAIN Delims, SkipComment(d)
  PROVE  IInv'
<1>1. /\ status = "scanning" /\ Start < Len(text) /\ IsLeast(d, Opening)
      /\ Closings(d) # {} /\ cur' = Closing(d) /\ row' = RowAfter(d)
      /\ UNCHANGED <<text, tokens, status>>
  BY DEF SkipComment, Scanning
<1>2. ~Stuck
  BY <1>1, StuckFacts
<1>3. d \in Opening
  BY <1>1 DEF IsLeast
<1>4. Closing(d) \in Start..Len(text) /\ Closing(d) \in Nat
  <2>1. Start \in Nat /\ Len(text) \in Nat
    BY StartFacts, TextFacts DEF IInv
  <2> QED
    BY <1>1, <1>3, <2>1, DelimFacts
<1>5. row' = 1 + Lines(0, cur')
  BY <1>1, <1>2, <1>3, RowAfterExact
<1>6. row' \in 1..MaxRow
  <2>1. text \in Texts /\ 0 <= Closing(d)
    BY <1>4 DEF IInv
  <2>2. Lines(0, Closing(d)) \in Nat /\ Lines(0, Closing(d)) < MaxRow
    BY <1>4, <2>1, LinesFacts
  <2> QED
    BY <1>1, <1>5, <2>2, TextsAssumption
<1>7. Blank(Start, cur')
  BY <1>1, <1>3, BlankComment DEF SkipComment
<1> QED
  BY <1>1, <1>4, <1>5, <1>6, <1>7, QuietKeeps

LEMMA UnclosedInv ==
  ASSUME IInv, NEW d \in DOMAIN Delims, UnclosedLiteral(d) \/ UnclosedComment(d)
  PROVE  IInv'
<1>1. /\ status = "scanning" /\ Start < Len(text) /\ IsLeast(d, Opening) /\ Closings(d) = {}
      /\ cur' = Start /\ row' = RowAt(StartRow, Start + Len(Delims[d][1]), GivesUp(d))
      /\ UNCHANGED <<text, tokens>>
      /\ \/ status' = "crashed"
         \/ status' = "scanning" /\ d \notin Literals
  BY DEF UnclosedLiteral, UnclosedComment, Scanning
<1>2. cur' \in Start..Len(text)
  <2>1. Start \in Nat /\ Len(text) \in Nat
    BY StartFacts, TextFacts DEF IInv
  <2> QED
    BY <1>1, <2>1
<1>3. row' \in 1..MaxRow
  BY <1>1, StartFacts, RowAtType DEF IInv
<1>4. ASSUME status' = "scanning" PROVE Stuck'
  <2>1. Start' = Start /\ Opening' = Opening /\ Closings(d)' = Closings(d)
    BY <1>1, StartStays
  <2>2. IsLeast(d, Opening')
    BY <1>1, <2>1
  <2> QED
    BY <1>1, <1>4, <2>1, <2>2 DEF Stuck, IsLeast
<1>5. Blank(Start, cur')
  BY <1>1, BlankHere
<1> QED
  BY <1>1, <1>2, <1>3, <1>4, <1>5, QuietKeeps

LEMMA GetSymbolInv ==
  ASSUME IInv, NEW k \in DOMAIN Keywords, GetSymbol(k)
  PROVE  IInv'
<1> DEFINE end == Start + Len(Keywords[k])
<1>1. /\ status = "scanning" /\ Start < Len(text) /\ Opening = {} /\ k \in Symbol
      /\ Emit("SYMBOL", k, end) /\ cur' = end /\ row' = StartRow /\ UNCHANGED <<text, status>>
  BY DEF GetSymbol, Scanning, IsLeast
<1>2. ~Stuck
  BY <1>1, StuckFacts
<1>3. end \in Start + 1..Len(text) /\ Lines(0, end) = Lines(0, Start)
  BY <1>1, SymbolFacts
<1>4. end \in Start..Len(text)
  <2>1. Start \in Nat /\ Len(text) \in Nat
    BY StartFacts, TextFacts DEF IInv
  <2> QED
    BY <1>3, <2>1
<1>5. row' = 1 + Lines(0, end)
  BY <1>1, <1>2, <1>3, StartFacts
<1>6. k \in Nat
  BY TableFacts
<1>7. Collisions = {} => Longest(end)
  BY FirstIsLongest DEF GetSymbol
<1>8. Start < end
  <2>1. Start \in Nat /\ Len(text) \in Nat
    BY StartFacts, TextFacts DEF IInv
  <2> QED
    BY <1>3, <2>1
<1> HIDE DEF end
<1> QED
  BY <1>1, <1>2, <1>4, <1>5, <1>6, <1>7, <1>8, EmitKeeps

LEMMA GetIdentInv ==
  ASSUME IInv, GetIdent
  PROVE  IInv'
<1>1. /\ status = "scanning" /\ Start < Len(text) /\ Opening = {}
      /\ Emit("IDENT", Len(Keywords) + 1, WordEnd) /\ cur' = WordEnd /\ row' = StartRow
      /\ UNCHANGED <<text, status>>
  BY DEF GetIdent, Scanning
<1>2. ~Stuck
  BY <1>1, StuckFacts
<1>3. /\ WordEnd \in Start..Len(text) /\ Lines(0, WordEnd) = Lines(0, Start)
      /\ WordEnd < Len(text) => text[WordEnd + 1] \notin WordChars
  BY WordFacts
<1>4. row' = 1 + Lines(0, WordEnd)
  BY <1>1, <1>2, <1>3, StartFacts
<1>5. Len(Keywords) + 1 \in Nat
  BY TableFacts
<1>6. Start < WordEnd
  BY DEF GetIdent
<1> QED
  BY <1>1, <1>2, <1>3, <1>4, <1>5, <1>6, EmitKeeps

LEMMA GetInvalidInv ==
  ASSUME IInv, GetInvalid
  PROVE  IInv'
<1>1. cur' = Start /\ row' = StartRow /\ status' = "invalid" /\ UNCHANGED <<text, tokens>>
  BY DEF GetInvalid
<1>2. Start \in Start..Len(text) /\ StartRow \in 1..MaxRow
  <2>1. Len(text) \in Nat /\ cur \in 0..Len(text)
    BY TextFacts DEF IInv
  <2> QED
    BY <2>1, StartFacts
<1>3. Blank(Start, cur')
  BY <1>1, BlankHere
<1> QED
  BY <1>1, <1>2, <1>3, QuietKeeps

LEMMA GetEndInv ==
  ASSUME IInv, GetEnd
  PROVE  IInv'
<1>1. /\ status = "scanning" /\ Start = Len(text) /\ Emit("END", 0, Start)
      /\ cur' = Start /\ row' = StartRow /\ status' = "end" /\ UNCHANGED text
  BY DEF GetEnd
<1>2. Len(text) \in Nat
  BY TextFacts DEF IInv
<1>3. ~Stuck
  BY <1>1, <1>2, StuckFacts
<1>4. Start \in Start..Len(text)
  BY <1>1, <1>2
<1>5. row' = 1 + Lines(0, Start)
  BY <1>1, <1>3, StartFacts
<1> QED
  BY <1>1, <1>3, <1>4, <1>5, EmitKeeps

-----------------------------------------------------------------------------
(* Theorems. *)

LEMMA InitInv ==
  Init => IInv
<1> SUFFICES ASSUME Init PROVE IInv
  OBVIOUS
<1>1. text \in Texts /\ cur = 0 /\ row = 1 /\ tokens = <<>> /\ status = "scanning"
  BY DEF Init
<1>2. Lines(0, 0) = 0
  <2>1. \A i \in 0 + 1 .. 0 : text[i] # NewLine
    OBVIOUS
  <2> QED
    BY <1>1, <2>1, WithinLine
<1>3. 0 < MaxRow /\ MaxRow \in Nat
  <2>1. Lines(0, 0) < MaxRow
    BY <1>1, LinesFacts
  <2> QED
    BY <1>2, <2>1, TextsAssumption
<1>4. cur \in 0..Len(text) /\ row \in 1..MaxRow
  BY <1>1, <1>3, TextFacts
<1>5. tokens \in Seq(Token) /\ DOMAIN tokens = {}
  BY <1>1, EmptySeq
<1>6. Lossless
  BY <1>1, <1>5, BlankNothing DEF Lossless, EndOf
<1> QED
  BY <1>1, <1>2, <1>4, <1>5, <1>6 DEF IInv, RowOK, RowExact, InOrder, WordEnds,
                                      KeywordsLongest

LEMMA NextInv ==
  IInv /\ [Next]_vars => IInv'
<1> SUFFICES ASSUME IInv, [Next]_vars PROVE IInv'
  OBVIOUS
<1>1. CASE UNCHANGED vars
  <2>1. UNCHANGED <<text, cur, row, tokens, status>>
    BY <1>1 DEF vars
  <2>2. Stuck' = Stuck
    BY <2>1 DEF Stuck, Start, Opening, Closings, At, IsLeast
  <2>3. Lossless'
    <3>1. EndOf(Len(tokens))' = EndOf(Len(tokens))
          /\ \A i \in DOMAIN tokens : EndOf(i - 1)' = EndOf(i - 1)
      BY <2>1 DEF EndOf
    <3>2. \A n, m : Blank(n, m) => Blank(n, m)'
      BY <2>1, BlankStays
    <3> QED
      BY <2>1, <3>1, <3>2 DEF IInv, Lossless
  <2> QED
    BY <2>1, <2>2, <2>3 DEF IInv, RowOK, RowExact, InOrder, WordEnds, Lines,
                                KeywordsLongest, Collisions, At
<1>2. CASE \E d \in DOMAIN Delims :
             GetLiteral(d) \/ SkipComment(d) \/ UnclosedLiteral(d) \/ UnclosedComment(d)
  BY <1>2, GetLiteralInv, SkipCommentInv, UnclosedInv
<1>3. CASE \E k \in DOMAIN Keywords : GetSymbol(k)
  BY <1>3, GetSymbolInv
<1>4. CASE GetIdent \/ GetInvalid \/ GetEnd
  BY <1>4, GetIdentInv, GetInvalidInv, GetEndInv
<1> QED
  BY <1>1, <1>2, <1>3, <1>4 DEF Next

LEMMA InvHolds ==
  Spec => []IInv
<1> QED
  BY InitInv, NextInv, PTL DEF Spec

\* The lexer stays within the text, whatever the text and the tables
\* (bth_lex_get_token and the loop of next_token).
THEOREM TypeCorrect ==
  Spec => []TypeOK
<1>1. ASSUME IInv PROVE TypeOK
  <2>1. \A i \in DOMAIN tokens : tokens[i] \in Token
    BY <1>1, LenProperties, ElementOfSeq DEF IInv
  <2> QED
    BY <1>1, <2>1 DEF IInv, TypeOK
<1> QED
  BY <1>1, InvHolds, PTL

\* Line ends are counted once each, in skips, in delimited texts and in their
\* closing delimiters (bth_lex.h:225-245): the row of a token is its line.
THEOREM RowsCorrect ==
  Spec => []RowExact
<1>1. IInv => RowExact
  BY DEF IInv
<1> QED
  BY <1>1, InvHolds, PTL

\* Nothing of a file is lost: what is in no token is skips and comments
\* (next_token goes round for comments, bth_lex_skip for the rest).
THEOREM NothingLost ==
  Spec => []Lossless
<1>1. IInv => Lossless
  BY DEF IInv
<1> QED
  BY <1>1, InvHolds, PTL

\* No word is cut by the end of an identifier (bth_lex_get_ident).
THEOREM WordsCorrect ==
  Spec => []WordsWhole
<1>1. ASSUME IInv PROVE WordsWhole
  <2> SUFFICES ASSUME NEW i \in 1..Len(tokens) - 1, tokens[i].kind = "IDENT",
                      tokens[i].end = tokens[i + 1].begin, tokens[i + 1].kind # "END"
               PROVE  text[tokens[i].end + 1] \notin WordChars
    BY DEF WordsWhole
  <2>1. i \in DOMAIN tokens /\ i + 1 \in DOMAIN tokens
    BY <1>1, LenProperties DEF IInv
  <2>2. tokens[i + 1].begin < Len(text)
    BY <1>1, <2>1 DEF IInv, InOrder
  <2> QED
    BY <1>1, <2>1, <2>2 DEF IInv, WordEnds
<1> QED
  BY <1>1, InvHolds, PTL

\* With a table that check_prefix_collisions lets through, the first keyword
\* found is the longest one (bth_lex_find_symbol).
THEOREM KeywordsCorrect ==
  Spec => []KeywordsLongest
<1>1. IInv => KeywordsLongest
  BY DEF IInv
<1> QED
  BY <1>1, InvHolds, PTL

\* The lexer never moves back, and no character is part of two tokens
\* (next_token goes round comments, which move it forward or not at all).
THEOREM TokensApart ==
  Spec => []InOrder
<1>1. IInv => InOrder
  BY DEF IInv
<1> QED
  BY <1>1, InvHolds, PTL

=============================================================================
