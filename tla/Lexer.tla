------------------------------- MODULE Lexer --------------------------------
(***************************************************************************)
(* The lexer: bth_lex.h, driven by next_token of token.c.  Each step is    *)
(* one round of the loop of next_token, which asks bth_lex_get_token for a *)
(* token until it is no comment.  A position is the number of characters   *)
(* before it.                                                              *)
(***************************************************************************)
EXTENDS Integers, Sequences, FiniteSets, SequencesExt

CONSTANTS
  Texts,      \* the source files, as sequences of characters
  Keywords,   \* KEYWORD_TABLE: a sequence of strings
  Delims,     \* DELIM_TABLE: a sequence of strings <<open, close>>
  Literals,   \* the indices of Delims that are no comments
  Skips,      \* SKIP_TABLE: the characters between tokens
  WordChars,  \* the characters of bth_lex_isvalid
  NewLine,    \* BTH_LEX_LINESEP
  MaxRow      \* bound on the row counter

\* Strings: the lines of a text do not reach the bound, words and openings of
\* delimiters are within a line, and no string of a table is empty.
Strings(chars) == Seq(chars) \ {<<>>}
ASSUME TextsAssumption ==
  /\ MaxRow \in Nat
  /\ \A t \in Texts :
       /\ t \in Seq(Range(t))
       /\ Cardinality({i \in DOMAIN t : t[i] = NewLine}) < MaxRow
ASSUME StringsAssumption ==
  /\ Keywords \in Seq(Range(Keywords)) /\ Delims \in Seq(Range(Delims))
  /\ \A w \in Range(Keywords) \union {Delims[d][1] : d \in DOMAIN Delims} :
       w \in Strings(Range(w) \ {NewLine})
  /\ \A d \in DOMAIN Delims : Delims[d][2] \in Strings(Range(Delims[d][2]))

ASSUME NewLineAssumption == NewLine \in Skips \ WordChars

\* A character that opens a delimiter starts no keyword and no word, so that
\* an unclosed delimiter is nothing else either.
ASSUME TablesAssumption ==
  \A d \in DOMAIN Delims :
    /\ Delims[d][1][1] \notin WordChars \union Skips
    /\ \A k \in DOMAIN Keywords : Keywords[k][1] # Delims[d][1][1]

VARIABLES
  text,     \* buffer
  cur, row, \* where the lexer is
  tokens,   \* what next_token has returned so far
  status    \* "scanning", "end", "invalid" or "crashed"

vars == <<text, cur, row, tokens, status>>

Token == [kind : {"DELIMITED", "SYMBOL", "IDENT", "END"}, idx : Nat,
          begin : Nat, end : Nat, row : Nat]

TypeOK ==
  /\ cur \in 0..Len(text)
  /\ row \in 1..MaxRow
  /\ \A i \in DOMAIN tokens : tokens[i] \in Token
  /\ status \in {"scanning", "end", "invalid", "crashed"}

Init ==
  /\ text \in Texts
  /\ cur = 0 /\ row = 1
  /\ tokens = <<>>
  /\ status = "scanning"

-----------------------------------------------------------------------------
IsLeast(i, S) == i \in S /\ \A j \in S : i <= j
At(s, n) == n + Len(s) <= Len(text) /\ SubSeq(text, n + 1, n + Len(s)) = s
Lines(n, m) == Cardinality({i \in DOMAIN text : n < i /\ i <= m /\ text[i] = NewLine})
RowAt(r, n, m) == Min({MaxRow, r + Lines(n, m)})

\* bth_lex_skip stops at the first character that is not in SKIP_TABLE.
Start == Min({n \in cur..Len(text) : n = Len(text) \/ text[n + 1] \notin Skips})
StartRow == RowAt(row, cur, Start)

\* bth_lex_find_delim, _find_symbol and _get_ident, at the start of a token.
Opening == {d \in DOMAIN Delims : At(Delims[d][1], Start)}
SymbolLast ==        \* mutant: the search does not stop at the first match
  {k \in DOMAIN Keywords : /\ At(Keywords[k], Start)
                           /\ \A j \in k + 1..Len(Keywords) : ~At(Keywords[j], Start)}
Symbol == {k \in DOMAIN Keywords : At(Keywords[k], Start)}
WordEndShort ==      \* mutant: one character
  Start + (IF text[Start + 1] \in WordChars THEN 1 ELSE 0)
WordEnd == Min({n \in Start..Len(text) :
                  n = Len(text) \/ text[n + 1] \notin WordChars})

\* Where the closing delimiter may be, and the end of the search for it.
Closings(d) == {n \in Start + Len(Delims[d][1])..Len(text) : At(Delims[d][2], n)}
ClosingStart(d) == Min(Closings(d))         \* mutant: the delimiter is not eaten
ClosingPast(d) == Min(Closings(d)) + Len(Delims[d][2]) + 1   \* mutant: off by one
Closing(d) == Min(Closings(d)) + Len(Delims[d][2])
GivesUp(d) == Max({Start + Len(Delims[d][1]), Len(text) - Len(Delims[d][2])})

\* The lines of the delimited text, whose closing delimiter may be a line end.
RowInside(d) ==                             \* mutant: that line end is forgotten
  RowAt(StartRow, Start + Len(Delims[d][1]), Closing(d) - Len(Delims[d][2]))
RowAfter(d) == RowAt(StartRow, Start + Len(Delims[d][1]), Closing(d))

Scanning == status = "scanning" /\ Start < Len(text)
Emit(kind, idx, end) ==
  tokens' = Append(tokens, [kind |-> kind, idx |-> idx, begin |-> Start,
                            end |-> end, row |-> StartRow])

\* A string or a character.
GetLiteral(d) ==
  /\ Scanning
  /\ IsLeast(d, Opening) /\ d \in Literals
  /\ Closings(d) # {}
  /\ Emit("DELIMITED", d, Closing(d))
  /\ cur' = Closing(d)
  /\ row' = RowAfter(d)
  /\ UNCHANGED <<text, status>>

\* A comment: next_token goes round again.
SkipCommentForever(d) ==                    \* mutant: the comment is not passed
  /\ Scanning
  /\ IsLeast(d, Opening) /\ d \notin Literals
  /\ Closings(d) # {}
  /\ cur' = Start
  /\ row' = StartRow
  /\ UNCHANGED <<text, tokens, status>>
SkipComment(d) ==
  /\ Scanning
  /\ IsLeast(d, Opening) /\ d \notin Literals
  /\ Closings(d) # {}
  /\ cur' = Closing(d)
  /\ row' = RowAfter(d)
  /\ UNCHANGED <<text, tokens, status>>

\* A delimiter that is never closed leaves a token of kind DELIMITED without
\* an end.  identify_token reads the character before that end: a crash.
UnclosedLiteral(d) ==
  /\ Scanning
  /\ IsLeast(d, Opening) /\ d \in Literals
  /\ Closings(d) = {}
  /\ cur' = Start
  /\ row' = RowAt(StartRow, Start + Len(Delims[d][1]), GivesUp(d))
  /\ status' = "crashed"
  /\ UNCHANGED <<text, tokens>>

\* Of a comment next_token looks at the kind only, and goes round again.
UnclosedComment(d) ==
  /\ Scanning
  /\ IsLeast(d, Opening) /\ d \notin Literals
  /\ Closings(d) = {}
  /\ cur' = Start
  /\ row' = RowAt(StartRow, Start + Len(Delims[d][1]), GivesUp(d))
  /\ UNCHANGED <<text, tokens, status>>

GetSymbol(k) ==
  /\ Scanning
  /\ Opening = {}
  /\ IsLeast(k, Symbol)
  /\ Emit("SYMBOL", k, Start + Len(Keywords[k]))
  /\ cur' = Start + Len(Keywords[k])
  /\ row' = StartRow
  /\ UNCHANGED <<text, status>>

GetIdent ==
  /\ Scanning
  /\ Opening = {} /\ Symbol = {}
  /\ WordEnd > Start
  /\ Emit("IDENT", Len(Keywords) + 1, WordEnd)
  /\ cur' = WordEnd
  /\ row' = StartRow
  /\ UNCHANGED <<text, status>>

\* Nothing starts here: next_token exits.
GetInvalid ==
  /\ Scanning
  /\ Opening = {} /\ Symbol = {}
  /\ WordEnd = Start
  /\ status' = "invalid"
  /\ cur' = Start
  /\ row' = StartRow
  /\ UNCHANGED <<text, tokens>>

GetEnd ==
  /\ status = "scanning" /\ Start = Len(text)
  /\ Emit("END", 0, Start)
  /\ cur' = Start
  /\ row' = StartRow
  /\ status' = "end"
  /\ UNCHANGED text

Next ==
  \/ \E d \in DOMAIN Delims :
       GetLiteral(d) \/ SkipComment(d) \/ UnclosedLiteral(d) \/ UnclosedComment(d)
  \/ \E k \in DOMAIN Keywords : GetSymbol(k)
  \/ GetIdent \/ GetInvalid \/ GetEnd

\* The parser asks for tokens until it has the last one.
Spec == Init /\ [][Next]_vars /\ WF_vars(Next)

-----------------------------------------------------------------------------
(* Properties. *)

\* check_prefix_collisions: the pairs of a word and one in front of it that it
\* begins with.
\* Of each pair the loops compare the later word, hay, with the earlier, sub.
Collisions == {p \in (DOMAIN Keywords) \X (DOMAIN Keywords) :
                 LET hay == p[1]
                     sub == p[2]
                 IN  sub < hay /\ IsPrefix(Keywords[sub], Keywords[hay])}

\* Nothing of the file is lost and nothing is read twice: in front of every
\* token, and from the last one to where the lexer stands, there are only skips
\* and comments, and every token but the end has characters.
OpensComment(n) == {d \in DOMAIN Delims \ Literals : At(Delims[d][1], n)}
CommentEnds(d, n) == {m \in n + Len(Delims[d][1])..Len(text) : At(Delims[d][2], m)}
Passed(n, m) ==
  \/ m = n + 1 /\ text[m] \in Skips
  \/ \E d \in OpensComment(n) :
       CommentEnds(d, n) # {} /\ m = Min(CommentEnds(d, n)) + Len(Delims[d][2])
Blank(n, m) ==
  \E stops \in SUBSET (n..m) :
    /\ {n, m} \subseteq stops
    /\ \A i \in stops \ {m} : \E j \in stops : i < j /\ Passed(i, j)
EndOf(i) == IF i = 0 THEN 0 ELSE tokens[i].end
Lossless ==
  /\ \A i \in DOMAIN tokens :
       /\ Blank(EndOf(i - 1), tokens[i].begin)
       /\ tokens[i].kind # "END" => tokens[i].begin < tokens[i].end
  /\ Blank(EndOf(Len(tokens)), cur)

\* The row of a token, which every message of the compiler prints, is the
\* number of the line the token starts on.
RowExact ==
  \A i \in DOMAIN tokens : tokens[i].row = 1 + Lines(0, tokens[i].begin)

\* A word is read to its end: no word is cut in two identifiers, and none ends
\* where a keyword begins.  (One that begins with a keyword is cut after it.)
WordsWhole ==
  \A i \in 1..Len(tokens) - 1 :
    /\ tokens[i].kind = "IDENT"
    /\ tokens[i].end = tokens[i + 1].begin
    /\ tokens[i + 1].kind # "END"
    => text[tokens[i].end + 1] \notin WordChars

\* What main asks check_prefix_collisions for: in a table without collisions the
\* first keyword found is the longest one that stands there.
KeywordsLongest ==
  Collisions = {} =>
    \A i \in DOMAIN tokens : tokens[i].kind = "SYMBOL" =>
      \A k \in DOMAIN Keywords : At(Keywords[k], tokens[i].begin) =>
        tokens[i].begin + Len(Keywords[k]) <= tokens[i].end

\* The lexer gets to the end of every file, or gives up on it, unless it stands
\* at a comment that is never closed.
AtUnclosed == status = "scanning" /\ \E d \in Opening \ Literals : Closings(d) = {}
Progress == <>(status # "scanning" \/ AtUnclosed)
=============================================================================
