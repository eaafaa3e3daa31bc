------------------------------ MODULE MCParser ------------------------------
(***************************************************************************)
(* Parser on all sentences of a few templates: fixed tokens, some tokens   *)
(* that are free, fixed tokens again, and then the end of the file.  The   *)
(* free part is where a function of ast_build.c is put to the test with    *)
(* every sequence it may meet.                                             *)
(***************************************************************************)
EXTENDS Grammar

CONSTANT Room       \* bound: the free tokens of the longest templates

Sym(idx) == [kind |-> "SYMBOL", idx |-> idx, text |-> <<idx>>]
Syms(idxs) == [i \in DOMAIN idxs |-> Sym(idxs[i])]
Word(name) == [kind |-> "IDENT", idx |-> "IDENT", text |-> name]
Constant(idx, text) == [kind |-> "IDENT", idx |-> idx, text |-> <<text>>]

a == Word(<<"a">>)
f == Word(<<"f">>)
f_a == Word(<<"f", "a">>)
One == Constant("INT_CST", "1")
NoInt == Constant("INT_CST", "1x")
Malformeds == {NoInt}
Literals == {One, NoInt, Constant("CHAR_CST", "'c'"), Constant("STR_CST", "\"s\"")}

Symbols == {Sym(i) : i \in {"int", "char", "end", "return", "=", ";", "(", ")",
                            "+", "*", "&", ","}}
SomeSyms(idxs) == {Sym(i) : i \in idxs}
Template(pre, free, room, post) ==
  [pre |-> pre, free |-> free, room |-> room, post |-> post]
IntF == <<Sym("int"), f>>

Templates ==
  { \* anything
    Template(<<>>, Symbols \union Literals \union {a}, Room - 1, <<>>),
    \* declarations of the file, among them one whose key is that of another
    Template(<<>>, SomeSyms({"int", "end", ";", "(", ")", "="}) \union {f, a, One},
             Room, <<>>),
    Template(IntF \o Syms(<<"(", ")", "int">>) \o <<a>> \o Syms(<<";", "end">>),
             SomeSyms({"int", ";", "(", ")", "end"}) \union {f, f_a}, Room, <<>>),
    \* parameters
    Template(IntF \o Syms(<<"(">>),
             SomeSyms({"int", "&", ",", "=", ")"}) \union {a, One}, Room,
             Syms(<<")", "end">>)),
    \* statements
    Template(IntF \o Syms(<<"(", ")">>),
             SomeSyms({"int", "=", ";", "return", "*", "&"}) \union {a, One}, Room,
             Syms(<<";", "end">>)),
    \* expressions
    Template(IntF \o Syms(<<"(", ")", "return">>),
             SomeSyms({"+", "*", "=", "(", ")", ",", "&"}) \union {a, One}, Room,
             Syms(<<";", "end">>)),
    Template(IntF \o Syms(<<"(", ")", "return">>),
             SomeSyms({"+", "*", "="}) \union {a}, Room + 2, Syms(<<";", "end">>)),
    \* a function in a function in a function, and one more
    Template(IntF \o Syms(<<"(", ")", "int">>) \o <<f_a>> \o Syms(<<"(", ")">>),
             SomeSyms({"int", "(", ")", ";", "end"}) \union {a}, Room + 2, Syms(<<"end">>)) }

\* What may follow r in a sentence of template t.
After(t, r) ==
  IF Len(r) < Len(t.pre)
  THEN IF IsPrefix(r, t.pre) THEN {t.pre[Len(r) + 1]} ELSE {}
  ELSE LET rest == SubSeq(r, Len(t.pre) + 1, Len(r))
           splits == {k \in 0..Min({Len(rest), t.room}) :
                        /\ ToSet(SubSeq(rest, 1, k)) \subseteq t.free
                        /\ IsPrefix(SubSeq(rest, k + 1, Len(rest)), t.post)}
       IN  IF ~IsPrefix(t.pre, r) THEN {}
           ELSE {Append(t.post, EndToken)[Len(rest) - k + 1] : k \in splits}
                  \union (IF Len(rest) \in splits \ {t.room} THEN t.free ELSE {})

Sentences(r) == UNION {After(t, r) : t \in Templates}
Words == Symbols \union Literals \union {a, f, f_a}
=============================================================================
