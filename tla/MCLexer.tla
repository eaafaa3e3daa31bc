------------------------------ MODULE MCLexer -------------------------------
(***************************************************************************)
(* Lexer on every short text over seven characters.  The tables are cut    *)
(* down to what the characters can make: keywords of letters ("kk" for     *)
(* int, char, ..., and "kkx" in front of it, which it begins), one of one  *)
(* sign, strings and both comments.                                        *)
(***************************************************************************)
EXTENDS Lexer

MCKeywords == <<<<"k", "k", "x">>, <<"k", "k">>, <<"*">>>>
MCDelims == <<<<<<"\"">>, <<"\"">>>>,
              <<<<"/", "/">>, <<"\n">>>>,
              <<<<"/", "*">>, <<"*", "/">>>>>>
MCLiterals == {1}
MCSkips == {"\n", " "}
MCNewLine == "\n"
MCWordChars == {"k", "x"}

Chars == {"k", "x", "*", "\"", "/", "\n", " "}

\* Every text of at most n characters, and longer ones around a comment.
Short(n) == BoundedSeq(Chars, n)
Commented == {<<"/", "*">> \o s \o <<"*", "/">> \o t : s, t \in Short(2)}
MCTexts == Short(4) \union Commented
=============================================================================
