----------------------------- MODULE MCCompiler -----------------------------
(***************************************************************************)
(* Compiler on printed files.  The path "all.cml" may hold any of them,    *)
(* the others have one content; most command lines are for a small file.   *)
(***************************************************************************)
EXTENDS CompilerTrees, Samples

-----------------------------------------------------------------------------
(* The text of a tree, as it would be written by hand. *)

Symb(idx) == [kind |-> "SYMBOL", idx |-> idx, text |-> <<idx>>]
Word(name) == [kind |-> "IDENT", idx |-> "IDENT", text |-> name]
Const(idx) == [kind |-> "IDENT", idx |-> idx, text |-> <<idx>>]
ConstOf(e) == CASE e = IntLit -> Const("INT_CST")
                [] e = CharLit -> Const("CHAR_CST")
                [] e = StrLit -> Const("STR_CST")

TypeText(t) ==
  Append([i \in 1..t.refc |-> Symb("&")],
         CASE t.id = VT_INT -> Symb("int") [] t.id = VT_CHAR -> Symb("char")
           [] OTHER -> Word(<<"foo">>))
Commas(texts) == FlattenSeq([i \in DOMAIN texts |->
                               IF i = 1 THEN texts[i] ELSE <<Symb(",")>> \o texts[i]])

RECURSIVE Written(_)
Written(n) ==
  LET typed == TypeText(n.type) \o <<Word(n.name)>>
      arguments == Commas([i \in DOMAIN n.args |-> Written(n.args[i])])
      param(v) == TypeText(v.type) \o (IF v.init = <<>> THEN <<Word(v.name)>>
                                       ELSE <<Symb("=")>> \o Written(v.init[1]))
      params == Commas([i \in DOMAIN n.params |-> param(n.params[i])])
      stmt(s) == Written(s) \o (IF s.op = "fun" THEN <<>> ELSE <<Symb(";")>>)
  IN  CASE n.op = "lit" -> <<ConstOf(n)>>
        [] n.op = "ident" -> <<Word(n.name)>>
        [] n.op = "add" -> Written(n.lhs) \o <<Symb("+")>> \o Written(n.rhs)
        [] n.op = "mul" -> Written(n.lhs) \o <<Symb("*")>> \o Written(n.rhs)
        [] n.op = "deref" -> <<Symb("*")>> \o Written(n.value)
        [] n.op = "ref" -> <<Symb("&")>> \o Written(n.value)
        [] n.op = "assign" -> Written(n.dest) \o <<Symb("=")>> \o Written(n.value)
        [] n.op = "call" -> <<Word(n.name), Symb("(")>> \o arguments \o <<Symb(")")>>
        [] n.op = "var" ->
             typed \o (IF n.init = <<>> THEN <<>> ELSE <<Symb("=")>> \o Written(n.init[1]))
        [] n.op = "return" -> <<Symb("return")>> \o Written(n.value)
        [] n.op = "fun" ->
             typed \o <<Symb("(")>> \o params \o <<Symb(")")>>
               \o Concat(n.body, stmt) \o <<Symb("end")>>
FileText(file) ==
  LET decl(d) == Written(d) \o (IF d.op = "fun" THEN <<>> ELSE <<Symb(";")>>)
  IN  Concat(file, decl)

Printed(file) == [tokens |-> FileText(file), file |-> file, grammatical |-> TRUE]
Wrong(tokens) == [tokens |-> tokens, file |-> <<>>, grammatical |-> FALSE]

-----------------------------------------------------------------------------
(* Files. *)

g == <<"g">>
G(es) == Call(g, es)
CharPtr == PtrTo(CharT)

\* Sums and products as the parser groups them.
Values == {A, IntLit, Deref(P), G(<<>>)}
Products == Values \union {Mul(x, y) : x, y \in Values} \union {Mul(Mul(A, IntLit), A)}
Sums == {Add(x, y) : x \in Products, y \in {A, Mul(A, A), Add(A, A), Add(Mul(A, A), IntLit)}}
SomeExprs == Products \union Sums \union
  {CharLit, Assign(A, CharLit), Add(A, Assign(A, CharLit)), Deref(Ref(A)), Ref(A)}
Returning ==
  {<<Fun(IntT, g, <<>>, <<>>),
     Main(<<Decl(IntT, a), Decl(PtrTo(IntT), p), Return(e)>>)>> : e \in SomeExprs}

\* Up to three parameters, with variables and without.
Params == <<Decl(IntT, a), Decl(PtrTo(IntT), p), Decl(CharT, b)>>
Args == <<CharLit, StrLit, CharLit>>
Bodies == {<<>>, <<Return(IntLit)>>, <<Decl(IntT, <<"v">>), Assign(Ident(<<"v">>), CharLit)>>}
Mains == {<<Let(PtrTo(IntT), p, G(SubSeq(Args, 1, m))), s>> :
            m \in 1..2, s \in {Return(IntLit), G(<<CharLit>>)}} \union {<<Return(IntLit)>>}
Calling == {<<Fun(PtrTo(IntT), g, SubSeq(Params, 1, n), body), Main(stmts)>> :
              n \in 0..3, body \in Bodies, stmts \in Mains}

\* Variables of the file, initialisers, chains of operators.
Declaring ==
  {<<Let(CharPtr, a, StrLit), d, Main(<<Let(t, b, e), Return(Deref(B))>>)>> :
     d \in {Decl(IntT, b), Decl(CharPtr, b), Let(IntT, a, A)},
     t \in {IntT, PtrTo(CharPtr)},
     e \in {IntLit, Ref(Ref(CharLit)), Assign(B, CharLit), Deref(Ref(B))}}

\* A variable read in its own initialiser, x of f and a function f_x, and a
\* parameter with an initialiser.
x == <<"x">>
f_x == f \o x
Tangled ==
  {<<Main(<<Let(PtrTo(IntT), a, Deref(A)), Return(IntLit)>>)>>,
   <<Fun(IntT, f_x, <<>>, <<>>), Fun(IntT, f, <<>>, <<Decl(PtrTo(IntT), x), Return(Ident(x))>>)>>,
   <<Fun(IntT, f, <<Decl(IntT, x), Let(IntT, <<"=">>, IntLit), Decl(IntT, p)>>, <<Return(P)>>),
     Main(<<Return(Call(f, <<CharLit, CharLit, CharLit>>))>>)>>}

\* The last one ends inside its parameters.
Wrongs == {Wrong(<<Symb(";")>>), Wrong(SubSeq(FileText(val_ret_0), 1, 7)),
           Wrong(SubSeq(FileText(val_ret_0), 2, 8)),
           Wrong(FileText(val_ret_0) \o FileText(<<Main(<<Main(<<>>), Return(IntLit)>>)>>)),
           Wrong(SubSeq(FileText(val_ret_0), 1, 3))}

Dumped == {<<>>} \union Declaring \union Tangled \union Samples

AllTokens ==
  {Symb(idx) : idx \in {"&", "int", "char", "(", ")", ",", ";", "=", "+", "*",
                        "return", "end"}}
    \union {Const(idx) : idx \in {"INT_CST", "CHAR_CST", "STR_CST"}}
    \union {Word(name) : name \in {a, b, p, g, f, main, bar, <<"foo">>, <<"v">>, <<"hello">>, x, f_x}}
    \union {[kind |-> "END", idx |-> "int", text |-> <<"">>]}

\* Command lines on one small file: the options that change what cmlc does after
\* it has read them, and the ways of refusing a line (all lines: MCDriver).
Lines == {<<"a.cml">>, <<"--ast", "a.cml">>, <<"--irep", "a.cml">>, <<"--syms", "--tok", "a.cml">>,
          <<"a.cml", "-o", "out.c">>, <<"-o", "out.c", "--irep", "a.cml">>, <<"a.cml", "-o">>,
          <<"--ast", "--irep", "a.cml">>, <<"a.cml", "b.cml">>, <<"b.cml">>, <<>>}
Given(lines, contents) ==
  {[argv |-> line, disk |-> "a.cml" :> s] : line \in lines, s \in contents}
AllRuns ==
  Given(Lines, {Printed(val_ret_0)}) \union
  Given({<<"a.cml">>}, Wrongs \union
        {Printed(file) : file \in Returning \union Calling \union Dumped}) \union
  Given({<<"--irep", "a.cml">>, <<"--ast", "a.cml">>},
        Wrongs \union {Printed(file) : file \in Dumped}) \union
  Given({<<"--syms", "--irep", "a.cml">>}, {Printed(file) : file \in Samples})

PtrDumped == Given({<<"--ast", "a.cml">>}, {Printed(val_ptr1)})
=============================================================================
