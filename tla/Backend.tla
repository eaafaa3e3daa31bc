------------------------------ MODULE Backend -------------------------------
(***************************************************************************)
(* The emission of C (c_backend.c).  The calls of bk_c_emit_* functions    *)
(* that are open are a list of what is still to be done: the nodes to emit *)
(* and, between them, the tokens that follow the return of a call, the     *)
(* loops over the rest of a list of nodes, and the ends of calls that do   *)
(* more than write.  A step is a function up to its first call, a turn of  *)
(* a loop, or what stands between two calls.                               *)
(*                                                                         *)
(* The output is a sequence of C tokens, cut as a C compiler cuts it;      *)
(* layout is left out.  The tree is the one ast_desug leaves, with the     *)
(* names of variables prefixed.                                            *)
(***************************************************************************)
EXTENDS Context, Syntax

VARIABLES
  todo,    \* what is to come, the next one first
  out,     \* the tokens written
  argc     \* argc of every function emitted so far, as the emission changes it

bkVars == <<todo, out, argc, ctx, symbols>>

Sym(s) == [is |-> "sym", text |-> <<s>>]
Id(name) == [is |-> "id", text |-> name]
Number == [is |-> "num", text |-> <<>>]

\* Only the operators of bk_c_emit_unop are written without a space behind.
Put(text, tok) ==
  IF tok = Sym("&") /\ text # <<>> /\ Last(text) = tok
  THEN Append(Front(text), Sym("&&"))
  ELSE Append(text, tok)
fprintf(toks) == out' = FoldLeft(Put, out, toks)

type2crep(t) ==
  <<CASE t.id = UNRESOLVED -> Id(<<"unresolved">>)
      [] t.id = VT_INT -> Sym("int")
      [] t.id = VT_CHAR -> Sym("char")>> \o [i \in 1..t.refc |-> Sym("*")]

Node(n) == [is |-> "node", node |-> n]
Text(toks) == [is |-> "text", toks |-> toks]
Each(nodes, sep) == [is |-> "loop", nodes |-> nodes, sep |-> sep]
End(op) == [is |-> "end", op |-> op]
Module(nodes) == [op |-> "module", nodes |-> nodes]

Emits(kind) == todo # <<>> /\ Head(todo).is = kind
Root == Head(todo).node
EmitsNode(op) == Emits("node") /\ Root.op = op
EmitsEnd(op) == Emits("end") /\ Head(todo).op = op
Continue(items) == todo' = items \o Tail(todo)

EmitText ==
  /\ Emits("text")
  /\ fprintf(Head(todo).toks)
  /\ Continue(<<>>)
  /\ UNCHANGED <<argc, ctx, symbols>>

\* A turn of a loop over the nodes of a module, a function or a call: sep comes
\* between them.
EmitLoop ==
  /\ Emits("loop")
  /\ LET nodes == Head(todo).nodes
         sep == Head(todo).sep
     IN  Continue(IF nodes = <<>> THEN <<>>
                  ELSE <<Node(Head(nodes)), Text(IF Len(nodes) > 1 THEN sep ELSE <<>>),
                         Each(Tail(nodes), sep)>>)
  /\ UNCHANGED <<out, argc, ctx, symbols>>

-----------------------------------------------------------------------------
EmitIdent ==
  /\ EmitsNode("ident")
  /\ fprintf(<<Id(Root.name)>>)
  /\ Continue(<<>>)
  /\ UNCHANGED <<argc, ctx, symbols>>

\* %d of the union, whatever it holds: an int, the code of a char, or what an
\* int sees of the address of a string.
EmitLiteral ==
  /\ EmitsNode("lit")
  /\ fprintf(<<Number>>)
  /\ Continue(<<>>)
  /\ UNCHANGED <<argc, ctx, symbols>>

BinopOf(op) == IF op = "add" THEN Sym("+") ELSE Sym("*")

BinopSwapped ==          \* mutant: the right side first
  /\ EmitsNode("add") \/ EmitsNode("mul")
  /\ Continue(<<Node(Root.rhs), Text(<<BinopOf(Root.op)>>), Node(Root.lhs)>>)
  /\ UNCHANGED <<out, argc, ctx, symbols>>

EmitBinop ==
  /\ EmitsNode("add") \/ EmitsNode("mul")
  /\ Continue(<<Node(Root.lhs), Text(<<BinopOf(Root.op)>>), Node(Root.rhs)>>)
  /\ UNCHANGED <<out, argc, ctx, symbols>>

EmitUnop ==
  /\ EmitsNode("deref") \/ EmitsNode("ref")
  /\ fprintf(<<IF Root.op = "deref" THEN Sym("*") ELSE Sym("&")>>)
  /\ Continue(<<Node(Root.value)>>)
  /\ UNCHANGED <<argc, ctx, symbols>>

\* An assignment is always taken for a statement.
EmitAssign ==
  /\ EmitsNode("assign")
  /\ Continue(<<Node(Root.dest), Text(<<Sym("=")>>), Node(Root.value), Text(<<Sym(";")>>)>>)
  /\ UNCHANGED <<out, argc, ctx, symbols>>

EmitFuncall ==
  /\ EmitsNode("call")
  /\ fprintf(<<Id(Root.name), Sym("(")>>)
  /\ Continue(<<Each(Root.args, <<Sym(",")>>), Text(<<Sym(")")>>)>>)
  /\ UNCHANGED <<argc, ctx, symbols>>

EmitReturn ==
  /\ EmitsNode("return")
  /\ fprintf(<<Sym("return")>>)
  /\ Continue(<<Node(Root.value), Text(<<Sym(";")>>)>>)
  /\ UNCHANGED <<argc, ctx, symbols>>

-----------------------------------------------------------------------------
EmitVdecl ==
  /\ EmitsNode("var")
  /\ fprintf(type2crep(Root.type) \o <<Id(Root.name)>> \o
             [i \in DOMAIN Root.init |-> Sym("=")])
  /\ Continue(<<Each(Root.init, <<>>), End("var")>>)
  /\ UNCHANGED <<argc, ctx, symbols>>

\* What follows a declaration depends on how many parameters the innermost
\* function is still short of, which is counted down in its node.
Missing == IF ctx_peek.node = 0 THEN 0 ELSE argc[ctx_peek.node]

VdeclEndCounts ==        \* mutant: the parameter is counted before the test
  /\ EmitsEnd("var")
  /\ IF Missing > 0
     THEN /\ fprintf(IF Missing > 2 THEN <<Sym(",")>> ELSE <<>>)
          /\ argc' = [argc EXCEPT ![ctx_peek.node] = @ - 1]
     ELSE fprintf(<<Sym(";")>>) /\ UNCHANGED argc
  /\ Continue(<<>>)
  /\ UNCHANGED <<ctx, symbols>>

EmitVdeclEnd ==
  /\ EmitsEnd("var")
  /\ IF Missing > 0
     THEN /\ fprintf(IF Missing > 1 THEN <<Sym(",")>> ELSE <<>>)
          /\ argc' = [argc EXCEPT ![ctx_peek.node] = @ - 1]
     ELSE fprintf(<<Sym(";")>>) /\ UNCHANGED argc
  /\ Continue(<<>>)
  /\ UNCHANGED <<ctx, symbols>>

\* The parser lets no function stand in another, so that ctx_push cannot fail.
EmitFunction ==
  /\ EmitsNode("fun")
  /\ ~CtxFull
  /\ LET noParams == Root.params = <<>>
         open == IF noParams THEN <<Sym("void"), Sym(")"), Sym("{")>> ELSE <<>>
         close == IF noParams THEN <<>> ELSE <<Sym(")"), Sym("{")>>
     IN  /\ fprintf(type2crep(Root.type) \o <<Id(Root.name), Sym("(")>> \o open)
         /\ Continue(<<Each(Root.params, <<>>), Text(close), Each(Root.body, <<>>), End("fun")>>)
  /\ argc' = Append(argc, Len(Root.params))
  /\ ctx_push(FunFrame(Root.name, Len(argc')))
  /\ UNCHANGED symbols

EmitFunctionEnd ==
  /\ EmitsEnd("fun")
  /\ ctx_pop
  /\ fprintf(<<Sym("}")>>)
  /\ Continue(<<>>)
  /\ UNCHANGED <<argc, symbols>>

EmitModule ==
  /\ EmitsNode("module")
  /\ ~CtxFull
  /\ ctx_push(FileFrame(0))
  /\ Continue(<<Each(Root.nodes, <<>>), End("module")>>)
  /\ UNCHANGED <<out, argc, symbols>>

EmitModuleEnd ==
  /\ EmitsEnd("module")
  /\ ctx_pop
  /\ Continue(<<>>)
  /\ UNCHANGED <<out, argc, symbols>>

Emit == \/ EmitText \/ EmitLoop \/ EmitIdent \/ EmitLiteral \/ EmitBinop \/ EmitUnop
        \/ EmitAssign \/ EmitFuncall \/ EmitReturn \/ EmitVdecl \/ EmitVdeclEnd
        \/ EmitFunction \/ EmitFunctionEnd \/ EmitModule \/ EmitModuleEnd

\* bk_c_emit: the table of symbols is emptied before the output is opened.
OpenOutput(nodes) ==
  /\ todo = <<>> /\ out = <<>> /\ argc = <<>>
  /\ symbols' = <<>>
  /\ todo' = <<Node(Module(nodes))>>
  /\ UNCHANGED <<out, argc, ctx>>
=============================================================================
