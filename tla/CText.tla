------------------------------- MODULE CText --------------------------------
(***************************************************************************)
(* What C reads in the output of Backend, as the relation between a tree   *)
(* and the tokens it may stand for; stated with the precedences of C, not  *)
(* with the order in which Backend writes.                                 *)
(***************************************************************************)
EXTENDS Backend, Reading

S(s, i) == IF i \in DOMAIN out /\ out[i] = Sym(s) THEN {i + 1} ELSE {}
Named(name, i) == IF i \in DOMAIN out /\ out[i] = Id(name) THEN {i + 1} ELSE {}
Comma(i) == S(",", i)
Plus(i) == S("+", i)

\* The sums of CML group to the right, the ones of C to the left; what is added
\* up is the same.
RECURSIVE Summands(_)
Summands(e) == IF e.op = "add" THEN Summands(e.lhs) \o Summands(e.rhs) ELSE <<e>>

RECURSIVE ExprEnds(_, _)
RECURSIVE UnaryEnds(_, _)
RECURSIVE ProductEnds(_, _)

UnaryEnds(e, i) ==
  CASE e.op = "deref" -> Then(S("*", i), LAMBDA j : UnaryEnds(e.value, j))
    [] e.op = "ref" -> Then(S("&", i), LAMBDA j : UnaryEnds(e.value, j))
    [] e.op = "ident" -> Named(e.name, i)
    [] e.op = "lit" -> IF i \in DOMAIN out /\ out[i] = Number THEN {i + 1} ELSE {}
    [] e.op = "call" ->
         Then(Then(Then(Named(e.name, i), LAMBDA j : S("(", j)),
                   LAMBDA j : Separated(e.args, ExprEnds, Comma, j)),
              LAMBDA j : S(")", j))
    [] OTHER -> {}

ProductEnds(e, i) ==
  IF e.op = "mul"
  THEN Then(Then(ProductEnds(e.lhs, i), LAMBDA j : S("*", j)),
            LAMBDA j : UnaryEnds(e.rhs, j))
  ELSE UnaryEnds(e, i)

ExprEnds(e, i) ==
  IF e.op = "assign"
  THEN Then(Then(UnaryEnds(e.dest, i), LAMBDA j : S("=", j)),
            LAMBDA j : ExprEnds(e.value, j))
  ELSE Separated(Summands(e), ProductEnds, Plus, i)

TypeEnds(t, i) ==
  LET end == i + t.refc + 1
  IN  IF end - 1 \in DOMAIN out /\ SubSeq(out, i, end - 1) = type2crep(t)
      THEN {end} ELSE {}

\* A statement may be followed by empty ones.
SemisEnd(i) == {j \in i + 1..Len(out) + 1 : \A k \in i..j - 1 : out[k] = Sym(";")}

ParamEnds(v, i) == Then(TypeEnds(v.type, i), LAMBDA j : Named(v.name, j))
VarEnds(v, i) ==
  LET init(e, k) == Then(S("=", k), LAMBDA j : ExprEnds(e, j))
  IN  Then(Then(ParamEnds(v, i), LAMBDA j : InTurn(v.init, init, j)), SemisEnd)

StmtEnds(s, i) ==
  CASE s.op = "var" -> VarEnds(s, i)
    [] s.op = "return" ->
         Then(Then(S("return", i), LAMBDA j : ExprEnds(s.value, j)), SemisEnd)
    [] OTHER -> Then(ExprEnds(s, i), SemisEnd)

ParamsEnd(params, i) ==
  IF params = <<>> THEN S("void", i) ELSE Separated(params, ParamEnds, Comma, i)

FunEnds(f, i) ==
  LET header == Then(ParamEnds(f, i), LAMBDA j : S("(", j))
      params == Then(Then(header, LAMBDA j : ParamsEnd(f.params, j)),
                     LAMBDA j : S(")", j))
      body == Then(Then(params, LAMBDA j : S("{", j)),
                   LAMBDA j : InTurn(f.body, StmtEnds, j))
  IN  Then(body, LAMBDA j : S("}", j))

DeclEnds(d, i) == IF d.op = "fun" THEN FunEnds(d, i) ELSE VarEnds(d, i)

\* The output is C for this file.
Says(file) == Len(out) + 1 \in InTurn(file, DeclEnds, 1)
=============================================================================
