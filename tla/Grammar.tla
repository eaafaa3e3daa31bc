------------------------------ MODULE Grammar -------------------------------
(***************************************************************************)
(* The grammar of CML, as the relation between a syntax tree and the       *)
(* tokens it stands for, against which the trees of Parser are checked.    *)
(* XEnds(n, i) is the set of positions behind the tokens of n, if these    *)
(* begin at position i of what was read; it is empty if other tokens stand *)
(* there.  The grammar is the one of ast_build.c, with its oddities:       *)
(*   - a name is any token, and so is a type: a constant stands for its    *)
(*     type, every other word for a type that is not resolved;             *)
(*   - + and = bind alike, to the right; * binds closer, to the left;      *)
(*   - commas between parameters, and behind the last argument, may miss   *)
(*     or be there;                                                        *)
(*   - an initialiser in the file may end with ")" or "," for ";", and one *)
(*     of a parameter needs a parameter that is called "=".                *)
(***************************************************************************)
EXTENDS Parser, Reading

Tok(S, i) == IF i \in DOMAIN read /\ read[i].kind # "END" /\ read[i].idx \in S
             THEN {i + 1} ELSE {}
Name(name, i) == IF i \in DOMAIN read /\ read[i].kind # "END" /\ read[i].text = name
                 THEN {i + 1} ELSE {}

RECURSIVE ExprEnds(_, _)
RECURSIVE UnaryEnds(_, _)

ArgEnds(e, i) == Then(ExprEnds(e, i), LAMBDA j : IF read[j].idx = "," THEN {j + 1}
                                       ELSE IF read[j].idx = ")" THEN {j} ELSE {})
UnaryEnds(e, i) ==
  CASE e.op = "deref" -> Then(Tok({"*"}, i), LAMBDA j : UnaryEnds(e.value, j))
    [] e.op = "ref" -> Then(Tok({"&"}, i), LAMBDA j : UnaryEnds(e.value, j))
    [] e.op = "ident" -> Name(e.name, i) \intersect Tok({"IDENT"}, i)
    [] e.op = "lit" -> Tok({c \in Constants : LitOf(c) = e}, i)
    [] e.op = "call" ->
         LET open == Then(Name(e.name, i) \intersect Tok({"IDENT"}, i),
                          LAMBDA j : Tok({"("}, j))
         IN  Then(Then(open, LAMBDA j : InTurn(e.args, ArgEnds, j)),
                  LAMBDA j : Tok({")"}, j))
    [] OTHER -> {}

RECURSIVE ProductEnds(_, _)
ProductEnds(e, i) ==
  IF e.op = "mul"
  THEN Then(Then(ProductEnds(e.lhs, i), LAMBDA j : Tok({"*"}, j)),
            LAMBDA j : UnaryEnds(e.rhs, j))
  ELSE UnaryEnds(e, i)

ExprEnds(e, i) ==
  CASE e.op = "add" -> Then(Then(ProductEnds(e.lhs, i), LAMBDA j : Tok({"+"}, j)),
                            LAMBDA j : ExprEnds(e.rhs, j))
    [] e.op = "assign" -> Then(Then(ProductEnds(e.dest, i), LAMBDA j : Tok({"="}, j)),
                               LAMBDA j : ExprEnds(e.value, j))
    [] OTHER -> ProductEnds(e, i)

TypeEnds(t, i) ==
  LET base == i + t.refc
  IN  IF /\ base \in DOMAIN read
         /\ \A j \in i..base - 1 : read[j].idx = "&"
         /\ read[base].kind # "END" /\ read[base].idx # "&"
         /\ BaseId(read[base].idx) = t.id
      THEN {base + 1} ELSE {}

\* What follows the name of a variable.
InitEnds(v, closing, i) ==
  IF v.init = <<>> THEN Tok({";"}, i)
  ELSE Then(Then(Tok({"="}, i), LAMBDA j : ExprEnds(v.init[1], j)),
            LAMBDA j : Tok(closing, j))
VarEnds(v, closing, i) ==
  Then(Then(TypeEnds(v.type, i), LAMBDA j : Name(v.name, j)),
       LAMBDA j : InitEnds(v, closing, j))

ParamEnds(v, i) ==
  IF Tok({")"}, i) # {} THEN {}
  ELSE LET named == Then(TypeEnds(v.type, i), LAMBDA j : Name(v.name, j))
           full == IF v.init = <<>> THEN named
                   ELSE Then(Then({j - 1 : j \in named},
                                  LAMBDA j : InitEnds(v, Stops, j)),
                             LAMBDA j : {j})
       IN  Then(full, LAMBDA j : IF read[j].idx = "," THEN {j + 1} ELSE {j})

StmtEnds(s, i) ==
  CASE s.op = "var" ->
         IF Tok(TypeStarts, i) = {} THEN {} ELSE VarEnds(s, {";"}, i)
    [] s.op = "return" -> Then(Then(Tok({"return"}, i), LAMBDA j : ExprEnds(s.value, j)),
                               LAMBDA j : Tok({";"}, j))
    [] s.op \in Expressions ->
         IF Tok({"IDENT", "*"}, i) = {} THEN {}
         ELSE Then(ExprEnds(s, i), LAMBDA j : Tok({";"}, j))
    [] OTHER -> {}

FunEnds(f, i) ==
  LET open == Then(Then(TypeEnds(f.type, i), LAMBDA j : Name(f.name, j)),
                   LAMBDA j : Tok({"("}, j))
      params == Then(Then(open, LAMBDA j : InTurn(f.params, ParamEnds, j)),
                     LAMBDA j : Tok({")"}, j))
  IN  Then(Then(params, LAMBDA j : InTurn(f.body, StmtEnds, j)),
           LAMBDA j : Tok({"end"}, j))

DeclEnds(d, i) == IF Tok({"int", "&", "IDENT"}, i) = {} THEN {}
                  ELSE IF d.op = "fun" THEN FunEnds(d, i) ELSE VarEnds(d, Stops, i)

\* A file that is parsed has been read to its end, and the tree that is handed
\* on is the one the grammar gives these tokens: nothing of the file is lost,
\* nothing is made up at its end (whose token has the index of "int"), and no
\* operator has the wrong operands.  The grammar gives a file one tree at most.
TreeIsTheFile ==
  verdict = "parsed" => AtEnd /\ Len(read) \in InTurn(file, DeclEnds, 1)
=============================================================================
