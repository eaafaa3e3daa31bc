---------------------------- MODULE CompilerTrees ----------------------------
(***************************************************************************)
(* Compiler on trees: what is recursive over them, and the properties that *)
(* relate a source, as a tree, to what cmlc does in the end.               *)
(***************************************************************************)
EXTENDS Compiler, Typing

Text == INSTANCE CText

\* typeget of an assignment is the one of its destination; before ast_desug
\* the one of * and & is NULL, which type2str does not take.
RECURSIVE Untyped(_)
Untyped(e) == e.op \in Unary \/ (e.op = "assign" /\ Untyped(e.dest))

-----------------------------------------------------------------------------
(* The tree that ast_desug leaves: names are keys now, and every            *)
(* declaration has the Type object that * and & have worked on.             *)

RECURSIVE KeyedExpr(_, _)
KeyedExpr(c, e) ==
  CASE e.op = "lit" -> e
    [] e.op = "ident" -> Ident(DesugKey(c, e.name))
    [] e.op \in Unary -> [e EXCEPT !.value = KeyedExpr(c, @)]
    [] e.op \in Binary -> [e EXCEPT !.lhs = KeyedExpr(c, @), !.rhs = KeyedExpr(c, @)]
    [] e.op = "assign" -> Assign(KeyedExpr(c, e.dest), KeyedExpr(c, e.value))
    [] e.op = "call" -> Call(e.name, [i \in DOMAIN e.args |-> KeyedExpr(c, e.args[i])])

\* left[k] is the type of the k-th declaration of the file.
KeyedVar(c, v, type) ==
  Var(type, DesugKey(c, v.name), [i \in DOMAIN v.init |-> KeyedExpr(c, v.init[i])])
KeyedFun(f, n, left) ==
  LET c == <<FileFrame(0), FunFrame(f.name, 0)>>
      local(k) == n + Len(f.params) +
                  Cardinality({j \in 1..k : f.body[j].op = "var"})
      stmt(k) == LET s == f.body[k]
                 IN  CASE s.op = "var" -> KeyedVar(c, s, left[local(k)])
                       [] s.op = "return" -> Return(KeyedExpr(c, s.value))
                       [] OTHER -> KeyedExpr(c, s)
  IN  Fun(left[n], f.name,
          [j \in DOMAIN f.params |-> KeyedVar(c, f.params[j], left[n + j])],
          [k \in DOMAIN f.body |-> stmt(k)])

Declared(d) == IF d.op = "var" THEN 1 ELSE 1 + Len(Locals(d))
KeyedFile(file, left) ==
  [i \in DOMAIN file |->
     LET n == 1 + FoldLeft(LAMBDA sum, d : sum + Declared(d), 0, SubSeq(file, 1, i - 1))
     IN  IF file[i].op = "fun" THEN KeyedFun(file[i], n, left)
         ELSE KeyedVar(<<FileFrame(0)>>, file[i], left[n])]

-----------------------------------------------------------------------------
(* Properties. *)

\* What may kill cmlc on a file that is to be accepted: a return of * or & with
\* --ast, a char behind & with --irep, a second key in the table of symbols where
\* that is dumped or freed, and no $PWD to write to.
ReturnsUntyped == \E e \in Returns(source.file) : Untyped(e)
RefersToChar ==
  \E i \in DOMAIN source.file : \E e \in ToSet(AllParts(source.file[i])) :
    e.op = "ref" /\ OwnerOf(e) = CharLit
SeveralKeys == Cardinality(ToSet(Parsing!KeysOf(source.file))) > 1
MayBeKilled ==
  IF Driving!Asked("--ast") THEN ReturnsUntyped
  ELSE \/ Driving!Asked("--irep") /\ RefersToChar
       \/ (Driving!Asked("--syms") \/ ~Driving!Asked("--irep")) /\ SeveralKeys
       \/ ~Driving!Asked("--irep") /\ opts.fout = NoPath

\* The exit status tells whether the file is to be accepted, a dump of the tree
\* asking less of it than C does: 0 only if it is; 1 only if it is not, or if the
\* output cannot be opened; and nothing but the above kills cmlc on such a file.
Accepted == source.grammatical /\ (Driving!Asked("--ast") \/ WellTyped(source.file))
OutputRefused == typing = "accepted" /\ ~Driving!Asked("--irep") /\ out = <<>>
ExitIsVerdict ==
  phase = "exit" /\ source # NoSource /\ Unshared(source.file) /\ OwnKeys(source.file) =>
    CASE status = 0 -> Accepted
      [] status = 1 -> Accepted => OutputRefused
      [] status = -1 -> Accepted => MayBeKilled

\* The trees that C text can be written for without brackets and without the
\* end of a statement (ast_build.c lets them through, c_backend.c does not look):
\* only an assignment ends its statement, it stands at its end, no & stands
\* directly in another, there are no strings, and no parameter is initialised.
RECURSIVE Plain(_)
Plain(e) ==
  /\ e.op # "assign" /\ e # StrLit
  /\ ~(e.op = "ref" /\ e.value.op = "ref")
  /\ \A i \in DOMAIN Inside(e) : Plain(Inside(e)[i])
RECURSIVE EndsStatement(_)
EndsStatement(e) == IF e.op = "assign" THEN e.dest.op \notin Binary /\ Plain(e.dest) /\ EndsStatement(e.value)
                               ELSE Plain(e)
Emittable(file) ==
  \A i \in DOMAIN file :
    LET d == file[i]
        stmts == StmtsOf(d)
    IN  \A j \in DOMAIN stmts :
          CASE d.op = "fun" /\ j <= Len(d.params) -> stmts[j].init = <<>>
            [] stmts[j].op = "var" -> \A k \in DOMAIN stmts[j].init : EndsStatement(stmts[j].init[k])
            [] stmts[j].op = "return" -> EndsStatement(stmts[j].value)
            [] OTHER -> stmts[j].op = "assign" /\ EndsStatement(stmts[j])

\* The output, read as C, is the file that was given: its declarations in their
\* order, parameters as parameters and variables as variables, every operator
\* with its operands, and the types as ast_desug has left them.
OutputIsTheSource ==
  phase = "emit" /\ todo = <<>> /\ Emittable(source.file) =>
    Text!Says(KeyedFile(source.file, TypesLeft))
=============================================================================
