------------------------------- MODULE Typing -------------------------------
(***************************************************************************)
(* What the compiler is meant to decide of a file, stated over its syntax  *)
(* tree and without symbol table, context stack or mutable Type objects: a *)
(* name means its first declaration in the function around it, a function  *)
(* its first declaration in the file, and the type of a declaration is the *)
(* one written there.                                                      *)
(***************************************************************************)
EXTENDS Ast, FiniteSets

NoType == Type(-1, 0)
Typed(t) == t.id # NoType.id
Resolved(t) == t.id # UNRESOLVED

\* A value goes where an int is due if it is a char, at the same depth.
Fits(target, value) ==
  target.id = VT_INT /\ value.id = VT_CHAR /\ target.refc = value.refc

Named(decls, name) == SelectSeq(decls, LAMBDA d : d.name = name)
IsVar(s) == s.op = "var"
Locals(fun) == fun.params \o SelectSeq(fun.body, IsVar)
StmtsOf(d) == IF d.op = "fun" THEN d.params \o d.body ELSE <<d>>

\* The type of an expression among these local declarations of a file, or
\* NoType.
RECURSIVE TypeIn(_, _, _)
TypeIn(file, locals, e) ==
  LET T(x) == TypeIn(file, locals, x)
      callee == Named(file, e.name)[1]
  IN  CASE e.op = "lit" -> e.type
        [] e.op = "ident" ->
             IF Named(locals, e.name) = <<>> THEN NoType
                                             ELSE Named(locals, e.name)[1].type
        [] e.op = "add" ->
             IF Typed(T(e.lhs)) /\ Typed(T(e.rhs)) THEN T(e.lhs) ELSE NoType
        [] e.op = "mul" ->
             IF T(e.lhs) = Type(VT_INT, 0) /\ T(e.rhs) = Type(VT_INT, 0)
             THEN Type(VT_INT, 0) ELSE NoType
        [] e.op = "deref" ->
             IF Typed(T(e.value)) /\ T(e.value).refc > 0
             THEN Type(T(e.value).id, T(e.value).refc - 1) ELSE NoType
        [] e.op = "ref" ->
             IF Typed(T(e.value)) /\ ~(e.value.op = "lit" /\ T(e.value).id = VT_INT)
             THEN Type(T(e.value).id, T(e.value).refc + 1) ELSE NoType
        [] e.op = "assign" ->
             IF Fits(T(e.dest), T(e.value)) THEN T(e.dest) ELSE NoType
        [] e.op = "call" ->
             IF /\ Named(file, e.name) # <<>>
                /\ callee.op = "fun"
                /\ Len(callee.params) = Len(e.args)
                /\ \A i \in DOMAIN e.args : Fits(callee.params[i].type, T(e.args[i]))
             THEN callee.type ELSE NoType

WellTypedVar(file, locals, v) ==
  /\ Resolved(v.type)
  /\ \A i \in DOMAIN v.init : TypeIn(file, locals, v.init[i]) = v.type

WellTypedStmt(file, fun, s) ==
  CASE s.op = "var" -> WellTypedVar(file, Locals(fun), s)
    [] s.op = "return" ->
         /\ Resolved(fun.type)
         /\ TypeIn(file, Locals(fun), s.value) = fun.type
    [] s.op = "fun" -> FALSE
    [] OTHER -> Typed(TypeIn(file, Locals(fun), s))

WellTyped(file) ==
  \A i \in DOMAIN file :
    LET d == file[i]
    IN  /\ d.type # Type(VT_CHAR, 0)
        /\ d.op = "var" => WellTypedVar(file, <<>>, d)
        /\ d.op = "fun" =>
             \A j \in DOMAIN StmtsOf(d) : WellTypedStmt(file, d, StmtsOf(d)[j])

-----------------------------------------------------------------------------
(* The files whose names and types do not get in the way of one another.   *)

\* The expression and all inside it.
RECURSIVE Parts(_)
Parts(e) == <<e>> \o Concat(Inside(e), Parts)

Exprs(s) == CASE s.op = "var" -> Concat(s.init, Parts)
              [] s.op = "return" -> Parts(s.value)
              [] s.op = "fun" -> <<>>
              [] OTHER -> Parts(s)
AllParts(d) == Concat(StmtsOf(d), Exprs)

\* The node whose Type object typeget returns for an expression.
RECURSIVE OwnerOf(_)
OwnerOf(e) == CASE e.op \in {"lit", "ident", "call"} -> e
                [] e.op \in Unary -> OwnerOf(e.value)
                [] e.op \in Binary -> OwnerOf(e.lhs)
                [] e.op = "assign" -> OwnerOf(e.dest)

\* The Type objects that a declaration changes are read nowhere else: they are of
\* literals, or of variables that stand in one place only, are no parameters (a
\* call reads those) and are initialised, if at all, in an earlier statement (the
\* check of an initialiser reads the type of its variable).
Unshared(file) ==
  \A i \in DOMAIN file :
    LET stmts == StmtsOf(file[i])
        parts == AllParts(file[i])
        changed == {OwnerOf(e) : e \in {p \in ToSet(parts) : p.op \in Unary}}
        uses(n) == {j \in DOMAIN parts : parts[j] = n}
        usedIn(n) == {k \in DOMAIN stmts : n \in ToSet(Exprs(stmts[k]))}
        inits(n) == {k \in DOMAIN stmts : /\ stmts[k].op = "var" /\ stmts[k].name = n.name
                                          /\ stmts[k].init # <<>>}
    IN  \A n \in changed :
          \/ n.op = "lit"
          \/ /\ n.op = "ident" /\ file[i].op = "fun"
             /\ Cardinality(uses(n)) = 1
             /\ Named(file[i].params, n.name) = <<>>
             /\ \A k \in inits(n), u \in usedIn(n) : k < u

\* The declarations of a file with this key: those at file level, and the
\* functions with such a local.
AtFile(file, key) == {i \in DOMAIN file : file[i].name = key}
InFunctions(file, key) ==
  {i \in DOMAIN file : /\ file[i].op = "fun"
                       /\ \E v \in ToSet(Locals(file[i])) : file[i].name \o v.name = key}

\* What is used has a key that only its own declarations have: a name in a
\* function f no other than the locals of this f, a called name only what
\* stands in the file.
OwnKeys(file) ==
  \A i \in DOMAIN file :
    LET isFun == file[i].op = "fun"
        key(e) == (IF isFun THEN file[i].name ELSE <<"">>) \o e.name
    IN  \A e \in ToSet(AllParts(file[i])) :
          /\ e.op = "call" => InFunctions(file, e.name) = {}
          /\ e.op = "ident" =>
               /\ AtFile(file, key(e)) = {}
               /\ InFunctions(file, key(e)) \subseteq (IF isFun THEN {i} ELSE {})
=============================================================================
