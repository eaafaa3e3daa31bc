-------------------------------- MODULE Ast ---------------------------------
(***************************************************************************)
(* The order in which ast_desug_node visits the syntax tree of a file (the *)
(* input of Desugar).                                                      *)
(***************************************************************************)
EXTENDS Syntax, SequencesExt

Concat(seq, Op(_)) == FlattenSeq([i \in DOMAIN seq |-> Op(seq[i])])

\* The expressions directly inside an expression, in the order of the visits.
Inside(e) ==
  CASE e.op \in {"lit", "ident"} -> <<>>
    [] e.op \in Unary -> <<e.value>>
    [] e.op \in Binary -> <<e.lhs, e.rhs>>
    [] e.op = "assign" -> <<e.dest, e.value>>
    [] e.op = "call" -> e.args

RECURSIVE Visits(_)
Visits(n) ==
  LET then(op) == <<[op |-> op]>>
      arg(i) == Visits(n.args[i]) \o <<[op |-> "arg", i |-> i]>>
      var == [op |-> "var", type |-> n.type, name |-> n.name,
              init |-> n.init # <<>>]
      enter == [op |-> "enter", type |-> n.type, name |-> n.name,
                argc |-> Len(n.params)]
      call == [op |-> "call", name |-> n.name, argc |-> Len(n.args)]
      stmt(s) == Visits(s) \o (IF s.op \in Expressions THEN then("next") ELSE <<>>)
  IN  CASE n.op \in {"lit", "ident"} -> <<n>>
        [] n.op \in Unary \union Binary \union {"assign"} ->
             Concat(Inside(n), Visits) \o then(n.op)
        [] n.op = "call" ->
             <<call>> \o FlattenSeq([i \in DOMAIN n.args |-> arg(i)]) \o then("called")
        [] n.op = "var" ->
             <<var>> \o IF n.init = <<>> THEN <<>>
                                         ELSE Visits(n.init[1]) \o then("inited")
        [] n.op = "return" -> Visits(n.value) \o then("return")
        [] n.op = "fun" ->
             <<enter>> \o Concat(n.params, Visits) \o Concat(n.body, stmt)
               \o then("leave")

\* A file is the sequence of its declarations.
FileVisits(file) == <<[op |-> "file"]>> \o Concat(file, Visits) \o <<[op |-> "eof"]>>
Program(file) == [file |-> file, code |-> FileVisits(file)]
=============================================================================
