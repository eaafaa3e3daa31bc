------------------------------- MODULE Syntax -------------------------------
(***************************************************************************)
(* The nodes of the syntax tree, as new_node of ast_build.c and the        *)
(* parse_* functions that call it fill them.  A tree is a value; what      *)
(* makes two nodes different is left to the modules that need it.          *)
(***************************************************************************)
EXTENDS Types, Sequences

Lit(type) == [op |-> "lit", type |-> type]
Ident(name) == [op |-> "ident", name |-> name]
Add(l, r) == [op |-> "add", lhs |-> l, rhs |-> r]
Mul(l, r) == [op |-> "mul", lhs |-> l, rhs |-> r]
Deref(e) == [op |-> "deref", value |-> e]
Ref(e) == [op |-> "ref", value |-> e]
Assign(d, v) == [op |-> "assign", dest |-> d, value |-> v]
Call(name, args) == [op |-> "call", name |-> name, args |-> args]

\* init is a sequence of at most one expression.
Var(type, name, init) ==
  [op |-> "var", type |-> type, name |-> name, init |-> init]
Fun(type, name, params, body) ==
  [op |-> "fun", type |-> type, name |-> name, params |-> params, body |-> body]
Return(e) == [op |-> "return", value |-> e]

\* What parse_lit makes of 1, 'c' and "s".
IntLit == Lit(Type(VT_INT, 0))
CharLit == Lit(Type(VT_CHAR, 0))
StrLit == Lit(Type(VT_CHAR, 1))

Unary == {"deref", "ref"}
Binary == {"add", "mul"}
Expressions == {"lit", "ident", "assign", "call"} \union Unary \union Binary
=============================================================================
