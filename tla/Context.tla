------------------------------ MODULE Context -------------------------------
(***************************************************************************)
(* The stack of enclosing declarations and the symbol table of context.c.  *)
(*                                                                         *)
(* A name is the sequence of the pieces between its underscores: main is   *)
(* <<"main">>, f_x is <<"f", "x">>.  Joining names with "_" is then the    *)
(* concatenation of sequences, and a leading "_" is an empty first piece.  *)
(***************************************************************************)
EXTENDS Integers, Sequences, SequencesExt

CONSTANT MAX_CONTEXT
ASSUME ContextAssumption == MAX_CONTEXT \in Nat \ {0}

VARIABLES
  ctx,       \* ctx_stack: the names and the nodes of the open declarations
  symbols    \* the table of symbols: a function from the keys to the nodes

\* The file module has no name in a key (its name starts with '/').
FileFrame(node) == [name |-> <<>>, node |-> node]
FunFrame(name, node) == [name |-> name, node |-> node]

CtxFullLate == Len(ctx) > MAX_CONTEXT        \* mutant: one frame too many
CtxFull == Len(ctx) >= MAX_CONTEXT
ctx_push(frame) == ctx' = Append(ctx, frame)
ctx_pop == ctx' = Front(ctx)
ctx_peek == Last(ctx)
ctx_currname(c) == FlattenSeq([i \in DOMAIN c |-> c[i].name])

\* ast_build.c puts a "_" after a name that is not empty, ast_desug.c always.
KeyWithoutContext(c, name) == name           \* mutant
ParseKey(c, name) == ctx_currname(c) \o name
DesugKey(c, name) ==
  (IF ctx_currname(c) = <<>> THEN <<"">> ELSE ctx_currname(c)) \o name

\* The first binding of a key wins (Dictionary): no caller looks whether there
\* was one before.
AddSymbolOver(key, node) ==          \* mutant: the last binding wins
  symbols' = [k \in DOMAIN symbols \union {key} |->
                IF k = key THEN node ELSE symbols[k]]
add_symbol(key, node) ==
  symbols' = [k \in DOMAIN symbols \union {key} |->
                IF k \in DOMAIN symbols THEN symbols[k] ELSE node]
is_symbol(key) == key \in DOMAIN symbols
=============================================================================
