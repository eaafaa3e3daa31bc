------------------------------- MODULE Scopes -------------------------------
(***************************************************************************)
(* What context.c promises to its users: scopes are entered and left like  *)
(* brackets, a declaration gets the key of the scope it stands in, the     *)
(* first of two declarations with one key wins, and no binding is lost     *)
(* while a scope is open.  The passes of the compiler implement it.        *)
(***************************************************************************)
EXTENDS Context

CONSTANT Names      \* what may be declared

Init == ctx = <<>> /\ symbols = <<>>

Binds(key, node) ==
  IF key \in DOMAIN symbols
  THEN UNCHANGED symbols
  ELSE symbols' = [k \in DOMAIN symbols \union {key} |->
                     IF k = key THEN node ELSE symbols[k]]

Enter ==
  /\ Len(ctx) < MAX_CONTEXT
  /\ ctx' # <<>> /\ ctx_push(Last(ctx'))
  /\ UNCHANGED symbols

\* A variable of the innermost scope.
Declare ==
  /\ ctx # <<>>
  /\ UNCHANGED ctx
  /\ \E name \in Names :
       LET key == ctx_currname(ctx) \o name
       IN  key \in DOMAIN symbols' /\ Binds(key, symbols'[key])

Leave == ctx # <<>> /\ ctx_pop /\ UNCHANGED symbols

\* The function that is left becomes a name of the scope around it.
LeaveDeclaring ==
  /\ ctx # <<>>
  /\ ctx_pop
  /\ Binds(ctx_currname(ctx') \o ctx_peek.name, ctx_peek.node)

\* symtable_reset, between two passes.
Forget == ctx = <<>> /\ symbols' = <<>> /\ UNCHANGED ctx

Next == Enter \/ Declare \/ Leave \/ LeaveDeclaring \/ Forget

Spec == Init /\ [][Next]_<<ctx, symbols>>
=============================================================================
