------------------------------ MODULE Desugar -------------------------------
(***************************************************************************)
(* The two passes of the compiler over the declarations of a file: the     *)
(* parser registers every symbol (ast_build.c), then ast_desug.c resolves  *)
(* the names and checks the types.                                         *)
(*                                                                         *)
(* A program is given as the sequence of visits that ast_desug_node makes  *)
(* of it, one record per visit; the position of a declaration or literal   *)
(* in that sequence stands for its Node and for the Type object it owns.   *)
(* The other nodes own no Type: typeget hands out the object of the        *)
(* declaration, and * and & change its depth in place.                     *)
(*                                                                         *)
(*   file, eof        the file module is entered, left                     *)
(*   enter, leave     a function is entered (name, type, argc), left       *)
(*   var, inited      a variable (name, type, init), its initialiser done  *)
(*   lit, ident, ...  an expression, after the ones inside it              *)
(*   call, arg        before the arguments of a call, after the i-th       *)
(*   return, next     the end of a return, of an expression statement      *)
(***************************************************************************)
EXTENDS Context, Types

CONSTANT
  Programs    \* the source files: records whose field code has the visits

VARIABLES
  prog,       \* the program at hand
  pass,       \* "parse" or "desug"
  verdict,    \* "running", "accepted", "rejected" or "aborted" (an assertion)
  pc,         \* the next visit
  types,      \* the Type object of every node that owns one
  operands    \* the nodes visited and not yet consumed by their parent

vars == <<prog, pass, verdict, pc, ctx, symbols, types, operands>>

code == prog.code
Visit == code[pc]
Owners(c) == {i \in DOMAIN c : c[i].op \in {"lit", "var", "enter"}}
Operands == {"lit", "ident", "add", "mul", "deref", "ref", "assign", "called"}
Ops == Operands \union {"file", "enter", "leave", "eof", "var", "inited", "call",
                        "arg", "return", "next"}

-----------------------------------------------------------------------------
(* The visits of a tree. *)

Where(c, ops) == {i \in DOMAIN c : c[i].op \in ops}
Declarations(c) == Where(c, {"var", "enter"})
Within(S, i, n) == Cardinality({j \in S : i <= j /\ j < n})

\* How many declarations more are opened than closed from visit i up to n.
Opens == {"file", "enter"}
Closes == {"leave", "eof"}
Balance(c, i, n) == Within(Where(c, Opens), i, n) - Within(Where(c, Closes), i, n)

\* How many nodes wait for their parent when visit n is made.
Pushes(c) == {i \in DOMAIN c : \/ c[i].op \in {"lit", "ident", "call"}
                               \/ c[i].op = "var" /\ c[i].init}
Pops(c) == Where(c, {"add", "mul", "assign", "arg", "return", "next", "inited"})
Depth(c, n) ==
  Within(Pushes(c), 1, n) - Within(Pops(c), 1, n) - Within(Where(c, {"inited"}), 1, n)
Needed(op) == CASE op \in {"add", "mul", "assign", "arg", "inited"} -> 2
                [] op \in {"deref", "ref", "called", "return", "next"} -> 1
                [] OTHER -> 0

\* What every tree of the parser gives: one file around the whole, functions
\* that are closed, and nodes after what they are made of.
WellFormed(c) ==
  /\ c \in Seq(Range(c))
  /\ Where(c, {"file"}) = {1} /\ Where(c, {"eof"}) = {Len(c)}
  /\ \A i \in DOMAIN c :
       /\ c[i].op \in Ops
       /\ c[i].op # "file" => Balance(c, 1, i) >= 1
       /\ c[i].op = "leave" => Balance(c, 1, i) >= 2
       /\ c[i].op = "eof" => Balance(c, 1, i) = 1
       /\ Depth(c, i) >= Needed(c[i].op)
       /\ c[i].op = "next" => Depth(c, i) = 1
  /\ \A i \in Owners(c) : c[i].type \in [id : SourceIds, refc : Nat]
  /\ \A i \in Declarations(c) : c[i].name \in Seq(STRING) \ {<<>>}

ASSUME ProgramsAssumption == \A q \in Programs : WellFormed(q.code)

-----------------------------------------------------------------------------
TypeOK ==
  /\ pass \in {"parse", "desug"}
  /\ verdict \in {"running", "accepted", "rejected", "aborted"}
  /\ pc \in 1..Len(code)
  /\ \A i \in DOMAIN ctx : ctx[i].node \in DOMAIN code
  /\ \A k \in DOMAIN symbols : symbols[k] \in Owners(code)
  /\ \A i \in Owners(code) : types[i].id \in SourceIds /\ types[i].refc \in Nat
  /\ \A i \in DOMAIN operands :
       /\ operands[i].kind \in Operands \union {"var", "call"}
       /\ operands[i].of \in Owners(code)

Init ==
  /\ prog \in Programs
  /\ pass = "parse" /\ verdict = "running" /\ pc = 1
  /\ ctx = <<>> /\ symbols = <<>>
  /\ types = [i \in Owners(code) |-> code[i].type]
  /\ operands = <<>>

-----------------------------------------------------------------------------
At(p, op) == verdict = "running" /\ pass = p /\ Visit.op = op
Advance == pc' = pc + 1
Reject == /\ verdict' = "rejected"
          /\ UNCHANGED <<prog, pass, pc, ctx, symbols, types, operands>>

(* The parser. *)

ParseFile ==
  /\ At("parse", "file")
  /\ ctx_push(FileFrame(pc))
  /\ Advance
  /\ UNCHANGED <<prog, pass, verdict, symbols, types, operands>>

\* parse_mod_body knows no declaration that starts with "char".
StartsNoDecl(type) == Len(ctx) = 1 /\ type = Type(VT_CHAR, 0)

ParseFunDecl ==
  /\ At("parse", "enter")
  /\ IF StartsNoDecl(Visit.type) \/ CtxFull
     THEN Reject
     ELSE /\ ctx_push(FunFrame(Visit.name, pc))
          /\ Advance
          /\ UNCHANGED <<prog, pass, verdict, symbols, types, operands>>

\* The function is registered after its body.  A function inside a function
\* ends at "end", where parse_fun_body expects a semicolon.
ParseFunEnd ==
  /\ At("parse", "leave")
  /\ ctx_pop
  /\ add_symbol(ParseKey(ctx', ctx_peek.name), ctx_peek.node)
  /\ verdict' = IF Len(ctx) > 2 THEN "rejected" ELSE verdict
  /\ Advance
  /\ UNCHANGED <<prog, pass, types, operands>>

\* An initialiser declares nothing, so that its place does not matter here.
ParseVarDecl ==
  /\ At("parse", "var")
  /\ IF StartsNoDecl(Visit.type)
     THEN Reject
     ELSE /\ add_symbol(ParseKey(ctx, Visit.name), pc)
          /\ Advance
          /\ UNCHANGED <<prog, pass, verdict, ctx, types, operands>>

ParseOther ==
  /\ verdict = "running" /\ pass = "parse"
  /\ Visit.op \in Ops \ {"file", "enter", "leave", "var", "eof"}
  /\ Advance
  /\ UNCHANGED <<prog, pass, verdict, ctx, symbols, types, operands>>

\* main hands the tree of the whole file to ast_desug.
ParseEnd ==
  /\ At("parse", "eof")
  /\ ctx_pop
  /\ pass' = "desug" /\ pc' = 1
  /\ UNCHANGED <<prog, verdict, symbols, types, operands>>

Parse == \/ ParseFile \/ ParseFunDecl \/ ParseFunEnd \/ ParseVarDecl
         \/ ParseOther \/ ParseEnd

-----------------------------------------------------------------------------
(* ast_desug. *)

TypeOf(operand) == types[operand.of]
Top == Last(operands)
Below(n) == SubSeq(operands, 1, Len(operands) - n)
Under == Last(Below(1))

\* The visit ends with these operands and changes nothing else.
Leaves(stack) ==
  /\ operands' = stack
  /\ Advance
  /\ UNCHANGED <<prog, pass, verdict, ctx, symbols, types>>

\* The same, the depth of one Type object apart.
LeavesWith(stack, owner, refc) ==
  /\ operands' = stack
  /\ types' = [types EXCEPT ![owner].refc = refc]
  /\ Advance
  /\ UNCHANGED <<prog, pass, verdict, ctx, symbols>>

\* An assertion fails.
Abort == /\ verdict' = "aborted"
         /\ UNCHANGED <<prog, pass, pc, ctx, symbols, types, operands>>

Node(of) == [kind |-> Visit.op, of |-> of]

DesugLit == At("desug", "lit") /\ Leaves(Append(operands, Node(pc)))

IdentAsserts ==          \* mutant: an assertion in place of the error
  /\ At("desug", "ident")
  /\ LET key == DesugKey(ctx, Visit.name)
     IN  IF is_symbol(key) THEN Leaves(Append(operands, Node(symbols[key])))
                           ELSE Abort

DesugIdent ==
  /\ At("desug", "ident")
  /\ LET key == DesugKey(ctx, Visit.name)
     IN  IF is_symbol(key) THEN Leaves(Append(operands, Node(symbols[key])))
                           ELSE Reject

\* The case of + is unfinished (it does not compile): what stands before it
\* gives the sum the type of its left side, and no check is left.
DesugAdd ==
  /\ At("desug", "add")
  /\ Leaves(Append(Below(2), Node(Under.of)))

DesugMul ==
  /\ At("desug", "mul")
  /\ IF TypeOf(Under) = Type(VT_INT, 0) /\ TypeOf(Top) = Type(VT_INT, 0)
     THEN Leaves(Append(Below(2), Node(Under.of)))
     ELSE Reject

DerefUnchecked ==        \* mutant
  /\ At("desug", "deref")
  /\ LeavesWith(Append(Below(1), Node(Top.of)), Top.of, TypeOf(Top).refc - 1)

DesugDeref ==
  /\ At("desug", "deref")
  /\ IF TypeOf(Top).refc = 0
     THEN Reject
     ELSE LeavesWith(Append(Below(1), Node(Top.of)), Top.of, TypeOf(Top).refc - 1)

DesugRef ==
  /\ At("desug", "ref")
  /\ IF TypeOf(Top).id = VT_INT /\ Top.kind = "lit"
     THEN Reject
     ELSE LeavesWith(Append(Below(1), Node(Top.of)), Top.of, TypeOf(Top).refc + 1)

DesugAssign ==
  /\ At("desug", "assign")
  /\ CASE UNRESOLVED \in {TypeOf(Under).id, TypeOf(Top).id} -> Abort
       [] OTHER ->
          IF AssignRejects(TypeOf(Under), TypeOf(Top))
          THEN Reject
          ELSE Leaves(Append(Below(2), Node(Under.of)))

\* A variable; one with an initialiser waits for it on the stack.
DesugVar ==
  /\ At("desug", "var")
  /\ IF types[pc].id = UNRESOLVED
     THEN Abort
     ELSE Leaves(IF Visit.init THEN Append(operands, Node(pc)) ELSE operands)

DesugInit ==
  /\ At("desug", "inited")
  /\ IF InitRejects(TypeOf(Top), TypeOf(Under)) THEN Reject ELSE Leaves(Below(2))

DesugCall ==
  /\ At("desug", "call")
  /\ IF is_symbol(Visit.name)
     THEN LET n == symbols[Visit.name]
          IN  IF code[n].op = "enter" /\ code[n].argc = Visit.argc
              THEN Leaves(Append(operands, Node(n)))
              ELSE Reject
     ELSE Reject

\* fun->args[i - 1]: the parameters are the first variables behind the visit n
\* that enters the function (an initialiser may stand between two of them).
Param(n, i) ==
  LET variables == Where(code, {"var"})
  IN  CHOOSE v \in variables : n < v /\ Within(variables, n, v) = i - 1

ArgSwapped ==            \* mutant: the parameter goes into the argument
  /\ At("desug", "arg")
  /\ IF AssignRejects(TypeOf(Top), types[Param(Under.of, Visit.i)])
     THEN Reject
     ELSE Leaves(Below(1))

DesugArg ==
  /\ At("desug", "arg")
  /\ IF AssignRejects(types[Param(Under.of, Visit.i)], TypeOf(Top))
     THEN Reject
     ELSE Leaves(Below(1))

DesugCalled ==
  /\ At("desug", "called")
  /\ Leaves(Append(Below(1), Node(Top.of)))

DesugReturn ==
  /\ At("desug", "return")
  /\ IF ReturnRejects(types[ctx_peek.node], TypeOf(Top)) THEN Reject
                                                         ELSE Leaves(Below(1))

NextStuck ==             \* mutant: the loop over the statements stays where it is
  /\ At("desug", "next")
  /\ operands' = <<>>
  /\ UNCHANGED <<prog, pass, verdict, pc, ctx, symbols, types>>

DesugNext == At("desug", "next") /\ Leaves(<<>>)

\* A module or a function opens a context.
DesugEnter ==
  /\ At("desug", "enter") \/ At("desug", "file")
  /\ IF CtxFull
     THEN Reject
     ELSE /\ ctx_push(IF Visit.op = "file" THEN FileFrame(pc)
                                           ELSE FunFrame(Visit.name, pc))
          /\ Advance
          /\ UNCHANGED <<prog, pass, verdict, symbols, types, operands>>

LeaveOpen ==             \* mutant: no ctx_pop
  /\ At("desug", "leave")
  /\ Leaves(operands) /\ UNCHANGED ctx

DesugLeave ==
  /\ At("desug", "leave")
  /\ ctx_pop
  /\ Advance
  /\ UNCHANGED <<prog, pass, verdict, symbols, types, operands>>

DesugEnd ==
  /\ At("desug", "eof")
  /\ ctx_pop
  /\ verdict' = "accepted"
  /\ UNCHANGED <<prog, pass, pc, symbols, types, operands>>

Desug == \/ DesugLit \/ DesugIdent \/ DesugAdd \/ DesugMul \/ DesugDeref
         \/ DesugRef \/ DesugAssign \/ DesugVar \/ DesugInit \/ DesugCall
         \/ DesugArg \/ DesugCalled \/ DesugReturn \/ DesugNext
         \/ DesugEnter \/ DesugLeave \/ DesugEnd

Next == Parse \/ Desug

\* The compiler is one process that runs until it exits.
Spec == Init /\ [][Next]_vars /\ WF_vars(Next)

-----------------------------------------------------------------------------
(* Properties. *)

\* The declarations that are open where visit n is made, outermost first.
OpenAt(c, n) == {i \in 1..(n - 1) : /\ c[i].op \in Opens
                                    /\ \A m \in (i + 1)..n : Balance(c, i, m) > 0}

\* The declarations around visit n, outermost first: the innermost has only
\* itself to close, the one around it two.
Enclosing(c, n) ==
  LET height == Balance(c, 1, n)
  IN  [k \in 1..height |->
         CHOOSE i \in OpenAt(c, n) : Balance(c, i, n) = height - k + 1]

\* The stack of contexts a declaration at n finds, and the key it gets.
FrameAt(c, d) == IF c[d].op = "file" THEN FileFrame(d) ELSE FunFrame(c[d].name, d)
Frames(c, n) == [k \in DOMAIN Enclosing(c, n) |-> FrameAt(c, Enclosing(c, n)[k])]
KeyAt(c, n) == ParseKey(Frames(c, n), c[n].name)

\* In both passes the stack of contexts holds the declarations around the
\* place the pass has reached, no more and no fewer, and it never outgrows
\* ctx_stack: every ctx_push of ast_build.c and ast_desug.c has its ctx_pop.
ContextIsEnclosing ==
  verdict = "running" =>
    /\ {ctx[k].node : k \in DOMAIN ctx} = OpenAt(code, pc)
    /\ \A j, k \in DOMAIN ctx : j < k => ctx[j].node < ctx[k].node
ContextFits == Len(ctx) <= MAX_CONTEXT

\* The two passes build the key of a name each in its own way (ast_build.c:405
\* and ast_desug.c:24).  They agree on what is declared in a function: a name
\* used there is found, and is the first declaration of it in that function
\* unless a declaration elsewhere has the same key, as a function f_x has that
\* of x in f, or x in another function f.
PassesAgree ==
  At("desug", "ident") /\ Len(ctx) > 1 =>
    LET key == DesugKey(ctx, Visit.name)
        same == {i \in Where(code, {"var"}) :
                   /\ code[i].name = Visit.name
                   /\ Last(Enclosing(code, i)) = ctx_peek.node}
        alone == \A j \in Declarations(code) : KeyAt(code, j) = key => j \in same
    IN  same # {} => /\ is_symbol(key)
                     /\ alone => symbols[key] = Min(same)

\* A key keeps the node it was first given: the Type objects that resolved
\* names already point at stay the ones later uses get.
BindingsStable ==
  [][\A k \in DOMAIN symbols : k \in DOMAIN symbols' /\ symbols'[k] = symbols[k]]_vars

\* The assertions of ast_desug.c (lines 127 and 137) fail only on a file that
\* writes a name where a type is due.
AssertionsHold ==
  verdict = "aborted" => \E i \in Owners(code) : code[i].type.id = UNRESOLVED

\* The compiler decides every file.
Termination == <>(verdict # "running")

-----------------------------------------------------------------------------
(* What the samples and the comments of the repository say, and the code    *)
(* does not do.                                                             *)

\* Equal types may be assigned: "a = b" of two ints in samples/val_ret_69.cml.
EqualTypesAssign ==
  [][At("desug", "assign") /\ typecmp(TypeOf(Under), TypeOf(Top)) = TCMP_EQS
       => verdict' # "rejected"]_vars

\* A variable is declared once in a function: samples/err_var_decl1.cml.
DeclaredOnce ==
  verdict = "accepted" =>
    \A i, j \in DOMAIN code :
      /\ code[i].op = "var" /\ code[j].op = "var" /\ code[i].name = code[j].name
      /\ Last(Enclosing(code, i)) = Last(Enclosing(code, j))
      => i = j

\* Reading a variable leaves its declared type alone: samples/val_ptr1.cml
\* reads *a twice.
DeclaredTypeKept ==
  \A i \in DOMAIN code : code[i].op = "var" => types[i] = code[i].type
=============================================================================
