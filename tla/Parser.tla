------------------------------- MODULE Parser -------------------------------
(***************************************************************************)
(* The recursive descent of ast_build.c as a machine over tokens.  The     *)
(* lexer is seen through next_token; the calls of parse_* functions that   *)
(* are open are a stack of frames, each with the place the function goes   *)
(* on from (at) and its local variables; value is what the last call that  *)
(* returned has returned.  A step is a function up to its next call of a   *)
(* parse_* function, its return, or its second call of next_token.         *)
(*                                                                         *)
(* A token has the kind and the idx of token.h; as a kind of its own, "END"*)
(* is what bth_lex.h answers at the end of the file, with the idx 0 of the *)
(* keyword "int".  "end" is that keyword.                                  *)
(***************************************************************************)
EXTENDS Context, Syntax

CONSTANTS
  Tokens,     \* what a file may consist of
  Follow(_),  \* the tokens that may come after the ones read so far
  Malformed,  \* constants whose text get_token_int or get_token_char refuses
  MaxParams   \* bound: where the file ends in a list of parameters, for ever
              \* read, a function with as many is given no more

VARIABLES
  cur,        \* the current token
  read,       \* history: what next_token has returned, up to the first END
  calls,      \* the open calls, innermost last
  value,      \* what the last call has returned
  made,       \* how many declarations new_node has made: their identities
  verdict     \* "parsing", "parsed" or "rejected"

vars == <<cur, read, calls, value, made, verdict, ctx, symbols>>

EndToken == [kind |-> "END", idx |-> "int", text |-> <<"">>]
Readable == Tokens \union {EndToken}
ASSUME TokensAssumption ==
  \A t \in Readable : t.text \in Seq(STRING) \ {<<>>} /\ (t.kind = "END" => t = EndToken)
Top == Last(calls)
file == Top.nodes          \* once the verdict is "parsed"

Constants == {"INT_CST", "CHAR_CST", "STR_CST"}
TypeStarts == {"int", "char", "&"}
Stops == {";", ")", ","}

Places == {"file", "module", "declared", "type", "decl", "var", "init", "fun",
           "params", "param", "got_param", "comma", "body", "stmt", "return",
           "returned", "unary", "call", "args", "got_arg", "operators", "sum",
           "product", "assign"}

TypeOK ==
  /\ verdict \in {"parsing", "parsed", "rejected"}
  /\ cur \in Readable
  /\ calls # <<>> /\ \A i \in DOMAIN calls : calls[i].at \in Places
  /\ made \in Nat
  /\ \A i \in DOMAIN ctx : ctx[i].node \in 0..made
  /\ \A k \in DOMAIN symbols : symbols[k] \in 1..made
  /\ \A i \in DOMAIN read : read[i].kind = "END" => i = Len(read)
  /\ read # <<>> => cur = Last(read)

Init ==
  /\ cur = EndToken /\ read = <<>>
  /\ calls = <<[at |-> "file"]>>
  /\ value = <<>>
  /\ made = 0
  /\ verdict = "parsing"
  /\ ctx = <<>> /\ symbols = <<>>

-----------------------------------------------------------------------------
(* Tokens and calls. *)

AtEnd == read # <<>> /\ Last(read).kind = "END"
NextTokens == IF AtEnd THEN {EndToken} ELSE Follow(read) \intersect Readable
next_token(t) ==
  /\ cur' = t
  /\ read' = IF AtEnd THEN read ELSE Append(read, t)
Skip == \E t \in NextTokens : next_token(t)

At(place) == verdict = "parsing" /\ Top.at = place
Becomes(frames) == calls' = Front(calls) \o frames
Goto(frame) == Becomes(<<frame>>)
GotoPlace(place) == Goto([Top EXCEPT !.at = place])
Enter(place, frames) == Becomes(<<[Top EXCEPT !.at = place]>> \o frames)
Returns(v) == Becomes(<<>>) /\ value' = v

Rejects == verdict' = "rejected" /\ UNCHANGED <<calls, value, made, ctx, symbols>>

\* The calls parse_type(), parse_decl(parse_type()) and parse_expr().
TypeCall == <<[at |-> "type", refc |-> 0]>>
DeclCall == <<[at |-> "decl"]>> \o TypeCall
UnaryCall == <<[at |-> "unary", ops |-> <<>>]>>
ExprCall == <<[at |-> "operators"]>> \o UnaryCall

-----------------------------------------------------------------------------
(* parse_file and parse_mod_body. *)

ParseFile ==
  /\ At("file")
  /\ ctx_push(FileFrame(0))
  /\ Goto([at |-> "module", nodes |-> <<>>])
  /\ UNCHANGED <<cur, read, value, made, verdict, symbols>>

\* A type that is the word "self" ends the file and is an error either way.
ModuleDecl ==
  /\ At("module")
  /\ \E t \in NextTokens :
       /\ t.kind # "END" /\ t.idx \in {"int", "&", "IDENT"}
       /\ next_token(t)
  /\ Enter("declared", DeclCall)
  /\ UNCHANGED <<value, made, verdict, ctx, symbols>>

ModuleEndByIndex ==      \* mutant: the index 0 ends a file, as it does a module
  /\ At("module")
  /\ \E t \in NextTokens : t.idx = EndToken.idx /\ next_token(t)
  /\ ctx_pop
  /\ verdict' = "parsed"
  /\ UNCHANGED <<calls, value, made, symbols>>

ModuleEnd ==
  /\ At("module")
  /\ \E t \in NextTokens : t.kind = "END" /\ next_token(t)
  /\ ctx_pop
  /\ verdict' = "parsed"
  /\ UNCHANGED <<calls, value, made, symbols>>

ModuleOther ==
  /\ At("module")
  /\ \E t \in NextTokens :
       /\ t.kind # "END" /\ t.idx \notin {"int", "&", "IDENT"}
       /\ next_token(t)
  /\ Rejects

Declared ==
  /\ At("declared")
  /\ Goto([at |-> "module", nodes |-> Append(Top.nodes, value)])
  /\ UNCHANGED <<cur, read, value, made, verdict, ctx, symbols>>

(* parse_type takes any token for a type: a constant for the type it has. *)

BaseId(idx) == CASE idx \in {"int", "INT_CST"} -> VT_INT
                 [] idx \in {"char", "CHAR_CST"} -> VT_CHAR
                 [] OTHER -> UNRESOLVED

TypeRef ==
  /\ At("type")
  /\ cur.idx = "&"
  /\ Skip
  /\ Goto([Top EXCEPT !.refc = @ + 1])
  /\ UNCHANGED <<value, made, verdict, ctx, symbols>>

TypeBase ==
  /\ At("type")
  /\ cur.idx # "&"
  /\ Skip
  /\ Returns(Type(BaseId(cur.idx), Top.refc))
  /\ UNCHANGED <<made, verdict, ctx, symbols>>

(* parse_decl and parse_var_decl.  The name may be any token, too. *)

VarFrame(type, name, node) ==
  [at |-> "var", type |-> type, name |-> name, node |-> node]

DeclVar ==
  /\ At("decl")
  /\ \E t \in NextTokens : t.idx \in {"=", ";"} /\ next_token(t)
  /\ made' = made + 1
  /\ Goto(VarFrame(value, cur.text, made'))
  /\ UNCHANGED <<value, verdict, ctx, symbols>>

DeclFun ==
  /\ At("decl")
  /\ \E t \in NextTokens : t.idx = "(" /\ next_token(t)
  /\ Goto([at |-> "fun", type |-> value, name |-> cur.text])
  /\ UNCHANGED <<value, made, verdict, ctx, symbols>>

DeclOther ==
  /\ At("decl")
  /\ \E t \in NextTokens : t.idx \notin {"=", ";", "("} /\ next_token(t)
  /\ Rejects

VarInit ==
  /\ At("var")
  /\ cur.idx = "="
  /\ Skip
  /\ Enter("init", ExprCall)
  /\ UNCHANGED <<value, made, verdict, ctx, symbols>>

VarEnd ==
  /\ \/ At("var") /\ cur.idx # "=" /\ Returns(Var(Top.type, Top.name, <<>>))
     \/ At("init") /\ Returns(Var(Top.type, Top.name, <<value>>))
  /\ add_symbol(ParseKey(ctx, Top.name), Top.node)
  /\ UNCHANGED <<cur, read, made, verdict, ctx>>

-----------------------------------------------------------------------------
(* parse_fun_decl and parse_fun_body. *)

FunOpen ==
  /\ At("fun")
  /\ Skip
  /\ IF CtxFull
     THEN Rejects
     ELSE /\ ctx_push(FunFrame(Top.name, made + 1))
          /\ made' = made + 1
          /\ Goto([at |-> "params", type |-> Top.type, name |-> Top.name,
                   node |-> made + 1, params |-> <<>>, nodes |-> <<>>])
          /\ UNCHANGED <<value, verdict, symbols>>

\* The end of the file is no closing parenthesis.
ParamNext ==
  /\ At("params")
  /\ cur.idx # ")"
  /\ Enter("got_param", <<[at |-> "param"]>> \o TypeCall)
  /\ UNCHANGED <<cur, read, value, made, verdict, ctx, symbols>>

\* The identifier handed to parse_var_decl is the current token, which is still
\* the name when parse_var_decl looks for "=".
TooMany(params) == AtEnd /\ Len(params) >= MaxParams
ParamUncounted ==        \* mutant: the node of the next declaration
  /\ At("param")
  /\ Goto(VarFrame(value, cur.text, made + 1))
  /\ UNCHANGED <<cur, read, value, made, verdict, ctx, symbols>>

ParamDecl ==
  /\ At("param")
  /\ made' = IF TooMany(calls[Len(calls) - 1].params) THEN made ELSE made + 1
  /\ Goto(VarFrame(value, cur.text, made'))
  /\ UNCHANGED <<cur, read, value, verdict, ctx, symbols>>

GotParam ==
  /\ At("got_param")
  /\ \E t \in NextTokens :
       /\ next_token(t)
       /\ Goto([Top EXCEPT
                  !.at = IF t.idx = "," THEN "comma" ELSE "params",
                  !.params = IF TooMany(@) THEN @ ELSE Append(@, value)])
  /\ UNCHANGED <<value, made, verdict, ctx, symbols>>

ParamComma ==
  /\ At("comma")
  /\ Skip
  /\ GotoPlace("params")
  /\ UNCHANGED <<value, made, verdict, ctx, symbols>>

ParamsEnd ==
  /\ At("params")
  /\ cur.idx = ")"
  /\ GotoPlace("body")
  /\ UNCHANGED <<cur, read, value, made, verdict, ctx, symbols>>

BodyEndStays ==          \* mutant: no ctx_pop
  /\ At("body")
  /\ \E t \in NextTokens : t.idx = "end" /\ next_token(t)
  /\ add_symbol(ParseKey(ctx, Top.name), Top.node)
  /\ Returns(Fun(Top.type, Top.name, Top.params, Top.nodes))
  /\ UNCHANGED <<made, verdict, ctx>>

BodyEndEarlyKey ==       \* mutant: the key is made before ctx_pop
  /\ At("body")
  /\ \E t \in NextTokens : t.idx = "end" /\ next_token(t)
  /\ ctx_pop
  /\ add_symbol(ParseKey(ctx, Top.name), Top.node)
  /\ Returns(Fun(Top.type, Top.name, Top.params, Top.nodes))
  /\ UNCHANGED <<made, verdict>>

BodyEnd ==
  /\ At("body")
  /\ \E t \in NextTokens : t.idx = "end" /\ next_token(t)
  /\ ctx_pop
  /\ add_symbol(ParseKey(ctx', Top.name), Top.node)
  /\ Returns(Fun(Top.type, Top.name, Top.params, Top.nodes))
  /\ UNCHANGED <<made, verdict>>

BodyDecl ==
  /\ At("body")
  /\ \E t \in NextTokens : t.idx \in TypeStarts /\ next_token(t)
  /\ Enter("stmt", DeclCall)
  /\ UNCHANGED <<value, made, verdict, ctx, symbols>>

BodyExpr ==
  /\ At("body")
  /\ \E t \in NextTokens : t.idx \in {"IDENT", "*"} /\ next_token(t)
  /\ Enter("stmt", ExprCall)
  /\ UNCHANGED <<value, made, verdict, ctx, symbols>>

BodyReturn ==
  /\ At("body")
  /\ \E t \in NextTokens : t.idx = "return" /\ next_token(t)
  /\ GotoPlace("return")
  /\ UNCHANGED <<value, made, verdict, ctx, symbols>>

BodyOther ==
  /\ At("body")
  /\ \E t \in NextTokens :
       /\ t.idx \notin TypeStarts \union {"end", "IDENT", "*", "return"}
       /\ next_token(t)
  /\ Rejects

ReturnNext ==
  /\ At("return")
  /\ Skip
  /\ Enter("returned", ExprCall)
  /\ UNCHANGED <<value, made, verdict, ctx, symbols>>

\* A declaration, an expression or a return is over; EXPECT(TK_SEMICOLON).
Statement == IF Top.at = "returned" THEN Return(value) ELSE value
StmtEnd ==
  /\ At("stmt") \/ At("returned")
  /\ IF cur.idx = ";"
     THEN /\ Goto([Top EXCEPT !.at = "body", !.nodes = Append(@, Statement)])
          /\ UNCHANGED <<value, made, verdict, ctx, symbols>>
     ELSE Rejects
  /\ UNCHANGED <<cur, read>>

-----------------------------------------------------------------------------
(* parse_unary, parse_value and parse_funcall. *)

Prefix ==
  /\ At("unary")
  /\ cur.idx \in {"*", "&"}
  /\ Skip
  /\ Goto([Top EXCEPT !.ops = Append(@, cur.idx)])
  /\ UNCHANGED <<value, made, verdict, ctx, symbols>>

\* The chain of the operators read, the first one outermost.
Prefixed(ops, e) ==
  LET chain[i \in 0..Len(ops)] ==
        IF i = 0 THEN e
        ELSE IF ops[Len(ops) - i + 1] = "*" THEN Deref(chain[i - 1]) ELSE Ref(chain[i - 1])
  IN  chain[Len(ops)]

LitOf(idx) == CASE idx = "INT_CST" -> IntLit
                [] idx = "CHAR_CST" -> CharLit
                [] idx = "STR_CST" -> StrLit

ValueLit ==
  /\ At("unary")
  /\ cur.idx \in Constants \ {"STR_CST"} => cur \notin Malformed
  /\ cur.idx \in Constants
  /\ Skip
  /\ Returns(Prefixed(Top.ops, LitOf(cur.idx)))
  /\ UNCHANGED <<made, verdict, ctx, symbols>>

ValueIdent ==
  /\ At("unary")
  /\ cur.idx = "IDENT"
  /\ \E t \in NextTokens :
       /\ next_token(t)
       /\ IF t.idx = "("
          THEN /\ Goto([at |-> "call", name |-> cur.text, ops |-> Top.ops])
               /\ UNCHANGED value
          ELSE Returns(Prefixed(Top.ops, Ident(cur.text)))
  /\ UNCHANGED <<made, verdict, ctx, symbols>>

ValueOther ==
  /\ At("unary")
  /\ \/ cur.idx \notin Constants \union {"IDENT", "*", "&"}
     \/ cur.idx \in {"INT_CST", "CHAR_CST"} /\ cur \in Malformed
  /\ Rejects
  /\ UNCHANGED <<cur, read>>

CallOpen ==
  /\ At("call")
  /\ Skip
  /\ Goto([at |-> "args", name |-> Top.name, ops |-> Top.ops, args |-> <<>>])
  /\ UNCHANGED <<value, made, verdict, ctx, symbols>>

ArgNext ==
  /\ At("args")
  /\ cur.idx # ")"
  /\ Enter("got_arg", ExprCall)
  /\ UNCHANGED <<cur, read, value, made, verdict, ctx, symbols>>

GotArg ==
  /\ At("got_arg")
  /\ Goto([Top EXCEPT !.at = "args", !.args = Append(@, value)])
  /\ IF cur.idx = "," THEN Skip ELSE UNCHANGED <<cur, read>>
  /\ UNCHANGED <<value, made, verdict, ctx, symbols>>

ArgsEnd ==
  /\ At("args")
  /\ cur.idx = ")"
  /\ Skip
  /\ Returns(Prefixed(Top.ops, Call(Top.name, Top.args)))
  /\ UNCHANGED <<made, verdict, ctx, symbols>>

-----------------------------------------------------------------------------
(* parse_expr, with parse_sum, parse_product and parse_assign.  The right    *)
(* side of + and = is all that follows, the one of * a unary expression.     *)

Operand(op, place, call) ==
  /\ At("operators")
  /\ cur.idx = op
  /\ Skip
  /\ Becomes(<<[at |-> place, lhs |-> value]>> \o call)
  /\ UNCHANGED <<value, made, verdict, ctx, symbols>>

SumOpen == Operand("+", "sum", ExprCall)
ProductRightOpen == Operand("*", "product", ExprCall)   \* mutant: * takes all that follows
ProductOpen == Operand("*", "product", UnaryCall)
AssignOpen == Operand("=", "assign", ExprCall)

SumEnd ==
  /\ At("sum")
  /\ Returns(Add(Top.lhs, value))
  /\ UNCHANGED <<cur, read, made, verdict, ctx, symbols>>

ProductEnd ==
  /\ At("product")
  /\ Goto([at |-> "operators"])
  /\ value' = Mul(Top.lhs, value)
  /\ UNCHANGED <<cur, read, made, verdict, ctx, symbols>>

AssignEnd ==
  /\ At("assign")
  /\ Returns(Assign(Top.lhs, value))
  /\ UNCHANGED <<cur, read, made, verdict, ctx, symbols>>

ExprEnd ==
  /\ At("operators")
  /\ cur.idx \in Stops
  /\ Returns(value)
  /\ UNCHANGED <<cur, read, made, verdict, ctx, symbols>>

ExprRetries ==           \* mutant: any other token goes to redo
  /\ At("operators")
  /\ cur.idx \notin Stops \union {"+", "*", "="}
  /\ UNCHANGED vars

ExprOther ==
  /\ At("operators")
  /\ cur.idx \notin Stops \union {"+", "*", "="}
  /\ Rejects
  /\ UNCHANGED <<cur, read>>

-----------------------------------------------------------------------------
Module == ParseFile \/ ModuleDecl \/ ModuleEnd \/ ModuleOther \/ Declared
Decl == TypeRef \/ TypeBase \/ DeclVar \/ DeclFun \/ DeclOther \/ VarInit \/ VarEnd
Function == \/ FunOpen \/ ParamNext \/ ParamDecl \/ GotParam \/ ParamComma
            \/ ParamsEnd \/ BodyEnd \/ BodyDecl \/ BodyExpr \/ BodyReturn
            \/ BodyOther \/ ReturnNext \/ StmtEnd
Value == \/ Prefix \/ ValueLit \/ ValueIdent \/ ValueOther
         \/ CallOpen \/ ArgNext \/ GotArg \/ ArgsEnd
Expr == \/ SumOpen \/ ProductOpen \/ AssignOpen \/ SumEnd \/ ProductEnd
        \/ AssignEnd \/ ExprEnd \/ ExprOther

Next == Module \/ Decl \/ Function \/ Value \/ Expr

\* The compiler is one process that runs until it exits.
Spec == Init /\ [][Next]_vars /\ WF_vars(Next)
-----------------------------------------------------------------------------
(* Properties. *)

\* The functions whose parameters or body are being read.
FunPlaces == {"params", "got_param", "comma", "body", "stmt", "return", "returned"}
InFun(frame) == frame.at \in FunPlaces
OpenFuns(s, i) == Cardinality({j \in 1..i : InFun(s[j])})

\* The stack of contexts, a global of context.c, holds the file and the
\* functions whose parse_fun_decl is under way, no more and no fewer: the names
\* registered now get the prefix of the function they stand in, whatever calls
\* are open above it.
ContextIsCalls ==
  verdict = "parsing" =>
    IF calls[1].at = "file"
    THEN ctx = <<>>
    ELSE /\ Len(ctx) = 1 + OpenFuns(calls, Len(calls))
         /\ ctx[1] = FileFrame(0)
         /\ \A i \in DOMAIN calls : InFun(calls[i]) =>
              ctx[1 + OpenFuns(calls, i)] = FunFrame(calls[i].name, calls[i].node)

\* What the parser does to the contexts and the symbols is what context.c is for:
\* every function it leaves is registered in the scope around it, under the name
\* and with the node it was entered with, and no binding is ever replaced.
Scope == INSTANCE Scopes WITH Names <- {t.text : t \in Readable}
KeepsScopes == Scope!Spec

\* What a file declares, in the order the nodes are made, as keys.
LocalKey(name, s) == IF s.op = "var" THEN <<name \o s.name>> ELSE <<>>
LocalKeys(name, stmts) == FlattenSeq([i \in DOMAIN stmts |-> LocalKey(name, stmts[i])])
FunKeys(name, params, body) ==
  <<name>> \o (LocalKeys(name, params) \o LocalKeys(name, body))
Keys(d) == IF d.op = "var" THEN <<d.name>> ELSE FunKeys(d.name, d.params, d.body)
KeysOf(nodes) == FlattenSeq([i \in DOMAIN nodes |-> Keys(nodes[i])])
FileKeys == KeysOf(file)

\* After the last token every declaration of the file is in the symbol table
\* under its key, the first of them where keys collide, and nothing else is;
\* although a function is registered after all that is inside it.
SymbolsOfFile ==
  verdict = "parsed" =>
    /\ made = Len(FileKeys)
    /\ DOMAIN symbols = {FileKeys[i] : i \in DOMAIN FileKeys}
    /\ \A i \in DOMAIN FileKeys :
         /\ FileKeys[symbols[FileKeys[i]]] = FileKeys[i]
         /\ symbols[FileKeys[i]] <= i

\* The parser comes to a verdict on every sequence of tokens, except when the
\* file ends inside a list of parameters: parse_fun_decl looks for the closing
\* parenthesis only (ast_build.c:492).
InParams == \E i \in DOMAIN calls : calls[i].at \in {"params", "got_param", "comma"}
Termination == <>(verdict # "parsing" \/ (AtEnd /\ InParams))
=============================================================================
