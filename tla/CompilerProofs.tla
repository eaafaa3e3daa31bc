--------------------------- MODULE CompilerProofs ----------------------------
(***************************************************************************)
(* What the passes guarantee together, for every set of command lines and  *)
(* sources: each of them leaves to the next one what that one relies on,   *)
(* in the contexts, in the table of symbols and in the tree (main.c).      *)
(*                                                                         *)
(* What each pass guarantees by itself is proved in a module of its own,   *)
(* of which there is an instance here for the variables of Compiler.       *)
(***************************************************************************)
EXTENDS Compiler, DataLemmas

PP == INSTANCE DeclarationProofs WITH Follow <- AnyToken, verdict <- syntax
DP == INSTANCE DesugarProofs WITH Programs <- {ProgramOf(s.file) : s \in Sources},
                     pass <- "desug", verdict <- typing, symbols <- table
DD == INSTANCE DriverProofs

-----------------------------------------------------------------------------
(* The instances of the proofs are about the passes that Compiler has        *)
(* instances of: the definitions are the same.                               *)

\* A step of the parser.
LEMMA SameParser ==
  Parsing!Next <=> PP!Next
BY ZenonT(60) DEF
      Parsing!UNRESOLVED, PP!UNRESOLVED, Parsing!VT_CHAR, PP!VT_CHAR, Parsing!VT_INT,
      PP!VT_INT, Parsing!Type, PP!Type, Parsing!Lit, PP!Lit, Parsing!Ident, PP!Ident,
      Parsing!Add, PP!Add, Parsing!Mul, PP!Mul, Parsing!Deref, PP!Deref, Parsing!Ref,
      PP!Ref, Parsing!Assign, PP!Assign, Parsing!Call, PP!Call, Parsing!Var, PP!Var,
      Parsing!Fun, PP!Fun, Parsing!Return, PP!Return, Parsing!IntLit, PP!IntLit,
      Parsing!CharLit, PP!CharLit, Parsing!StrLit, PP!StrLit, Parsing!FileFrame,
      PP!FileFrame, Parsing!FunFrame, PP!FunFrame, Parsing!CtxFull, PP!CtxFull,
      Parsing!ctx_push, PP!ctx_push, Parsing!ctx_pop, PP!ctx_pop, Parsing!ctx_peek,
      PP!ctx_peek, Parsing!ctx_currname, PP!ctx_currname, Parsing!ParseKey, PP!ParseKey,
      Parsing!add_symbol, PP!add_symbol, Parsing!EndToken, PP!EndToken,
      Parsing!Readable, PP!Readable, Parsing!Top, PP!Top, Parsing!Constants,
      PP!Constants, Parsing!TypeStarts, PP!TypeStarts, Parsing!Stops, PP!Stops,
      Parsing!AtEnd, PP!AtEnd, Parsing!NextTokens, PP!NextTokens, Parsing!next_token,
      PP!next_token, Parsing!Skip, PP!Skip, Parsing!At, PP!At, Parsing!Becomes,
      PP!Becomes, Parsing!Goto, PP!Goto, Parsing!GotoPlace, PP!GotoPlace, Parsing!Enter,
      PP!Enter, Parsing!Returns, PP!Returns, Parsing!Rejects, PP!Rejects,
      Parsing!TypeCall, PP!TypeCall, Parsing!DeclCall, PP!DeclCall, Parsing!UnaryCall,
      PP!UnaryCall, Parsing!ExprCall, PP!ExprCall, Parsing!ParseFile, PP!ParseFile,
      Parsing!ModuleDecl, PP!ModuleDecl, Parsing!ModuleEnd, PP!ModuleEnd,
      Parsing!ModuleOther, PP!ModuleOther, Parsing!Declared, PP!Declared,
      Parsing!BaseId, PP!BaseId, Parsing!TypeRef, PP!TypeRef, Parsing!TypeBase,
      PP!TypeBase, Parsing!VarFrame, PP!VarFrame, Parsing!DeclVar, PP!DeclVar,
      Parsing!DeclFun, PP!DeclFun, Parsing!DeclOther, PP!DeclOther, Parsing!VarInit,
      PP!VarInit, Parsing!VarEnd, PP!VarEnd, Parsing!FunOpen, PP!FunOpen,
      Parsing!ParamNext, PP!ParamNext, Parsing!TooMany, PP!TooMany, Parsing!ParamDecl,
      PP!ParamDecl, Parsing!GotParam, PP!GotParam, Parsing!ParamComma, PP!ParamComma,
      Parsing!ParamsEnd, PP!ParamsEnd, Parsing!BodyEnd, PP!BodyEnd, Parsing!BodyDecl,
      PP!BodyDecl, Parsing!BodyExpr, PP!BodyExpr, Parsing!BodyReturn, PP!BodyReturn,
      Parsing!BodyOther, PP!BodyOther, Parsing!ReturnNext, PP!ReturnNext,
      Parsing!Statement, PP!Statement, Parsing!StmtEnd, PP!StmtEnd, Parsing!Prefix,
      PP!Prefix, Parsing!Prefixed, PP!Prefixed, Parsing!LitOf, PP!LitOf,
      Parsing!ValueLit, PP!ValueLit, Parsing!ValueIdent, PP!ValueIdent,
      Parsing!ValueOther, PP!ValueOther, Parsing!CallOpen, PP!CallOpen, Parsing!ArgNext,
      PP!ArgNext, Parsing!GotArg, PP!GotArg, Parsing!ArgsEnd, PP!ArgsEnd,
      Parsing!Operand, PP!Operand, Parsing!SumOpen, PP!SumOpen, Parsing!ProductOpen,
      PP!ProductOpen, Parsing!AssignOpen, PP!AssignOpen, Parsing!SumEnd, PP!SumEnd,
      Parsing!ProductEnd, PP!ProductEnd, Parsing!AssignEnd, PP!AssignEnd,
      Parsing!ExprEnd, PP!ExprEnd, Parsing!ExprOther, PP!ExprOther, Parsing!Module,
      PP!Module, Parsing!Decl, PP!Decl, Parsing!Function, PP!Function, Parsing!Value,
      PP!Value, Parsing!Expr, PP!Expr, Parsing!Next, PP!Next, Parsing!Front, PP!Front,
      Parsing!Last, PP!Last, Parsing!FlattenSeq, PP!FlattenSeq

\* A step of ast_desug.
LEMMA SameDesug ==
  Desugaring!Desug <=> DP!Desug
BY ZenonT(60) DEF
      Desugaring!UNRESOLVED, DP!UNRESOLVED, Desugaring!VT_CHAR, DP!VT_CHAR,
      Desugaring!VT_INT, DP!VT_INT, Desugaring!Type, DP!Type, Desugaring!TCMP_RES,
      DP!TCMP_RES, Desugaring!TCMP_NEQ, DP!TCMP_NEQ, Desugaring!TCMP_LCA, DP!TCMP_LCA,
      Desugaring!TCMP_RCA, DP!TCMP_RCA, Desugaring!TCMP_INC, DP!TCMP_INC,
      Desugaring!TCMP_EQS, DP!TCMP_EQS, Desugaring!typecmp, DP!typecmp,
      Desugaring!AssignRejects, DP!AssignRejects, Desugaring!InitRejects,
      DP!InitRejects, Desugaring!ReturnRejects, DP!ReturnRejects, Desugaring!FileFrame,
      DP!FileFrame, Desugaring!FunFrame, DP!FunFrame, Desugaring!CtxFull, DP!CtxFull,
      Desugaring!ctx_push, DP!ctx_push, Desugaring!ctx_pop, DP!ctx_pop,
      Desugaring!ctx_peek, DP!ctx_peek, Desugaring!ctx_currname, DP!ctx_currname,
      Desugaring!DesugKey, DP!DesugKey, Desugaring!is_symbol, DP!is_symbol,
      Desugaring!code, DP!code, Desugaring!Visit, DP!Visit, Desugaring!At, DP!At,
      Desugaring!Advance, DP!Advance, Desugaring!Reject, DP!Reject, Desugaring!TypeOf,
      DP!TypeOf, Desugaring!Top, DP!Top, Desugaring!Below, DP!Below, Desugaring!Under,
      DP!Under, Desugaring!Leaves, DP!Leaves, Desugaring!LeavesWith, DP!LeavesWith,
      Desugaring!Abort, DP!Abort, Desugaring!Node, DP!Node, Desugaring!DesugLit,
      DP!DesugLit, Desugaring!DesugIdent, DP!DesugIdent, Desugaring!DesugAdd,
      DP!DesugAdd, Desugaring!DesugMul, DP!DesugMul, Desugaring!DesugDeref,
      DP!DesugDeref, Desugaring!DesugRef, DP!DesugRef, Desugaring!DesugAssign,
      DP!DesugAssign, Desugaring!DesugVar, DP!DesugVar, Desugaring!DesugInit,
      DP!DesugInit, Desugaring!DesugCall, DP!DesugCall, Desugaring!DesugArg,
      DP!DesugArg, Desugaring!DesugCalled, DP!DesugCalled, Desugaring!DesugReturn,
      DP!DesugReturn, Desugaring!DesugNext, DP!DesugNext, Desugaring!DesugEnter,
      DP!DesugEnter, Desugaring!DesugLeave, DP!DesugLeave, Desugaring!DesugEnd,
      DP!DesugEnd, Desugaring!Desug, DP!Desug, Desugaring!Front, DP!Front,
      Desugaring!Last, DP!Last, Desugaring!FlattenSeq, DP!FlattenSeq,
      Desugaring!Param, DP!Param, Desugaring!Where, DP!Where, Desugaring!Within, DP!Within,
      Desugaring!Cardinality, DP!Cardinality

\* What is said of the visits of a tree.
LEMMA SameTrees ==
  ASSUME NEW c
  PROVE  /\ Desugaring!WellFormed(c) <=> DP!WellFormed(c)
         /\ \A n : Desugaring!KeyAt(c, n) = DP!KeyAt(c, n)
         /\ Desugaring!Declarations(c) = DP!Declarations(c)
         /\ \A S, i, n : Desugaring!Within(S, i, n) = DP!Within(S, i, n)
         /\ Desugaring!Owners(c) = DP!Owners(c)
         /\ \A n : Desugaring!Enclosing(c, n) = DP!Enclosing(c, n)
<1>1. \A S : Desugaring!Where(c, S) = DP!Where(c, S)
  BY Zenon DEF Desugaring!Where, DP!Where
<1>2. ASSUME NEW S, NEW i, NEW n PROVE Desugaring!Within(S, i, n) = DP!Within(S, i, n)
  BY ZenonT(60) DEF Desugaring!Within, DP!Within, Desugaring!Cardinality, DP!Cardinality
<1>3. \A i, n : Desugaring!Balance(c, i, n) = DP!Balance(c, i, n)
  BY <1>1, <1>2 DEF Desugaring!Balance, DP!Balance, Desugaring!Opens, DP!Opens,
     Desugaring!Closes, DP!Closes
<1>4. \A n : Desugaring!Depth(c, n) = DP!Depth(c, n)
  BY <1>1, <1>2 DEF Desugaring!Depth, DP!Depth, Desugaring!Pushes, DP!Pushes,
     Desugaring!Pops, DP!Pops
<1>5. Desugaring!Declarations(c) = DP!Declarations(c)
  BY <1>1 DEF Desugaring!Declarations, DP!Declarations
<1>6. Desugaring!Owners(c) = DP!Owners(c)
  BY DEF Desugaring!Owners, DP!Owners
<1>7. Desugaring!WellFormed(c) <=> DP!WellFormed(c)
  <2>1. /\ \A op : Desugaring!Needed(op) = DP!Needed(op)
        /\ Desugaring!Ops = DP!Ops /\ Desugaring!SourceIds = DP!SourceIds
        /\ Desugaring!Range(c) = DP!Range(c)
    BY Zenon DEF Desugaring!Needed, DP!Needed, Desugaring!Ops, DP!Ops, Desugaring!Operands,
       DP!Operands, Desugaring!SourceIds, DP!SourceIds, Desugaring!UNRESOLVED, DP!UNRESOLVED,
       Desugaring!VT_CHAR, DP!VT_CHAR, Desugaring!VT_INT, DP!VT_INT, Desugaring!Range, DP!Range
  <2> QED
    BY <1>1, <1>3, <1>4, <1>5, <1>6, <2>1 DEF Desugaring!WellFormed, DP!WellFormed
<1>8. ASSUME NEW n PROVE Desugaring!Enclosing(c, n) = DP!Enclosing(c, n)
  <2>1. Desugaring!OpenAt(c, n) = DP!OpenAt(c, n)
    BY <1>3 DEF Desugaring!OpenAt, DP!OpenAt, Desugaring!Opens, DP!Opens
  <2> QED
    BY <1>3, <2>1 DEF Desugaring!Enclosing, DP!Enclosing
<1>9. ASSUME NEW n PROVE Desugaring!KeyAt(c, n) = DP!KeyAt(c, n)
  <2>1. \A d : Desugaring!FrameAt(c, d) = DP!FrameAt(c, d)
    BY Zenon DEF Desugaring!FrameAt, DP!FrameAt, Desugaring!FileFrame, DP!FileFrame,
       Desugaring!FunFrame, DP!FunFrame
  <2>2. Desugaring!Frames(c, n) = DP!Frames(c, n)
    BY <1>8, <2>1 DEF Desugaring!Frames, DP!Frames
  <2> QED
    BY <2>2 DEF Desugaring!KeyAt, DP!KeyAt, Desugaring!ParseKey, DP!ParseKey,
       Desugaring!ctx_currname, DP!ctx_currname, Desugaring!FlattenSeq, DP!FlattenSeq
<1> QED
  BY <1>2, <1>5, <1>6, <1>7, <1>8, <1>9

\* A step of main.
LEMMA SameDriver ==
  Driving!Next <=> DD!Next
BY ZenonT(60) DEF
      Driving!vars, DD!vars, Driving!given, DD!given, Driving!Exit, DD!Exit,
      Driving!Goes, DD!Goes, Driving!Arg, DD!Arg, Driving!Reads, DD!Reads,
      Driving!Shift, DD!Shift, Driving!Set, DD!Set, Driving!IsOut, DD!IsOut,
      Driving!IsFlag, DD!IsFlag, Driving!Flags, DD!Flags, Driving!ArgOut, DD!ArgOut,
      Driving!ArgFlag, DD!ArgFlag, Driving!ArgFin, DD!ArgFin, Driving!ArgInvalid,
      DD!ArgInvalid, Driving!Asked, DD!Asked, Driving!ArgsDone, DD!ArgsDone,
      Driving!Conflict, DD!Conflict, Driving!Opens, DD!Opens, Driving!NoInput,
      DD!NoInput, Driving!StartParse, DD!StartParse, Driving!CommandLine,
      DD!CommandLine, Driving!ParseFails, DD!ParseFails, Driving!DumpTree, DD!DumpTree,
      Driving!StartDesug, DD!StartDesug, Driving!DesugFails, DD!DesugFails,
      Driving!DumpTyped, DD!DumpTyped, Driving!Emits, DD!Emits, Driving!StartEmit,
      DD!StartEmit, Driving!NoOutput, DD!NoOutput, Driving!NoDirectory, DD!NoDirectory,
      Driving!EmitDone, DD!EmitDone, Driving!SymbolsKilled, DD!SymbolsKilled,
      Driving!Passes, DD!Passes, Driving!Next, DD!Next

\* What is said of the parser.
LEMMA SameParserWords ==
  /\ Parsing!Init <=> PP!Init
  /\ Parsing!TypeOK <=> PP!TypeOK
  /\ PP!file = Parsing!file
  /\ \A nodes : PP!KeysOf(nodes) = Parsing!KeysOf(nodes)
<1>1. Parsing!EndToken = PP!EndToken
  BY Zenon DEF PP!EndToken, Parsing!EndToken
<1>2. Parsing!Init <=> PP!Init
  BY ZenonT(60), <1>1 DEF Parsing!Init, PP!Init
<1>3. Parsing!TypeOK <=> PP!TypeOK
  BY ZenonT(60) DEF Parsing!TypeOK, PP!TypeOK, Parsing!Readable, PP!Readable, Parsing!EndToken,
     PP!EndToken, Parsing!Places, PP!Places, Parsing!Last, PP!Last
<1>4. PP!file = Parsing!file
  BY Zenon DEF PP!file, Parsing!file, PP!Top, Parsing!Top, PP!Last, Parsing!Last
<1>5. ASSUME NEW nodes PROVE PP!KeysOf(nodes) = Parsing!KeysOf(nodes)
  BY ZenonT(60) DEF PP!KeysOf, Parsing!KeysOf, PP!Keys, Parsing!Keys, PP!FunKeys, Parsing!FunKeys,
     PP!LocalKeys, Parsing!LocalKeys, PP!LocalKey, Parsing!LocalKey,
     PP!FlattenSeq, Parsing!FlattenSeq
<1> QED
  BY Zenon, <1>2, <1>3, <1>4, <1>5

\* What is said of ast_desug.
LEMMA SameDesugWords ==
  /\ Desugaring!TypeOK <=> DP!TypeOK
  /\ Desugaring!PassesAgree <=> DP!PassesAgree
<1>1. \A n : Desugaring!Declarations(Desugaring!code) = DP!Declarations(Desugaring!code)
             /\ Desugaring!KeyAt(Desugaring!code, n) = DP!KeyAt(Desugaring!code, n)
  BY Zenon, SameTrees
<1>2. Desugaring!code = DP!code
  BY Zenon DEF Desugaring!code, DP!code
<1>3. Desugaring!TypeOK <=> DP!TypeOK
  BY ZenonT(60) DEF Desugaring!TypeOK, DP!TypeOK, Desugaring!code, DP!code, Desugaring!Owners,
     DP!Owners, Desugaring!SourceIds, DP!SourceIds, Desugaring!Operands, DP!Operands,
     Desugaring!UNRESOLVED, DP!UNRESOLVED, Desugaring!VT_CHAR, DP!VT_CHAR,
     Desugaring!VT_INT, DP!VT_INT
<1>4. Desugaring!PassesAgree <=> DP!PassesAgree
  <2>1. \A n : Desugaring!Enclosing(Desugaring!code, n) = DP!Enclosing(Desugaring!code, n)
    BY Zenon, SameTrees
  <2>2. \A S : Desugaring!Min(S) = DP!Min(S)
    BY ZenonT(60) DEF Desugaring!Min, DP!Min
  <2>3. Desugaring!Visit = DP!Visit
    BY Zenon, <1>2 DEF Desugaring!Visit, DP!Visit
  <2>4. Desugaring!DesugKey(ctx, DP!Visit.name) = DP!DesugKey(ctx, DP!Visit.name)
    BY ZenonT(60) DEF Desugaring!DesugKey, DP!DesugKey, Desugaring!ctx_currname, DP!ctx_currname,
       Desugaring!FlattenSeq, DP!FlattenSeq
  <2>5. /\ Desugaring!At("desug", "ident") <=> DP!At("desug", "ident")
        /\ \A c, ops : Desugaring!Where(c, ops) = DP!Where(c, ops)
        /\ \A e : Desugaring!Last(e) = DP!Last(e)
        /\ Desugaring!ctx_peek = DP!ctx_peek
        /\ \A key : Desugaring!is_symbol(key) <=> DP!is_symbol(key)
    BY Zenon, <2>3 DEF Desugaring!At, DP!At, Desugaring!Where, DP!Where, Desugaring!Last, DP!Last,
       Desugaring!ctx_peek, DP!ctx_peek, Desugaring!is_symbol, DP!is_symbol
  <2> QED
    BY Zenon, <1>1, <1>2, <2>1, <2>2, <2>3, <2>4, <2>5
       DEF Desugaring!PassesAgree, DP!PassesAgree
<1> QED
  BY Zenon, <1>3, <1>4

\* What is said of main.
LEMMA SameDriverWords ==
  /\ Driving!Init <=> DD!Init
  /\ UNCHANGED Driving!vars <=> UNCHANGED DD!vars
  /\ Driving!TypeOK <=> DD!TypeOK
<1>1. Driving!Init <=> DD!Init
  BY ZenonT(60) DEF Driving!Init, DD!Init
<1>2. UNCHANGED Driving!vars <=> UNCHANGED DD!vars
  BY Zenon DEF Driving!vars, DD!vars, Driving!given, DD!given
<1>3. Driving!TypeOK <=> DD!TypeOK
  BY ZenonT(60) DEF Driving!TypeOK, DD!TypeOK, Driving!Words, DD!Words, Driving!Flags, DD!Flags,
     Driving!Phases, DD!Phases
<1> QED
  BY Zenon, <1>1, <1>2, <1>3

\* A step of the contexts and the symbols.
LEMMA SameScopes ==
  PP!Scope!Next <=> Scope!Next
BY ZenonT(60) DEF
      Parsing!Readable, PP!Readable, Parsing!EndToken, PP!EndToken,
      PP!Scope!Binds, Scope!Binds, PP!Scope!Enter, Scope!Enter, PP!Scope!Declare,
      Scope!Declare, PP!Scope!Leave, Scope!Leave, PP!Scope!LeaveDeclaring,
      Scope!LeaveDeclaring, PP!Scope!Forget, Scope!Forget, PP!Scope!Next, Scope!Next,
      PP!Scope!ctx_push, Scope!ctx_push, PP!Scope!ctx_pop, Scope!ctx_pop,
      PP!Scope!ctx_peek, Scope!ctx_peek, PP!Scope!ctx_currname, Scope!ctx_currname,
      PP!Scope!Front, Scope!Front, PP!Scope!Last, Scope!Last, PP!Scope!FlattenSeq,
      Scope!FlattenSeq

\* What is assumed of the parts follows from what is assumed of the whole.
LEMMA PartsAssume ==
  /\ PP!ContextAssumption /\ PP!TokensAssumption
  /\ DP!ContextAssumption /\ DP!ProgramsAssumption
  /\ DD!RunsAssumption
<1>1. PP!ContextAssumption /\ DP!ContextAssumption
  BY ContextAssumption DEF PP!ContextAssumption, DP!ContextAssumption
<1>2. PP!TokensAssumption
  <2>1. PP!EndToken = Parsing!EndToken
    BY Zenon DEF PP!EndToken, Parsing!EndToken
  <2> QED
    BY <2>1, TokensAssumption DEF PP!TokensAssumption, PP!Readable, Parsing!Readable
<1>3. DP!ProgramsAssumption
  BY ProgramsAssumption, SameTrees DEF DP!ProgramsAssumption
<1>4. DD!RunsAssumption
  BY RunsAssumption DEF DD!RunsAssumption
<1> QED
  BY <1>1, <1>2, <1>3, <1>4

-----------------------------------------------------------------------------
(* Where the declarations of a file are visited. *)

\* The visits of DeclVisits are those of the declarations, in their order.
LEMMA VisitsOfDecls ==
  ASSUME NEW c, DP!WellFormed(c)
  PROVE  LET visits == DeclVisits(c)
         IN  /\ Len(visits) \in Nat /\ DOMAIN visits = 1..Len(visits)
             /\ \A k \in DOMAIN visits : visits[k] \in DP!Declarations(c) /\ visits[k] \in Nat
             /\ \A j, k \in DOMAIN visits : j < k => visits[j] < visits[k]
             /\ \A i \in DP!Declarations(c) : \E k \in DOMAIN visits : visits[k] = i
<1> DEFINE D == DP!Declarations(c)
           visits == DeclVisits(c)
           n == Cardinality(D)
           rank(i) == DP!Within(D, 1, i)
<1>1. Len(c) \in Nat /\ D \in SUBSET (1..Len(c))
  <2>1. Len(c) \in Nat /\ DOMAIN c = 1..Len(c)
    BY LenProperties DEF DP!WellFormed
  <2> QED
    BY <2>1 DEF DP!Declarations, DP!Where
<1>2. DP!Cardinality(D) = n
  BY ZenonT(60) DEF DP!Cardinality, Cardinality
<1>3. visits = [k \in 1..n |-> CHOOSE i \in D : rank(i) = k - 1]
  BY SameTrees DEF DeclVisits
<1> HIDE DEF D, visits, n
<1>4. /\ n \in Nat
      /\ \A i \in D : rank(i) \in 0..n - 1
      /\ \A i, j \in D : i < j => rank(i) < rank(j)
      /\ \A k \in 1..n : \E i \in D : rank(i) = k - 1
  BY <1>1, <1>2, PartsAssume, DP!Ranks
<1> HIDE DEF rank
<1>5. Len(visits) = n /\ DOMAIN visits = 1..n
  BY <1>3, <1>4
<1>6. ASSUME NEW k \in 1..n PROVE visits[k] \in D /\ rank(visits[k]) = k - 1
  BY <1>3, <1>4
<1>7. \A i \in D : i \in Nat
  BY <1>1
<1>8. ASSUME NEW i \in D, NEW j \in D, rank(i) = rank(j) PROVE i = j
  <2>1. ~(i < j) /\ ~(j < i)
    BY <1>4, <1>8
  <2> QED
    BY <1>7, <2>1
<1>9. ASSUME NEW j \in 1..n, NEW k \in 1..n, j < k PROVE visits[j] < visits[k]
  <2> SUFFICES ASSUME ~(visits[j] < visits[k]) PROVE FALSE
    OBVIOUS
  <2>1. visits[k] < visits[j] \/ visits[k] = visits[j]
    BY <1>6, <1>7
  <2>2. rank(visits[j]) = j - 1 /\ rank(visits[k]) = k - 1
    BY <1>6
  <2> QED
    BY <1>4, <1>6, <1>9, <2>1, <2>2
<1>10. ASSUME NEW i \in D PROVE \E k \in 1..n : visits[k] = i
  <2>1. PICK r \in 0..n - 1 : rank(i) = r
    BY <1>4
  <2>2. r + 1 \in 1..n /\ r + 1 - 1 = r
    BY <1>4
  <2>3. visits[r + 1] = i
    BY <1>6, <1>8, <2>1, <2>2
  <2> QED
    BY <2>2, <2>3
<1> QED
  BY Zenon, <1>4, <1>5, <1>6, <1>7, <1>9, <1>10 DEF D, visits

-----------------------------------------------------------------------------
(* What is left to emit. *)

\* The ends of functions and modules, which leave a context, are known by how
\* far they are from the end of the list: what is done at its front does not
\* move them.
IsClosing(item) == item.is = "end" /\ item.op \in {"fun", "module"}
Closings(s) == {d \in 0..Len(s) - 1 : IsClosing(s[Len(s) - d])}
Height(s) == Cardinality(Closings(s))

\* A list has finitely many of them.
LEMMA HeightType ==
  ASSUME NEW s, IsSequence(s)
  PROVE  IsFiniteSet(Closings(s)) /\ Height(s) \in Nat
<1>1. Len(s) \in Nat
  BY LenProperties DEF IsSequence
<1>2. IsFiniteSet(0..Len(s) - 1)
  BY <1>1, FS_Interval
<1>3. Closings(s) \in SUBSET (0..Len(s) - 1)
  BY DEF Closings
<1> QED
  BY <1>2, <1>3, FS_Subset, FS_CardinalityType DEF Height

\* What is put in front of a list lies behind it when counted from the end.
LEMMA JoinedClosings ==
  ASSUME NEW u, NEW s, IsSequence(u), IsSequence(s)
  PROVE  /\ IsSequence(u \o s)
         /\ Closings(u \o s) = Closings(s) \union {Len(s) + d : d \in Closings(u)}
<1> DEFINE r == u \o s
           m == Len(u)
           n == Len(s)
<1>1. m \in Nat /\ n \in Nat
  BY LenProperties DEF IsSequence
<1>2. /\ IsSequence(r) /\ Len(r) = m + n
      /\ \A i \in 1..m + n : r[i] = IF i <= m THEN u[i] ELSE s[i - m]
  <2>1. PICK S, T : u \in Seq(S) /\ s \in Seq(T)
    BY DEF IsSequence
  <2>2. u \in Seq(S \union T) /\ s \in Seq(S \union T)
    BY <2>1, WiderSeq
  <2> QED
    BY <2>2, ConcatProperties DEF IsSequence
<1> HIDE DEF r, m, n
<1>3. \A d \in 0..n - 1 : r[m + n - d] = s[n - d]
  BY <1>1, <1>2
<1>4. \A d \in 0..m - 1 : r[m + n - (n + d)] = u[m - d]
  BY <1>1, <1>2
<1>5. ASSUME NEW d
      PROVE  d \in 0..m + n - 1 <=> d \in 0..n - 1 \/ \E e \in 0..m - 1 : d = n + e
  <2>1. ASSUME d \in 0..m + n - 1, d \notin 0..n - 1
        PROVE  d - n \in 0..m - 1 /\ d = n + (d - n)
    BY <1>1, <2>1
  <2>2. \A e \in 0..m - 1 : n + e \in 0..m + n - 1
    BY <1>1
  <2>3. \A e \in 0..n - 1 : e \in 0..m + n - 1
    BY <1>1
  <2> QED
    BY ONLY <2>1, <2>2, <2>3
<1>6. ASSUME NEW d
      PROVE  d \in Closings(r) <=> d \in Closings(s) \/ \E e \in Closings(u) : d = n + e
  <2>1. /\ d \in Closings(r) <=> d \in 0..m + n - 1 /\ IsClosing(r[m + n - d])
        /\ d \in Closings(s) <=> d \in 0..n - 1 /\ IsClosing(s[n - d])
        /\ \A e : e \in Closings(u) <=> e \in 0..m - 1 /\ IsClosing(u[m - e])
    BY <1>2 DEF Closings, m, n
  <2> QED
    BY <1>3, <1>4, <1>5, <2>1
<1>7. Closings(r) = Closings(s) \union {n + d : d \in Closings(u)}
  BY <1>6
<1> QED
  BY <1>2, <1>7 DEF r, n

\* One more closing end is in front, or none.
LEMMA MoreHeight ==
  ASSUME NEW u, NEW s, IsSequence(u), IsSequence(s)
  PROVE  /\ Closings(u) = {} => Height(u \o s) = Height(s)
         /\ Closings(u) = {0} => Height(u \o s) = Height(s) + 1
<1> DEFINE n == Len(s)
<1>1. n \in Nat
  BY LenProperties DEF IsSequence
<1>2. Closings(u \o s) = Closings(s) \union {n + d : d \in Closings(u)}
  BY JoinedClosings
<1>3. IsFiniteSet(Closings(s)) /\ n \notin Closings(s)
  BY <1>1, HeightType DEF Closings
<1> HIDE DEF n
<1>4. ASSUME Closings(u) = {0} PROVE {n + d : d \in Closings(u)} = {n}
  BY <1>1, <1>4
<1>5. ASSUME Closings(u) = {} PROVE {n + d : d \in Closings(u)} = {}
  BY <1>5
<1>6. Closings(u) = {0} => Height(u \o s) = Height(s) + 1
  <2> SUFFICES ASSUME Closings(u) = {0} PROVE Height(u \o s) = Height(s) + 1
    OBVIOUS
  <2>1. Closings(u \o s) = Closings(s) \union {n}
    BY <1>2, <1>4
  <2> QED
    BY <1>3, <2>1, FS_AddElement DEF Height
<1>7. Closings(u) = {} => Height(u \o s) = Height(s)
  BY <1>2, <1>5 DEF Height
<1> QED
  BY <1>6, <1>7

\* The first item is a closing end or not.
LEMMA HeightOfRest ==
  ASSUME NEW s, IsSequence(s), s # <<>>
  PROVE  /\ IsSequence(Tail(s))
         /\ Height(s) = IF IsClosing(Head(s)) THEN Height(Tail(s)) + 1 ELSE Height(Tail(s))
<1> DEFINE u == <<Head(s)>>
<1>1. PICK S : s \in Seq(S)
  BY DEF IsSequence
<1>2. /\ s = u \o Tail(s) /\ IsSequence(u) /\ IsSequence(Tail(s))
      /\ Len(u) = 1 /\ u[1] = Head(s)
  BY <1>1 DEF IsSequence
<1> HIDE DEF u
<1>3. Closings(u) = IF IsClosing(Head(s)) THEN {0} ELSE {}
  <2>1. \A d : d \in 0..Len(u) - 1 <=> d = 0
    BY <1>2
  <2>2. u[Len(u) - 0] = Head(s)
    BY <1>2
  <2> QED
    BY <2>1, <2>2 DEF Closings
<1>4. Height(u \o Tail(s)) = IF IsClosing(Head(s)) THEN Height(Tail(s)) + 1 ELSE Height(Tail(s))
  BY <1>2, <1>3, MoreHeight
<1> QED
  BY <1>2, <1>4

\* A few items, of which only the last one may be a closing end.
LEMMA FewItems ==
  ASSUME NEW a, NEW b, NEW c, NEW d, ~IsClosing(a), ~IsClosing(b), ~IsClosing(c)
  PROVE  /\ IsSequence(<<>>) /\ Closings(<<>>) = {}
         /\ IsSequence(<<a>>) /\ Closings(<<a>>) = {}
         /\ IsSequence(<<a, d>>) /\ Closings(<<a, d>>) = IF IsClosing(d) THEN {0} ELSE {}
         /\ IsSequence(<<a, b, c>>) /\ Closings(<<a, b, c>>) = {}
         /\ IsSequence(<<a, b, c, d>>)
         /\ Closings(<<a, b, c, d>>) = IF IsClosing(d) THEN {0} ELSE {}
<1>1. ASSUME NEW u, Len(u) = 0 PROVE Closings(u) = {}
  BY <1>1 DEF Closings
<1>2. ASSUME NEW u, Len(u) = 1, u[1] = a PROVE Closings(u) = {}
  <2>1. \A e \in 0..1 - 1 : e = 0 /\ 1 - e = 1
    OBVIOUS
  <2> QED
    BY <1>2, <2>1 DEF Closings
<1>3. ASSUME NEW u, Len(u) = 2, u[1] = a, u[2] = d
      PROVE  Closings(u) = IF IsClosing(d) THEN {0} ELSE {}
  <2>1. /\ \A e \in 0..2 - 1 : e = 0 \/ (e = 1 /\ 2 - e = 1)
        /\ 0 \in 0..2 - 1 /\ 2 - 0 = 2
    OBVIOUS
  <2> QED
    BY <1>3, <2>1 DEF Closings
<1>4. ASSUME NEW u, Len(u) = 3, u[1] = a, u[2] = b, u[3] = c PROVE Closings(u) = {}
  <2>1. \A e \in 0..3 - 1 : 3 - e = 1 \/ 3 - e = 2 \/ 3 - e = 3
    OBVIOUS
  <2> QED
    BY <1>4, <2>1 DEF Closings
<1>5. ASSUME NEW u, Len(u) = 4, u[1] = a, u[2] = b, u[3] = c, u[4] = d
      PROVE  Closings(u) = IF IsClosing(d) THEN {0} ELSE {}
  <2>1. /\ \A e \in 0..4 - 1 : e = 0 \/ 4 - e = 1 \/ 4 - e = 2 \/ 4 - e = 3
        /\ 0 \in 0..4 - 1 /\ 4 - 0 = 4
    OBVIOUS
  <2> QED
    BY <1>5, <2>1 DEF Closings
<1>6. Closings(<<>>) = {} /\ Closings(<<a>>) = {}
  BY <1>1, <1>2
<1>7. Closings(<<a, d>>) = IF IsClosing(d) THEN {0} ELSE {}
  BY <1>3
<1>8. Closings(<<a, b, c>>) = {}
  BY <1>4
<1>9. Closings(<<a, b, c, d>>) = IF IsClosing(d) THEN {0} ELSE {}
  BY <1>5
<1> DEFINE S == {a, b, c, d}
<1>10. a \in S /\ b \in S /\ c \in S /\ d \in S
  OBVIOUS
<1> HIDE DEF S
<1>11. <<>> \in Seq(S) /\ <<a>> \in Seq(S) /\ <<a, d>> \in Seq(S)
  BY <1>10
<1>12. <<a, b, c>> \in Seq(S) /\ <<a, b, c, d>> \in Seq(S)
  BY <1>10
<1> QED
  BY Zenon, <1>6, <1>7, <1>8, <1>9, <1>11, <1>12 DEF IsSequence

-----------------------------------------------------------------------------
(* The contexts while C is emitted. *)

\* Every context is to be left, and has a function that was emitted, or none.
Emitting ==
  /\ symbols = <<>>
  /\ IsSequence(todo) /\ IsSequence(argc)
  /\ Height(todo) = Len(ctx)
  /\ \A i \in 1..Len(ctx) : ctx[i].node \in 0..Len(argc)

\* A step does the first thing to do, and puts u in its place.
Does(u) ==
  /\ Emission!Emit
  /\ IsSequence(todo) /\ todo # <<>>
  /\ IsSequence(u) /\ todo' = u \o Tail(todo)
  /\ IsSequence(argc') /\ Len(argc') \in {Len(argc), Len(argc) + 1}
  /\ UNCHANGED symbols
EmitsOn(u) ==
  /\ Does(u) /\ ~IsClosing(Head(todo)) /\ Closings(u) = {}
  /\ UNCHANGED ctx
Opening(u, f) ==
  /\ Does(u) /\ ~IsClosing(Head(todo)) /\ Closings(u) = {0}
  /\ ~Emission!CtxFull /\ ctx' = Append(ctx, f)
  /\ f.node \in 0..Len(argc')
Closing(u) ==
  /\ Does(u) /\ IsClosing(Head(todo)) /\ u = <<>>
  /\ ctx' = Front(ctx) /\ UNCHANGED argc

\* What the items that a step may put in front are.
LEMMA Items ==
  ASSUME NEW x, NEW y
  PROVE  /\ ~IsClosing(Emission!Node(x)) /\ ~IsClosing(Emission!Text(x))
         /\ ~IsClosing(Emission!Each(x, y)) /\ ~IsClosing(Emission!End("var"))
         /\ IsClosing(Emission!End("fun")) /\ IsClosing(Emission!End("module"))
BY DEF IsClosing, Emission!Node, Emission!Text, Emission!Each, Emission!End

\* The steps that enter and leave no context.
LEMMA QuietEmits ==
  ASSUME IsSequence(todo), IsSequence(argc), Emission!Emit,
         \/ Emission!EmitText \/ Emission!EmitLoop \/ Emission!EmitIdent \/ Emission!EmitLiteral
         \/ Emission!EmitBinop \/ Emission!EmitUnop \/ Emission!EmitAssign
         \/ Emission!EmitFuncall \/ Emission!EmitReturn \/ Emission!EmitVdecl
         \/ Emission!EmitVdeclEnd
  PROVE  \E u : EmitsOn(u)
<1>1. /\ todo # <<>> /\ ~IsClosing(Head(todo))
      /\ UNCHANGED <<ctx, symbols>>
      /\ UNCHANGED argc \/ Emission!EmitVdeclEnd
  BY Zenon DEF Emission!EmitText, Emission!EmitLoop, Emission!EmitIdent, Emission!EmitLiteral,
     Emission!EmitBinop, Emission!EmitUnop, Emission!EmitAssign, Emission!EmitFuncall,
     Emission!EmitReturn, Emission!EmitVdecl, Emission!EmitVdeclEnd, Emission!Emits,
     Emission!EmitsNode, Emission!EmitsEnd, IsClosing
<1>2. IsSequence(argc') /\ Len(argc') = Len(argc)
  <2>1. CASE UNCHANGED argc
    BY <2>1
  <2>2. CASE ~UNCHANGED argc
    <3>1. PICK n, x : argc' = [argc EXCEPT ![n] = x]
      BY Zenon, <1>1, <2>2 DEF Emission!EmitVdeclEnd
    <3>2. PICK S : argc \in Seq(S)
      BY DEF IsSequence
    <3>3. Len(argc) \in Nat /\ argc \in [1..Len(argc) -> S]
      BY <3>2, LenProperties
    <3>4. argc' \in [1..Len(argc) -> S \union {x}]
      BY Zenon, <3>1, <3>3
    <3>5. argc' \in Seq(S \union {x}) /\ Len(argc') = Len(argc)
      BY <3>3, <3>4, SeqDef
    <3> QED
      BY <3>5 DEF IsSequence
  <2> QED
    BY <2>1, <2>2
<1>3. \E u : IsSequence(u) /\ Closings(u) = {} /\ todo' = u \o Tail(todo)
  <2>1. CASE Emission!EmitText \/ Emission!EmitIdent \/ Emission!EmitLiteral \/ Emission!EmitVdeclEnd
    <3>1. todo' = <<>> \o Tail(todo)
      BY Zenon, <2>1 DEF Emission!EmitText, Emission!EmitIdent, Emission!EmitLiteral,
         Emission!EmitVdeclEnd, Emission!Continue
    <3> QED
      BY Zenon, <3>1, Items, FewItems
  <2>2. CASE Emission!EmitUnop
    <3>1. PICK x : todo' = <<Emission!Node(x)>> \o Tail(todo)
      BY <2>2 DEF Emission!EmitUnop, Emission!Continue
    <3> QED
      BY Zenon, <3>1, Items, FewItems
  <2>3. CASE Emission!EmitBinop
    <3>1. PICK x, y, z : todo' = <<Emission!Node(x), Emission!Text(y), Emission!Node(z)>> \o Tail(todo)
      BY <2>3 DEF Emission!EmitBinop, Emission!Continue
    <3> QED
      BY Zenon, <3>1, Items, FewItems
  <2>4. CASE Emission!EmitAssign
    <3>1. PICK w, x, y, z :
            todo' = <<Emission!Node(w), Emission!Text(x), Emission!Node(y), Emission!Text(z)>>
                      \o Tail(todo)
      BY Zenon, <2>4 DEF Emission!EmitAssign, Emission!Continue
    <3> QED
      BY Zenon, <3>1, Items, FewItems
  <2>5. CASE Emission!EmitFuncall
    <3>1. PICK x, y, z : todo' = <<Emission!Each(x, y), Emission!Text(z)>> \o Tail(todo)
      BY Zenon, <2>5 DEF Emission!EmitFuncall, Emission!Continue
    <3> QED
      BY Zenon, <3>1, Items, FewItems
  <2>6. CASE Emission!EmitReturn
    <3>1. PICK x, y : todo' = <<Emission!Node(x), Emission!Text(y)>> \o Tail(todo)
      BY Zenon, <2>6 DEF Emission!EmitReturn, Emission!Continue
    <3> QED
      BY Zenon, <3>1, Items, FewItems
  <2>7. CASE Emission!EmitVdecl
    <3>1. PICK x, y : todo' = <<Emission!Each(x, y), Emission!End("var")>> \o Tail(todo)
      BY <2>7 DEF Emission!EmitVdecl, Emission!Continue
    <3> QED
      BY Zenon, <3>1, Items, FewItems
  <2>8. CASE Emission!EmitLoop
    <3>1. \/ todo' = <<>> \o Tail(todo)
          \/ \E x, y, z, w :
               todo' = <<Emission!Node(x), Emission!Text(y), Emission!Each(z, w)>> \o Tail(todo)
      BY Zenon, <2>8 DEF Emission!EmitLoop, Emission!Continue
    <3> QED
      BY Zenon, <3>1, Items, FewItems
  <2> QED
    BY Zenon, <2>1, <2>2, <2>3, <2>4, <2>5, <2>6, <2>7, <2>8
<1> QED
  BY Zenon, <1>1, <1>2, <1>3 DEF EmitsOn, Does

\* Every step is of one of the three kinds.
LEMMA EmitKinds ==
  ASSUME IsSequence(todo), IsSequence(argc), Emission!Emit
  PROVE  \/ \E u : EmitsOn(u)
         \/ \E u, f : Opening(u, f)
         \/ \E u : Closing(u)
<1>1. CASE Emission!EmitFunction
  <2>1. PICK params, body, text, name :
          /\ todo' = <<Emission!Each(params, <<>>), Emission!Text(text),
                       Emission!Each(body, <<>>), Emission!End("fun")>> \o Tail(todo)
          /\ argc' = Append(argc, Len(params))
          /\ ctx' = Append(ctx, Emission!FunFrame(name, Len(argc')))
    BY Zenon, <1>1 DEF Emission!EmitFunction, Emission!Continue, Emission!ctx_push
  <2>2. /\ todo # <<>> /\ ~IsClosing(Head(todo)) /\ UNCHANGED symbols
        /\ ~Emission!CtxFull
    BY Zenon, <1>1 DEF Emission!EmitFunction, Emission!Emits, Emission!EmitsNode, IsClosing
  <2>3. PICK S : argc \in Seq(S)
    BY DEF IsSequence
  <2>4. argc \in Seq(S \union {Len(params)})
    BY <2>3, WiderSeq
  <2>5. IsSequence(argc') /\ Len(argc') = Len(argc) + 1 /\ Len(argc) \in Nat
    BY <2>1, <2>4, AppendProperties, LenProperties DEF IsSequence
  <2> DEFINE u == <<Emission!Each(params, <<>>), Emission!Text(text),
                    Emission!Each(body, <<>>), Emission!End("fun")>>
             f == Emission!FunFrame(name, Len(argc'))
  <2>6. IsSequence(u) /\ Closings(u) = {0}
    BY Zenon, Items, FewItems
  <2>7. f.node \in 0..Len(argc')
    BY <2>5 DEF Emission!FunFrame
  <2>8. todo' = u \o Tail(todo) /\ ctx' = Append(ctx, f)
    BY Zenon, <2>1
  <2> HIDE DEF u, f
  <2>9. Does(u)
    BY Zenon, <2>2, <2>5, <2>6, <2>8 DEF Does
  <2>10. Opening(u, f)
    BY Zenon, <2>2, <2>6, <2>7, <2>8, <2>9 DEF Opening
  <2> QED
    BY Zenon, <2>10
<1>2. CASE Emission!EmitModule
  <2>1. PICK nodes :
          /\ todo' = <<Emission!Each(nodes, <<>>), Emission!End("module")>> \o Tail(todo)
          /\ ctx' = Append(ctx, Emission!FileFrame(0))
    BY <1>2 DEF Emission!EmitModule, Emission!Continue, Emission!ctx_push
  <2>2. /\ todo # <<>> /\ ~IsClosing(Head(todo)) /\ UNCHANGED <<symbols, argc>>
        /\ ~Emission!CtxFull
    BY <1>2 DEF Emission!EmitModule, Emission!Emits, Emission!EmitsNode, IsClosing
  <2> DEFINE u == <<Emission!Each(nodes, <<>>), Emission!End("module")>>
             f == Emission!FileFrame(0)
  <2>3. IsSequence(u) /\ Closings(u) = {0}
    BY Zenon, Items, FewItems
  <2>4. f.node \in 0..Len(argc')
    BY <2>2, LenProperties DEF Emission!FileFrame, IsSequence
  <2>5. todo' = u \o Tail(todo) /\ ctx' = Append(ctx, f)
    BY Zenon, <2>1
  <2> HIDE DEF u, f
  <2>6. Does(u)
    BY Zenon, <2>2, <2>3, <2>5 DEF Does
  <2>7. Opening(u, f)
    BY Zenon, <2>2, <2>3, <2>4, <2>5, <2>6 DEF Opening
  <2> QED
    BY Zenon, <2>7
<1>3. CASE Emission!EmitFunctionEnd \/ Emission!EmitModuleEnd
  <2>1. /\ todo # <<>> /\ IsClosing(Head(todo)) /\ todo' = <<>> \o Tail(todo)
        /\ ctx' = Front(ctx) /\ UNCHANGED <<symbols, argc>>
    BY Zenon, <1>3 DEF Emission!EmitFunctionEnd, Emission!EmitModuleEnd, Emission!Emits,
       Emission!EmitsEnd, Emission!Continue, Emission!ctx_pop, Emission!Front, Front, IsClosing
  <2> QED
    BY <2>1, Lists DEF Closing, Does
<1> QED
  BY <1>1, <1>2, <1>3, QuietEmits DEF Emission!Emit

\* An item more.
LEMMA AppendedSeq ==
  ASSUME NEW s, NEW x, IsSequence(s)
  PROVE  /\ IsSequence(Append(s, x)) /\ Len(s) \in Nat /\ Len(Append(s, x)) = Len(s) + 1
         /\ \A i \in 1..Len(Append(s, x)) : Append(s, x)[i] = IF i <= Len(s) THEN s[i] ELSE x
<1>1. PICK S : s \in Seq(S)
  BY DEF IsSequence
<1>2. s \in Seq(S \union {x})
  BY <1>1, WiderSeq
<1> QED
  BY <1>2, AppendProperties, LenProperties DEF IsSequence

\* The last item less.
LEMMA FrontedSeq ==
  ASSUME NEW s, IsSequence(s), s # <<>>
  PROVE  /\ IsSequence(Front(s)) /\ Len(s) \in Nat \ {0} /\ Len(Front(s)) = Len(s) - 1
         /\ \A i \in 1..Len(Front(s)) : i \in 1..Len(s) /\ Front(s)[i] = s[i]
<1>1. PICK S : s \in Seq(S)
  BY DEF IsSequence
<1>2. Len(s) \in Nat \ {0}
  BY <1>1, EmptySeq, LenProperties
<1>3. 1 \in Nat /\ 1 <= Len(s)
  BY <1>2
<1> DEFINE r == SubSeq(s, 1, Len(s) - 1)
<1>4. /\ r \in Seq(S) /\ Len(r) = Len(s) - 1
      /\ \A i \in 1..(Len(s) - 1) : r[i] = s[i]
  BY Zenon, <1>1, <1>3, StackFacts
<1>5. Front(s) = r
  BY DEF Front
<1> HIDE DEF r
<1>6. \A i \in 1..(Len(s) - 1) : i \in 1..Len(s)
  BY <1>2
<1> QED
  BY Zenon, <1>2, <1>4, <1>5, <1>6 DEF IsSequence

\* A step of the first kind.
LEMMA EmitsOnNext ==
  ASSUME Emitting, NEW u, EmitsOn(u) PROVE Emitting'
<1>1. /\ IsSequence(todo) /\ todo # <<>> /\ IsSequence(u) /\ todo' = u \o Tail(todo)
      /\ IsSequence(argc') /\ Len(argc') \in {Len(argc), Len(argc) + 1}
      /\ UNCHANGED <<ctx, symbols>> /\ ~IsClosing(Head(todo)) /\ Closings(u) = {}
  BY Zenon DEF EmitsOn, Does
<1>2. IsSequence(Tail(todo)) /\ Height(todo) = Height(Tail(todo))
  BY <1>1, HeightOfRest
<1>3. IsSequence(todo') /\ Height(todo') = Height(todo)
  BY <1>1, <1>2, MoreHeight, JoinedClosings
<1>4. Len(argc) \in Nat
  BY LenProperties DEF Emitting, IsSequence
<1>5. \A n \in 0..Len(argc) : n \in 0..Len(argc')
  BY <1>1, <1>4
<1> QED
  BY Zenon, <1>1, <1>3, <1>5 DEF Emitting

\* A step that enters a context.
LEMMA OpeningNext ==
  ASSUME Emitting, IsSequence(ctx), NEW u, NEW f, Opening(u, f) PROVE Emitting'
<1>1. /\ IsSequence(todo) /\ todo # <<>> /\ IsSequence(u) /\ todo' = u \o Tail(todo)
      /\ IsSequence(argc') /\ Len(argc') \in {Len(argc), Len(argc) + 1}
      /\ UNCHANGED symbols /\ ~IsClosing(Head(todo)) /\ Closings(u) = {0}
      /\ ctx' = Append(ctx, f) /\ f.node \in 0..Len(argc')
  BY Zenon DEF Opening, Does
<1>2. IsSequence(Tail(todo)) /\ Height(todo) = Height(Tail(todo))
  BY <1>1, HeightOfRest
<1>3. IsSequence(todo') /\ Height(todo') = Height(todo) + 1
  BY <1>1, <1>2, MoreHeight, JoinedClosings
<1>4. Len(argc) \in Nat
  BY LenProperties DEF Emitting, IsSequence
<1>5. \A n \in 0..Len(argc) : n \in 0..Len(argc')
  BY <1>1, <1>4
<1>6. /\ Len(ctx') = Len(ctx) + 1 /\ Len(ctx) \in Nat
      /\ \A i \in 1..Len(ctx') : ctx'[i] = IF i <= Len(ctx) THEN ctx[i] ELSE f
  BY <1>1, AppendedSeq
<1>7. \A i \in 1..Len(ctx') : ctx'[i].node \in 0..Len(argc')
  BY <1>1, <1>5, <1>6 DEF Emitting
<1> QED
  BY Zenon, <1>1, <1>3, <1>6, <1>7 DEF Emitting

\* A step that leaves one: there is one to leave.
LEMMA ClosingNext ==
  ASSUME Emitting, IsSequence(ctx), NEW u, Closing(u) PROVE Emitting' /\ ctx # <<>>
<1>1. /\ IsSequence(todo) /\ todo # <<>> /\ todo' = <<>> \o Tail(todo)
      /\ IsClosing(Head(todo)) /\ ctx' = Front(ctx) /\ UNCHANGED <<argc, symbols>>
      /\ IsSequence(argc)
  BY Zenon DEF Closing, Does, Emitting
<1>2. IsSequence(Tail(todo)) /\ Height(todo) = Height(Tail(todo)) + 1
  BY <1>1, HeightOfRest
<1>3. todo' = Tail(todo)
  BY <1>1, <1>2 DEF IsSequence
<1>4. Height(Tail(todo)) \in Nat
  BY <1>2, HeightType
<1>5. Len(ctx) # 0
  BY <1>2, <1>4 DEF Emitting
<1>6. ctx # <<>> /\ Len(ctx) \in Nat
  BY <1>5, LenProperties DEF IsSequence
<1>7. Len(ctx') = Len(ctx) - 1 /\ \A i \in 1..Len(ctx') : i \in 1..Len(ctx) /\ ctx'[i] = ctx[i]
  BY <1>1, <1>6, FrontedSeq
<1>8. Height(todo') = Len(ctx')
  <2>1. Len(ctx) = Height(Tail(todo)) + 1
    BY <1>2 DEF Emitting
  <2> QED
    BY <1>3, <1>4, <1>7, <2>1
<1> QED
  BY Zenon, <1>1, <1>2, <1>3, <1>6, <1>7, <1>8 DEF Emitting

\* The emission leaves every context it has entered.
LEMMA EmittingNext ==
  ASSUME Emitting, IsSequence(ctx), Emission!Emit PROVE Emitting'
<1>1. IsSequence(todo) /\ IsSequence(argc)
  BY DEF Emitting
<1> QED
  BY Zenon, <1>1, EmitKinds, EmitsOnNext, OpeningNext, ClosingNext

\* It starts with none.
LEMMA EmittingStarts ==
  ASSUME NEW nodes, Emission!OpenOutput(nodes), ctx = <<>>
  PROVE  Emitting' /\ ctx' = <<>>
<1>1. /\ todo' = <<Emission!Node(Emission!Module(nodes))>> /\ symbols' = <<>>
      /\ argc' = <<>> /\ ctx' = <<>>
  BY Zenon DEF Emission!OpenOutput
<1>2. IsSequence(todo') /\ Closings(todo') = {} /\ IsSequence(argc')
  BY Zenon, <1>1, Items, FewItems
<1>3. Height(todo') = 0
  BY <1>2, FS_EmptySet DEF Height
<1> QED
  BY <1>1, <1>2, <1>3 DEF Emitting

-----------------------------------------------------------------------------
(* main, with the passes in. *)

\* Every step is one of Driver, or nothing that main sees.
LEMMA DriverStep ==
  [Next]_vars => [Driving!Next]_(Driving!vars)
<1> DEFINE seen == Driving!vars
<1>1. UNCHANGED driverVars => UNCHANGED seen
  BY Zenon DEF driverVars, Driving!vars, Driving!given
<1>2. CASE UNCHANGED vars
  BY Zenon, <1>1, <1>2 DEF vars
<1>3. CASE CommandLine
  BY Zenon, <1>3 DEF CommandLine, Driving!Next
<1>4. CASE ParseStep \/ DesugStep \/ EmitStep
  BY Zenon, <1>1, <1>4 DEF ParseStep, DesugStep, EmitStep
<1>5. CASE \/ ParseFails \/ StartDesug \/ SymbolsKilled \/ NoOutput \/ NoDirectory
           \/ StartEmit \/ EmitDone
  BY Zenon, <1>5 DEF ParseFails, StartDesug, SymbolsKilled, NoOutput, NoDirectory, StartEmit,
     EmitDone, Driving!Passes, Driving!Next
<1>6. CASE DumpTree
  <2>1. \E code \in {0, -1} : Driving!DumpTree(code)
    BY <1>6 DEF DumpTree
  <2> QED
    BY Zenon, <2>1 DEF Driving!Passes, Driving!Next
<1>7. CASE DumpTyped
  <2>1. \E code \in {0, -1} : Driving!DumpTyped(code)
    BY <1>7 DEF DumpTyped
  <2> QED
    BY Zenon, <2>1 DEF Driving!Passes, Driving!Next
<1>8. CASE DesugFails
  <2>1. \E code \in {1, -1} : Driving!DesugFails(code)
    BY <1>8 DEF DesugFails
  <2> QED
    BY Zenon, <2>1 DEF Driving!Passes, Driving!Next
<1> QED
  BY Zenon, <1>2, <1>3, <1>4, <1>5, <1>6, <1>7, <1>8 DEF Next, Passes

\* What Driver guarantees by itself holds with the passes in.
LEMMA DriverInvHolds ==
  Spec => []DD!DriverInv
<1>1. Init => DD!DriverInv
  BY Zenon, PartsAssume, SameDriverWords, DD!InitInv DEF Init
<1>2. DD!DriverInv /\ [Next]_vars => DD!DriverInv'
  <2> SUFFICES ASSUME DD!DriverInv, [Next]_vars PROVE DD!DriverInv'
    OBVIOUS
  <2>1. DD!CommandLine \/ DD!Passes \/ UNCHANGED DD!vars
    BY Zenon, DriverStep, SameDriver, SameDriverWords DEF DD!Next
  <2> QED
    BY Zenon, <2>1, PartsAssume, DD!CommandLineInv, DD!PassesInv, DD!StutterInv
<1> QED
  BY <1>1, <1>2, PTL DEF Spec

-----------------------------------------------------------------------------
(* What is written. *)

\* Nothing is written before the last pass, which begins for accepted files and
\* with no dump.
Written ==
  /\ phase \in {"args", "parse", "desug"} => out = <<>>
  /\ phase = "desug" => ~Driving!Asked("--ast")
  /\ phase = "emit" =>
       ~Driving!Asked("--ast") /\ ~Driving!Asked("--irep") /\ typing = "accepted"
  /\ OutputOnlyAccepted

\* The steps by which main exits.
Exits == \/ ParseFails \/ DumpTree \/ DesugFails \/ DumpTyped \/ SymbolsKilled \/ NoOutput
         \/ NoDirectory \/ EmitDone

\* When main exits the passes have done what they have done.
LEMMA ExitsQuietly ==
  ASSUME Exits
  PROVE  /\ phase' = "exit" /\ UNCHANGED <<argv, args, disk, opts, source>>
         /\ UNCHANGED <<ctx, parserVars, desugVars, emitVars>>
         /\ UNCHANGED symbols \/ (NoOutput /\ symbols' = <<>>)
<1>1. UNCHANGED passVars \/ NoOutput
  BY Zenon DEF Exits, ParseFails, DumpTree, DesugFails, DumpTyped, SymbolsKilled, NoDirectory,
     EmitDone
<1>2. UNCHANGED passVars =>
        UNCHANGED <<ctx, parserVars, desugVars, emitVars>> /\ UNCHANGED symbols
  BY Zenon DEF passVars
<1>3. NoOutput => UNCHANGED <<ctx, parserVars, desugVars, emitVars>> /\ symbols' = <<>>
  BY Zenon DEF NoOutput
<1>4. \E code : Driving!Exit(code)
  BY Zenon DEF Exits, ParseFails, DumpTree, DesugFails, DumpTyped, SymbolsKilled, NoOutput,
     NoDirectory, EmitDone, Driving!ParseFails, Driving!DumpTree, Driving!DesugFails,
     Driving!DumpTyped, Driving!SymbolsKilled, Driving!NoOutput, Driving!NoDirectory,
     Driving!EmitDone
<1>5. phase' = "exit" /\ UNCHANGED <<argv, args, disk, opts, source>>
  BY Zenon, <1>4 DEF Driving!Exit, Driving!given
<1> QED
  BY Zenon, <1>1, <1>2, <1>3, <1>5

\* The command line is read before the first pass begins.
LEMMA LineFirst ==
  ASSUME CommandLine
  PROVE  /\ phase = "args" /\ phase' \in {"args", "parse", "exit"}
         /\ disk' = disk /\ UNCHANGED passVars
<1>1. Driving!CommandLine /\ UNCHANGED passVars
  BY Zenon DEF CommandLine
<1>2. phase = "args"
  BY Zenon, <1>1 DEF Driving!CommandLine, Driving!ArgOut, Driving!ArgFlag, Driving!ArgFin,
     Driving!ArgInvalid, Driving!Conflict, Driving!NoInput, Driving!StartParse,
     Driving!Reads, Driving!Opens, Driving!ArgsDone
<1>3. phase' \in {"args", "parse", "exit"} /\ disk' = disk
  BY Zenon, <1>1, <1>2 DEF Driving!CommandLine, Driving!ArgOut, Driving!ArgFlag, Driving!ArgFin,
     Driving!ArgInvalid, Driving!Conflict, Driving!NoInput, Driving!StartParse,
     Driving!Exit, Driving!given
<1> QED
  BY Zenon, <1>1, <1>2, <1>3

\* An output is opened, and written, only where the file was accepted and no dump was
\* asked for, whatever becomes of the run afterwards (main.c).
LEMMA WrittenNext ==
  ASSUME Written, [Next]_vars PROVE Written'
<1>1. CASE UNCHANGED vars
  <2>1. UNCHANGED <<phase, opts, typing, out>>
    BY Zenon, <1>1 DEF vars, driverVars, passVars, desugVars, emitVars
  <2> QED
    BY Zenon, <2>1 DEF Written, OutputOnlyAccepted, Driving!Asked
<1>2. CASE CommandLine
  <2>1. phase = "args" /\ phase' \in {"args", "parse", "exit"} /\ out' = out
    BY Zenon, <1>2, LineFirst DEF passVars, emitVars
  <2>2. out' = <<>> /\ phase' # "desug" /\ phase' # "emit"
    BY Zenon, <2>1 DEF Written
  <2> QED
    BY Zenon, <2>2 DEF Written, OutputOnlyAccepted
<1>3. CASE Exits
  <2>1. phase' = "exit" /\ UNCHANGED <<opts, typing, out>>
    BY Zenon, <1>3, ExitsQuietly DEF desugVars, emitVars
  <2> QED
    BY Zenon, <2>1 DEF Written, OutputOnlyAccepted, Driving!Asked
<1>4. CASE ParseStep
  <2>1. UNCHANGED <<phase, opts, typing, out>>
    BY Zenon, <1>4 DEF ParseStep, driverVars, desugVars, emitVars
  <2> QED
    BY Zenon, <2>1 DEF Written, OutputOnlyAccepted, Driving!Asked
<1>5. CASE StartDesug
  <2>1. phase = "parse" /\ phase' = "desug" /\ ~Driving!Asked("--ast") /\ opts' = opts /\ out' = out
    BY Zenon, <1>5 DEF StartDesug, Driving!StartDesug, Driving!Goes, emitVars
  <2> QED
    BY Zenon, <2>1 DEF Written, OutputOnlyAccepted, Driving!Asked
<1>6. CASE DesugStep
  <2>1. phase = "desug" /\ UNCHANGED <<phase, opts, out>>
    BY Zenon, <1>6 DEF DesugStep, driverVars, emitVars
  <2> QED
    BY Zenon, <2>1 DEF Written, OutputOnlyAccepted, Driving!Asked
<1>7. CASE StartEmit
  <2>1. /\ phase = "desug" /\ phase' = "emit" /\ ~Driving!Asked("--irep")
        /\ typing = "accepted" /\ UNCHANGED <<opts, typing, out>>
    BY Zenon, <1>7 DEF StartEmit, Driving!StartEmit, Driving!Emits, Driving!Goes, OpenEmission,
       Emission!OpenOutput, desugVars
  <2> QED
    BY Zenon, <2>1 DEF Written, OutputOnlyAccepted, Driving!Asked
<1>8. CASE EmitStep
  <2>1. phase = "emit" /\ UNCHANGED <<phase, opts, typing>>
    BY Zenon, <1>8 DEF EmitStep, driverVars, desugVars
  <2> QED
    BY Zenon, <2>1 DEF Written, OutputOnlyAccepted, Driving!Asked
<1> QED
  BY Zenon, <1>1, <1>2, <1>3, <1>4, <1>5, <1>6, <1>7, <1>8 DEF Next, Passes, Exits

\* Whatever the sources and the command line, an output is opened, and C is written,
\* only for a file that the two passes have accepted, and not when a dump is asked for.
THEOREM WrittenOnlyAccepted ==
  Spec => []OutputOnlyAccepted
<1>1. Init => Written
  BY Zenon DEF Init, Driving!Init, Written, OutputOnlyAccepted
<1>2. Written /\ [Next]_vars => Written'
  BY WrittenNext
<1>3. Written => OutputOnlyAccepted
  BY DEF Written
<1> QED
  BY <1>1, <1>2, <1>3, PTL DEF Spec

-----------------------------------------------------------------------------
(* What a pass leaves to the next one. *)

\* Each pass has its own invariant; the next ones have not begun.
Unwritten == todo = <<>> /\ out = <<>> /\ argc = <<>>
Reading ==
  /\ PP!DeclInv /\ (syntax = "parsed" => ctx = <<>>)
  /\ typing = "running" /\ pc = 1 /\ operands = <<>> /\ Unwritten
Resolving ==
  /\ DP!IInv /\ DP!SymbolsKeyed /\ (typing = "accepted" => ctx = <<>>)
  /\ Unwritten
Contexts == IsSequence(ctx) /\ Len(ctx) <= MAX_CONTEXT

Handed ==
  /\ \E run \in Runs : disk = run.disk
  /\ Contexts
  /\ phase \in {"args", "parse"} => Reading
  /\ phase = "desug" => Resolving
  /\ phase = "emit" => Emitting

\* What the parser has done stays done while nothing happens to it, ...
LEMMA ReadingKept ==
  ASSUME Reading, UNCHANGED passVars PROVE Reading'
<1>1. UNCHANGED <<cur, read, calls, value, made, syntax, ctx, symbols, typing, pc, operands,
                  todo, out, argc>>
  BY Zenon DEF passVars, parserVars, desugVars, emitVars
<1>2. UNCHANGED PP!vars
  BY Zenon, <1>1 DEF PP!vars
<1>3. PP!DeclInv'
  BY Zenon, <1>2, PartsAssume, PP!DeclNext DEF Reading
<1> QED
  BY Zenon, <1>1, <1>3 DEF Reading, Unwritten

\* ... and a step of it leaves no scope open at the end of the file.
LEMMA ReadingNext ==
  ASSUME Reading, ParseStep PROVE Reading'
<1>1. PP!Next
  BY Zenon, SameParser DEF ParseStep
<1>2. UNCHANGED <<typing, pc, operands, todo, out, argc>>
  BY Zenon DEF ParseStep, desugVars, emitVars
<1>3. PP!DeclInv'
  BY Zenon, <1>1, PartsAssume, PP!DeclNext DEF Reading
<1>4. PP!IInv
  BY Zenon DEF Reading, PP!DeclInv
<1>5. syntax' = "parsed" => ctx' = <<>>
  BY Zenon, <1>1, <1>4, PartsAssume, PP!ParsedEmpty
<1> QED
  BY Zenon, <1>2, <1>3, <1>5 DEF Reading, Unwritten

\* A step of ast_desug, or none.
LEMMA ResolvingNext ==
  ASSUME Resolving, DesugStep \/ UNCHANGED passVars PROVE Resolving'
<1>1. /\ UNCHANGED <<todo, out, argc>>
      /\ DP!Next \/ (UNCHANGED DP!vars /\ UNCHANGED <<typing, ctx>>)
      /\ DP!Desug \/ UNCHANGED <<typing, ctx>>
  <2>1. CASE DesugStep
    <3>1. DP!Desug
      BY Zenon, <2>1, SameDesug DEF DesugStep
    <3>2. UNCHANGED <<todo, out, argc>>
      BY Zenon, <2>1 DEF DesugStep, emitVars
    <3> QED
      BY Zenon, <3>1, <3>2 DEF DP!Next
  <2>2. CASE UNCHANGED passVars
    <3>1. UNCHANGED <<prog, typing, pc, ctx, table, types, operands, todo, out, argc>>
      BY Zenon, <2>2 DEF passVars, desugVars, emitVars
    <3> QED
      BY Zenon, <3>1 DEF DP!vars
  <2> QED
    BY Zenon, <2>1, <2>2
<1>2. DP!IInv /\ DP!SymbolsKeyed
  BY Zenon DEF Resolving
<1>3. DP!IInv'
  BY Zenon, <1>1, <1>2, PartsAssume, DP!NextInv
<1>4. DP!SymbolsKeyed'
  BY Zenon, <1>1, <1>2, PartsAssume, DP!KeyedNext
<1>5. typing' = "accepted" => ctx' = <<>>
  BY Zenon, <1>1, <1>2, PartsAssume, DP!ContextSteps DEF Resolving
<1> QED
  BY Zenon, <1>1, <1>3, <1>4, <1>5 DEF Resolving, Unwritten

-----------------------------------------------------------------------------
(* The contexts and the symbols. *)

\* What the passes do to them.
Opened == ~(Len(ctx) >= MAX_CONTEXT) /\ (\E f : ctx' = Append(ctx, f)) /\ symbols' = symbols
Closed == ctx # <<>> /\ ctx' = Front(ctx) /\ symbols' = symbols
Emptied == ctx = <<>> /\ ctx' = ctx /\ symbols' = <<>>

\* It is what context.c is for.
LEMMA Moves ==
  ASSUME Contexts, UNCHANGED <<ctx, symbols>> \/ Opened \/ Closed \/ Emptied
  PROVE  [Scope!Next]_<<ctx, symbols>>
<1>1. CASE Opened
  <2>1. PICK f : ctx' = Append(ctx, f)
    BY Zenon, <1>1 DEF Opened
  <2>2. /\ Len(ctx) \in Nat /\ IsSequence(ctx') /\ Len(ctx') = Len(ctx) + 1
        /\ ctx'[Len(ctx')] = f
    BY <2>1, AppendedSeq DEF Contexts
  <2>3. ctx' # <<>>
    BY <2>2
  <2>4. Len(ctx) < MAX_CONTEXT
    BY <1>1, <2>2, ContextAssumption DEF Opened
  <2>5. Scope!Last(ctx') = f
    BY Zenon, <2>2 DEF Scope!Last
  <2> QED
    BY Zenon, <1>1, <2>1, <2>3, <2>4, <2>5 DEF Opened, Scope!Next, Scope!Enter, Scope!ctx_push
<1>2. CASE Closed
  BY Zenon, <1>2 DEF Closed, Scope!Next, Scope!Leave, Scope!ctx_pop, Scope!Front, Front
<1>3. CASE Emptied
  BY Zenon, <1>3 DEF Emptied, Scope!Next, Scope!Forget
<1> QED
  BY Zenon, <1>1, <1>2, <1>3

\* There are never more than context.c has room for.
LEMMA ContextsNext ==
  ASSUME Contexts, [Scope!Next]_<<ctx, symbols>> PROVE Contexts'
<1>1. CASE UNCHANGED ctx
  BY <1>1 DEF Contexts
<1>2. CASE Scope!Enter
  <2>1. PICK f : ctx' = Append(ctx, f)
    BY Zenon, <1>2 DEF Scope!Enter, Scope!ctx_push
  <2>2. Len(ctx) \in Nat /\ IsSequence(ctx') /\ Len(ctx') = Len(ctx) + 1
    BY <2>1, AppendedSeq DEF Contexts
  <2>3. Len(ctx) < MAX_CONTEXT
    BY <1>2 DEF Scope!Enter
  <2> QED
    BY <2>2, <2>3, ContextAssumption DEF Contexts
<1>3. CASE ctx # <<>> /\ ctx' = Front(ctx)
  <2>1. Len(ctx) \in Nat /\ IsSequence(ctx') /\ Len(ctx') = Len(ctx) - 1
    BY <1>3, FrontedSeq DEF Contexts
  <2> QED
    BY <2>1, ContextAssumption DEF Contexts
<1>4. UNCHANGED ctx \/ Scope!Enter \/ (ctx # <<>> /\ ctx' = Front(ctx))
  BY Zenon DEF Scope!Next, Scope!Declare, Scope!Leave, Scope!LeaveDeclaring, Scope!Forget,
     Scope!ctx_pop, Scope!Front, Front
<1> QED
  BY Zenon, <1>1, <1>2, <1>3, <1>4

\* Every step of every pass does what context.c is for.
LEMMA ScopeStep ==
  ASSUME Handed, [Next]_vars PROVE [Scope!Next]_<<ctx, symbols>>
<1>1. CASE UNCHANGED passVars \/ UNCHANGED vars \/ StartDesug
  BY Zenon, <1>1 DEF vars, passVars, StartDesug
<1>2. CASE ParseStep
  <2>1. PP!Next /\ PP!IInv
    BY Zenon, <1>2, SameParser DEF ParseStep, Handed, Reading, PP!DeclInv
  <2>2. [PP!Scope!Next]_<<ctx, symbols>>
    BY Zenon, <2>1, PartsAssume, PP!ScopeStep
  <2> QED
    BY Zenon, <2>2, SameScopes
<1>3. CASE DesugStep
  <2>1. DP!Desug /\ DP!IInv /\ symbols' = symbols
    BY Zenon, <1>3, SameDesug DEF DesugStep, Handed, Resolving
  <2>2. \/ UNCHANGED ctx
        \/ ~DP!CtxFull /\ \E f : ctx' = Append(ctx, f)
        \/ ctx # <<>> /\ ctx' = DP!Front(ctx)
    BY Zenon, <2>1, PartsAssume, DP!ContextSteps
  <2>3. UNCHANGED <<ctx, symbols>> \/ Opened \/ Closed
    BY Zenon, <2>1, <2>2 DEF Opened, Closed, DP!CtxFull, DP!Front, Front
  <2> QED
    BY Zenon, <2>3, Moves DEF Handed
<1>4. CASE StartEmit \/ NoOutput
  <2>1. Driving!Emits /\ typing = "accepted" /\ ctx' = ctx /\ symbols' = <<>>
    BY Zenon, <1>4 DEF StartEmit, NoOutput, OpenEmission, Emission!OpenOutput,
       Driving!StartEmit, Driving!NoOutput
  <2>2. Emptied
    BY Zenon, <2>1 DEF Driving!Emits, Handed, Resolving, Emptied
  <2> QED
    BY Zenon, <2>2, Moves DEF Handed
<1>5. CASE EmitStep
  <2>1. Emission!Emit /\ Emitting /\ Contexts
    BY Zenon, <1>5 DEF EmitStep, Handed
  <2>2. \/ \E u : EmitsOn(u)
        \/ \E u, f : Opening(u, f)
        \/ \E u : Closing(u)
    BY Zenon, <2>1, EmitKinds DEF Emitting
  <2>3. UNCHANGED <<ctx, symbols>> \/ Opened \/ Closed
    <3>1. \A u : EmitsOn(u) => UNCHANGED <<ctx, symbols>>
      BY Zenon DEF EmitsOn, Does
    <3>2. \A u, f : Opening(u, f) => Opened
      BY Zenon DEF Opening, Does, Opened, Emission!CtxFull
    <3>3. \A u : Closing(u) => Closed
      BY Zenon, <2>1, ClosingNext DEF Closing, Does, Closed, Contexts
    <3> QED
      BY Zenon, <2>2, <3>1, <3>2, <3>3
  <2> QED
    BY Zenon, <2>1, <2>3, Moves
<1>6. CASE \/ ParseFails \/ DumpTree \/ DesugFails \/ DumpTyped \/ SymbolsKilled \/ NoDirectory
           \/ EmitDone
  BY Zenon, <1>1, <1>6 DEF ParseFails, DumpTree, DesugFails, DumpTyped, SymbolsKilled, NoDirectory,
     EmitDone
<1>7. CASE CommandLine
  BY Zenon, <1>1, <1>7 DEF CommandLine
<1> QED
  BY Zenon, <1>1, <1>2, <1>3, <1>4, <1>5, <1>6, <1>7 DEF Next, Passes

-----------------------------------------------------------------------------
(* From the parser to ast_desug. *)

\* The invariant of ast_desug holds where it starts, with a table of declarations.
LEMMA FreshResolves ==
  DP!Fresh' /\ DP!SymbolsOK' => DP!IInv'
BY PartsAssume, DP!FreshInv, PTL

\* The table that the parser leaves is the one that ast_desug needs: every key has a
\* declaration under that key, and no later one than any that has it.
LEMMA ResolvingStarts ==
  ASSUME Handed, DD!DriverInv, TreeIsTheSource, StartDesug
  PROVE  Resolving'
<1> DEFINE f == Parsing!file
           c == ProgramOf(f).code
           keys == Parsing!KeysOf(f)
           visits == DeclVisits(c)
<1>1. /\ phase = "parse" /\ syntax = "parsed" /\ Reading /\ ctx = <<>>
      /\ prog' = ProgramOf(f)
      /\ types' = [i \in Desugaring!Owners(c) |-> c[i].type]
      /\ table' = [k \in DOMAIN symbols |-> visits[symbols[k]]]
      /\ UNCHANGED <<ctx, typing, pc, operands, todo, out, argc>>
  <2>1. phase = "parse" /\ syntax = "parsed" /\ UNCHANGED <<ctx, typing, pc, operands, todo, out, argc>>
    BY Zenon DEF StartDesug, Driving!StartDesug, emitVars
  <2>2. Reading /\ ctx = <<>>
    BY Zenon, <2>1 DEF Handed, Reading
  <2> QED
    BY Zenon, <2>1, <2>2 DEF StartDesug
<1>2. f = source.file /\ source \in Sources
  <2>1. f = source.file
    BY Zenon, <1>1 DEF TreeIsTheSource
  <2>2. source \in {disk[p] : p \in DOMAIN disk}
    BY Zenon, <1>1 DEF DD!DriverInv, DD!TypeOK
  <2>3. PICK run \in Runs : disk = run.disk
    BY Zenon DEF Handed
  <2>4. source \in {run.disk[p] : p \in DOMAIN run.disk}
    BY Zenon, <2>2, <2>3
  <2>5. source \in Sources
    BY <2>4 DEF Sources
  <2> QED
    BY Zenon, <2>1, <2>5
<1>3. /\ DP!WellFormed(c) /\ keys \in Seq(Seq(STRING)) /\ Len(keys) = Len(visits)
      /\ \A k \in DOMAIN keys : DP!KeyAt(c, visits[k]) = keys[k]
  BY Zenon, <1>2, ProgramsAssumption, SameTrees
<1>4. /\ Len(visits) \in Nat /\ DOMAIN visits = 1..Len(visits)
      /\ \A k \in DOMAIN visits : visits[k] \in DP!Declarations(c) /\ visits[k] \in Nat
      /\ \A j, k \in DOMAIN visits : j < k => visits[j] < visits[k]
      /\ \A i \in DP!Declarations(c) : \E k \in DOMAIN visits : visits[k] = i
  BY Zenon, <1>3, VisitsOfDecls
<1>5. /\ made = Len(keys) /\ DOMAIN symbols = {keys[i] : i \in DOMAIN keys}
      /\ \A i \in DOMAIN keys : keys[symbols[keys[i]]] = keys[i] /\ symbols[keys[i]] <= i
      /\ \A k \in DOMAIN symbols : symbols[k] \in 1..made
  <2>1. PP!FileKeys = keys
    BY Zenon, SameParserWords DEF PP!FileKeys
  <2>2. PP!SymbolsOfFile /\ PP!IInv
    BY Zenon, <1>1 DEF Reading, PP!DeclInv
  <2>3. PP!TypeOK
    BY Zenon, <2>2, PartsAssume, PP!InvTypes
  <2> QED
    BY Zenon, <1>1, <2>1, <2>2, <2>3 DEF PP!SymbolsOfFile, PP!TypeOK
<1> HIDE DEF f, c, keys, visits
<1>6. DOMAIN keys = DOMAIN visits /\ DOMAIN visits = 1..made
  BY <1>3, <1>4, <1>5, LenProperties
<1>7. ASSUME NEW k \in DOMAIN symbols
      PROVE  /\ table'[k] = visits[symbols[k]] /\ table'[k] \in DP!Declarations(c)
             /\ DP!KeyAt(c, table'[k]) = k
  <2>1. PICK i \in DOMAIN keys : k = keys[i]
    BY Zenon, <1>5, <1>7
  <2>2. symbols[k] \in DOMAIN keys /\ keys[symbols[k]] = k
    BY Zenon, <1>5, <1>6, <1>7, <2>1
  <2>3. table'[k] = visits[symbols[k]]
    BY <1>1, <1>7
  <2> QED
    BY Zenon, <1>3, <1>4, <1>6, <2>2, <2>3
<1>8. ASSUME NEW j \in DP!Declarations(c)
      PROVE  DP!KeyAt(c, j) \in DOMAIN symbols /\ table'[DP!KeyAt(c, j)] <= j
  <2>1. PICK m \in DOMAIN visits : visits[m] = j
    BY Zenon, <1>4, <1>8
  <2>2. DP!KeyAt(c, j) = keys[m] /\ m \in DOMAIN keys
    BY Zenon, <1>3, <1>6, <2>1
  <2>3. keys[m] \in DOMAIN symbols /\ symbols[keys[m]] <= m
    BY Zenon, <1>5, <2>2
  <2>4. symbols[keys[m]] \in DOMAIN visits /\ m \in DOMAIN visits
    BY Zenon, <1>5, <1>6, <2>2, <2>3
  <2>5. visits[symbols[keys[m]]] <= visits[m]
    <3> DEFINE n == symbols[keys[m]]
    <3>1. n \in 1..made /\ m \in 1..made /\ n <= m
      BY Zenon, <1>6, <2>3, <2>4
    <3> HIDE DEF n
    <3>2. n = m \/ n < m
      BY <3>1
    <3>3. visits[n] = visits[m] \/ visits[n] < visits[m]
      BY Zenon, <1>4, <1>6, <3>1, <3>2
    <3>4. visits[n] \in Nat /\ visits[m] \in Nat
      BY Zenon, <1>4, <1>6, <3>1
    <3>5. visits[n] <= visits[m]
      BY <3>3, <3>4
    <3> QED
      BY Zenon, <3>5 DEF n
  <2> QED
    BY Zenon, <1>7, <2>1, <2>2, <2>3, <2>5
<1>9. DOMAIN table' = DOMAIN symbols /\ DP!code' = c
  BY Zenon, <1>1 DEF DP!code, c
<1>10. DP!Declarations(c) \subseteq DP!Owners(c) /\ DP!Where(c, {"var"}) \subseteq DP!Declarations(c)
  BY DEF DP!Declarations, DP!Where, DP!Owners
<1>11. DP!Fresh'
  <2>1. prog' \in {ProgramOf(s.file) : s \in Sources}
    BY Zenon, <1>1, <1>2
  <2>2. types' = [i \in DP!Owners(c) |-> c[i].type]
    BY Zenon, <1>1, SameTrees
  <2>3. typing' = "running" /\ pc' = 1 /\ ctx' = <<>> /\ operands' = <<>>
    BY Zenon, <1>1 DEF Reading
  <2> QED
    BY Zenon, <1>9, <2>1, <2>2, <2>3 DEF DP!Fresh
<1>12. DP!SymbolsOK'
  BY Zenon, <1>7, <1>9, <1>10 DEF DP!SymbolsOK
<1>13. DP!SymbolsKeyed'
  BY Zenon, <1>7, <1>8, <1>9, <1>10 DEF DP!SymbolsKeyed
<1>14. DP!IInv'
  BY Zenon, <1>11, <1>12, FreshResolves
<1>15. ctx' = <<>> /\ Unwritten'
  BY Zenon, <1>1 DEF Reading, Unwritten
<1> QED
  BY Zenon, <1>13, <1>14, <1>15 DEF Resolving

-----------------------------------------------------------------------------
(* Every step. *)

\* Nothing is open or declared when cmlc starts.
LEMMA HandedInit ==
  Init => Handed
<1> SUFFICES ASSUME Init PROVE Handed
  OBVIOUS
<1>1. Driving!Init /\ Parsing!Init /\ phase = "args"
  BY Zenon DEF Init, Driving!Init
<1>2. PP!DeclInv
  BY Zenon, <1>1, SameParserWords, PartsAssume, PP!DeclInit
<1>3. ctx = <<>>
  BY Zenon, <1>1 DEF Parsing!Init
<1>4. Reading
  BY Zenon, <1>2, <1>3 DEF Init, Reading, Unwritten
<1>5. Contexts
  <2>1. IsSequence(<<>>)
    BY Zenon, Lists
  <2>2. Len(<<>>) <= MAX_CONTEXT
    BY ContextAssumption
  <2> QED
    BY Zenon, <1>3, <2>1, <2>2 DEF Contexts
<1>6. \E run \in Runs : disk = run.disk
  BY Zenon, <1>1 DEF Driving!Init
<1> QED
  BY Zenon, <1>1, <1>4, <1>5, <1>6 DEF Handed

\* Where the source is parsed as it was written, each pass leaves to the next one
\* what that one relies on.
LEMMA HandedNext ==
  ASSUME Handed, DD!DriverInv, TreeIsTheSource, [Next]_vars
  PROVE  Handed'
<1>1. Contexts'
  BY Zenon, ScopeStep, ContextsNext DEF Handed
<1>2. ASSUME disk' = disk,
             \/ phase' = "exit"
             \/ phase' \in {"args", "parse"} /\ Reading'
             \/ phase' = "desug" /\ Resolving'
             \/ phase' = "emit" /\ Emitting'
      PROVE  Handed'
  BY Zenon, <1>1, <1>2 DEF Handed
<1>3. CASE UNCHANGED vars
  <2>1. UNCHANGED passVars /\ UNCHANGED <<phase, disk, ctx, symbols, todo, argc>>
    BY Zenon, <1>3 DEF vars, driverVars, passVars, emitVars
  <2>2. Reading => Reading'
    BY Zenon, <2>1, ReadingKept
  <2>3. Resolving => Resolving'
    BY Zenon, <2>1, ResolvingNext
  <2>4. Emitting => Emitting'
    BY Zenon, <2>1 DEF Emitting
  <2> QED
    BY Zenon, <1>1, <2>1, <2>2, <2>3, <2>4 DEF Handed
<1>4. CASE CommandLine
  <2>1. phase = "args" /\ phase' \in {"args", "parse", "exit"} /\ disk' = disk /\ UNCHANGED passVars
    BY Zenon, <1>4, LineFirst
  <2>2. Reading'
    BY Zenon, <2>1, ReadingKept DEF Handed
  <2> QED
    BY Zenon, <1>2, <2>1, <2>2
<1>5. CASE Exits
  BY Zenon, <1>2, <1>5, ExitsQuietly
<1>6. CASE ParseStep
  <2>1. phase = "parse" /\ phase' = phase /\ disk' = disk
    BY Zenon, <1>6 DEF ParseStep, driverVars
  <2>2. Reading'
    BY Zenon, <1>6, <2>1, ReadingNext DEF Handed
  <2> QED
    BY Zenon, <1>2, <2>1, <2>2
<1>7. CASE StartDesug
  <2>1. phase' = "desug" /\ disk' = disk
    BY Zenon, <1>7 DEF StartDesug, Driving!StartDesug, Driving!Goes, Driving!given
  <2> QED
    BY Zenon, <1>2, <1>7, <2>1, ResolvingStarts
<1>8. CASE DesugStep
  <2>1. phase = "desug" /\ phase' = phase /\ disk' = disk
    BY Zenon, <1>8 DEF DesugStep, driverVars
  <2>2. Resolving'
    BY Zenon, <1>8, <2>1, ResolvingNext DEF Handed
  <2> QED
    BY Zenon, <1>2, <2>1, <2>2
<1>9. CASE StartEmit
  <2>1. /\ phase = "desug" /\ phase' = "emit" /\ disk' = disk /\ typing = "accepted"
        /\ Emission!OpenOutput(FileLeft)
    BY Zenon, <1>9 DEF StartEmit, Driving!StartEmit, Driving!Emits, Driving!Goes, Driving!given,
       OpenEmission
  <2>2. ctx = <<>>
    BY Zenon, <2>1 DEF Handed, Resolving
  <2> QED
    BY Zenon, <1>2, <2>1, <2>2, EmittingStarts
<1>10. CASE EmitStep
  <2>1. phase = "emit" /\ phase' = phase /\ disk' = disk /\ Emission!Emit
    BY Zenon, <1>10 DEF EmitStep, driverVars
  <2>2. Emitting'
    BY Zenon, <2>1, EmittingNext DEF Handed, Contexts
  <2> QED
    BY Zenon, <1>2, <2>1, <2>2
<1> QED
  BY Zenon, <1>3, <1>4, <1>5, <1>6, <1>7, <1>8, <1>9, <1>10 DEF Next, Passes, Exits

\* It is so all along.
LEMMA HandedHolds ==
  Spec /\ []TreeIsTheSource => []Handed
<1>1. Handed /\ DD!DriverInv /\ TreeIsTheSource /\ [Next]_vars => Handed'
  BY HandedNext
<1> QED
  BY <1>1, HandedInit, DriverInvHolds, PTL DEF Spec

-----------------------------------------------------------------------------
(* The theorems. *)

\* Where the parser makes the tree that was written, every pass starts and goes on
\* with its nodes, its names and its operands in order, on the contexts and the
\* table that the one before has left (main.c).
THEOREM TypeCorrect ==
  Spec /\ []TreeIsTheSource => []TypeOK
<1>1. Handed /\ DD!DriverInv => TypeOK
  <2> SUFFICES ASSUME Handed, DD!DriverInv PROVE TypeOK
    OBVIOUS
  <2>1. Driving!TypeOK
    BY Zenon, SameDriverWords DEF DD!DriverInv
  <2>2. phase \in {"args", "parse"} => Parsing!TypeOK
    BY Zenon, SameParserWords, PartsAssume, PP!InvTypes DEF Handed, Reading, PP!DeclInv
  <2>3. phase = "desug" => Desugaring!TypeOK
    BY Zenon, SameDesugWords, PartsAssume, DP!InvTypes DEF Handed, Resolving
  <2>4. DOMAIN ctx = 1..Len(ctx)
    BY LenProperties DEF Handed, Contexts, IsSequence
  <2>5. phase = "emit" => \A i \in DOMAIN ctx : ctx[i].node \in 0..Len(argc)
    BY Zenon, <2>4 DEF Handed, Emitting
  <2> QED
    BY Zenon, <2>1, <2>2, <2>3, <2>5 DEF TypeOK, Handed, Contexts
<1> QED
  BY <1>1, HandedHolds, DriverInvHolds, PTL

\* ... and ast_desug finds every local under the key that the parser gave it.
THEOREM KeysHandedOver ==
  Spec /\ []TreeIsTheSource => []KeysAgree
<1>1. Handed => KeysAgree
  <2> SUFFICES ASSUME Handed, phase = "desug" PROVE Desugaring!PassesAgree
    BY Zenon DEF KeysAgree
  <2> QED
    BY Zenon, SameDesugWords, PartsAssume, DP!KeyedAgree DEF Handed, Resolving
<1> QED
  BY <1>1, HandedHolds, PTL

\* From the first token to the last character written the scopes are entered and
\* left like brackets, and no binding is lost while one is open: the three passes
\* together implement what context.c promises.
THEOREM ScopesKept ==
  Spec /\ []TreeIsTheSource => KeepsScopes
<1>1. Init => Scope!Init
  BY Zenon DEF Init, Parsing!Init, Scope!Init
<1>2. Handed /\ [Next]_vars => [Scope!Next]_<<ctx, symbols>>
  BY ScopeStep
<1> QED
  BY <1>1, <1>2, HandedHolds, PTL DEF Spec, KeepsScopes, Scope!Spec
=============================================================================
