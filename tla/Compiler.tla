------------------------------ MODULE Compiler ------------------------------
(***************************************************************************)
(* cmlc (main.c): Driver, with Parser, Desugar and Backend for its passes, *)
(* one after the other, on one stack of contexts and one table of symbols. *)
(*                                                                         *)
(* Parser and Desugar number the nodes of declarations in different ways,  *)
(* by the order in which they are made and by the place of their visit;    *)
(* table is the table of symbols as Desugar reads it.                      *)
(*                                                                         *)
(* What the passes make of a tree by recursion over it is a parameter; the *)
(* definitions are in CompilerTrees.                                       *)
(***************************************************************************)
EXTENDS Context, Syntax

CONSTANTS
  Runs,           \* what cmlc may find: [argv, disk], the arguments and the files
  Tokens,         \* all tokens of the sources
  Malformed, MaxParams,
  ProgramOf(_),   \* the visits of a file, as Desugar takes them
  TypeMissing(_), \* the expressions that typeget answers with NULL before ast_desug
  Keyed(_, _)     \* a file with the names and types that ast_desug leaves in it

VARIABLES
  argv, args, disk, opts, source, phase, status,   \* of Driver
  cur, read, calls, value, made, syntax,      \* of Parser
  prog, typing, pc, types, operands, table,   \* of Desugar
  todo, out, argc                             \* of Backend

parserVars == <<cur, read, calls, value, made, syntax>>
desugVars == <<prog, typing, pc, types, operands, table>>
emitVars == <<todo, out, argc>>
passVars == <<ctx, symbols, parserVars, desugVars, emitVars>>
driverVars == <<argv, args, disk, opts, source, phase, status>>
vars == <<driverVars, passVars>>

\* A source is its tokens, and the tree they are of.
NoPath == "(null)"
NoSource == [tokens |-> <<>>, file |-> <<>>, grammatical |-> FALSE]
Driving == INSTANCE Driver

AnyToken(r) == Tokens
Parsing == INSTANCE Parser WITH Follow <- AnyToken, verdict <- syntax

Sources == UNION {{run.disk[p] : p \in DOMAIN run.disk} : run \in Runs}
Desugaring == INSTANCE Desugar WITH Programs <- {ProgramOf(s.file) : s \in Sources},
                           pass <- "desug", verdict <- typing, symbols <- table

Emission == INSTANCE Backend

\* The place where the k-th declaration of a file is visited.
DeclVisits(code) ==
  LET decls == Desugaring!Declarations(code)
  IN  [k \in 1..Cardinality(decls) |->
         CHOOSE i \in decls : Desugaring!Within(decls, 1, i) = k - 1]

ASSUME RunsAssumption ==
  \A run \in Runs : /\ run.argv \in Seq(STRING) /\ NoPath \notin {run.argv[i] : i \in DOMAIN run.argv}
                    /\ NoPath \notin DOMAIN run.disk
                    /\ NoSource \notin {run.disk[p] : p \in DOMAIN run.disk}
ASSUME TokensAssumption ==
  \A t \in Parsing!Readable :
    t.text \in Seq(STRING) \ {<<>>} /\ (t.kind = "END" => t = Parsing!EndToken)

\* The visits of a source are those of a tree, and its declarations are visited in
\* the order in which the parser makes them, each under the key it has there.
ASSUME ProgramsAssumption ==
  \A s \in Sources :
    LET c == ProgramOf(s.file).code
        keys == Parsing!KeysOf(s.file)
    IN  /\ Desugaring!WellFormed(c)
        /\ keys \in Seq(Seq(STRING)) /\ Len(keys) = Len(DeclVisits(c))
        /\ \A k \in DOMAIN keys : Desugaring!KeyAt(c, DeclVisits(c)[k]) = keys[k]

Init ==
  /\ Driving!Init
  /\ Parsing!Init
  /\ prog = ProgramOf(<<>>) /\ typing = "running" /\ pc = 1
  /\ types = <<>> /\ operands = <<>> /\ table = <<>>
  /\ todo = <<>> /\ out = <<>> /\ argc = <<>>

-----------------------------------------------------------------------------
(* ast_dump prints the types typeget finds, and literals by their type.     *)

Returns(file) ==
  UNION {{file[i].body[j].value : j \in {k \in DOMAIN file[i].body :
                                           file[i].body[k].op = "return"}} :
         i \in {k \in DOMAIN file : file[k].op = "fun"}}
DumpKilledEarly == \E e \in Returns(Parsing!file) : TypeMissing(e)

\* A char whose type & has made a pointer is printed as a string.
DumpKilledLate ==
  \E i \in DOMAIN prog.code :
    /\ prog.code[i].op = "lit" /\ prog.code[i].type = Type(VT_CHAR, 0)
    /\ types[i].refc > 0

\* The tree that ast_desug leaves: every declaration has the Type object that *
\* and & have worked on.
TypesLeft == [k \in DOMAIN DeclVisits(prog.code) |-> types[DeclVisits(prog.code)[k]]]
FileLeft == Keyed(Parsing!file, TypesLeft)

-----------------------------------------------------------------------------
(* The passes. *)

ParseStep ==
  /\ phase = "parse" /\ syntax = "parsing"
  /\ Parsing!Next
  /\ IsPrefix(read', Append(source.tokens, Parsing!EndToken))
  /\ UNCHANGED <<driverVars, desugVars, emitVars>>

ParseFails == syntax = "rejected" /\ Driving!ParseFails /\ UNCHANGED passVars

DumpTree ==
  /\ syntax = "parsed"
  /\ Driving!DumpTree(IF DumpKilledEarly THEN -1 ELSE 0)
  /\ UNCHANGED passVars

StartDesug ==
  /\ syntax = "parsed"
  /\ Driving!StartDesug
  /\ \E program \in {ProgramOf(Parsing!file)} :
       LET visits == DeclVisits(program.code)
       IN  /\ prog' = program
           /\ types' = [i \in Desugaring!Owners(program.code) |-> program.code[i].type]
           /\ table' = [k \in DOMAIN symbols |-> visits[symbols[k]]]
  /\ UNCHANGED <<ctx, symbols, parserVars, typing, pc, operands, emitVars>>

DesugStep ==
  /\ phase = "desug"
  /\ UNCHANGED <<symbols, table, prog, driverVars, parserVars, emitVars>>
  /\ Desugaring!Desug

\* derr exits with 1, a failed assertion aborts.
DesugFails ==
  /\ typing \in {"rejected", "aborted"}
  /\ Driving!DesugFails(IF typing = "rejected" THEN 1 ELSE -1)
  /\ UNCHANGED passVars

DumpTyped ==
  /\ typing = "accepted"
  /\ Driving!DumpTyped(IF DumpKilledLate THEN -1 ELSE 0)
  /\ UNCHANGED passVars

OpenEmission == Emission!OpenOutput(FileLeft) /\ UNCHANGED <<parserVars, desugVars>>

StartEmitAnyway ==       \* mutant: the tree is emitted after a dump, too
  typing = "accepted" /\ Driving!StartEmitAnyway /\ OpenEmission

StartEmit == typing = "accepted" /\ Driving!StartEmit /\ OpenEmission

\* The table of symbols grows by two slots at its second key, the last of which
\* is not cleared (HashTable, Grown): what is there is followed as a pointer.
HasLeftover == Cardinality(DOMAIN symbols) > 1
SymbolsKilled ==
  typing = "accepted" /\ HasLeftover /\ Driving!SymbolsKilled /\ UNCHANGED passVars

NoOutput ==
  /\ typing = "accepted"
  /\ Driving!NoOutput
  /\ symbols' = <<>>
  /\ UNCHANGED <<ctx, parserVars, desugVars, emitVars>>

NoDirectory == typing = "accepted" /\ Driving!NoDirectory /\ UNCHANGED passVars

EmitStep ==
  /\ phase = "emit"
  /\ Emission!Emit
  /\ UNCHANGED <<driverVars, parserVars, desugVars>>

EmitDone == todo = <<>> /\ Driving!EmitDone /\ UNCHANGED passVars

CommandLine == Driving!CommandLine /\ UNCHANGED passVars
Passes == \/ ParseStep \/ ParseFails \/ DumpTree \/ StartDesug
          \/ DesugStep \/ DesugFails \/ DumpTyped \/ SymbolsKilled \/ NoOutput
          \/ NoDirectory \/ StartEmit \/ EmitStep \/ EmitDone

Next == CommandLine \/ Passes

\* One process that runs until it exits.
Spec == Init /\ [][Next]_vars /\ WF_vars(Next)
-----------------------------------------------------------------------------
(* Properties. *)

TypeOK ==
  /\ Driving!TypeOK
  /\ Len(ctx) <= MAX_CONTEXT
  /\ phase \in {"args", "parse"} => Parsing!TypeOK
  /\ phase = "desug" => Desugaring!TypeOK
  /\ phase = "emit" => \A i \in DOMAIN ctx : ctx[i].node \in 0..Len(argc)

\* What is written in the grammar is accepted by the parser, and the tree is the
\* one that was written; nothing else is accepted.
TreeIsTheSource ==
  /\ syntax = "parsed" => source.grammatical /\ Parsing!file = source.file
  /\ syntax = "rejected" => ~source.grammatical

\* The keys under which the parser has registered the variables are the ones by
\* which ast_desug looks for them.
KeysAgree == phase = "desug" => Desugaring!PassesAgree

\* All that happens to the contexts and the symbols, from one end of the run to
\* the other, is what context.c is for; the table is emptied between scopes only.
Scope == INSTANCE Scopes WITH Names <- {t.text : t \in Parsing!Readable}
KeepsScopes == Scope!Spec

\* An output is opened, which cuts off an old one, and written for accepted files
\* only, and with no dump.
OutputOnlyAccepted ==
  phase = "emit" \/ out # <<>> =>
    ~Driving!Asked("--ast") /\ ~Driving!Asked("--irep") /\ typing = "accepted"

\* cmlc exits, unless the file ends inside a list of parameters (ast_build.c:492).
Termination ==
  <>(phase = "exit" \/ (phase = "parse" /\ Parsing!AtEnd /\ Parsing!InParams))

-----------------------------------------------------------------------------
(* What the samples say, and the code does not do. *)

\* The tree of a valid file can be dumped: samples/val_ptr1.cml returns *a.
TreeIsDumped == phase = "exit" /\ Driving!Asked("--ast") /\ syntax = "parsed" => status = 0
=============================================================================
