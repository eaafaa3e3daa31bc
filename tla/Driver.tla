------------------------------- MODULE Driver -------------------------------
(***************************************************************************)
(* main (main.c): the command line, and the order of the passes.  Of the   *)
(* passes there is only what main sees, whether they come back; Compiler   *)
(* puts them in.                                                           *)
(***************************************************************************)
EXTENDS Integers, Sequences, FiniteSetsExt

CONSTANTS
  Runs,        \* what cmlc may find: [argv, disk], the arguments and the files
  NoPath,      \* the null pointer, also behind the last argument
  NoSource     \* nothing read yet

ASSUME RunsAssumption ==
  \A run \in Runs : /\ run.argv \in Seq(STRING) /\ NoPath \notin {run.argv[i] : i \in DOMAIN run.argv}
                    /\ NoPath \notin DOMAIN run.disk
                    /\ NoSource \notin {run.disk[p] : p \in DOMAIN run.disk}

VARIABLES
  argv, args,  \* the command line, and what is left of it
  disk,        \* the files there are: a function from paths to sources
  opts,        \* the paths and the flags the options have set
  source,      \* what set_lexer has read
  phase,       \* "args", "parse", "desug", "emit" or "exit"
  status       \* 0, 1 or -1 (the process was killed), once the phase is "exit"

given == <<argv, disk>>
vars == <<given, args, opts, source, phase, status>>

Flags == {"--tok", "--ast", "--irep", "--syms"}
Phases == {"args", "parse", "desug", "emit", "exit"}
Words == {argv[i] : i \in DOMAIN argv}

TypeOK ==
  /\ phase \in Phases /\ status \in {-1, 0, 1} /\ (status # 0 => phase = "exit")
  /\ args \in Seq(Words)
  /\ opts \in [fin : Words \union {NoPath}, fout : Words \union {NoPath}, flags : SUBSET Flags]
  /\ source \in {disk[p] : p \in DOMAIN disk} \union {NoSource}
  /\ source = NoSource => phase \in {"args", "exit"}

Init ==
  /\ \E run \in Runs : argv = run.argv /\ disk = run.disk
  /\ args = argv
  /\ opts = [fin |-> NoPath, fout |-> NoPath, flags |-> {}]
  /\ source = NoSource
  /\ phase = "args" /\ status = 0

-----------------------------------------------------------------------------
(* The command line. *)

Arg == Head(args)
Reads == phase = "args" /\ args # <<>>
Shift(n) == args' = SubSeq(args, n + 1, Len(args))
Set(option, v) == opts' = [opts EXCEPT ![option] = v]

IsOut == Arg = "-o" /\ opts.fout = NoPath
IsFlag == Arg \in Flags \ opts.flags

\* The argument after the last one is the null pointer of argv.
ArgOut ==
  /\ Reads /\ IsOut
  /\ Shift(2)
  /\ Set("fout", IF Len(args) > 1 THEN args[2] ELSE NoPath)
  /\ UNCHANGED <<given, source, phase, status>>

ArgFlag ==
  /\ Reads /\ IsFlag
  /\ Shift(1)
  /\ Set("flags", opts.flags \union {Arg})
  /\ UNCHANGED <<given, source, phase, status>>

FinDropsRepeats ==       \* mutant: an option that was given before is ignored
  /\ Reads /\ ~IsOut /\ ~IsFlag /\ opts.fin = NoPath
  /\ Shift(1)
  /\ Set("fin", IF Arg \in Flags THEN NoPath ELSE Arg)
  /\ UNCHANGED <<given, source, phase, status>>

\* An option that was given before is taken for the file.
ArgFin ==
  /\ Reads /\ ~IsOut /\ ~IsFlag /\ opts.fin = NoPath
  /\ Shift(1)
  /\ Set("fin", Arg)
  /\ UNCHANGED <<given, source, phase, status>>

Exit(code) == /\ phase' = "exit" /\ status' = code
              /\ UNCHANGED <<given, args, opts, source>>
Goes(p) == /\ phase' = p
           /\ UNCHANGED <<given, args, opts, source, status>>

ArgWarned ==             \* mutant: a warning about the argument, which stays where it is
  /\ Reads /\ ~IsOut /\ ~IsFlag /\ opts.fin # NoPath
  /\ UNCHANGED vars

ArgInvalid == Reads /\ ~IsOut /\ ~IsFlag /\ opts.fin # NoPath /\ Exit(1)

Asked(flag) == flag \in opts.flags
ArgsDone == phase = "args" /\ args = <<>>
Conflict == ArgsDone /\ Asked("--irep") /\ Asked("--ast") /\ Exit(1)

Opens == ArgsDone /\ ~(Asked("--irep") /\ Asked("--ast"))
NoInput == Opens /\ opts.fin \notin DOMAIN disk /\ Exit(1)

StartParseUnread ==      \* mutant: the parser starts before the file is read
  /\ Opens /\ opts.fin \in DOMAIN disk
  /\ Goes("parse")

\* set_lexer reads the whole file.
StartParse ==
  /\ Opens /\ opts.fin \in DOMAIN disk
  /\ source' = disk[opts.fin]
  /\ phase' = "parse"
  /\ UNCHANGED <<given, args, opts, status>>

CommandLine == ArgOut \/ ArgFlag \/ ArgFin \/ ArgInvalid \/ Conflict \/ NoInput \/ StartParse

-----------------------------------------------------------------------------
(* The passes.  ast_dump and ast_desug may be killed. *)

ParseFails == phase = "parse" /\ Exit(1)
DumpTree(code) == phase = "parse" /\ Asked("--ast") /\ Exit(code)
StartDesug == phase = "parse" /\ ~Asked("--ast") /\ Goes("desug")

DesugFails(code) == phase = "desug" /\ Exit(code)
DumpTyped(code) == phase = "desug" /\ Asked("--irep") /\ Exit(code)

Emits == phase = "desug" /\ ~Asked("--irep")
StartEmitAnyway == phase = "desug" /\ Goes("emit")   \* mutant: emitted after a dump, too
StartEmit == Emits /\ Goes("emit")

\* dump_symbols follows every slot of the table of symbols, and so does
\* symtable_reset before the emission.
SymbolsKilled == phase = "desug" /\ (Asked("--syms") \/ ~Asked("--irep")) /\ Exit(-1)

\* The output cannot be opened.
NoOutput == Emits /\ Exit(1)

\* Without -o the output goes to $PWD, which may not be set: strlen(NULL).
NoDirectory == Emits /\ opts.fout = NoPath /\ Exit(-1)

EmitDone == phase = "emit" /\ Exit(0)

Passes == \/ ParseFails \/ StartDesug \/ StartEmit \/ SymbolsKilled \/ NoOutput \/ NoDirectory
          \/ EmitDone
          \/ \E code \in {0, -1} : DumpTree(code) \/ DumpTyped(code)
          \/ \E code \in {1, -1} : DesugFails(code)

Next == CommandLine \/ Passes

\* One process: it reads its arguments; a pass may not come back.
Spec == Init /\ [][Next]_vars /\ WF_vars(CommandLine)

-----------------------------------------------------------------------------
(* Properties. *)

\* What the whole command line says.  The first -o takes the argument behind it;
\* of the others the first of each flag counts as such, and the rest is left over.
Outs == {i \in DOMAIN argv : argv[i] = "-o"}
OutPath == IF Outs = {} \/ Min(Outs) = Len(argv) THEN NoPath ELSE argv[Min(Outs) + 1]
Others == DOMAIN argv \ (IF Outs = {} THEN {} ELSE {Min(Outs), Min(Outs) + 1})
Given == {argv[i] : i \in Others} \intersect Flags
First(i) == \A j \in Others : argv[j] = argv[i] => i <= j
Left == {i \in Others : ~(argv[i] \in Flags /\ First(i))}
Accepted == (\A i, j \in Left : i = j) /\ ~({"--ast", "--irep"} \subseteq Given)

\* The options mean what the whole command line says, whatever their order.  What
\* is left over is one file: a repeated option is the file if there is no other.
\* Nothing is read for a command line that is refused, which is refused for what
\* it says or for a file that is not there.
OptionsAsWritten ==
  /\ source # NoSource =>
       /\ Accepted
       /\ opts.fin \in {argv[i] : i \in Left} /\ source = disk[opts.fin]
       /\ opts.fout = OutPath
       /\ opts.flags = Given
  /\ phase = "exit" /\ source = NoSource =>
       /\ status = 1
       /\ Accepted => \A i \in Left : argv[i] \notin DOMAIN disk

\* C is written for a command line that asks for no dump, whatever else it asks.
EmitsUnasked == phase = "emit" => {"--ast", "--irep"} \intersect Given = {}

\* The whole command line is read: argc goes to zero, or below it at a last -o.
ArgsEnd == <>(phase # "args")
=============================================================================
