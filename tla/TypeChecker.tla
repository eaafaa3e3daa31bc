---------------------------- MODULE TypeChecker -----------------------------
(***************************************************************************)
(* What the verdict of the two passes of Desugar says about the file.      *)
(***************************************************************************)
EXTENDS Desugar, Typing

\* The verdict is right on a file where no * or & changes the type of what is
\* read elsewhere, and no name has the key of another.  It is a theorem about
\* the whole compiler front end: symbol table keys, context stack and Type
\* objects handed around by pointer add up to a lexically scoped type system.
Untangled == Unshared(prog.file) /\ OwnKeys(prog.file)
Sound == verdict = "accepted" /\ Untangled => WellTyped(prog.file)

\* And no other file is turned down: the second pass rejects or asserts only
\* what is not well typed.
Complete == verdict \in {"rejected", "aborted"} /\ Untangled => ~WellTyped(prog.file)
=============================================================================
