------------------------------- MODULE Types --------------------------------
(***************************************************************************)
(* The types of CML and how types.c compares them.  A type is an id and a  *)
(* pointer depth (refc).  Polymorphic types (the ones of a trait           *)
(* implementation) cannot be written in a source file and are left out.    *)
(***************************************************************************)
EXTENDS Integers

\* The slots of "char" and "int" in type_table, and the ids of include/ast.h.
UNRESOLVED == 0
VT_CHAR == 1
VT_INT == 2
SourceIds == {UNRESOLVED, VT_CHAR, VT_INT}

Type(id, refc) == [id |-> id, refc |-> refc]

\* TypeCmpError.
TCMP_RES == -4
TCMP_NEQ == -1
TCMP_LCA == 0
TCMP_RCA == 1
TCMP_INC == 2
TCMP_EQS == 4

typecmp(target, sample) ==
  CASE target.id = UNRESOLVED \/ sample.id = UNRESOLVED -> TCMP_RES
    [] OTHER ->
       CASE target.refc # sample.refc -> TCMP_NEQ
         [] target.refc = sample.refc /\ target.id = sample.id -> TCMP_EQS
         [] target.refc = sample.refc /\ target.id # sample.id ->
            IF target.id = VT_CHAR THEN TCMP_RCA ELSE TCMP_LCA

\* ast_desug_assign and ast_desug_fcall take any result but 0 for an error,
\* ast_desug_vnode wants equality, ast_desug_retnode at least an inclusion.
AssignRejects(target, sample) == typecmp(target, sample) # 0
InitRejects(target, sample) == typecmp(target, sample) # TCMP_EQS
ReturnTolerant(target, sample) ==     \* mutant: a cast is good enough
  typecmp(target, sample) < TCMP_LCA
ReturnRejects(target, sample) == typecmp(target, sample) < TCMP_INC
=============================================================================
