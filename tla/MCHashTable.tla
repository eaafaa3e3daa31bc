---------------------------- MODULE MCHashTable -----------------------------
(***************************************************************************)
(* Instances of HashTable: three keys, of which two share a row of the     *)
(* initial map, and all three do once the rows are rebuilt as one.         *)
(***************************************************************************)
EXTENDS HashTable, TLC

CONSTANTS k1, k2, k3

MCKeys == {k1, k2, k3}
MCHash == k1 :> 0 @@ k2 :> 2 @@ k3 :> 5

\* The shapes the compiler asks for, with fewer rows: the symbol table
\* (n, 2, 2), the type and trait tables (16, 2, 1), the traits of a type
\* (4, 1, 1) and the types of a trait (8, 0, 0).
MCGeometry == {<<2, 2, 2>>, <<2, 2, 1>>, <<2, 1, 1>>, <<2, 0, 0>>}
MCNewCaps == {1, 3}
=============================================================================
