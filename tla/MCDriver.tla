------------------------------ MODULE MCDriver ------------------------------
(***************************************************************************)
(* Driver on every command line of up to five words, some options and some *)
(* names; one of the names is that of a file.                              *)
(***************************************************************************)
EXTENDS Driver, TLC

Word == {"-o", "--ast", "--irep", "--tok", "a.cml", "b.cml"}
Lines == UNION {[1..n -> Word] : n \in 0..5} \union {<<"--syms", "a.cml">>}
AllRuns == {[argv |-> line, disk |-> "a.cml" :> "main"] : line \in Lines}
=============================================================================
