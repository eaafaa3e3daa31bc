------------------------------ MODULE Reading -------------------------------
(***************************************************************************)
(* Reading a text by relations: a phrase that begins at position i ends in *)
(* front of one of a set of positions, which is empty if it does not stand *)
(* there.                                                                  *)
(***************************************************************************)
EXTENDS Naturals, Sequences

Then(S, Ends(_)) == UNION {Ends(i) : i \in S}

\* Phrases one after the other.
InTurn(nodes, Ends(_, _), i) ==
  LET upto[n \in 0..Len(nodes)] ==
        IF n = 0 THEN {i} ELSE Then(upto[n - 1], LAMBDA j : Ends(nodes[n], j))
  IN  upto[Len(nodes)]

\* Phrases with something between each two of them.
Separated(nodes, Ends(_, _), Between(_), i) ==
  IF nodes = <<>> THEN {i}
  ELSE LET next(n, j) == Then(Between(j), LAMBDA k : Ends(n, k))
       IN  Then(Ends(Head(nodes), i), LAMBDA j : InTurn(Tail(nodes), next, j))
=============================================================================
