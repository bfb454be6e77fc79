------------------------- MODULE MCIdentifierCaches -------------------------
(* IdentifierCaches with an identifier that three nodes can have, a          *)
(* reference whose target type accepts two of them, and a node of another    *)
(* identifier.                                                               *)
EXTENDS IdentifierCaches, TLC

CONSTANTS n1, n2, n3, n4, c1, c2, c3, x, y, f

IdOfNode == [n \in Node |-> IF n = n4 THEN y ELSE x]

WantedId == [g \in Ref |-> x]

Accepted == [g \in Ref |-> {n1, n2}]

Sym == Permutations(Cache) \cup Permutations({n1, n2})
=============================================================================
