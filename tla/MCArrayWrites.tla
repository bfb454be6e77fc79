---------------------------- MODULE MCArrayWrites ----------------------------
(* ArrayWrites with four nodes, two of which share an identifier. *)
EXTENDS ArrayWrites, TLC

CONSTANTS n1, n2, n3, n4, x, y, z

IdOfNode == [n \in Node |-> CASE n \in {n1, n2} -> x [] n = n3 -> y [] OTHER -> z]

Sym == Permutations({n1, n2})
=============================================================================
