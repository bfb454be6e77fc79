----------------------------- MODULE MCStateTree -----------------------------
(* StateTree on small instances. *)
EXTENDS StateTree, TLC

CONSTANTS n1, n2, n3, n4, s1, s2, e1

\* nodes of one kind are interchangeable
Plain == Node \ Identified
Sym == Permutations(Plain) \cup Permutations(Identified)
=============================================================================
