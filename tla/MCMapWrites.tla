----------------------------- MODULE MCMapWrites -----------------------------
(* Two keys, and enough nodes for an item to be replaced twice in one write. *)
EXTENDS MapWrites

CONSTANTS a1, a2, a3, b1, b2, a, b

MCIdOf == [n \in Node |-> IF n \in {a1, a2, a3} THEN a ELSE b]

Interchangeable == Permutations({a1, a2, a3}) \cup Permutations({b1, b2})
=============================================================================
