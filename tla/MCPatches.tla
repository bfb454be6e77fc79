------------------------------ MODULE MCPatches ------------------------------
(* Patches with two items out of three, two keys and two values. *)
EXTENDS Patches, TLC

CONSTANTS a, b, c, k, l, v0, v1

Sym == Permutations(Id) \cup Permutations(Key) \cup Permutations(Val)

\* two items, of which lead is a copy of the first, and one box with its value
Pairs == {d \in Doc : /\ Len(d.items) = 2
                      /\ d.lead = d.items[1]
                      /\ Cardinality(DOMAIN d.boxes) = 1
                      /\ Range(d.boxes) = {d.lead.v}}
=============================================================================
