------------------------------ MODULE MCActions ------------------------------
(* A recorded store with a child, and another tree. *)
EXTENDS Actions

CONSTANTS store, child, other, recorder, logger

MCUp == [n \in Node |-> IF n = child THEN <<child, store>> ELSE <<n>>]
=============================================================================
