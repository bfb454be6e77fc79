-------------------------- MODULE MCSafeReferences --------------------------
(* SafeReferences on small instances. *)
EXTENDS SafeReferences, TLC

CONSTANTS h1, t1, t2, t3, c1, c2, x, y

\* t1 and t2 share an identifier
IdOfTarget == [t \in Target |-> IF t = t3 THEN y ELSE x]

Sym == Permutations({t1, t2}) \cup Permutations(Container)
=============================================================================
