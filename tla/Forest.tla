------------------------------- MODULE Forest -------------------------------
(***************************************************************************)
(* Walks up the object nodes, for a parent function.  A walk is the least  *)
(* set closed under one of its steps, so that facts about it are proved    *)
(* without induction over the natural numbers.                             *)
(***************************************************************************)

CONSTANTS
  Node,    \* object nodes that can ever be allocated
  NoNode   \* the null parent

\* n and its ancestors: the loops of isWithin and root
Ancestors(par, n) ==
  LET closed == {S \in SUBSET Node :
                   n \in S /\ \A x \in S : par[x] # NoNode => par[x] \in S}
  IN {m \in Node : \A S \in closed : m \in S}

RootOf(par, n) == CHOOSE r \in Ancestors(par, n) : par[r] = NoNode

\* every walk up ends at a root
Rooted(par) == \A n \in Node : \E r \in Ancestors(par, n) : par[r] = NoNode
=============================================================================
