--------------------------- MODULE MCObjectNodes ---------------------------
(* A root with up to two nodes nothing has read, and an instance that is a    *)
(* root of its own or placed in the snapshot of such a node.                  *)
EXTENDS ObjectNodes

CONSTANTS r, a, b, x

Linked(pa, pb, px) == [n \in Node |-> IF n = a THEN pa ELSE IF n = b THEN pb ELSE IF n = x THEN px ELSE NoNode]

MCShapes == {Linked(r, pb, px) : pb \in {r, a}, px \in {NoNode, a}}

MCPrograms ==
  {{"read", "attach", "detach", "destroy"},
   {"read", "destroy", "addDisposer"},
   {"read", "write", "snapshot", "destroy"}}
=============================================================================
