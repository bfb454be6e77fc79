--------------------------- MODULE IdentifierScope ---------------------------
(***************************************************************************)
(* What the identifier caches promise to a caller of resolveIdentifier,    *)
(* without slots, caches or stamps: an identified node is in the scope of  *)
(* at most one tree at a time; it enters a scope once, moves only together *)
(* with the rest of its scope or as part of a detached subtree, and leaves *)
(* for good when it dies.                                                  *)
(***************************************************************************)

CONSTANTS Node, Tree, NoTree

VARIABLES
  scope,  \* the tree that resolves each node, or NoTree
  gone    \* nodes that have died

Members(t) == {n \in Node : scope[n] = t}

Init ==
  /\ scope = [n \in Node |-> NoTree]
  /\ gone = {}

\* One write to the tree t: members die, new nodes are built, and other
\* trees are adopted whole.
Write(t) ==
  /\ \A n \in Node : scope'[n] # scope[n] =>
       \/ scope[n] = t /\ scope'[n] = NoTree /\ n \in gone'
       \/ scope[n] = NoTree /\ n \notin gone /\ scope'[n] = t
       \/ scope[n] # NoTree /\ scope'[n] = t /\ \A m \in Node : scope'[m] # scope[n]
  /\ gone' \subseteq gone \cup Members(t)
  /\ gone \subseteq gone'
  /\ \A n \in gone' : scope'[n] = NoTree

\* Part of the tree t becomes the tree u.
Split(t, u) ==
  /\ Members(u) = {}
  /\ \A n \in Node : scope'[n] # scope[n] => scope[n] = t /\ scope'[n] = u
  /\ gone' = gone

Next ==
  \/ \E t \in Tree : Write(t)
  \/ \E t, u \in Tree : t # u /\ Split(t, u)

Spec == Init /\ [][Next]_<<scope, gone>>
=============================================================================
