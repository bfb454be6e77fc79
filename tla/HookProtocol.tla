---------------------------- MODULE HookProtocol ----------------------------
(***************************************************************************)
(* The order in which one object node hears of its own life, whatever the  *)
(* hooks of this and other nodes do meanwhile.  A node that is never read  *)
(* hears nothing.                                                          *)
(***************************************************************************)
EXTENDS Sequences

CONSTANT Node

VARIABLE heard  \* the hooks of each node, in the order in which they ran

\* a node may have been created, and attached, before
Init == heard \in [Node -> {<<>>, <<"afterCreate">>, <<"afterCreate", "afterAttach">>}]

FollowedBy ==
  [afterCreate |-> {"afterAttach", "beforeDestroy"},
   afterAttach |-> {"beforeDetach", "beforeDestroy"},
   beforeDetach |-> {"afterAttach", "beforeDestroy"},
   beforeDestroy |-> {}]

Hears(n, hook) ==
  /\ IF heard[n] = <<>> THEN hook = "afterCreate"
     ELSE hook \in FollowedBy[heard[n][Len(heard[n])]]
  /\ heard' = [heard EXCEPT ![n] = Append(@, hook)]

Next == \E n \in Node, hook \in DOMAIN FollowedBy : Hears(n, hook)

Spec == Init /\ [][Next]_heard
=============================================================================
