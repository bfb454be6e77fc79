----------------------------- MODULE Lifetimes -----------------------------
(***************************************************************************)
(* What an action tracking middleware promises: whatever it starts to      *)
(* track it settles, once.                                                 *)
(***************************************************************************)
CONSTANT Id
VARIABLES open, settled

Init == open = {} /\ settled = {}

Start(a) ==
  /\ a \notin open \cup settled
  /\ open' = open \cup {a}
  /\ UNCHANGED settled

Settle(a) ==
  /\ a \in open
  /\ open' = open \ {a}
  /\ settled' = settled \cup {a}

Next == \E a \in Id : Start(a) \/ Settle(a)

Spec ==
  /\ Init /\ [][Next]_<<open, settled>>
  /\ \A a \in Id : WF_<<open, settled>>(Settle(a))
=============================================================================
