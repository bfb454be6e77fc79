----------------------------- MODULE AtomicList -----------------------------
(***************************************************************************)
(* What a types.array of models promises to those who write it: each node  *)
(* it holds is in it once, a write takes effect as a whole or not at all,  *)
(* and what a write drops dies.                                            *)
(***************************************************************************)
EXTENDS Sequences, Functions

CONSTANTS Node

VARIABLES
  list,   \* the nodes of the array
  place   \* where each node is: absent, free, here, there or dead

Init ==
  /\ list = <<>>
  /\ place = [n \in Node |-> "absent"]

Changes(From, to) == {n \in Node : place[n] \in From /\ place'[n] = to}

Moved == {n \in Node : place'[n] # place[n]}

\* new and adopted nodes come in, dropped nodes die
Write ==
  /\ IsInjective(list')
  /\ {n \in Node : place'[n] = "here"} = Range(list')
  /\ Moved \subseteq Changes({"absent", "free"}, "here") \cup Changes({"here"}, "dead")

\* a refused write leaves nothing but the nodes it built in vain
Refuse ==
  /\ list' = list
  /\ Moved \subseteq Changes({"absent"}, "dead")

Detach ==
  \E i \in DOMAIN list :
    /\ list' = SubSeq(list, 1, i - 1) \o SubSeq(list, i + 1, Len(list))
    /\ Moved = {list[i]}
    /\ place'[list[i]] = "free"

\* the rest of the program creates nodes and keeps them elsewhere
Others ==
  /\ list' = list
  /\ \E n \in Node :
       /\ Moved = {n}
       /\ place[n] \in {"absent", "free", "there"} /\ place'[n] \in {"free", "there"}

Next == Write \/ Refuse \/ Detach \/ Others

Spec == Init /\ [][Next]_<<list, place>>
=============================================================================
