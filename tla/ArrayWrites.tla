----------------------------- MODULE ArrayWrites -----------------------------
(***************************************************************************)
(* Writes to a types.array of an identified model: every mutation of the   *)
(* array is a splice, which willChange turns into nodes one value at a     *)
(* time (reconcileArrayChildren), reusing the nodes it replaces where it   *)
(* can.  An item assignment is the splice of one item.  Each value is a    *)
(* step, because hooks run between them, and a value that throws undoes    *)
(* the write in the catch block.                                           *)
(*                                                                         *)
(* A value is an instance, a snapshot - known by the identifier it carries *)
(* - or one that cannot be instantiated.  Positions count from 1.          *)
(***************************************************************************)
EXTENDS Naturals, Sequences, Functions, SequencesExt

CONSTANTS
  Node,     \* nodes of the item model
  Id,       \* identifiers
  IdOf,     \* identifier of each node
  Bad,      \* a value instantiate throws on
  NoWrite,
  MaxLen,   \* bound on the length of the array and of a write
  Doomed    \* kinds of write whose outcome breaks the promise, in this run

VARIABLES
  items,  \* the nodes the observable array holds
  owner,  \* absent, free (a root), here (parent is the array), there or dead
  index,  \* the subpath of a node that is here, counted from 1
  write   \* the write under way: reconcileArrayChildren's arguments and locals

vars == <<items, owner, index, write>>

Place == {"absent", "free", "here", "there", "dead"}

Value == Node \cup Id \cup {Bad}

Write ==
  [from : 1 .. MaxLen + 1, old : Seq(Node), vals : Seq(Value), result : Seq(Node),
   claimed : SUBSET (1 .. MaxLen), built : SUBSET Node, adopted : SUBSET Node,
   owner : [Node -> Place], index : [Node -> 0 .. MaxLen]]

ASSUME ArrayWritesAssumption ==
  /\ IdOf \in [Node -> Id]
  /\ Node \cap Id = {} /\ Bad \notin Node \cup Id
  /\ NoWrite \notin Write
  /\ MaxLen \in Nat
  /\ Doomed \subseteq {"double", "refused overwrite"}

TypeOK ==
  /\ items \in Seq(Node) /\ Len(items) <= MaxLen
  /\ owner \in [Node -> Place]
  /\ index \in [Node -> 0 .. MaxLen]
  /\ write # NoWrite => write \in Write

Init ==
  /\ items = <<>>
  /\ owner = [n \in Node |-> "absent"]
  /\ index = [n \in Node |-> 0]
  /\ write = NoWrite

Idle == write = NoWrite

\* Once a doomed write has stored a node twice, or one the array does not own,
\* the model says nothing of later writes.
Intact == IsInjective(items) /\ \A n \in Range(items) : owner[n] = "here"

-----------------------------------------------------------------------------
(* Starting a write *)

\* an instance the array holds already, or a root given twice
NotInsertable(vals) ==
  \E k \in DOMAIN vals :
    /\ vals[k] \in Node
    /\ \/ owner[vals[k]] = "here"
       \/ owner[vals[k]] = "free" /\ \E j \in 1 .. k - 1 : vals[j] = vals[k]

\* an overwrite that names a node of the array it does not replace, or one
\* node twice
Doubles(old, vals) ==
  \E k \in DOMAIN vals :
    /\ vals[k] \in Node
    /\ \/ owner[vals[k]] = "here" /\ vals[k] \notin Range(old)
       \/ \E j \in 1 .. k - 1 : vals[j] \in {vals[k], IdOf[vals[k]]}

\* instantiate throws on it, or the node lives elsewhere (createObjectNode)
Refusable(v) == v = Bad \/ (v \in Node /\ owner[v] = "there")

Permitted(old, vals) ==
  old # <<>> =>
    /\ Doubles(old, vals) => "double" \in Doomed
    /\ (\E k \in DOMAIN vals : Refusable(vals[k])) => "refused overwrite" \in Doomed

\* splice, with the values and the old nodes willChange is handed; an insertion
\* that is refused at once changes nothing
Splice ==
  /\ Idle /\ Intact
  /\ \E from \in 1 .. Len(items) + 1 : \E removed \in 0 .. Len(items) + 1 - from :
     \E vals \in BoundedSeq(Value, MaxLen - Len(items) + removed) :
       LET old == SubSeq(items, from, from + removed - 1) IN
       /\ \A k \in DOMAIN vals : vals[k] \in Node => owner[vals[k]] \in {"free", "here", "there"}
       /\ Permitted(old, vals)
       /\ ~(old = <<>> /\ NotInsertable(vals))
       /\ write' = [from |-> from, old |-> old, vals |-> vals, result |-> <<>>,
                    claimed |-> {}, built |-> {}, adopted |-> {},
                    owner |-> owner, index |-> index]
  /\ UNCHANGED <<items, owner, index>>

-----------------------------------------------------------------------------
(* One value *)

Value1 == write.vals[Len(write.result) + 1]

Position == write.from + Len(write.result)

Pending == ~Idle /\ Len(write.result) < Len(write.vals)

Unclaimed == DOMAIN write.old \ write.claimed

\* areSame; the old nodes of an intact array are alive
Same(n, v) == v = n \/ v = IdOf[n]

\* mutant: only the next old node is compared
NextOnly(v) ==
  {j \in Unclaimed : Same(write.old[j], v) /\ \A k \in Unclaimed : j <= k}

\* mutant: the index is trusted without looking whether its node is claimed
ClaimedAgain(v) ==
  {j \in DOMAIN write.old :
     /\ Same(write.old[j], v)
     /\ \A k \in DOMAIN write.old : Same(write.old[k], v) => k <= j}

\* The old node to reuse: the first unclaimed one if it is the same, or else
\* the one ReuseFinder indexes, which is the last with that node or identifier.
Reused(v) ==
  LET next == {j \in Unclaimed : \A k \in Unclaimed : j <= k}
      same == {j \in DOMAIN write.old : Same(write.old[j], v)}
      last == {j \in DOMAIN write.old :
                 \A k \in DOMAIN write.old : Same(write.old[k], v) => k <= j}
  IN IF next \cap same # {} THEN next ELSE Unclaimed \cap same \cap last

Take(n, claims, builds, adopts) ==
  /\ write' = [write EXCEPT !.result = Append(@, n), !.claimed = @ \cup claims,
                            !.built = @ \cup builds, !.adopted = @ \cup adopts]
  /\ index' = [index EXCEPT ![n] = Position]
  /\ owner' = [owner EXCEPT ![n] = "here"]
  /\ UNCHANGED items

\* a node of the array nobody claimed an old node for, while there is one left
Restored(v) ==
  {n \in {v} \cap Node : owner[n] = "here" /\ Reused(v) = {} /\ Unclaimed # {}}

\* A kept or reordered node: what it claims is its own old node, or nothing
\* when valueAsNode finds that "the node lives here".
Reuse ==
  /\ Pending
  /\ \E found \in {<<write.old[j], {j}>> : j \in Reused(Value1)}
                  \cup {<<n, {}>> : n \in Restored(Value1)} :
       Take(found[1], found[2], {}, {})

\* a root is attached
Adopt ==
  /\ Pending /\ Value1 \in Node /\ Reused(Value1) = {}
  /\ owner[Value1] = "free"
  /\ Take(Value1, {}, {}, {Value1})

\* a snapshot becomes a new node
Build(n) ==
  /\ Pending /\ Value1 = IdOf[n] /\ Reused(Value1) = {}
  /\ owner[n] = "absent"
  /\ Take(n, {}, {n}, {})

-----------------------------------------------------------------------------
(* The end of a write *)

Throws ==
  \/ Refusable(Value1)
  \/ Value1 \in Node /\ owner[Value1] = "here" /\ Reused(Value1) = {} /\ Unclaimed = {}

\* mutant: adopted roots stay attached
NoneReleased(adopted) == {}

\* adopted roots the array does not hold become roots again
Released(adopted) == {n \in adopted : owner[n] = "here" /\ n \notin Range(items)}

\* the catch block: built nodes die, adopted roots are let go; the subpaths
\* of reused nodes stay as they are
Refuse ==
  /\ Pending /\ Throws
  /\ owner' = [n \in Node |-> CASE n \in write.built -> "dead"
                                [] n \in Released(write.adopted) -> "free"
                                [] OTHER -> owner[n]]
  /\ index' = [n \in Node |-> IF n \in write.built \cup Released(write.adopted) THEN 0 ELSE index[n]]
  /\ write' = NoWrite
  /\ UNCHANGED items

\* mutant: the items behind a splice stay where they are
Unmoved(k, removed, added) == k

\* the position of an item behind a splice
Behind(k, removed, added) == k + added - removed

Dropped == {write.old[j] : j \in Unclaimed}

\* old nodes nobody claimed die, the items behind them move, and the array
\* takes the nodes; a write that changed nothing (willChange returns null)
\* comes to the same
Finish ==
  LET removed == Len(write.old)
      added == Len(write.result)
      rest == write.from + removed
      tail == {items[k] : k \in rest .. Len(items)}
  IN
  /\ ~Idle /\ ~Pending
  /\ owner' = [n \in Node |-> IF n \in Dropped THEN "dead" ELSE owner[n]]
  /\ index' = [n \in Node |->
       CASE n \in tail ->
              Behind(CHOOSE k \in rest .. Len(items) : items[k] = n, removed, added)
         [] n \in Dropped -> 0
         [] OTHER -> index[n]]
  /\ items' = SubSeq(items, 1, write.from - 1) \o write.result \o SubSeq(items, rest, Len(items))
  /\ write' = NoWrite

\* clearParent: removeChild splices at the subpath of n; the item there dies,
\* unless it is n, which is detaching
Detach(n) ==
  LET k == index[n]
      hit == {items[j] : j \in {k} \cap DOMAIN items}
      tail == {items[j] : j \in k + 1 .. Len(items)}
  IN
  /\ Idle /\ Intact /\ owner[n] = "here"
  /\ owner' = [m \in Node |-> CASE m = n -> "free"
                                [] m \in hit \ {n} -> "dead"
                                [] OTHER -> owner[m]]
  /\ index' = [m \in Node |-> CASE m \in hit \cup {n} -> 0
                                [] m \in tail \ {n} -> index[m] - 1
                                [] OTHER -> index[m]]
  /\ items' = IF hit = {} THEN items ELSE RemoveAt(items, k)
  /\ UNCHANGED write

\* create, and attaching to or detaching from another part of the program
Elsewhere(n) ==
  /\ Idle
  /\ \/ owner[n] \in {"absent", "there"} /\ owner' = [owner EXCEPT ![n] = "free"]
     \/ owner[n] = "free" /\ owner' = [owner EXCEPT ![n] = "there"]
  /\ UNCHANGED <<items, index, write>>

Next ==
  \/ Splice
  \/ Reuse
  \/ Adopt
  \/ \E n \in Node : Build(n)
  \/ Refuse
  \/ Finish
  \/ \E n \in Node : Detach(n)
  \/ \E n \in Node : Elsewhere(n)

Spec == Init /\ [][Next]_vars

-----------------------------------------------------------------------------
\* Between writes the array and its nodes agree: the nodes that have it for
\* parent are its items, each under the subpath of its position, so that none is
\* in it twice.
Placed ==
  Idle =>
    /\ \A i \in DOMAIN items : owner[items[i]] = "here" /\ index[items[i]] = i
    /\ \A n \in Node : owner[n] = "here" => n \in Range(items)

\* No node is in the array twice.
StoredOnce == Idle => IsInjective(items)

\* A write that throws leaves the array, and every node but those it built,
\* where they were.  Overwrites break it ("refused overwrite"): the catch block
\* of reconcileArrayChildren forgets the nodes that were reused.
RefusedWriteUndone ==
  [][Refuse => \A n \in Node \ write.built :
       /\ owner'[n] = write.owner[n]
       /\ owner[n] = "here" => index'[n] = write.index[n]]_vars

\* A node is kept when it is the only old node a value of the write names and
\* that is the only value that names it, whatever the order of the values.
Kept(old, vals, k, j) ==
  /\ Same(old[j], vals[k])
  /\ \A i \in DOMAIN old : Same(old[i], vals[k]) => i = j
  /\ \A i \in DOMAIN vals : Same(old[j], vals[i]) => i = k

IdentityKept ==
  ~Idle => \A k \in DOMAIN write.result, j \in DOMAIN write.old :
             Kept(write.old, write.vals, k, j) => write.result[k] = write.old[j]

\* Seen between writes, the array is an AtomicList.
List == INSTANCE AtomicList
          WITH list <- items, place <- IF Idle THEN owner ELSE write.owner

ImplementsList == List!Spec
=============================================================================
