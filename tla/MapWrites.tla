------------------------------ MODULE MapWrites ------------------------------
(***************************************************************************)
(* Writes to a types.map of models.  When the items have an identifier the *)
(* key of an item is its identifier: put takes the key from the item, and  *)
(* set refuses any other, some before it has touched the item it replaces  *)
(* and the others after.  The type learns whether its items have one when  *)
(* it is built or instantiated, if a late item type can be read by then.   *)
(*                                                                         *)
(* The item that a write drops runs its beforeDestroy hook in the middle   *)
(* of the write, and the hook may write to the map in turn.  Hooks catch   *)
(* what their own writes throw.                                            *)
(*                                                                         *)
(* A value is an instance or a snapshot, which is known by the identifier  *)
(* of the node that is built from it.  A "fixed" snapshot cannot end up    *)
(* with another identifier than it shows, a "shown" one shows its own but  *)
(* has a preprocessor or a union between, and a "hidden" one shows none    *)
(* (an optional identifier, or a preprocessor that renames it).            *)
(***************************************************************************)
EXTENDS Naturals, Sequences, FiniteSets, Functions, SequencesExt

CONSTANTS
  Node,           \* nodes of the item model
  Key,            \* keys, which are identifiers too
  IdOf,           \* identifier of each node
  NoNode, NoKey,
  MaxHookWrites,  \* bound on the writes that hooks make
  Doomed          \* kinds of write whose outcome breaks the promise, in this run

Snapshot == [id : Key, kind : {"fixed", "shown", "hidden"}]

ASSUME MapWritesAssumption ==
  /\ NoNode \notin Node /\ NoKey \notin Key /\ IsFiniteSet(Key)
  /\ \A s \in Snapshot : s \notin Node \cup {NoNode}
  /\ IdOf \in [Node -> Key]
  /\ MaxHookWrites \in Nat
  /\ Doomed \subseteq {"created", "late", "mismatch", "own key"}

VARIABLES
  defined,    \* the item type can be read
  mode,       \* MapType.identifierMode: "yes" or "unknown"
  items,      \* the node the observable map holds under each key
  place,      \* absent, free (a root), here (parent is the map), there or dead
  subpath,    \* of a node that is here
  frames,     \* the writes under way, innermost last
  hookWrites,
  refused     \* the last step was the throw of a write

vars == <<defined, mode, items, place, subpath, frames, hookWrites, refused>>

Value == Node \cup Snapshot

\* A write waits for the hook of the node it drops, which has run when
\* "hooked", or is an applySnapshot with keys to set and keys to delete.
Replacing == [op : {"replace"}, key : Key, old : Node, new : Node, hooked : BOOLEAN]
Removing == [op : {"remove"}, key : Key, old : Node, hooked : BOOLEAN]
Applying == [op : {"apply"}, todo : Seq(Key \X Snapshot), stale : SUBSET Key,
             keys : SUBSET Key, kept : [Key -> Node \cup {NoNode}], since : Nat]

TypeOK ==
  /\ defined \in BOOLEAN /\ mode \in {"unknown", "yes"}
  /\ items \in [Key -> Node \cup {NoNode}]
  /\ place \in [Node -> {"absent", "free", "here", "there", "dead"}]
  /\ subpath \in [Node -> Key \cup {NoKey}]
  /\ frames \in Seq(Replacing \cup Removing \cup Applying)
  /\ hookWrites \in 0 .. MaxHookWrites
  /\ refused \in BOOLEAN

\* _determineIdentifierMode
Determined(isDefined, m) == IF isDefined THEN "yes" ELSE m

\* The map is created from a snapshot, whose keys nobody compares with the
\* identifiers.
Init ==
  /\ defined \in BOOLEAN
  /\ mode = Determined(defined, "unknown")
  /\ items \in [Key -> Node \cup {NoNode}]
  /\ \A k, l \in Key : items[k] # NoNode =>
       /\ defined
       /\ k # l => items[k] # items[l]
       /\ IdOf[items[k]] # k => "created" \in Doomed
  /\ place = [n \in Node |-> IF \E k \in Key : items[k] = n THEN "here" ELSE "absent"]
  /\ subpath = [n \in Node |-> IF \E k \in Key : items[k] = n
                               THEN CHOOSE k \in Key : items[k] = n ELSE NoKey]
  /\ frames = <<>>
  /\ hookWrites = 0
  /\ refused = FALSE

-----------------------------------------------------------------------------
(* Who writes *)

Idle == frames = <<>>

Top == Last(frames)

Replacements == {i \in DOMAIN frames : frames[i].op = "replace"}

\* the keys that are being updated
Busy == {frames[i].key : i \in Replacements}

\* nodes set aside to be built by a write under way
Reserved == {frames[i].new : i \in Replacements}

\* A write to the key k is made by the program, or by the hook of the node that
\* is dying.
MayWrite(k) ==
  ~Idle => /\ Top.op # "apply" /\ ~Top.hooked
           /\ hookWrites < MaxHookWrites
           /\ k \in Busy => "own key" \in Doomed

Hooked == Front(frames) \o <<[Top EXCEPT !.hooked = TRUE]>>

\* the stack such a write returns to
Caller == IF Idle THEN frames ELSE Hooked

Counted == hookWrites' = IF Idle THEN hookWrites ELSE hookWrites + 1

\* an exception ends an applySnapshot, and a hook catches it
Unwound(rest) ==
  IF rest # <<>> /\ Last(rest).op = "apply" THEN Front(rest) ELSE rest

-----------------------------------------------------------------------------
(* One key *)

IsSnapshot(v) == v \notin Node

Identifier(v) == IF IsSnapshot(v) THEN v.id ELSE IdOf[v]

\* mutant: snapshots are not looked at before they are built
InstancesOnly(k, v) == mode = "yes" /\ ~IsSnapshot(v) => Identifier(v) = k

\* assertStorableUnder
Storable(k, v) == mode = "yes" /\ (IsSnapshot(v) => v.kind = "fixed") => Identifier(v) = k

\* mutant: nobody looks at the node that was built
AnyKey(k, n) == TRUE

\* processIdentifier does not throw
Accepted(k, n) == mode = "yes" => IdOf[n] = k

\* the nodes that v may become: itself, or a new one
Nodes(v) ==
  IF IsSnapshot(v) THEN {n \in Node \ Reserved : place[n] = "absent" /\ IdOf[n] = v.id} ELSE {v}

\* tryToReconcileNode: the item under k has the identifier that v shows
Keeps(k, v) ==
  items[k] # NoNode /\ IsSnapshot(v) /\ v.kind # "hidden" /\ v.id = IdOf[items[k]]

\* neither reconcile nor createObjectNode throws
Attachable(v) == ~IsSnapshot(v) => place[v] = "free"

Exists(v) == ~IsSnapshot(v) => place[v] # "absent"

\* A wrong identifier shows before anything is built.
Settled(k, v) ==
  IsSnapshot(v) /\ v.kind # "fixed" => v.id = k \/ "mismatch" \in Doomed

\* The writes of a run: without a doomed kind, a snapshot whose identifier shows
\* late and is wrong is not assigned over an item.
Permitted(k, v) ==
  /\ defined /\ Exists(v)
  /\ mode = "unknown" => "late" \in Doomed
  /\ items[k] # NoNode => Settled(k, v)

Unchanged == UNCHANGED <<defined, mode, items, place, subpath>>

Throw(rest) ==
  /\ frames' = Unwound(rest)
  /\ refused' = TRUE
  /\ Unchanged

\* the new value is the item
Ignore(rest) ==
  /\ frames' = rest
  /\ refused' = FALSE
  /\ Unchanged

Store(k, n) ==
  /\ items' = [items EXCEPT ![k] = n]
  /\ subpath' = [subpath EXCEPT ![n] = k]

\* mutant: the node built for a refused write is left alone
Abandoned(n) == place' = [place EXCEPT ![n] = "here"]

\* it is dead before anyone can have read it
Discarded(n) == place' = [place EXCEPT ![n] = "dead"]

\* an addition
Add(k, v, n, rest) ==
  /\ UNCHANGED <<defined, mode>>
  /\ refused' = ~Accepted(k, n)
  /\ IF Accepted(k, n)
     THEN /\ Store(k, n)
          /\ place' = [place EXCEPT ![n] = "here"]
          /\ frames' = rest
     ELSE /\ IF IsSnapshot(v) THEN Discarded(n) ELSE place' = [place EXCEPT ![n] = "here"]
          /\ frames' = Unwound(rest)
          /\ UNCHANGED <<items, subpath>>

\* an update that keeps the item, whose identifier is looked at all the same
Keep(k, rest) == IF Accepted(k, items[k]) THEN Ignore(rest) ELSE Throw(rest)

\* an update that drops the item, which goes through its hook first
Replace(k, n, rest) ==
  /\ frames' = Append(rest, [op |-> "replace", key |-> k, old |-> items[k], new |-> n,
                             hooked |-> FALSE])
  /\ refused' = FALSE
  /\ Unchanged

\* willChange
Set(k, v, rest) ==
  \/ items[k] = v /\ Ignore(rest)
  \/ items[k] # v /\ ~(Storable(k, v) /\ Attachable(v)) /\ Throw(rest)
  \/ items[k] # v /\ Storable(k, v) /\ Keeps(k, v) /\ Keep(k, rest)
  \/ /\ items[k] # v /\ Storable(k, v) /\ Attachable(v) /\ ~Keeps(k, v)
     /\ \E n \in Nodes(v) :
          IF items[k] = NoNode THEN Add(k, v, n, rest) ELSE Replace(k, n, rest)

\* map.set(k, v), and an applyPatch that adds or replaces
SetItem(k, v) ==
  /\ MayWrite(k) /\ Counted
  /\ Permitted(k, v)
  /\ Set(k, v, Caller)

\* map.put(v) takes the key from the value, or when that hides it from a node
\* created first.  A snapshot is refused while the mode is unknown.
Put(v) ==
  LET k == Identifier(v) IN
  /\ MayWrite(k) /\ Counted
  /\ IF IsSnapshot(v) /\ mode # "yes" THEN defined /\ Throw(Caller) ELSE
     /\ Permitted(k, v)
     /\ IF IsSnapshot(v) /\ v.kind = "hidden"
        THEN \E n \in Nodes(v) :
               IF items[k] = NoNode THEN Add(k, n, n, Caller) ELSE Replace(k, n, Caller)
        ELSE Set(k, v, Caller)

\* the update goes on after the hook: the old node dies, the new one is built
\* or adopted, and a built one may still be refused
EndReplace ==
  /\ ~Idle /\ Top.op = "replace"
  /\ LET k == Top.key
         n == Top.new
         built == place[n] = "absent"
     IN  /\ place' = [place EXCEPT ![Top.old] = "dead",
                                   ![n] = IF Accepted(k, n) \/ ~built THEN "here" ELSE "dead"]
         /\ subpath' = [subpath EXCEPT ![Top.old] = NoKey,
                                       ![n] = IF Accepted(k, n) THEN k ELSE NoKey]
         /\ items' = IF Accepted(k, n) THEN [items EXCEPT ![k] = n] ELSE items
         /\ frames' = IF Accepted(k, n) THEN Front(frames) ELSE Unwound(Front(frames))
         /\ refused' = ~Accepted(k, n)
  /\ UNCHANGED <<defined, mode, hookWrites>>

\* map.delete(k), destroy(item) and an applyPatch that removes: mobx drops the
\* key, and didChange kills the node
Drop(k, rest) ==
  /\ items' = [items EXCEPT ![k] = NoNode]
  /\ frames' = IF items[k] = NoNode THEN rest
               ELSE Append(rest, [op |-> "remove", key |-> k, old |-> items[k], hooked |-> FALSE])
  /\ refused' = FALSE
  /\ UNCHANGED <<defined, mode, place, subpath>>

DeleteItem(k) == defined /\ MayWrite(k) /\ Counted /\ Drop(k, Caller)

EndRemove ==
  /\ ~Idle /\ Top.op = "remove"
  /\ place' = [place EXCEPT ![Top.old] = "dead"]
  /\ subpath' = [subpath EXCEPT ![Top.old] = NoKey]
  /\ frames' = Front(frames)
  /\ refused' = FALSE
  /\ UNCHANGED <<defined, mode, items, hookWrites>>

\* detach(item): the node is detaching and does not die
Detach(n) ==
  /\ Idle /\ place[n] = "here"
  /\ items' = [items EXCEPT ![subpath[n]] = NoNode]
  /\ place' = [place EXCEPT ![n] = "free"]
  /\ subpath' = [subpath EXCEPT ![n] = NoKey]
  /\ refused' = FALSE
  /\ UNCHANGED <<defined, mode, frames, hookWrites>>

-----------------------------------------------------------------------------
(* The whole map *)

Stored == {k \in Key : items[k] # NoNode}

\* mutant: everything is thrown away first
AllStale(keys) == Stored

Stale(keys) == Stored \ keys

\* applySnapshot
ApplySnapshot(order, snapshots) ==
  /\ Idle
  /\ LET keys == Range(order) IN
     /\ \A k \in keys : Permitted(k, snapshots[k]) /\ Settled(k, snapshots[k])
     /\ frames' = <<[op |-> "apply", keys |-> keys, stale |-> Stale(keys), since |-> hookWrites,
                     todo |-> [i \in DOMAIN order |-> <<order[i], snapshots[order[i]]>>],
                     kept |-> [k \in Key |-> IF k \in keys /\ snapshots[k].kind # "hidden"
                                             THEN items[k] ELSE NoNode]]>>
  /\ refused' = FALSE
  /\ Unchanged /\ UNCHANGED hookWrites

\* every key of the snapshot is set, in its order
ApplyKey ==
  /\ ~Idle /\ Top.op = "apply" /\ Top.todo # <<>>
  /\ Set(Head(Top.todo)[1], Head(Top.todo)[2],
         Front(frames) \o <<[Top EXCEPT !.todo = Tail(@)]>>)
  /\ UNCHANGED hookWrites

\* then the keys that were there before and are not in it are deleted
ApplyDelete(k) ==
  /\ ~Idle /\ Top.op = "apply" /\ Top.todo = <<>> /\ k \in Top.stale
  /\ Drop(k, Front(frames) \o <<[Top EXCEPT !.stale = @ \ {k}]>>)
  /\ UNCHANGED hookWrites

EndApply ==
  /\ ~Idle /\ Top.op = "apply" /\ Top.todo = <<>> /\ Top.stale = {}
  /\ frames' = Front(frames)
  /\ refused' = FALSE
  /\ Unchanged /\ UNCHANGED hookWrites

-----------------------------------------------------------------------------
\* create, and attaching to or detaching from another part of the program
Elsewhere(n) ==
  /\ Idle /\ defined
  /\ \/ place[n] \in {"absent", "there"} /\ place' = [place EXCEPT ![n] = "free"]
     \/ place[n] = "free" /\ place' = [place EXCEPT ![n] = "there"]
  /\ refused' = FALSE
  /\ UNCHANGED <<defined, mode, items, subpath, frames, hookWrites>>

\* the definition of a late item type can be evaluated
Define ==
  /\ Idle /\ ~defined
  /\ defined' = TRUE
  /\ refused' = FALSE
  /\ UNCHANGED <<mode, items, place, subpath, frames, hookWrites>>

\* another map of the type is instantiated
InstantiateAnother ==
  /\ Idle
  /\ mode' = Determined(defined, mode)
  /\ refused' = FALSE
  /\ UNCHANGED <<defined, items, place, subpath, frames, hookWrites>>

Next ==
  \/ \E k \in Key, v \in Value : SetItem(k, v)
  \/ \E v \in Value : Put(v)
  \/ \E k \in Key : DeleteItem(k) \/ ApplyDelete(k)
  \/ \E keys \in SUBSET Key : \E order \in SetToSeqs(keys), snapshots \in [keys -> Snapshot] :
       ApplySnapshot(order, snapshots)
  \/ EndReplace \/ EndRemove \/ ApplyKey \/ EndApply
  \/ \E n \in Node : Detach(n) \/ Elsewhere(n)
  \/ Define \/ InstantiateAnother

Spec == Init /\ [][Next]_vars

-----------------------------------------------------------------------------
(* Properties *)

\* The map and its nodes agree: in the middle of a write too, what the map
\* holds is alive, under its key and under its own identifier, whichever way it
\* came in and whatever the hooks of the items it replaced did ("it is mandatory
\* to store the child under that identifier in the map"); and between writes a
\* node that has the map for parent is in it.
Placed ==
  /\ \A k \in Stored :
       place[items[k]] = "here" /\ subpath[items[k]] = k /\ IdOf[items[k]] = k
  /\ Idle => \A n \in Node : place[n] = "here" => \E k \in Stored : items[k] = n

\* A write that throws takes nothing out of the map, puts nothing in it and
\* moves or kills no node that was there before (assertStorableUnder refuses
\* "before the write kills the node it replaces or adopts this one").
RefusedChangesNothing ==
  [][refused' =>
       /\ UNCHANGED <<items, subpath>>
       /\ \A n \in Node : place[n] # "absent" => place'[n] = place[n]]_vars

\* When no hook interferes, applySnapshot leaves exactly the keys of the
\* snapshot, and keeps every item whose identifier the snapshot shows instead
\* of building it anew ("Don't use target.replace, as it will throw away all
\* existing items first").
AppliedInPlace ==
  [][EndApply /\ Top.since = hookWrites =>
       /\ Stored = Top.keys
       /\ \A k \in Top.keys : Top.kept[k] # NoNode => items[k] = Top.kept[k]]_vars
=============================================================================
