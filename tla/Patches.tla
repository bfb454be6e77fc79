------------------------------- MODULE Patches -------------------------------
(***************************************************************************)
(* The patches a write emits, and the recorder that keeps them to undo and *)
(* replay the write.  The store is a model with an array of identified     *)
(* items, a map of plain boxes and one more item:                          *)
(*                                                                         *)
(*   Item  = types.model({ id: types.identifier, v: ... })                 *)
(*   Store = types.model({ items: types.array(Item),                       *)
(*                         boxes: types.map(types.model({ v: ... })),      *)
(*                         lead: Item })                                   *)
(*                                                                         *)
(* Every write is one synchronous call; the order of the patches inside it *)
(* is what matters, because a write reconciles old nodes (which emit       *)
(* patches of their own), runs the hooks of the ones it drops, and only    *)
(* then emits the patches of the collection itself.                        *)
(*                                                                         *)
(* A path is the sequence of its parts; positions count from 1.  A box is  *)
(* known by its v.  No two items of the array share an identifier.         *)
(***************************************************************************)
EXTENDS Naturals, Sequences, FiniteSets, Functions, SequencesExt

CONSTANTS
  Id,        \* identifiers of items
  Key,       \* keys of the map
  Val,       \* values of a field
  MaxItems,  \* bound on the length of the array
  MaxWrites, \* bound on the writes, but for those of a stopped recorder
  Stores,    \* the snapshots the store is created from
  Farewell   \* what the beforeDestroy hook of an item writes to: "none",
             \* "lead" (the lead item) or "first" (the first item of the array)

ASSUME PatchesAssumption ==
  /\ MaxItems \in Nat /\ MaxWrites \in Nat
  /\ Farewell \in {"none", "lead", "first"}

VARIABLES
  doc,        \* the snapshot of the store
  subject,    \* the node the recorder listens to
  recording,
  patches,    \* data.patches
  inverses,   \* data.inversePatches
  start,      \* the subject's snapshot when the recorder was made
  seen,       \* and when it last listened
  whole,      \* no write escaped the recorder between two it recorded
  writes      \* writes made

vars == <<doc, subject, recording, patches, inverses, start, seen, whole, writes>>

Item == [id : Id, v : Val]

Distinct(s) == \A i, j \in DOMAIN s : s[i].id = s[j].id => i = j

Fits(s) == Len(s) <= MaxItems /\ Distinct(s)

ItemList == {s \in UNION {[1 .. n -> Item] : n \in 0 .. MaxItems} : Fits(s)}

BoxMap == UNION {[K -> Val] : K \in SUBSET Key}

Doc == [items : ItemList, boxes : BoxMap, lead : Item]

NoValue == "no value"

Patch(op, path, value) == [op |-> op, path |-> path, value |-> value]

-----------------------------------------------------------------------------
(* Writing to the array *)

\* what emitPatch is given: the item that emits, or the store, and a patch with
\* the value it replaces
Emitted(node, op, path, value, old) ==
  [node |-> node, op |-> op, path |-> path, value |-> value, old |-> old]

IdAt(s, id) == IF \E j \in DOMAIN s : s[j].id = id
               THEN CHOOSE j \in DOMAIN s : s[j].id = id ELSE 0

\* an assignment to v, also as part of applySnapshot on the node
FieldPatch(node, path, old, new) ==
  IF old = new THEN <<>>
  ELSE <<Emitted(node, "replace", Append(path, "v"), new, old)>>

\* mutant: reconcile moves the node before it applies the snapshot
MovedFirst(old, at, new) ==
  LET reused == {k \in DOMAIN new : IdAt(old, new[k].id) # 0}
      Update(k) == LET x == old[IdAt(old, new[k].id)]
                   IN  FieldPatch(x.id, <<"items", at + k - 1>>, x.v, new[k].v)
  IN  [k \in DOMAIN new |-> IF k \in reused THEN Update(k) ELSE <<>>]

\* The old nodes a write reuses take their new values in the order of the
\* values, each still under its old path: reconcile applies the snapshot
\* before it moves the node.
Updated(old, at, new) ==
  LET reused == SelectSeq(new, LAMBDA x : IdAt(old, x.id) # 0)
  IN  [k \in DOMAIN reused |->
         LET j == IdAt(old, reused[k].id)
         IN  FieldPatch(old[j].id, <<"items", at + j - 1>>, old[j].v, reused[k].v)]

\* One old node that is dropped: its beforeDestroy hook writes its value to
\* another node, if that is alive and is not the node itself.  Nodes that are
\* reused have moved, the array itself has not.
Bury(acc, j, at, new, hook) ==
  LET gone == acc.items[at + j - 1]
      first == acc.items[1]
      place == Max({1, IdAt(new, first.id)})
  IN  CASE hook = "lead" ->
             [acc EXCEPT !.lead.v = gone.v, !.dead = @ \cup {gone.id},
                         !.out = @ \o FieldPatch("store", <<"lead">>, acc.lead.v, gone.v)]
        [] hook = "first" /\ first.id \notin acc.dead \cup {gone.id} ->
             [acc EXCEPT !.items[1].v = gone.v, !.dead = @ \cup {gone.id},
                         !.out = @ \o FieldPatch(first.id, <<"items", place>>,
                                                first.v, gone.v)]
        [] OTHER -> [acc EXCEPT !.dead = @ \cup {gone.id}]

\* reconcileArrayChildren on the n items from position at: the items as the
\* write leaves them in their old places, and what was emitted on the way
Reconciled(d, at, n, new, hook) ==
  LET old == SubSeq(d.items, at, at + n - 1)
      now == [p \in DOMAIN d.items |->
                LET hit == IdAt(new, d.items[p].id)
                IN  IF p \in at .. at + n - 1 /\ hit # 0 THEN new[hit] ELSE d.items[p]]
      drop == SelectSeq([j \in 1 .. n |-> j], LAMBDA j : IdAt(new, old[j].id) = 0)
  IN  FoldLeft(LAMBDA acc, j : Bury(acc, j, at, new, hook),
               [items |-> now, lead |-> d.lead, dead |-> {},
                out |-> FlattenSeq(Updated(old, at, new))],
               drop)

\* the values of the write, as the hooks left them
Placed(r, at, n, new) ==
  [k \in DOMAIN new |->
     LET j == IdAt(SubSeq(r.items, at, at + n - 1), new[k].id)
     IN  IF j = 0 THEN new[k] ELSE r.items[at + j - 1]]

Outcome(d, out, gone) == [doc |-> d, out |-> out, gone |-> gone, failed |-> FALSE]

Failed(d) == [doc |-> d, out |-> <<>>, gone |-> {}, failed |-> TRUE]

\* mutant: removed nodes from the first to the last
Ascending(at, removed, added) ==
  [i \in DOMAIN removed |->
     Emitted("store", "remove", <<"items", at + i - 1>>, NoValue, removed[i])]
  \o [k \in DOMAIN added |->
        Emitted("store", "add", <<"items", at + k - 1>>, added[k], NoValue)]

\* removed nodes from the last to the first, then the added ones in order
SplicePatches(at, removed, added) ==
  Reverse([i \in DOMAIN removed |->
             Emitted("store", "remove", <<"items", at + i - 1>>, NoValue, removed[i])])
  \o [k \in DOMAIN added |->
        Emitted("store", "add", <<"items", at + k - 1>>, added[k], NoValue)]

\* willChange and didChange of a splice
Splice(d, at, n, new, hook) ==
  LET old == SubSeq(d.items, at, at + n - 1)
      r == Reconciled(d, at, n, new, hook)
      added == Placed(r, at, n, new)
      after == SubSeq(r.items, 1, at - 1) \o added
                 \o SubSeq(r.items, at + n, Len(r.items))
      same == Len(new) = n /\ \A k \in 1 .. n : new[k].id = old[k].id
  IN  Outcome([d EXCEPT !.items = after, !.lead = r.lead],
              r.out \o IF same THEN <<>>
                       ELSE SplicePatches(at, SubSeq(r.items, at, at + n - 1), added),
              {x.id : x \in Range(old)} \ {x.id : x \in Range(new)})

\* willChange and didChange of an assignment to a position; mobx appends when
\* the position is the one after the last, and throws beyond it
SetItem(d, i, x, hook) ==
  IF i = Len(d.items) + 1 THEN Splice(d, i, 0, <<x>>, hook)
  ELSE IF i > Len(d.items) THEN Failed(d)
  ELSE LET r == Reconciled(d, i, 1, <<x>>, hook)
           put == Placed(r, i, 1, <<x>>)[1]
       IN  Outcome([d EXCEPT !.items = [r.items EXCEPT ![i] = put], !.lead = r.lead],
                   r.out \o IF d.items[i].id = x.id THEN <<>>
                            ELSE <<Emitted("store", "replace", <<"items", i>>, put, r.items[i])>>,
                   IF d.items[i].id = x.id THEN {} ELSE {d.items[i].id})

\* applyPatchLocally of the array; mobx clamps where a splice begins and what
\* it removes
ItemPatch(d, i, p, hook) ==
  CASE p.op = "replace" -> SetItem(d, i, p.value, hook)
    [] p.op = "add" -> Splice(d, Min({i, Len(d.items) + 1}), 0, <<p.value>>, hook)
    [] p.op = "remove" /\ i \in DOMAIN d.items -> Splice(d, i, 1, <<>>, hook)
    [] OTHER -> Outcome(d, <<>>, {})

-----------------------------------------------------------------------------
(* Writing to the map and to the models *)

\* set: a snapshot is reconciled into the box that is there
SetBox(d, k, v) ==
  Outcome([d EXCEPT !.boxes = (k :> v) @@ @],
          IF k \in DOMAIN d.boxes THEN FieldPatch("store", <<"boxes", k>>, d.boxes[k], v)
          ELSE <<Emitted("store", "add", <<"boxes", k>>, v, NoValue)>>, {})

\* set, given an instance: the box that is there dies
SetBoxInstance(d, k, v) ==
  IF k \in DOMAIN d.boxes
  THEN Outcome([d EXCEPT !.boxes[k] = v],
               <<Emitted("store", "replace", <<"boxes", k>>, v, d.boxes[k])>>, {})
  ELSE SetBox(d, k, v)

DeleteBox(d, k) ==
  IF k \in DOMAIN d.boxes
  THEN Outcome([d EXCEPT !.boxes = Restrict(@, DOMAIN @ \ {k})],
               <<Emitted("store", "remove", <<"boxes", k>>, NoValue, d.boxes[k])>>, {})
  ELSE Outcome(d, <<>>, {})

BoxPatch(d, k, p) ==
  IF p.op = "remove" THEN DeleteBox(d, k) ELSE SetBox(d, k, p.value)

Then(r, Do(_)) ==
  IF r.failed THEN r
  ELSE LET s == Do(r.doc)
       IN  [s EXCEPT !.out = r.out \o @, !.gone = r.gone \cup @]

\* applySnapshot of the map: set every key of the snapshot, then delete the
\* keys it does not have
SetBoxes(d, boxes) ==
  FoldLeft(LAMBDA r, k : Then(r, LAMBDA e : DeleteBox(e, k)),
           FoldLeft(LAMBDA r, k : Then(r, LAMBDA e : SetBox(e, k, boxes[k])),
                    Outcome(d, <<>>, {}), SetToSeq(DOMAIN boxes)),
           SetToSeq(DOMAIN d.boxes \ DOMAIN boxes))

\* willChange and didChange of a model, for the property lead: the old item
\* dies, and runs its hook, unless the snapshot has its identifier
SetLead(d, x, hook) ==
  IF d.lead.id = x.id
  THEN Outcome([d EXCEPT !.lead = x], FieldPatch("store", <<"lead">>, d.lead.v, x.v), {})
  ELSE LET bids == hook = "first" /\ d.items # <<>>
       IN  Outcome(
             [d EXCEPT !.lead = x,
                       !.items = IF bids THEN [@ EXCEPT ![1].v = d.lead.v] ELSE @],
             (IF bids THEN FieldPatch(d.items[1].id, <<"items", 1>>, d.items[1].v, d.lead.v) ELSE <<>>)
             \o <<Emitted("store", "replace", <<"lead">>, x, d.lead)>>, {})

\* assigning v of the node at a path
SetField(d, path, v) ==
  CASE path[1] = "lead" ->
         Outcome([d EXCEPT !.lead.v = v], FieldPatch("store", path, d.lead.v, v), {})
    [] path[1] = "boxes" /\ path[2] \in DOMAIN d.boxes ->
         Outcome([d EXCEPT !.boxes[path[2]] = v],
                 FieldPatch("store", path, d.boxes[path[2]], v), {})
    [] path[1] = "items" /\ path[2] \in DOMAIN d.items ->
         Outcome([d EXCEPT !.items[path[2]].v = v],
                 FieldPatch(d.items[path[2]].id, path, d.items[path[2]].v, v), {})
    [] OTHER -> Failed(d)

\* applySnapshot of the store: its properties in order
SetStore(d, s, hook) ==
  Then(Then(Splice(d, 1, Len(d.items), s.items, hook),
            LAMBDA e : SetBoxes(e, s.boxes)),
       LAMBDA e : SetLead(e, s.lead, hook))

\* applyPatchLocally on the node the path leads to
ApplyPatch(d, p, hook) ==
  CASE Len(p.path) = 0 -> SetStore(d, p.value, hook)
    [] Len(p.path) = 1 ->
         (CASE p.op = "remove" -> Failed(d)
            [] p.path[1] = "items" -> Splice(d, 1, Len(d.items), p.value, hook)
            [] p.path[1] = "boxes" -> SetBoxes(d, p.value)
            [] OTHER -> SetLead(d, p.value, hook))
    [] Len(p.path) = 2 /\ p.path[1] = "items" -> ItemPatch(d, p.path[2], p, hook)
    [] Len(p.path) = 2 /\ p.path[1] = "boxes" -> BoxPatch(d, p.path[2], p)
    [] OTHER ->
         IF p.op = "remove" THEN Failed(d)
         ELSE SetField(d, SubSeq(p.path, 1, Len(p.path) - 1), p.value)

\* applyPatches: one after the other, until one throws
ApplyPatches(d, ps, hook) ==
  FoldLeft(LAMBDA r, p : Then(r, LAMBDA e : ApplyPatch(e, p, hook)),
           Outcome(d, <<>>, {}), ps)

-----------------------------------------------------------------------------
(* The recorder *)

Gone == "gone"

Subject == Id \cup {"store", "items", Gone}

\* where the subject is, for emitPatch to cut off and applyPatches to start from
PathTo(d, node) ==
  CASE node = "store" -> <<>>
    [] node = "items" -> <<"items">>
    [] OTHER -> <<"items", IdAt(d.items, node)>>

\* the subject's snapshot, and the store with another one in its place
View(d, node) ==
  CASE node = "store" -> d
    [] node = "items" -> d.items
    [] node = Gone -> Gone
    [] OTHER -> d.items[IdAt(d.items, node)]

With(d, node, snapshot) ==
  CASE node = "store" -> snapshot
    [] node = "items" -> [d EXCEPT !.items = snapshot]
    [] OTHER -> [d EXCEPT !.items[IdAt(d.items, node)] = snapshot]

\* emitPatch climbs from the node that emits to the root
Heard(out, node) ==
  SelectSeq(out, LAMBDA e : \/ node = "store"
                            \/ node = "items" /\ e.path[1] = "items"
                            \/ node = e.node)

\* the path, relative to the node that is listened to
Localized(e, node) ==
  SubSeq(e.path, 1 + (CASE node = "store" -> 0 [] node = "items" -> 1 [] OTHER -> 2),
         Len(e.path))

Strip(e, node) == Patch(e.op, Localized(e, node), e.value)

Invert(e, node) ==
  CASE e.op = "add" -> Patch("remove", Localized(e, node), NoValue)
    [] e.op = "remove" -> Patch("add", Localized(e, node), e.old)
    [] OTHER -> Patch("replace", Localized(e, node), e.old)

\* applyPatches on the subject
Applied(d, node, ps, hook) ==
  ApplyPatches(d, [i \in DOMAIN ps |-> [ps[i] EXCEPT !.path = PathTo(d, node) \o @]],
               hook)

\* The recorder, if it listens, keeps what it hears.
Written(r) ==
  /\ Fits(r.doc.items)
  /\ doc' = r.doc
  /\ subject' = IF subject \in r.gone THEN Gone ELSE subject
  /\ whole' = (whole /\ subject \notin r.gone)
  /\ IF recording
     THEN LET heard == Heard(r.out, subject)
          IN  /\ patches' = patches \o [i \in DOMAIN heard |-> Strip(heard[i], subject)]
              /\ inverses' = inverses \o [i \in DOMAIN heard |-> Invert(heard[i], subject)]
              /\ seen' = View(doc', subject')
     ELSE UNCHANGED <<patches, inverses, seen>>
  /\ UNCHANGED <<recording, start>>

Counted == writes < MaxWrites /\ writes' = writes + 1

Write(r) == Counted /\ Written(r)

Init ==
  /\ doc \in Stores
  /\ subject \in Subject \ {Gone}
  /\ subject \in Id => IdAt(doc.items, subject) # 0
  /\ recording = TRUE
  /\ patches = <<>> /\ inverses = <<>>
  /\ start = View(doc, subject) /\ seen = start
  /\ whole = TRUE
  /\ writes = 0

SpliceItems ==
  \E at \in 1 .. Len(doc.items) + 1, new \in ItemList :
    \E n \in 0 .. Len(doc.items) + 1 - at : Write(Splice(doc, at, n, new, Farewell))

AssignItem ==
  \E i \in DOMAIN doc.items, x \in Item : Write(SetItem(doc, i, x, Farewell))

AssignField ==
  \E path \in {<<"lead">>} \cup ({"items"} \X DOMAIN doc.items)
                            \cup ({"boxes"} \X DOMAIN doc.boxes), v \in Val :
    Write(SetField(doc, path, v))

AssignBox == \E k \in Key, v \in Val : Write(SetBox(doc, k, v))

AssignBoxInstance == \E k \in Key, v \in Val : Write(SetBoxInstance(doc, k, v))

RemoveBox == \E k \in DOMAIN doc.boxes : Write(DeleteBox(doc, k))

ApplyBoxesSnapshot == \E boxes \in BoxMap : Write(SetBoxes(doc, boxes))

\* of the whole store
ApplySnapshot == \E s \in Stores : Write(SetStore(doc, s, Farewell))

AssignLead == \E x \in Item : Write(SetLead(doc, x, Farewell))

Stop ==
  /\ recording
  /\ recording' = FALSE
  /\ UNCHANGED <<doc, subject, patches, inverses, start, seen, whole, writes>>

Resume ==
  /\ ~recording
  /\ recording' = TRUE
  /\ whole' = (whole /\ View(doc, subject) = seen)
  /\ seen' = View(doc, subject)
  /\ UNCHANGED <<doc, subject, patches, inverses, start, writes>>

\* of what was recorded, and again: the recorder may still be listening
Undo ==
  /\ whole /\ inverses # <<>> /\ View(doc, subject) = seen
  /\ IF recording THEN Counted ELSE UNCHANGED writes
  /\ Written(Applied(doc, subject, Reverse(inverses), Farewell))

Replay ==
  /\ whole /\ patches # <<>> /\ View(doc, subject) = start
  /\ IF recording THEN Counted ELSE UNCHANGED writes
  /\ Written(Applied(doc, subject, patches, Farewell))

Next ==
  \/ SpliceItems \/ AssignItem \/ AssignField
  \/ AssignBox \/ AssignBoxInstance \/ RemoveBox \/ ApplyBoxesSnapshot
  \/ AssignLead \/ ApplySnapshot
  \/ Stop \/ Resume \/ Undo \/ Replay

Spec == Init /\ [][Next]_vars

-----------------------------------------------------------------------------
(* Properties *)

TypeOK ==
  /\ doc \in Doc
  /\ subject \in Subject
  /\ recording \in BOOLEAN /\ whole \in BOOLEAN
  /\ DOMAIN patches = DOMAIN inverses
  /\ writes \in 0 .. MaxWrites

\* The inverse patches, in reverse order, take the subject as it was when the
\* recorder last listened back to where the recording started, with every path
\* leading somewhere on the way: applied as data, to a store without hooks.
\* This is what onPatch says of a reverse patch and undo relies on, whatever
\* nodes a write reused, moved or dropped, also when the hook of a dropped item
\* writes to a property outside of the array (Farewell = "lead"); one that
\* writes to an item the same write moved refutes it (Farewell = "first").
UndoRestores ==
  whole => LET r == Applied(With(doc, subject, seen), subject, Reverse(inverses), "none")
           IN  ~r.failed /\ View(r.doc, subject) = start

\* The patches take a copy of the subject as the recording found it to where
\* the recorder last listened (replay on another store).
ReplayReproduces ==
  whole => LET r == Applied(With(doc, subject, start), subject, patches, "none")
           IN  ~r.failed /\ View(r.doc, subject) = seen
=============================================================================
