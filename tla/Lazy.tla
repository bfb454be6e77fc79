-------------------------------- MODULE Lazy --------------------------------
(***************************************************************************)
(* One lazy type, the type of a property of the models in a map.  Until    *)
(* the type is loaded the property is a placeholder that waits in          *)
(* pendingNodeList; then a walk over that list replaces each by a node of  *)
(* the loaded type, by a patch on its model with a path as in Paths.  User *)
(* code may write before each patch: it builds the model, whose hooks run. *)
(* (A lazy value that is itself an entry of a map or an item of an array   *)
(* is not replaced: the patch brings the very value that the placeholder   *)
(* holds, which those take for no change.)                                 *)
(*                                                                         *)
(* An item stands for the value of a property: it keeps its name when its  *)
(* placeholder is replaced by a loaded node.                               *)
(***************************************************************************)
EXTENDS Paths

CONSTANTS
  Item, None,
  Value,   \* snapshots of the lazy type
  Bad,     \* those that the loaded type refuses
  LazyKeys, \* the sets of keys of maps of models with a lazy property
  Property, \* the names the property may have
  Doomed   \* writes known to go wrong that callers attempt

ASSUME LazyAssumption ==
  None \notin Item \cup Property /\ Bad \subseteq Value /\ Doomed \subseteq {"escape", "refused"}

VARIABLES
  property,         \* the name of the lazy property
  content,          \* the item of the model under each key
  nature,           \* what stands for each item
  snapshot,         \* the snapshot of each item
  home,             \* the key of the model that each item is, or was, in
  pendingNodeList,  \* the placeholders there ever were
  ready,            \* the models for which shouldLoadPredicate holds
  load,             \* how far the type is
  index             \* how far the walk over the list is

entries == <<content, nature, snapshot, home>>
lazyVars == <<property, entries, pendingNodeList, ready, load, index>>
allVars == <<vars, lazyVars>>

TypeOK ==
  /\ property \in Property \cup {None}
  /\ content \in [keys -> Item \cup {None}]
  /\ nature \in [Item -> {"absent", "placeholder", "loaded", "dead"}]
  /\ snapshot \in [Item -> Value]
  /\ home \in [Item -> keys \cup {None}]
  /\ pendingNodeList \in Seq(Item)
  /\ ready \subseteq keys
  /\ load \in {"waiting", "loading", "walking", "done", "failed", "rejected"}
  /\ index \in Nat

Loaded == load \in {"walking", "done", "failed"}

\* where a patch with the path "/name" leads: nothing is escaped in it
Reading(name) == SplitJsonPath(Slash \o name)

Plain(name) == Reading(name) = <<name>>

LazyInit ==
  /\ Init
  /\ IF keys \in LazyKeys
     THEN property \in {p \in Property : Plain(p) \/ "escape" \in Doomed}
     ELSE property = None
  /\ content = [k \in keys |-> None]
  /\ nature = [i \in Item |-> "absent"]
  /\ snapshot \in [Item -> {CHOOSE v \in Value : TRUE}]
  /\ home = [i \in Item |-> None]
  /\ pendingNodeList = <<>>
  /\ ready = {} /\ load = "waiting" /\ index = 1

-----------------------------------------------------------------------------
\* the first "when", which runs once: a placeholder whose model wants it loaded
Wanted == \E k \in keys : content[k] # None /\ nature[content[k]] = "placeholder" /\ k \in ready

\* what user code did is followed by the reaction
ThenMaybeLoad ==
  /\ UNCHANGED <<property, index, vars>>
  /\ load' = IF load = "waiting" /\ Wanted' THEN "loading" ELSE load

Entry(k) == IF content[k] = None THEN None ELSE snapshot[content[k]]

Newcomer == CHOOSE i \in Item : nature[i] = "absent"

\* mutant: a node made after the load is a placeholder too
NeverLoaded == "placeholder"

\* what a node is that is made now
NatureOfNew == IF Loaded THEN "loaded" ELSE "placeholder"

\* A value in a new model, or a placeholder instead of one that dies
\* (instantiate)
Instantiate(k, v) ==
  /\ \E i \in Item : nature[i] = "absent"
  /\ content' = [content EXCEPT ![k] = Newcomer]
  /\ nature' = [i \in Item |-> IF i = Newcomer THEN NatureOfNew
                               ELSE IF i = content[k] THEN "dead" ELSE nature[i]]
  /\ snapshot' = [snapshot EXCEPT ![Newcomer] = v]
  /\ home' = [home EXCEPT ![Newcomer] = k]
  /\ pendingNodeList' =
       IF NatureOfNew = "placeholder" THEN Append(pendingNodeList, Newcomer) ELSE pendingNodeList

\* A value whose node stays, or is replaced by one of the loaded type (reconcile)
Reconcile(k, v) ==
  /\ nature' = [nature EXCEPT ![content[k]] = "loaded"]
  /\ snapshot' = [snapshot EXCEPT ![content[k]] = v]
  /\ UNCHANGED <<content, home, pendingNodeList>>

Put(k, v) == IF content[k] = None \/ ~Loaded THEN Instantiate(k, v) ELSE Reconcile(k, v)

\* The map gets a model with this value, or the property of the one it has is
\* assigned.  What the predicate says of a new model is open.
Set(k, v) ==
  /\ v \in Bad => ~Loaded /\ "refused" \in Doomed
  /\ Put(k, v)
  /\ IF content[k] = None THEN ready' \in {ready \cup {k}, ready \ {k}} ELSE UNCHANGED ready
  /\ ThenMaybeLoad

\* map.delete(key): the model dies with its value.  The second "when" observes
\* nothing, so a dead node stays in the list.
Delete(k) ==
  /\ content[k] # None
  /\ content' = [content EXCEPT ![k] = None]
  /\ nature' = [nature EXCEPT ![content[k]] = "dead"]
  /\ UNCHANGED <<snapshot, home, pendingNodeList, ready>>
  /\ ThenMaybeLoad

\* something changes that shouldLoadPredicate reads
BecomeReady(k) ==
  /\ content[k] # None
  /\ ready' = ready \cup {k}
  /\ UNCHANGED <<entries, pendingNodeList>>
  /\ ThenMaybeLoad

\* the promise of loadType settles
Settle ==
  /\ load = "loading"
  /\ load' \in {"walking", "rejected"}
  /\ UNCHANGED <<vars, property, entries, pendingNodeList, ready, index>>

\* mutant: nobody asks whether it still has a parent
Ever(i) == TRUE

Attached(i) == nature[i] = "placeholder"

\* One turn of the forEach.  A dead node has no parent and is passed by.  A
\* patch that throws ends the walk for all that follow: one whose value the
\* loaded type refuses, or whose path is read as one of several steps.  A path
\* that is read as another name leads to no property.
Walk ==
  /\ load = "walking"
  /\ UNCHANGED <<vars, property, ready>>
  /\ IF index > Len(pendingNodeList)
     THEN load' = "done" /\ UNCHANGED <<entries, pendingNodeList, index>>
     ELSE
       LET i == pendingNodeList[index] IN
       IF ~Attached(i)
       THEN index' = index + 1 /\ UNCHANGED <<entries, pendingNodeList, load>>
       ELSE IF snapshot[i] \in Bad \/ Len(Reading(property)) > 1
       THEN load' = "failed" /\ UNCHANGED <<entries, pendingNodeList, index>>
       ELSE
         /\ index' = index + 1
         /\ UNCHANGED load
         /\ IF Plain(property) THEN Put(home[i], snapshot[i])
            ELSE UNCHANGED <<entries, pendingNodeList>>

-----------------------------------------------------------------------------
\* In a map of models with lazy values no other path is followed.
Follows(target) ==
  /\ keys \notin LazyKeys
  /\ Follow(target) \/ Visit(target)
  /\ UNCHANGED lazyVars

Loader == Settle \/ Walk

Writes ==
  /\ keys \in LazyKeys
  /\ \E k \in keys : (\E v \in Value : Set(k, v)) \/ Delete(k) \/ BecomeReady(k)

LazyNext == (\E target \in Tree : Follows(target)) \/ Writes \/ Loader

\* the promise settles, and a walk that has begun goes on
LazySpec == LazyInit /\ [][LazyNext]_allVars /\ WF_<<load, index>>(Loader)

-----------------------------------------------------------------------------
\* When a placeholder wants to be loaded and the promise is kept, no placeholder
\* is left in the end, wherever it was and whatever is written meanwhile.
LoadEnds == Wanted ~> load = "rejected" \/ (load = "done" /\ \A i \in Item : nature[i] # "placeholder")

\* Loading changes no snapshot: each value is where it was put, and no value
\* that was deleted or replaced meanwhile comes back.
LoadKeepsSnapshots == [][Loader => \A k \in keys : Entry(k)' = Entry(k)]_allVars
=============================================================================
