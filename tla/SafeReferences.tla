--------------------------- MODULE SafeReferences ---------------------------
(***************************************************************************)
(* types.safeReference: a model (a host) whose property holds the          *)
(* identifier of another node (a target) and is set to undefined when that *)
(* target leaves.  The property resolves its identifier in its own tree,   *)
(* but hears of the target through hooks it registered on one node, its    *)
(* watch.  Both must be about the same node for the promise to hold.       *)
(*                                                                         *)
(* Nodes are created lazily: a host added to a ready tree starts watching  *)
(* when it is first read.                                                  *)
(***************************************************************************)
EXTENDS Forest

CONSTANTS
  Host,       \* models with one safe reference
  Target,     \* models with an identifier
  Container,  \* models with neither
  Id, NoId,   \* identifiers, and undefined
  IdOf,       \* identifier of each target
  Doomed      \* which of the known gaps may be entered: {"late", "moved"}

ASSUME SafeReferencesAssumption ==
  /\ Node = Host \cup Target \cup Container
  /\ Host \cap (Target \cup Container) = {} /\ Target \cap Container = {}
  /\ NoNode \notin Node /\ NoId \notin Id
  /\ IdOf \in [Target -> Id]
  /\ Doomed \subseteq {"late", "moved"}

VARIABLES
  life,    \* absent, alive or dead
  parent,
  read,    \* hosts whose observable instance exists
  value,   \* the identifier a host stores
  watch    \* the target a host's reference registered its hooks on

vars == <<life, parent, read, value, watch>>

TypeOK ==
  /\ life \in [Node -> {"absent", "alive", "dead"}]
  /\ parent \in [Node -> Node \cup {NoNode}]
  /\ read \subseteq Host
  /\ value \in [Host -> Id \cup {NoId}]
  /\ watch \in [Host -> Target \cup {NoNode}]

Init ==
  /\ life = [n \in Node |-> "absent"]
  /\ parent = [n \in Node |-> NoNode]
  /\ read = {}
  /\ value = [h \in Host |-> NoId]
  /\ watch = [h \in Host |-> NoNode]

\* The target an identifier resolves to from n.
Resolved(lif, par, n, i) ==
  LET root == RootOf(par, n)
      found == {t \in Target :
                  lif[t] = "alive" /\ IdOf[t] = i /\ RootOf(par, t) = root}
  IN IF found = {} THEN NoNode ELSE CHOOSE t \in found : TRUE

Current(h) == Resolved(life, parent, h, value[h])

\* One target per identifier in a tree, which types.identifier asks of its
\* users and the caches do not enforce: a second one makes resolve throw.
Unambiguous(lif, par) ==
  \A s, t \in Target :
    s # t /\ lif[s] = "alive" /\ lif[t] = "alive" /\ IdOf[s] = IdOf[t]
      => RootOf(par, s) # RootOf(par, t)

\* A host that is watching something else than what it now resolves to.
Missed(lif, par) ==
  \E h \in read :
    /\ lif[h] = "alive"
    /\ Resolved(lif, par, h, value[h]) \notin {NoNode, watch[h]}

Alive(n) == life[n] = "alive"
IsRoot(n) == Alive(n) /\ parent[n] = NoNode
Subtree(n) == {m \in Node : n \in Ancestors(parent, m)}
CanHold(p) == Alive(p) /\ p \notin Host

-----------------------------------------------------------------------------
(* What a reference does: startWatching and the hooks it registers.        *)

\* startWatching(false): watch the target, or fire invalidSnapshotReference.
Started(lif, par, H, val) ==
  LET hit(h) == Resolved(lif, par, h, val[h])
  IN /\ watch' = [h \in Host |-> IF h \in H THEN hit(h) ELSE watch[h]]
     /\ value' = [h \in Host |-> IF h \in H /\ hit(h) = NoNode THEN NoId ELSE val[h]]

\* mutant: the handler forgets to ignore a reference detached with its target
NotifiedWithin(T, gone) == {h \in Host : watch[h] \in T}

\* The hosts whose hooks fire when targets T leave, less those that go along:
\* on a detach the handler ignores a reference within the subject, on a death
\* the reference disposed its hooks or died with its parent.
Notified(T, gone) == {h \in Host : watch[h] \in T /\ h \notin gone}

\* mutant: a dying reference keeps its hooks
RemovedKeepingHooks(H) ==
  /\ value' = [h \in Host |-> IF h \in H THEN NoId ELSE value[h]]
  /\ UNCHANGED watch

\* removeRef replaces the reference by undefined, which disposes its hooks.
Removed(H) ==
  /\ value' = [h \in Host |-> IF h \in H THEN NoId ELSE value[h]]
  /\ watch' = [h \in Host |-> IF h \in H THEN NoNode ELSE watch[h]]

-----------------------------------------------------------------------------
(* A target or a container created as a root or in a ready tree.           *)
Create(n, p) ==
  /\ life[n] = "absent" /\ n \notin Host
  /\ p # NoNode => CanHold(p)
  /\ life' = [life EXCEPT ![n] = "alive"]
  /\ parent' = [parent EXCEPT ![n] = p]
  /\ Unambiguous(life', parent')
  /\ Missed(life', parent') => "late" \in Doomed
  /\ UNCHANGED <<read, value, watch>>

\* A host added to a ready tree from a snapshot: its reference waits for the
\* first read, since the root's afterCreationFinalization is long past.
AddHost(h, p, i) ==
  /\ life[h] = "absent" /\ CanHold(p)
  /\ life' = [life EXCEPT ![h] = "alive"]
  /\ parent' = [parent EXCEPT ![h] = p]
  /\ value' = [value EXCEPT ![h] = i]
  /\ UNCHANGED <<read, watch>>

\* A tree created from one snapshot, hosts, targets and all: when the root is
\* finalized every reference in it is built and starts watching.
NewTree(r, h, i, T) ==
  LET born == {r, h} \cup T
  IN /\ \A n \in born : life[n] = "absent"
     /\ r \notin Host \/ (r = h /\ T = {})
     /\ r \notin T
     /\ life' = [n \in Node |-> IF n \in born THEN "alive" ELSE life[n]]
     /\ parent' = [n \in Node |-> IF n \in born \ {r} THEN r ELSE parent[n]]
     /\ Unambiguous(life', parent')
     /\ read' = read \cup {h}
     /\ Started(life', parent', {h}, [value EXCEPT ![h] = i])

\* The first read of a lazily added host.
Read(h) ==
  /\ Alive(h) /\ h \notin read
  /\ read' = read \cup {h}
  /\ Started(life, parent, {h}, value)
  /\ UNCHANGED <<life, parent>>

\* mutant: a reference built in sync mode does not watch
AssignUnwatched(h, i, same) ==
  /\ Alive(h) /\ h \in read
  /\ value' = [value EXCEPT ![h] = i]
  /\ watch' = IF same THEN watch ELSE [watch EXCEPT ![h] = NoNode]
  /\ UNCHANGED <<life, parent, read>>

\* reconcile keeps the reference for an equal identifier, and for an instance
\* it resolves to; otherwise a new one is built in sync mode, which watches
\* what it resolves to and lets a wrong reference stand.
Assign(h, i, same) ==
  /\ Alive(h) /\ h \in read
  /\ value' = [value EXCEPT ![h] = i]
  /\ watch' = IF same THEN watch
              ELSE [watch EXCEPT ![h] = Resolved(life, parent, h, i)]
  /\ UNCHANGED <<life, parent, read>>

AssignId(h, i) == Assign(h, i, value[h] = i)

AssignInstance(h, t) ==
  Alive(t) /\ Assign(h, IdOf[t], Current(h) = t)

\* Undefined: the old reference dies and disposes its hooks.
Unset(h) ==
  /\ Alive(h) /\ h \in read /\ value[h] # NoId
  /\ Removed({h})
  /\ UNCHANGED <<life, parent, read>>

\* The root of one tree stored in another.  No reference is told: its
\* afterAttach fired once, when it was built.
Attach(n, p) ==
  /\ IsRoot(n) /\ CanHold(p) /\ p \notin Subtree(n)
  /\ parent' = [parent EXCEPT ![n] = p]
  /\ Unambiguous(life, parent')
  /\ Missed(life, parent') => "moved" \in Doomed
  /\ UNCHANGED <<life, read, value, watch>>

\* mutant: clearParent does not walk below the detached node
DetachTopOnly(n) ==
  /\ Alive(n) /\ parent[n] # NoNode
  /\ n \in Host => n \in read
  /\ Removed(Notified({n}, Subtree(n)))
  /\ parent' = [parent EXCEPT ![n] = NoNode]
  /\ UNCHANGED <<life, read>>

\* clearParent: beforeDetach on n, then notifyDetachOf below it, then the cut.
\* A host is read to be detached.
Detach(n) ==
  /\ Alive(n) /\ parent[n] # NoNode
  /\ n \in Host => n \in read
  /\ Removed(Notified(Subtree(n) \cap Target, Subtree(n)))
  /\ parent' = [parent EXCEPT ![n] = NoNode]
  /\ UNCHANGED <<life, read>>

\* destroy, or a parent that drops its child: beforeDestroy below n, then
\* every node cut from its parent.  What a dead host stored is forgotten.
Die(n) ==
  LET gone == Subtree(n)
  IN /\ Alive(n)
     /\ Removed(Notified(gone \cap Target, gone) \cup (gone \cap Host))
     /\ life' = [m \in Node |-> IF m \in gone THEN "dead" ELSE life[m]]
     /\ parent' = [m \in Node |-> IF m \in gone THEN NoNode ELSE parent[m]]
     /\ read' = read \ gone

Next ==
  \/ \E n \in Node : Detach(n) \/ Die(n)
  \/ \E n \in Node, p \in Node \cup {NoNode} : Create(n, p)
  \/ \E n, p \in Node : Attach(n, p)
  \/ \E h \in Host, p \in Node, i \in Id : AddHost(h, p, i)
  \/ \E r \in Node, h \in Host, i \in Id, T \in SUBSET Target : NewTree(r, h, i, T)
  \/ \E h \in Host : Read(h) \/ Unset(h)
  \/ \E h \in Host, i \in Id : AssignId(h, i)
  \/ \E h \in Host, t \in Target : AssignInstance(h, t)

Spec == Init /\ [][Next]_vars

-----------------------------------------------------------------------------
(* Properties *)

\* A reference that resolves has its hooks on the node it resolves to,
\* whatever was moved, replaced or renamed in between (startWatching and the
\* reconcile of references); and hooks sit only on living targets with the
\* stored identifier, so that a host that is dead, unread or undefined has none
\* (the disposers of watchTargetNodeForInvalidations).
WatchesWhatItResolves ==
  /\ \A h \in read : Current(h) # NoNode => watch[h] = Current(h)
  /\ \A h \in Host : watch[h] # NoNode =>
       h \in read /\ Alive(h) /\ Alive(watch[h]) /\ IdOf[watch[h]] = value[h]

\* When the target of a reference dies, or is taken out of the host's tree
\* while the host stays, the reference becomes undefined in that very step
\* (safeReference: "automatically sets itself to undefined when the reference
\* it is pointing to gets detached/destroyed").
ClearedWithTarget ==
  [][\A h \in read, t \in Target :
       /\ Current(h) = t /\ Alive(h)'
       /\ RootOf(parent', h) = RootOf(parent, h)
       /\ ~Alive(t)' \/ RootOf(parent', t) # RootOf(parent', h)
       => value'[h] = NoId]_vars

\* No reference is lost by a change elsewhere: when a death, a detach or an
\* attach makes a reference undefined, its identifier resolves to nothing in
\* the tree the host is left in (fireInvalidated).
ClearedOnlyWithTarget ==
  [][\A h \in Host :
       /\ <<life, parent>> # <<life, parent>>'
       /\ Alive(h) /\ Alive(h)' /\ value[h] # NoId /\ value'[h] = NoId
       => Resolved(life', parent', h, value[h]) = NoNode]_vars
=============================================================================
