------------------------------ MODULE StateTree ------------------------------
(***************************************************************************)
(* The tree of object nodes at the granularity of one public operation:    *)
(* create, read, assign, clear, detach and destroy, each run to its end    *)
(* with no user hook in between.  A node is an ObjectNode, a slot is a     *)
(* model property or a map key; arrays have a module of their own,         *)
(* ArrayWrites, and so do map keys that are identifiers, MapWrites.        *)
(*                                                                         *)
(* Doomed is the set of writes known to throw that callers still attempt.  *)
(* What the code does before the throw is modelled for each of them, and   *)
(* Refused steps record that the caller saw an exception.                  *)
(***************************************************************************)
EXTENDS Forest

CONSTANTS
  Slot,        \* subpaths below a node
  Identified,  \* nodes whose type has an identifier attribute
  NoSlot,      \* the empty subpath of a root
  Entry,       \* slots that are map entries; the others are properties
  Required,    \* properties whose type refuses undefined
  Env,         \* environments passed to create()
  NoEnv,       \* no environment
  Doomed       \* doomed writes that callers attempt

DoomedWrites == {"required", "halfBuilt", "placed", "dead", "ancestor", "environment", "sibling",
                 "unread"}

ASSUME StateTreeAssumption ==
  /\ NoNode \notin Node /\ NoSlot \notin Slot /\ NoEnv \notin Env
  /\ Identified \subseteq Node
  /\ Entry \subseteq Slot /\ Required \subseteq Slot \ Entry
  /\ Doomed \subseteq DoomedWrites

VARIABLES
  life,      \* NodeLifeCycle of each node, "absent" before its construction
  built,     \* nodes whose observable instance exists
  parent,    \* parent pointer
  subpath,   \* subpath below the parent
  contents,  \* what each node stores in each slot
  env,       \* environment held by the node itself
  rooted,    \* nodes that hold an identifierCache, live or stale
  cache,     \* nodes registered in that identifierCache
  verdict    \* how the last operation ended

tree == <<life, built, parent, subpath, contents, env, rooted, cache>>
vars == <<life, built, parent, subpath, contents, env, rooted, cache, verdict>>

Life == {"absent", "initializing", "created", "finalized", "dead"}

TypeOK ==
  /\ life \in [Node -> Life]
  /\ built \subseteq Node
  /\ parent \in [Node -> Node \cup {NoNode}]
  /\ subpath \in [Node -> Slot \cup {NoSlot}]
  /\ contents \in [Node -> [Slot -> Node \cup {NoNode}]]
  /\ env \in [Node -> Env \cup {NoEnv}]
  /\ rooted \subseteq Node
  /\ cache \in [Node -> SUBSET Identified]
  /\ verdict \in {"done", "refused"}

-----------------------------------------------------------------------------
Alive(n) == life[n] \in {"initializing", "created", "finalized"}

Fresh == {n \in Node : life[n] = "absent"}

Up(n) == Ancestors(parent, n)

\* what getChildren() returns
Stored(con, n) == {con[n][s] : s \in Slot} \ {NoNode}

\* n and its descendants: the recursions over getChildren()
Descendants(con, n) ==
  LET closed == {S \in SUBSET Node :
                   n \in S /\ \A x \in S : Stored(con, x) \subseteq S}
  IN {m \in Node : \A S \in closed : m \in S}

Below(n) == Descendants(contents, n)

Root(n) == RootOf(parent, n)

\* n and the uninitialized ancestors directly above it
ParentChain(n) ==
  {m \in Up(n) : \A x \in Up(n) : m \in Up(x) => x \notin built}

-----------------------------------------------------------------------------
(* Attaching *)

Attachable(n) == Root(n) \in rooted

SameEnvironment(n, e) == env[n] = NoEnv \/ env[n] = e

\* setParent accepts n below a tree rooted at r
Adoptable(n, r) ==
  /\ parent[n] = NoNode
  /\ n # r
  /\ SameEnvironment(n, env[r])
  /\ n \in rooted
  /\ r \in rooted

\* Callers holding an instance of n.  A dead one is offered only if it is
\* refused at once, or when the configuration says that callers offer it.
Offered(n) == (life[n] = "dead" /\ n \in rooted) => "dead" \in Doomed

Orphans == {a \in built : Alive(a) /\ parent[a] = NoNode}

\* What a snapshot puts in the slots of n: new nodes, and instances placed in it
Contents(n) ==
  {c \in [Slot -> ((Fresh \cup Orphans) \ {n}) \cup {NoNode}] :
     \A s, t \in Slot : s # t /\ c[s] # NoNode => c[s] # c[t]}

Filled(c) == {c[s] : s \in Slot} \ {NoNode}

Placed(c) == Filled(c) \cap Orphans

New(n, c) == {n} \cup (Filled(c) \cap Fresh)

NewIdentifiersOnly(n, c) == New(n, c) \cap Identified

\* identifiers that building n from c registers
Registered(n, c) ==
  (New(n, c) \cap Identified) \cup UNION {cache[a] : a \in Placed(c)}

SlotIn(c, x) == CHOOSE s \in Slot : c[s] = x

-----------------------------------------------------------------------------
Init ==
  /\ life = [n \in Node |-> "absent"]
  /\ built = {}
  /\ parent = [n \in Node |-> NoNode]
  /\ subpath = [n \in Node |-> NoSlot]
  /\ contents = [n \in Node |-> [s \in Slot |-> NoNode]]
  /\ env = [n \in Node |-> NoEnv]
  /\ rooted = {}
  /\ cache = [n \in Node |-> {}]
  /\ verdict = "done"

Refuse == verdict' = "refused" /\ UNCHANGED tree

\* Type.create(snapshot, env): the root is built, read and finalized, its
\* children are built and left uninitialized
Create(n, c, e) ==
  /\ \A a \in Placed(c) : SameEnvironment(a, e)
  /\ life' = [x \in Node |-> IF x = n THEN "finalized"
                             ELSE IF x \in New(n, c) THEN "initializing" ELSE life[x]]
  /\ built' = built \cup {n}
  /\ parent' = [x \in Node |-> IF x \in Filled(c) THEN n ELSE parent[x]]
  /\ subpath' = [x \in Node |-> IF x \in Filled(c) THEN SlotIn(c, x) ELSE subpath[x]]
  /\ contents' = [contents EXCEPT ![n] = c]
  /\ env' = [x \in Node |-> IF x = n THEN e ELSE IF x \in Placed(c) THEN NoEnv ELSE env[x]]
  /\ rooted' = rooted \cup {n}
  /\ cache' = [cache EXCEPT ![n] = Registered(n, c)]
  /\ verdict' = "done"

WithTheDead(chain) == chain

\* what a read of this chain finalizes
Finalizable(chain) == {x \in chain : life[x] # "dead"}

\* The first read of a node builds its instance and those of the
\* uninitialized ancestors above it, then finalizes them from the top down.
\* A node that died unread builds its instance and stays dead.  A read goes
\* through the slot that stores the node.
Read(n) ==
  /\ life[n] # "absent" /\ n \notin built
  /\ Alive(n) => contents[parent[n]][subpath[n]] = n
  /\ built' = built \cup ParentChain(n)
  /\ LET chain == ParentChain(n)
         top == CHOOSE m \in chain : parent[m] \notin chain
         ready == parent[top] = NoNode \/ life[parent[top]] = "finalized"
     IN life' = [x \in Node |->
                   IF x \notin Finalizable(chain) THEN life[x]
                   ELSE IF ready THEN "finalized" ELSE "created"]
  /\ verdict' = "done"
  /\ UNCHANGED <<parent, subpath, contents, env, rooted, cache>>

-----------------------------------------------------------------------------
(* Death.  Dying is the subtree die() kills.  A never-read node with a      *)
(* built descendant is built before its children die.                       *)

NodeOnly(old) == {old} \ {NoNode}

Dying(old) == IF old = NoNode THEN {} ELSE Below(old)

BuiltAtDeath(dying) == {m \in dying : (Below(m) \ {m}) \cap built # {}}

\* die() on a whole subtree of the tree rooted at r
Die(dying, r) ==
  /\ life' = [x \in Node |-> IF x \in dying THEN "dead" ELSE life[x]]
  /\ built' = built \cup BuiltAtDeath(dying)
  /\ parent' = [x \in Node |-> IF x \in dying THEN NoNode ELSE parent[x]]
  /\ subpath' = [x \in Node |-> IF x \in dying THEN NoSlot ELSE subpath[x]]
  /\ cache' = [cache EXCEPT ![r] = @ \ dying]

UncheckedHome(p, s, n) ==
  \/ ~Attachable(n) \/ ~Attachable(p)
  \/ contents[p][s] \in Up(n)

\* refused before the node stored in the slot is touched
RefusedFirst(p, s, n) ==
  \/ ~Attachable(n) \/ ~Attachable(p)
  \/ contents[p][s] \in Up(n)
  \/ parent[n] \notin {NoNode, p}
  \/ parent[n] = p /\ s \in Entry /\ contents[p][s] = NoNode

\* setParent throws after the node stored in the slot has died
RefusedLate(p, n) ==
  parent[n] = NoNode /\ ~Adoptable(n, Root(p))

\* p[s] = n, or map.set(s, n), for an instance n
Assign(p, s, n) ==
  LET old == contents[p][s]
      dying == Dying(old)
      r == Root(p)
      moved == parent[n] = NoNode
      late == RefusedLate(p, n)
  IN
  /\ Offered(p) /\ Offered(n) /\ n # old
  /\ old = NoNode => s \notin Required
  /\ IF RefusedFirst(p, s, n) THEN Refuse ELSE
     /\ late /\ old # NoNode =>
          (IF n = r THEN "ancestor" ELSE "environment") \in Doomed
     /\ parent[n] = p => "sibling" \in Doomed
     /\ life' = [x \in Node |-> IF x \in dying THEN "dead" ELSE life[x]]
     /\ built' = built \cup BuiltAtDeath(dying)
     /\ parent' = [x \in Node |-> IF x \in dying THEN NoNode
                                  ELSE IF x = n /\ ~late THEN p ELSE parent[x]]
     /\ subpath' = [x \in Node |-> IF x \in dying THEN NoSlot
                                   ELSE IF x = n /\ ~late THEN s ELSE subpath[x]]
     /\ contents' = IF late THEN contents ELSE [contents EXCEPT ![p][s] = n]
     /\ env' = IF late THEN env ELSE [env EXCEPT ![n] = NoEnv]
     /\ cache' = [cache EXCEPT ![r] = (@ \ dying) \cup
                    (IF moved /\ ~late THEN cache[n] ELSE {})]
     /\ verdict' = IF late THEN "refused" ELSE "done"
     /\ UNCHANGED rooted

\* p[s] = snapshot, for a snapshot the stored node does not reconcile with and
\* whose values are all built or adopted; when one is refused, HalfBuilt
AssignSnapshot(p, s, n, c) ==
  LET old == contents[p][s]
      dying == Dying(old)
      r == Root(p)
  IN
  /\ Alive(p)
  /\ old = NoNode => s \notin Required
  /\ \A a \in Placed(c) : Adoptable(a, r)
  /\ life' = [x \in Node |-> IF x \in dying THEN "dead"
                             ELSE IF x \in New(n, c) THEN "initializing" ELSE life[x]]
  /\ built' = built \cup BuiltAtDeath(dying)
  /\ parent' = [x \in Node |-> IF x \in dying THEN NoNode ELSE IF x = n THEN p
                               ELSE IF x \in Filled(c) THEN n ELSE parent[x]]
  /\ subpath' = [x \in Node |-> IF x \in dying THEN NoSlot ELSE IF x = n THEN s
                                ELSE IF x \in Filled(c) THEN SlotIn(c, x) ELSE subpath[x]]
  /\ contents' = [contents EXCEPT ![p][s] = n, ![n] = c]
  /\ env' = [x \in Node |-> IF x \in Placed(c) THEN NoEnv ELSE env[x]]
  /\ cache' = [cache EXCEPT ![r] = (@ \ dying) \cup Registered(n, c)]
  /\ verdict' = "done"
  /\ UNCHANGED rooted

\* The same write when a later value of the snapshot throws: its preprocessor,
\* or the attachment of an instance placed there that has a parent, is the root
\* of this tree or has another environment.  By then the stored node is dead.
\* n is dropped, and the slot keeps the dead node; what was built and adopted
\* before stays attached to n and registered.
HalfBuilt(p, s, n, c) ==
  LET old == contents[p][s]
      dying == Dying(old)
      r == Root(p)
  IN
  /\ \/ "halfBuilt" \in Doomed
     \/ /\ "placed" \in Doomed
        /\ \E t \in Slot, a \in built \ dying : c[t] = NoNode /\ ~Adoptable(a, r)
  /\ Alive(p)
  /\ old = NoNode => s \notin Required
  /\ \A a \in Placed(c) : Adoptable(a, r)
  /\ life' = [x \in Node |-> IF x \in dying THEN "dead"
                             ELSE IF x \in New(n, c) THEN "initializing" ELSE life[x]]
  /\ built' = built \cup BuiltAtDeath(dying)
  /\ parent' = [x \in Node |-> IF x \in dying THEN NoNode ELSE IF x = n THEN p
                               ELSE IF x \in Filled(c) THEN n ELSE parent[x]]
  /\ subpath' = [x \in Node |-> IF x \in dying THEN NoSlot ELSE IF x = n THEN s
                                ELSE IF x \in Filled(c) THEN SlotIn(c, x) ELSE subpath[x]]
  /\ env' = [x \in Node |-> IF x \in Placed(c) THEN NoEnv ELSE env[x]]
  /\ cache' = [cache EXCEPT ![r] = (@ \ dying) \cup (Registered(n, c) \ {n})]
  /\ verdict' = "refused"
  /\ UNCHANGED <<contents, rooted>>

\* The slot is emptied and what it stored dies
Remove(p, s) ==
  /\ Die(Dying(contents[p][s]), Root(p))
  /\ contents' = [contents EXCEPT ![p][s] = NoNode]
  /\ verdict' = "done"
  /\ UNCHANGED <<env, rooted>>

\* p[s] = undefined and map.delete(s)
Clear(p, s) ==
  /\ Alive(p) /\ contents[p][s] # NoNode
  /\ IF s \in Required THEN Refuse ELSE Remove(p, s)

\* destroy(n) below a root removes it from its parent, which has no instance
\* to remove it from when nothing has read it
DestroyChild(n) ==
  /\ Alive(n) /\ parent[n] # NoNode
  /\ IF parent[n] \notin built \/ subpath[n] \in Required
     THEN Refuse ELSE Remove(parent[n], subpath[n])

\* destroy(root)
DestroyRoot(n) ==
  /\ n \in Orphans
  /\ Die(Below(n), n)
  /\ verdict' = "done"
  /\ UNCHANGED <<contents, env, rooted>>

\* mutant: the identifiers below n stay behind
OwnIdentifier(r, n) == cache[r] \ {n}

\* mutant: the environment is lost on the way out
NoInheritance(r) == NoEnv

\* the environment that what leaves the tree of r takes along
Inherited(r) == env[r]

\* what splitCache(n) leaves to the tree of r
Unsplit(r, n) == cache[r] \ Below(n)

\* detach(n): the identifiers of the subtree move to a new cache, then the
\* parent removes the child.  When the removal throws, because the property
\* is required or the parent was never read, the new cache is dropped.
Detach(n) ==
  LET p == parent[n]
      r == Root(n)
      refused == p \notin built \/ subpath[n] \in Required
  IN
  /\ Alive(n) /\ p # NoNode
  /\ refused => (IF p \in built THEN "required" ELSE "unread") \in Doomed
  /\ parent' = IF refused THEN parent ELSE [parent EXCEPT ![n] = NoNode]
  /\ subpath' = IF refused THEN subpath ELSE [subpath EXCEPT ![n] = NoSlot]
  /\ contents' = IF refused THEN contents ELSE [contents EXCEPT ![p][subpath[n]] = NoNode]
  /\ env' = IF refused THEN env ELSE [env EXCEPT ![n] = Inherited(r)]
  /\ rooted' = IF refused THEN rooted ELSE rooted \cup {n}
  /\ cache' = [x \in Node |-> IF x = r THEN Unsplit(r, n)
                              ELSE IF x = n /\ ~refused THEN cache[r] \cap Below(n) ELSE cache[x]]
  /\ verdict' = IF refused THEN "refused" ELSE "done"
  /\ UNCHANGED <<life, built>>

Next ==
  \/ \E n \in Fresh : \E c \in Contents(n), e \in Env \cup {NoEnv} : Create(n, c, e)
  \/ \E n \in Node : Read(n)
  \/ \E p, n \in built, s \in Slot : Assign(p, s, n)
  \/ \E p \in built, s \in Slot, n \in Fresh : \E c \in Contents(n) : AssignSnapshot(p, s, n, c)
  \/ \E p \in built, s \in Slot : Clear(p, s)
  \/ \E n \in built : DestroyChild(n)
  \/ \E n \in built : DestroyRoot(n)
  \/ \E n \in built : Detach(n)

Spec == Init /\ [][Next]_vars

\* with the snapshots that fail half way
DoomedNext ==
  Next \/ \E p \in built, s \in Slot, n \in Fresh : \E c \in Contents(n) : HalfBuilt(p, s, n, c)

DoomedSpec == Init /\ [][DoomedNext]_vars

-----------------------------------------------------------------------------
(* Properties *)

\* The two ends of every link agree: a live node stores c under s exactly when
\* c points back at it with that subpath (getChildren() against parent).
PathsAgree ==
  \A p, c \in Node, s \in Slot :
    Alive(p) => (contents[p][s] = c <=> parent[c] = p /\ subpath[c] = s)

\* Walking up from a node reaches a root, and a live tree holds no dead node
\* and a dead node belongs to no tree (isAlive against root and getChildren).
RootedForest ==
  /\ Rooted(parent)
  /\ \A n \in Node : parent[n] # NoNode => Alive(n) /\ Alive(parent[n])

\* The cache of a live root registers exactly the identified nodes of its own
\* tree, whatever was moved, replaced or refused before (resolveIdentifier).
CacheExact ==
  \A r \in Node :
    Alive(r) /\ parent[r] = NoNode =>
      r \in rooted /\ cache[r] = Identified \cap Below(r)

\* A dead node stays dead, out of every tree and out of every live cache,
\* also when it is read for the first time after its death (ADR 0008).
DeadStaysOut ==
  [][\A n \in Node : life[n] = "dead" =>
       /\ life'[n] = "dead" /\ parent'[n] = NoNode
       /\ \A r \in Node : Alive(r)' /\ parent'[r] = NoNode => n \notin cache'[r]]_vars

\* The environment that getEnv finds for a node, once there is one, is the same
\* for its whole life: on the way into a tree and out of it, with the subtree it
\* belongs to, below whatever root.
EnvironmentKept ==
  [][\A n \in Node :
       Alive(n) /\ Alive(n)' /\ env[Root(n)] # NoEnv => env'[Root(n)'] = env[Root(n)]]_vars

\* An operation that throws leaves the tree as it found it: no node killed,
\* re-parented or registered by the attempt (failed-writes.test.ts).  The doomed
\* writes break it; the others are refused before they begin.
RefusedLeavesTree ==
  [][verdict' = "refused" => UNCHANGED tree]_vars

-----------------------------------------------------------------------------
(* The identifier caches implement IdentifierScope. *)

LiveRoots == {r \in Node : Alive(r) /\ parent[r] = NoNode}

ScopeOf(n) ==
  IF \E r \in LiveRoots : n \in cache[r]
  THEN CHOOSE r \in LiveRoots : n \in cache[r] ELSE NoNode

Scope == INSTANCE IdentifierScope
           WITH Tree <- Node, NoTree <- NoNode,
                scope <- [n \in Node |-> ScopeOf(n)],
                gone <- {n \in Identified : life[n] = "dead"}

\* resolveIdentifier sees every identified node in exactly one tree from its
\* construction to its death, as IdentifierScope promises.
ImplementsScope == Scope!Spec
=============================================================================
