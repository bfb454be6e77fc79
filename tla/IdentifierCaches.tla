-------------------------- MODULE IdentifierCaches --------------------------
(***************************************************************************)
(* The IdentifierCache objects and the references that read them.  A tree  *)
(* is known by the cache its root holds; which nodes and references are in *)
(* it is all this module says of its shape.  A StoredReference memoizes    *)
(* the node it resolved to with the stamp `${cacheId}-${modification}` of  *)
(* its identifier, and trusts it while the stamp is the current one.       *)
(***************************************************************************)
EXTENDS Naturals

CONSTANTS
  Node,      \* identified nodes
  NoNode,
  Cache,     \* cache objects that can ever be allocated
  NoCache,
  Id,        \* identifiers
  Ref,       \* stored references that can ever be created
  IdOf,      \* identifier of each node
  Wanted,    \* identifier each reference stores
  Accepts,   \* nodes whose type the target type of each reference accepts
  NoStamp,   \* a reference that has not resolved yet
  MaxStamp   \* bound on the modification counters

ASSUME IdentifierCachesAssumption ==
  /\ NoNode \notin Node /\ NoCache \notin Cache
  /\ IdOf \in [Node -> Id]
  /\ Wanted \in [Ref -> Id]
  /\ Accepts \in [Ref -> SUBSET Node]
  /\ MaxStamp \in Nat
  /\ NoStamp \notin Cache \X Nat

VARIABLES
  live,     \* caches held by the root of a tree
  retired,  \* caches of trees that joined another one
  set,      \* IdentifierCache.cache: the nodes registered under an identifier
  stamp,    \* IdentifierCache.lastCacheModificationPerId
  home,     \* the tree each node is in
  dead,     \* nodes that died
  refHome,  \* the tree each reference is in
  target,   \* resolvedReference.node
  seen      \* resolvedReference.lastCacheModification

trees == <<live, retired, set, stamp, home, dead, refHome>>
vars == <<live, retired, set, stamp, home, dead, refHome, target, seen>>

TypeOK ==
  /\ live \subseteq Cache
  /\ retired \subseteq Cache
  /\ set \in [Cache -> [Id -> SUBSET Node]]
  /\ stamp \in [Cache -> [Id -> Nat]]
  /\ home \in [Node -> Cache \cup {NoCache}]
  /\ dead \subseteq Node
  /\ refHome \in [Ref -> Cache \cup {NoCache}]
  /\ target \in [Ref -> Node \cup {NoNode}]
  /\ seen \in [Ref -> (Cache \X Nat) \cup {NoStamp}]

Init ==
  /\ live = {}
  /\ retired = {}
  /\ set = [c \in Cache |-> [i \in Id |-> {}]]
  /\ stamp = [c \in Cache |-> [i \in Id |-> 0]]
  /\ home = [n \in Node |-> NoCache]
  /\ dead = {}
  /\ refHome = [f \in Ref |-> NoCache]
  /\ target = [f \in Ref |-> NoNode]
  /\ seen = [f \in Ref |-> NoStamp]

-----------------------------------------------------------------------------
Unused == Cache \ (live \cup retired)

\* Registering or dropping N in c: the counter of each identifier concerned
\* advances.  A write that moves several nodes of one identifier advances it
\* once here and once per node in the code; stamps are only compared for
\* equality.
Touched(N) == {IdOf[n] : n \in N}

\* mutant: the counter advances only with the set itself, created or deleted
AdvanceWithTheSet(c, N) ==
  [i \in Id |-> IF i \in Touched(N) /\ set[c][i] \subseteq N THEN stamp[c][i] + 1
                                                         ELSE stamp[c][i]]

Advance(c, N) == [i \in Id |-> IF i \in Touched(N) THEN stamp[c][i] + 1 ELSE stamp[c][i]]

BelowBound(c, N) == \A i \in Touched(N) : stamp[c][i] < MaxStamp

Plus(c, N) == [i \in Id |-> set[c][i] \cup {n \in N : IdOf[n] = i}]

\* mutant: a set with one node is kept
ButTheLast(c, N) == [i \in Id |-> IF set[c][i] \subseteq N THEN set[c][i] ELSE set[c][i] \ N]

Minus(c, N) == [i \in Id |-> set[c][i] \ N]

\* constructor of a root: a new, empty cache
NewTree(c) ==
  /\ c \in Unused
  /\ live' = live \cup {c}
  /\ UNCHANGED <<retired, set, stamp, home, dead, refHome, target, seen>>

\* constructor of an identified node below the root that holds c
AddNode(c, n) ==
  /\ c \in live /\ home[n] = NoCache /\ n \notin dead
  /\ BelowBound(c, {n})
  /\ set' = [set EXCEPT ![c] = Plus(c, {n})]
  /\ stamp' = [stamp EXCEPT ![c] = Advance(c, {n})]
  /\ home' = [home EXCEPT ![n] = c]
  /\ UNCHANGED <<live, retired, dead, refHome, target, seen>>

\* a reference value written into the tree
AddRef(c, f) ==
  /\ c \in live /\ refHome[f] = NoCache /\ seen[f] = NoStamp
  /\ refHome' = [refHome EXCEPT ![f] = c]
  /\ UNCHANGED <<live, retired, set, stamp, home, dead, target, seen>>

\* finalizeDeath of a subtree with the nodes N and the references F
Die(c, N, F) ==
  /\ c \in live /\ N \cup F # {}
  /\ \A n \in N : home[n] = c
  /\ \A f \in F : refHome[f] = c
  /\ BelowBound(c, N)
  /\ set' = [set EXCEPT ![c] = Minus(c, N)]
  /\ stamp' = [stamp EXCEPT ![c] = Advance(c, N)]
  /\ home' = [n \in Node |-> IF n \in N THEN NoCache ELSE home[n]]
  /\ dead' = dead \cup N
  /\ refHome' = [f \in Ref |-> IF f \in F THEN NoCache ELSE refHome[f]]
  /\ UNCHANGED <<live, retired, target, seen>>

\* detach of a subtree: splitCache moves its nodes to a new cache, whose
\* counters stay at zero
Split(c, d, N, F) ==
  /\ c \in live /\ d \in Unused /\ d # c
  /\ \A n \in N : home[n] = c
  /\ \A f \in F : refHome[f] = c
  /\ BelowBound(c, N)
  /\ live' = live \cup {d}
  /\ set' = [set EXCEPT ![c] = Minus(c, N), ![d] = Plus(d, N)]
  /\ stamp' = [stamp EXCEPT ![c] = Advance(c, N)]
  /\ home' = [n \in Node |-> IF n \in N THEN d ELSE home[n]]
  /\ refHome' = [f \in Ref |-> IF f \in F THEN d ELSE refHome[f]]
  /\ UNCHANGED <<retired, dead, target, seen>>

\* mutant: one node for each identifier
OnePerIdentifier(d) ==
  {CHOOSE n \in set[d][i] : TRUE : i \in {j \in Id : set[d][j] # {}}}

Registered(d) == UNION {set[d][i] : i \in Id}

\* setParent of the root that holds d: mergeCache registers everything d does,
\* and d stays behind as it is
Merge(c, d) ==
  LET N == Registered(d) IN
  /\ c \in live /\ d \in live /\ c # d
  /\ BelowBound(c, N)
  /\ live' = live \ {d}
  /\ retired' = retired \cup {d}
  /\ set' = [set EXCEPT ![c] = Plus(c, N)]
  /\ stamp' = [stamp EXCEPT ![c] = Advance(c, N)]
  /\ home' = [n \in Node |-> IF home[n] = d THEN c ELSE home[n]]
  /\ refHome' = [f \in Ref |-> IF refHome[f] = d THEN c ELSE refHome[f]]
  /\ UNCHANGED <<dead, target, seen>>

\* IdentifierCache.resolve
Matches(f) == set[refHome[f]][Wanted[f]] \cap Accepts[f]

CurrentStamp(f) == <<refHome[f], stamp[refHome[f]][Wanted[f]]>>

\* updateResolvedReference: it throws when nothing or more than one node
\* matches, and then memoizes nothing
Resolve(f) ==
  /\ refHome[f] # NoCache
  /\ seen[f] # CurrentStamp(f)
  /\ \E n \in Matches(f) :
       /\ Matches(f) = {n}
       /\ target' = [target EXCEPT ![f] = n]
  /\ seen' = [seen EXCEPT ![f] = CurrentStamp(f)]
  /\ UNCHANGED trees

Next ==
  \/ \E c \in Cache : NewTree(c)
  \/ \E c \in Cache, n \in Node : AddNode(c, n)
  \/ \E c \in Cache, f \in Ref : AddRef(c, f)
  \/ \E c \in Cache, N \in SUBSET Node, F \in SUBSET Ref : Die(c, N, F)
  \/ \E c, d \in Cache, N \in SUBSET Node, F \in SUBSET Ref : Split(c, d, N, F)
  \/ \E c, d \in Cache : Merge(c, d)
  \/ \E f \in Ref : Resolve(f)

Spec == Init /\ [][Next]_vars

-----------------------------------------------------------------------------
\* The cache of a tree registers, under each identifier, exactly the nodes of
\* the tree that have it.
SetsExact ==
  \A c \in live, i \in Id : set[c][i] = {n \in Node : home[n] = c /\ IdOf[n] = i}

\* the reference would return its memoized target without looking it up
Trusted(f) == refHome[f] # NoCache /\ seen[f] = CurrentStamp(f)

\* A memoized target is never returned when it has died, has left the tree of
\* the reference, or has become ambiguous there (resolvedValue).
MemoIsCurrent ==
  \A f \in Ref : Trusted(f) =>
    /\ home[target[f]] = refHome[f]
    /\ \A n \in Accepts[f] :
         home[n] = refHome[f] /\ IdOf[n] = Wanted[f] => n = target[f]

\* The tree whose cache resolves each node.
resolvedIn ==
  [n \in Node |-> IF \E c \in live : n \in set[c][IdOf[n]]
                  THEN CHOOSE c \in live : n \in set[c][IdOf[n]]
                  ELSE NoCache]

\* The caches keep the promise of IdentifierScope, which StateTree keeps too:
\* a node becomes resolvable in one tree at a time, and moves from one to the
\* other only with the detached subtree or with the whole tree it is in.
Scope == INSTANCE IdentifierScope
           WITH Tree <- Cache, NoTree <- NoCache, scope <- resolvedIn, gone <- dead

ImplementsScope == Scope!Spec
=============================================================================
