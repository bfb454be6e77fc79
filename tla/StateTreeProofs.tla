--------------------------- MODULE StateTreeProofs ---------------------------
(***************************************************************************)
(* Every write that is not doomed keeps the tree of object nodes a forest  *)
(* whose links and identifier caches agree, for any number of nodes, slots *)
(* and environments.                                                       *)
(***************************************************************************)
EXTENDS StateTree, TLAPS

ParentFunction == [Node -> Node \cup {NoNode}]

-----------------------------------------------------------------------------
(* Walks up *)

\* A walk starts at its own node.
LEMMA AncestorsSelf ==
  ASSUME NEW par, NEW n \in Node
  PROVE  n \in Ancestors(par, n)
BY DEF Ancestors

\* A walk stays among the nodes.
LEMMA AncestorsType ==
  ASSUME NEW par, NEW n
  PROVE  Ancestors(par, n) \subseteq Node
BY DEF Ancestors

\* A walk goes on to the parent of every node it passes.
LEMMA AncestorsStep ==
  ASSUME NEW par \in ParentFunction, NEW n \in Node,
         NEW x \in Ancestors(par, n), par[x] # NoNode
  PROVE  par[x] \in Ancestors(par, n)
<1>1. x \in Node /\ par[x] \in Node
  BY DEF Ancestors, ParentFunction
<1> QED BY <1>1 DEF Ancestors

\* A walk passes no more than any closed set that holds its start.
LEMMA AncestorsLeast ==
  ASSUME NEW par, NEW n \in Node, NEW S \in SUBSET Node, n \in S,
         \A x \in S : par[x] # NoNode => par[x] \in S
  PROVE  Ancestors(par, n) \subseteq S
BY DEF Ancestors

\* The walk from a root ends at once.
LEMMA AncestorsOfRoot ==
  ASSUME NEW par, NEW n \in Node, par[n] = NoNode
  PROVE  Ancestors(par, n) = {n}
<1>1. Ancestors(par, n) \subseteq {n}
  BY AncestorsLeast, {n} \in SUBSET Node
<1> QED BY <1>1, AncestorsSelf

\* The walk from a node continues with the walk from its parent.
LEMMA AncestorsUnfold ==
  ASSUME NoNode \notin Node,
         NEW par \in ParentFunction, NEW n \in Node, par[n] # NoNode
  PROVE  Ancestors(par, n) = {n} \cup Ancestors(par, par[n])
<1> DEFINE p == par[n]
           S == {n} \cup Ancestors(par, p)
<1>1. p \in Node
  BY DEF ParentFunction
<1>2. p \in Ancestors(par, p)
  BY <1>1, AncestorsSelf
<1>3. Ancestors(par, n) \subseteq S
  <2>1. \A x \in S : par[x] # NoNode => par[x] \in S
    BY <1>1, <1>2, AncestorsStep
  <2>2. S \in SUBSET Node
    BY AncestorsType
  <2>3. n \in S
    OBVIOUS
  <2> HIDE DEF S
  <2> QED BY <2>1, <2>2, <2>3, AncestorsLeast
<1>4. Ancestors(par, p) \subseteq Ancestors(par, n)
  <2>1. p \in Ancestors(par, n)
    BY AncestorsSelf, AncestorsStep
  <2> QED BY <1>1, <2>1, AncestorsType, AncestorsStep, AncestorsLeast
<1> QED BY <1>3, <1>4, AncestorsSelf

\* A walk passes at most one root.
LEMMA OneRoot ==
  ASSUME NoNode \notin Node,
         NEW par \in ParentFunction, NEW n \in Node,
         NEW q \in Ancestors(par, n), NEW r \in Ancestors(par, n),
         par[q] = NoNode, par[r] = NoNode
  PROVE  q = r
<1> DEFINE S == {x \in Ancestors(par, n) : r \in Ancestors(par, x)}
<1>1. n \in S /\ S \in SUBSET Node
  BY AncestorsSelf, AncestorsType
<1>2. ASSUME NEW x \in S, par[x] # NoNode
      PROVE  par[x] \in S
  <2>1. x \in Node /\ par[x] \in Ancestors(par, n)
    BY <1>1, <1>2, AncestorsStep
  <2>2. Ancestors(par, x) = {x} \cup Ancestors(par, par[x])
    BY <2>1, <1>2, AncestorsUnfold
  <2> QED BY <2>1, <2>2, <1>2
<1>3. q \in S
  BY <1>1, <1>2, AncestorsLeast
<1>4. q \in Node
  BY AncestorsType
<1> QED BY <1>3, <1>4, AncestorsOfRoot

-----------------------------------------------------------------------------
(* Forests *)

\* In a forest, what holds of every root and passes from parent to child
\* holds of every node.
LEMMA ForestInduction ==
  ASSUME NoNode \notin Node,
         NEW par \in ParentFunction, Rooted(par), NEW G,
         \A m \in Node : par[m] = NoNode => m \in G,
         \A m \in Node : par[m] # NoNode /\ par[m] \in G => m \in G
  PROVE  Node \subseteq G
<1> SUFFICES ASSUME NEW n \in Node, n \notin G
             PROVE  FALSE
  OBVIOUS
<1> DEFINE S == Node \ G
<1>1. \A x \in S : par[x] # NoNode => par[x] \in S
  BY DEF ParentFunction
<1>2. Ancestors(par, n) \subseteq S
  BY <1>1, AncestorsLeast, S \in SUBSET Node
<1>3. PICK r \in Ancestors(par, n) : par[r] = NoNode
  BY DEF Rooted
<1> QED BY <1>2, <1>3

\* The root of a node is on its walk and has no parent.
LEMMA RootOfIsRoot ==
  ASSUME NEW par, Rooted(par), NEW n \in Node
  PROVE  RootOf(par, n) \in Ancestors(par, n) /\ par[RootOf(par, n)] = NoNode
BY DEF RootOf, Rooted

LEMMA RootOfType ==
  ASSUME NEW par, Rooted(par), NEW n \in Node
  PROVE  RootOf(par, n) \in Node
BY RootOfIsRoot, AncestorsType

\* The recursion of the root getter: a node without a parent is its own root.
LEMMA RootOfRoot ==
  ASSUME NEW par, Rooted(par), NEW n \in Node, par[n] = NoNode
  PROVE  RootOf(par, n) = n
BY RootOfIsRoot, AncestorsOfRoot

\* The recursion of the root getter: a node with a parent has its root.
LEMMA RootOfChild ==
  ASSUME NoNode \notin Node,
         NEW par \in ParentFunction, Rooted(par), NEW n \in Node, par[n] # NoNode
  PROVE  RootOf(par, n) = RootOf(par, par[n])
<1>1. par[n] \in Node
  BY DEF ParentFunction
<1>2. RootOf(par, n) \in Ancestors(par, n) /\ par[RootOf(par, n)] = NoNode
  BY RootOfIsRoot
<1>3. RootOf(par, par[n]) \in Ancestors(par, n) /\ par[RootOf(par, par[n])] = NoNode
  BY <1>1, RootOfIsRoot, AncestorsUnfold
<1> QED BY <1>2, <1>3, OneRoot

\* What the root getter computes.
IsRootGetter(par, F) ==
  \A m \in Node : F[m] = IF par[m] = NoNode THEN m ELSE F[par[m]]

\* A function that follows the recursion of the root getter is the root.
LEMMA RootGetter ==
  ASSUME NoNode \notin Node,
         NEW par \in ParentFunction, Rooted(par), NEW F, IsRootGetter(par, F)
  PROVE  \A m \in Node : RootOf(par, m) = F[m]
<1> DEFINE G == {m \in Node : RootOf(par, m) = F[m]}
<1>1. \A m \in Node : par[m] = NoNode => m \in G
  BY RootOfRoot DEF IsRootGetter
<1>2. ASSUME NEW m \in Node, par[m] # NoNode, par[m] \in G
      PROVE  m \in G
  BY <1>2, RootOfChild DEF IsRootGetter
<1>3. Node \subseteq G
  BY <1>1, <1>2, ForestInduction
<1> QED BY <1>3

\* Cutting links and hanging roots below m, and m below p, keeps a forest a
\* forest, provided p's own root is not one of those that move.
LEMMA Graft ==
  ASSUME NoNode \notin Node,
         NEW par \in ParentFunction, Rooted(par), NEW par2 \in ParentFunction,
         NEW M \in SUBSET Node, NEW m \in M, NEW p,
         \A x \in M : par[x] = NoNode,
         \A x \in Node \ M : par2[x] \in {par[x], NoNode},
         \A x \in M \ {m} : par2[x] \in {m, NoNode},
         par2[m] = NoNode \/ (par2[m] = p /\ p \in Node /\ RootOf(par, p) \notin M)
  PROVE  Rooted(par2)
<1> DEFINE Good == {x \in Node : \E r \in Ancestors(par2, x) : par2[r] = NoNode}
<1>1. \A x \in Node : par2[x] = NoNode => x \in Good
  BY AncestorsSelf
<1>2. \A x \in Node : par2[x] # NoNode /\ par2[x] \in Good => x \in Good
  BY AncestorsUnfold
<1> HIDE DEF Good
<1>3. m \in Good
  <2>1. CASE par2[m] = NoNode
    BY <2>1, <1>1
  <2>2. CASE par2[m] = p /\ p \in Node /\ RootOf(par, p) \notin M
    <3> DEFINE H == {x \in Node : RootOf(par, x) \in M \/ x \in Good}
    <3>1. ASSUME NEW x \in Node, par[x] = NoNode
          PROVE  x \in H
      BY <3>1, <1>1, RootOfRoot
    <3>2. ASSUME NEW x \in Node, par[x] # NoNode, par[x] \in H
          PROVE  x \in H
      <4>1. RootOf(par, x) = RootOf(par, par[x])
        BY <3>2, RootOfChild
      <4>2. par2[x] \in {par[x], NoNode}
        BY <3>2
      <4> QED BY <3>2, <4>1, <4>2, <1>1, <1>2
    <3>3. Node \subseteq H
      BY <3>1, <3>2, ForestInduction
    <3> QED BY <2>2, <3>3, <1>2
  <2> QED BY <2>1, <2>2
<1>4. \A x \in M : x \in Good
  BY <1>1, <1>2, <1>3
<1>5. Node \subseteq Good
  BY <1>1, <1>2, <1>4, ForestInduction
<1> QED BY <1>5 DEF Rooted, Good

-----------------------------------------------------------------------------
(* The invariant *)

SlotFunction == [Node -> [Slot -> Node \cup {NoNode}]]

\* Only live nodes are linked, under a real subpath.
LiveLinks ==
  \A n \in Node : parent[n] # NoNode =>
    Alive(n) /\ Alive(parent[n]) /\ subpath[n] \in Slot

\* Nothing is built, filled or given a cache before its construction.
Constructed ==
  \A n \in Node : life[n] = "absent" =>
    n \notin built \cup rooted /\ \A s \in Slot : contents[n][s] = NoNode

\* CacheExact, with the tree of a root seen from below.
CacheByRoot ==
  \A q \in Node : Alive(q) /\ parent[q] = NoNode =>
    q \in rooted /\ cache[q] = {m \in Identified : Root(m) = q}

IInv ==
  /\ TypeOK
  /\ Rooted(parent)
  /\ LiveLinks
  /\ Constructed
  /\ PathsAgree
  /\ CacheByRoot

-----------------------------------------------------------------------------
(* Walks down *)

LEMMA DescendantsSelf ==
  ASSUME NEW con, NEW n \in Node
  PROVE  n \in Descendants(con, n)
BY DEF Descendants

LEMMA DescendantsType ==
  ASSUME NEW con, NEW n
  PROVE  Descendants(con, n) \subseteq Node
BY DEF Descendants

\* A walk down goes on to everything stored in the nodes it passes.
LEMMA DescendantsStep ==
  ASSUME NEW con \in SlotFunction, NEW n \in Node,
         NEW x \in Descendants(con, n), NEW s \in Slot, con[x][s] # NoNode
  PROVE  con[x][s] \in Descendants(con, n)
<1>1. x \in Node /\ con[x][s] \in Node
  BY DEF Descendants, SlotFunction
<1>2. con[x][s] \in Stored(con, x)
  BY DEF Stored
<1> QED BY <1>1, <1>2 DEF Descendants

\* A walk down passes no more than any closed set that holds its start.
LEMMA DescendantsLeast ==
  ASSUME NEW con, NEW n \in Node, NEW S \in SUBSET Node, n \in S,
         \A x \in S, s \in Slot : con[x][s] # NoNode => con[x][s] \in S
  PROVE  Descendants(con, n) \subseteq S
<1>1. \A x \in S : Stored(con, x) \subseteq S
  BY DEF Stored
<1> QED BY <1>1 DEF Descendants

-----------------------------------------------------------------------------
(* What the invariant says of one tree *)

LEMMA Types ==
  ASSUME IInv
  PROVE  /\ parent \in ParentFunction
         /\ contents \in SlotFunction
         /\ Rooted(parent)
         /\ NoNode \notin Node
         /\ NoSlot \notin Slot
         /\ Identified \subseteq Node
         /\ built \subseteq Node
         /\ rooted \subseteq Node
BY StateTreeAssumption DEF IInv, TypeOK, ParentFunction, SlotFunction

LEMMA RootType ==
  ASSUME IInv, NEW n \in Node
  PROVE  Root(n) \in Node /\ parent[Root(n)] = NoNode
BY Types, RootOfType, RootOfIsRoot DEF Root

LEMMA RootOfARoot ==
  ASSUME IInv, NEW n \in Node, parent[n] = NoNode
  PROVE  Root(n) = n
BY Types, RootOfRoot DEF Root

LEMMA RootOfAChild ==
  ASSUME IInv, NEW n \in Node, parent[n] # NoNode
  PROVE  parent[n] \in Node /\ Root(n) = Root(parent[n])
BY Types, RootOfChild DEF Root, ParentFunction

\* The tree of a live node has a live root.
LEMMA RootAlive ==
  ASSUME IInv, NEW n \in Node, Alive(n)
  PROVE  Alive(Root(n))
<1> DEFINE G == {m \in Node : parent[m] # NoNode => Alive(Root(m))}
<1>1. \A m \in Node : parent[m] = NoNode => m \in G
  OBVIOUS
<1>2. ASSUME NEW m \in Node, parent[m] # NoNode, parent[m] \in G
      PROVE  m \in G
  <2>1. parent[m] \in Node /\ Root(m) = Root(parent[m]) /\ Alive(parent[m])
    BY <1>2, RootOfAChild DEF IInv, LiveLinks
  <2> QED BY <2>1, <1>2, RootOfARoot
<1> HIDE DEF G
<1>3. Node \subseteq G
  BY <1>1, <1>2, ForestInduction, Types
<1> QED BY <1>3, RootOfARoot DEF G

\* A node that is absent or dead is alone in its tree.
LEMMA AloneUnlessAlive ==
  ASSUME IInv, NEW n \in Node, ~Alive(n)
  PROVE  /\ parent[n] = NoNode
         /\ \A m \in Node : Root(m) = n => m = n
<1>1. parent[n] = NoNode
  BY DEF IInv, LiveLinks
<1>2. ASSUME NEW m \in Node, Root(m) = n, m # n
      PROVE  FALSE
  <2>1. parent[m] # NoNode
    BY <1>2, RootOfARoot
  <2>2. Alive(m)
    BY <2>1 DEF IInv, LiveLinks
  <2> QED BY <2>2, <1>2, RootAlive
<1> QED BY <1>1, <1>2

\* A live node stores exactly the nodes that point back at it.
LEMMA StoredIsChild ==
  ASSUME IInv, NEW p \in Node, Alive(p), NEW s \in Slot, contents[p][s] # NoNode
  PROVE  /\ contents[p][s] \in Node
         /\ Alive(contents[p][s])
         /\ parent[contents[p][s]] = p
         /\ subpath[contents[p][s]] = s
<1>1. contents[p][s] \in Node
  BY Types DEF SlotFunction
<1>2. parent[contents[p][s]] = p /\ subpath[contents[p][s]] = s
  BY <1>1 DEF IInv, PathsAgree
<1>3. p # NoNode
  BY Types
<1> QED BY <1>1, <1>2, <1>3 DEF IInv, LiveLinks

\* What dies or moves with a live node: the nodes below it are alive, all of
\* them but the node itself hang below another of them, and no other node does.
LEMMA BelowALiveNode ==
  ASSUME IInv, NEW n \in Node, Alive(n)
  PROVE  /\ n \in Below(n)
         /\ Below(n) \subseteq Node
         /\ \A x \in Below(n) : Alive(x)
         /\ \A x \in Below(n) \ {n} : parent[x] \in Below(n)
         /\ \A x \in Node : parent[x] \in Below(n) => x \in Below(n)
<1>1. n \in Below(n) /\ Below(n) \subseteq Node
  BY DescendantsSelf, DescendantsType DEF Below
<1>2. ASSUME NEW x \in Below(n), NEW s \in Slot, contents[x][s] # NoNode
      PROVE  contents[x][s] \in Below(n)
  BY <1>2, Types, DescendantsStep DEF Below
<1> DEFINE S == {x \in Below(n) : Alive(x) /\ (x = n \/ parent[x] \in Below(n))}
<1>3. S \in SUBSET Node /\ n \in S
  BY <1>1
<1>4. ASSUME NEW x \in S, NEW s \in Slot, contents[x][s] # NoNode
      PROVE  contents[x][s] \in S
  <2>1. x \in Node /\ x \in Below(n) /\ Alive(x)
    BY <1>1
  <2> QED BY <2>1, <1>2, <1>4, StoredIsChild
<1>5. Below(n) \subseteq S
  <2> HIDE DEF S
  <2> QED BY <1>3, <1>4, DescendantsLeast DEF Below
<1>6. ASSUME NEW x \in Node, parent[x] \in Below(n)
      PROVE  x \in Below(n)
  <2>1. parent[x] \in Node /\ parent[x] # NoNode
    BY <1>1, <1>6, Types
  <2>2. Alive(parent[x]) /\ subpath[x] \in Slot
    BY <2>1 DEF IInv, LiveLinks
  <2>3. contents[parent[x]][subpath[x]] = x
    BY <2>1, <2>2 DEF IInv, PathsAgree
  <2>4. x # NoNode
    BY Types
  <2> QED BY <2>2, <2>3, <2>4, <1>2, <1>6
<1> QED BY <1>1, <1>5, <1>6

\* The nodes below a live node share its root.
LEMMA BelowSharesRoot ==
  ASSUME IInv, NEW n \in Node, Alive(n), NEW x \in Below(n)
  PROVE  Root(x) = Root(n)
<1> DEFINE G == {m \in Node : m \in Below(n) => Root(m) = Root(n)}
<1>1. ASSUME NEW m \in Node, parent[m] = NoNode
      PROVE  m \in G
  <2>1. m \in Below(n) => m = n
    BY <1>1, BelowALiveNode, Types
  <2> QED BY <2>1
<1>2. ASSUME NEW m \in Node, parent[m] # NoNode, parent[m] \in G
      PROVE  m \in G
  BY <1>2, BelowALiveNode, RootOfAChild
<1> HIDE DEF G
<1>3. Node \subseteq G
  BY <1>1, <1>2, ForestInduction, Types
<1> QED BY <1>3, BelowALiveNode DEF G

\* No node is below its own child.
LEMMA ParentNotBelow ==
  ASSUME IInv, NEW n \in Node, parent[n] # NoNode
  PROVE  parent[n] \notin Below(n) /\ Root(n) \notin Below(n)
<1>1. Alive(n)
  BY DEF IInv, LiveLinks
<1>2. Root(n) \notin Below(n)
  BY <1>1, BelowALiveNode, RootType, Types
<1>3. ASSUME parent[n] \in Below(n)
      PROVE  FALSE
  <2> DEFINE G == Node \ Below(n)
  <2>1. \A m \in Node : parent[m] = NoNode => m \in G
    BY <1>1, BelowALiveNode, Types
  <2>2. \A m \in Node : parent[m] # NoNode /\ parent[m] \in G => m \in G
    BY <1>1, <1>3, BelowALiveNode
  <2> HIDE DEF G
  <2>3. Node \subseteq G
    BY <2>1, <2>2, ForestInduction, Types
  <2> QED BY <2>3, <1>1, BelowALiveNode DEF G
<1> QED BY <1>2, <1>3

-----------------------------------------------------------------------------
(* Every operation preserves the invariant *)

\* How a step that rewrites the links rewrites the roots.
LEMMA NewRoots ==
  ASSUME IInv, parent' \in ParentFunction, Rooted(parent'), NEW F,
         \A m \in Node : parent'[m] = NoNode => F[m] = m,
         \A m \in Node : parent'[m] # NoNode => F[m] = F[parent'[m]]
  PROVE  \A m \in Node : Root(m)' = F[m]
<1>1. IsRootGetter(parent', F)
  BY DEF IsRootGetter
<1> QED BY <1>1, Types, RootGetter DEF Root

-----------------------------------------------------------------------------
(* What a step does to the trees, as IdentifierScope sees them *)

\* A write to the tree of t: its nodes D die, and the nodes M, new ones and the
\* roots of other trees, join it with what is below them.  Roots that stay keep
\* their environment, and those that join have none or that of t.
IsWrite(t, D, M) ==
  /\ t \in Node /\ D \subseteq Node /\ M \subseteq Node
  /\ \A x \in D : Alive(x) /\ Root(x) = t
  /\ \A x \in M : life[x] # "dead" /\ Root(x) = x
  /\ \A x \in Node : Alive(x)' <=> x \notin D /\ (Alive(x) \/ x \in M)
  /\ \A x \in Node : life'[x] = "dead" <=> life[x] = "dead" \/ x \in D
  /\ \A x \in Node \ D : Root(x)' = IF Root(x) \in M THEN t ELSE Root(x)
  /\ \A x \in Node : Alive(x) /\ parent[x] = NoNode /\ x \notin M => env'[x] = env[x]
  /\ \A x \in M : Alive(x) => SameEnvironment(x, env'[t])

\* Part of the tree of r becomes the tree of n, which was no root and takes the
\* environment along.
IsSplit(r, n) ==
  /\ r \in Node /\ n \in Node /\ r # n
  /\ \A x \in Node : Root(x) # n
  /\ \A x \in Node : (Alive(x)' <=> Alive(x)) /\ (life'[x] = "dead" <=> life[x] = "dead")
  /\ \A x \in Node : Root(x)' = Root(x) \/ (Root(x) = r /\ Root(x)' = n)
  /\ env'[n] = env[r] /\ \A x \in Node \ {n} : env'[x] = env[x]

\* Neither lives nor trees change.
IsQuiet ==
  /\ env' = env
  /\ \A x \in Node : /\ Alive(x)' <=> Alive(x)
                     /\ life'[x] = "dead" <=> life[x] = "dead"
                     /\ Root(x)' = Root(x)

Promised ==
  \/ IsQuiet
  \/ \E t \in Node : \E D, M \in SUBSET Node : IsWrite(t, D, M)
  \/ \E r, n \in Node : IsSplit(r, n)

LEMMA InitEstablishesIInv ==
  ASSUME Init
  PROVE  IInv
<1>1. TypeOK
  BY StateTreeAssumption DEF Init, TypeOK, Life
<1>2. Rooted(parent)
  BY AncestorsSelf DEF Init, Rooted
<1>3. LiveLinks /\ Constructed /\ PathsAgree /\ CacheByRoot
  BY DEF Init, LiveLinks, Constructed, PathsAgree, CacheByRoot, Alive
<1> QED BY <1>1, <1>2, <1>3 DEF IInv

\* A step that is refused, or that stutters.
LEMMA TreeUnchanged ==
  ASSUME IInv, UNCHANGED tree, verdict' \in {"done", "refused"}
  PROVE  IInv' /\ Promised
<1>1. IInv'
  BY DEF tree, IInv, TypeOK, Rooted, LiveLinks, Constructed, PathsAgree, CacheByRoot,
         Alive, Root
<1>2. IsQuiet
  BY DEF tree, IsQuiet, Alive, Root
<1> QED BY <1>1, <1>2 DEF Promised

\* A read changes no link, and no node comes alive or dies.
LEMMA ReadStep ==
  ASSUME IInv, NEW n \in Node, Read(n)
  PROVE  IInv' /\ Promised
<1>1. ParentChain(n) \subseteq Node
  BY AncestorsType DEF ParentChain, Up
<1>2. ASSUME NEW x \in ParentChain(n)
      PROVE  life[x] # "absent"
  <2> DEFINE S == {x_1 \in Node : x_1 = n \/ Alive(x_1)}
  <2>1. \A y \in S : parent[y] # NoNode => parent[y] \in S
    BY Types DEF ParentFunction, IInv, LiveLinks
  <2>2. Up(n) \subseteq S
    BY <2>1, AncestorsLeast, S \in SUBSET Node DEF Up
  <2> QED BY <2>2, <1>2 DEF ParentChain, Read, Alive
<1>3. life' \in [Node -> Life] /\ \A x \in Node :
        /\ life'[x] = "absent" <=> life[x] = "absent"
        /\ Alive(x)' <=> Alive(x)
  BY <1>2 DEF Read, Finalizable, Alive, IInv, TypeOK, Life
<1>4. UNCHANGED <<parent, subpath, contents, env, rooted, cache>>
      /\ built' \subseteq Node /\ verdict' = "done"
      /\ \A x \in built' : x \in built \/ x \in ParentChain(n)
  BY <1>1, Types DEF Read
<1>5. TypeOK'
  BY <1>3, <1>4 DEF IInv, TypeOK
<1>6. Rooted(parent)' /\ \A m \in Node : Root(m)' = Root(m)
  BY <1>4 DEF IInv, Rooted, Root
<1>7. LiveLinks' /\ PathsAgree'
  BY <1>3, <1>4, Types DEF IInv, LiveLinks, PathsAgree, ParentFunction
<1>8. Constructed'
  BY <1>1, <1>2, <1>3, <1>4, Types DEF IInv, Constructed
<1>9. CacheByRoot'
  BY <1>3, <1>4, <1>6, Types DEF IInv, CacheByRoot
<1>10. IsQuiet
  BY <1>3, <1>4, <1>6 DEF IsQuiet, Alive, Read, Finalizable
<1> QED BY <1>5, <1>6, <1>7, <1>8, <1>9, <1>10 DEF IInv, Promised

\* A subtree that is detached becomes a tree with a cache of its own.
LEMMA DetachStep ==
  ASSUME IInv, Doomed = {}, NEW n \in built, Detach(n)
  PROVE  IInv' /\ Promised
<1> DEFINE p == parent[n]
           r == Root(n)
           s == subpath[n]
<1>1. n \in Node /\ Alive(n) /\ p # NoNode /\ p \in Node /\ Alive(p) /\ s \in Slot
  BY Types, RootOfAChild DEF Detach, IInv, LiveLinks
<1>2. /\ parent' = [parent EXCEPT ![n] = NoNode]
      /\ subpath' = [subpath EXCEPT ![n] = NoSlot]
      /\ contents' = [contents EXCEPT ![p][s] = NoNode]
      /\ env' = [env EXCEPT ![n] = env[r]]
      /\ rooted' = rooted \cup {n}
      /\ cache' = [x \in Node |-> IF x = r THEN Unsplit(r, n)
                                  ELSE IF x = n THEN cache[r] \cap Below(n) ELSE cache[x]]
      /\ verdict' = "done"
      /\ UNCHANGED <<life, built>>
  BY DEF Detach, Inherited
<1>3. r \in Node /\ Alive(r) /\ parent[r] = NoNode /\ r # n
  BY <1>1, RootType, RootAlive
<1>4. \A x \in Node : Alive(x)' <=> Alive(x)
  BY <1>2 DEF Alive
<1>5. TypeOK'
  BY <1>1, <1>2, <1>3 DEF IInv, TypeOK, Unsplit
<1>6. parent' \in ParentFunction /\ parent'[n] = NoNode
      /\ \A x \in Node \ {n} : parent'[x] = parent[x]
  BY <1>2, <1>1, Types DEF ParentFunction
<1>7. Rooted(parent')
  <2>1. \A x \in Node : parent'[x] \in {parent[x], NoNode}
    BY <1>6
  <2>2. n \in Node /\ p \in Node
    BY <1>1
  <2> DEFINE G == {x \in Node : \E q \in Ancestors(parent', x) : parent'[q] = NoNode}
  <2>3. \A x \in Node : parent'[x] = NoNode => x \in G
    BY AncestorsSelf
  <2>4. \A x \in Node : parent'[x] # NoNode /\ parent'[x] \in G => x \in G
    BY AncestorsUnfold, <1>6, Types
  <2> HIDE DEF G
  <2>5. Node \subseteq G
    BY <2>1, <2>3, <2>4, ForestInduction, Types
  <2> QED BY <2>5 DEF G, Rooted
<1>8. \A m \in Node : Root(m)' = IF m \in Below(n) THEN n ELSE Root(m)
  <2> DEFINE F == [m \in Node |-> IF m \in Below(n) THEN n ELSE Root(m)]
  <2>1. ASSUME NEW m \in Node, parent'[m] = NoNode
        PROVE  F[m] = m
    BY <2>1, <1>1, <1>6, BelowALiveNode, RootOfARoot, Types
  <2>2. ASSUME NEW m \in Node, parent'[m] # NoNode
        PROVE  F[m] = F[parent'[m]]
    <3>1. m # n /\ parent'[m] = parent[m] /\ parent[m] \in Node /\ Root(m) = Root(parent[m])
      BY <2>2, <1>6, RootOfAChild
    <3>2. m \in Below(n) <=> parent[m] \in Below(n)
      BY <3>1, <1>1, BelowALiveNode
    <3> QED BY <3>1, <3>2
  <2> HIDE DEF F
  <2>3. \A m \in Node : Root(m)' = F[m]
    BY <1>6, <1>7, <2>1, <2>2, NewRoots
  <2> QED BY <2>3 DEF F
<1>9. LiveLinks'
  BY <1>2, <1>4, <1>6, Types DEF IInv, LiveLinks, ParentFunction
<1>10. Constructed'
  BY <1>1, <1>2, <1>4 DEF IInv, Constructed, Alive
<1>11. PathsAgree'
  <2> SUFFICES ASSUME NEW q \in Node, NEW c \in Node, NEW t \in Slot, Alive(q)'
               PROVE  contents'[q][t] = c <=> parent'[c] = q /\ subpath'[c] = t
    BY DEF PathsAgree
  <2>1. contents[q][t] = c <=> parent[c] = q /\ subpath[c] = t
    BY <1>4 DEF IInv, PathsAgree
  <2>2. contents'[q][t] = IF q = p /\ t = s THEN NoNode ELSE contents[q][t]
    BY <1>1, <1>2, Types DEF SlotFunction
  <2>3. subpath'[c] = IF c = n THEN NoSlot ELSE subpath[c]
    BY <1>2 DEF IInv, TypeOK
  <2>4. contents[p][s] = n
    BY <1>1 DEF IInv, PathsAgree
  <2> QED BY <2>1, <2>2, <2>3, <2>4, <1>6, <1>1, Types
<1>12. CacheByRoot'
  <2> SUFFICES ASSUME NEW q \in Node, Alive(q), parent'[q] = NoNode
               PROVE  q \in rooted' /\ cache'[q] = {m \in Identified : Root(m)' = q}
    BY <1>4 DEF CacheByRoot
  <2>1. \A m \in Below(n) : Root(m) = r
    BY <1>1, BelowSharesRoot
  <2>2. r \in rooted /\ cache[r] = {m \in Identified : Root(m) = r}
    BY <1>3 DEF IInv, CacheByRoot
  <2>3. CASE q = n
    <3>1. cache'[q] = cache[r] \cap Below(n) /\ q \in rooted'
      BY <2>3, <1>2, <1>3
    <3>2. \A m \in Node : m \notin Below(n) => Root(m) # n
      BY <1>1, RootType
    <3> QED BY <3>1, <3>2, <2>1, <2>2, <2>3, <1>8, Types
  <2>4. CASE q = r
    <3>1. cache'[q] = cache[r] \ Below(n) /\ q \in rooted'
      BY <2>4, <2>2, <1>2, <1>3 DEF Unsplit
    <3> QED BY <3>1, <2>1, <2>2, <2>4, <1>3, <1>8, Types
  <2>5. CASE q # n /\ q # r
    <3>1. cache'[q] = cache[q] /\ parent[q] = NoNode /\ q \in rooted'
      BY <2>5, <1>2, <1>6 DEF IInv, CacheByRoot
    <3>2. cache[q] = {m \in Identified : Root(m) = q}
      BY <3>1 DEF IInv, CacheByRoot
    <3> QED BY <3>1, <3>2, <2>1, <2>5, <1>8, Types
  <2> QED BY <2>3, <2>4, <2>5
<1>13. IsSplit(r, n)
  <2>1. \A m \in Below(n) : Root(m) = r
    BY <1>1, BelowSharesRoot
  <2>2. \A x \in Node : Root(x) # n
    BY <1>1, RootType
  <2>3. env'[n] = env[r] /\ \A x \in Node \ {n} : env'[x] = env[x]
    BY <1>1, <1>2 DEF IInv, TypeOK
  <2> QED BY <2>1, <2>2, <2>3, <1>1, <1>2, <1>3, <1>4, <1>8 DEF IsSplit
<1> QED BY <1>1, <1>3, <1>5, <1>7, <1>9, <1>10, <1>11, <1>12, <1>13 DEF IInv, Promised

\* Nodes that die leave the forest as roots of their own.
LEMMA Pruned ==
  ASSUME IInv, NEW n \in Node, Alive(n), parent' \in ParentFunction,
         \A x \in Below(n) : parent'[x] = NoNode,
         \A x \in Node \ Below(n) : parent'[x] = parent[x]
  PROVE  /\ Rooted(parent')
         /\ \A m \in Node : Root(m)' = IF m \in Below(n) THEN m ELSE Root(m)
<1>1. Rooted(parent')
  <2> DEFINE G == {x \in Node : \E q \in Ancestors(parent', x) : parent'[q] = NoNode}
  <2>1. \A x \in Node : parent'[x] = NoNode => x \in G
    BY AncestorsSelf
  <2>2. \A x \in Node : parent'[x] # NoNode /\ parent'[x] \in G => x \in G
    BY AncestorsUnfold, Types
  <2> HIDE DEF G
  <2>3. \A x \in Node : parent'[x] \in {parent[x], NoNode}
    OBVIOUS
  <2>4. Node \subseteq G
    BY <2>1, <2>2, <2>3, ForestInduction, Types
  <2> QED BY <2>4 DEF G, Rooted
<1> DEFINE F == [m \in Node |-> IF m \in Below(n) THEN m ELSE Root(m)]
<1>2. ASSUME NEW m \in Node, parent'[m] = NoNode
      PROVE  F[m] = m
  BY <1>2, RootOfARoot
<1>3. ASSUME NEW m \in Node, parent'[m] # NoNode
      PROVE  F[m] = F[parent'[m]]
  <2>1. m \notin Below(n) /\ parent'[m] = parent[m] /\ parent[m] \in Node
        /\ Root(m) = Root(parent[m])
    BY <1>3, RootOfAChild
  <2>2. parent[m] \notin Below(n)
    BY <2>1, BelowALiveNode
  <2> QED BY <2>1, <2>2
<1> HIDE DEF F
<1>4. \A m \in Node : Root(m)' = F[m]
  BY <1>1, <1>2, <1>3, NewRoots
<1> QED BY <1>1, <1>4 DEF F

\* A subtree that dies leaves the cache of its tree, whether or not a live
\* node has to forget it.
LEMMA DieKeepsTree ==
  ASSUME IInv, NEW n \in Node, Alive(n), NEW p, NEW s,
         Die(Below(n), Root(n)),
         contents' \in SlotFunction,
         \A q \in Node, t \in Slot : contents'[q][t] =
           IF parent[n] # NoNode /\ q = p /\ t = s THEN NoNode ELSE contents[q][t],
         parent[n] # NoNode => parent[n] = p /\ subpath[n] = s,
         UNCHANGED <<env, rooted>>, verdict' = "done"
  PROVE  IInv' /\ Promised
<1> DEFINE D == Below(n)
           r == Root(n)
<1>1. r \in Node /\ Alive(r) /\ parent[r] = NoNode
  BY RootType, RootAlive
<1>2. /\ n \in D
      /\ D \subseteq Node
      /\ \A x \in D : Alive(x) /\ Root(x) = r
      /\ \A x \in D \ {n} : parent[x] \in D
      /\ \A x \in Node : parent[x] \in D => x \in D
  BY BelowALiveNode, BelowSharesRoot
<1>3. /\ life' = [x \in Node |-> IF x \in D THEN "dead" ELSE life[x]]
      /\ parent' = [x \in Node |-> IF x \in D THEN NoNode ELSE parent[x]]
      /\ subpath' = [x \in Node |-> IF x \in D THEN NoSlot ELSE subpath[x]]
      /\ cache' = [cache EXCEPT ![r] = @ \ D]
      /\ built' = built \cup BuiltAtDeath(D)
  BY DEF Die
<1>4. BuiltAtDeath(D) \subseteq D
  BY DEF BuiltAtDeath
<1> HIDE DEF D, r
<1>5. \A x \in Node : Alive(x)' <=> Alive(x) /\ x \notin D
  BY <1>3 DEF Alive
<1>6. TypeOK'
  BY <1>1, <1>2, <1>3, <1>4 DEF IInv, TypeOK, Life, SlotFunction
<1>7. parent' \in ParentFunction
  BY <1>3, Types DEF ParentFunction
<1>8. Rooted(parent') /\ \A m \in Node : Root(m)' = IF m \in D THEN m ELSE Root(m)
  <2>1. \A x \in D : parent'[x] = NoNode
    BY <1>2, <1>3
  <2>2. \A x \in Node \ D : parent'[x] = parent[x]
    BY <1>3
  <2> QED BY <1>7, <2>1, <2>2, Pruned DEF D
<1>9. LiveLinks'
  BY <1>2, <1>3, <1>5, Types DEF IInv, LiveLinks, ParentFunction
<1>10. Constructed'
  BY <1>2, <1>3, <1>4, Types DEF IInv, Constructed, Alive
<1>11. PathsAgree'
  <2> SUFFICES ASSUME NEW q \in Node, NEW c \in Node, NEW t \in Slot, Alive(q), q \notin D
               PROVE  contents'[q][t] = c <=> parent'[c] = q /\ subpath'[c] = t
    BY <1>5 DEF PathsAgree
  <2>1. contents[q][t] = c <=> parent[c] = q /\ subpath[c] = t
    BY DEF IInv, PathsAgree
  <2>2. parent'[c] = IF c \in D THEN NoNode ELSE parent[c]
    BY <1>3
  <2>3. subpath'[c] = IF c \in D THEN NoSlot ELSE subpath[c]
    BY <1>3
  <2>4. c \in D /\ parent[c] = q => c = n
    BY <1>2
  <2>5. parent[n] = p /\ subpath[n] = s /\ q = p /\ t = s => contents[q][t] = n
    BY DEF IInv, PathsAgree
  <2> QED BY <2>1, <2>2, <2>3, <2>4, <2>5, <1>2, Types
<1>12. CacheByRoot'
  <2> SUFFICES ASSUME NEW q \in Node, Alive(q), q \notin D, parent'[q] = NoNode
               PROVE  q \in rooted' /\ cache'[q] = {m \in Identified : Root(m)' = q}
    BY <1>5 DEF CacheByRoot
  <2>1. parent[q] = NoNode /\ q \in rooted /\ cache[q] = {m \in Identified : Root(m) = q}
    BY <1>3 DEF IInv, CacheByRoot
  <2>2. cache'[q] = IF q = r THEN cache[q] \ D ELSE cache[q]
    BY <1>1, <1>3 DEF IInv, TypeOK
  <2> QED BY <2>1, <2>2, <1>2, <1>8, Types
<1>13. IsWrite(r, D, {})
  BY <1>1, <1>2, <1>3, <1>5, <1>8 DEF IsWrite
<1> QED BY <1>1, <1>2, <1>6, <1>8, <1>9, <1>10, <1>11, <1>12, <1>13 DEF IInv, Promised

LEMMA RemoveStep ==
  ASSUME IInv, NEW p \in Node, Alive(p), NEW s \in Slot, contents[p][s] # NoNode,
         Remove(p, s)
  PROVE  IInv' /\ Promised
<1> DEFINE n == contents[p][s]
<1>1. n \in Node /\ Alive(n) /\ parent[n] = p /\ subpath[n] = s
  BY StoredIsChild
<1>2. Root(n) = Root(p) /\ parent[n] # NoNode
  BY <1>1, RootOfAChild, Types
<1>3. Die(Below(n), Root(n)) /\ UNCHANGED <<env, rooted>> /\ verdict' = "done"
  BY <1>1, <1>2, Types DEF Remove, Dying
<1>4. contents' = [contents EXCEPT ![p][s] = NoNode]
  BY DEF Remove
<1>5. contents' \in SlotFunction
      /\ \A q \in Node, t \in Slot : contents'[q][t] =
           IF parent[n] # NoNode /\ q = p /\ t = s THEN NoNode ELSE contents[q][t]
  BY <1>2, <1>4, Types DEF SlotFunction
<1> HIDE DEF n
<1> QED BY <1>1, <1>3, <1>5, DieKeepsTree

LEMMA ClearStep ==
  ASSUME IInv, NEW p \in built, NEW s \in Slot, Clear(p, s)
  PROVE  IInv' /\ Promised
<1>1. CASE s \in Required
  <2>1. UNCHANGED tree /\ verdict' = "refused"
    BY <1>1 DEF Clear, Refuse
  <2> QED BY <2>1, TreeUnchanged
<1>2. CASE s \notin Required
  BY <1>2, RemoveStep, Types DEF Clear
<1> QED BY <1>1, <1>2

LEMMA DestroyChildStep ==
  ASSUME IInv, NEW n \in built, DestroyChild(n)
  PROVE  IInv' /\ Promised
<1> DEFINE p == parent[n]
           s == subpath[n]
<1>1. n \in Node /\ p \in Node /\ Alive(p) /\ s \in Slot
  BY Types, RootOfAChild DEF DestroyChild, IInv, LiveLinks
<1>2. contents[p][s] = n
  BY <1>1 DEF IInv, PathsAgree
<1>3. CASE p \notin built \/ s \in Required
  <2>1. UNCHANGED tree /\ verdict' = "refused"
    BY <1>3 DEF DestroyChild, Refuse
  <2> QED BY <2>1, TreeUnchanged
<1>4. CASE ~(p \notin built \/ s \in Required)
  BY <1>1, <1>2, <1>4, RemoveStep, Types DEF DestroyChild
<1> QED BY <1>3, <1>4

LEMMA DestroyRootStep ==
  ASSUME IInv, NEW n \in built, DestroyRoot(n)
  PROVE  IInv' /\ Promised
<1>1. n \in Node /\ Alive(n) /\ parent[n] = NoNode /\ Root(n) = n
  BY Types, RootOfARoot DEF DestroyRoot, Orphans
<1>2. Die(Below(n), Root(n)) /\ UNCHANGED <<contents, env, rooted>> /\ verdict' = "done"
  BY <1>1 DEF DestroyRoot
<1> QED BY <1>1, <1>2, DieKeepsTree, Types

\* What a write to a slot kills: nodes of the same tree, none of them the
\* writer, and nothing outside hangs below them.
LEMMA DyingNodes ==
  ASSUME IInv, NEW p \in Node, Alive(p), NEW s \in Slot
  PROVE  LET D == Dying(contents[p][s]) IN
         /\ D \subseteq Node
         /\ p \notin D
         /\ contents[p][s] # NoNode => contents[p][s] \in D
         /\ \A x \in D : Alive(x) /\ Root(x) = Root(p) /\ parent[x] # NoNode
         /\ \A x \in D : parent[x] \in D
                           \/ (x = contents[p][s] /\ parent[x] = p /\ subpath[x] = s)
         /\ \A x \in Node : parent[x] \in D => x \in D
<1> DEFINE old == contents[p][s]
<1>1. CASE old = NoNode
  BY <1>1 DEF Dying
<1>2. CASE old # NoNode
  <2>1. old \in Node /\ Alive(old) /\ parent[old] = p /\ subpath[old] = s
    BY <1>2, StoredIsChild
  <2>2. Root(old) = Root(p) /\ p \notin Below(old)
    BY <2>1, RootOfAChild, ParentNotBelow, Types
  <2>3. Dying(old) = Below(old)
    BY <1>2 DEF Dying
  <2> HIDE DEF old
  <2>4. /\ old \in Below(old)
        /\ Below(old) \subseteq Node
        /\ \A x \in Below(old) : Alive(x) /\ Root(x) = Root(old)
        /\ \A x \in Below(old) \ {old} : parent[x] \in Below(old)
        /\ \A x \in Node : parent[x] \in Below(old) => x \in Below(old)
    BY <2>1, BelowALiveNode, BelowSharesRoot
  <2>5. \A x \in Below(old) : parent[x] # NoNode
    BY <2>1, <2>4, Types
  <2> QED BY <2>1, <2>2, <2>3, <2>4, <2>5 DEF old
<1> QED BY <1>1, <1>2

\* A write to p that kills D and hangs the trees of M in its tree.
LEMMA Transplanted ==
  ASSUME IInv, NEW p \in Node, Alive(p), NEW D \in SUBSET Node, NEW M \in SUBSET Node,
         NEW m \in M,
         p \notin D,
         \A x \in D : parent[x] # NoNode,
         \A x \in Node : parent[x] \in D => x \in D,
         \A x \in M : parent[x] = NoNode,
         Root(p) \notin M,
         parent' \in ParentFunction,
         \A x \in D : parent'[x] = NoNode,
         \A x \in Node \ (D \cup M) : parent'[x] = parent[x],
         \A x \in M \ {m} : parent'[x] = m,
         parent'[m] = p
  PROVE  /\ Rooted(parent')
         /\ \A x \in Node : Root(x)' = IF x \in D THEN x
                                       ELSE IF Root(x) \in M THEN Root(p) ELSE Root(x)
<1> DEFINE r == Root(p)
           F == [x \in Node |-> IF x \in D THEN x ELSE IF Root(x) \in M THEN r ELSE Root(x)]
<1>1. Rooted(parent')
  <2>1. \A x \in Node \ M : parent'[x] \in {parent[x], NoNode}
    OBVIOUS
  <2>2. \A x \in M \ {m} : parent'[x] \in {m, NoNode}
    OBVIOUS
  <2> QED BY <2>1, <2>2, Graft, Types DEF Root
<1>2. ASSUME NEW x \in Node, parent'[x] = NoNode
      PROVE  F[x] = x
  <2>1. CASE x \in D
    BY <2>1
  <2>2. CASE x \in M
    BY <2>2, <1>2, Types
  <2>3. CASE x \notin D /\ x \notin M
    BY <2>3, <1>2, RootOfARoot
  <2> QED BY <2>1, <2>2, <2>3
<1>3. ASSUME NEW x \in Node, parent'[x] # NoNode
      PROVE  F[x] = F[parent'[x]]
  <2>1. x \notin D
    BY <1>3
  <2>2. CASE x \in M
    <3>1. Root(x) = x /\ F[x] = r
      BY <2>1, <2>2, RootOfARoot
    <3>2. m \notin D /\ Root(m) = m /\ F[m] = r
      BY RootOfARoot
    <3>3. F[p] = r
      OBVIOUS
    <3> QED BY <2>2, <3>1, <3>2, <3>3
  <2>3. CASE x \notin M
    <3>1. parent'[x] = parent[x] /\ parent[x] \in Node /\ Root(x) = Root(parent[x])
      BY <2>1, <2>3, <1>3, RootOfAChild
    <3> QED BY <2>1, <3>1
  <2> QED BY <2>2, <2>3
<1> HIDE DEF F
<1>4. \A x \in Node : Root(x)' = F[x]
  BY <1>1, <1>2, <1>3, NewRoots
<1> QED BY <1>1, <1>4 DEF F

\* An accepted instance leaves its own tree whole and joins that of p.
LEMMA AssignStep ==
  ASSUME IInv, Doomed = {}, NEW p \in built, NEW n \in built, NEW s \in Slot, Assign(p, s, n)
  PROVE  IInv' /\ Promised
<1> DEFINE old == contents[p][s]
           D == Dying(old)
           r == Root(p)
<1>1. CASE RefusedFirst(p, s, n)
  <2>1. UNCHANGED tree /\ verdict' = "refused"
    BY <1>1 DEF Assign, Refuse
  <2> QED BY <2>1, TreeUnchanged
<1>2. CASE ~RefusedFirst(p, s, n) /\ RefusedLate(p, n)
  <2>1. old = NoNode
    BY <1>2 DEF Assign
  <2>2. D = {} /\ BuiltAtDeath(D) = {}
    BY <2>1 DEF Dying, BuiltAtDeath
  <2>3. r \in Node
    BY RootType, Types
  <2>4. UNCHANGED <<life, built, parent, subpath, contents, env, rooted>>
        /\ verdict' = "refused"
    BY <1>2, <2>2 DEF Assign, IInv, TypeOK
  <2>5. cache' = cache
    BY <1>2, <2>2, <2>3 DEF Assign, IInv, TypeOK
  <2> QED BY <2>4, <2>5, TreeUnchanged DEF tree
<1>3. CASE ~RefusedFirst(p, s, n) /\ ~RefusedLate(p, n)
  <2>1. parent[n] = NoNode /\ n # r /\ n \in rooted /\ n # old
    BY <1>3 DEF Assign, RefusedFirst, RefusedLate, Adoptable
  <2>2. p \in Node /\ n \in Node
    BY Types
  <2>3. Alive(n)
    BY <2>1, <2>2 DEF Assign, Offered, Alive, IInv, Constructed, TypeOK, Life
  <2>4. Alive(p)
    <3>1. r \in rooted
      BY <1>3 DEF RefusedFirst, Attachable
    <3>2. ~Alive(p) => r = p
      BY <2>2, AloneUnlessAlive, RootOfARoot
    <3> QED BY <3>1, <3>2, <2>2 DEF Assign, Offered, Alive, IInv, Constructed, TypeOK, Life
  <2>5. r \in Node /\ Alive(r) /\ parent[r] = NoNode
    BY <2>2, <2>4, RootType, RootAlive
  <2>6. /\ D \subseteq Node /\ p \notin D
        /\ old # NoNode => old \in D
        /\ \A x \in D : Alive(x) /\ Root(x) = r /\ parent[x] # NoNode
        /\ \A x \in D : parent[x] \in D \/ (x = old /\ parent[x] = p /\ subpath[x] = s)
        /\ \A x \in Node : parent[x] \in D => x \in D
    BY <2>2, <2>4, DyingNodes
  <2>7. /\ life' = [x \in Node |-> IF x \in D THEN "dead" ELSE life[x]]
        /\ built' = built \cup BuiltAtDeath(D)
        /\ parent' = [x \in Node |-> IF x \in D THEN NoNode
                                     ELSE IF x = n THEN p ELSE parent[x]]
        /\ subpath' = [x \in Node |-> IF x \in D THEN NoSlot
                                      ELSE IF x = n THEN s ELSE subpath[x]]
        /\ contents' = [contents EXCEPT ![p][s] = n]
        /\ env' = [env EXCEPT ![n] = NoEnv]
        /\ cache' = [cache EXCEPT ![r] = (@ \ D) \cup cache[n]]
        /\ verdict' = "done"
        /\ rooted' = rooted
    BY <1>3, <2>1 DEF Assign
  <2>8. BuiltAtDeath(D) \subseteq D /\ n \notin D
    BY <2>1, <2>6 DEF BuiltAtDeath
  <2> HIDE DEF D, r, old
  <2>9. \A x \in Node : Alive(x)' <=> Alive(x) /\ x \notin D
    BY <2>7 DEF Alive
  <2>10. TypeOK'
    BY <2>2, <2>5, <2>6, <2>7, <2>8 DEF IInv, TypeOK, Life
  <2>11. parent' \in ParentFunction
    BY <2>2, <2>7, Types DEF ParentFunction
  <2>12. /\ Rooted(parent')
         /\ \A x \in Node : Root(x)' = IF x \in D THEN x
                                       ELSE IF Root(x) \in {n} THEN r ELSE Root(x)
    <3>1. /\ \A x \in D : parent'[x] = NoNode
          /\ \A x \in Node \ (D \cup {n}) : parent'[x] = parent[x]
          /\ parent'[n] = p
      BY <2>2, <2>6, <2>7, <2>8
    <3> DEFINE M == {n}
    <3>2. M \in SUBSET Node /\ n \in M /\ (\A x \in M : parent[x] = NoNode)
          /\ Root(p) \notin M /\ (\A x \in M \ {n} : parent'[x] = n)
      BY <2>1, <2>2 DEF r
    <3>3. \A x \in Node \ (D \cup M) : parent'[x] = parent[x]
      BY <3>1
    <3> HIDE DEF M
    <3>4. /\ Rooted(parent')
          /\ \A x \in Node : Root(x)' = IF x \in D THEN x
                                        ELSE IF Root(x) \in M THEN r ELSE Root(x)
      BY <3>1, <3>2, <3>3, <2>2, <2>4, <2>6, <2>11, Transplanted DEF r
    <3> QED BY <3>4 DEF M
  <2>13. LiveLinks'
    BY <2>2, <2>3, <2>4, <2>6, <2>7, <2>8, <2>9, Types DEF IInv, LiveLinks, ParentFunction
  <2>14. Constructed'
    BY <2>6, <2>7, <2>8, Types DEF IInv, Constructed, Alive
  <2>15. PathsAgree'
    <3> SUFFICES ASSUME NEW q \in Node, NEW c \in Node, NEW t \in Slot, Alive(q), q \notin D
                 PROVE  contents'[q][t] = c <=> parent'[c] = q /\ subpath'[c] = t
      BY <2>9 DEF PathsAgree
    <3>1. contents[q][t] = c <=> parent[c] = q /\ subpath[c] = t
      BY DEF IInv, PathsAgree
    <3>2. contents[p][s] = c <=> parent[c] = p /\ subpath[c] = s
      BY <2>2, <2>4 DEF IInv, PathsAgree
    <3>3. contents'[q][t] = IF q = p /\ t = s THEN n ELSE contents[q][t]
      BY <2>2, <2>7, Types DEF SlotFunction
    <3>4. parent'[c] = IF c \in D THEN NoNode ELSE IF c = n THEN p ELSE parent[c]
      BY <2>7
    <3>5. subpath'[c] = IF c \in D THEN NoSlot ELSE IF c = n THEN s ELSE subpath[c]
      BY <2>7
    <3> QED BY <3>1, <3>2, <3>3, <3>4, <3>5, <2>1, <2>2, <2>6, <2>8, Types DEF old
  <2>16. CacheByRoot'
    <3> SUFFICES ASSUME NEW q \in Node, Alive(q), q \notin D, parent'[q] = NoNode
                 PROVE  q \in rooted' /\ cache'[q] = {x \in Identified : Root(x)' = q}
      BY <2>9 DEF CacheByRoot
    <3>1. parent[q] = NoNode /\ q # n
      BY <2>2, <2>7, Types
    <3>2. q \in rooted /\ cache[q] = {x \in Identified : Root(x) = q}
      BY <3>1 DEF IInv, CacheByRoot
    <3>3. cache[n] = {x \in Identified : Root(x) = n}
      BY <2>1, <2>2, <2>3 DEF IInv, CacheByRoot
    <3>4. cache'[q] = IF q = r THEN (cache[q] \ D) \cup cache[n] ELSE cache[q]
      BY <2>5, <2>7 DEF IInv, TypeOK
    <3> QED BY <3>1, <3>2, <3>3, <3>4, <2>1, <2>6, <2>7, <2>12, Types
  <2>17. IsWrite(r, D, {n})
    <3>1. life[n] # "dead" /\ Root(n) = n
      BY <2>1, <2>2, <2>3, RootOfARoot DEF Alive
    <3>2. SameEnvironment(n, env'[r]) /\ \A x \in Node \ {n} : env'[x] = env[x]
      BY <1>3, <2>1, <2>2, <2>5, <2>7 DEF RefusedLate, Adoptable, SameEnvironment, IInv, TypeOK, r
    <3> QED BY <3>1, <3>2, <2>2, <2>3, <2>5, <2>6, <2>7, <2>8, <2>9, <2>12 DEF IsWrite
  <2> QED BY <2>2, <2>5, <2>6, <2>10, <2>12, <2>13, <2>14, <2>15, <2>16, <2>17
          DEF IInv, Promised
<1> QED BY <1>1, <1>2, <1>3

\* What a snapshot brings: new nodes, each alone, and live roots with their
\* trees; together they register every identified node of those trees.
LEMMA SnapshotNodes ==
  ASSUME IInv, NEW n \in Fresh, NEW c \in Contents(n)
  PROVE  LET M == {n} \cup Filled(c) IN
         /\ M \subseteq Node /\ n \notin Filled(c)
         /\ c \in [Slot -> Node \cup {NoNode}]
         /\ \A x \in M : parent[x] = NoNode /\ Root(x) = x
         /\ \A x \in M : life[x] = "absent" \/ (x \in built /\ Alive(x))
         /\ New(n, c) = {x \in M : life[x] = "absent"}
         /\ Placed(c) = {x \in M : Alive(x)}
         /\ \A x \in Filled(c) : SlotIn(c, x) \in Slot
         /\ \A x \in Filled(c), t \in Slot : c[t] = x <=> t = SlotIn(c, x)
         /\ Registered(n, c) = {m \in Identified : Root(m) \in M}
<1> DEFINE M == {n} \cup Filled(c)
<1>1. n \in Node /\ life[n] = "absent" /\ c \in [Slot -> Node \cup {NoNode}]
      /\ \A s \in Slot : c[s] \in (Fresh \cup Orphans) \ {n} \/ c[s] = NoNode
  BY Types DEF Fresh, Contents, Orphans
<1>2. M \subseteq Node /\ n \notin Filled(c)
      /\ \A x \in M : x \in Fresh \/ x \in Orphans
  BY <1>1, Types DEF Filled, Fresh, Orphans
<1>3. \A x \in M : life[x] = "absent" \/ (x \in built /\ Alive(x))
  BY <1>2 DEF Fresh, Orphans
<1>4. \A x \in M : parent[x] = NoNode /\ Root(x) = x
  BY <1>2, AloneUnlessAlive, RootOfARoot DEF Fresh, Orphans, Alive
<1>5. New(n, c) = {x \in M : life[x] = "absent"}
  BY <1>1, <1>2 DEF New, Fresh, Orphans, Alive
<1>6. Placed(c) = {x \in M : Alive(x)}
  BY <1>1, <1>2, <1>4 DEF Placed, Fresh, Orphans, Alive
<1>7. ASSUME NEW x \in Filled(c)
      PROVE  SlotIn(c, x) \in Slot /\ \A t \in Slot : c[t] = x <=> t = SlotIn(c, x)
  <2>1. PICK s \in Slot : c[s] = x /\ x # NoNode
    BY DEF Filled
  <2>2. SlotIn(c, x) \in Slot /\ c[SlotIn(c, x)] = x
    BY <2>1 DEF SlotIn
  <2>3. \A t, u \in Slot : t # u /\ c[t] # NoNode => c[t] # c[u]
    BY DEF Contents
  <2> QED BY <2>1, <2>2, <2>3
<1>8. Registered(n, c) = {m \in Identified : Root(m) \in M}
  <2>1. ASSUME NEW x \in M, life[x] = "absent", NEW m \in Identified
        PROVE  Root(m) = x <=> m = x
    <3>1. ~Alive(x) /\ x \in Node /\ m \in Node
      BY <2>1, <1>2, Types DEF Alive
    <3> QED BY <3>1, <1>4, AloneUnlessAlive
  <2>2. \A x \in Placed(c) : cache[x] = {m \in Identified : Root(m) = x}
    BY <1>2, <1>4, <1>6 DEF IInv, CacheByRoot
  <2>3. Registered(n, c) =
          {m \in Identified : m \in M /\ life[m] = "absent"}
            \cup UNION {{m \in Identified : Root(m) = x} : x \in {y \in M : Alive(y)}}
    BY <1>5, <1>6, <2>2 DEF Registered
  <2>4. \A m \in Identified : m \in M /\ life[m] = "absent" => Root(m) \in M
    BY <1>4
  <2>5. \A m \in Identified : Root(m) \in M /\ ~Alive(Root(m)) =>
           m \in M /\ life[m] = "absent"
    BY <1>3, <2>1
  <2> HIDE DEF M
  <2> QED BY <2>3, <2>4, <2>5
<1> QED BY <1>1, <1>2, <1>3, <1>4, <1>5, <1>6, <1>7, <1>8

\* A new root takes over the caches of the trees placed in its snapshot.
LEMMA CreateStep ==
  ASSUME IInv, NEW n \in Fresh, NEW c \in Contents(n), NEW e \in Env \cup {NoEnv},
         Create(n, c, e)
  PROVE  IInv' /\ Promised
<1> DEFINE M == {n} \cup Filled(c)
<1>1. /\ M \subseteq Node /\ n \notin Filled(c)
      /\ c \in [Slot -> Node \cup {NoNode}]
      /\ \A x \in M : parent[x] = NoNode /\ Root(x) = x
      /\ \A x \in M : life[x] = "absent" \/ (x \in built /\ Alive(x))
      /\ New(n, c) = {x \in M : life[x] = "absent"}
      /\ Placed(c) = {x \in M : Alive(x)}
      /\ \A x \in Filled(c) : SlotIn(c, x) \in Slot
      /\ \A x \in Filled(c), t \in Slot : c[t] = x <=> t = SlotIn(c, x)
      /\ Registered(n, c) = {m \in Identified : Root(m) \in M}
  BY SnapshotNodes
<1>2. n \in Node /\ life[n] = "absent" /\ n \in M /\ \A x \in M : x = n <=> x \notin Filled(c)
  BY <1>1 DEF Fresh
<1>3. /\ life' = [x \in Node |-> IF x = n THEN "finalized"
                                 ELSE IF x \in New(n, c) THEN "initializing" ELSE life[x]]
      /\ built' = built \cup {n}
      /\ parent' = [x \in Node |-> IF x \in Filled(c) THEN n ELSE parent[x]]
      /\ subpath' = [x \in Node |-> IF x \in Filled(c) THEN SlotIn(c, x) ELSE subpath[x]]
      /\ contents' = [contents EXCEPT ![n] = c]
      /\ env' = [x \in Node |-> IF x = n THEN e
                                ELSE IF x \in Placed(c) THEN NoEnv ELSE env[x]]
      /\ rooted' = rooted \cup {n}
      /\ cache' = [cache EXCEPT ![n] = Registered(n, c)]
      /\ verdict' = "done"
  BY DEF Create
<1>4. Filled(c) \subseteq M
  OBVIOUS
<1> HIDE DEF M
<1>5. \A x \in Node : /\ Alive(x)' <=> Alive(x) \/ x \in M
                      /\ life'[x] = "absent" <=> life[x] = "absent" /\ x \notin M
  BY <1>1, <1>2, <1>3 DEF Alive
<1>6. TypeOK'
  BY <1>1, <1>2, <1>3, <1>4 DEF IInv, TypeOK, Life
<1>7. parent' \in ParentFunction
  BY <1>2, <1>3, Types DEF ParentFunction
<1>8. /\ \A x \in M \ {n} : parent'[x] = n
      /\ parent'[n] = NoNode
      /\ \A x \in Node \ M : parent'[x] = parent[x]
  BY <1>1, <1>2, <1>3, <1>4
<1>9. Rooted(parent')
  <2>1. /\ \A x \in M : parent[x] = NoNode
        /\ \A x \in Node \ M : parent'[x] \in {parent[x], NoNode}
        /\ \A x \in M \ {n} : parent'[x] \in {n, NoNode}
        /\ M \in SUBSET Node
    BY <1>1, <1>8
  <2> QED BY <2>1, <1>2, <1>7, <1>8, Graft, Types
<1>10. \A x \in Node : Root(x)' = IF Root(x) \in M THEN n ELSE Root(x)
  <2> DEFINE F == [x \in Node |-> IF Root(x) \in M THEN n ELSE Root(x)]
  <2>1. ASSUME NEW x \in Node, parent'[x] = NoNode
        PROVE  F[x] = x
    <3>1. CASE x \in M
      BY <3>1, <2>1, <1>1, <1>2, <1>8, Types
    <3>2. CASE x \notin M
      BY <3>2, <2>1, <1>8, RootOfARoot
    <3> QED BY <3>1, <3>2
  <2>2. ASSUME NEW x \in Node, parent'[x] # NoNode
        PROVE  F[x] = F[parent'[x]]
    <3>1. CASE x \in M
      BY <3>1, <2>2, <1>1, <1>2, <1>8
    <3>2. CASE x \notin M
      BY <3>2, <2>2, <1>8, RootOfAChild
    <3> QED BY <3>1, <3>2
  <2> HIDE DEF F
  <2>3. \A x \in Node : Root(x)' = F[x]
    BY <1>7, <1>9, <2>1, <2>2, NewRoots
  <2> QED BY <2>3 DEF F
<1>11. LiveLinks'
  <2> SUFFICES ASSUME NEW x \in Node, parent'[x] # NoNode
               PROVE  (Alive(x) /\ Alive(parent[x]) /\ subpath[x] \in Slot)'
    BY DEF LiveLinks
  <2>1. CASE x \in Filled(c)
    BY <2>1, <1>1, <1>2, <1>3, <1>4, <1>5
  <2>2. CASE x \notin Filled(c)
    <3>1. parent'[x] = parent[x] /\ subpath'[x] = subpath[x] /\ parent[x] \in Node
      BY <2>2, <1>3, RootOfAChild
    <3> QED BY <3>1, <1>5 DEF IInv, LiveLinks
  <2> QED BY <2>1, <2>2
<1>12. Constructed'
  BY <1>2, <1>3, <1>5, Types DEF IInv, Constructed
<1>13. PathsAgree'
  <2> SUFFICES ASSUME NEW q \in Node, NEW y \in Node, NEW t \in Slot, Alive(q) \/ q \in M
               PROVE  contents'[q][t] = y <=> parent'[y] = q /\ subpath'[y] = t
    BY <1>5 DEF PathsAgree
  <2>1. parent'[y] = IF y \in Filled(c) THEN n ELSE parent[y]
    BY <1>3
  <2>2. subpath'[y] = IF y \in Filled(c) THEN SlotIn(c, y) ELSE subpath[y]
    BY <1>3
  <2>3. contents'[q][t] = IF q = n THEN c[t] ELSE contents[q][t]
    BY <1>2, <1>3 DEF IInv, TypeOK
  <2>4. parent[y] # n
    BY <1>2, Types DEF IInv, LiveLinks, Alive
  <2>5. CASE q = n
    <3>1. c[t] = y => y \in Filled(c)
      BY Types DEF Filled
    <3> QED BY <3>1, <2>1, <2>2, <2>3, <2>4, <2>5, <1>1
  <2>6. CASE q # n /\ Alive(q)
    <3>1. contents[q][t] = y <=> parent[y] = q /\ subpath[y] = t
      BY <2>6 DEF IInv, PathsAgree
    <3> QED BY <3>1, <2>1, <2>2, <2>3, <2>6, <1>1, <1>4, Types
  <2>7. CASE q # n /\ ~Alive(q)
    <3>1. contents[q][t] = NoNode /\ parent[y] # q
      BY <2>7, <1>1, Types DEF IInv, Constructed, LiveLinks, Alive
    <3> QED BY <3>1, <2>1, <2>3, <2>7, Types
  <2> QED BY <2>5, <2>6, <2>7
<1>14. CacheByRoot'
  <2> SUFFICES ASSUME NEW q \in Node, Alive(q) \/ q \in M, parent'[q] = NoNode
               PROVE  q \in rooted' /\ cache'[q] = {x \in Identified : Root(x)' = q}
    BY <1>5 DEF CacheByRoot
  <2>1. cache'[q] = IF q = n THEN Registered(n, c) ELSE cache[q]
    BY <1>2, <1>3 DEF IInv, TypeOK
  <2>2. CASE q = n
    <3>1. \A x \in Node : Root(x) = n => Root(x) \in M
      BY <1>2
    <3> QED BY <3>1, <2>1, <2>2, <1>1, <1>3, <1>10, Types
  <2>3. CASE q # n
    <3>1. q \notin M /\ Alive(q) /\ parent[q] = NoNode
      BY <2>3, <1>2, <1>8, Types
    <3>2. q \in rooted /\ cache[q] = {x \in Identified : Root(x) = q}
      BY <3>1 DEF IInv, CacheByRoot
    <3> QED BY <3>1, <3>2, <2>1, <2>3, <1>3, <1>10, Types
  <2> QED BY <2>2, <2>3
<1>15. IsWrite(n, {}, M)
  <2>1. \A x \in M : life[x] # "dead"
    BY <1>1 DEF Alive
  <2>2. \A x \in Node : life'[x] = "dead" <=> life[x] = "dead"
    BY <1>2, <1>3, <1>1
  <2>3. \A x \in M : Alive(x) => SameEnvironment(x, env'[n])
    BY <1>1, <1>2, <1>3 DEF Create, SameEnvironment
  <2>4. \A x \in Node : x \notin M => env'[x] = env[x]
    BY <1>1, <1>2, <1>3
  <2> QED BY <2>1, <2>2, <2>3, <2>4, <1>1, <1>2, <1>5, <1>10 DEF IsWrite
<1> QED BY <1>1, <1>2, <1>6, <1>9, <1>11, <1>12, <1>13, <1>14, <1>15 DEF IInv, Promised

\* A snapshot that replaces what a slot stores: the old subtree dies, the new
\* nodes and the trees placed among them join the tree of p.
LEMMA AssignSnapshotStep ==
  ASSUME IInv, NEW p \in built, NEW s \in Slot, NEW n \in Fresh, NEW c \in Contents(n),
         AssignSnapshot(p, s, n, c)
  PROVE  IInv' /\ Promised
<1> DEFINE M == {n} \cup Filled(c)
           old == contents[p][s]
           D == Dying(old)
           r == Root(p)
<1>1. /\ M \subseteq Node /\ n \notin Filled(c)
      /\ c \in [Slot -> Node \cup {NoNode}]
      /\ \A x \in M : parent[x] = NoNode /\ Root(x) = x
      /\ \A x \in M : life[x] = "absent" \/ (x \in built /\ Alive(x))
      /\ New(n, c) = {x \in M : life[x] = "absent"}
      /\ Placed(c) = {x \in M : Alive(x)}
      /\ \A x \in Filled(c) : SlotIn(c, x) \in Slot
      /\ \A x \in Filled(c), t \in Slot : c[t] = x <=> t = SlotIn(c, x)
      /\ Registered(n, c) = {m \in Identified : Root(m) \in M}
  BY SnapshotNodes
<1>2. n \in Node /\ life[n] = "absent" /\ n \in M /\ \A x \in M : x = n <=> x \notin Filled(c)
  BY <1>1 DEF Fresh
<1>3. /\ life' = [x \in Node |-> IF x \in D THEN "dead"
                                 ELSE IF x \in New(n, c) THEN "initializing" ELSE life[x]]
      /\ built' = built \cup BuiltAtDeath(D)
      /\ parent' = [x \in Node |-> IF x \in D THEN NoNode ELSE IF x = n THEN p
                                   ELSE IF x \in Filled(c) THEN n ELSE parent[x]]
      /\ subpath' = [x \in Node |-> IF x \in D THEN NoSlot ELSE IF x = n THEN s
                                    ELSE IF x \in Filled(c) THEN SlotIn(c, x)
                                    ELSE subpath[x]]
      /\ contents' = [contents EXCEPT ![p][s] = n, ![n] = c]
      /\ env' = [x \in Node |-> IF x \in Placed(c) THEN NoEnv ELSE env[x]]
      /\ cache' = [cache EXCEPT ![r] = (@ \ D) \cup Registered(n, c)]
      /\ verdict' = "done"
      /\ rooted' = rooted
  BY DEF AssignSnapshot
<1>4. Filled(c) \subseteq M /\ BuiltAtDeath(D) \subseteq D
  BY DEF BuiltAtDeath
<1>5. p \in Node /\ Alive(p) /\ r \in Node /\ Alive(r) /\ parent[r] = NoNode /\ r \notin M
  <2>1. p \in Node /\ Alive(p)
    BY Types DEF AssignSnapshot
  <2>2. r \in Node /\ Alive(r) /\ parent[r] = NoNode
    BY <2>1, RootType, RootAlive
  <2>3. r \notin M
    BY <1>1, <2>2 DEF AssignSnapshot, Adoptable, Alive
  <2> QED BY <2>1, <2>2, <2>3
<1>6. /\ D \subseteq Node /\ p \notin D
      /\ old # NoNode => old \in D
      /\ \A x \in D : Alive(x) /\ Root(x) = r /\ parent[x] # NoNode
      /\ \A x \in D : parent[x] \in D \/ (x = old /\ parent[x] = p /\ subpath[x] = s)
      /\ \A x \in Node : parent[x] \in D => x \in D
  BY <1>5, DyingNodes
<1>7. M \cap D = {}
  BY <1>1, <1>6
<1> HIDE DEF M, D, r, old
<1>8. \A x \in Node : /\ Alive(x)' <=> x \notin D /\ (Alive(x) \/ x \in M)
                      /\ life'[x] = "absent" <=> life[x] = "absent" /\ x \notin M
  BY <1>1, <1>2, <1>3, <1>6 DEF Alive
<1>9. TypeOK'
  BY <1>1, <1>2, <1>3, <1>4, <1>5, <1>6 DEF IInv, TypeOK, Life
<1>10. parent' \in ParentFunction
  BY <1>2, <1>3, <1>5, Types DEF ParentFunction
<1>11. /\ \A x \in D : parent'[x] = NoNode
       /\ \A x \in M \ {n} : parent'[x] = n
       /\ parent'[n] = p
       /\ \A x \in Node \ (D \cup M) : parent'[x] = parent[x]
  BY <1>1, <1>2, <1>3, <1>4, <1>6, <1>7
<1>12. /\ Rooted(parent')
       /\ \A x \in Node : Root(x)' = IF x \in D THEN x
                                     ELSE IF Root(x) \in M THEN r ELSE Root(x)
  BY <1>1, <1>2, <1>5, <1>6, <1>10, <1>11, Transplanted DEF r
<1>13. LiveLinks'
  <2> SUFFICES ASSUME NEW x \in Node, parent'[x] # NoNode
               PROVE  (Alive(x) /\ Alive(parent[x]) /\ subpath[x] \in Slot)'
    BY DEF LiveLinks
  <2>1. x \notin D
    BY <1>11
  <2>2. CASE x \in M
    BY <2>1, <2>2, <1>1, <1>2, <1>3, <1>5, <1>6, <1>7, <1>8, <1>11
  <2>3. CASE x \notin M
    <3>1. parent'[x] = parent[x] /\ subpath'[x] = subpath[x] /\ parent[x] \in Node
          /\ parent[x] # NoNode
      BY <2>1, <2>3, <1>2, <1>3, <1>4, <1>11, RootOfAChild
    <3>2. parent[x] \notin D
      BY <2>1, <1>6
    <3> QED BY <3>1, <3>2, <2>1, <1>8 DEF IInv, LiveLinks
  <2> QED BY <2>2, <2>3
<1>14. Constructed'
  <2> SUFFICES ASSUME NEW x \in Node, life'[x] = "absent"
               PROVE  x \notin built' \cup rooted' /\ \A t \in Slot : contents'[x][t] = NoNode
    BY DEF Constructed
  <2>1. life[x] = "absent" /\ x \notin M /\ x # p /\ x \notin D
    BY <1>5, <1>6, <1>8 DEF Alive
  <2> QED BY <2>1, <1>2, <1>3, <1>4, <1>5 DEF IInv, Constructed, TypeOK
<1>15. PathsAgree'
  <2> SUFFICES ASSUME NEW q \in Node, NEW y \in Node, NEW t \in Slot,
                      q \notin D, Alive(q) \/ q \in M
               PROVE  contents'[q][t] = y <=> parent'[y] = q /\ subpath'[y] = t
    BY <1>8 DEF PathsAgree
  <2>1. parent'[y] = IF y \in D THEN NoNode ELSE IF y = n THEN p
                     ELSE IF y \in Filled(c) THEN n ELSE parent[y]
    BY <1>3
  <2>2. subpath'[y] = IF y \in D THEN NoSlot ELSE IF y = n THEN s
                      ELSE IF y \in Filled(c) THEN SlotIn(c, y) ELSE subpath[y]
    BY <1>3
  <2>3. n # p
    BY <1>2, <1>5 DEF Alive
  <2>4. contents'[q][t] = IF q = n THEN c[t]
                          ELSE IF q = p /\ t = s THEN n ELSE contents[q][t]
    BY <2>3, <1>2, <1>3, <1>5 DEF IInv, TypeOK
  <2>5. parent[y] # n
    BY <1>2, Types DEF IInv, LiveLinks, Alive
  <2>6. contents[p][s] = y <=> parent[y] = p /\ subpath[y] = s
    BY <1>5 DEF IInv, PathsAgree
  <2>7. CASE q = n
    <3>1. c[t] = y => y \in Filled(c)
      BY Types DEF Filled
    <3> QED BY <3>1, <2>1, <2>2, <2>3, <2>4, <2>5, <2>7, <1>1, <1>4, <1>7, Types
  <2>8. CASE q # n /\ Alive(q)
    <3>1. contents[q][t] = y <=> parent[y] = q /\ subpath[y] = t
      BY <2>8 DEF IInv, PathsAgree
    <3>2. y \in M => parent[y] # q
      BY <1>1, Types
    <3>3. CASE q = p /\ t = s
      <4>1. contents'[q][t] = n
        BY <3>3, <2>3, <2>4
      <4>2. y \notin D => ~(parent[y] = p /\ subpath[y] = s)
        BY <2>6, <1>6, Types DEF old
      <4>3. n \notin D
        BY <1>2, <1>7
      <4> QED BY <4>1, <4>2, <4>3, <3>3, <2>1, <2>2, <2>3, Types
    <3>4. CASE ~(q = p /\ t = s)
      <4>1. contents'[q][t] = contents[q][t]
        BY <3>4, <2>4, <2>8
      <4>2. y \in D => ~(parent[y] = q /\ subpath[y] = t)
        BY <3>4, <1>6
      <4>3. q # NoNode /\ p # NoNode
        BY <1>5, Types
      <4> QED BY <4>1, <4>2, <4>3, <3>1, <3>2, <3>4, <2>1, <2>2, <2>8, <1>2, <1>4
    <3> QED BY <3>3, <3>4
  <2>9. CASE q # n /\ ~Alive(q)
    <3>1. contents[q][t] = NoNode /\ parent[y] # q /\ q # p
      BY <2>9, <1>1, <1>5, Types DEF IInv, Constructed, LiveLinks, Alive
    <3> QED BY <3>1, <2>1, <2>4, <2>9, Types
  <2> QED BY <2>7, <2>8, <2>9
<1>16. CacheByRoot'
  <2> SUFFICES ASSUME NEW q \in Node, q \notin D, Alive(q) \/ q \in M, parent'[q] = NoNode
               PROVE  q \in rooted' /\ cache'[q] = {x \in Identified : Root(x)' = q}
    BY <1>8 DEF CacheByRoot
  <2>1. cache'[q] = IF q = r THEN (cache[q] \ D) \cup Registered(n, c) ELSE cache[q]
    BY <1>3, <1>5 DEF IInv, TypeOK
  <2>2. q \notin M /\ Alive(q) /\ parent[q] = NoNode
    BY <1>2, <1>5, <1>11, Types
  <2>3. q \in rooted /\ cache[q] = {x \in Identified : Root(x) = q}
    BY <2>2 DEF IInv, CacheByRoot
  <2> QED BY <2>1, <2>2, <2>3, <1>1, <1>3, <1>5, <1>6, <1>12, Types
<1>17. IsWrite(r, D, M)
  <2>1. \A x \in M : life[x] # "dead"
    BY <1>1 DEF Alive
  <2>2. \A x \in Node : life'[x] = "dead" <=> life[x] = "dead" \/ x \in D
    BY <1>1, <1>3
  <2>3. \A x \in Node : x \notin M => env'[x] = env[x]
    BY <1>1, <1>3
  <2>4. \A x \in M : Alive(x) => SameEnvironment(x, env'[r])
    <3>1. \A a \in Placed(c) : Adoptable(a, r)
      BY DEF AssignSnapshot, r
    <3>2. \A a \in Placed(c) : SameEnvironment(a, env[r])
      BY <3>1 DEF Adoptable
    <3>3. env'[r] = env[r]
      BY <2>3, <1>5
    <3> QED BY <3>2, <3>3, <1>1 DEF SameEnvironment
  <2>5. /\ M \subseteq Node /\ D \subseteq Node /\ r \in Node
        /\ \A x \in D : Alive(x) /\ Root(x) = r
        /\ \A x \in M : Root(x) = x
    BY <1>1, <1>5, <1>6
  <2> HIDE DEF M, D, r, old
  <2> QED BY <2>1, <2>2, <2>3, <2>4, <2>5, <1>8, <1>12 DEF IsWrite
<1> QED BY <1>1, <1>5, <1>6, <1>9, <1>12, <1>13, <1>14, <1>15, <1>16, <1>17 DEF IInv, Promised

LEMMA NextStep ==
  ASSUME IInv, Doomed = {}, [Next]_vars
  PROVE  IInv' /\ Promised
<1>1. CASE UNCHANGED vars
  <2>1. UNCHANGED tree /\ verdict' \in {"done", "refused"}
    BY <1>1 DEF vars, tree, IInv, TypeOK
  <2> QED BY <2>1, TreeUnchanged
<1>2. CASE Next
  BY <1>2, CreateStep, ReadStep, AssignStep,
     AssignSnapshotStep, ClearStep, DestroyChildStep,
     DestroyRootStep, DetachStep DEF Next
<1> QED BY <1>1, <1>2

THEOREM Invariant ==
  ASSUME Doomed = {}
  PROVE  Spec => []IInv
<1>1. Init => IInv
  BY InitEstablishesIInv
<1>2. IInv /\ [Next]_vars => IInv'
  BY NextStep
<1> QED BY <1>1, <1>2, PTL DEF Spec

-----------------------------------------------------------------------------
(* What follows for callers *)

\* The tree below a live root is the set of nodes that walk up to it.
LEMMA BelowIsTree ==
  ASSUME IInv, NEW q \in Node, Alive(q), parent[q] = NoNode
  PROVE  Below(q) = {m \in Node : Root(m) = q}
<1> DEFINE G == {m \in Node : Root(m) = q => m \in Below(q)}
<1>1. \A m \in Node : parent[m] = NoNode => m \in G
  BY BelowALiveNode, RootOfARoot
<1>2. \A m \in Node : parent[m] # NoNode /\ parent[m] \in G => m \in G
  BY BelowALiveNode, RootOfAChild
<1> HIDE DEF G
<1>3. Node \subseteq G
  BY <1>1, <1>2, ForestInduction, Types
<1>4. \A m \in Below(q) : m \in Node /\ Root(m) = q
  BY BelowALiveNode, BelowSharesRoot, RootOfARoot
<1> QED BY <1>3, <1>4 DEF G

\* The variables keep their types: every write leaves its cache with a root
\* node and the caches only ever hold identified nodes.
THEOREM TypeCorrect ==
  ASSUME Doomed = {}
  PROVE  Spec => []TypeOK
<1>1. IInv => TypeOK
  BY DEF IInv
<1> QED BY <1>1, Invariant, PTL

\* The stored children and the parent pointers of live nodes always agree.
THEOREM PathsAlwaysAgree ==
  ASSUME Doomed = {}
  PROVE  Spec => []PathsAgree
<1>1. IInv => PathsAgree
  BY DEF IInv
<1> QED BY <1>1, Invariant, PTL

\* The root getter always terminates, and dead nodes are in no tree.
THEOREM AlwaysAForest ==
  ASSUME Doomed = {}
  PROVE  Spec => []RootedForest
<1>1. IInv => RootedForest
  BY DEF IInv, LiveLinks, RootedForest
<1> QED BY <1>1, Invariant, PTL

\* resolveIdentifier always sees exactly the identified nodes of the tree.
THEOREM CachesAlwaysExact ==
  ASSUME Doomed = {}
  PROVE  Spec => []CacheExact
<1>1. IInv => CacheExact
  <2> SUFFICES ASSUME IInv, NEW r \in Node, Alive(r), parent[r] = NoNode
               PROVE  r \in rooted /\ cache[r] = Identified \cap Below(r)
    BY DEF CacheExact
  <2>1. r \in rooted /\ cache[r] = {m \in Identified : Root(m) = r}
    BY DEF IInv, CacheByRoot
  <2> QED BY <2>1, BelowIsTree, Types
<1> QED BY <1>1, Invariant, PTL

\* No write brings a dead node back to life, into a tree or into its cache.
THEOREM TheDeadStayOut ==
  ASSUME Doomed = {}
  PROVE  Spec => DeadStaysOut
<1> DEFINE Out(n) == /\ life'[n] = "dead" /\ parent'[n] = NoNode
                     /\ \A r \in Node : Alive(r)' /\ parent'[r] = NoNode => n \notin cache'[r]
<1>1. ASSUME IInv, [Next]_vars, NEW n \in Node, life[n] = "dead"
      PROVE  Out(n)
  <2>1. n \notin Fresh
    BY <1>1 DEF Fresh
  <2>2. life'[n] = "dead"
    <3>1. ASSUME NEW m \in Fresh, NEW c \in Contents(m), NEW e, Create(m, c, e)
          PROVE  life'[n] = "dead"
      BY <3>1, <1>1, <2>1 DEF Create, New
    <3>2. ASSUME NEW m \in Node, Read(m)
          PROVE  life'[n] = "dead"
      BY <3>2, <1>1 DEF Read, Finalizable
    <3>3. ASSUME NEW p, NEW m, NEW s, Assign(p, s, m)
          PROVE  life'[n] = "dead"
      BY <3>3, <1>1 DEF Assign, Refuse, tree
    <3>4. ASSUME NEW p, NEW s, NEW m \in Fresh, NEW c, AssignSnapshot(p, s, m, c)
          PROVE  life'[n] = "dead"
      BY <3>4, <1>1, <2>1 DEF AssignSnapshot, New
    <3>5. ASSUME NEW p, NEW s, Clear(p, s)
          PROVE  life'[n] = "dead"
      BY <3>5, <1>1 DEF Clear, Refuse, tree, Remove, Die
    <3>6. ASSUME NEW m, DestroyChild(m)
          PROVE  life'[n] = "dead"
      BY <3>6, <1>1 DEF DestroyChild, Refuse, tree, Remove, Die
    <3>7. ASSUME NEW m, DestroyRoot(m)
          PROVE  life'[n] = "dead"
      BY <3>7, <1>1 DEF DestroyRoot, Die
    <3>8. ASSUME NEW m, Detach(m)
          PROVE  life'[n] = "dead"
      BY <3>8, <1>1 DEF Detach
    <3>9. CASE UNCHANGED vars
      BY <3>9, <1>1 DEF vars
    <3> QED BY <1>1, <3>1, <3>2, <3>3, <3>4, <3>5, <3>6, <3>7, <3>8, <3>9 DEF Next
  <2>3. IInv'
    BY <1>1, NextStep
  <2>4. parent'[n] = NoNode
    BY <2>2, <2>3 DEF IInv, LiveLinks, Alive
  <2>5. ASSUME NEW r \in Node, Alive(r)', parent'[r] = NoNode
        PROVE  n \notin cache'[r]
    <3>1. cache'[r] = {m \in Identified : Root(m)' = r}
      BY <2>3, <2>5 DEF IInv, CacheByRoot
    <3>2. Rooted(parent')
      BY <2>3 DEF IInv
    <3>3. Root(n)' = n
      BY <2>4, <3>2, RootOfRoot DEF Root
    <3>4. n # r
      BY <2>2, <2>5 DEF Alive
    <3> QED BY <3>1, <3>3, <3>4
  <2> QED BY <2>2, <2>4, <2>5
<1>2. IInv /\ [Next]_vars => [\A n \in Node : life[n] = "dead" => Out(n)]_vars
  BY <1>1
<1>3. Spec => [][\A n \in Node : life[n] = "dead" => Out(n)]_vars
  BY <1>2, Invariant, PTL DEF Spec
<1> QED BY <1>3 DEF DeadStaysOut

\* Whatever moves with or without it, a node keeps the environment getEnv finds.
THEOREM EnvironmentsAreKept ==
  ASSUME Doomed = {}
  PROVE  Spec => EnvironmentKept
<1> DEFINE Kept(n) == Alive(n) /\ Alive(n)' /\ env[Root(n)] # NoEnv
                        => env'[Root(n)'] = env[Root(n)]
<1>1. ASSUME IInv, Promised, NEW n \in Node, Alive(n), Alive(n)', env[Root(n)] # NoEnv
      PROVE  env'[Root(n)'] = env[Root(n)]
  <2>1. Root(n) \in Node /\ Alive(Root(n)) /\ parent[Root(n)] = NoNode
    BY <1>1, RootType, RootAlive
  <2>2. CASE IsQuiet
    BY <1>1, <2>2 DEF IsQuiet
  <2>3. ASSUME NEW t \in Node, NEW D \in SUBSET Node, NEW M \in SUBSET Node, IsWrite(t, D, M)
        PROVE  env'[Root(n)'] = env[Root(n)]
    <3>1. Root(n)' = IF Root(n) \in M THEN t ELSE Root(n)
      BY <1>1, <2>3 DEF IsWrite
    <3>2. CASE Root(n) \in M
      BY <1>1, <2>1, <2>3, <3>1, <3>2 DEF IsWrite, SameEnvironment
    <3>3. CASE Root(n) \notin M
      BY <2>1, <2>3, <3>1, <3>3 DEF IsWrite
    <3> QED BY <3>2, <3>3
  <2>4. ASSUME NEW r \in Node, NEW q \in Node, IsSplit(r, q)
        PROVE  env'[Root(n)'] = env[Root(n)]
    BY <1>1, <2>1, <2>4 DEF IsSplit
  <2> QED BY <1>1, <2>2, <2>3, <2>4 DEF Promised
<1>2. IInv /\ [Next]_vars => [\A n \in Node : Kept(n)]_vars
  BY <1>1, NextStep
<1>3. Spec => [][\A n \in Node : Kept(n)]_vars
  BY <1>2, Invariant, PTL DEF Spec
<1> QED BY <1>3 DEF EnvironmentKept

-----------------------------------------------------------------------------
(* The refinement of IdentifierScope *)

\* What resolveIdentifier sees: a live identified node is in the scope of its
\* root, every other node in none.
ScopeByRoot ==
  \A n \in Node : ScopeOf(n) = IF n \in Identified /\ Alive(n) THEN Root(n) ELSE NoNode

LEMMA ScopeIsRoot ==
  ASSUME IInv
  PROVE  ScopeByRoot
<1> SUFFICES ASSUME NEW n \in Node
             PROVE  ScopeOf(n) = IF n \in Identified /\ Alive(n) THEN Root(n) ELSE NoNode
  BY DEF ScopeByRoot
<1>1. \A r \in LiveRoots : n \in cache[r] <=> n \in Identified /\ Root(n) = r
  BY DEF LiveRoots, IInv, CacheByRoot
<1>2. CASE n \in Identified /\ Alive(n)
  <2>1. Root(n) \in LiveRoots
    BY <1>2, RootType, RootAlive DEF LiveRoots
  <2> QED BY <1>1, <1>2, <2>1 DEF ScopeOf
<1>3. CASE ~(n \in Identified /\ Alive(n))
  <2>1. \A r \in LiveRoots : n \notin cache[r]
    <3>1. ~Alive(n) => Root(n) = n
      BY AloneUnlessAlive, RootOfARoot
    <3> QED BY <1>1, <1>3, <3>1 DEF LiveRoots
  <2> QED BY <1>3, <2>1 DEF ScopeOf
<1> QED BY <1>2, <1>3

\* The scopes before and after a step, and the nodes that have died.
ScopeStep(sc, sc2, dead, dead2) ==
  /\ sc = [n \in Node |-> IF n \in Identified /\ Alive(n) THEN Root(n) ELSE NoNode]
  /\ sc2 = [n \in Node |-> IF n \in Identified /\ Alive(n)' THEN Root(n)' ELSE NoNode]
  /\ dead = {n \in Identified : life[n] = "dead"}
  /\ dead2 = {n \in Identified : life'[n] = "dead"}

\* what IdentifierScope asks of a write of the tree t
IsScopeWrite(t, sc, sc2, dead, dead2) ==
  /\ \A n \in Node : sc2[n] # sc[n] =>
       \/ sc[n] = t /\ sc2[n] = NoNode /\ n \in dead2
       \/ sc[n] = NoNode /\ n \notin dead /\ sc2[n] = t
       \/ sc[n] # NoNode /\ sc2[n] = t /\ \A m \in Node : sc2[m] # sc[n]
  /\ dead2 \subseteq dead \cup {n \in Node : sc[n] = t}
  /\ dead \subseteq dead2
  /\ \A n \in dead2 : sc2[n] = NoNode

\* A write of the tree is a write of the scope.
LEMMA WritesScope ==
  ASSUME IInv, NEW t \in Node, NEW D \in SUBSET Node, NEW M \in SUBSET Node,
         IsWrite(t, D, M), NEW sc, NEW sc2, NEW dead, NEW dead2,
         ScopeStep(sc, sc2, dead, dead2)
  PROVE  IsScopeWrite(t, sc, sc2, dead, dead2)
<1>1. NoNode \notin Node /\ Identified \subseteq Node
  BY Types
<1>2. \A x \in Node : /\ sc[x] = IF x \in Identified /\ Alive(x) THEN Root(x) ELSE NoNode
                      /\ sc2[x] = IF x \in Identified /\ Alive(x)' THEN Root(x)' ELSE NoNode
  BY DEF ScopeStep
<1>3. /\ \A x \in D : x \in Node /\ Alive(x) /\ Root(x) = t
      /\ \A x \in M : life[x] # "dead" /\ Root(x) = x
      /\ \A x \in Node : Alive(x)' <=> x \notin D /\ (Alive(x) \/ x \in M)
      /\ \A x \in Node : life'[x] = "dead" <=> life[x] = "dead" \/ x \in D
      /\ \A x \in Node \ D : Root(x)' = IF Root(x) \in M THEN t ELSE Root(x)
  BY DEF IsWrite
<1>4. \A x \in Node : Root(x) \in Node
  BY RootType
<1>5. \A x \in Node : life[x] = "dead" => ~Alive(x)
  BY DEF Alive
<1>6. ASSUME NEW n \in Node, sc2[n] # sc[n]
      PROVE  \/ sc[n] = t /\ sc2[n] = NoNode /\ n \in dead2
             \/ sc[n] = NoNode /\ n \notin dead /\ sc2[n] = t
             \/ sc[n] # NoNode /\ sc2[n] = t /\ \A m \in Node : sc2[m] # sc[n]
  <2>1. n \in Identified
    BY <1>2, <1>6
  <2>2. CASE n \in D
    BY <2>1, <2>2, <1>2, <1>3 DEF ScopeStep
  <2>3. CASE n \notin D /\ ~Alive(n)
    BY <2>1, <2>3, <1>2, <1>3, <1>6 DEF ScopeStep
  <2>4. CASE n \notin D /\ Alive(n)
    <3>1. sc[n] = Root(n) /\ Root(n) \in M /\ sc2[n] = t /\ t # Root(n)
      BY <2>1, <2>4, <1>2, <1>3, <1>6
    <3>2. ASSUME NEW m \in Node, sc2[m] = Root(n)
          PROVE  FALSE
      <4>1. m \notin D /\ Root(m)' = Root(n)
        BY <3>2, <1>1, <1>2, <1>3, <1>4
      <4> QED BY <4>1, <3>1, <1>3
    <3> QED BY <3>1, <3>2, <1>1, <1>4
  <2> QED BY <2>2, <2>3, <2>4
<1>7. dead2 \subseteq dead \cup {n \in Node : sc[n] = t}
  BY <1>1, <1>2, <1>3 DEF ScopeStep
<1>8. dead \subseteq dead2 /\ \A n \in dead2 : sc2[n] = NoNode
  BY <1>1, <1>2, <1>3, <1>5 DEF ScopeStep
<1> QED BY <1>6, <1>7, <1>8 DEF IsScopeWrite

\* A detach splits the scope.
LEMMA SplitsScope ==
  ASSUME IInv, NEW r \in Node, NEW q \in Node, IsSplit(r, q), NEW sc, NEW sc2, NEW dead, NEW dead2,
         ScopeStep(sc, sc2, dead, dead2)
  PROVE  /\ r # q /\ {n \in Node : sc[n] = q} = {}
         /\ \A n \in Node : sc2[n] # sc[n] => sc[n] = r /\ sc2[n] = q
         /\ dead2 = dead
<1>1. NoNode \notin Node /\ Identified \subseteq Node
  BY Types
<1>2. \A x \in Node : /\ sc[x] = IF x \in Identified /\ Alive(x) THEN Root(x) ELSE NoNode
                      /\ sc2[x] = IF x \in Identified /\ Alive(x)' THEN Root(x)' ELSE NoNode
  BY DEF ScopeStep
<1>3. /\ r # q /\ \A x \in Node : Root(x) # q
      /\ \A x \in Node : (Alive(x)' <=> Alive(x)) /\ (life'[x] = "dead" <=> life[x] = "dead")
      /\ \A x \in Node : Root(x)' = Root(x) \/ (Root(x) = r /\ Root(x)' = q)
  BY DEF IsSplit
<1>4. {n \in Node : sc[n] = q} = {}
  BY <1>1, <1>2, <1>3
<1>5. \A n \in Node : sc2[n] # sc[n] => sc[n] = r /\ sc2[n] = q
  BY <1>2, <1>3
<1>6. dead2 = dead
  BY <1>1, <1>3 DEF ScopeStep
<1> QED BY <1>3, <1>4, <1>5, <1>6

\* Every step of the tree is a step of the scope or leaves it alone.
LEMMA StepImplementsScope ==
  ASSUME IInv, ScopeByRoot, ScopeByRoot', Promised
  PROVE  [Scope!Next]_<<[n \in Node |-> ScopeOf(n)], {n \in Identified : life[n] = "dead"}>>
<1> DEFINE sc == [n \in Node |-> ScopeOf(n)]
           sc2 == [n \in Node |-> ScopeOf(n)']
           dead == {n \in Identified : life[n] = "dead"}
           dead2 == {n \in Identified : life'[n] = "dead"}
<1>1. ScopeStep(sc, sc2, dead, dead2)
  BY DEF ScopeStep, ScopeByRoot
<1>2. sc' = sc2 /\ dead' = dead2
  OBVIOUS
<1> HIDE DEF sc, sc2, dead, dead2
<1>3. CASE IsQuiet
  <2>1. sc2 = sc
    BY <1>1, <1>3 DEF ScopeStep, IsQuiet
  <2>2. dead2 = dead
    BY <1>1, <1>3, Types DEF ScopeStep, IsQuiet
  <2> QED BY <2>1, <2>2, <1>2 DEF sc, dead
<1>4. ASSUME NEW t \in Node, NEW D \in SUBSET Node, NEW M \in SUBSET Node, IsWrite(t, D, M)
      PROVE  Scope!Write(t)
  <2>1. IsScopeWrite(t, sc, sc2, dead, dead2)
    BY <1>1, <1>4, WritesScope
  <2> QED BY <2>1, <1>2 DEF IsScopeWrite, Scope!Write, Scope!Members, sc, dead
<1>5. ASSUME NEW r \in Node, NEW q \in Node, IsSplit(r, q)
      PROVE  r # q /\ Scope!Split(r, q)
  <2>1. /\ r # q /\ {n \in Node : sc[n] = q} = {}
        /\ \A n \in Node : sc2[n] # sc[n] => sc[n] = r /\ sc2[n] = q
        /\ dead2 = dead
    BY <1>1, <1>5, SplitsScope
  <2> QED BY <2>1, <1>2 DEF Scope!Split, Scope!Members, sc, dead
<1> QED BY <1>3, <1>4, <1>5 DEF Promised, Scope!Next

\* resolveIdentifier sees every identified node in exactly one tree from its
\* construction to its death: the tree of nodes implements IdentifierScope.
THEOREM TreeImplementsScope ==
  ASSUME Doomed = {}
  PROVE  Spec => ImplementsScope
<1>1. ASSUME Init
      PROVE  Scope!Init
  <2>1. LiveRoots = {}
    BY <1>1 DEF Init, LiveRoots, Alive
  <2>2. \A n \in Node : ScopeOf(n) = NoNode
    BY <2>1 DEF ScopeOf
  <2>3. {n \in Identified : life[n] = "dead"} = {}
    <3>1. \A n \in Node : life[n] = "absent"
      BY <1>1 DEF Init
    <3> QED BY <3>1, StateTreeAssumption
  <2> QED BY <2>2, <2>3 DEF Scope!Init
<1>2. IInv => ScopeByRoot
  BY ScopeIsRoot
<1>3. IInv /\ [Next]_vars => Promised
  BY NextStep
<1>4. IInv /\ ScopeByRoot /\ ScopeByRoot' /\ Promised
        => [Scope!Next]_<<[n \in Node |-> ScopeOf(n)], {n \in Identified : life[n] = "dead"}>>
  BY StepImplementsScope
<1> QED BY <1>1, <1>2, <1>3, <1>4, Invariant, PTL DEF Spec, ImplementsScope, Scope!Spec
=============================================================================
