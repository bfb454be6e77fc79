------------------------ MODULE SafeReferencesProofs ------------------------
(***************************************************************************)
(* A safe reference watches what it resolves to and is cleared with its    *)
(* target, for any number of hosts, targets, containers and identifiers,   *)
(* as long as neither known gap is entered.                                *)
(***************************************************************************)
EXTENDS SafeReferences, TLAPS

ParentFunction == [Node -> Node \cup {NoNode}]

-----------------------------------------------------------------------------
(* Walks up *)

\* A walk starts at its own node.
LEMMA AncestorsSelf ==
  ASSUME NEW par, NEW n \in Node
  PROVE  n \in Ancestors(par, n)
BY DEF Ancestors

\* A walk stays among the nodes.
LEMMA AncestorsType ==
  ASSUME NEW par, NEW n
  PROVE  Ancestors(par, n) \subseteq Node
BY DEF Ancestors

\* A walk goes on to the parent of every node it passes.
LEMMA AncestorsStep ==
  ASSUME NEW par \in ParentFunction, NEW n \in Node,
         NEW x \in Ancestors(par, n), par[x] # NoNode
  PROVE  par[x] \in Ancestors(par, n)
<1>1. x \in Node /\ par[x] \in Node
  BY DEF Ancestors, ParentFunction
<1> QED BY <1>1 DEF Ancestors

\* A walk passes no more than any closed set that holds its start.
LEMMA AncestorsLeast ==
  ASSUME NEW par, NEW n \in Node, NEW S \in SUBSET Node, n \in S,
         \A x \in S : par[x] # NoNode => par[x] \in S
  PROVE  Ancestors(par, n) \subseteq S
BY DEF Ancestors

\* The walk from a root ends at once.
LEMMA AncestorsOfRoot ==
  ASSUME NEW par, NEW n \in Node, par[n] = NoNode
  PROVE  Ancestors(par, n) = {n}
<1>1. Ancestors(par, n) \subseteq {n}
  BY AncestorsLeast, {n} \in SUBSET Node
<1> QED BY <1>1, AncestorsSelf

\* The walk from a node continues with the walk from its parent.
LEMMA AncestorsUnfold ==
  ASSUME NoNode \notin Node,
         NEW par \in ParentFunction, NEW n \in Node, par[n] # NoNode
  PROVE  Ancestors(par, n) = {n} \cup Ancestors(par, par[n])
<1> DEFINE p == par[n]
           S == {n} \cup Ancestors(par, p)
<1>1. p \in Node
  BY DEF ParentFunction
<1>2. p \in Ancestors(par, p)
  BY <1>1, AncestorsSelf
<1>3. Ancestors(par, n) \subseteq S
  <2>1. \A x \in S : par[x] # NoNode => par[x] \in S
    BY <1>1, <1>2, AncestorsStep
  <2>2. S \in SUBSET Node
    BY AncestorsType
  <2>3. n \in S
    OBVIOUS
  <2> HIDE DEF S
  <2> QED BY <2>1, <2>2, <2>3, AncestorsLeast
<1>4. Ancestors(par, p) \subseteq Ancestors(par, n)
  <2>1. p \in Ancestors(par, n)
    BY AncestorsSelf, AncestorsStep
  <2> QED BY <1>1, <2>1, AncestorsType, AncestorsStep, AncestorsLeast
<1> QED BY <1>3, <1>4, AncestorsSelf

\* A walk passes at most one root.
LEMMA OneRoot ==
  ASSUME NoNode \notin Node,
         NEW par \in ParentFunction, NEW n \in Node,
         NEW q \in Ancestors(par, n), NEW r \in Ancestors(par, n),
         par[q] = NoNode, par[r] = NoNode
  PROVE  q = r
<1> DEFINE S == {x \in Ancestors(par, n) : r \in Ancestors(par, x)}
<1>1. n \in S /\ S \in SUBSET Node
  BY AncestorsSelf, AncestorsType
<1>2. ASSUME NEW x \in S, par[x] # NoNode
      PROVE  par[x] \in S
  <2>1. x \in Node /\ par[x] \in Ancestors(par, n)
    BY <1>1, <1>2, AncestorsStep
  <2>2. Ancestors(par, x) = {x} \cup Ancestors(par, par[x])
    BY <2>1, <1>2, AncestorsUnfold
  <2> QED BY <2>1, <2>2, <1>2
<1>3. q \in S
  BY <1>1, <1>2, AncestorsLeast
<1>4. q \in Node
  BY AncestorsType
<1> QED BY <1>3, <1>4, AncestorsOfRoot

-----------------------------------------------------------------------------
(* Forests *)

\* In a forest, what holds of every root and passes from parent to child
\* holds of every node.
LEMMA ForestInduction ==
  ASSUME NoNode \notin Node,
         NEW par \in ParentFunction, Rooted(par), NEW G,
         \A m \in Node : par[m] = NoNode => m \in G,
         \A m \in Node : par[m] # NoNode /\ par[m] \in G => m \in G
  PROVE  Node \subseteq G
<1> SUFFICES ASSUME NEW n \in Node, n \notin G
             PROVE  FALSE
  OBVIOUS
<1> DEFINE S == Node \ G
<1>1. \A x \in S : par[x] # NoNode => par[x] \in S
  BY DEF ParentFunction
<1>2. Ancestors(par, n) \subseteq S
  BY <1>1, AncestorsLeast, S \in SUBSET Node
<1>3. PICK r \in Ancestors(par, n) : par[r] = NoNode
  BY DEF Rooted
<1> QED BY <1>2, <1>3

\* The root of a node is on its walk and has no parent.
LEMMA RootOfIsRoot ==
  ASSUME NEW par, Rooted(par), NEW n \in Node
  PROVE  RootOf(par, n) \in Ancestors(par, n) /\ par[RootOf(par, n)] = NoNode
BY DEF RootOf, Rooted

LEMMA RootOfType ==
  ASSUME NEW par, Rooted(par), NEW n \in Node
  PROVE  RootOf(par, n) \in Node
BY RootOfIsRoot, AncestorsType

\* The recursion of the root getter: a node without a parent is its own root.
LEMMA RootOfRoot ==
  ASSUME NEW par, Rooted(par), NEW n \in Node, par[n] = NoNode
  PROVE  RootOf(par, n) = n
BY RootOfIsRoot, AncestorsOfRoot

\* The recursion of the root getter: a node with a parent has its root.
LEMMA RootOfChild ==
  ASSUME NoNode \notin Node,
         NEW par \in ParentFunction, Rooted(par), NEW n \in Node, par[n] # NoNode
  PROVE  RootOf(par, n) = RootOf(par, par[n])
<1>1. par[n] \in Node
  BY DEF ParentFunction
<1>2. RootOf(par, n) \in Ancestors(par, n) /\ par[RootOf(par, n)] = NoNode
  BY RootOfIsRoot
<1>3. RootOf(par, par[n]) \in Ancestors(par, n) /\ par[RootOf(par, par[n])] = NoNode
  BY <1>1, RootOfIsRoot, AncestorsUnfold
<1> QED BY <1>2, <1>3, OneRoot

\* A node has the root of each of its ancestors.
LEMMA RootOfAncestor ==
  ASSUME NoNode \notin Node,
         NEW par \in ParentFunction, Rooted(par), NEW m \in Node, NEW n \in Ancestors(par, m)
  PROVE  RootOf(par, m) = RootOf(par, n)
<1>1. n \in Node
  BY AncestorsType
<1>2. Ancestors(par, n) \subseteq Ancestors(par, m)
  BY <1>1, AncestorsType, AncestorsStep, AncestorsLeast
<1>3. RootOf(par, n) \in Ancestors(par, m) /\ par[RootOf(par, n)] = NoNode
  BY <1>1, <1>2, RootOfIsRoot
<1>4. RootOf(par, m) \in Ancestors(par, m) /\ par[RootOf(par, m)] = NoNode
  BY RootOfIsRoot
<1> QED BY <1>3, <1>4, OneRoot

\* What the root getter computes.
IsRootGetter(par, F) ==
  \A m \in Node : F[m] = IF par[m] = NoNode THEN m ELSE F[par[m]]

\* A function that follows the recursion of the root getter is the root.
LEMMA RootGetter ==
  ASSUME NoNode \notin Node,
         NEW par \in ParentFunction, Rooted(par), NEW F, IsRootGetter(par, F)
  PROVE  \A m \in Node : RootOf(par, m) = F[m]
<1> DEFINE G == {m \in Node : RootOf(par, m) = F[m]}
<1>1. \A m \in Node : par[m] = NoNode => m \in G
  BY RootOfRoot DEF IsRootGetter
<1>2. ASSUME NEW m \in Node, par[m] # NoNode, par[m] \in G
      PROVE  m \in G
  BY <1>2, RootOfChild DEF IsRootGetter
<1>3. Node \subseteq G
  BY <1>1, <1>2, ForestInduction
<1> QED BY <1>3

\* Cutting links and hanging roots below m, and m below p, keeps a forest a
\* forest, provided p's own root is not one of those that move.
LEMMA Graft ==
  ASSUME NoNode \notin Node,
         NEW par \in ParentFunction, Rooted(par), NEW par2 \in ParentFunction,
         NEW M \in SUBSET Node, NEW m \in M, NEW p,
         \A x \in M : par[x] = NoNode,
         \A x \in Node \ M : par2[x] \in {par[x], NoNode},
         \A x \in M \ {m} : par2[x] \in {m, NoNode},
         par2[m] = NoNode \/ (par2[m] = p /\ p \in Node /\ RootOf(par, p) \notin M)
  PROVE  Rooted(par2)
<1> DEFINE Good == {x \in Node : \E r \in Ancestors(par2, x) : par2[r] = NoNode}
<1>1. \A x \in Node : par2[x] = NoNode => x \in Good
  BY AncestorsSelf
<1>2. \A x \in Node : par2[x] # NoNode /\ par2[x] \in Good => x \in Good
  BY AncestorsUnfold
<1> HIDE DEF Good
<1>3. m \in Good
  <2>1. CASE par2[m] = NoNode
    BY <2>1, <1>1
  <2>2. CASE par2[m] = p /\ p \in Node /\ RootOf(par, p) \notin M
    <3> DEFINE H == {x \in Node : RootOf(par, x) \in M \/ x \in Good}
    <3>1. ASSUME NEW x \in Node, par[x] = NoNode
          PROVE  x \in H
      BY <3>1, <1>1, RootOfRoot
    <3>2. ASSUME NEW x \in Node, par[x] # NoNode, par[x] \in H
          PROVE  x \in H
      <4>1. RootOf(par, x) = RootOf(par, par[x])
        BY <3>2, RootOfChild
      <4>2. par2[x] \in {par[x], NoNode}
        BY <3>2
      <4> QED BY <3>2, <4>1, <4>2, <1>1, <1>2
    <3>3. Node \subseteq H
      BY <3>1, <3>2, ForestInduction
    <3> QED BY <2>2, <3>3, <1>2
  <2> QED BY <2>1, <2>2
<1>4. \A x \in M : x \in Good
  BY <1>1, <1>2, <1>3
<1>5. Node \subseteq Good
  BY <1>1, <1>2, <1>4, ForestInduction
<1> QED BY <1>5 DEF Rooted, Good

-----------------------------------------------------------------------------
(* The invariant *)

\* Only live nodes are linked.
LiveLinks ==
  \A n \in Node : parent[n] # NoNode => Alive(n) /\ Alive(parent[n])

IInv ==
  /\ TypeOK
  /\ Rooted(parent)
  /\ LiveLinks
  /\ Unambiguous(life, parent)
  /\ \A h \in read : Alive(h)
  /\ WatchesWhatItResolves

-----------------------------------------------------------------------------
(* What cutting, hanging and killing do to the roots *)

\* par2 is par with the nodes M, all without a parent, hung below one of them,
\* r, and that one below p, in another tree, or left a root.
Hangs(par, par2, M, r, p) ==
  /\ M \subseteq Node /\ r \in M /\ \A x \in M : par[x] = NoNode
  /\ par2 \in ParentFunction /\ par2[r] = p
  /\ \A x \in M \ {r} : par2[x] = r
  /\ \A x \in Node \ M : par2[x] = par[x]
  /\ p # NoNode => p \in Node /\ RootOf(par, p) \notin M

\* The tree of each of them is then p's, and no other tree changes.
HungRoots(par, par2, M, r, p) ==
  \A m \in Node : RootOf(par2, m) =
    IF RootOf(par, m) \notin M THEN RootOf(par, m)
    ELSE IF p = NoNode THEN r ELSE RootOf(par, p)

LEMMA Hung ==
  ASSUME NoNode \notin Node, NEW par \in ParentFunction, Rooted(par),
         NEW par2, NEW M, NEW r, NEW p, Hangs(par, par2, M, r, p)
  PROVE  Rooted(par2) /\ HungRoots(par, par2, M, r, p)
<1> USE DEF Hangs
<1> DEFINE top == IF p = NoNode THEN r ELSE RootOf(par, p)
           F == [m \in Node |-> IF RootOf(par, m) \notin M THEN RootOf(par, m) ELSE top]
<1>1. Rooted(par2)
  <2>1. par2[r] = NoNode \/ (par2[r] = p /\ p \in Node /\ RootOf(par, p) \notin M)
    OBVIOUS
  <2> QED BY <2>1, Graft
<1>2. ASSUME NEW m \in Node, par2[m] = NoNode
      PROVE  F[m] = m
  <2>1. CASE m \in M
    <3>1. m = r /\ p = NoNode
      BY <1>2, <2>1
    <3> QED BY <3>1, RootOfRoot
  <2>2. CASE m \notin M
    BY <1>2, <2>2, RootOfRoot
  <2> QED BY <2>1, <2>2
<1>3. ASSUME NEW m \in Node, par2[m] # NoNode
      PROVE  F[m] = F[par2[m]]
  <2>1. CASE m \in M
    <3>1. RootOf(par, m) = m /\ F[m] = top
      BY <2>1, RootOfRoot
    <3>2. CASE m = r
      BY <1>3, <3>1, <3>2
    <3>3. CASE m # r
      <4>1. par2[m] = r /\ RootOf(par, r) = r
        BY <2>1, <3>3, RootOfRoot
      <4> QED BY <3>1, <4>1
    <3> QED BY <3>2, <3>3
  <2>2. CASE m \notin M
    <3>1. par2[m] = par[m] /\ par[m] \in Node
      BY <1>3, <2>2 DEF ParentFunction
    <3>2. RootOf(par, m) = RootOf(par, par[m])
      BY <1>3, <3>1, RootOfChild
    <3> QED BY <3>1, <3>2
  <2> QED BY <2>1, <2>2
<1>4. \A m \in Node : RootOf(par2, m) = F[m]
  <2>1. IsRootGetter(par2, F)
    BY <1>2, <1>3 DEF IsRootGetter
  <2> HIDE DEF F
  <2> QED BY <1>1, <2>1, RootGetter
<1> QED BY <1>1, <1>4 DEF F, HungRoots

\* Cutting a node from its parent makes it the root of what is below it.
LEMMA Severed ==
  ASSUME NoNode \notin Node, NEW par \in ParentFunction, Rooted(par),
         NEW n \in Node, NEW par2 \in ParentFunction,
         \A m \in Node : par2[m] = IF m = n THEN NoNode ELSE par[m]
  PROVE  /\ Rooted(par2)
         /\ \A m \in Node : RootOf(par2, m) =
              IF n \in Ancestors(par, m) THEN n ELSE RootOf(par, m)
<1> DEFINE q == RootOf(par, n)
           F == [m \in Node |-> IF n \in Ancestors(par, m) THEN n ELSE RootOf(par, m)]
<1>1. Rooted(par2)
  <2>1. q \in Node /\ par[q] = NoNode
    BY RootOfType, RootOfIsRoot
  <2> QED BY <2>1, Graft, {q} \in SUBSET Node
<1>2. ASSUME NEW m \in Node, par2[m] = NoNode
      PROVE  F[m] = m
  <2>1. CASE m = n
    BY <2>1, AncestorsSelf
  <2>2. CASE m # n
    BY <1>2, <2>2, AncestorsOfRoot, RootOfRoot
  <2> QED BY <2>1, <2>2
<1>3. ASSUME NEW m \in Node, par2[m] # NoNode
      PROVE  F[m] = F[par2[m]]
  <2>1. m # n /\ par2[m] = par[m] /\ par[m] \in Node
    BY <1>3 DEF ParentFunction
  <2>2. Ancestors(par, m) = {m} \cup Ancestors(par, par[m])
    BY <1>3, <2>1, AncestorsUnfold
  <2>3. RootOf(par, m) = RootOf(par, par[m])
    BY <1>3, <2>1, RootOfChild
  <2> QED BY <2>1, <2>2, <2>3
<1>4. \A m \in Node : RootOf(par2, m) = F[m]
  <2>1. IsRootGetter(par2, F)
    BY <1>2, <1>3 DEF IsRootGetter
  <2> HIDE DEF F
  <2> QED BY <1>1, <2>1, RootGetter
<1> QED BY <1>1, <1>4 DEF F

\* Cutting every link of a subtree moves nothing outside it.
LEMMA Scattered ==
  ASSUME NoNode \notin Node, NEW par \in ParentFunction, Rooted(par),
         NEW n \in Node, NEW par2 \in ParentFunction,
         \A m \in Node : par2[m] = IF n \in Ancestors(par, m) THEN NoNode ELSE par[m]
  PROVE  /\ Rooted(par2)
         /\ \A m \in Node : n \notin Ancestors(par, m) => RootOf(par2, m) = RootOf(par, m)
<1> DEFINE q == RootOf(par, n)
           F == [m \in Node |-> IF n \in Ancestors(par, m) THEN m ELSE RootOf(par, m)]
<1>1. Rooted(par2)
  <2>1. q \in Node /\ par[q] = NoNode
    BY RootOfType, RootOfIsRoot
  <2> QED BY <2>1, Graft, {q} \in SUBSET Node
<1>2. ASSUME NEW m \in Node, par2[m] = NoNode
      PROVE  F[m] = m
  BY <1>2, RootOfRoot
<1>3. ASSUME NEW m \in Node, par2[m] # NoNode
      PROVE  F[m] = F[par2[m]]
  <2>1. n \notin Ancestors(par, m) /\ par2[m] = par[m] /\ par[m] \in Node
    BY <1>3 DEF ParentFunction
  <2>2. Ancestors(par, m) = {m} \cup Ancestors(par, par[m])
    BY <1>3, <2>1, AncestorsUnfold
  <2>3. RootOf(par, m) = RootOf(par, par[m])
    BY <1>3, <2>1, RootOfChild
  <2> QED BY <2>1, <2>2, <2>3
<1>4. \A m \in Node : RootOf(par2, m) = F[m]
  <2>1. IsRootGetter(par2, F)
    BY <1>2, <1>3 DEF IsRootGetter
  <2> HIDE DEF F
  <2> QED BY <1>1, <2>1, RootGetter
<1> QED BY <1>1, <1>4 DEF F

-----------------------------------------------------------------------------
(* Resolving *)

\* t is what identifier i stands for from n.
Fits(lif, par, n, i, t) ==
  t \in Target /\ lif[t] = "alive" /\ IdOf[t] = i /\ RootOf(par, t) = RootOf(par, n)

LEMMA NodeKinds ==
  /\ NoNode \notin Node /\ NoNode \notin Target
  /\ Host \subseteq Node /\ Target \subseteq Node /\ Host \cap Target = {}
  /\ NoId \notin Id /\ \A t \in Target : IdOf[t] \in Id
BY SafeReferencesAssumption

\* What an identifier resolves to fits it.
LEMMA ResolvedFits ==
  ASSUME NEW lif, NEW par, NEW n, NEW i, Resolved(lif, par, n, i) # NoNode
  PROVE  Fits(lif, par, n, i, Resolved(lif, par, n, i))
BY DEF Resolved, Fits

\* Where no two targets of a tree share an identifier, it is all that fits.
LEMMA FitsIsResolved ==
  ASSUME NEW lif, NEW par, Unambiguous(lif, par), NEW n, NEW i, NEW t, Fits(lif, par, n, i, t)
  PROVE  Resolved(lif, par, n, i) = t
<1>1. Resolved(lif, par, n, i) # NoNode
  BY NodeKinds DEF Resolved, Fits
<1>2. Fits(lif, par, n, i, Resolved(lif, par, n, i))
  BY <1>1, ResolvedFits
<1> QED BY <1>2 DEF Fits, Unambiguous

\* Nothing fits where nothing resolves.
LEMMA NothingFits ==
  ASSUME NEW lif, NEW par, NEW n, NEW i, \A t \in Target : ~Fits(lif, par, n, i, t)
  PROVE  Resolved(lif, par, n, i) = NoNode
BY DEF Resolved, Fits

\* Undefined resolves to nothing.
LEMMA UndefinedResolves ==
  ASSUME NEW lif, NEW par, NEW n
  PROVE  Resolved(lif, par, n, NoId) = NoNode
BY NothingFits, NodeKinds DEF Fits
-----------------------------------------------------------------------------
(* What the invariant says *)

LEMMA Types ==
  ASSUME IInv
  PROVE  /\ parent \in ParentFunction /\ Rooted(parent)
         /\ life \in [Node -> {"absent", "alive", "dead"}]
         /\ read \subseteq Host
         /\ value \in [Host -> Id \cup {NoId}]
         /\ watch \in [Host -> Target \cup {NoNode}]
         /\ Unambiguous(life, parent)
BY DEF IInv, TypeOK, ParentFunction

\* The tree of a node that is not alive is that node.
LEMMA AloneUnlessAlive ==
  ASSUME IInv, NEW n \in Node, ~Alive(n)
  PROVE  /\ parent[n] = NoNode
         /\ \A m \in Node : RootOf(parent, m) = n => m = n
<1>1. parent[n] = NoNode
  BY DEF IInv, LiveLinks
<1>2. ASSUME NEW m \in Node, RootOf(parent, m) = n, m # n
      PROVE  FALSE
  <2> DEFINE S == {x \in Node : Alive(x)}
  <2>1. parent[m] # NoNode
    BY <1>2, Types, RootOfRoot
  <2>2. m \in S /\ \A x \in S : parent[x] # NoNode => parent[x] \in S
    BY <2>1, Types DEF IInv, LiveLinks, ParentFunction
  <2>3. Ancestors(parent, m) \subseteq S
    BY <2>2, AncestorsLeast, S \in SUBSET Node
  <2> QED BY <1>2, <2>3, Types, RootOfIsRoot
<1> QED BY <1>1, <1>2

\* A host hears of whatever its identifier stands for.
LEMMA Hears ==
  ASSUME IInv, NEW h \in read, NEW t, Fits(life, parent, h, value[h], t)
  PROVE  watch[h] = t
<1>1. Current(h) = t
  BY Types, FitsIsResolved DEF Current
<1>2. t # NoNode
  BY NodeKinds DEF Fits
<1> QED BY <1>1, <1>2 DEF IInv, WatchesWhatItResolves

\* What is to be shown after a step: every read host hears of what fits, and
\* hooks sit where they should.
HearsAll(lif, par, R, val, wat) ==
  /\ \A h \in R, t \in Target : Fits(lif, par, h, val[h], t) => wat[h] = t
  /\ \A h \in Host : wat[h] # NoNode =>
       h \in R /\ lif[h] = "alive" /\ lif[wat[h]] = "alive" /\ IdOf[wat[h]] = val[h]

LEMMA WatchesNext ==
  ASSUME HearsAll(life', parent', read', value', watch')
  PROVE  WatchesWhatItResolves'
<1>1. ASSUME NEW h \in read', Current(h)' # NoNode
      PROVE  watch'[h] = Current(h)'
  <2>1. Fits(life', parent', h, value'[h], Current(h)')
    BY <1>1, ResolvedFits DEF Current
  <2> QED BY <2>1 DEF HearsAll, Fits
<1> QED BY <1>1 DEF HearsAll, WatchesWhatItResolves, Alive

LEMMA HearsNow ==
  ASSUME IInv
  PROVE  HearsAll(life, parent, read, value, watch)
BY Hears DEF HearsAll, IInv, WatchesWhatItResolves, Alive

\* The parts of the invariant about the tree alone, after a step.
TreeNext ==
  /\ life' \in [Node -> {"absent", "alive", "dead"}]
  /\ parent' \in ParentFunction
  /\ Rooted(parent')
  /\ \A n \in Node : parent'[n] # NoNode =>
       life'[n] = "alive" /\ life'[parent'[n]] = "alive"
  /\ Unambiguous(life', parent')

LEMMA InvariantNext ==
  ASSUME TreeNext, read' \subseteq Host, \A h \in read' : Alive(h)',
         value' \in [Host -> Id \cup {NoId}], watch' \in [Host -> Target \cup {NoNode}],
         HearsAll(life', parent', read', value', watch')
  PROVE  IInv'
<1>1. WatchesWhatItResolves'
  BY WatchesNext
<1>2. LiveLinks'
  BY DEF TreeNext, LiveLinks, Alive
<1>3. TypeOK'
  BY DEF TreeNext, TypeOK, ParentFunction
<1>4. Rooted(parent)' /\ Unambiguous(life, parent)'
  BY DEF TreeNext
<1>5. (\A h \in read : Alive(h))'
  BY DEF Alive
<1> QED BY <1>1, <1>2, <1>3, <1>4, <1>5 DEF IInv

LEMMA TreeKept ==
  ASSUME IInv, UNCHANGED <<life, parent>>
  PROVE  TreeNext
<1>1. life' = life /\ parent' = parent
  OBVIOUS
<1>2. \A n \in Node : parent[n] # NoNode => Alive(n) /\ Alive(parent[n])
  BY DEF IInv, LiveLinks
<1> QED BY <1>1, <1>2, Types DEF TreeNext, Alive

-----------------------------------------------------------------------------
(* The steps that leave the tree alone *)

\* A reference that starts watching watches what fits.
LEMMA StartedHears ==
  ASSUME NEW lif, NEW par, Unambiguous(lif, par), NEW H \in SUBSET Host,
         NEW val \in [Host -> Id \cup {NoId}], Started(lif, par, H, val),
         NEW h \in H
  PROVE  /\ value'[h] \in Id \cup {NoId} /\ watch'[h] \in Target \cup {NoNode}
         /\ \A t \in Target : Fits(lif, par, h, value'[h], t) => watch'[h] = t
         /\ watch'[h] # NoNode => Fits(lif, par, h, value'[h], watch'[h])
<1> DEFINE hit == Resolved(lif, par, h, val[h])
<1>1. watch'[h] = hit /\ value'[h] = IF hit = NoNode THEN NoId ELSE val[h]
  BY DEF Started
<1>2. CASE hit = NoNode
  <2>1. \A t \in Target : ~Fits(lif, par, h, NoId, t)
    BY NodeKinds DEF Fits
  <2> QED BY <1>1, <1>2, <2>1
<1>3. CASE hit # NoNode
  <2>1. Fits(lif, par, h, val[h], hit)
    BY <1>3, ResolvedFits
  <2>2. \A t \in Target : Fits(lif, par, h, val[h], t) => hit = t
    BY FitsIsResolved
  <2>3. hit \in Target
    BY <2>1 DEF Fits
  <2> QED BY <1>1, <1>3, <2>1, <2>2, <2>3
<1> QED BY <1>2, <1>3

LEMMA ReadPreservesIInv ==
  ASSUME IInv, NEW h \in Host, Read(h)
  PROVE  IInv'
<1>1. /\ Alive(h) /\ h \notin read /\ read' = read \cup {h}
      /\ Started(life, parent, {h}, value) /\ life' = life /\ parent' = parent
  BY DEF Read
<1>2. \A k \in Host \ {h} : value'[k] = value[k] /\ watch'[k] = watch[k]
  BY <1>1 DEF Started
<1>3. /\ value'[h] \in Id \cup {NoId} /\ watch'[h] \in Target \cup {NoNode}
      /\ \A t \in Target : Fits(life, parent, h, value'[h], t) => watch'[h] = t
      /\ watch'[h] # NoNode => Fits(life, parent, h, value'[h], watch'[h])
  BY <1>1, Types, StartedHears, {h} \in SUBSET Host
<1>4. value' \in [Host -> Id \cup {NoId}] /\ watch' \in [Host -> Target \cup {NoNode}]
  <2>1. DOMAIN value' = Host /\ DOMAIN watch' = Host
    BY <1>1 DEF Started
  <2>2. value' = [k \in Host |-> value'[k]] /\ watch' = [k \in Host |-> watch'[k]]
    BY <1>1 DEF Started
  <2> QED BY <2>2, <1>2, <1>3, Types
<1>5. HearsAll(life', parent', read', value', watch')
  <2>1. \A k \in read', t \in Target :
          Fits(life, parent, k, value'[k], t) => watch'[k] = t
    BY <1>1, <1>2, <1>3, Types, HearsNow DEF HearsAll
  <2>2. ASSUME NEW k \in Host, watch'[k] # NoNode
        PROVE  /\ k \in read' /\ life[k] = "alive"
               /\ life[watch'[k]] = "alive" /\ IdOf[watch'[k]] = value'[k]
    <3>1. CASE k = h
      BY <2>2, <3>1, <1>1, <1>3 DEF Fits, Alive
    <3>2. CASE k # h
      BY <2>2, <3>2, <1>1, <1>2, HearsNow DEF HearsAll
    <3> QED BY <3>1, <3>2
  <2> QED BY <1>1, <2>1, <2>2 DEF HearsAll
<1>6. TreeNext
  BY <1>1, TreeKept
<1>7. read' \subseteq Host /\ \A k \in read' : Alive(k)'
  BY <1>1, Types DEF IInv, Alive
<1> QED BY <1>4, <1>5, <1>6, <1>7, InvariantNext

LEMMA AssignPreservesIInv ==
  ASSUME IInv, NEW h \in Host, NEW i \in Id, NEW same \in BOOLEAN,
         same => value[h] = i, Assign(h, i, same)
  PROVE  IInv'
<1> DEFINE hit == Resolved(life, parent, h, i)
<1>1. /\ Alive(h) /\ h \in read /\ read' = read /\ life' = life /\ parent' = parent
      /\ value' = [value EXCEPT ![h] = i]
      /\ watch' = IF same THEN watch ELSE [watch EXCEPT ![h] = hit]
  BY DEF Assign
<1>2. /\ \A t \in Target : Fits(life, parent, h, i, t) => hit = t
      /\ hit # NoNode => Fits(life, parent, h, i, hit)
      /\ hit \in Target \cup {NoNode}
  <2>1. \A t \in Target : Fits(life, parent, h, i, t) => hit = t
    BY Types, FitsIsResolved
  <2>2. hit # NoNode => Fits(life, parent, h, i, hit)
    BY ResolvedFits
  <2> QED BY <2>1, <2>2 DEF Fits
<1> HIDE DEF hit
<1>3. value' \in [Host -> Id \cup {NoId}] /\ watch' \in [Host -> Target \cup {NoNode}]
  BY <1>1, <1>2, Types
<1>4. HearsAll(life', parent', read', value', watch')
  <2>1. ASSUME NEW k \in read, NEW t \in Target, Fits(life, parent, k, value'[k], t)
        PROVE  watch'[k] = t
    <3>1. CASE k = h /\ ~same
      BY <2>1, <3>1, <1>1, <1>2, Types
    <3>2. CASE k # h \/ same
      <4>1. value'[k] = value[k] /\ watch'[k] = watch[k]
        BY <3>2, <1>1, Types
      <4> QED BY <2>1, <4>1, HearsNow DEF HearsAll
    <3> QED BY <3>1, <3>2
  <2>2. ASSUME NEW k \in Host, watch'[k] # NoNode
        PROVE  /\ k \in read /\ life[k] = "alive"
               /\ life[watch'[k]] = "alive" /\ IdOf[watch'[k]] = value'[k]
    <3>1. CASE k = h /\ ~same
      BY <2>2, <3>1, <1>1, <1>2, Types DEF Fits, Alive
    <3>2. CASE k # h \/ same
      <4>1. value'[k] = value[k] /\ watch'[k] = watch[k]
        BY <3>2, <1>1, Types
      <4> QED BY <2>2, <4>1, HearsNow DEF HearsAll
    <3> QED BY <3>1, <3>2
  <2> QED BY <1>1, <2>1, <2>2 DEF HearsAll
<1>5. TreeNext
  BY <1>1, TreeKept
<1>6. read' \subseteq Host /\ \A k \in read' : Alive(k)'
  BY <1>1, Types DEF IInv, Alive
<1> QED BY <1>3, <1>4, <1>5, <1>6, InvariantNext

LEMMA AssignIdPreservesIInv ==
  ASSUME IInv, NEW h \in Host, NEW i \in Id, AssignId(h, i)
  PROVE  IInv'
BY AssignPreservesIInv, (value[h] = i) \in BOOLEAN DEF AssignId

\* An instance the reference resolves to has the identifier it stores.
LEMMA AssignInstancePreservesIInv ==
  ASSUME IInv, NEW h \in Host, NEW t \in Target, AssignInstance(h, t)
  PROVE  IInv'
<1>1. Current(h) = t => value[h] = IdOf[t]
  BY ResolvedFits, NodeKinds DEF Current, Fits
<1> QED BY <1>1, NodeKinds, AssignPreservesIInv, (Current(h) = t) \in BOOLEAN DEF AssignInstance

\* removeRef on hosts, which leaves the others as they were.
LEMMA RemovedHears ==
  ASSUME IInv, NEW H, Removed(H)
  PROVE  /\ value' \in [Host -> Id \cup {NoId}] /\ watch' \in [Host -> Target \cup {NoNode}]
         /\ \A k \in Host : IF k \in H THEN value'[k] = NoId /\ watch'[k] = NoNode
                            ELSE value'[k] = value[k] /\ watch'[k] = watch[k]
BY Types DEF Removed

LEMMA UnsetPreservesIInv ==
  ASSUME IInv, NEW h \in Host, Unset(h)
  PROVE  IInv'
<1>1. h \in read /\ Removed({h}) /\ read' = read /\ life' = life /\ parent' = parent
  BY DEF Unset
<1>2. /\ value' \in [Host -> Id \cup {NoId}] /\ watch' \in [Host -> Target \cup {NoNode}]
      /\ \A k \in Host : IF k \in {h} THEN value'[k] = NoId /\ watch'[k] = NoNode
                         ELSE value'[k] = value[k] /\ watch'[k] = watch[k]
  BY <1>1, RemovedHears
<1>3. HearsAll(life', parent', read', value', watch')
  BY <1>1, <1>2, Types, HearsNow, NodeKinds DEF HearsAll, Fits
<1>4. TreeNext
  BY <1>1, TreeKept
<1>5. read' \subseteq Host /\ \A k \in read' : Alive(k)'
  BY <1>1, Types DEF IInv, Alive
<1> QED BY <1>2, <1>3, <1>4, <1>5, InvariantNext

-----------------------------------------------------------------------------
(* The steps that build and move nodes *)

\* The nodes M are built, below r, and r below p or as a root.
AreBorn(M, r, p) ==
  /\ M \subseteq Node /\ r \in M /\ \A x \in M : ~Alive(x)
  /\ p # NoNode => p \in Node /\ Alive(p)
  /\ life' = [x \in Node |-> IF x \in M THEN "alive" ELSE life[x]]
  /\ parent' = [x \in Node |-> IF x = r THEN p ELSE IF x \in M THEN r ELSE parent[x]]
  /\ Unambiguous(life', parent')

\* They join p's tree, or are a new one, and move nothing.
BornRoots(M, r, p) ==
  /\ \A m \in Node \ M : RootOf(parent', m) = RootOf(parent, m) /\ RootOf(parent, m) \notin M
  /\ \A m \in M : RootOf(parent', m) = IF p = NoNode THEN r ELSE RootOf(parent, p)

LEMMA Born ==
  ASSUME IInv, NEW M, NEW r, NEW p \in Node \cup {NoNode}, AreBorn(M, r, p)
  PROVE  TreeNext /\ BornRoots(M, r, p)
<1> USE DEF AreBorn
<1>1. \A x \in M : parent[x] = NoNode
  BY AloneUnlessAlive
<1>2. \A m \in Node : RootOf(parent, m) \in M => RootOf(parent, m) = m
  <2>1. \A m \in Node : RootOf(parent, m) \in Node
    BY Types, RootOfType
  <2> QED BY <2>1, AloneUnlessAlive
<1>3. parent' \in ParentFunction
  BY Types DEF ParentFunction
<1>4. p # NoNode => p \in Node /\ RootOf(parent, p) \notin M
  BY <1>2
<1>5. Hangs(parent, parent', M, r, p)
  BY <1>1, <1>3, <1>4 DEF Hangs
<1>6. Rooted(parent') /\ HungRoots(parent, parent', M, r, p)
  BY <1>5, Types, NodeKinds, Hung
<1>7. \A m \in M : RootOf(parent, m) = m
  BY <1>1, Types, RootOfRoot
<1>8. \A x \in Node : parent'[x] # NoNode =>
        life'[x] = "alive" /\ life'[parent'[x]] = "alive"
  <2>1. \A x \in Node : parent[x] # NoNode =>
          parent[x] \in Node /\ life[x] = "alive" /\ life[parent[x]] = "alive"
    BY Types DEF IInv, LiveLinks, Alive, ParentFunction
  <2> QED BY <2>1 DEF Alive
<1>9. life' \in [Node -> {"absent", "alive", "dead"}]
  BY Types
<1> QED BY <1>2, <1>3, <1>6, <1>7, <1>8, <1>9 DEF TreeNext, HungRoots, BornRoots

\* A step that makes no reference miss its target and tells no reference
\* anything.
LEMMA NobodyMisses ==
  ASSUME IInv, TreeNext, ~Missed(life', parent'), UNCHANGED <<read, value, watch>>,
         \A n \in Node : life[n] = "alive" => life'[n] = "alive"
  PROVE  IInv'
<1>1. \A k \in read : life'[k] = "alive"
  BY Types, NodeKinds DEF IInv, Alive
<1>2. ASSUME NEW k \in read, NEW t \in Target, Fits(life', parent', k, value[k], t)
      PROVE  watch[k] = t
  <2>1. Resolved(life', parent', k, value[k]) = t /\ t # NoNode
    BY <1>2, FitsIsResolved, NodeKinds DEF TreeNext
  <2> QED BY <1>1, <2>1 DEF Missed
<1>3. HearsAll(life', parent', read', value', watch')
  BY <1>1, <1>2, HearsNow, NodeKinds, Types DEF HearsAll
<1> QED BY <1>1, <1>3, Types, InvariantNext DEF Alive

LEMMA CreatePreservesIInv ==
  ASSUME IInv, Doomed = {}, NEW n \in Node, NEW p \in Node \cup {NoNode}, Create(n, p)
  PROVE  IInv'
<1>1. /\ ~Alive(n) /\ (p = NoNode \/ (p \in Node /\ Alive(p)))
      /\ ~Missed(life', parent') /\ UNCHANGED <<read, value, watch>>
      /\ Unambiguous(life', parent')
  BY DEF Create, CanHold, Alive
<1>2. /\ life' = [x \in Node |-> IF x \in {n} THEN "alive" ELSE life[x]]
      /\ parent' = [x \in Node |-> IF x = n THEN p ELSE IF x \in {n} THEN n ELSE parent[x]]
  BY Types DEF Create, ParentFunction
<1>3. TreeNext
  <2>1. AreBorn({n}, n, p)
    BY <1>1, <1>2 DEF AreBorn
  <2> QED BY <2>1, Born
<1> QED BY <1>1, <1>2, <1>3, NobodyMisses

LEMMA AttachPreservesIInv ==
  ASSUME IInv, Doomed = {}, NEW n \in Node, NEW p \in Node, Attach(n, p)
  PROVE  /\ IInv'
         /\ \A m \in Node : RootOf(parent', m) =
              IF RootOf(parent, m) = n THEN RootOf(parent, p) ELSE RootOf(parent, m)
<1>1. /\ Alive(n) /\ parent[n] = NoNode /\ Alive(p) /\ n \notin Ancestors(parent, p)
      /\ ~Missed(life, parent') /\ UNCHANGED <<life, read, value, watch>>
      /\ Unambiguous(life, parent') /\ parent' = [parent EXCEPT ![n] = p]
  BY DEF Attach, IsRoot, CanHold, Subtree
<1>2. parent' \in ParentFunction
  BY <1>1, Types DEF ParentFunction
<1>3. RootOf(parent, p) \notin {n}
  BY <1>1, Types, RootOfIsRoot
<1>4. /\ parent'[n] = p /\ \A x \in {n} \ {n} : parent'[x] = n
      /\ \A x \in Node \ {n} : parent'[x] = parent[x]
  BY <1>1, Types DEF ParentFunction
<1>5. Rooted(parent') /\ HungRoots(parent, parent', {n}, n, p)
  <2>1. Hangs(parent, parent', {n}, n, p)
    BY <1>1, <1>2, <1>3, <1>4 DEF Hangs
  <2> QED BY <2>1, Types, NodeKinds, Hung
<1>6. TreeNext
  <2>1. \A x \in Node : parent'[x] # NoNode =>
          life'[x] = "alive" /\ life'[parent'[x]] = "alive"
    BY <1>1, <1>4 DEF IInv, LiveLinks, Alive
  <2> QED BY <1>1, <1>2, <1>5, <2>1, Types DEF TreeNext
<1>7. IInv'
  BY <1>1, <1>6, NobodyMisses
<1> QED BY <1>5, <1>7, NodeKinds DEF HungRoots

LEMMA AddHostPreservesIInv ==
  ASSUME IInv, NEW h \in Host, NEW p \in Node, NEW i \in Id, AddHost(h, p, i)
  PROVE  IInv'
<1>1. /\ h \in Node /\ ~Alive(h) /\ Alive(p) /\ value' = [value EXCEPT ![h] = i]
      /\ read' = read /\ watch' = watch
  BY NodeKinds DEF AddHost, CanHold, Alive
<1>2. /\ life' = [x \in Node |-> IF x \in {h} THEN "alive" ELSE life[x]]
      /\ parent' = [x \in Node |-> IF x = h THEN p ELSE IF x \in {h} THEN h ELSE parent[x]]
  BY Types DEF AddHost, ParentFunction
<1>3. \A t \in Target : t # h
  BY NodeKinds
<1>4. Unambiguous(life', parent')
  <2>1. /\ parent[h] = NoNode /\ \A m \in Node : RootOf(parent, m) = h => m = h
    BY <1>1, AloneUnlessAlive
  <2>2. parent' \in ParentFunction
    BY <1>2, Types DEF ParentFunction
  <2>3. /\ parent'[h] = p /\ \A x \in {h} \ {h} : parent'[x] = h
        /\ \A x \in Node \ {h} : parent'[x] = parent[x]
        /\ RootOf(parent, p) \notin {h}
    BY <1>1, <1>2, <2>1
  <2>4. HungRoots(parent, parent', {h}, h, p)
    <3>1. Hangs(parent, parent', {h}, h, p)
      BY <1>1, <2>1, <2>2, <2>3 DEF Hangs
    <3> QED BY <3>1, Types, NodeKinds, Hung
  <2>5. \A t \in Target : RootOf(parent', t) = RootOf(parent, t) /\ life'[t] = life[t]
    BY <1>2, <1>3, <2>1, <2>4, NodeKinds DEF HungRoots
  <2>6. Unambiguous(life, parent)
    BY Types
  <2> QED BY <2>5, <2>6 DEF Unambiguous
<1>5. /\ TreeNext
      /\ \A m \in Node \ {h} : RootOf(parent', m) = RootOf(parent, m)
  <2>1. AreBorn({h}, h, p)
    BY <1>1, <1>2, <1>4 DEF AreBorn
  <2> QED BY <2>1, Born DEF BornRoots
<1>6. h \notin read
  BY <1>1 DEF IInv
<1>7. HearsAll(life', parent', read', value', watch')
  <2>1. \A k \in read : k # h /\ k \in Host /\ k \in Node /\ value'[k] = value[k]
    BY <1>1, <1>6, Types, NodeKinds
  <2>2. ASSUME NEW k \in read, NEW t \in Target, Fits(life', parent', k, value'[k], t)
        PROVE  watch[k] = t
    <3>1. Fits(life, parent, k, value[k], t)
      BY <1>2, <1>3, <1>5, <2>1, <2>2, NodeKinds DEF Fits
    <3> QED BY <3>1, HearsNow DEF HearsAll
  <2>3. \A k \in Host : watch[k] # NoNode =>
          k \in read /\ life'[k] = "alive" /\ life'[watch[k]] = "alive" /\ IdOf[watch[k]] = value'[k]
    BY <1>2, <2>1, HearsNow, Types, NodeKinds DEF HearsAll
  <2> QED BY <1>1, <2>2, <2>3 DEF HearsAll
<1>8. \A k \in read : life'[k] = "alive"
  BY <1>2, Types, NodeKinds DEF IInv, Alive
<1> QED BY <1>1, <1>5, <1>7, <1>8, Types, InvariantNext DEF Alive

\* What NewTree and the steps after it need: the tree is new, the other trees
\* are what they were.
LEMMA NewTreeRoots ==
  ASSUME IInv, NEW r \in Node, NEW h \in Host, NEW i \in Id, NEW T \in SUBSET Target,
         NewTree(r, h, i, T)
  PROVE  LET born == {r, h} \cup T IN
         /\ born \subseteq Node /\ \A x \in born : ~Alive(x)
         /\ TreeNext
         /\ \A m \in Node \ born :
              RootOf(parent', m) = RootOf(parent, m) /\ RootOf(parent, m) \notin born
         /\ \A m \in born : RootOf(parent', m) = r
         /\ \A m \in Node : life'[m] = IF m \in born THEN "alive" ELSE life[m]
<1> DEFINE born == {r, h} \cup T
<1>1. /\ born \subseteq Node /\ \A x \in born : ~Alive(x)
      /\ Unambiguous(life', parent')
  BY NodeKinds DEF NewTree, Alive
<1>2. parent[r] = NoNode
  BY <1>1, AloneUnlessAlive
<1>3. parent' = [x \in Node |-> IF x \in born \ {r} THEN r ELSE parent[x]]
  BY DEF NewTree
<1>4. /\ life' = [x \in Node |-> IF x \in born THEN "alive" ELSE life[x]]
      /\ parent' = [x \in Node |->
                      IF x = r THEN NoNode ELSE IF x \in born THEN r ELSE parent[x]]
  <2>1. life' = [x \in Node |-> IF x \in born THEN "alive" ELSE life[x]]
    BY DEF NewTree
  <2>2. parent' = [x \in Node |->
                      IF x = r THEN NoNode ELSE IF x \in born THEN r ELSE parent[x]]
    BY <1>2, <1>3
  <2> QED BY <2>1, <2>2
<1>5. r \in born
  OBVIOUS
<1> HIDE DEF born
<1>6. /\ TreeNext
      /\ \A m \in Node \ born :
           RootOf(parent', m) = RootOf(parent, m) /\ RootOf(parent, m) \notin born
      /\ \A m \in born : RootOf(parent', m) = r
  <2>1. AreBorn(born, r, NoNode)
    BY <1>1, <1>4, <1>5 DEF AreBorn
  <2> QED BY <2>1, Born DEF BornRoots
<1>7. \A m \in Node : life'[m] = IF m \in born THEN "alive" ELSE life[m]
  BY <1>4
<1> QED BY <1>1, <1>6, <1>7 DEF born

LEMMA NewTreePreservesIInv ==
  ASSUME IInv, NEW r \in Node, NEW h \in Host, NEW i \in Id, NEW T \in SUBSET Target,
         NewTree(r, h, i, T)
  PROVE  IInv'
<1> DEFINE born == {r, h} \cup T
           val == [value EXCEPT ![h] = i]
<1>1. /\ born \subseteq Node /\ \A x \in born : ~Alive(x)
      /\ TreeNext
      /\ \A m \in Node \ born :
           RootOf(parent', m) = RootOf(parent, m) /\ RootOf(parent, m) \notin born
      /\ \A m \in born : RootOf(parent', m) = r
      /\ \A m \in Node : life'[m] = IF m \in born THEN "alive" ELSE life[m]
  BY NewTreeRoots
<1>2. /\ r \in born /\ h \in born /\ (r \in Host => r = h)
      /\ read' = read \cup {h} /\ Started(life', parent', {h}, val)
  BY DEF NewTree
<1>3. /\ val \in [Host -> Id \cup {NoId}]
      /\ \A k \in Host \ {h} : val[k] = value[k]
  BY Types
<1>4. \A k \in Host : k \in born => k = h
  BY <1>2, NodeKinds
<1> HIDE DEF born, val
<1>5. \A k \in Host \ {h} : value'[k] = value[k] /\ watch'[k] = watch[k]
  BY <1>2, <1>3 DEF Started
<1>6. /\ value'[h] \in Id \cup {NoId} /\ watch'[h] \in Target \cup {NoNode}
      /\ \A t \in Target : Fits(life', parent', h, value'[h], t) => watch'[h] = t
      /\ watch'[h] # NoNode => Fits(life', parent', h, value'[h], watch'[h])
  BY <1>1, <1>2, <1>3, StartedHears, {h} \in SUBSET Host DEF TreeNext
<1>7. value' \in [Host -> Id \cup {NoId}] /\ watch' \in [Host -> Target \cup {NoNode}]
  <2>1. value' = [k \in Host |-> value'[k]] /\ watch' = [k \in Host |-> watch'[k]]
    BY <1>2 DEF Started
  <2> QED BY <2>1, <1>5, <1>6, Types
<1>8. \A k \in read : k \in Host /\ k \in Node /\ k # h /\ k \notin born
  BY <1>1, <1>2, <1>4, Types, NodeKinds DEF IInv
<1>9. HearsAll(life', parent', read', value', watch')
  <2>1. ASSUME NEW k \in read, NEW t \in Target, Fits(life', parent', k, value'[k], t)
        PROVE  watch'[k] = t
    <3>1. RootOf(parent', t) = RootOf(parent, k) /\ RootOf(parent, k) \notin born
      BY <1>1, <1>8, <2>1 DEF Fits
    <3>2. t \in Node /\ t \notin born
      BY <1>1, <1>2, <3>1, NodeKinds
    <3>3. Fits(life, parent, k, value[k], t)
      BY <1>1, <1>5, <1>8, <2>1, <3>1, <3>2 DEF Fits
    <3> QED BY <3>3, <1>5, <1>8, HearsNow DEF HearsAll
  <2>2. ASSUME NEW k \in Host, watch'[k] # NoNode
        PROVE  /\ k \in read' /\ life'[k] = "alive"
               /\ life'[watch'[k]] = "alive" /\ IdOf[watch'[k]] = value'[k]
    <3>1. CASE k = h
      BY <2>2, <3>1, <1>1, <1>2, <1>6 DEF Fits
    <3>2. CASE k # h
      <4>1. watch[k] # NoNode /\ watch[k] \in Node /\ k \in Node
        BY <2>2, <3>2, <1>5, Types, NodeKinds
      <4> QED BY <3>2, <4>1, <1>1, <1>2, <1>5, HearsNow DEF HearsAll
    <3> QED BY <3>1, <3>2
  <2> QED BY <1>2, <1>6, <2>1, <2>2 DEF HearsAll
<1>10. read' \subseteq Host /\ \A k \in read' : Alive(k)'
  <2>1. \A k \in read : life'[k] = "alive"
    BY <1>1, <1>8 DEF IInv, Alive
  <2> QED BY <1>1, <1>2, <2>1, Types DEF Alive
<1> QED BY <1>1, <1>7, <1>9, <1>10, InvariantNext

-----------------------------------------------------------------------------
(* The steps that take nodes away *)

\* What a detach does to the trees: n becomes a root, and two nodes share a
\* tree afterwards only if they did before, on the same side of the cut.
LEMMA DetachRoots ==
  ASSUME IInv, NEW n \in Node, Detach(n)
  PROVE  /\ TreeNext
         /\ \A m \in Node : RootOf(parent', m) =
              IF m \in Subtree(n) THEN n ELSE RootOf(parent, m)
         /\ \A m \in Node : RootOf(parent, m) # n
         /\ \A m \in Subtree(n) : RootOf(parent, m) = RootOf(parent, n)
<1>1. /\ Alive(n) /\ parent[n] # NoNode /\ life' = life
      /\ parent' = [parent EXCEPT ![n] = NoNode]
  BY DEF Detach
<1>2. parent' \in ParentFunction
  BY <1>1, Types DEF ParentFunction
<1>3. \A m \in Node : parent'[m] = IF m = n THEN NoNode ELSE parent[m]
  BY <1>1, Types DEF ParentFunction
<1>4. /\ Rooted(parent')
      /\ \A m \in Node : RootOf(parent', m) =
           IF n \in Ancestors(parent, m) THEN n ELSE RootOf(parent, m)
  BY <1>2, <1>3, Types, NodeKinds, Severed
<1>5. \A m \in Node : RootOf(parent, m) # n
  BY <1>1, Types, RootOfIsRoot
<1>6. \A m \in Node : n \in Ancestors(parent, m) => RootOf(parent, m) = RootOf(parent, n)
  BY Types, NodeKinds, RootOfAncestor
<1>7. Unambiguous(life', parent')
  <2> SUFFICES ASSUME NEW s \in Target, NEW t \in Target, s # t,
                      life[s] = "alive", life[t] = "alive", IdOf[s] = IdOf[t],
                      RootOf(parent', s) = RootOf(parent', t)
               PROVE  FALSE
    BY <1>1 DEF Unambiguous
  <2>1. RootOf(parent, s) = RootOf(parent, t)
    BY <1>4, <1>5, <1>6, NodeKinds
  <2> QED BY <2>1, Types DEF Unambiguous
<1>8. \A x \in Node : parent'[x] # NoNode =>
        life'[x] = "alive" /\ life'[parent'[x]] = "alive"
  BY <1>1, <1>3 DEF IInv, LiveLinks, Alive
<1>9. TreeNext
  BY <1>1, <1>2, <1>4, <1>7, <1>8, Types DEF TreeNext
<1> QED BY <1>4, <1>5, <1>6, <1>9 DEF Subtree

LEMMA DetachPreservesIInv ==
  ASSUME IInv, NEW n \in Node, Detach(n)
  PROVE  IInv'
<1> DEFINE H == Notified(Subtree(n) \cap Target, Subtree(n))
<1>1. /\ TreeNext
      /\ \A m \in Node : RootOf(parent', m) =
           IF m \in Subtree(n) THEN n ELSE RootOf(parent, m)
      /\ \A m \in Node : RootOf(parent, m) # n
      /\ \A m \in Subtree(n) : RootOf(parent, m) = RootOf(parent, n)
  BY DetachRoots
<1>2. Removed(H) /\ life' = life /\ read' = read
  BY DEF Detach
<1> HIDE DEF H
<1>3. /\ value' \in [Host -> Id \cup {NoId}] /\ watch' \in [Host -> Target \cup {NoNode}]
      /\ \A k \in Host : IF k \in H THEN value'[k] = NoId /\ watch'[k] = NoNode
                         ELSE value'[k] = value[k] /\ watch'[k] = watch[k]
  BY <1>2, RemovedHears
<1>4. HearsAll(life', parent', read', value', watch')
  <2>1. ASSUME NEW k \in read, NEW t \in Target, Fits(life', parent', k, value'[k], t)
        PROVE  watch'[k] = t
    <3>1. k \in Host /\ k \in Node /\ t \in Node
      BY Types, NodeKinds
    <3>2. value'[k] # NoId
      BY <2>1, NodeKinds DEF Fits
    <3>3. value'[k] = value[k] /\ watch'[k] = watch[k]
      BY <3>1, <3>2, <1>3
    <3>4. RootOf(parent, t) = RootOf(parent, k)
      BY <1>1, <2>1, <3>1 DEF Fits
    <3>5. Fits(life, parent, k, value[k], t)
      BY <1>2, <2>1, <3>3, <3>4 DEF Fits
    <3> QED BY <3>3, <3>5, HearsNow DEF HearsAll
  <2>2. \A k \in Host : watch'[k] # NoNode =>
          k \in read /\ life[k] = "alive" /\ life[watch'[k]] = "alive" /\ IdOf[watch'[k]] = value'[k]
    BY <1>3, HearsNow DEF HearsAll
  <2> QED BY <1>2, <2>1, <2>2 DEF HearsAll
<1>5. read' \subseteq Host /\ \A k \in read' : Alive(k)'
  BY <1>2, Types DEF IInv, Alive
<1> QED BY <1>1, <1>3, <1>4, <1>5, InvariantNext

\* What a death does to the trees: the subtree is gone, the rest stays put.
LEMMA DieRoots ==
  ASSUME IInv, NEW n \in Node, Die(n)
  PROVE  /\ TreeNext
         /\ \A m \in Node \ Subtree(n) : RootOf(parent', m) = RootOf(parent, m)
         /\ \A m \in Node : life'[m] = IF m \in Subtree(n) THEN "dead" ELSE life[m]
<1>1. /\ \A m \in Node : life'[m] = IF m \in Subtree(n) THEN "dead" ELSE life[m]
      /\ \A m \in Node : parent'[m] = IF m \in Subtree(n) THEN NoNode ELSE parent[m]
      /\ life' \in [Node -> {"absent", "alive", "dead"}]
      /\ parent' \in ParentFunction
  BY Types DEF Die, ParentFunction
<1>2. \A m \in Node : m \in Subtree(n) <=> n \in Ancestors(parent, m)
  BY DEF Subtree
<1>3. /\ Rooted(parent')
      /\ \A m \in Node : n \notin Ancestors(parent, m) => RootOf(parent', m) = RootOf(parent, m)
  BY <1>1, <1>2, Types, NodeKinds, Scattered
<1>4. Unambiguous(life', parent')
  <2>1. \A t \in Target : life'[t] = "alive" =>
          life[t] = "alive" /\ RootOf(parent', t) = RootOf(parent, t)
    BY <1>1, <1>2, <1>3, NodeKinds
  <2> QED BY <2>1, Types DEF Unambiguous
<1>5. ASSUME NEW x \in Node, parent'[x] # NoNode
      PROVE  life'[x] = "alive" /\ life'[parent'[x]] = "alive"
  <2>1. x \notin Subtree(n) /\ parent'[x] = parent[x] /\ parent[x] \in Node
    BY <1>1, <1>5, Types DEF ParentFunction
  <2>2. Ancestors(parent, x) = {x} \cup Ancestors(parent, parent[x])
    BY <1>5, <2>1, Types, NodeKinds, AncestorsUnfold
  <2>3. parent[x] \notin Subtree(n)
    BY <1>2, <2>1, <2>2
  <2> QED BY <1>1, <1>5, <2>1, <2>3 DEF IInv, LiveLinks, Alive
<1> QED BY <1>1, <1>2, <1>3, <1>4, <1>5 DEF TreeNext

LEMMA DiePreservesIInv ==
  ASSUME IInv, NEW n \in Node, Die(n)
  PROVE  IInv'
<1> DEFINE gone == Subtree(n)
           H == Notified(gone \cap Target, gone) \cup (gone \cap Host)
<1>1. /\ TreeNext
      /\ \A m \in Node \ gone : RootOf(parent', m) = RootOf(parent, m)
      /\ \A m \in Node : life'[m] = IF m \in gone THEN "dead" ELSE life[m]
  BY DieRoots
<1>2. Removed(H) /\ read' = read \ gone
  BY DEF Die
<1>3. \A k \in Host : k \in gone \/ watch[k] \in gone \cap Target => k \in H
  BY DEF Notified
<1> HIDE DEF H, gone
<1>4. /\ value' \in [Host -> Id \cup {NoId}] /\ watch' \in [Host -> Target \cup {NoNode}]
      /\ \A k \in Host : IF k \in H THEN value'[k] = NoId /\ watch'[k] = NoNode
                         ELSE value'[k] = value[k] /\ watch'[k] = watch[k]
  BY <1>2, RemovedHears
<1>5. HearsAll(life', parent', read', value', watch')
  <2>1. ASSUME NEW k \in read', NEW t \in Target, Fits(life', parent', k, value'[k], t)
        PROVE  watch'[k] = t
    <3>1. k \in read /\ k \in Host /\ k \in Node /\ t \in Node /\ k \notin gone
      BY <1>2, Types, NodeKinds
    <3>2. value'[k] # NoId
      BY <2>1, NodeKinds DEF Fits
    <3>3. value'[k] = value[k] /\ watch'[k] = watch[k]
      BY <3>1, <3>2, <1>4
    <3>4. t \notin gone /\ life[t] = "alive"
      BY <1>1, <2>1, <3>1 DEF Fits
    <3>5. Fits(life, parent, k, value[k], t)
      BY <1>1, <2>1, <3>1, <3>3, <3>4 DEF Fits
    <3> QED BY <3>1, <3>3, <3>5, HearsNow DEF HearsAll
  <2>2. ASSUME NEW k \in Host, watch'[k] # NoNode
        PROVE  /\ k \in read' /\ life'[k] = "alive"
               /\ life'[watch'[k]] = "alive" /\ IdOf[watch'[k]] = value'[k]
    <3>1. k \notin H /\ value'[k] = value[k] /\ watch'[k] = watch[k]
      BY <1>4, <2>2
    <3>2. k \in Node /\ watch[k] \in Target /\ watch[k] \in Node
      BY <2>2, <3>1, Types, NodeKinds
    <3>3. k \notin gone /\ watch[k] \notin gone
      BY <1>3, <3>1, <3>2
    <3> QED BY <1>1, <1>2, <2>2, <3>1, <3>2, <3>3, HearsNow DEF HearsAll
  <2> QED BY <2>1, <2>2 DEF HearsAll
<1>6. read' \subseteq Host /\ \A k \in read' : Alive(k)'
  BY <1>1, <1>2, Types, NodeKinds DEF IInv, Alive
<1> QED BY <1>1, <1>4, <1>5, <1>6, InvariantNext

-----------------------------------------------------------------------------
(* Theorems *)

LEMMA InitEstablishesIInv ==
  ASSUME Init
  PROVE  IInv
<1>1. TypeOK
  BY DEF Init, TypeOK
<1>2. Rooted(parent)
  BY AncestorsSelf DEF Init, Rooted
<1>3. \A n \in Node : ~Alive(n) /\ parent[n] = NoNode
  BY DEF Init, Alive
<1>4. Unambiguous(life, parent) /\ LiveLinks
  BY <1>3, NodeKinds DEF Unambiguous, LiveLinks, Alive
<1>5. WatchesWhatItResolves
  BY DEF Init, WatchesWhatItResolves
<1> QED BY <1>1, <1>2, <1>4, <1>5 DEF Init, IInv

LEMMA NextPreservesIInv ==
  ASSUME IInv, Doomed = {}, [Next]_vars
  PROVE  IInv'
<1>1. CASE UNCHANGED vars
  <2>1. UNCHANGED <<life, parent, read, value, watch>>
    BY <1>1 DEF vars
  <2>2. TreeNext
    BY <2>1, TreeKept
  <2>3. read' \subseteq Host /\ \A k \in read' : Alive(k)'
    BY <2>1, Types DEF IInv, Alive
  <2> QED BY <2>1, <2>2, <2>3, HearsNow, Types, InvariantNext
<1>2. CASE Next
  <2>1. CASE \E n \in Node : Detach(n) \/ Die(n)
    BY <2>1, DetachPreservesIInv, DiePreservesIInv
  <2>2. CASE \E n \in Node, p \in Node \cup {NoNode} : Create(n, p)
    BY <2>2, CreatePreservesIInv
  <2>3. CASE \E n, p \in Node : Attach(n, p)
    BY <2>3, AttachPreservesIInv
  <2>4. CASE \E h \in Host, p \in Node, i \in Id : AddHost(h, p, i)
    BY <2>4, AddHostPreservesIInv
  <2>5. CASE \E r \in Node, h \in Host, i \in Id, T \in SUBSET Target : NewTree(r, h, i, T)
    BY <2>5, NewTreePreservesIInv
  <2>6. CASE \E h \in Host : Read(h) \/ Unset(h)
    BY <2>6, ReadPreservesIInv, UnsetPreservesIInv
  <2>7. CASE \E h \in Host, i \in Id : AssignId(h, i)
    BY <2>7, AssignIdPreservesIInv
  <2>8. CASE \E h \in Host, t \in Target : AssignInstance(h, t)
    BY <2>8, AssignInstancePreservesIInv
  <2> QED BY <1>2, <2>1, <2>2, <2>3, <2>4, <2>5, <2>6, <2>7, <2>8 DEF Next
<1> QED BY <1>1, <1>2

\* The invariant behind the theorems below: the nodes form a forest of live
\* nodes in which no identifier stands for two targets.
THEOREM Invariant ==
  ASSUME Doomed = {}
  PROVE  Spec => []IInv
<1>1. Init => IInv
  BY InitEstablishesIInv
<1>2. IInv /\ [Next]_vars => IInv'
  BY NextPreservesIInv
<1> QED BY <1>1, <1>2, PTL DEF Spec

\* A safe reference that resolves has its hooks on the node it resolves to, and
\* hooks sit only on living targets with the stored identifier (startWatching).
THEOREM AlwaysWatchesWhatItResolves ==
  ASSUME Doomed = {}
  PROVE  Spec => []WatchesWhatItResolves
<1>1. IInv => WatchesWhatItResolves
  BY DEF IInv
<1> QED BY <1>1, Invariant, PTL

-----------------------------------------------------------------------------
(* What steps other than a detach or a death do to the living *)

\* Live nodes stay alive, and those that share a tree still do.
Together ==
  \A m, q \in Node : Alive(m) /\ Alive(q) /\ RootOf(parent, m) = RootOf(parent, q)
    => life'[m] = "alive" /\ RootOf(parent', m) = RootOf(parent', q)

\* No live host forgets what it stores.
NoneCleared == \A h \in Host : Alive(h) => value'[h] = value[h]

LEMMA CreateKeeps ==
  ASSUME IInv, NEW n \in Node, NEW p \in Node \cup {NoNode}, Create(n, p)
  PROVE  Together /\ NoneCleared
<1>1. /\ ~Alive(n) /\ (p = NoNode \/ (p \in Node /\ Alive(p))) /\ UNCHANGED value
      /\ Unambiguous(life', parent')
  BY DEF Create, CanHold, Alive
<1>2. /\ life' = [x \in Node |-> IF x \in {n} THEN "alive" ELSE life[x]]
      /\ parent' = [x \in Node |-> IF x = n THEN p ELSE IF x \in {n} THEN n ELSE parent[x]]
  BY Types DEF Create, ParentFunction
<1>3. \A m \in Node \ {n} : RootOf(parent', m) = RootOf(parent, m)
  <2>1. AreBorn({n}, n, p)
    BY <1>1, <1>2 DEF AreBorn
  <2> QED BY <2>1, Born DEF BornRoots
<1> QED BY <1>1, <1>2, <1>3 DEF Together, NoneCleared, Alive

LEMMA AddHostKeeps ==
  ASSUME IInv, NEW h \in Host, NEW p \in Node, NEW i \in Id, AddHost(h, p, i)
  PROVE  Together /\ NoneCleared
<1>1. /\ h \in Node /\ ~Alive(h) /\ Alive(p) /\ value' = [value EXCEPT ![h] = i]
  BY NodeKinds DEF AddHost, CanHold, Alive
<1>2. /\ life' = [x \in Node |-> IF x \in {h} THEN "alive" ELSE life[x]]
      /\ parent' = [x \in Node |-> IF x = h THEN p ELSE IF x \in {h} THEN h ELSE parent[x]]
  BY Types DEF AddHost, ParentFunction
<1>3. Unambiguous(life', parent')
  BY AddHostPreservesIInv DEF IInv
<1>4. \A m \in Node \ {h} : RootOf(parent', m) = RootOf(parent, m)
  <2>1. AreBorn({h}, h, p)
    BY <1>1, <1>2, <1>3 DEF AreBorn
  <2> QED BY <2>1, Born DEF BornRoots
<1> QED BY <1>1, <1>2, <1>4, Types DEF Together, NoneCleared, Alive

LEMMA NewTreeKeeps ==
  ASSUME IInv, NEW r \in Node, NEW h \in Host, NEW i \in Id, NEW T \in SUBSET Target,
         NewTree(r, h, i, T)
  PROVE  Together /\ NoneCleared
<1> DEFINE born == {r, h} \cup T
<1>1. /\ \A x \in born : ~Alive(x)
      /\ \A m \in Node \ born : RootOf(parent', m) = RootOf(parent, m)
      /\ \A m \in Node : life'[m] = IF m \in born THEN "alive" ELSE life[m]
  BY NewTreeRoots
<1>2. h \in born /\ Started(life', parent', {h}, [value EXCEPT ![h] = i])
  BY DEF NewTree
<1> HIDE DEF born
<1>3. Together
  BY <1>1 DEF Together, Alive
<1>4. \A k \in Host : k # h => value'[k] = value[k]
  BY <1>2, Types DEF Started
<1> QED BY <1>1, <1>2, <1>3, <1>4 DEF NoneCleared

LEMMA AttachKeeps ==
  ASSUME IInv, Doomed = {}, NEW n \in Node, NEW p \in Node, Attach(n, p)
  PROVE  Together /\ NoneCleared
<1>1. life' = life /\ value' = value
  BY DEF Attach
<1>2. Together
  BY <1>1, AttachPreservesIInv DEF Together, Alive
<1> QED BY <1>1, <1>2 DEF NoneCleared

LEMMA OtherwiseTogether ==
  ASSUME IInv, UNCHANGED <<life, parent>>
  PROVE  Together
BY DEF Together, Alive

\* A step takes nodes away, or moves none of them and clears nothing, or leaves
\* the tree alone.
LEMMA StepKinds ==
  ASSUME IInv, Doomed = {}, [Next]_vars
  PROVE  \/ \E n \in Node : Detach(n) \/ Die(n)
         \/ Together /\ NoneCleared
         \/ Together /\ UNCHANGED <<life, parent>>
<1>1. CASE UNCHANGED vars
  BY <1>1, OtherwiseTogether DEF vars
<1>2. CASE \E n \in Node, p \in Node \cup {NoNode} : Create(n, p)
  BY <1>2, CreateKeeps
<1>3. CASE \E n, p \in Node : Attach(n, p)
  BY <1>3, AttachKeeps
<1>4. CASE \E h \in Host, p \in Node, i \in Id : AddHost(h, p, i)
  BY <1>4, AddHostKeeps
<1>5. CASE \E r \in Node, h \in Host, i \in Id, T \in SUBSET Target : NewTree(r, h, i, T)
  BY <1>5, NewTreeKeeps
<1>6. CASE \E h \in Host : Read(h) \/ Unset(h)
  BY <1>6, OtherwiseTogether DEF Read, Unset
<1>7. CASE \E h \in Host, i \in Id : AssignId(h, i)
  BY <1>7, OtherwiseTogether DEF AssignId, Assign
<1>8. CASE \E h \in Host, t \in Target : AssignInstance(h, t)
  BY <1>8, OtherwiseTogether DEF AssignInstance, Assign
<1> QED BY <1>1, <1>2, <1>3, <1>4, <1>5, <1>6, <1>7, <1>8 DEF Next

-----------------------------------------------------------------------------
(* Cleared with the target, and for no other reason *)

\* What ClearedWithTarget asks of a step.
ClearedWith(h, t) ==
  (/\ Current(h) = t /\ Alive(h)'
   /\ RootOf(parent', h) = RootOf(parent, h)
   /\ ~Alive(t)' \/ RootOf(parent', t) # RootOf(parent', h))
  => value'[h] = NoId

\* What ClearedOnlyWithTarget asks of a step.
ClearedOnlyWith(h) ==
  (/\ <<life, parent>> # <<life, parent>>'
   /\ Alive(h) /\ Alive(h)' /\ value[h] # NoId /\ value'[h] = NoId)
  => Resolved(life', parent', h, value[h]) = NoNode

\* The hosts told by a detach or a death are exactly those that stay and
\* watch a target that leaves.
LEMMA DetachTells ==
  ASSUME IInv, NEW n \in Node, Detach(n), NEW h \in Host
  PROVE  /\ h \notin Subtree(n) /\ watch[h] \in Subtree(n) /\ watch[h] # NoNode => value'[h] = NoId
         /\ value'[h] # value[h] => h \notin Subtree(n) /\ watch[h] \in Subtree(n) \cap Target
BY Types DEF Detach, Removed, Notified

LEMMA DieTells ==
  ASSUME IInv, NEW n \in Node, Die(n), NEW h \in Host \ Subtree(n)
  PROVE  /\ watch[h] \in Subtree(n) /\ watch[h] # NoNode => value'[h] = NoId
         /\ value'[h] # value[h] => watch[h] \in Subtree(n) \cap Target
BY Types DEF Die, Removed, Notified

LEMMA TakingClears ==
  ASSUME IInv, NEW n \in Node, Detach(n) \/ Die(n), NEW h \in read, NEW t \in Target
  PROVE  ClearedWith(h, t)
<1> SUFFICES ASSUME Current(h) = t, life'[h] = "alive",
                    RootOf(parent', h) = RootOf(parent, h),
                    life'[t] # "alive" \/ RootOf(parent', t) # RootOf(parent', h)
             PROVE  value'[h] = NoId
  BY DEF ClearedWith, Alive
<1>1. Fits(life, parent, h, value[h], t) /\ t # NoNode
  BY ResolvedFits, NodeKinds DEF Current
<1>2. watch[h] = t /\ h \in Host /\ h \in Node /\ t \in Node
  BY <1>1, Hears, Types, NodeKinds
<1>3. CASE Detach(n)
  <2>1. h \notin Subtree(n)
    BY <1>2, <1>3, DetachRoots
  <2>2. life' = life
    BY <1>3 DEF Detach
  <2>3. t \in Subtree(n)
    BY <1>1, <1>2, <1>3, <2>1, <2>2, DetachRoots DEF Fits
  <2> QED BY <1>1, <1>2, <1>3, <2>1, <2>3, DetachTells
<1>4. CASE Die(n)
  <2>1. h \notin Subtree(n)
    BY <1>2, <1>4, DieRoots
  <2>2. t \in Subtree(n)
    BY <1>1, <1>2, <1>4, <2>1, DieRoots DEF Fits
  <2> QED BY <1>1, <1>2, <1>4, <2>1, <2>2, DieTells
<1> QED BY <1>3, <1>4

LEMMA TakingClearsOnly ==
  ASSUME IInv, NEW n \in Node, Detach(n) \/ Die(n), NEW h \in Host
  PROVE  ClearedOnlyWith(h)
<1> SUFFICES ASSUME life[h] = "alive", life'[h] = "alive", value'[h] # value[h],
                    NEW t \in Target, Fits(life', parent', h, value[h], t)
             PROVE  FALSE
  BY NothingFits DEF ClearedOnlyWith, Alive
<1>1. h \in Node /\ t \in Node /\ t # NoNode
  BY NodeKinds
<1>2. h \notin Subtree(n) /\ watch[h] \in Subtree(n) \cap Target
  <2>1. CASE Detach(n)
    BY <2>1, DetachTells
  <2>2. CASE Die(n)
    <3>1. h \notin Subtree(n)
      BY <1>1, <2>2, DieRoots
    <3> QED BY <2>2, <3>1, DieTells
  <2> QED BY <2>1, <2>2
<1>3. Fits(life, parent, h, value[h], t) /\ t \notin Subtree(n)
  <2>1. CASE Detach(n)
    <3>1. life' = life
      BY <2>1 DEF Detach
    <3> QED BY <1>1, <1>2, <2>1, <3>1, DetachRoots DEF Fits
  <2>2. CASE Die(n)
    BY <1>1, <1>2, <2>2, DieRoots DEF Fits
  <2> QED BY <2>1, <2>2
<1>4. h \in read
  BY <1>2, NodeKinds DEF IInv, WatchesWhatItResolves
<1>5. watch[h] = t
  BY <1>3, <1>4, Hears
<1> QED BY <1>2, <1>3, <1>5

\* A reference becomes undefined in the step in which its target dies or leaves
\* the host's tree while the host stays (hookHandler).
THEOREM AlwaysClearedWithTarget ==
  ASSUME Doomed = {}
  PROVE  Spec => ClearedWithTarget
<1>1. ASSUME IInv, [Next]_vars, NEW h \in read, NEW t \in Target
      PROVE  ClearedWith(h, t)
  <2>1. CASE \E n \in Node : Detach(n) \/ Die(n)
    BY <1>1, <2>1, TakingClears
  <2>2. CASE Together
    <3>1. Current(h) = t => Fits(life, parent, h, value[h], t)
      BY ResolvedFits, NodeKinds DEF Current
    <3>2. h \in Node /\ t \in Node /\ Alive(h)
      BY <1>1, Types, NodeKinds DEF IInv
    <3> QED BY <2>2, <3>1, <3>2 DEF ClearedWith, Together, Fits, Alive
  <2> QED BY <1>1, <2>1, <2>2, StepKinds
<1>2. IInv /\ [Next]_vars => [\A h \in read, t \in Target : ClearedWith(h, t)]_vars
  BY <1>1
<1> QED BY <1>2, Invariant, PTL DEF Spec, ClearedWithTarget, ClearedWith

\* A death, a detach or an attach clears a reference only if its identifier
\* resolves to nothing in the tree the host is left in (fireInvalidated).
THEOREM AlwaysClearedOnlyWithTarget ==
  ASSUME Doomed = {}
  PROVE  Spec => ClearedOnlyWithTarget
<1>1. ASSUME IInv, [Next]_vars, NEW h \in Host
      PROVE  ClearedOnlyWith(h)
  <2>1. CASE \E n \in Node : Detach(n) \/ Die(n)
    BY <1>1, <2>1, TakingClearsOnly
  <2>2. CASE NoneCleared
    BY <2>2 DEF ClearedOnlyWith, NoneCleared
  <2>3. CASE UNCHANGED <<life, parent>>
    BY <2>3 DEF ClearedOnlyWith
  <2> QED BY <1>1, <2>1, <2>2, <2>3, StepKinds
<1>2. IInv /\ [Next]_vars => [\A h \in Host : ClearedOnlyWith(h)]_vars
  BY <1>1
<1> QED BY <1>2, Invariant, PTL DEF Spec, ClearedOnlyWithTarget, ClearedOnlyWith
=============================================================================
