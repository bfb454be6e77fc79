------------------------- MODULE ObjectNodesProofs -------------------------
(***************************************************************************)
(* That hooks and disposers run in order in one tree of object nodes, and  *)
(* that snapshots are current there, for any set of nodes and any shape,   *)
(* as long as user code makes no call that is known to go wrong            *)
(* (Doomed = {}).                                                          *)
(*                                                                         *)
(* Every action is first reduced to its effect on the agenda, seen as a    *)
(* stack, and on the nodes; the parts of the inductive invariant, which    *)
(* ObjectNodesInvariant defines, are then preserved one by one.            *)
(***************************************************************************)
EXTENDS ObjectNodesInvariant, FiniteSetTheorems, SequenceTheorems, TLAPS

-----------------------------------------------------------------------------
(* Walks up *)

\* A walk starts at its own node.
LEMMA AncestorsSelf ==
  ASSUME NEW par, NEW n \in Node
  PROVE  n \in Ancestors(par, n)
BY DEF Ancestors

\* A walk stays among the nodes.
LEMMA AncestorsType ==
  ASSUME NEW par, NEW n
  PROVE  Ancestors(par, n) \subseteq Node
BY DEF Ancestors

\* A walk goes on to the parent of every node it passes.
LEMMA AncestorsStep ==
  ASSUME NEW par \in ParentFunction, NEW n \in Node,
         NEW x \in Ancestors(par, n), par[x] # NoNode
  PROVE  par[x] \in Ancestors(par, n)
<1>1. x \in Node /\ par[x] \in Node
  BY DEF Ancestors, ParentFunction
<1> QED BY <1>1 DEF Ancestors

\* A walk passes no more than any closed set that holds its start.
LEMMA AncestorsLeast ==
  ASSUME NEW par, NEW n \in Node, NEW S \in SUBSET Node, n \in S,
         \A x \in S : par[x] # NoNode => par[x] \in S
  PROVE  Ancestors(par, n) \subseteq S
BY DEF Ancestors

\* The walk from a root ends at once.
LEMMA AncestorsOfRoot ==
  ASSUME NEW par, NEW n \in Node, par[n] = NoNode
  PROVE  Ancestors(par, n) = {n}
<1>1. Ancestors(par, n) \subseteq {n}
  BY AncestorsLeast, {n} \in SUBSET Node
<1> QED BY <1>1, AncestorsSelf

\* The walk from a node continues with the walk from its parent.
LEMMA AncestorsUnfold ==
  ASSUME NoNode \notin Node,
         NEW par \in ParentFunction, NEW n \in Node, par[n] # NoNode
  PROVE  Ancestors(par, n) = {n} \cup Ancestors(par, par[n])
<1> DEFINE p == par[n]
           S == {n} \cup Ancestors(par, p)
<1>1. p \in Node
  BY DEF ParentFunction
<1>2. p \in Ancestors(par, p)
  BY <1>1, AncestorsSelf
<1>3. Ancestors(par, n) \subseteq S
  <2>1. \A x \in S : par[x] # NoNode => par[x] \in S
    BY <1>1, <1>2, AncestorsStep
  <2>2. S \in SUBSET Node
    BY AncestorsType
  <2>3. n \in S
    OBVIOUS
  <2> HIDE DEF S
  <2> QED BY <2>1, <2>2, <2>3, AncestorsLeast
<1>4. Ancestors(par, p) \subseteq Ancestors(par, n)
  <2>1. p \in Ancestors(par, n)
    BY AncestorsSelf, AncestorsStep
  <2> QED BY <1>1, <2>1, AncestorsType, AncestorsStep, AncestorsLeast
<1> QED BY <1>3, <1>4, AncestorsSelf

-----------------------------------------------------------------------------
(* Forests *)

\* In a forest, what holds of every root and passes from parent to child
\* holds of every node.
LEMMA ForestInduction ==
  ASSUME NoNode \notin Node,
         NEW par \in ParentFunction, Rooted(par), NEW G,
         \A m \in Node : par[m] = NoNode => m \in G,
         \A m \in Node : par[m] # NoNode /\ par[m] \in G => m \in G
  PROVE  Node \subseteq G
<1> SUFFICES ASSUME NEW n \in Node, n \notin G
             PROVE  FALSE
  OBVIOUS
<1> DEFINE S == Node \ G
<1>1. \A x \in S : par[x] # NoNode => par[x] \in S
  BY DEF ParentFunction
<1>2. Ancestors(par, n) \subseteq S
  BY <1>1, AncestorsLeast, S \in SUBSET Node
<1>3. PICK r \in Ancestors(par, n) : par[r] = NoNode
  BY DEF Rooted
<1> QED BY <1>2, <1>3

\* The nodes of a walk lie on one line.
LEMMA AncestorsLinear ==
  ASSUME NoNode \notin Node,
         NEW par \in ParentFunction, NEW n \in Node,
         NEW x \in Ancestors(par, n), NEW y \in Ancestors(par, n)
  PROVE  x \in Ancestors(par, y) \/ y \in Ancestors(par, x)
<1> DEFINE S == {z \in Ancestors(par, n) : x \in Ancestors(par, z) \/ z \in Ancestors(par, x)}
<1>0. x \in Node /\ y \in Node /\ S \in SUBSET Node
  BY AncestorsType
<1>1. n \in S
  BY AncestorsSelf
<1>2. ASSUME NEW z \in S, par[z] # NoNode
      PROVE  par[z] \in S
  <2>0. z \in Node /\ par[z] \in Ancestors(par, n) /\ par[z] \in Node
    BY <1>2, AncestorsType, AncestorsStep DEF ParentFunction
  <2>1. CASE x \in Ancestors(par, z)
    <3>1. x = z \/ x \in Ancestors(par, par[z])
      BY <1>2, <2>0, <2>1, AncestorsUnfold
    <3>2. ASSUME x = z PROVE par[z] \in Ancestors(par, x)
      BY <1>2, <2>0, <3>2, AncestorsSelf, AncestorsStep
    <3> QED BY <2>0, <3>1, <3>2
  <2>2. CASE z \in Ancestors(par, x)
    BY <1>0, <1>2, <2>0, <2>2, AncestorsStep
  <2> QED BY <1>2, <2>1, <2>2
<1>3. Ancestors(par, n) \subseteq S
  <2> HIDE DEF S
  <2> QED BY <1>0, <1>1, <1>2, AncestorsLeast
<1> QED BY <1>3

\* In a forest no node is above its parent.
LEMMA AncestorsAcyclic ==
  ASSUME NoNode \notin Node,
         NEW par \in ParentFunction, Rooted(par), NEW n \in Node, par[n] # NoNode
  PROVE  n \notin Ancestors(par, par[n])
<1> DEFINE G == {m \in Node : par[m] # NoNode => m \notin Ancestors(par, par[m])}
<1>1. \A m \in Node : par[m] = NoNode => m \in G
  OBVIOUS
<1>2. ASSUME NEW m \in Node, par[m] # NoNode, par[m] \in G, m \notin G
      PROVE  FALSE
  <2> DEFINE p == par[m]
  <2>0. p \in Node /\ m \in Ancestors(par, p)
    BY <1>2 DEF ParentFunction
  <2>1. CASE p = m
    BY <1>2, <2>1
  <2>2. CASE p # m
    <3>1. par[p] # NoNode
      BY <2>0, <2>2, AncestorsOfRoot
    <3>2. m \in Ancestors(par, par[p])
      BY <2>0, <2>2, <3>1, AncestorsUnfold
    <3>3. par[p] \in Node
      BY <2>0, <3>1 DEF ParentFunction
    <3>4. p \in Ancestors(par, par[p])
      BY <1>2, <3>2, <3>3, AncestorsStep
    <3> QED BY <1>2, <2>0, <3>1, <3>4
  <2> QED BY <2>1, <2>2
<1>3. Node \subseteq G
  <2> HIDE DEF G
  <2> QED BY <1>1, <1>2, ForestInduction
<1> QED BY <1>3

\* What a walk passes leads on to what the walk from there passes.
LEMMA AncestorsTransitive ==
  ASSUME NEW par \in ParentFunction, NEW n \in Node, NEW m \in Ancestors(par, n)
  PROVE  Ancestors(par, m) \subseteq Ancestors(par, n)
<1>1. m \in Node
  BY AncestorsType
<1> QED BY <1>1, AncestorsType, AncestorsStep, AncestorsLeast

\* Two nodes of a forest that are above each other are the same.
LEMMA AncestorsAntisymmetric ==
  ASSUME NoNode \notin Node,
         NEW par \in ParentFunction, Rooted(par), NEW n \in Node,
         NEW m \in Ancestors(par, n), n \in Ancestors(par, m)
  PROVE  m = n
<1> SUFFICES ASSUME m # n PROVE FALSE
  OBVIOUS
<1>1. m \in Node /\ par[n] # NoNode
  BY AncestorsType, AncestorsOfRoot
<1>2. m \in Ancestors(par, par[n]) /\ par[n] \in Node
  BY <1>1, AncestorsUnfold DEF ParentFunction
<1>3. n \in Ancestors(par, par[n])
  BY <1>2, AncestorsTransitive
<1> QED BY <1>1, <1>3, AncestorsAcyclic

\* A walk that takes fewer links passes fewer nodes.
LEMMA FewerLinks ==
  ASSUME NEW par \in ParentFunction, NEW par2 \in ParentFunction,
         \A m \in Node : par2[m] \in {par[m], NoNode}, NEW n \in Node
  PROVE  Ancestors(par2, n) \subseteq Ancestors(par, n)
<1>1. \A x \in Ancestors(par, n) : par2[x] # NoNode => par2[x] \in Ancestors(par, n)
  BY AncestorsStep, AncestorsType
<1> QED BY <1>1, AncestorsType, AncestorsSelf, AncestorsLeast

\* A walk is the same as long as the links on it are.
LEMMA SameLinks ==
  ASSUME NEW par \in ParentFunction, NEW par2 \in ParentFunction, NEW n \in Node,
         \A m \in Ancestors(par, n) : par2[m] = par[m]
  PROVE  Ancestors(par2, n) = Ancestors(par, n)
<1>1. Ancestors(par2, n) \subseteq Ancestors(par, n)
  <2>1. \A x \in Ancestors(par, n) : par2[x] # NoNode => par2[x] \in Ancestors(par, n)
    BY AncestorsStep
  <2> QED BY <2>1, AncestorsType, AncestorsSelf, AncestorsLeast
<1>2. Ancestors(par, n) \subseteq Ancestors(par2, n)
  <2>1. \A x \in Ancestors(par2, n) : par[x] # NoNode => par[x] \in Ancestors(par2, n)
    BY <1>1, AncestorsStep
  <2> QED BY <2>1, AncestorsType, AncestorsSelf, AncestorsLeast
<1> QED BY <1>1, <1>2

\* Fewer links leave a forest a forest.
LEMMA FewerLinksRooted ==
  ASSUME NoNode \notin Node, NEW par \in ParentFunction, NEW par2 \in ParentFunction,
         Rooted(par), \A m \in Node : par2[m] \in {par[m], NoNode}
  PROVE  Rooted(par2)
<1> DEFINE G == {x \in Node : \E r \in Ancestors(par2, x) : par2[r] = NoNode}
<1>0. \A x \in Node : par2[x] = NoNode => x \in G
  BY AncestorsSelf
<1>1. \A x \in Node : par[x] = NoNode => x \in G
  BY <1>0
<1>2. ASSUME NEW x \in Node, par[x] # NoNode, par[x] \in G
      PROVE  x \in G
  <2>1. CASE par2[x] = NoNode
    BY <1>0, <2>1
  <2>2. CASE par2[x] # NoNode
    BY <1>2, <2>2, AncestorsUnfold
  <2> QED BY <2>1, <2>2
<1>3. Node \subseteq G
  <2> HIDE DEF G
  <2> QED BY <1>1, <1>2, ForestInduction
<1> QED BY <1>3 DEF Rooted

\* The recursion that climbs from a node reaches its ancestors.
LEMMA ClimbReaches ==
  ASSUME NoNode \notin Node, NEW par \in ParentFunction, Rooted(par)
  PROVE  \A n \in Node : Climb(par, n) = Ancestors(par, n)
<1> DEFINE Climbs(up) ==
             up = [m \in Node |-> {m} \cup IF par[m] = NoNode THEN {} ELSE up[par[m]]]
           walks == [m \in Node |-> Ancestors(par, m)]
<1>1. Climbs(walks)
  BY AncestorsOfRoot, AncestorsUnfold DEF ParentFunction
<1> DEFINE up == CHOOSE u : Climbs(u)
<1>2. Climbs(up)
  BY <1>1
<1>3. \A n \in Node : Climb(par, n) = up[n]
  BY DEF Climb
<1> HIDE DEF up
<1> DEFINE G == {m \in Node : up[m] = Ancestors(par, m)}
<1>4. \A m \in Node : par[m] = NoNode => m \in G
  BY <1>2, AncestorsOfRoot
<1>5. \A m \in Node : par[m] # NoNode /\ par[m] \in G => m \in G
  BY <1>2, AncestorsUnfold
<1>6. Node \subseteq G
  <2> HIDE DEF G, Climbs
  <2> QED BY <1>4, <1>5, ForestInduction
<1> QED BY <1>3, <1>6

-----------------------------------------------------------------------------
(* Sequences *)

\* SetToSeq lists the members of a finite set, each once.
LEMMA ListsAll ==
  ASSUME NEW S, IsFiniteSet(S)
  PROVE  /\ SetToSeq(S) \in Seq(S)
         /\ \A i, j \in DOMAIN SetToSeq(S) : SetToSeq(S)[i] = SetToSeq(S)[j] => i = j
         /\ \A x \in S : \E i \in DOMAIN SetToSeq(S) : SetToSeq(S)[i] = x
<1> DEFINE n == Cardinality(S)
           f == SetToSeq(S)
<1>1. n \in Nat /\ IsFiniteSet(1 .. n) /\ Cardinality(1 .. n) = n
  BY FS_CardinalityType, FS_Interval
<1>2. \E g \in [1 .. n -> S] : IsInjective(g)
  <2>1. ExistsBijection(1 .. n, S)
    BY <1>1, FS_SameCardinalityBij
  <2> QED BY <2>1 DEF ExistsBijection, Bijection, Injection
<1>3. f \in [1 .. n -> S] /\ IsInjective(f)
  BY <1>2 DEF SetToSeq
<1> HIDE DEF f
<1> DEFINE T == {f[i] : i \in 1 .. n}
<1>4. T \in SUBSET S
  BY <1>3
<1>5. f \in Bijection(1 .. n, T)
  BY <1>3 DEF Bijection, Injection, Surjection, IsInjective
<1>6. Cardinality(T) = n
  BY <1>1, <1>5, FS_Bijection DEF ExistsBijection
<1>7. S = T
  <2> HIDE DEF T
  <2> QED BY <1>4, <1>6, FS_Subset
<1>8. f \in Seq(S) /\ DOMAIN f = 1 .. n
  BY <1>1, <1>3
<1> QED BY <1>3, <1>7, <1>8 DEF IsInjective, f

\* The stack has the steps of the agenda, as many.
LEMMA StackType ==
  ASSUME NEW X, NEW s \in Seq(X)
  PROVE  Stack(s) \in Seq(X) /\ Len(Stack(s)) = Len(s) /\ DOMAIN Stack(s) = 1 .. Len(s)
<1> DEFINE n == Len(s)
<1>1. n \in Nat /\ \A i \in 1 .. n : s[i] \in X
  BY ElementOfSeq
<1>2. \A h \in 1 .. n : n + 1 - h \in 1 .. n
  BY <1>1
<1>3. Stack(s) \in [1 .. n -> X]
  BY <1>1, <1>2 DEF Stack
<1> HIDE DEF n
<1> QED BY <1>1, <1>3 DEF n

\* Steps put in front are on top, the first of them at the very top.
LEMMA StackPush ==
  ASSUME NEW X, NEW s \in Seq(X), NEW t \in Seq(X)
  PROVE  /\ t \o s \in Seq(X) /\ Len(Stack(t \o s)) = Len(s) + Len(t)
         /\ \A h \in 1 .. Len(s) : Stack(t \o s)[h] = Stack(s)[h]
         /\ \A i \in 1 .. Len(t) : Stack(t \o s)[Len(s) + i] = t[Len(t) + 1 - i]
<1> DEFINE n == Len(s)
           k == Len(t)
<1>1. n \in Nat /\ k \in Nat
  OBVIOUS
<1>2. /\ t \o s \in Seq(X) /\ Len(t \o s) = k + n
      /\ \A i \in 1 .. k + n : (t \o s)[i] = IF i <= k THEN t[i] ELSE s[i - k]
  BY ConcatProperties
<1>3. Len(Stack(t \o s)) = k + n /\ DOMAIN Stack(t \o s) = 1 .. k + n
  BY <1>2, StackType
<1>4. ASSUME NEW h \in 1 .. n
      PROVE  Stack(t \o s)[h] = Stack(s)[h]
  <2>1. Stack(t \o s)[h] = (t \o s)[k + n + 1 - h] /\ Stack(s)[h] = s[n + 1 - h]
    BY <1>1, <1>2 DEF Stack
  <2>2. k + n + 1 - h \in 1 .. k + n /\ ~(k + n + 1 - h <= k) /\ k + n + 1 - h - k = n + 1 - h
    BY <1>1
  <2> DEFINE j == k + n + 1 - h
  <2>3. (t \o s)[j] = s[j - k]
    BY <1>2, <2>2
  <2>4. s[j - k] = s[n + 1 - h]
    BY <2>2
  <2> QED BY <2>1, <2>3, <2>4
<1>5. ASSUME NEW i \in 1 .. k
      PROVE  Stack(t \o s)[n + i] = t[k + 1 - i]
  <2>1. n + i \in 1 .. k + n /\ k + n + 1 - (n + i) = k + 1 - i
    BY <1>1
  <2>2. Stack(t \o s)[n + i] = (t \o s)[k + 1 - i]
    BY <1>1, <1>2, <2>1 DEF Stack
  <2>3. k + 1 - i \in 1 .. k + n /\ k + 1 - i <= k
    BY <1>1
  <2> HIDE DEF n, k
  <2> QED BY <1>2, <2>2, <2>3
<1> QED BY <1>1, <1>2, <1>3, <1>4, <1>5

\* The first step is taken off the top.
LEMMA StackPop ==
  ASSUME NEW X, NEW s \in Seq(X), s # <<>>
  PROVE  /\ Tail(s) \in Seq(X) /\ Len(Tail(s)) = Len(s) - 1 /\ Len(s) \in Nat /\ Len(s) >= 1
         /\ \A h \in 1 .. Len(s) - 1 : Stack(Tail(s))[h] = Stack(s)[h]
         /\ Stack(s)[Len(s)] = Head(s)
<1> DEFINE n == Len(s)
<1>1. n \in Nat /\ n >= 1 /\ Tail(s) \in Seq(X) /\ Len(Tail(s)) = n - 1
      /\ \A i \in 1 .. n - 1 : Tail(s)[i] = s[i + 1]
  BY HeadTailProperties, EmptySeq
<1>2. ASSUME NEW h \in 1 .. n - 1
      PROVE  Stack(Tail(s))[h] = Stack(s)[h]
  <2>1. h \in 1 .. n /\ n - h \in 1 .. n - 1 /\ (n - 1) + 1 - h = n - h /\ n + 1 - h = n - h + 1
    BY <1>1
  <2>2. Stack(Tail(s))[h] = Tail(s)[n - h]
    BY <1>1, <2>1 DEF Stack
  <2>3. Stack(s)[h] = s[n - h + 1]
    BY <1>1, <2>1 DEF Stack
  <2> HIDE DEF n
  <2> QED BY <1>1, <2>1, <2>2, <2>3
<1>3. Stack(s)[n] = s[1] /\ Head(s) = s[1]
  BY <1>1 DEF Stack
<1> QED BY <1>1, <1>2, <1>3

-----------------------------------------------------------------------------
(* What the definitions of the module come to *)

\* The stack holds step records, at heights 1 to its length.
LEMMA StackFacts ==
  ASSUME Typed
  PROVE  /\ stack \in Seq(StepRecord) /\ DOMAIN stack = 1 .. Len(agenda) /\ Len(agenda) \in Nat
         /\ \A h \in DOMAIN stack : stack[h] \in StepRecord
<1>1. stack \in Seq(StepRecord) /\ DOMAIN stack = 1 .. Len(agenda) /\ Len(agenda) \in Nat
  BY StackType DEF Typed, stack
<1> QED BY <1>1, ElementOfSeq, LenProperties

\* What is planned on the agenda is on the stack.
LEMMA PlannedIs ==
  ASSUME Typed, NEW do, NEW n
  PROVE  Planned(do, n) <=> On(do, n)
<1> DEFINE len == Len(agenda)
<1>1. len \in Nat /\ DOMAIN agenda = 1 .. len /\ DOMAIN stack = 1 .. len
  BY StackFacts, LenProperties DEF Typed
<1>2. \A h \in 1 .. len : len + 1 - h \in 1 .. len /\ len + 1 - (len + 1 - h) = h
  BY <1>1
<1>3. \A h \in 1 .. len : stack[h] = agenda[len + 1 - h]
  BY DEF stack, Stack
<1> HIDE DEF len
<1>4. \A i \in 1 .. len : agenda[i] = stack[len + 1 - i]
  BY <1>2, <1>3
<1> QED BY <1>1, <1>2, <1>3, <1>4 DEF Planned, On, Is

\* Up of the specification is the walk up the parents.
LEMMA UpIs ==
  ASSUME Typed, NEW n \in Node
  PROVE  Up(n) = Above(n)
BY ClimbReaches, ObjectNodesAssumption DEF Typed, Up, Above

\* The nodes above a node: itself, and those above its parent.
LEMMA AboveFacts ==
  ASSUME Typed, NEW n \in Node
  PROVE  /\ n \in Above(n) /\ Above(n) \subseteq Node
         /\ \A m \in Above(n) : Above(m) \subseteq Above(n)
         /\ \A m \in Above(n) : parent[m] # NoNode => parent[m] \in Above(n) /\ parent[m] \in Node
         /\ parent[n] = NoNode => Above(n) = {n}
         /\ parent[n] # NoNode => /\ parent[n] \in Node /\ Above(n) = {n} \cup Above(parent[n])
                                  /\ n \notin Above(parent[n])
<1>1. /\ parent \in ParentFunction /\ Rooted(parent) /\ NoNode \notin Node
      /\ \A m \in Node : parent[m] # NoNode => parent[m] \in Node
  BY ObjectNodesAssumption DEF Typed, ParentFunction
<1>2. n \in Above(n) /\ Above(n) \subseteq Node
  BY AncestorsSelf, AncestorsType DEF Above
<1>3. \A m \in Above(n) : Above(m) \subseteq Above(n)
  BY <1>1, AncestorsTransitive DEF Above
<1>4. \A m \in Above(n) : parent[m] # NoNode => parent[m] \in Above(n) /\ parent[m] \in Node
  BY <1>1, <1>2, AncestorsStep DEF Above
<1>5. parent[n] = NoNode => Above(n) = {n}
  BY AncestorsOfRoot DEF Above
<1>6. parent[n] # NoNode => Above(n) = {n} \cup Above(parent[n])
  BY <1>1, AncestorsUnfold DEF Above
<1>7. parent[n] # NoNode => n \notin Above(parent[n])
  BY <1>1, AncestorsAcyclic DEF Above
<1> QED BY <1>1, <1>2, <1>3, <1>4, <1>5, <1>6, <1>7

\* The links that a parent has stored are some of the links.
LEMMA HolderFacts ==
  ASSUME Typed
  PROVE  /\ holder \in ParentFunction /\ Rooted(holder)
         /\ \A m \in Node : holder[m] = IF On("store", m) THEN NoNode ELSE parent[m]
         /\ \A m \in Node : Climb(holder, m) = Ancestors(holder, m)
         /\ \A m \in Node : Ancestors(holder, m) \subseteq Above(m)
<1>1. \A m \in Node : holder[m] = IF On("store", m) THEN NoNode ELSE parent[m]
  BY PlannedIs DEF holder
<1>2. holder \in ParentFunction
  BY <1>1 DEF holder, ParentFunction, Typed
<1>3. \A m \in Node : holder[m] \in {parent[m], NoNode}
  BY <1>1
<1>4. parent \in ParentFunction /\ Rooted(parent) /\ NoNode \notin Node
  BY ObjectNodesAssumption DEF Typed
<1>5. Rooted(holder)
  BY <1>2, <1>3, <1>4, FewerLinksRooted
<1>6. \A m \in Node : Ancestors(holder, m) \subseteq Above(m)
  BY <1>2, <1>3, <1>4, FewerLinks DEF Above
<1> QED BY <1>1, <1>2, <1>4, <1>5, <1>6, ClimbReaches

\* A node that is not below a firm step's is not underway.
LEMMA NotUnderway ==
  ASSUME Typed, Storing, NEW y \in Node, ~Underway(y),
         NEW h \in DOMAIN stack, Firm(stack[h]), NEW n \in About(stack[h])
  PROVE  y \notin Above(n)
<1> DEFINE len == Len(agenda)
           T == {z \in Node : \E g \in DOMAIN stack : Firm(stack[g])
                   /\ \E w \in About(stack[g]) : w \in Node /\ z \in Ancestors(holder, w)}
<1>1. len \in Nat /\ DOMAIN agenda = 1 .. len /\ DOMAIN stack = 1 .. len
      /\ \A g \in DOMAIN stack : About(stack[g]) \subseteq Node
  <2>1. \A g \in DOMAIN stack : stack[g] \in StepRecord
    BY StackFacts
  <2>2. ASSUME NEW g \in DOMAIN stack PROVE About(stack[g]) \subseteq Node
    BY <2>1 DEF About, StepRecord
  <2> QED BY <2>2, StackFacts, LenProperties DEF Typed
<1>2. y \notin T
  <2> SUFFICES ASSUME NEW g \in DOMAIN stack, Firm(stack[g]),
                      NEW w \in About(stack[g]), y \in Ancestors(holder, w)
               PROVE  FALSE
    OBVIOUS
  <2>1. w \in Below(y)
    BY <1>1, HolderFacts DEF Below
  <2>2. len + 1 - g \in DOMAIN agenda /\ stack[g] = agenda[len + 1 - g]
    BY <1>1 DEF stack, Stack
  <2>3. Underway(y)
    BY <2>1, <2>2 DEF Underway, Firm, About
  <2> QED BY <2>3
<1>3. n \in T
  BY <1>1, AncestorsSelf
<1>4. ASSUME NEW z \in T, parent[z] # NoNode
      PROVE  parent[z] \in T
  <2>0. parent[z] \in Node
    BY <1>4 DEF Typed, ParentFunction
  <2>1. CASE On("store", z)
    <3>1. PICK g \in DOMAIN stack : stack[g].do = "store" /\ stack[g].node = z
      BY <2>1 DEF On, Is
    <3>2. Firm(stack[g]) /\ parent[z] \in About(stack[g])
      BY <3>1 DEF Storing, Firm, About
    <3> QED BY <2>0, <3>2, AncestorsSelf
  <2>2. CASE ~On("store", z)
    <3>1. holder[z] = parent[z] /\ holder \in ParentFunction
      BY <2>2, HolderFacts
    <3>2. PICK g \in DOMAIN stack, w \in Node :
            Firm(stack[g]) /\ w \in About(stack[g]) /\ z \in Ancestors(holder, w)
      OBVIOUS
    <3>3. parent[z] \in Ancestors(holder, w)
      BY <1>4, <3>1, <3>2, AncestorsStep
    <3> QED BY <2>0, <3>2, <3>3
  <2> QED BY <2>1, <2>2
<1>5. Above(n) \subseteq T
  <2> HIDE DEF T
  <2>1. T \in SUBSET Node
    BY DEF T
  <2>2. n \in Node
    BY <1>1
  <2> QED BY <1>3, <1>4, <2>1, <2>2, AncestorsLeast DEF Above
<1> QED BY <1>2, <1>5

\* What comes to n is about a node above it, or goes on to one.
LEMMA ComesToIs ==
  ASSUME Typed, NEW s, NEW n \in Node
  PROVE  ComesTo(s, n) <=> \/ s.do = "aboutToDie" /\ s.node \in Above(n)
                           \/ /\ s.do = "childrenToldOf"
                              /\ \E c \in Above(n) : parent[c] = s.node /\ c \notin s.arg
BY UpIs DEF ComesTo

\* The walk is past n when some death on the stack is past it.
LEMMA WalkIsPastIs ==
  ASSUME Typed, NEW n \in Node
  PROVE  WalkIsPast(n) <=> \E k \in DOMAIN stack : Past(k, n)
<1> DEFINE len == Len(agenda)
<1>1. len \in Nat /\ DOMAIN agenda = 1 .. len /\ DOMAIN stack = 1 .. len
  BY StackFacts, LenProperties DEF Typed
<1>2. \A h \in 1 .. len : stack[h] = agenda[len + 1 - h]
  BY DEF stack, Stack
<1>3. \A h \in 1 .. len : len + 1 - h \in 1 .. len /\ len + 1 - (len + 1 - h) = h
  BY <1>1
<1>4. \A h, k \in 1 .. len : h > k <=> len + 1 - h < len + 1 - k
  BY <1>1
<1>5. \A i \in 1 .. len, j \in 1 .. len : j < i <=> j \in 1 .. i - 1
  BY <1>1
<1>6. \A i \in 1 .. len : 1 .. i - 1 \subseteq 1 .. len
  BY <1>1
<1> HIDE DEF len
<1>7. ASSUME NEW i \in 1 .. len, agenda[i].do = "die", agenda[i].node \in Above(n),
             \A j \in 1 .. i - 1 : ~ComesTo(agenda[j], n)
      PROVE  Past(len + 1 - i, n)
  <2>1. stack[len + 1 - i] = agenda[i]
    BY <1>2, <1>3
  <2>2. ASSUME NEW h \in 1 .. len, h > len + 1 - i PROVE ~ComesTo(stack[h], n)
    <3>1. len + 1 - h \in 1 .. i - 1
      BY <1>3, <1>4, <1>5, <2>2
    <3> QED BY <1>2, <1>7, <3>1
  <2> QED BY <1>1, <1>7, <2>1, <2>2 DEF Past
<1>8. ASSUME NEW k \in 1 .. len, Past(k, n)
      PROVE  \A j \in 1 .. len + 1 - k - 1 : ~ComesTo(agenda[j], n)
  <2> SUFFICES ASSUME NEW j \in 1 .. len + 1 - k - 1 PROVE ~ComesTo(agenda[j], n)
    OBVIOUS
  <2>1. PICK i \in 1 .. len : i = len + 1 - k
    BY <1>3
  <2>2. j \in 1 .. len /\ j < len + 1 - k
    <3>1. j \in 1 .. i - 1
      BY <1>1, <2>1
    <3>2. j \in 1 .. len
      BY <1>6, <3>1
    <3> QED BY <1>5, <2>1, <3>1, <3>2
  <2>3. len + 1 - j \in 1 .. len /\ len + 1 - j > k
    BY <1>3, <1>4, <2>2
  <2>4. stack[len + 1 - j] = agenda[j]
    BY <1>2, <1>3, <2>2, <2>3
  <2> QED BY <1>1, <1>8, <2>3, <2>4 DEF Past
<1>9. WalkIsPast(n) => \E k \in DOMAIN stack : Past(k, n)
  BY <1>1, <1>3, <1>7, UpIs DEF WalkIsPast
<1>10. ASSUME NEW k \in DOMAIN stack, Past(k, n) PROVE WalkIsPast(n)
  <2>1. PICK i \in DOMAIN agenda : i = len + 1 - k
    BY <1>1, <1>3
  <2>2. agenda[i].do = "die" /\ agenda[i].node \in Up(n)
    BY <1>1, <1>2, <1>10, <2>1, UpIs DEF Past
  <2>3. \A j \in 1 .. i - 1 : ~ComesTo(agenda[j], n)
    BY <1>1, <1>8, <1>10, <2>1
  <2> QED BY <2>2, <2>3 DEF WalkIsPast
<1> QED BY <1>9, <1>10

\* The walks when x has been linked to p.
Linked(par2, par, x, p) ==
  \A n \in Node : Ancestors(par2, n) =
    Ancestors(par, n) \cup (IF x \in Ancestors(par, n) THEN Ancestors(par, p) ELSE {})

\* A root is linked to a node outside its tree.
LEMMA NewLink ==
  ASSUME NoNode \notin Node, NEW par \in ParentFunction, Rooted(par),
         NEW x \in Node, NEW p \in Node, par[x] = NoNode, x \notin Ancestors(par, p),
         NEW par2, par2 = [par EXCEPT ![x] = p]
  PROVE  par2 \in ParentFunction /\ Rooted(par2) /\ Linked(par2, par, x, p)
<1>1. par2 \in ParentFunction /\ par2[x] = p /\ \A m \in Node \ {x} : par2[m] = par[m]
  BY DEF ParentFunction
<1> DEFINE Good == {z \in Node : \E r \in Ancestors(par2, z) : par2[r] = NoNode}
<1>2. ASSUME NEW n \in Node, x \notin Ancestors(par, n)
      PROVE  Ancestors(par2, n) = Ancestors(par, n)
  <2>1. \A m \in Ancestors(par, n) : par2[m] = par[m]
    <3>1. Ancestors(par, n) \subseteq Node
      BY AncestorsType
    <3> QED BY <1>1, <1>2, <3>1
  <2> QED BY <1>1, <2>1, SameLinks
<1>3. p \in Good
  <2>1. PICK r \in Ancestors(par, p) : par[r] = NoNode
    BY DEF Rooted
  <2>2. r \in Ancestors(par2, p) /\ par2[r] = NoNode
    BY <1>1, <1>2, <2>1, AncestorsType
  <2> QED BY <2>2
<1>4. ASSUME NEW m \in Node, par2[m] # NoNode, par2[m] \in Good
      PROVE  m \in Good
  <2>1. PICK r \in Ancestors(par2, par2[m]) : par2[r] = NoNode
    BY <1>4
  <2>2. Ancestors(par2, m) = {m} \cup Ancestors(par2, par2[m])
    BY <1>1, <1>4, AncestorsUnfold
  <2> QED BY <2>1, <2>2
<1>5. \A m \in Node : par[m] = NoNode => m \in Good
  BY <1>1, <1>3, <1>4, AncestorsSelf
<1>6. \A m \in Node : par[m] # NoNode /\ par[m] \in Good => m \in Good
  BY <1>1, <1>4
<1>7. Node \subseteq Good
  <2> HIDE DEF Good
  <2> QED BY <1>5, <1>6, ForestInduction
<1>8. ASSUME NEW n \in Node, x \in Ancestors(par, n)
      PROVE  Ancestors(par2, n) = Ancestors(par, n) \cup Ancestors(par, p)
  <2> DEFINE T == Ancestors(par, n) \cup Ancestors(par, p)
  <2>1. \A z \in T : par2[z] # NoNode => par2[z] \in T
    <3> SUFFICES ASSUME NEW z \in T, par2[z] # NoNode PROVE par2[z] \in T
      OBVIOUS
    <3>1. z \in Node
      BY AncestorsType
    <3>2. CASE z = x
      BY <1>1, <3>2, AncestorsSelf
    <3>3. CASE z # x
      BY <1>1, <3>1, <3>3, AncestorsStep
    <3> QED BY <3>2, <3>3
  <2>2. Ancestors(par2, n) \subseteq T
    <3>1. T \in SUBSET Node /\ n \in T
      BY AncestorsSelf, AncestorsType
    <3> HIDE DEF T
    <3> QED BY <1>1, <2>1, <3>1, AncestorsLeast
  <2>3. Ancestors(par, n) \subseteq Ancestors(par2, n)
    <3>1. \A z \in Ancestors(par2, n) : par[z] # NoNode => par[z] \in Ancestors(par2, n)
      BY <1>1, AncestorsStep, AncestorsType
    <3> QED BY <1>1, <3>1, AncestorsLeast, AncestorsSelf, AncestorsType
  <2>4. p \in Ancestors(par2, n)
    BY <1>1, <1>8, <2>3, AncestorsStep
  <2>5. Ancestors(par2, p) \subseteq Ancestors(par2, n)
    BY <1>1, <2>4, AncestorsTransitive
  <2> QED BY <1>2, <2>2, <2>3, <2>5
<1> QED BY <1>1, <1>2, <1>7, <1>8 DEF Rooted, Linked

-----------------------------------------------------------------------------
(* What a step does to the stack *)

\* A call of user code puts its steps on top.
LEMMA CallEffect ==
  ASSUME Typed, UserTurn, NEW t \in Seq(StepRecord), agenda' = t \o agenda
  PROVE  /\ UserOnTop /\ Kept(top) /\ agenda' \in Seq(StepRecord)
         /\ Len(agenda') = top + Len(t)
         /\ \A i \in 1 .. Len(t) : stack'[top + i] = t[Len(t) + 1 - i]
<1>1. agenda \in Seq(StepRecord) /\ top \in Nat /\ Len(t) \in Nat
  BY DEF Typed, top
<1>2. /\ t \o agenda \in Seq(StepRecord) /\ Len(Stack(t \o agenda)) = Len(agenda) + Len(t)
      /\ \A h \in 1 .. Len(agenda) : Stack(t \o agenda)[h] = Stack(agenda)[h]
      /\ \A i \in 1 .. Len(t) : Stack(t \o agenda)[Len(agenda) + i] = t[Len(t) + 1 - i]
  BY <1>1, StackPush
<1>3. Len(Stack(agenda')) = Len(agenda')
  BY <1>2, StackType
<1>4. UserOnTop
  <2> SUFFICES ASSUME top > 0 PROVE stack[top].do = "user"
    BY DEF UserOnTop
  <2>1. agenda # <<>>
    BY DEF top
  <2>2. stack[top] = Head(agenda)
    BY <1>1, <2>1, StackPop DEF stack, top
  <2> QED BY <2>1, <2>2 DEF UserTurn, Idle
<1> QED BY <1>1, <1>2, <1>3, <1>4 DEF Kept, stack, top

\* A step is taken off, and what it leads to put in its place.
LEMMA StepEffect ==
  ASSUME Typed, NEW do, NEW n, Does(do, n), NEW t \in Seq(StepRecord), agenda' = t \o Tail(agenda)
  PROVE  /\ OnTop(do, n) /\ Kept(top - 1) /\ agenda' \in Seq(StepRecord) /\ Head(agenda) = stack[top]
         /\ top \in Nat /\ top >= 1 /\ Len(agenda') = top - 1 + Len(t)
         /\ \A i \in 1 .. Len(t) : stack'[top - 1 + i] = t[Len(t) + 1 - i]
         /\ Tail(agenda) \in Seq(StepRecord) /\ Len(Tail(agenda)) = top - 1
         /\ \A h \in 1 .. top - 1 : Stack(Tail(agenda))[h] = stack[h]
<1>1. agenda \in Seq(StepRecord) /\ agenda # <<>> /\ Len(t) \in Nat
  BY DEF Typed, Does, Idle
<1>2. PICK rest \in Seq(StepRecord) :
        /\ rest = Tail(agenda) /\ Len(rest) = top - 1 /\ top \in Nat /\ top >= 1
        /\ \A h \in 1 .. top - 1 : Stack(rest)[h] = stack[h]
        /\ stack[top] = Head(agenda)
  BY <1>1, StackPop DEF stack, top
<1>3. /\ t \o rest \in Seq(StepRecord) /\ Len(Stack(t \o rest)) = Len(rest) + Len(t)
      /\ \A h \in 1 .. Len(rest) : Stack(t \o rest)[h] = Stack(rest)[h]
      /\ \A i \in 1 .. Len(t) : Stack(t \o rest)[Len(rest) + i] = t[Len(t) + 1 - i]
  BY StackPush
<1>4. Len(Stack(agenda')) = Len(agenda') /\ agenda' = t \o rest
  BY <1>2, <1>3, StackType
<1>5. OnTop(do, n)
  BY <1>2 DEF OnTop, Is, Does
<1>6. Kept(top - 1)
  <2>1. top - 1 \in Nat /\ top - 1 <= Len(agenda) /\ top - 1 <= Len(agenda')
    BY <1>1, <1>2, <1>3, <1>4 DEF top
  <2>2. \A h \in 1 .. top - 1 : stack'[h] = stack[h]
    BY <1>2, <1>3, <1>4 DEF stack
  <2> QED BY <2>1, <2>2 DEF Kept
<1> QED BY <1>1, <1>2, <1>3, <1>4, <1>5, <1>6 DEF stack

\* A list of steps that do the same about different nodes
LEMMA EachFacts ==
  ASSUME NEW do \in Steps \ {"afterCreate", "store", "childrenToldOf"}, NEW S \in SUBSET Node
  PROVE  /\ Each(do, S) \in Seq(StepRecord)
         /\ \A i \in 1 .. Len(Each(do, S)) : \E c \in S :
              /\ Each(do, S)[i] = Step(do, c)
              /\ \A j \in 1 .. Len(Each(do, S)) : j # i => \E e \in S : Each(do, S)[j] = Step(do, e) /\ e # c
         /\ \A c \in S : \E i \in 1 .. Len(Each(do, S)) : Each(do, S)[i] = Step(do, c)
<1> DEFINE s == SetToSeq(S)
<1>1. IsFiniteSet(S)
  BY ObjectNodesAssumption, FS_Subset
<1>2. /\ s \in Seq(S) /\ \A i, j \in DOMAIN s : s[i] = s[j] => i = j
      /\ \A x \in S : \E i \in DOMAIN s : s[i] = x
  BY <1>1, ListsAll
<1> HIDE DEF s
<1>3. Each(do, S) = [i \in 1 .. Len(s) |-> Step(do, s[i])]
  BY <1>2 DEF Each, s
<1>4. Len(s) \in Nat /\ DOMAIN s = 1 .. Len(s) /\ \A i \in 1 .. Len(s) : s[i] \in S
  BY <1>2, ElementOfSeq
<1>5. \A c \in S : Step(do, c) \in StepRecord
  BY DEF Step, StepRecord
<1>6. Each(do, S) \in Seq(StepRecord) /\ Len(Each(do, S)) = Len(s)
  BY <1>3, <1>4, <1>5
<1>7. \A i \in 1 .. Len(s) : Each(do, S)[i] = Step(do, s[i])
  BY <1>3
<1> QED BY <1>2, <1>4, <1>6, <1>7

\* The heights before and after a step.
LEMMA Domains ==
  DOMAIN stack = 1 .. Len(agenda) /\ DOMAIN stack' = 1 .. Len(agenda')
BY DEF stack, Stack

-----------------------------------------------------------------------------
(* Calls *)

\* Steps without an argument are step records.
LEMMA StepsAreRecords ==
  ASSUME NEW do \in Steps \ {"afterCreate", "store", "childrenToldOf"}, NEW n \in Node
  PROVE  Step(do, n) \in StepRecord
BY DEF Step, StepRecord

\* A call that plans nothing leaves the stack.
LEMMA NothingCalled ==
  ASSUME Typed, NEW kind, Calls(kind, <<>>), Same
  PROVE  agenda' \in Seq(StepRecord) /\ Passes
<1>1. <<>> \in Seq(StepRecord) /\ Len(<<>>) = 0 /\ top \in Nat
  BY DEF Typed, top
<1>2. agenda' = <<>> \o agenda /\ UserTurn
  BY DEF Calls
<1>3. Kept(top) /\ agenda' \in Seq(StepRecord) /\ Len(agenda') = top + Len(<<>>)
  BY <1>1, <1>2, CallEffect
<1> QED BY <1>1, <1>3 DEF Passes

\* A call that plans two steps puts the first on top of the second.
LEMMA TwoCalled ==
  ASSUME Typed, NEW kind, NEW a \in StepRecord, NEW b \in StepRecord, Calls(kind, <<b, a>>)
  PROVE  /\ agenda' \in Seq(StepRecord) /\ UserOnTop /\ Kept(top) /\ Len(agenda') = top + 2
         /\ stack'[top + 1] = a /\ stack'[top + 2] = b
<1> DEFINE t == <<b, a>>
<1>1. t \in Seq(StepRecord) /\ Len(t) = 2 /\ t[1] = b /\ t[2] = a /\ top \in Nat
  BY DEF Typed, top
<1>2. agenda' = t \o agenda /\ UserTurn
  BY DEF Calls
<1> HIDE DEF t
<1>3. /\ UserOnTop /\ Kept(top) /\ agenda' \in Seq(StepRecord) /\ Len(agenda') = top + Len(t)
      /\ \A i \in 1 .. Len(t) : stack'[top + i] = t[Len(t) + 1 - i]
  BY <1>1, <1>2, CallEffect
<1>4. stack'[top + 1] = t[2 + 1 - 1] /\ stack'[top + 2] = t[2 + 1 - 2]
  BY <1>1, <1>3
<1> QED BY <1>1, <1>3, <1>4

\* What is not concealed is exposed.
LEMMA ExposedIs ==
  ASSUME Typed, NEW n \in Node
  PROVE  ~Concealed(n) <=> Exposed(n)
BY UpIs DEF Concealed, Exposed

\* Detach has the effect Detaches.
LEMMA DetachEffect ==
  ASSUME Doomed = {}, Typed, NEW n \in Node, Detach(n)
  PROVE  agenda' \in Seq(StepRecord) /\ Detaches(n)
<1>1. Step("leave", n) \in StepRecord /\ Step("beforeDetach", n) \in StepRecord
  BY StepsAreRecords DEF Steps, Hooks
<1>2. Calls("detach", <<Step("beforeDetach", n), Step("leave", n)>>)
  BY DEF Detach
<1>3. /\ n \in built /\ Alive(n) /\ parent[n] \in built /\ ~Underway(n) /\ life[n] = "finalized"
      /\ ~WalkIsPast(n) /\ ~Planned("aboutToDie", n) /\ ~Concealed(parent[n]) /\ Same
  BY DEF Detach, Same, nodes
<1>4. Exposed(parent[n])
  BY <1>3, ExposedIs DEF Typed
<1> QED BY <1>1, <1>2, <1>3, <1>4, TwoCalled, PlannedIs, WalkIsPastIs DEF Detaches

\* What finalization allows finalizes nothing.
LEMMA AllowsNothing ==
  ASSUME Doomed = {}, Typed, NEW n \in Node, FinalizationAllows(n)
  PROVE  NothingFinishes(n)
BY PlannedIs DEF FinalizationAllows, NothingFinishes, Below

\* Destroy has the effect Destroys.
LEMMA DestroyEffect ==
  ASSUME Doomed = {}, Typed, NEW n \in Node, Destroy(n)
  PROVE  agenda' \in Seq(StepRecord) /\ Destroys(n)
<1>1. Step("die", n) \in StepRecord /\ Step("aboutToDie", n) \in StepRecord
  BY StepsAreRecords DEF Steps
<1>2. Calls("destroy", <<Step("aboutToDie", n), Step("die", n)>>)
  BY DEF Destroy
<1>3. /\ n \in built /\ Alive(n) /\ parent[n] \in built \cup {NoNode} /\ ~Underway(n)
      /\ ~WalkIsPast(n) /\ NothingFinishes(n) /\ ~Concealed(n) /\ Same
  BY AllowsNothing DEF Destroy, Same, nodes
<1> QED BY <1>1, <1>2, <1>3, TwoCalled, PlannedIs, WalkIsPastIs, ExposedIs DEF Destroys

\* Attach has the effect Attaches.
LEMMA AttachEffect ==
  ASSUME Doomed = {}, Typed, NEW x \in Node, NEW p \in Node, Attach(x, p)
  PROVE  agenda' \in Seq(StepRecord) /\ Attaches(x, p)
<1> DEFINE a == [do |-> "store", node |-> x, arg |-> {p}]
           b == Step("afterAttach", x)
<1>1. a \in StepRecord /\ b \in StepRecord
  BY StepsAreRecords DEF Steps, Hooks, StepRecord
<1>2. Calls("attach", <<b, a>>)
  BY DEF Attach
<1>3. /\ x \in built /\ p \in built /\ Alive(x) /\ Alive(p)
      /\ parent[x] = NoNode /\ x \notin Up(p) /\ ~Underway(x) /\ life[x] = "finalized"
      /\ WalkIsPast(p) => FoundLate(x, p)
      /\ (\E d \in Up(p) : Planned("die", d)) => NothingFinishes(x)
      /\ ~Concealed(p)
      /\ parent' = [parent EXCEPT ![x] = p] /\ UNCHANGED <<life, built, heard>>
  BY AllowsNothing DEF Attach
<1>4. FoundLate(x, p) => \E h \in DOMAIN stack : Is(stack[h], "childrenToldOf", p) /\ x \notin stack[h].arg
  <2> SUFFICES ASSUME FoundLate(x, p)
               PROVE  \E h \in DOMAIN stack : Is(stack[h], "childrenToldOf", p) /\ x \notin stack[h].arg
    OBVIOUS
  <2>1. PICK i \in DOMAIN agenda : agenda[i].do = "childrenToldOf" /\ agenda[i].node = p /\ x \notin agenda[i].arg
    BY DEF FoundLate
  <2>2. top \in Nat /\ DOMAIN agenda = 1 .. top
    BY StackFacts, LenProperties DEF Typed, top
  <2>3. top + 1 - i \in 1 .. top /\ top + 1 - (top + 1 - i) = i
    BY <2>2
  <2>4. \A h \in 1 .. top : stack[h] = agenda[top + 1 - h]
    BY DEF stack, Stack, top
  <2>5. stack[top + 1 - i] = agenda[i]
    BY <2>3, <2>4
  <2> QED BY <2>1, <2>3, <2>5, Domains DEF Is, top
<1>5. agenda' \in Seq(StepRecord) /\ UserOnTop /\ Kept(top) /\ Len(agenda') = top + 2
      /\ stack'[top + 1] = a /\ stack'[top + 2] = b
  <2> HIDE DEF a, b
  <2> QED BY <1>1, <1>2, TwoCalled
<1> QED BY <1>3, <1>4, <1>5, PlannedIs, WalkIsPastIs, UpIs, ExposedIs DEF Attaches

\* Read has the effect Reads.
LEMMA ReadEffect ==
  ASSUME Doomed = {}, Typed, NEW n \in Node, Read(n)
  PROVE  agenda' \in Seq(StepRecord) /\ Reads(n)
<1>1. /\ n \notin built /\ ~WalkIsPast(n) /\ UserTurn
      /\ agenda' = Announcements(n, IF Alive(n) THEN ParentChain(n) ELSE {}) \o agenda
      /\ Builds(ParentChain(n))
  BY DEF Read, Calls, Build, Builds
<1>2. top \in Nat
  BY DEF Typed, top
<1>3. n \in ParentChain(n) /\ ParentChain(n) \subseteq Node
  <2>1. n \in Above(n) /\ Above(n) \subseteq Node /\ \A x \in Above(n) : x # n => n \notin Above(x)
    <3>1. \A x \in Above(n) : x \in Node
      BY AboveFacts
    <3>2. \A x \in Above(n) : n \in Above(x) => x = n
      BY <3>1, AncestorsAntisymmetric, ObjectNodesAssumption DEF Above, Typed
    <3> QED BY <3>2, AboveFacts
  <2>2. \A x \in Above(n) : Up(x) = Above(x)
    BY <2>1, UpIs
  <2> QED BY <1>1, <2>1, <2>2, UpIs DEF ParentChain
<1>4. CASE Alive(n)
  <2> DEFINE s == Chained(n, ParentChain(n))
             t == <<s>>
  <2>1. s \in StepRecord
    BY <1>3 DEF Chained, StepRecord, Steps, Hooks
  <2>2. agenda' = t \o agenda
    BY <1>1, <1>3, <1>4 DEF Announcements, Chained
  <2> HIDE DEF s
  <2>3. t \in Seq(StepRecord) /\ Len(t) = 1 /\ t[1] = s
    BY <2>1
  <2> HIDE DEF t
  <2>4. /\ UserOnTop /\ Kept(top) /\ agenda' \in Seq(StepRecord) /\ Len(agenda') = top + Len(t)
        /\ \A i \in 1 .. Len(t) : stack'[top + i] = t[Len(t) + 1 - i]
    BY <1>1, <2>2, <2>3, CallEffect
  <2>5. stack'[top + 1] = t[1 + 1 - 1]
    BY <2>3, <2>4
  <2> QED BY <1>1, <1>4, <2>3, <2>4, <2>5, WalkIsPastIs DEF Reads, s
<1>5. CASE ~Alive(n)
  <2>1. agenda' = <<>> \o agenda /\ <<>> \in Seq(StepRecord) /\ Len(<<>>) = 0
    BY <1>1, <1>5 DEF Announcements
  <2>2. UserOnTop /\ Kept(top) /\ agenda' \in Seq(StepRecord) /\ Len(agenda') = top + Len(<<>>)
    BY <1>1, <2>1, CallEffect
  <2> QED BY <1>1, <1>2, <1>5, <2>1, <2>2, WalkIsPastIs DEF Reads
<1> QED BY <1>4, <1>5

-----------------------------------------------------------------------------
(* Steps *)

\* Lists of one and two steps.
LEMMA ShortLists ==
  ASSUME NEW X, NEW a \in X, NEW b \in X
  PROVE  <<>> \o <<a>> = <<a>> /\ <<b>> \o <<a>> = <<b, a>>
<1>1. <<a>> \in Seq(X) /\ <<b>> \in Seq(X)
  OBVIOUS
<1>2. <<>> \o <<a>> = <<a>>
  BY <1>1, ConcatEmptySeq
<1>3. <<b>> \o <<a>> = <<b, a>>
  <2>1. PICK s : s = <<b>> \o <<a>>
    OBVIOUS
  <2>2. PICK t : t = <<b, a>>
    OBVIOUS
  <2>3. s \in Seq(X) /\ Len(s) = 2 /\ s[1] = b /\ s[2] = a
    <3>1. PICK u \in Seq(X) : u = <<b>> /\ Len(u) = 1 /\ u[1] = b
      BY <1>1
    <3>2. PICK v \in Seq(X) : v = <<a>> /\ Len(v) = 1 /\ v[1] = a
      BY <1>1
    <3>3. s = u \o v
      BY <2>1, <3>1, <3>2
    <3>4. /\ u \o v \in Seq(X) /\ Len(u \o v) = Len(u) + Len(v)
          /\ \A i \in 1 .. Len(u) + Len(v) : (u \o v)[i] = IF i <= Len(u) THEN u[i] ELSE v[i - Len(u)]
      BY ConcatProperties
    <3>5. \A i \in 1 .. 1 + 1 : s[i] = IF i <= 1 THEN u[i] ELSE v[i - 1]
      BY <3>1, <3>2, <3>3, <3>4
    <3>6. s[1] = u[1] /\ s[2] = v[2 - 1]
      BY <3>5
    <3> QED BY <3>1, <3>2, <3>3, <3>4, <3>6
  <2>4. t \in Seq(X) /\ Len(t) = 2 /\ t[1] = b /\ t[2] = a
    BY <2>2
  <2>5. \A i \in 1 .. 2 : s[i] = t[i]
    BY <2>3, <2>4
  <2>6. s = t
    BY <2>3, <2>4, <2>5, SeqEqual
  <2> QED BY <2>1, <2>2, <2>6
<1> QED BY <1>2, <1>3

\* A step that leads to nothing is only taken off.
LEMMA NothingThen ==
  ASSUME Typed, NEW do, NEW n, Does(do, n), agenda' = <<>> \o Tail(agenda)
  PROVE  agenda' \in Seq(StepRecord) /\ OnTop(do, n) /\ Shortens
<1>1. <<>> \in Seq(StepRecord) /\ Len(<<>>) = 0
  OBVIOUS
<1>2. /\ OnTop(do, n) /\ Kept(top - 1) /\ agenda' \in Seq(StepRecord)
      /\ top \in Nat /\ Len(agenda') = top - 1 + Len(<<>>)
  BY <1>1, StepEffect
<1> QED BY <1>1, <1>2 DEF Shortens

\* A step that leads to one other is replaced by it.
LEMMA OneThen ==
  ASSUME Typed, NEW do, NEW n, Does(do, n), NEW a \in StepRecord, agenda' = <<a>> \o Tail(agenda)
  PROVE  /\ agenda' \in Seq(StepRecord) /\ OnTop(do, n) /\ Kept(top - 1) /\ top \in Nat /\ top >= 1
         /\ Len(agenda') = top /\ stack'[top] = a
<1> DEFINE t == <<a>>
<1>1. t \in Seq(StepRecord) /\ Len(t) = 1 /\ t[1] = a
  OBVIOUS
<1> HIDE DEF t
<1>2. /\ OnTop(do, n) /\ Kept(top - 1) /\ agenda' \in Seq(StepRecord)
      /\ top \in Nat /\ top >= 1 /\ Len(agenda') = top - 1 + Len(t)
      /\ \A i \in 1 .. Len(t) : stack'[top - 1 + i] = t[Len(t) + 1 - i]
  BY <1>1, StepEffect DEF t
<1>3. stack'[top - 1 + 1] = t[1 + 1 - 1]
  BY <1>1, <1>2
<1> QED BY <1>1, <1>2, <1>3

\* A step that leads to two others is replaced by them.
LEMMA TwoThen ==
  ASSUME Typed, NEW do, NEW n, Does(do, n), NEW a \in StepRecord, NEW b \in StepRecord,
         agenda' = <<b, a>> \o Tail(agenda)
  PROVE  /\ agenda' \in Seq(StepRecord) /\ OnTop(do, n) /\ Kept(top - 1) /\ top \in Nat /\ top >= 1
         /\ Len(agenda') = top + 1 /\ stack'[top] = a /\ stack'[top + 1] = b
<1> DEFINE t == <<b, a>>
<1>1. t \in Seq(StepRecord) /\ Len(t) = 2 /\ t[1] = b /\ t[2] = a
  OBVIOUS
<1> HIDE DEF t
<1>2. /\ OnTop(do, n) /\ Kept(top - 1) /\ agenda' \in Seq(StepRecord)
      /\ top \in Nat /\ top >= 1 /\ Len(agenda') = top - 1 + Len(t)
      /\ \A i \in 1 .. Len(t) : stack'[top - 1 + i] = t[Len(t) + 1 - i]
  BY <1>1, StepEffect DEF t
<1>3. stack'[top - 1 + 1] = t[2 + 1 - 1] /\ stack'[top - 1 + 2] = t[2 + 1 - 2]
  BY <1>1, <1>2
<1> QED BY <1>1, <1>2, <1>3

\* Return, Store and Clear have the effect Returns.
LEMMA ReturnEffect ==
  ASSUME Typed, NEW n \in Node, Return(n) \/ Store(n) \/ Clear(n)
  PROVE  agenda' \in Seq(StepRecord) /\ Returns
<1>1. PICK do \in {"user", "store", "clear"} : Does(do, n)
  BY DEF Return, Store, Clear
<1>2. agenda' = <<>> \o Tail(agenda) /\ Same
  BY DEF Return, Store, Clear, Then, Same, nodes
<1>3. agenda' \in Seq(StepRecord) /\ OnTop(do, n) /\ Shortens
  BY <1>1, <1>2, NothingThen
<1> QED BY <1>1, <1>2, <1>3 DEF Returns, OnTop, Is

\* Leave has the effect Leaves.
LEMMA LeaveEffect ==
  ASSUME Typed, NEW n \in Node, Leave(n)
  PROVE  agenda' \in Seq(StepRecord) /\ Leaves(n)
<1>1. Does("leave", n) /\ agenda' = <<>> \o Tail(agenda)
  BY DEF Leave, Then
<1>2. agenda' \in Seq(StepRecord) /\ OnTop("leave", n) /\ Shortens
  BY <1>1, NothingThen
<1> QED BY <1>2 DEF Leave, Leaves

\* Die has the effect Dies.
LEMMA DieEffect ==
  ASSUME Typed, NEW n \in Node, Die(n)
  PROVE  agenda' \in Seq(StepRecord) /\ Dies(n)
<1>1. Does("die", n) /\ agenda' = <<>> \o Tail(agenda)
  BY DEF Die, Then
<1>2. agenda' \in Seq(StepRecord) /\ OnTop("die", n) /\ Shortens
  BY <1>1, NothingThen
<1> QED BY <1>2 DEF Die, Dies

\* Dispose has the effect Disposes.
LEMMA DisposeEffect ==
  ASSUME Typed, NEW n \in Node, Dispose(n)
  PROVE  agenda' \in Seq(StepRecord) /\ Disposes(n)
<1>1. Step("clear", n) \in StepRecord /\ Step("user", n) \in StepRecord
  BY StepsAreRecords DEF Steps
<1>2. Does("dispose", n) /\ Same
  BY DEF Dispose, Same, nodes
<1>3. CASE agenda' = <<Step("clear", n)>> \o Tail(agenda)
  <2> DEFINE a == Step("clear", n)
  <2> HIDE DEF a
  <2>1. /\ agenda' \in Seq(StepRecord) /\ OnTop("dispose", n) /\ Kept(top - 1) /\ top \in Nat /\ top >= 1
        /\ Len(agenda') = top /\ stack'[top] = a
    BY <1>1, <1>2, <1>3, OneThen DEF a
  <2> QED BY <1>2, <2>1, Domains DEF Disposes, a
<1>4. CASE agenda' = <<Step("user", n), Step("clear", n)>> \o Tail(agenda)
  <2> DEFINE a == Step("clear", n)
             b == Step("user", n)
  <2>0. b.do = "user"
    BY DEF Step
  <2> HIDE DEF a, b
  <2>1. /\ agenda' \in Seq(StepRecord) /\ OnTop("dispose", n) /\ Kept(top - 1) /\ top \in Nat /\ top >= 1
        /\ Len(agenda') = top + 1 /\ stack'[top] = a /\ stack'[top + 1] = b
    BY <1>1, <1>2, <1>4, TwoThen DEF a, b
  <2>2. \A h \in 1 .. top + 1 : h > top => h = top + 1
    BY <2>1
  <2> QED BY <1>2, <2>0, <2>1, <2>2, Domains DEF Disposes, a
<1>5. agenda' = <<Step("clear", n)>> \o Tail(agenda)
      \/ agenda' = <<Step("user", n), Step("clear", n)>> \o Tail(agenda)
  <2> DEFINE a == Step("clear", n)
             b == Step("user", n)
  <2>1. <<>> \o <<a>> = <<a>> /\ <<b>> \o <<a>> = <<b, a>>
    BY <1>1, ShortLists
  <2>2. agenda' = (IF pending[n] = 0 THEN <<>> ELSE IF calls < MaxCalls THEN <<b>> ELSE <<>>) \o <<a>> \o Tail(agenda)
    BY DEF Dispose, Then, UserCode
  <2> HIDE DEF a, b
  <2>3. agenda' = <<a>> \o Tail(agenda) \/ agenda' = <<b, a>> \o Tail(agenda)
    BY <2>1, <2>2
  <2> QED BY <2>3 DEF a, b
<1> QED BY <1>3, <1>4, <1>5

\* FireHook has the effect Fires.
LEMMA FireEffect ==
  ASSUME Typed, NEW n \in Node, NEW hook \in Hooks \ {"afterCreate"}, FireHook(n, hook)
  PROVE  agenda' \in Seq(StepRecord) /\ Fires(n, hook)
<1>1. Step("user", n) \in StepRecord /\ Step("user", n).do = "user"
  BY StepsAreRecords DEF Steps, Step
<1>2. Does(hook, n) /\ heard' = [heard EXCEPT ![n] = Append(@, hook)] /\ UNCHANGED <<life, built, parent>>
  BY DEF FireHook, nodes
<1>3. CASE agenda' = <<>> \o Tail(agenda)
  <2>1. agenda' \in Seq(StepRecord) /\ OnTop(hook, n) /\ Shortens
    BY <1>2, <1>3, NothingThen
  <2>2. top \in Nat
    BY DEF Typed, top
  <2> QED BY <1>2, <2>1, <2>2, Domains DEF Fires, Shortens, Hooks
<1>4. CASE agenda' = <<Step("user", n)>> \o Tail(agenda)
  <2> DEFINE a == Step("user", n)
  <2> HIDE DEF a
  <2>1. /\ agenda' \in Seq(StepRecord) /\ OnTop(hook, n) /\ Kept(top - 1) /\ top \in Nat /\ top >= 1
        /\ Len(agenda') = top /\ stack'[top] = a
    BY <1>1, <1>2, <1>4, OneThen DEF a
  <2>2. \A h \in 1 .. top : h >= top => h = top
    BY <2>1
  <2> QED BY <1>1, <1>2, <2>1, <2>2, Domains DEF Fires, Hooks, a
<1>5. agenda' = <<>> \o Tail(agenda) \/ agenda' = <<Step("user", n)>> \o Tail(agenda)
  BY DEF FireHook, Then, UserCode
<1> QED BY <1>3, <1>4, <1>5

\* Finalize waits, or readies its node.
LEMMA FinalizeEffect ==
  ASSUME Typed, OfTheLiving, NEW n \in Node, Finalize(n)
  PROVE  agenda' \in Seq(StepRecord) /\ (Waits(n) \/ Readies(n))
<1> DEFINE a == Step("finalized", n)
           b == Step("afterAttach", n)
           waits == life[n] # "created" \/ (parent[n] # NoNode /\ life[parent[n]] # "finalized")
<1>1. a \in StepRecord /\ b \in StepRecord
  BY StepsAreRecords DEF Steps, Hooks
<1>2. Does("finalize", n) /\ Same
  BY DEF Finalize, Same, nodes
<1>a. DevMode => Alive(n)
  <2>1. agenda \in Seq(StepRecord) /\ agenda # <<>> /\ Head(agenda).do = "finalize" /\ Head(agenda).node = n
    BY <1>2 DEF Typed, Does, Idle
  <2>2. top \in DOMAIN stack /\ stack[top] = Head(agenda)
    BY <2>1, StackPop, Domains DEF stack, top
  <2> QED BY <2>1, <2>2 DEF OfTheLiving, Finishing, About
<1>3. agenda' = (IF waits THEN <<>> ELSE (IF parent[n] = NoNode THEN <<>> ELSE <<b>>) \o <<a>>) \o Tail(agenda)
  BY <1>a DEF Finalize, Then, Unfinalized
<1>4. CASE waits
  <2>1. agenda' \in Seq(StepRecord) /\ OnTop("finalize", n) /\ Shortens
    BY <1>2, <1>3, <1>4, NothingThen
  <2> QED BY <1>2, <1>4, <2>1 DEF Waits
<1>5. CASE ~waits /\ parent[n] = NoNode
  <2>0. <<>> \o <<a>> = <<a>>
    BY <1>1, ShortLists
  <2>1. agenda' = <<a>> \o Tail(agenda)
    BY <1>3, <1>5, <2>0
  <2> HIDE DEF a
  <2>2. /\ agenda' \in Seq(StepRecord) /\ OnTop("finalize", n) /\ Kept(top - 1) /\ top \in Nat /\ top >= 1
        /\ Len(agenda') = top /\ stack'[top] = a
    BY <1>1, <1>2, <2>1, OneThen
  <2> QED BY <1>2, <1>5, <2>2 DEF Readies, a
<1>6. CASE ~waits /\ parent[n] # NoNode
  <2>1. agenda' = <<b, a>> \o Tail(agenda)
    BY <1>3, <1>6
  <2> HIDE DEF a, b
  <2>2. /\ agenda' \in Seq(StepRecord) /\ OnTop("finalize", n) /\ Kept(top - 1) /\ top \in Nat /\ top >= 1
        /\ Len(agenda') = top + 1 /\ stack'[top] = a /\ stack'[top + 1] = b
    BY <1>1, <1>2, <2>1, TwoThen
  <2> QED BY <1>2, <1>6, <2>2 DEF Readies, a, b
<1> QED BY <1>4, <1>5, <1>6

\* Above height b of t there is a step for each of S, and nothing else.
Lists(t, b, do, S) ==
  /\ \A h \in b + 1 .. Len(t) : \E c \in S :
       /\ Stack(t)[h] = Step(do, c)
       /\ \A j \in b + 1 .. Len(t) : j # h => \E e \in S : Stack(t)[j] = Step(do, e) /\ e # c
  /\ \A c \in S : \E h \in b + 1 .. Len(t) : Stack(t)[h] = Step(do, c)

Onto(t, s, do, S) ==
  /\ t \in Seq(StepRecord) /\ Len(t) >= Len(s) /\ Len(t) \in Nat
  /\ \A h \in 1 .. Len(s) : Stack(t)[h] = Stack(s)[h]
  /\ Lists(t, Len(s), do, S)

\* A list that is put on top
LEMMA ListOnTop ==
  ASSUME NEW do \in Steps \ {"afterCreate", "store", "childrenToldOf"}, NEW S \in SUBSET Node,
         NEW s \in Seq(StepRecord)
  PROVE  Onto(Each(do, S) \o s, s, do, S)
<1>a. PICK b : b = Len(s)
  OBVIOUS
<1>b. PICK t : t = Each(do, S) \o s
  OBVIOUS
<1> DEFINE each == Each(do, S)
           n == Len(each)
<1>1. /\ each \in Seq(StepRecord)
      /\ \A i \in 1 .. n : \E c \in S :
           /\ each[i] = Step(do, c)
           /\ \A j \in 1 .. n : j # i => \E e \in S : each[j] = Step(do, e) /\ e # c
      /\ \A c \in S : \E i \in 1 .. n : each[i] = Step(do, c)
  BY EachFacts
<1> HIDE DEF each
<1>2. /\ t \in Seq(StepRecord) /\ Len(Stack(t)) = b + n
      /\ \A h \in 1 .. b : Stack(t)[h] = Stack(s)[h]
      /\ \A i \in 1 .. n : Stack(t)[b + i] = each[n + 1 - i]
  BY <1>1, <1>a, <1>b, StackPush DEF each
<1>3. Len(t) = b + n /\ b \in Nat /\ n \in Nat
  <2>1. Len(Stack(t)) = Len(t)
    BY <1>2, StackType
  <2>2. n \in Nat
    BY <1>1, LenProperties
  <2>3. b \in Nat
    BY <1>a, LenProperties
  <2> QED BY <1>2, <2>1, <2>2, <2>3
<1> HIDE DEF n
<1>4. \A h \in b + 1 .. b + n : h - b \in 1 .. n /\ n + 1 - (h - b) \in 1 .. n /\ b + (h - b) = h
  BY <1>3
<1>5. \A h \in b + 1 .. b + n : Stack(t)[h] = each[n + 1 - (h - b)]
  BY <1>2, <1>4
<1>6. \A i \in 1 .. n : b + (n + 1 - i) \in b + 1 .. b + n /\ n + 1 - (b + (n + 1 - i) - b) = i
  BY <1>3
<1>7. \A h, j \in b + 1 .. b + n : j # h => n + 1 - (j - b) # n + 1 - (h - b)
  BY <1>3
<1>8. ASSUME NEW h \in b + 1 .. b + n
      PROVE  \E c \in S :
              /\ Stack(t)[h] = Step(do, c)
              /\ \A j \in b + 1 .. b + n : j # h => \E e \in S : Stack(t)[j] = Step(do, e) /\ e # c
  <2>1. PICK i \in 1 .. n : i = n + 1 - (h - b)
    BY <1>4
  <2>2. PICK c \in S : /\ each[i] = Step(do, c)
                       /\ \A j \in 1 .. n : j # i => \E e \in S : each[j] = Step(do, e) /\ e # c
    BY <1>1
  <2>3. ASSUME NEW j \in b + 1 .. b + n, j # h
        PROVE  \E e \in S : Stack(t)[j] = Step(do, e) /\ e # c
    <3>1. PICK k \in 1 .. n : k = n + 1 - (j - b)
      BY <1>4
    <3>2. k # i
      BY <1>7, <2>1, <2>3, <3>1
    <3> QED BY <1>5, <2>2, <3>1, <3>2
  <2> QED BY <1>5, <2>1, <2>2, <2>3
<1>9. ASSUME NEW c \in S
      PROVE  \E h \in b + 1 .. b + n : Stack(t)[h] = Step(do, c)
  <2>1. PICK i \in 1 .. n : each[i] = Step(do, c)
    BY <1>1
  <2>2. PICK h \in b + 1 .. b + n : h = b + (n + 1 - i)
    BY <1>6
  <2>3. n + 1 - (h - b) = i
    BY <1>3, <2>2
  <2> QED BY <1>5, <2>1, <2>2, <2>3
<1>10. b + n >= b /\ b + n \in Nat
  BY <1>3
<1>11. Lists(t, b, do, S)
  BY <1>3, <1>8, <1>9 DEF Lists
<1> QED BY <1>2, <1>3, <1>10, <1>11, <1>a, <1>b DEF Onto

\* One step that is put on top
LEMMA OneOnTop ==
  ASSUME NEW a \in StepRecord, NEW s \in Seq(StepRecord)
  PROVE  /\ <<a>> \o s \in Seq(StepRecord) /\ Len(s) \in Nat /\ Len(<<a>> \o s) = Len(s) + 1
         /\ \A h \in 1 .. Len(s) : Stack(<<a>> \o s)[h] = Stack(s)[h]
         /\ Stack(<<a>> \o s)[Len(s) + 1] = a
<1>0. <<a>> \in Seq(StepRecord)
  OBVIOUS
<1>1. PICK t \in Seq(StepRecord) : t = <<a>> /\ Len(t) = 1 /\ t[1] = a
  BY <1>0
<1>2. /\ t \o s \in Seq(StepRecord) /\ Len(Stack(t \o s)) = Len(s) + Len(t)
      /\ \A h \in 1 .. Len(s) : Stack(t \o s)[h] = Stack(s)[h]
      /\ \A i \in 1 .. Len(t) : Stack(t \o s)[Len(s) + i] = t[Len(t) + 1 - i]
  BY StackPush
<1>3. Len(t \o s) = Len(s) + Len(t) /\ Len(s) \in Nat
  BY <1>2, StackType
<1>4. Stack(t \o s)[Len(s) + 1] = t[1 + 1 - 1]
  BY <1>1, <1>2
<1> QED BY <1>1, <1>2, <1>3, <1>4

\* Finalized has the effect Completes.
LEMMA FinalizedEffect ==
  ASSUME Typed, NEW n \in Node, Finalized(n)
  PROVE  agenda' \in Seq(StepRecord) /\ Completes(n)
<1>1. Does("finalized", n) /\ agenda' = Each("finalize", Children(n)) \o Tail(agenda)
  BY DEF Finalized, Then, Waiting
<1>2. Children(n) \in SUBSET Node /\ "finalize" \in Steps \ {"afterCreate", "store", "childrenToldOf"}
  BY DEF Children, Steps
<1>3. Each("finalize", Children(n)) \in Seq(StepRecord)
  BY <1>2, EachFacts
<1>4. /\ OnTop("finalized", n) /\ Kept(top - 1) /\ top \in Nat /\ top >= 1
      /\ Tail(agenda) \in Seq(StepRecord) /\ Len(Tail(agenda)) = top - 1
  BY <1>1, <1>3, StepEffect
<1>5. PICK s \in Seq(StepRecord) : s = Tail(agenda) /\ Len(s) = top - 1
  BY <1>4
<1>6. /\ agenda' \in Seq(StepRecord) /\ Len(agenda') >= top - 1 /\ Len(agenda') \in Nat
      /\ \A h \in top .. Len(agenda') : \E c \in Children(n) : stack'[h] = Step("finalize", c)
      /\ \A c \in Children(n) : \E h \in top .. Len(agenda') : stack'[h] = Step("finalize", c)
  <2>0. PICK t : t = Each("finalize", Children(n)) \o s
    OBVIOUS
  <2>1. t \in Seq(StepRecord) /\ Len(t) >= Len(s) /\ Len(t) \in Nat /\ Lists(t, Len(s), "finalize", Children(n))
    <3>1. Onto(Each("finalize", Children(n)) \o s, s, "finalize", Children(n))
      BY <1>2, ListOnTop
    <3> QED BY <2>0, <3>1 DEF Onto
  <2>2. t = agenda' /\ Stack(t) = stack'
    BY <1>1, <1>5, <2>0 DEF stack
  <2>3. Len(s) + 1 = top
    BY <1>4, <1>5
  <2>4. Lists(t, top - 1, "finalize", Children(n)) /\ top - 1 + 1 = top
    BY <1>4, <1>5, <2>1
  <2>5. /\ \A h \in top .. Len(t) : \E c \in Children(n) : Stack(t)[h] = Step("finalize", c)
        /\ \A c \in Children(n) : \E h \in top .. Len(t) : Stack(t)[h] = Step("finalize", c)
    BY <2>4 DEF Lists
  <2> QED BY <1>5, <2>1, <2>2, <2>5
<1>7. \A h \in top .. Len(agenda') : h \in DOMAIN stack' /\ h >= top
  BY <1>4, <1>6, Domains
<1>8. \A h \in DOMAIN stack' : h >= top => h \in top .. Len(agenda')
  BY <1>4, <1>6, Domains
<1>9. /\ life' = [life EXCEPT ![n] = "finalized"] /\ UNCHANGED <<built, parent, heard>>
  BY DEF Finalized
<1> QED BY <1>4, <1>6, <1>7, <1>8, <1>9 DEF Completes

\* Created has the effect Announces.
LEMMA CreatedEffect ==
  ASSUME Typed, Creating, NEW n \in Node, Created(n)
  PROVE  agenda' \in Seq(StepRecord) /\ Announces(n)
<1> DEFINE rest == stack[top].arg
           ann == Announcements(parent[n], rest)
           fin == Step("finalize", n)
           user == UserCode(n)
           c == Chained(parent[n], rest)
<1>1. Does("afterCreate", n) /\ agenda # <<>> /\ agenda \in Seq(StepRecord)
  BY DEF Created, Does, Idle, Typed
<1>2. PICK s \in Seq(StepRecord) :
        /\ s = Tail(agenda) /\ Len(s) = top - 1 /\ top \in Nat /\ top >= 1
        /\ \A h \in 1 .. top - 1 : Stack(s)[h] = stack[h]
        /\ Head(agenda) = stack[top]
  BY <1>1, StackPop DEF stack, top
<1>3. OnTop("afterCreate", n)
  BY <1>1, <1>2 DEF Does, OnTop, Is
<1>4. rest # {} => c \in StepRecord
  <2> SUFFICES ASSUME rest # {} PROVE c \in StepRecord
    OBVIOUS
  <2>1. top \in DOMAIN stack /\ stack[top].do = "afterCreate" /\ stack[top].node = n
    BY <1>2, <1>3, Domains DEF OnTop, Is, top
  <2>2. n \notin rest /\ rest \subseteq Above(n)
    BY <2>1 DEF Creating
  <2>3. parent[n] # NoNode
    BY <2>2, AboveFacts
  <2> QED BY <2>2, <2>3, AboveFacts DEF Chained, StepRecord, Steps, Hooks
<1>5. fin \in StepRecord /\ Step("user", n) \in StepRecord
  BY StepsAreRecords DEF Steps
<1>6. user = <<>> \/ user = <<Step("user", n)>>
  BY DEF UserCode
<1>7. (rest = {} /\ ann = <<>>) \/ (rest # {} /\ ann = <<c>>)
  BY DEF Announcements, Chained
<1>8. ann \in Seq(StepRecord) /\ user \in Seq(StepRecord) /\ <<fin>> \in Seq(StepRecord)
  <2>0. <<>> \in Seq(StepRecord) /\ \A a \in StepRecord : <<a>> \in Seq(StepRecord)
    OBVIOUS
  <2> HIDE DEF ann, user, fin, c, rest
  <2>1. <<fin>> \in Seq(StepRecord)
    BY <1>5, <2>0
  <2>2. ann \in Seq(StepRecord)
    BY <1>4, <1>7, <2>0
  <2>3. user \in Seq(StepRecord)
    BY <1>5, <1>6, <2>0
  <2> QED BY <2>1, <2>2, <2>3
<1>9. agenda' = user \o (<<fin>> \o (ann \o s))
  <2>1. agenda' = (user \o <<fin>> \o ann) \o s
    BY <1>2 DEF Created, Then
  <2> HIDE DEF ann, user, fin
  <2>2. <<fin>> \o ann \in Seq(StepRecord) /\ ann \o s \in Seq(StepRecord)
        /\ user \o <<fin>> \in Seq(StepRecord)
    BY <1>8, ConcatProperties
  <2>3. (user \o <<fin>> \o ann) \o s = (user \o <<fin>>) \o (ann \o s)
    BY <1>8, <2>2, ConcatAssociative
  <2>4. (user \o <<fin>>) \o (ann \o s) = user \o (<<fin>> \o (ann \o s))
    BY <1>8, <2>2, ConcatAssociative
  <2> QED BY <2>1, <2>3, <2>4
<1> HIDE DEF rest, ann, fin, user, c
\* the announcement of the parents
<1>10. PICK s1 \in Seq(StepRecord) :
         /\ s1 = ann \o s
         /\ \A h \in 1 .. top - 1 : Stack(s1)[h] = stack[h]
         /\ \/ rest = {} /\ Len(s1) = top - 1
            \/ rest # {} /\ Len(s1) = top /\ Stack(s1)[top] = c
  <2>1. CASE rest = {}
    BY <1>2, <1>7, <2>1, ConcatEmptySeq
  <2>2. CASE rest # {}
    <3>1. ann = <<c>> /\ c \in StepRecord
      BY <1>4, <1>7, <2>2
    <3>2. /\ <<c>> \o s \in Seq(StepRecord) /\ Len(s) \in Nat /\ Len(<<c>> \o s) = Len(s) + 1
          /\ \A h \in 1 .. Len(s) : Stack(<<c>> \o s)[h] = Stack(s)[h]
          /\ Stack(<<c>> \o s)[Len(s) + 1] = c
      BY <3>1, OneOnTop
    <3>3. Len(s) + 1 = top
      BY <1>2
    <3> QED BY <1>2, <2>2, <3>1, <3>2, <3>3
  <2> QED BY <2>1, <2>2
<1> DEFINE k == Len(s1)
\* the finalization
<1>11. PICK s2 \in Seq(StepRecord) :
         /\ s2 = <<fin>> \o s1 /\ Len(s2) = k + 1 /\ k \in Nat
         /\ \A h \in 1 .. k : Stack(s2)[h] = Stack(s1)[h]
         /\ Stack(s2)[k + 1] = fin
  BY <1>5, OneOnTop
\* user code
<1>12. /\ agenda' \in Seq(StepRecord) /\ Len(agenda') \in k + 1 .. k + 2
       /\ \A h \in 1 .. k + 1 : stack'[h] = Stack(s2)[h]
       /\ Len(agenda') = k + 2 => stack'[k + 2] = Step("user", n)
  <2>1. CASE user = <<>>
    <3>1. agenda' = s2
      BY <1>9, <1>10, <1>11, <2>1, ConcatEmptySeq
    <3>2. Len(agenda') = k + 1 /\ Len(agenda') # k + 2
      BY <1>11, <3>1
    <3> HIDE DEF k
    <3> QED BY <1>11, <3>1, <3>2 DEF stack
  <2>2. CASE user = <<Step("user", n)>>
    <3> DEFINE u == Step("user", n)
    <3>1. agenda' = <<u>> \o s2
      BY <1>9, <1>10, <1>11, <2>2
    <3> HIDE DEF u
    <3>2. /\ <<u>> \o s2 \in Seq(StepRecord) /\ Len(<<u>> \o s2) = Len(s2) + 1
          /\ \A h \in 1 .. Len(s2) : Stack(<<u>> \o s2)[h] = Stack(s2)[h]
          /\ Stack(<<u>> \o s2)[Len(s2) + 1] = u
      BY <1>5, OneOnTop DEF u
    <3>3. Len(s2) + 1 = k + 2 /\ Len(s2) = k + 1 /\ k + 2 \in k + 1 .. k + 2
      BY <1>11
    <3> HIDE DEF k
    <3> QED BY <3>1, <3>2, <3>3 DEF stack, u
  <2> QED BY <1>6, <2>1, <2>2
<1>13. k \in top - 1 .. top
  BY <1>2, <1>10
<1> HIDE DEF k
<1>14. \A h \in 1 .. k : stack'[h] = Stack(s1)[h]
  <2>1. \A h \in 1 .. k : h \in 1 .. k + 1
    BY <1>11
  <2> QED BY <1>11, <1>12, <2>1
<1>15. Kept(top - 1)
  <2>1. top - 1 \in Nat /\ top - 1 <= Len(agenda) /\ top - 1 <= Len(agenda')
    BY <1>2, <1>12, <1>13 DEF top
  <2>2. \A h \in 1 .. top - 1 : h \in 1 .. k
    BY <1>2, <1>13
  <2> QED BY <1>10, <1>14, <2>1, <2>2 DEF Kept
<1>16. stack'[k + 1] = fin /\ k + 1 \in DOMAIN stack' /\ k + 1 >= top
  <2>1. k + 1 \in 1 .. k + 1 /\ k + 1 >= top
    BY <1>2, <1>13
  <2> QED BY <1>11, <1>12, <2>1, Domains
<1>17. rest # {} => top \in DOMAIN stack' /\ stack'[top] = c
  <2> SUFFICES ASSUME rest # {} PROVE top \in DOMAIN stack' /\ stack'[top] = c
    OBVIOUS
  <2>1. k = top /\ Stack(s1)[top] = c
    BY <1>2, <1>10 DEF k
  <2>2. top \in 1 .. k /\ top \in DOMAIN stack'
    BY <1>2, <1>12, <2>1, Domains
  <2> QED BY <1>14, <2>1, <2>2
<1>18. ASSUME NEW h \in DOMAIN stack', h >= top
       PROVE  stack'[h] = Step("user", n) \/ stack'[h] = fin \/ (h = top /\ rest # {} /\ stack'[h] = c)
  <2>1. h \in 1 .. Len(agenda')
    BY Domains
  <2>2. h = k + 2 \/ h = k + 1 \/ (h = top /\ k = top)
    BY <1>2, <1>12, <1>13, <1>18, <2>1
  <2>3. CASE h = k + 2
    <3>1. Len(agenda') = k + 2
      BY <1>2, <1>12, <1>13, <2>1, <2>3
    <3> QED BY <1>12, <2>3, <3>1
  <2>4. CASE h = k + 1
    BY <1>16, <2>4
  <2>5. CASE h = top /\ k = top
    <3>1. rest # {}
      BY <1>2, <1>10, <2>5 DEF k
    <3> QED BY <1>17, <2>5, <3>1
  <2> QED BY <2>2, <2>3, <2>4, <2>5
<1>19. heard' = [heard EXCEPT ![n] = Append(@, "afterCreate")] /\ UNCHANGED <<life, built, parent>>
  BY DEF Created, nodes
<1> QED BY <1>3, <1>12, <1>15, <1>16, <1>17, <1>18, <1>19 DEF Announces, rest, fin, c

\* Two nodes above a third are on one line.
LEMMA AboveLine ==
  ASSUME Typed, NEW n \in Node, NEW x \in Above(n), NEW y \in Above(n)
  PROVE  /\ x \in Above(y) \/ y \in Above(x)
         /\ x \in Above(y) /\ y \in Above(x) => x = y
<1>1. x \in Node /\ y \in Node
  BY AboveFacts
<1> QED BY <1>1, AncestorsLinear, AncestorsAntisymmetric, ObjectNodesAssumption DEF Above, Typed

\* The chain of nodes that is built with n
LEMMA ChainFacts ==
  ASSUME Typed, NEW n \in Node, n \notin built
  PROVE  LET chain == ParentChain(n) IN
         /\ n \in chain /\ chain \subseteq Above(n) /\ chain \subseteq Node /\ chain \cap built = {}
         /\ \A m \in chain : parent[m] # NoNode => parent[m] \in built \cup chain
         /\ \A m \in chain, z \in Above(n) : m \in Above(z) => z \in chain
<1> DEFINE chain == ParentChain(n)
<1>1. Above(n) \subseteq Node /\ n \in Above(n)
  BY AboveFacts
<1>2. \A m \in Node : m \in chain <=> m \in Above(n) /\ \A x \in Above(n) : m \in Above(x) => x \notin built
  BY <1>1, UpIs DEF ParentChain
<1>3. chain \subseteq Above(n)
  BY UpIs DEF ParentChain
<1> HIDE DEF chain
<1>4. n \in chain
  <2>1. \A x \in Above(n) : n \in Above(x) => x = n
    BY <1>1, AboveLine
  <2> QED BY <1>1, <1>2, <2>1
<1>5. \A m \in Above(n) : m \in Above(m) /\ \A z \in Above(m) : Above(z) \subseteq Above(m)
  BY <1>1, AboveFacts
<1>6. chain \cap built = {}
  BY <1>1, <1>2, <1>3, <1>5
<1>7. ASSUME NEW m \in chain, parent[m] # NoNode, parent[m] \notin built
      PROVE  parent[m] \in chain
  <2>1. m \in Above(n) /\ m \in Node
    BY <1>1, <1>3
  <2>2. parent[m] \in Node /\ parent[m] \in Above(n) /\ Above(m) = {m} \cup Above(parent[m])
    BY <1>1, <1>7, <2>1, AboveFacts
  <2>3. ASSUME NEW x \in Above(n), parent[m] \in Above(x)
        PROVE  x \notin built
    <3>1. CASE m \in Above(x)
      BY <1>1, <1>2, <2>1, <3>1
    <3>2. CASE x \in Above(m)
      <4>1. x = m \/ x \in Above(parent[m])
        BY <2>2, <3>2
      <4>2. x \in Above(parent[m]) => x = parent[m]
        BY <2>2, <2>3, AboveLine
      <4> QED BY <1>6, <1>7, <4>1, <4>2
    <3> QED BY <2>1, <3>1, <3>2, AboveLine
  <2> QED BY <1>2, <2>2, <2>3
<1>8. ASSUME NEW m \in chain, NEW z \in Above(n), m \in Above(z)
      PROVE  z \in chain
  <2>1. ASSUME NEW x \in Above(n), z \in Above(x)
        PROVE  x \notin built
    <3>1. m \in Above(x)
      BY <1>1, <1>8, <2>1, AboveFacts
    <3> QED BY <1>1, <1>2, <1>3, <2>1, <3>1
  <2> QED BY <1>1, <1>2, <2>1
<1> QED BY <1>1, <1>3, <1>4, <1>6, <1>7, <1>8 DEF chain

\* What aboutToDie builds, if anything, is the parent chain of its node.
LEMMA FarewellChain ==
  ASSUME Typed, NEW n \in Node, BuiltForFarewell(n) # {}
  PROVE  n \notin built /\ BuiltForFarewell(n) = ParentChain(n) /\ (\E c \in Children(n) : c \in built)
BY DEF BuiltForFarewell

\* AboutToDie of a dead node has the effect Skips.
LEMMA SkipEffect ==
  ASSUME Typed, NEW n \in Node, AboutToDie(n), ~Alive(n)
  PROVE  agenda' \in Seq(StepRecord) /\ Skips(n)
<1>1. Does("aboutToDie", n) /\ agenda' = <<>> \o Tail(agenda) /\ Same
  BY DEF AboutToDie, Then, Same, nodes
<1>2. agenda' \in Seq(StepRecord) /\ OnTop("aboutToDie", n) /\ Shortens
  BY <1>1, NothingThen
<1> QED BY <1>1, <1>2 DEF Skips

\* AboutToDie of a live node has the effect WalksOn.
LEMMA WalkEffect ==
  ASSUME Typed, NEW n \in Node, AboutToDie(n), Alive(n)
  PROVE  agenda' \in Seq(StepRecord) /\ WalksOn(n)
<1> DEFINE chain == BuiltForFarewell(n)
           S == Children(n)
           each == Each("aboutToDie", S)
           ann == Announcements(n, chain)
           r == [do |-> "childrenToldOf", node |-> n, arg |-> IF n \in built THEN Node ELSE S]
           c == Chained(n, chain)
<1>1. Does("aboutToDie", n) /\ agenda # <<>> /\ agenda \in Seq(StepRecord)
  BY DEF AboutToDie, Does, Idle, Typed
<1>2. PICK s \in Seq(StepRecord) :
        /\ s = Tail(agenda) /\ Len(s) = top - 1 /\ top \in Nat /\ top >= 1
        /\ \A h \in 1 .. top - 1 : Stack(s)[h] = stack[h]
        /\ Head(agenda) = stack[top]
  BY <1>1, StackPop DEF stack, top
<1>3. OnTop("aboutToDie", n)
  BY <1>1, <1>2 DEF Does, OnTop, Is
<1>4. S \in SUBSET Node /\ "aboutToDie" \in Steps \ {"afterCreate", "store", "childrenToldOf"}
  BY DEF Children, Steps
<1>5. r \in StepRecord
  BY <1>4 DEF StepRecord, Steps
<1>6. each \in Seq(StepRecord)
  BY <1>4, EachFacts
<1>7. chain # {} => c \in StepRecord
  <2>1. chain # {} => chain \subseteq Node
    BY FarewellChain, ChainFacts
  <2> HIDE DEF chain
  <2> QED BY <2>1 DEF Chained, StepRecord, Steps, Hooks
<1>8. (chain = {} /\ ann = <<>>) \/ (chain # {} /\ ann = <<c>>)
  BY DEF Announcements, Chained
<1>9. agenda' = (ann \o each \o <<r>>) \o s
  BY <1>2 DEF AboutToDie, Then
<1>10. Builds(chain)
  BY DEF AboutToDie, Build, Builds
<1> HIDE DEF chain, S, each, ann, r, c
<1>11. ann \in Seq(StepRecord) /\ <<r>> \in Seq(StepRecord)
  <2>0. <<>> \in Seq(StepRecord) /\ \A a \in StepRecord : <<a>> \in Seq(StepRecord)
    OBVIOUS
  <2> QED BY <1>5, <1>7, <1>8, <2>0
<1>12. agenda' = ann \o (each \o (<<r>> \o s))
  <2>2. each \o <<r>> \in Seq(StepRecord) /\ <<r>> \o s \in Seq(StepRecord)
        /\ ann \o each \in Seq(StepRecord)
    BY <1>6, <1>11, ConcatProperties
  <2>3. (ann \o each \o <<r>>) \o s = (ann \o each) \o (<<r>> \o s)
    BY <1>6, <1>11, <2>2, ConcatAssociative
  <2>4. (ann \o each) \o (<<r>> \o s) = ann \o (each \o (<<r>> \o s))
    BY <1>6, <1>11, <2>2, ConcatAssociative
  <2> QED BY <1>9, <2>3, <2>4
\* the rest of the walk
<1>13. PICK s1 \in Seq(StepRecord) :
         /\ s1 = <<r>> \o s /\ Len(s1) = top
         /\ \A h \in 1 .. top - 1 : Stack(s1)[h] = stack[h]
         /\ Stack(s1)[top] = r
  <2>1. /\ <<r>> \o s \in Seq(StepRecord) /\ Len(<<r>> \o s) = Len(s) + 1
        /\ \A h \in 1 .. Len(s) : Stack(<<r>> \o s)[h] = Stack(s)[h]
        /\ Stack(<<r>> \o s)[Len(s) + 1] = r
    BY <1>5, OneOnTop
  <2>2. Len(s) + 1 = top
    BY <1>2
  <2> QED BY <1>2, <2>1, <2>2
\* the children
<1>14. PICK s2 \in Seq(StepRecord) :
         /\ s2 = each \o s1 /\ Len(s2) \in Nat /\ Len(s2) >= top
         /\ \A h \in 1 .. top : Stack(s2)[h] = Stack(s1)[h]
         /\ Lists(s2, top, "aboutToDie", S)
  <2>1. PICK t : t = each \o s1
    OBVIOUS
  <2>2. PICK b : b = top
    OBVIOUS
  <2>3. b = Len(s1) /\ t = Each("aboutToDie", S) \o s1
    BY <1>13, <2>1, <2>2 DEF each
  <2>a. t = Each("aboutToDie", S) \o s1
    BY <2>3
  <2>b. /\ t \in Seq(StepRecord) /\ Len(t) >= Len(s1) /\ Len(t) \in Nat
        /\ \A h \in 1 .. Len(s1) : Stack(t)[h] = Stack(s1)[h]
        /\ Lists(t, Len(s1), "aboutToDie", S)
    <3>1. Onto(Each("aboutToDie", S) \o s1, s1, "aboutToDie", S)
      BY <1>4, ListOnTop
    <3> QED BY <2>a, <3>1 DEF Onto
  <2>4. /\ t \in Seq(StepRecord) /\ Len(t) >= b /\ Len(t) \in Nat
        /\ \A h \in 1 .. b : Stack(t)[h] = Stack(s1)[h]
        /\ Lists(t, b, "aboutToDie", S)
    BY <2>b, <2>3
  <2> QED BY <2>1, <2>2, <2>4
<1> DEFINE k == Len(s2)
\* the hooks of what was built
<1>15. /\ agenda' \in Seq(StepRecord) /\ \A h \in 1 .. k : stack'[h] = Stack(s2)[h]
       /\ \/ chain = {} /\ Len(agenda') = k
          \/ chain # {} /\ Len(agenda') = k + 1 /\ stack'[k + 1] = c
  <2>1. CASE chain = {}
    <3>1. agenda' = s2
      BY <1>8, <1>12, <1>13, <1>14, <2>1, ConcatEmptySeq
    <3> HIDE DEF k
    <3> QED BY <2>1, <3>1 DEF stack, k
  <2>2. CASE chain # {}
    <3>1. agenda' = <<c>> \o s2 /\ c \in StepRecord
      BY <1>7, <1>8, <1>12, <1>13, <1>14, <2>2
    <3>2. /\ <<c>> \o s2 \in Seq(StepRecord) /\ Len(<<c>> \o s2) = Len(s2) + 1
          /\ \A h \in 1 .. Len(s2) : Stack(<<c>> \o s2)[h] = Stack(s2)[h]
          /\ Stack(<<c>> \o s2)[Len(s2) + 1] = c
      BY <3>1, OneOnTop
    <3> QED BY <2>2, <3>1, <3>2 DEF stack
  <2> QED BY <2>1, <2>2
<1>16. k \in Nat /\ k >= top /\ Len(agenda') \in Nat /\ Len(agenda') >= k
       /\ (Len(agenda') = k \/ Len(agenda') = k + 1)
  BY <1>14, <1>15
<1>17. /\ \A h \in 1 .. top - 1 : stack'[h] = stack[h]
       /\ stack'[top] = r /\ top \in DOMAIN stack'
       /\ \A h \in top + 1 .. k : stack'[h] = Stack(s2)[h] /\ h \in DOMAIN stack' /\ h > top
  <2> HIDE DEF k
  <2>1. \A h \in 1 .. top - 1 : h \in 1 .. k /\ h \in 1 .. top
    BY <1>2, <1>16
  <2>2. top \in 1 .. k /\ top \in 1 .. top /\ top \in DOMAIN stack'
    BY <1>2, <1>16, Domains
  <2>3. \A h \in top + 1 .. k : h \in 1 .. k /\ h \in DOMAIN stack' /\ h > top
    BY <1>2, <1>16, Domains
  <2>0. /\ \A h \in 1 .. top : Stack(s2)[h] = Stack(s1)[h]
        /\ \A h \in 1 .. k : stack'[h] = Stack(s2)[h]
        /\ \A h \in 1 .. top - 1 : Stack(s1)[h] = stack[h]
        /\ Stack(s1)[top] = r
    BY <1>13, <1>14, <1>15
  <2>4. \A h \in 1 .. top - 1 : stack'[h] = stack[h]
    BY ONLY <2>0, <2>1
  <2>5. stack'[top] = r
    BY ONLY <2>0, <2>2
  <2>6. \A h \in top + 1 .. k : stack'[h] = Stack(s2)[h]
    BY <1>15, <2>3
  <2> QED BY <2>2, <2>3, <2>4, <2>5, <2>6
<1>18. Kept(top - 1)
  <2> HIDE DEF k
  <2>1. top - 1 \in Nat /\ top - 1 <= Len(agenda) /\ top - 1 <= Len(agenda')
    BY <1>2, <1>16 DEF top
  <2> QED BY <1>17, <2>1 DEF Kept
<1>19. ASSUME NEW h \in DOMAIN stack', h > top
       PROVE  Told1(top, h, S) \/ (h = Len(agenda') /\ chain # {} /\ stack'[h] = c)
  <2> HIDE DEF k
  <2>1. h \in 1 .. Len(agenda')
    BY Domains
  <2>2. h \in top + 1 .. k \/ (h = k + 1 /\ Len(agenda') = k + 1)
    BY <1>2, <1>16, <1>19, <2>1
  <2>3. CASE h \in top + 1 .. k
    <3>1. PICK e \in S :
              /\ Stack(s2)[h] = Step("aboutToDie", e)
              /\ \A j \in top + 1 .. k : j # h => \E e2 \in S : Stack(s2)[j] = Step("aboutToDie", e2) /\ e2 # e
      BY <1>14, <2>3 DEF k, Lists
    <3>2. \A j \in top + 1 .. h - 1 : j \in top + 1 .. k /\ j # h
      BY <1>2, <1>16, <2>3
    <3> QED BY <1>17, <2>3, <3>1, <3>2 DEF Told1
  <2>4. CASE h = k + 1 /\ Len(agenda') = k + 1
    BY <1>15, <1>16, <2>4
  <2> QED BY <2>2, <2>3, <2>4
<1>20. Tells(top, S)
  <2> SUFFICES ASSUME NEW e \in S PROVE \E h \in DOMAIN stack' : h > top /\ stack'[h] = Step("aboutToDie", e)
    BY DEF Tells
  <2>1. PICK h \in top + 1 .. k : Stack(s2)[h] = Step("aboutToDie", e)
    BY <1>14 DEF Lists
  <2> QED BY <1>17, <2>1
<1>21. chain # {} => Len(agenda') > top /\ stack'[Len(agenda')] = c
  <2>1. chain # {} => Len(agenda') = k + 1 /\ stack'[k + 1] = c
    BY <1>15
  <2> HIDE DEF k
  <2>2. k + 1 > top
    BY <1>2, <1>16
  <2> QED BY <2>1, <2>2
<1> HIDE DEF k
<1> QED BY <1>3, <1>10, <1>15, <1>17, <1>18, <1>19, <1>20, <1>21 DEF WalksOn, chain, S, r, c

\* ChildrenTold of an instance has the effect TellsRest.
LEMMA ToldEffect ==
  ASSUME Typed, NEW n \in Node, ChildrenTold(n), n \in built
  PROVE  agenda' \in Seq(StepRecord) /\ TellsRest(n)
<1> DEFINE S == Children(n) \ stack[top].arg
           each == Each("aboutToDie", S)
           q == Step("dispose", n)
           r == Step("beforeDestroy", n)
<1>1. Does("childrenToldOf", n) /\ agenda # <<>> /\ agenda \in Seq(StepRecord)
  BY DEF ChildrenTold, Does, Idle, Typed
<1>2. PICK s \in Seq(StepRecord) :
        /\ s = Tail(agenda) /\ Len(s) = top - 1 /\ top \in Nat /\ top >= 1
        /\ \A h \in 1 .. top - 1 : Stack(s)[h] = stack[h]
        /\ Head(agenda) = stack[top]
  BY <1>1, StackPop DEF stack, top
<1>3. OnTop("childrenToldOf", n)
  BY <1>1, <1>2 DEF Does, OnTop, Is
<1>4. S \in SUBSET Node /\ "aboutToDie" \in Steps \ {"afterCreate", "store", "childrenToldOf"}
  BY DEF Children, Steps
<1>5. q \in StepRecord /\ r \in StepRecord
  BY StepsAreRecords DEF Steps, Hooks
<1>6. each \in Seq(StepRecord)
  BY <1>4, EachFacts
<1>9. agenda' = (each \o <<r, q>>) \o s
  BY <1>2 DEF ChildrenTold, Then, Farewell
<1>10. Same
  BY DEF ChildrenTold, Same, nodes
<1> HIDE DEF S, each, q, r
<1>11. <<r>> \in Seq(StepRecord) /\ <<q>> \in Seq(StepRecord) /\ <<r, q>> \in Seq(StepRecord)
       /\ <<r>> \o <<q>> = <<r, q>>
  BY <1>5, ShortLists
<1>12. agenda' = each \o (<<r>> \o (<<q>> \o s))
  <2>1. (each \o <<r, q>>) \o s = each \o (<<r, q>> \o s)
    BY <1>6, <1>11, ConcatAssociative
  <2>2. (<<r>> \o <<q>>) \o s = <<r>> \o (<<q>> \o s)
    BY <1>11, ConcatAssociative
  <2> QED BY <1>9, <1>11, <2>1, <2>2
<1>13. PICK s1 \in Seq(StepRecord) :
         /\ s1 = <<q>> \o s /\ Len(s1) = top
         /\ \A h \in 1 .. top - 1 : Stack(s1)[h] = stack[h]
         /\ Stack(s1)[top] = q
  <2>1. /\ <<q>> \o s \in Seq(StepRecord) /\ Len(<<q>> \o s) = Len(s) + 1
        /\ \A h \in 1 .. Len(s) : Stack(<<q>> \o s)[h] = Stack(s)[h]
        /\ Stack(<<q>> \o s)[Len(s) + 1] = q
    BY <1>5, OneOnTop
  <2>2. Len(s) + 1 = top
    BY <1>2
  <2> QED BY <1>2, <2>1, <2>2
<1>14. PICK s2 \in Seq(StepRecord) :
         /\ s2 = <<r>> \o s1 /\ Len(s2) = top + 1
         /\ \A h \in 1 .. top : Stack(s2)[h] = Stack(s1)[h]
         /\ Stack(s2)[top + 1] = r
  BY <1>5, <1>13, OneOnTop
<1>15. /\ agenda' \in Seq(StepRecord) /\ Len(agenda') \in Nat /\ Len(agenda') >= top + 1
       /\ \A h \in 1 .. top + 1 : stack'[h] = Stack(s2)[h]
       /\ Lists(agenda', top + 1, "aboutToDie", S)
  <2>1. agenda' = each \o s2 /\ stack' = Stack(agenda')
    BY <1>12, <1>13, <1>14 DEF stack
  <2>2. PICK t : t = agenda'
    OBVIOUS
  <2>3. PICK b : b = top + 1
    OBVIOUS
  <2>4. b = Len(s2) /\ t = Each("aboutToDie", S) \o s2
    BY <1>14, <2>1, <2>2, <2>3 DEF each
  <2>a. t = Each("aboutToDie", S) \o s2
    BY <2>4
  <2>b. /\ t \in Seq(StepRecord) /\ Len(t) >= Len(s2) /\ Len(t) \in Nat
        /\ \A h \in 1 .. Len(s2) : Stack(t)[h] = Stack(s2)[h]
        /\ Lists(t, Len(s2), "aboutToDie", S)
    <3>1. Onto(Each("aboutToDie", S) \o s2, s2, "aboutToDie", S)
      BY <1>4, ListOnTop
    <3> QED BY <2>a, <3>1 DEF Onto
  <2>5. /\ t \in Seq(StepRecord) /\ Len(t) >= b /\ Len(t) \in Nat
        /\ \A h \in 1 .. b : Stack(t)[h] = Stack(s2)[h]
        /\ Lists(t, b, "aboutToDie", S)
    BY <2>b, <2>4
  <2> QED BY <2>1, <2>2, <2>3, <2>5
<1>17. /\ (\A h \in 1 .. top - 1 : stack'[h] = stack[h])
       /\ stack'[top] = q /\ stack'[top + 1] = r /\ top + 1 \in DOMAIN stack'
  <2>1. \A h \in 1 .. top - 1 : h \in 1 .. top + 1 /\ h \in 1 .. top
    BY <1>2
  <2>2. top \in 1 .. top + 1 /\ top \in 1 .. top /\ top + 1 \in 1 .. top + 1 /\ top + 1 \in DOMAIN stack'
    BY <1>2, <1>15, Domains
  <2>0. /\ \A h \in 1 .. top : Stack(s2)[h] = Stack(s1)[h]
        /\ \A h \in 1 .. top + 1 : stack'[h] = Stack(s2)[h]
        /\ \A h \in 1 .. top - 1 : Stack(s1)[h] = stack[h]
        /\ Stack(s1)[top] = q /\ Stack(s2)[top + 1] = r
    BY <1>13, <1>14, <1>15
  <2>3. \A h \in 1 .. top - 1 : stack'[h] = stack[h]
    BY ONLY <2>0, <2>1
  <2>4. stack'[top] = q
    BY ONLY <2>0, <2>2
  <2>5. stack'[top + 1] = r
    BY ONLY <2>0, <2>2
  <2> QED BY <2>2, <2>3, <2>4, <2>5
<1>18. Kept(top - 1)
  <2>1. top - 1 \in Nat /\ top - 1 <= Len(agenda) /\ top - 1 <= Len(agenda')
    BY <1>2, <1>15 DEF top
  <2> QED BY <1>17, <2>1 DEF Kept
<1>19. ASSUME NEW h \in DOMAIN stack', h > top + 1
       PROVE  Told1(top + 1, h, S)
  <2>1. h \in top + 1 + 1 .. Len(agenda')
    BY <1>2, <1>15, <1>19, Domains
  <2>2. PICK e \in S :
          /\ stack'[h] = Step("aboutToDie", e)
          /\ \A j \in top + 1 + 1 .. Len(agenda') : j # h => \E e2 \in S : stack'[j] = Step("aboutToDie", e2) /\ e2 # e
    BY <1>15, <2>1 DEF Lists, stack
  <2>3. \A j \in top + 1 + 1 .. h - 1 : j \in top + 1 + 1 .. Len(agenda') /\ j # h
    BY <1>2, <1>15, <2>1
  <2> QED BY <2>2, <2>3 DEF Told1
<1>20. Tells(top + 1, S)
  <2> SUFFICES ASSUME NEW e \in S PROVE \E h \in DOMAIN stack' : h > top + 1 /\ stack'[h] = Step("aboutToDie", e)
    BY DEF Tells
  <2>1. PICK h \in top + 1 + 1 .. Len(agenda') : stack'[h] = Step("aboutToDie", e)
    BY <1>15 DEF Lists, stack
  <2>2. h \in DOMAIN stack' /\ h > top + 1
    BY <1>2, <1>15, Domains
  <2> QED BY <2>1, <2>2
<1> QED BY <1>3, <1>10, <1>15, <1>17, <1>18, <1>19, <1>20 DEF TellsRest, S, q, r

\* ChildrenTold of a node without instance has the effect Ends.
LEMMA EndEffect ==
  ASSUME Typed, NEW n \in Node, ChildrenTold(n), n \notin built
  PROVE  agenda' \in Seq(StepRecord) /\ Ends(n)
<1>1. Does("childrenToldOf", n) /\ agenda' = <<>> \o Tail(agenda) /\ Same
  BY DEF ChildrenTold, Then, Same, nodes
<1>2. agenda' \in Seq(StepRecord) /\ OnTop("childrenToldOf", n) /\ Shortens
  BY <1>1, NothingThen
<1> QED BY <1>1, <1>2 DEF Ends

\* Every step has one of the effects.
LEMMA NextEffect ==
  ASSUME Doomed = {}, Typed, Creating, OfTheLiving, [Next]_vars
  PROVE  agenda' \in Seq(StepRecord) /\ Effect
<1>1. CASE UNCHANGED vars
  <2>1. agenda' = agenda /\ Same
    BY <1>1 DEF vars, nodes, Same
  <2>2. top \in Nat
    BY DEF Typed, top
  <2>3. stack' = stack
    BY <2>1 DEF stack
  <2>4. Passes
    BY <2>1, <2>2, <2>3 DEF Passes, Kept, top
  <2> QED BY <2>1, <2>4 DEF Effect, Typed
<1>2. ASSUME NEW n \in Node, Read(n) PROVE agenda' \in Seq(StepRecord) /\ Effect
  BY <1>2, ReadEffect DEF Effect
<1>3. ASSUME NEW n \in Node, Write(n) PROVE agenda' \in Seq(StepRecord) /\ Effect
  <2>1. Calls("write", <<>>) /\ Same
    BY <1>3 DEF Write, Same, nodes
  <2> QED BY <2>1, NothingCalled DEF Effect
<1>4. ASSUME NEW n \in Node, ReadSnapshot(n) PROVE agenda' \in Seq(StepRecord) /\ Effect
  <2>1. Calls("snapshot", <<>>) /\ Same
    BY <1>4 DEF ReadSnapshot, Same, nodes
  <2> QED BY <2>1, NothingCalled DEF Effect
<1>5. ASSUME NEW n \in Node, AddDisposer(n) PROVE agenda' \in Seq(StepRecord) /\ Effect
  <2>1. Calls("addDisposer", <<>>) /\ Same
    BY <1>5 DEF AddDisposer, Same, nodes
  <2> QED BY <2>1, NothingCalled DEF Effect
<1>6. ASSUME NEW n \in Node, NEW p \in Node, Attach(n, p) PROVE agenda' \in Seq(StepRecord) /\ Effect
  BY <1>6, AttachEffect DEF Effect
<1>7. ASSUME NEW n \in Node, Detach(n) PROVE agenda' \in Seq(StepRecord) /\ Effect
  BY <1>7, DetachEffect DEF Effect
<1>8. ASSUME NEW n \in Node, Destroy(n) PROVE agenda' \in Seq(StepRecord) /\ Effect
  BY <1>8, DestroyEffect DEF Effect
<1>9. ASSUME NEW n \in Node, Return(n) \/ Store(n) \/ Clear(n) PROVE agenda' \in Seq(StepRecord) /\ Effect
  BY <1>9, ReturnEffect DEF Effect
<1>10. ASSUME NEW n \in Node, Created(n) PROVE agenda' \in Seq(StepRecord) /\ Effect
  BY <1>10, CreatedEffect DEF Effect
<1>11. ASSUME NEW n \in Node, NEW hook \in Hooks \ {"afterCreate"}, FireHook(n, hook)
       PROVE  agenda' \in Seq(StepRecord) /\ Effect
  <2>1. agenda' \in Seq(StepRecord) /\ Fires(n, hook) /\ hook \in Hooks
    BY <1>11, FireEffect
  <2> QED BY <2>1 DEF Effect
<1>12. ASSUME NEW n \in Node, Finalize(n) PROVE agenda' \in Seq(StepRecord) /\ Effect
  BY <1>12, FinalizeEffect DEF Effect
<1>13. ASSUME NEW n \in Node, Finalized(n) PROVE agenda' \in Seq(StepRecord) /\ Effect
  BY <1>13, FinalizedEffect DEF Effect
<1>14. ASSUME NEW n \in Node, Leave(n) PROVE agenda' \in Seq(StepRecord) /\ Effect
  BY <1>14, LeaveEffect DEF Effect
<1>15. ASSUME NEW n \in Node, AboutToDie(n) PROVE agenda' \in Seq(StepRecord) /\ Effect
  BY <1>15, SkipEffect, WalkEffect DEF Effect
<1>16. ASSUME NEW n \in Node, ChildrenTold(n) PROVE agenda' \in Seq(StepRecord) /\ Effect
  BY <1>16, ToldEffect, EndEffect DEF Effect
<1>17. ASSUME NEW n \in Node, Dispose(n) PROVE agenda' \in Seq(StepRecord) /\ Effect
  BY <1>17, DisposeEffect DEF Effect
<1>18. ASSUME NEW n \in Node, Die(n) PROVE agenda' \in Seq(StepRecord) /\ Effect
  BY <1>18, DieEffect DEF Effect
<1>19. CASE UserCalls
  BY <1>19, <1>2, <1>3, <1>4, <1>5, <1>6, <1>7, <1>8 DEF UserCalls
<1>20. CASE NextStep
  BY <1>20, <1>9, <1>10, <1>11, <1>12, <1>13, <1>14, <1>15, <1>16, <1>17, <1>18 DEF NextStep
<1> QED BY <1>1, <1>19, <1>20 DEF Next

\* Chains are sets of nodes.
LEMMA ChainType ==
  ASSUME Typed, NEW n \in Node
  PROVE  ParentChain(n) \subseteq Node /\ BuiltForFarewell(n) \subseteq Node
BY UpIs, AboveFacts DEF ParentChain, BuiltForFarewell

\* Building keeps the types.
LEMMA BuildsTyped ==
  ASSUME Typed, NEW chain \in SUBSET Node, Builds(chain), agenda' \in Seq(StepRecord)
  PROVE  Typed'
BY DEF Typed, Builds, Lives

\* Every effect keeps the types, and the forest a forest.
LEMMA NextTyped ==
  ASSUME Typed, Effect, agenda' \in Seq(StepRecord)
  PROVE  Typed'
<1>0. NoNode \notin Node /\ Rooted(parent) /\ parent \in ParentFunction
  BY ObjectNodesAssumption DEF Typed
<1>1. CASE Same
  BY <1>1 DEF Same, Typed
<1>2. ASSUME NEW n \in Node, NEW hook \in Hooks,
             heard' = [heard EXCEPT ![n] = Append(@, hook)] /\ UNCHANGED <<life, built, parent>>
      PROVE  Typed'
  <2>1. heard' \in [Node -> Seq(Hooks)]
    BY <1>2, AppendProperties DEF Typed
  <2> QED BY <1>2, <2>1 DEF Typed
<1>3. ASSUME NEW n \in Node, Completes(n) PROVE Typed'
  BY <1>3 DEF Completes, Typed, Lives
<1>4. ASSUME NEW n \in Node, Reads(n) PROVE Typed'
  BY <1>4, ChainType, BuildsTyped DEF Reads
<1>5. ASSUME NEW n \in Node, WalksOn(n) PROVE Typed'
  BY <1>5, ChainType, BuildsTyped DEF WalksOn
<1>6. ASSUME NEW x \in Node, NEW p \in Node, Attaches(x, p) PROVE Typed'
  <2>1. parent[x] = NoNode /\ x \notin Ancestors(parent, p) /\ parent' = [parent EXCEPT ![x] = p]
        /\ UNCHANGED <<life, built, heard>>
    BY <1>6 DEF Attaches, Above
  <2>2. parent' \in ParentFunction /\ Rooted(parent')
    BY <1>0, <2>1, NewLink
  <2> QED BY <2>1, <2>2 DEF Typed
<1>7. ASSUME NEW par2 \in ParentFunction, parent' = par2, \A m \in Node : par2[m] \in {parent[m], NoNode},
             life' \in [Node -> Lives], UNCHANGED <<built, heard>>
      PROVE  Typed'
  <2>1. Rooted(par2)
    BY <1>0, <1>7, FewerLinksRooted
  <2> QED BY <1>7, <2>1 DEF Typed
<1>8. ASSUME NEW n \in Node, Leaves(n) PROVE Typed'
  <2>1. parent' \in ParentFunction /\ \A m \in Node : parent'[m] \in {parent[m], NoNode}
    BY <1>0, <1>8 DEF Leaves, ParentFunction
  <2> QED BY <1>7, <1>8, <2>1 DEF Leaves, Typed
<1>9. ASSUME NEW n \in Node, Dies(n) PROVE Typed'
  <2>1. parent' \in ParentFunction /\ \A m \in Node : parent'[m] \in {parent[m], NoNode}
    BY <1>0, <1>9 DEF Dies, ParentFunction
  <2>2. life' \in [Node -> Lives]
    BY <1>9 DEF Dies, Typed, Lives
  <2> QED BY <1>7, <1>9, <2>1, <2>2 DEF Dies, Typed
<1>10. CASE Passes \/ Returns
  BY <1>1, <1>10 DEF Passes, Returns
<1>11. ASSUME NEW n \in Node, Disposes(n) \/ Waits(n) \/ Skips(n) \/ Ends(n) \/ Readies(n)
              \/ Detaches(n) \/ Destroys(n) \/ TellsRest(n)
       PROVE  Typed'
  BY <1>1, <1>11 DEF Disposes, Waits, Skips, Ends, Readies, Detaches, Destroys, TellsRest
<1>12. ASSUME NEW n \in Node, Announces(n) PROVE Typed'
  BY <1>2, <1>12 DEF Announces, Hooks
<1>13. ASSUME NEW n \in Node, NEW hook \in Hooks, Fires(n, hook) PROVE Typed'
  BY <1>2, <1>13 DEF Fires
<1> QED BY <1>3, <1>4, <1>5, <1>6, <1>8, <1>9, <1>10, <1>11, <1>12, <1>13 DEF Effect

-----------------------------------------------------------------------------
(* What stays, what is popped and what is new on the stack *)

\* The stack after a step holds step records.
LEMMA NewStackFacts ==
  ASSUME Typed'
  PROVE  \A h \in DOMAIN stack' : stack'[h] \in StepRecord
<1>1. agenda' \in Seq(StepRecord) /\ stack' = Stack(agenda')
  BY DEF Typed, stack
<1>2. Stack(agenda') \in Seq(StepRecord)
  BY <1>1, StackType
<1> QED BY <1>1, <1>2, ElementOfSeq, LenProperties

\* A frame for a step that leaves all of the stack
LEMMA ExtendsFrame ==
  ASSUME Typed, Kept(top), \A h \in DOMAIN stack' : h > top => NewStep(h)
  PROVE  \E b : Frame(b)
<1>1. top \in Nat
  BY DEF Typed, top
<1>2. Frame(top)
  BY <1>1 DEF Frame
<1> QED BY <1>2

\* A frame for a step that takes the top off
LEMMA PopsFrame ==
  ASSUME Typed, top > 0, Popped, Kept(top - 1), \A h \in DOMAIN stack' : h >= top => NewStep(h)
  PROVE  \E b : Frame(b)
<1>1. top \in Nat /\ top >= 1 /\ top - 1 \in Nat
  BY DEF Typed, top
<1>2. DOMAIN stack' = 1 .. Len(agenda')
  BY Domains
<1>3. \A h \in DOMAIN stack' : h > top - 1 => h >= top
  BY <1>1, <1>2
<1>4. Frame(top - 1)
  BY <1>1, <1>3 DEF Frame
<1> QED BY <1>4

\* A frame for a step that only takes the top off
LEMMA ShortensFrame ==
  ASSUME Typed, top > 0, Popped, Shortens
  PROVE  \E b : Frame(b)
<1>1. top \in Nat
  BY DEF Typed, top
<1>2. DOMAIN stack' = 1 .. top - 1
  BY Domains DEF Shortens
<1>3. \A h \in DOMAIN stack' : ~(h >= top)
  BY <1>1, <1>2
<1> QED BY <1>3, PopsFrame DEF Shortens

\* The fields of a step without an argument
LEMMA StepFields ==
  ASSUME NEW do, NEW n
  PROVE  /\ Step(do, n).do = do /\ Step(do, n).node = n /\ Step(do, n).arg = {}
BY DEF Step

\* Every effect has a frame.
LEMMA FrameExists ==
  ASSUME Typed, Typed', Creating, Effect
  PROVE  \E b : Frame(b)
<1>0. top \in Nat /\ DOMAIN stack' = 1 .. Len(agenda') /\ Len(agenda') \in Nat
      /\ \A h \in DOMAIN stack' : stack'[h].node \in Node
  <2>1. \A h \in DOMAIN stack' : stack'[h] \in StepRecord
    BY NewStackFacts
  <2> QED BY <2>1, Domains DEF Typed, top, StepRecord
<1>1. CASE Passes
  <2>1. \A h \in DOMAIN stack' : ~(h > top)
    BY <1>0, <1>1 DEF Passes
  <2> QED BY <1>1, <2>1, ExtendsFrame DEF Passes
<1>2. CASE Returns
  BY <1>2, ShortensFrame DEF Returns, Popped
<1>3. ASSUME NEW n \in Node, Disposes(n) PROVE \E b : Frame(b)
  <2>1. \A h \in DOMAIN stack' : h >= top => NewStep(h)
    <3> SUFFICES ASSUME NEW h \in DOMAIN stack', h >= top PROVE NewStep(h)
      OBVIOUS
    <3>1. h = top \/ h > top
      BY <1>0
    <3>2. h = top => stack'[h] = Step("clear", n)
      BY <1>3 DEF Disposes
    <3>3. h > top => stack'[h].do = "user"
      BY <1>3 DEF Disposes
    <3> QED BY <1>0, <1>3, <3>1, <3>2, <3>3, StepFields DEF NewStep
  <2>2. Popped
    BY <1>3 DEF Disposes, OnTop, Is, Popped
  <2> QED BY <1>3, <2>1, <2>2, PopsFrame DEF Disposes, OnTop
<1>4. ASSUME NEW n \in Node, Waits(n) \/ Skips(n) \/ Ends(n) \/ Leaves(n) \/ Dies(n) PROVE \E b : Frame(b)
  <2>1. top > 0 /\ Shortens
    BY <1>4 DEF Waits, Skips, Ends, Leaves, Dies, OnTop
  <2>2. Popped
    <3>1. CASE Waits(n)
      <4>1. stack[top].do = "finalize" /\ stack[top].node = n
        BY <3>1 DEF Waits, OnTop, Is
      <4> QED BY <3>1, <4>1 DEF Popped
    <3>2. CASE Skips(n)
      <4>1. stack[top].do = "aboutToDie" /\ stack[top].node = n
        BY <3>2 DEF Skips, OnTop, Is
      <4> QED BY <3>2, <4>1 DEF Popped
    <3>3. CASE Ends(n)
      <4>1. stack[top].do = "childrenToldOf" /\ stack[top].node = n
        BY <3>3 DEF Ends, OnTop, Is
      <4> QED BY <3>3, <4>1 DEF Popped
    <3>4. CASE Leaves(n)
      <4>1. stack[top].do = "leave" /\ stack[top].node = n
        BY <3>4 DEF Leaves, OnTop, Is
      <4> QED BY <3>4, <4>1 DEF Popped
    <3>5. CASE Dies(n)
      <4>1. stack[top].do = "die" /\ stack[top].node = n
        BY <3>5 DEF Dies, OnTop, Is
      <4> QED BY <3>5, <4>1 DEF Popped
    <3> QED BY <1>4, <3>1, <3>2, <3>3, <3>4, <3>5
  <2> QED BY <2>1, <2>2, ShortensFrame
<1>5. ASSUME NEW n \in Node, Announces(n) PROVE \E b : Frame(b)
  <2>0. stack[top].do = "afterCreate" /\ stack[top].node = n /\ top > 0 /\ Kept(top - 1)
    BY <1>5 DEF Announces, OnTop, Is
  <2>1. ASSUME NEW h \in DOMAIN stack', h >= top PROVE NewStep(h)
    <3>1. \/ stack'[h] = Step("user", n)
          \/ stack'[h] = Step("finalize", n)
          \/ h = top /\ stack[top].arg # {} /\ stack'[h] = Chained(parent[n], stack[top].arg)
      BY <1>5, <2>1 DEF Announces
    <3>2. CASE stack'[h] = Step("user", n)
      BY <1>0, <3>2, StepFields DEF NewStep
    <3>3. CASE stack'[h] = Step("finalize", n)
      BY <1>0, <1>5, <3>3, StepFields DEF NewStep
    <3>4. CASE h = top /\ stack[top].arg # {} /\ stack'[h] = Chained(parent[n], stack[top].arg)
      <4>1. NewCreation(h)
        BY <1>5, <3>4 DEF NewCreation
      <4> QED BY <1>0, <3>4, <4>1 DEF NewStep, Chained
    <3> QED BY <3>1, <3>2, <3>3, <3>4
  <2>2. Popped
    BY <1>5, <2>0 DEF Popped
  <2> QED BY <2>0, <2>1, <2>2, PopsFrame
<1>6. ASSUME NEW n \in Node, NEW hook \in Hooks, Fires(n, hook) PROVE \E b : Frame(b)
  <2>0. stack[top].do = hook /\ stack[top].node = n /\ top > 0 /\ Kept(top - 1)
        /\ hook \in {"afterAttach", "beforeDetach", "beforeDestroy"}
    BY <1>6 DEF Fires, OnTop, Is
  <2>1. \A h \in DOMAIN stack' : h >= top => NewStep(h)
    BY <1>0, <1>6 DEF Fires, NewStep
  <2>2. Popped
    BY <1>6, <2>0 DEF Popped
  <2> QED BY <2>0, <2>1, <2>2, PopsFrame
<1>7. ASSUME NEW n \in Node, Readies(n) PROVE \E b : Frame(b)
  <2>0. stack[top].do = "finalize" /\ stack[top].node = n /\ top > 0 /\ Kept(top - 1)
    BY <1>7 DEF Readies, OnTop, Is
  <2>1. ASSUME NEW h \in DOMAIN stack', h >= top PROVE NewStep(h)
    <3>1. h = top \/ (h = top + 1 /\ Len(agenda') = top + 1 /\ parent[n] # NoNode)
      BY <1>0, <1>7, <2>1 DEF Readies
    <3>2. CASE h = top
      <4>1. stack'[h] = Step("finalized", n)
        BY <1>7, <3>2 DEF Readies
      <4> QED BY <1>0, <1>7, <3>2, <4>1, StepFields DEF NewStep
    <3>3. CASE h = top + 1 /\ Len(agenda') = top + 1 /\ parent[n] # NoNode
      <4>1. stack'[h] = Step("afterAttach", n)
        BY <1>7, <3>3 DEF Readies
      <4> QED BY <1>0, <1>7, <3>3, <4>1, StepFields DEF NewStep
    <3> QED BY <3>1, <3>2, <3>3
  <2>2. Popped
    BY <1>7, <2>0 DEF Popped
  <2> QED BY <2>0, <2>1, <2>2, PopsFrame
<1>8. ASSUME NEW n \in Node, Completes(n) PROVE \E b : Frame(b)
  <2>0. stack[top].do = "finalized" /\ stack[top].node = n /\ top > 0 /\ Kept(top - 1)
    BY <1>8 DEF Completes, OnTop, Is
  <2>1. ASSUME NEW h \in DOMAIN stack', h >= top PROVE NewStep(h)
    <3>1. PICK c \in Children(n) : stack'[h] = Step("finalize", c)
      BY <1>8, <2>1 DEF Completes
    <3> QED BY <1>0, <1>8, <3>1, StepFields DEF NewStep
  <2>2. Popped
    BY <1>8, <2>0 DEF Popped
  <2> QED BY <2>0, <2>1, <2>2, PopsFrame
<1>9. ASSUME NEW n \in Node, Reads(n) PROVE \E b : Frame(b)
  <2>1. ASSUME NEW h \in DOMAIN stack', h > top PROVE NewStep(h)
    <3>1. h = top + 1 /\ Alive(n)
      BY <1>0, <1>9, <2>1 DEF Reads
    <3>2. stack'[h] = Chained(n, ParentChain(n))
      BY <1>9, <3>1 DEF Reads
    <3>3. stack'[h].node = n /\ stack'[h].do = "afterCreate"
      BY <3>2 DEF Chained
    <3>4. NewCreation(h)
      BY <1>9, <3>1, <3>2, <3>3 DEF NewCreation
    <3> QED BY <1>0, <3>3, <3>4 DEF NewStep
  <2> QED BY <1>9, <2>1, ExtendsFrame DEF Reads
<1>10. ASSUME NEW x \in Node, NEW p \in Node, Attaches(x, p) PROVE \E b : Frame(b)
  <2>1. ASSUME NEW h \in DOMAIN stack', h > top PROVE NewStep(h)
    <3>1. h = top + 1 \/ h = top + 2
      BY <1>0, <1>10, <2>1 DEF Attaches
    <3>2. CASE h = top + 1
      <4>1. stack'[h] = [do |-> "store", node |-> x, arg |-> {p}]
        BY <1>10, <3>2 DEF Attaches
      <4> QED BY <1>10, <3>2, <4>1 DEF NewStep
    <3>3. CASE h = top + 2
      <4>1. stack'[h] = Step("afterAttach", x)
        BY <1>10, <3>3 DEF Attaches
      <4> QED BY <1>10, <3>3, <4>1, StepFields DEF NewStep
    <3> QED BY <3>1, <3>2, <3>3
  <2> QED BY <1>10, <2>1, ExtendsFrame DEF Attaches
<1>11. ASSUME NEW n \in Node, Detaches(n) PROVE \E b : Frame(b)
  <2>1. ASSUME NEW h \in DOMAIN stack', h > top PROVE NewStep(h)
    <3>1. h = top + 1 \/ h = top + 2
      BY <1>0, <1>11, <2>1 DEF Detaches
    <3>2. CASE h = top + 1
      <4>1. stack'[h] = Step("leave", n)
        BY <1>11, <3>2 DEF Detaches
      <4> QED BY <1>11, <3>2, <4>1, StepFields DEF NewStep
    <3>3. CASE h = top + 2
      <4>1. stack'[h] = Step("beforeDetach", n)
        BY <1>11, <3>3 DEF Detaches
      <4> QED BY <1>11, <3>3, <4>1, StepFields DEF NewStep
    <3> QED BY <3>1, <3>2, <3>3
  <2> QED BY <1>11, <2>1, ExtendsFrame DEF Detaches
<1>12. ASSUME NEW n \in Node, Destroys(n) PROVE \E b : Frame(b)
  <2>1. ASSUME NEW h \in DOMAIN stack', h > top PROVE NewStep(h)
    <3>1. h = top + 1 \/ h = top + 2
      BY <1>0, <1>12, <2>1 DEF Destroys
    <3>2. CASE h = top + 1
      <4>1. stack'[h] = Step("die", n)
        BY <1>12, <3>2 DEF Destroys
      <4> QED BY <1>12, <3>2, <4>1, StepFields DEF NewStep
    <3>3. CASE h = top + 2
      <4>1. stack'[h] = Step("aboutToDie", n)
        BY <1>12, <3>3 DEF Destroys
      <4>2. NewTelling(h)
        BY <1>12, <3>3, <4>1, StepFields DEF NewTelling
      <4> QED BY <1>12, <3>3, <4>1, <4>2, StepFields DEF NewStep
    <3> QED BY <3>1, <3>2, <3>3
  <2> QED BY <1>12, <2>1, ExtendsFrame DEF Destroys
<1>13. ASSUME NEW n \in Node, WalksOn(n) PROVE \E b : Frame(b)
  <2>0. stack[top].do = "aboutToDie" /\ stack[top].node = n /\ top > 0 /\ Kept(top - 1)
    BY <1>13 DEF WalksOn, OnTop, Is
  <2>1. ASSUME NEW h \in DOMAIN stack', h >= top PROVE NewStep(h)
    <3>1. CASE h = top
      <4>1. stack'[h] = [do |-> "childrenToldOf", node |-> n, arg |-> IF n \in built THEN Node ELSE Children(n)]
        BY <1>13, <3>1 DEF WalksOn
      <4> QED BY <1>13, <3>1, <4>1 DEF NewStep
    <3>2. CASE h > top /\ Told1(top, h, Children(n))
      <4>1. PICK c \in Children(n) : stack'[h] = Step("aboutToDie", c)
        BY <3>2 DEF Told1
      <4>2. stack'[h].node = c /\ stack'[h].do = "aboutToDie"
        BY <4>1, StepFields
      <4>3. NewTelling(h)
        BY <1>13, <3>2, <4>2 DEF NewTelling
      <4> QED BY <1>0, <4>2, <4>3 DEF NewStep
    <3>3. CASE h > top /\ ~Told1(top, h, Children(n))
      <4>1. h = Len(agenda') /\ BuiltForFarewell(n) # {} /\ stack'[h] = Chained(n, BuiltForFarewell(n))
        BY <1>13, <3>3 DEF WalksOn
      <4>2. stack'[h].node = n /\ stack'[h].do = "afterCreate"
        BY <4>1 DEF Chained
      <4>3. NewCreation(h)
        BY <1>13, <3>3, <4>1, <4>2 DEF NewCreation
      <4> QED BY <1>0, <4>2, <4>3 DEF NewStep
    <3> QED BY <1>0, <2>1, <3>1, <3>2, <3>3
  <2>2. Popped
    BY <1>13, <2>0 DEF Popped
  <2> QED BY <2>0, <2>1, <2>2, PopsFrame
<1>14. ASSUME NEW n \in Node, TellsRest(n) PROVE \E b : Frame(b)
  <2>0. stack[top].do = "childrenToldOf" /\ stack[top].node = n /\ top > 0 /\ Kept(top - 1)
    BY <1>14 DEF TellsRest, OnTop, Is
  <2>1. ASSUME NEW h \in DOMAIN stack', h >= top PROVE NewStep(h)
    <3>1. CASE h = top
      <4>1. stack'[h] = Step("dispose", n)
        BY <1>14, <3>1 DEF TellsRest
      <4> QED BY <1>14, <3>1, <4>1, StepFields DEF NewStep
    <3>2. CASE h = top + 1
      <4>1. stack'[h] = Step("beforeDestroy", n)
        BY <1>14, <3>2 DEF TellsRest
      <4> QED BY <1>14, <3>2, <4>1, StepFields DEF NewStep
    <3>3. CASE h > top + 1
      <4>1. Told1(top + 1, h, Children(n) \ stack[top].arg)
        BY <1>14, <3>3 DEF TellsRest
      <4>2. PICK c \in Children(n) \ stack[top].arg : stack'[h] = Step("aboutToDie", c)
        BY <4>1 DEF Told1
      <4>3. stack'[h].node = c /\ stack'[h].do = "aboutToDie"
        BY <4>2, StepFields
      <4>4. NewTelling(h)
        BY <1>14, <3>3, <4>1, <4>3 DEF NewTelling
      <4> QED BY <1>0, <4>3, <4>4 DEF NewStep
    <3> QED BY <1>0, <2>1, <3>1, <3>2, <3>3
  <2>2. Popped
    BY <1>14, <2>0 DEF Popped
  <2> QED BY <2>0, <2>1, <2>2, PopsFrame
<1> QED BY <1>1, <1>2, <1>3, <1>4, <1>5, <1>6, <1>7, <1>8, <1>9, <1>10, <1>11, <1>12, <1>13, <1>14 DEF Effect

-----------------------------------------------------------------------------
(* A step with a frame *)

Moves(b) == Typed /\ Typed' /\ Effect /\ Frame(b)

Low(h, b) == h \in DOMAIN stack /\ h \in DOMAIN stack' /\ h <= b /\ stack'[h] = stack[h]

\* In a step with a frame every height is kept, popped or new.
LEMMA MovesFacts ==
  ASSUME NEW b, Moves(b)
  PROVE  /\ top \in Nat /\ b \in Nat /\ b \in {top, top - 1} /\ Len(agenda') \in Nat
         /\ DOMAIN stack = 1 .. top /\ DOMAIN stack' = 1 .. Len(agenda')
         /\ \A h \in DOMAIN stack' : Low(h, b) \/ (h > b /\ NewStep(h))
         /\ \A h \in DOMAIN stack : Low(h, b) \/ (h = top /\ b = top - 1 /\ Popped)
         /\ \A h \in 1 .. b : Low(h, b)
         /\ \A h \in DOMAIN stack : stack[h] \in StepRecord /\ stack[h].node \in Node /\ About(stack[h]) \subseteq Node
         /\ \A h \in DOMAIN stack' : stack'[h] \in StepRecord /\ stack'[h].node \in Node /\ About(stack'[h]) \subseteq Node
<1>1. Typed /\ Typed' /\ Frame(b)
  BY DEF Moves
<1>2. \A h \in DOMAIN stack : stack[h] \in StepRecord
  BY <1>1, StackFacts
<1>3. \A h \in DOMAIN stack' : stack'[h] \in StepRecord
  BY <1>1, NewStackFacts
<1>4. \A s \in StepRecord : s.node \in Node /\ About(s) \subseteq Node
  BY DEF StepRecord, About
<1>5. top \in Nat /\ b \in Nat /\ b \in {top, top - 1} /\ Len(agenda') \in Nat
      /\ DOMAIN stack = 1 .. top /\ DOMAIN stack' = 1 .. Len(agenda') /\ b <= Len(agenda')
  BY <1>1, Domains DEF Frame, Typed, top, Kept
<1>6. \A h \in 1 .. b : Low(h, b)
  BY <1>1, <1>5 DEF Low, Frame, Kept
<1>7. ASSUME NEW h \in DOMAIN stack' PROVE Low(h, b) \/ (h > b /\ NewStep(h))
  <2>1. h \in 1 .. b \/ h > b
    BY <1>5
  <2> QED BY <1>1, <1>6, <2>1 DEF Frame
<1>8. ASSUME NEW h \in DOMAIN stack PROVE Low(h, b) \/ (h = top /\ b = top - 1 /\ Popped)
  <2>1. h \in 1 .. b \/ (h = top /\ b = top - 1)
    BY <1>5
  <2>2. b = top - 1 => Popped
    <3>1. top # top - 1
      BY <1>5
    <3> QED BY <1>1, <3>1 DEF Frame
  <2> QED BY <1>6, <2>1, <2>2
<1> QED BY <1>2, <1>3, <1>4, <1>5, <1>6, <1>7, <1>8

-----------------------------------------------------------------------------
(* What a step changes *)

\* Who changes a parent
LEMMA ParentChanges ==
  ASSUME NEW b, Moves(b)
  PROVE  \/ parent' = parent
         \/ \E x \in Node, p \in Node : Attaches(x, p)
         \/ \E x \in Node : Leaves(x)
         \/ \E d \in Node : Dies(d)
<1>1. Effect
  BY DEF Moves
<1> QED BY <1>1 DEF Effect, Passes, Returns, Same, Disposes, Waits, Skips, Ends, Announces, Fires, Readies,
            Completes, Reads, Builds, Detaches, Destroys, WalksOn, TellsRest

\* Who changes a life
LEMMA LifeChanges ==
  ASSUME NEW b, Moves(b)
  PROVE  \/ life' = life
         \/ \E n \in Node : Completes(n) \/ Reads(n) \/ WalksOn(n) \/ Dies(n)
<1>1. Effect
  BY DEF Moves
<1> QED BY <1>1 DEF Effect, Passes, Returns, Same, Disposes, Waits, Skips, Ends, Announces, Fires, Readies,
            Attaches, Leaves, Detaches, Destroys, TellsRest

\* Who makes an instance
LEMMA BuiltChanges ==
  ASSUME NEW b, Moves(b)
  PROVE  built' = built \/ \E n \in Node : Reads(n) \/ WalksOn(n)
<1>1. Effect
  BY DEF Moves
<1> QED BY <1>1 DEF Effect, Passes, Returns, Same, Disposes, Waits, Skips, Ends, Announces, Fires, Readies,
            Completes, Attaches, Leaves, Detaches, Destroys, TellsRest, Dies

\* Who is heard
LEMMA HeardChanges ==
  ASSUME NEW b, Moves(b)
  PROVE  heard' = heard \/ \E n \in Node : Announces(n) \/ \E hook \in Hooks : Fires(n, hook)
<1>1. Effect
  BY DEF Moves
<1> QED BY <1>1 DEF Effect, Passes, Returns, Same, Disposes, Waits, Skips, Ends, Readies,
            Completes, Reads, Builds, Attaches, Leaves, Detaches, Destroys, WalksOn, TellsRest, Dies

\* Instances stay instances.
LEMMA BuiltGrows ==
  ASSUME NEW b, Moves(b)
  PROVE  built \subseteq built'
BY BuiltChanges DEF Reads, WalksOn, Builds

\* The dead stay dead, and only die kills.
LEMMA LivesEnd ==
  ASSUME IInv, NEW b, Moves(b)
  PROVE  \A n \in Node : /\ Alive(n)' => Alive(n)
                         /\ Alive(n) /\ ~Alive(n)' => \E d \in Node : Dies(d) /\ n \in Below(d)
<1> SUFFICES ASSUME NEW n \in Node
             PROVE  /\ Alive(n)' => Alive(n)
                    /\ Alive(n) /\ ~Alive(n)' => \E d \in Node : Dies(d) /\ n \in Below(d)
  OBVIOUS
<1>0. life \in [Node -> Lives]
  BY DEF IInv, Typed
<1>1. CASE life' = life
  BY <1>1 DEF Alive
<1>2. ASSUME NEW c \in Node, Completes(c)
      PROVE  Alive(n)' <=> Alive(n)
  <2>1. Alive(c)
    <3>1. top \in DOMAIN stack /\ stack[top].do = "finalized" /\ c \in About(stack[top])
      BY <1>2, MovesFacts DEF Completes, OnTop, Is, About
    <3> QED BY <3>1 DEF IInv, OfTheLiving, Finishing
  <2> QED BY <1>0, <1>2, <2>1 DEF Completes, Alive
<1>3. ASSUME NEW c \in Node, Reads(c) \/ WalksOn(c)
      PROVE  Alive(n)' <=> Alive(n)
  BY <1>0, <1>3 DEF Reads, WalksOn, Builds, Alive
<1>4. ASSUME NEW d \in Node, Dies(d)
      PROVE  /\ Alive(n)' => Alive(n)
             /\ Alive(n) /\ ~Alive(n)' => n \in Below(d)
  BY <1>0, <1>4 DEF Dies, Alive
<1> QED BY <1>1, <1>2, <1>3, <1>4, LifeChanges

-----------------------------------------------------------------------------
(* The tree *)

\* What is above a live node is alive.
LEMMA AliveAbove ==
  ASSUME Typed, LifeOfNodes, NEW n \in Node, Alive(n)
  PROVE  \A m \in Above(n) : Alive(m)
<1> DEFINE S == {m \in Node : Alive(m)}
<1>1. \A m \in S : parent[m] # NoNode => parent[m] \in S
  BY DEF Typed, ParentFunction, LifeOfNodes
<1>2. Above(n) \subseteq S
  <2>1. S \in SUBSET Node /\ n \in S
    OBVIOUS
  <2> HIDE DEF S
  <2> QED BY <1>1, <2>1, AncestorsLeast DEF Above
<1> QED BY <1>2

\* Nothing is being stored below m.
Free(m) == \A x \in Node : On("store", x) => m \notin Above(parent[x])

Beneath(m) == {n \in Node : m \in Above(n)}

\* Where nothing is being stored, getChildren() reaches what is below.
LEMMA BelowIs ==
  ASSUME Typed, NEW m \in Node, Free(m)
  PROVE  Below(m) = Beneath(m) /\ Children(m) = {c \in Node : parent[c] = m}
<1>1. /\ holder \in ParentFunction
      /\ \A z \in Node : holder[z] = IF On("store", z) THEN NoNode ELSE parent[z]
      /\ \A z \in Node : Climb(holder, z) = Ancestors(holder, z)
      /\ \A z \in Node : Ancestors(holder, z) \subseteq Above(z)
      /\ NoNode \notin Node
  BY HolderFacts, ObjectNodesAssumption
<1>2. Below(m) \subseteq Beneath(m)
  BY <1>1 DEF Below, Beneath
<1>3. ASSUME NEW n \in Node, m \in Above(n), m \notin Ancestors(holder, n)
      PROVE  FALSE
  <2> DEFINE S == Ancestors(holder, n) \cup {z \in Node : m \notin Above(z)}
  <2>1. S \in SUBSET Node /\ n \in S
    BY AncestorsSelf, AncestorsType
  <2>2. ASSUME NEW z \in S, parent[z] # NoNode PROVE parent[z] \in S
    <3>0. z \in Node /\ parent[z] \in Node
      BY <2>1, <2>2 DEF Typed, ParentFunction
    <3>1. CASE z \in Ancestors(holder, n) /\ On("store", z)
      BY <3>0, <3>1 DEF Free
    <3>2. CASE z \in Ancestors(holder, n) /\ ~On("store", z)
      <4>1. holder[z] = parent[z]
        BY <1>1, <3>0, <3>2
      <4> QED BY <1>1, <2>2, <3>2, <4>1, AncestorsStep
    <3>3. CASE m \notin Above(z)
      BY <2>2, <3>0, <3>3, AboveFacts
    <3> QED BY <3>1, <3>2, <3>3
  <2>3. Above(n) \subseteq S
    <3> HIDE DEF S
    <3> QED BY <2>1, <2>2, AncestorsLeast DEF Above
  <2> QED BY <1>3, <2>3, AboveFacts
<1>4. Beneath(m) \subseteq Below(m)
  BY <1>1, <1>3 DEF Below, Beneath
<1>5. ASSUME NEW c \in Node
      PROVE  holder[c] = m <=> parent[c] = m
  <2>1. m \in Above(m)
    BY AboveFacts
  <2> QED BY <1>1, <2>1 DEF Free
<1> QED BY <1>2, <1>4, <1>5 DEF Children

\* Nothing is being stored below a node that is not underway.
LEMMA FreeIfNotUnderway ==
  ASSUME Typed, Storing, NEW m \in Node, ~Underway(m)
  PROVE  Free(m)
<1> SUFFICES ASSUME NEW x \in Node, On("store", x) PROVE m \notin Above(parent[x])
  BY DEF Free
<1>1. PICK h \in DOMAIN stack : stack[h].do = "store" /\ stack[h].node = x
  BY DEF On, Is
<1>2. Firm(stack[h]) /\ parent[x] \in About(stack[h])
  BY <1>1 DEF Storing, Firm, About
<1> QED BY <1>2, NotUnderway

\* Nor below a node that the step on top takes away.
LEMMA FreeIfTaken ==
  ASSUME Typed, Storing, NothingTaken, top > 0, stack[top].do \in Taking
  PROVE  Free(stack[top].node)
<1> SUFFICES ASSUME NEW x \in Node, On("store", x) PROVE stack[top].node \notin Above(parent[x])
  BY DEF Free
<1>1. PICK h \in DOMAIN stack : stack[h].do = "store" /\ stack[h].node = x
  BY DEF On, Is
<1>2. Firm(stack[h]) /\ parent[x] \in About(stack[h])
  BY <1>1 DEF Storing, Firm, About
<1>3. h < top /\ top \in DOMAIN stack
  <2>1. DOMAIN stack = 1 .. top /\ top \in Nat
    BY StackFacts DEF top
  <2>2. h # top
    BY <1>1 DEF Taking, Telling
  <2> QED BY <2>1, <2>2
<1>4. ~Precedes(stack[h], stack[top], top = h + 1)
  BY <1>1 DEF Precedes
<1> QED BY <1>2, <1>3, <1>4 DEF NothingTaken

-----------------------------------------------------------------------------
(* Links that stay *)

Steady(n) ==
  /\ Above(n)' = Above(n)
  /\ \A m \in Above(n) : parent'[m] = parent[m]

\* Links that stay lead to the same nodes.
LEMMA SteadyIf ==
  ASSUME Typed, Typed', NEW n \in Node, \A m \in Above(n) : parent'[m] = parent[m]
  PROVE  Steady(n)
<1>1. Ancestors(parent', n) = Ancestors(parent, n)
  BY SameLinks DEF Typed, Above
<1> QED BY <1>1 DEF Steady, Above

\* What is above a steady node is steady.
LEMMA SteadyAbove ==
  ASSUME Typed, Typed', NEW n \in Node, Steady(n), NEW m \in Above(n)
  PROVE  Steady(m)
<1>1. m \in Node /\ Above(m) \subseteq Above(n)
  BY AboveFacts
<1> QED BY <1>1, SteadyIf DEF Steady

\* The links above a node stay when nothing above it is attached or taken away.
LEMMA SteadyUnless ==
  ASSUME NEW b, Moves(b), NEW n \in Node,
         \A x \in Above(n), p \in Node : ~Attaches(x, p),
         \A x \in Above(n) : ~Leaves(x),
         \A d \in Above(n) : ~Dies(d)
  PROVE  Steady(n)
<1>0. Typed /\ Typed'
  BY DEF Moves
<1>1. Above(n) \subseteq Node
  BY <1>0, AboveFacts
<1>2. CASE parent' = parent
  BY <1>0, <1>2, SteadyIf
<1>3. ASSUME NEW x \in Node, NEW p \in Node, Attaches(x, p) PROVE Steady(n)
  <2>1. parent' = [parent EXCEPT ![x] = p] /\ x \notin Above(n)
    BY <1>3 DEF Attaches
  <2>2. \A m \in Above(n) : parent'[m] = parent[m]
    BY <1>0, <1>1, <2>1 DEF Typed, ParentFunction
  <2> QED BY <1>0, <2>2, SteadyIf
<1>4. ASSUME NEW x \in Node, Leaves(x) PROVE Steady(n)
  <2>1. parent' = [parent EXCEPT ![x] = NoNode] /\ x \notin Above(n)
    BY <1>4 DEF Leaves
  <2>2. \A m \in Above(n) : parent'[m] = parent[m]
    BY <1>0, <1>1, <2>1 DEF Typed, ParentFunction
  <2> QED BY <1>0, <2>2, SteadyIf
<1>5. ASSUME NEW d \in Node, Dies(d) PROVE Steady(n)
  <2>1. d \notin Above(n)
    BY <1>5
  <2>2. \A m \in Above(n) : d \notin Above(m)
    BY <1>0, <1>1, <2>1, AboveFacts
  <2>3. \A m \in Above(n) : m \notin Below(d)
    BY <1>0, <1>1, <2>2, HolderFacts DEF Below
  <2>4. \A m \in Above(n) : parent'[m] = parent[m]
    BY <1>1, <1>5, <2>3 DEF Dies
  <2> QED BY <1>0, <2>4, SteadyIf
<1> QED BY <1>2, <1>3, <1>4, <1>5, ParentChanges

\* What is on top, and what user code could do
LEMMA TopIs ==
  ASSUME NEW b, Moves(b)
  PROVE  /\ \A x \in Node : Leaves(x) => top \in DOMAIN stack /\ stack[top].do = "leave" /\ stack[top].node = x
         /\ \A d \in Node : Dies(d) => top \in DOMAIN stack /\ stack[top].do = "die" /\ stack[top].node = d
BY MovesFacts DEF Leaves, Dies, OnTop, Is

\* The nodes of a firm step that stays are steady, and they live on.
LEMMA FirmFixed ==
  ASSUME IInv, NEW b, Moves(b), NEW h, Low(h, b), Firm(stack[h]), NEW n \in About(stack[h])
  PROVE  Steady(n) /\ n \in Node /\ Alive(n) /\ Alive(n)'
<1>0. /\ Typed /\ Storing /\ NothingTaken /\ OfTheLiving
      /\ h \in DOMAIN stack /\ h <= b /\ n \in Node /\ top \in Nat /\ b \in {top, top - 1} /\ b \in Nat
      /\ DOMAIN stack = 1 .. top
  BY MovesFacts DEF IInv, Low
<1>1. \A x \in Above(n), p \in Node : ~Attaches(x, p)
  <2> SUFFICES ASSUME NEW x \in Above(n), NEW p \in Node, Attaches(x, p) PROVE FALSE
    OBVIOUS
  <2>1. ~Underway(x) /\ x \in Node
    BY <1>0, AboveFacts DEF Attaches
  <2> QED BY <1>0, <2>1, NotUnderway
<1>2. ASSUME stack[top].do \in {"leave", "die"}, top \in DOMAIN stack, stack[top].node \in Above(n), top > h
      PROVE  FALSE
  <2>1. ~Precedes(stack[h], stack[top], top = h + 1)
    BY <1>2 DEF Precedes
  <2> QED BY <1>0, <1>2, <2>1 DEF NothingTaken, Taking, Telling
<1>3. \A x \in Above(n) : ~Leaves(x)
  <2> SUFFICES ASSUME NEW x \in Above(n), Leaves(x) PROVE FALSE
    OBVIOUS
  <2>1. x \in Node
    BY <1>0, AboveFacts
  <2>2. top > h
    <3>1. Shortens /\ Kept(b)
      BY DEF Leaves, Moves, Frame
    <3>2. b # top
      BY <1>0, <3>1 DEF Shortens, Kept
    <3> QED BY <1>0, <3>2
  <2> QED BY <1>2, <2>1, <2>2, TopIs
<1>4. \A d \in Above(n) : ~Dies(d)
  <2> SUFFICES ASSUME NEW d \in Above(n), Dies(d) PROVE FALSE
    OBVIOUS
  <2>1. d \in Node
    BY <1>0, AboveFacts
  <2>2. top > h
    <3>1. Shortens /\ Kept(b)
      BY DEF Dies, Moves, Frame
    <3>2. b # top
      BY <1>0, <3>1 DEF Shortens, Kept
    <3> QED BY <1>0, <3>2
  <2> QED BY <1>2, <2>1, <2>2, TopIs
<1>5. Steady(n)
  BY <1>0, <1>1, <1>3, <1>4, SteadyUnless
<1>6. Alive(n)
  BY <1>0 DEF OfTheLiving
<1>7. Alive(n)'
  <2> SUFFICES ASSUME ~Alive(n)' PROVE FALSE
    OBVIOUS
  <2>1. PICK d \in Node : Dies(d) /\ n \in Below(d)
    BY <1>0, <1>6, LivesEnd
  <2>2. d \in Above(n)
    BY <1>0, <2>1, HolderFacts DEF Below
  <2> QED BY <1>4, <2>1, <2>2
<1> QED BY <1>0, <1>5, <1>6, <1>7

-----------------------------------------------------------------------------
(* Hooks *)

\* Only the node of a hook hears it.
LEMMA HeardFire ==
  ASSUME Typed, NEW n \in Node, NEW hook \in Hooks, heard' = [heard EXCEPT ![n] = Append(@, hook)]
  PROVE  /\ heard'[n] # <<>> /\ Last(heard'[n]) = hook
         /\ \A m \in Node : m # n => heard'[m] = heard[m]
<1>1. heard \in [Node -> Seq(Hooks)] /\ heard[n] \in Seq(Hooks)
  BY DEF Typed
<1>2. heard'[n] = Append(heard[n], hook)
  BY <1>1
<1>3. PICK s \in Seq(Hooks) : s = heard[n]
  BY <1>1
<1>4. /\ Append(s, hook) \in Seq(Hooks) /\ Len(Append(s, hook)) = Len(s) + 1 /\ Len(s) \in Nat
      /\ Append(s, hook)[Len(s) + 1] = hook
  BY AppendProperties
<1>5. Append(s, hook) # <<>>
  BY <1>4, EmptySeq
<1> QED BY <1>1, <1>2, <1>3, <1>4, <1>5 DEF Last

\* Farewells last.
LEMMA SaidStays ==
  ASSUME IInv, NEW b, Moves(b), NEW n \in Node
  PROVE  /\ SaidFarewell(n) => SaidFarewell(n)'
         /\ SaidFarewell(n)' /\ ~SaidFarewell(n) => Fires(n, "beforeDestroy")
<1>0. Typed /\ Creating /\ Attaching /\ Detaching /\ DOMAIN stack = 1 .. top /\ top \in Nat
  BY MovesFacts DEF IInv
<1>1. CASE heard' = heard
  BY <1>1 DEF SaidFarewell
<1>2. ASSUME NEW m \in Node, Announces(m)
      PROVE  (SaidFarewell(n) => SaidFarewell(n)') /\ (SaidFarewell(n)' => SaidFarewell(n))
  <2>1. top \in DOMAIN stack /\ stack[top].do = "afterCreate" /\ stack[top].node = m
    BY <1>0, <1>2 DEF Announces, OnTop, Is
  <2>2. heard[m] = <<>>
    BY <1>0, <2>1 DEF Creating, About
  <2>3. heard'[m] # <<>> /\ Last(heard'[m]) = "afterCreate" /\ \A z \in Node : z # m => heard'[z] = heard[z]
    BY <1>0, <1>2, HeardFire DEF Announces, Hooks
  <2> QED BY <2>2, <2>3 DEF SaidFarewell
<1>3. ASSUME NEW m \in Node, NEW hook \in Hooks, Fires(m, hook)
      PROVE  /\ SaidFarewell(n) => SaidFarewell(n)'
             /\ SaidFarewell(n)' /\ ~SaidFarewell(n) => Fires(n, "beforeDestroy")
  <2>1. top \in DOMAIN stack /\ stack[top].do = hook /\ stack[top].node = m
        /\ hook \in {"afterAttach", "beforeDetach", "beforeDestroy"}
    BY <1>0, <1>3 DEF Fires, OnTop, Is
  <2>2. hook # "beforeDestroy" => ~SaidFarewell(m)
    BY <1>0, <2>1 DEF Attaching, Detaching, SaidFarewell
  <2>3. heard'[m] # <<>> /\ Last(heard'[m]) = hook /\ \A z \in Node : z # m => heard'[z] = heard[z]
    BY <1>0, <1>3, HeardFire DEF Fires
  <2> QED BY <1>3, <2>2, <2>3 DEF SaidFarewell
<1> QED BY <1>1, <1>2, <1>3, HeardChanges

-----------------------------------------------------------------------------
(* Walks *)

Comes(h, n) ==
  \/ stack[h].do = "aboutToDie" /\ stack[h].node \in Above(n)
  \/ stack[h].do = "childrenToldOf" /\ \E c \in Above(n) : parent[c] = stack[h].node /\ c \notin stack[h].arg

\* Past, by the walks up the parents
LEMMA PastIs ==
  ASSUME Typed, NEW n \in Node, NEW k
  PROVE  Past(k, n) <=> /\ stack[k].do = "die" /\ stack[k].node \in Above(n)
                        /\ \A h \in DOMAIN stack : h > k => ~Comes(h, n)
<1>1. \A h \in DOMAIN stack : ComesTo(stack[h], n) <=> Comes(h, n)
  BY UpIs DEF ComesTo, Comes
<1> QED BY <1>1 DEF Past

\* The same after a step
LEMMA PastIsNow ==
  ASSUME Typed', NEW n \in Node, NEW k
  PROVE  Past(k, n)' <=> /\ stack'[k].do = "die" /\ stack'[k].node \in Above(n)'
                         /\ \A h \in DOMAIN stack' : h > k => ~Comes(h, n)'
<1>1. Up(n)' = Above(n)'
  BY ClimbReaches, ObjectNodesAssumption DEF Typed, Up, Above
<1> QED BY <1>1 DEF Past, ComesTo, Comes

\* What comes to a node comes to all below it.
LEMMA ComesUp ==
  ASSUME Typed, NEW n \in Node, NEW x \in Above(n), NEW h, Comes(h, x)
  PROVE  Comes(h, n)
<1>1. Above(x) \subseteq Above(n)
  BY AboveFacts
<1> QED BY <1>1 DEF Comes

\* What is past stays past as long as the node lives.
LEMMA PastUp ==
  ASSUME Typed, NEW n \in Node, NEW k, Past(k, n), NEW x \in Above(n), stack[k].node \in Above(x)
  PROVE  Past(k, x)
<1>1. x \in Node
  BY AboveFacts
<1> QED BY <1>1, PastIs, ComesUp

\* A node that a death is past keeps its links.
LEMMA PastFixed ==
  ASSUME IInv, NEW b, Moves(b), NEW k, Low(k, b), NEW n \in Node, Past(k, n), Alive(n)'
  PROVE  Steady(n)
<1>0. /\ Typed /\ Storing /\ NothingTaken /\ LeavingEarly
      /\ k \in DOMAIN stack /\ k <= b /\ top \in Nat /\ b \in {top, top - 1} /\ b \in Nat
      /\ DOMAIN stack = 1 .. top
  BY MovesFacts DEF IInv, Low
<1> DEFINE d == stack[k].node
<1>1. stack[k].do = "die" /\ d \in Above(n) /\ (\A h \in DOMAIN stack : h > k => ~Comes(h, n)) /\ d \in Node
  BY <1>0, PastIs, AboveFacts
<1>2. Firm(stack[k]) /\ d \in About(stack[k])
  BY <1>1 DEF Firm, About
<1>3. \A x \in Above(n), p \in Node : ~Attaches(x, p)
  <2> SUFFICES ASSUME NEW x \in Above(n), NEW p \in Node, Attaches(x, p) PROVE FALSE
    OBVIOUS
  <2>1. ~Underway(x) /\ x \in Node /\ parent[x] = NoNode
    BY <1>0, AboveFacts DEF Attaches
  <2>2. x \notin Above(d)
    BY <1>0, <1>2, <2>1, NotUnderway
  <2>3. d \in Above(x)
    BY <1>0, <1>1, <2>2, AboveLine
  <2>4. d = x
    BY <1>0, <2>1, <2>3, AboveFacts
  <2> QED BY <1>0, <1>1, <2>2, <2>4, AboveFacts
<1>4. \A x \in Above(n) : ~Leaves(x)
  <2> SUFFICES ASSUME NEW x \in Above(n), Leaves(x) PROVE FALSE
    OBVIOUS
  <2>1. x \in Node
    BY <1>0, AboveFacts
  <2>2. top \in DOMAIN stack /\ stack[top].do = "leave" /\ stack[top].node = x
    BY <2>1, TopIs
  <2>3. k < top
    BY <1>0, <1>1, <2>2
  <2>4. CASE d \in Above(x)
    <3>1. k \in 1 .. top - 1
      BY <1>0, <2>3
    <3>2. PICK j \in k + 1 .. top - 1 : ComesTo(stack[j], x)
      BY <1>0, <1>1, <2>2, <2>4, <3>1 DEF LeavingEarly
    <3>3. j \in DOMAIN stack /\ j > k
      BY <1>0, <3>2
    <3>4. Comes(j, x)
      BY <1>0, <2>1, <3>2, UpIs DEF ComesTo, Comes
    <3> QED BY <1>0, <1>1, <3>3, <3>4, ComesUp
  <2>5. CASE x \in Above(d)
    <3>1. ~Precedes(stack[k], stack[top], top = k + 1)
      BY <2>2 DEF Precedes
    <3> QED BY <1>0, <1>2, <2>2, <2>3, <2>5, <3>1 DEF NothingTaken, Taking
  <2> QED BY <1>0, <1>1, <2>4, <2>5, AboveLine
<1>5. \A e \in Above(n) : ~Dies(e)
  <2> SUFFICES ASSUME NEW e \in Above(n), Dies(e) PROVE FALSE
    OBVIOUS
  <2>1. e \in Node
    BY <1>0, AboveFacts
  <2>2. top \in DOMAIN stack /\ stack[top].do = "die" /\ stack[top].node = e
    BY <2>1, TopIs
  <2>3. Free(e)
    <3>1. top > 0
      BY <1>0, <2>2
    <3> QED BY <1>0, <2>2, <3>1, FreeIfTaken DEF Taking, Telling
  <2>4. n \in Below(e)
    BY <1>0, <2>1, <2>3, BelowIs DEF Beneath
  <2> QED BY <2>4 DEF Dies, Alive
<1> QED BY <1>0, <1>3, <1>4, <1>5, SteadyUnless

\* What is past stays past as long as the node lives.
LEMMA PastStays ==
  ASSUME IInv, NEW b, Moves(b), NEW k, Low(k, b), NEW n \in Node, Past(k, n), Alive(n)'
  PROVE  Past(k, n)' /\ Steady(n)
<1>0. /\ Typed /\ Typed' /\ Storing
      /\ k \in DOMAIN stack /\ k \in DOMAIN stack' /\ k <= b /\ top \in Nat /\ b \in {top, top - 1} /\ b \in Nat
      /\ DOMAIN stack = 1 .. top /\ stack'[k] = stack[k]
  BY MovesFacts DEF IInv, Low, Moves
<1> DEFINE d == stack[k].node
<1>1. stack[k].do = "die" /\ d \in Above(n) /\ (\A h \in DOMAIN stack : h > k => ~Comes(h, n)) /\ d \in Node
  BY <1>0, PastIs, AboveFacts
<1>2. Firm(stack[k]) /\ d \in About(stack[k])
  BY <1>1 DEF Firm, About
<1>3. Steady(n)
  BY PastFixed
<1>4. Above(n)' = Above(n) /\ \A m \in Above(n) : parent'[m] = parent[m]
  BY <1>3 DEF Steady
<1>5. ASSUME NEW h \in DOMAIN stack', h > k, Comes(h, n)' PROVE FALSE
  <2>0. \/ stack'[h].do = "aboutToDie" /\ stack'[h].node \in Above(n)
        \/ stack'[h].do = "childrenToldOf" /\ \E c \in Above(n) : parent[c] = stack'[h].node /\ c \notin stack'[h].arg
    BY <1>4, <1>5 DEF Comes
  <2>1. CASE Low(h, b)
    <3>1. Comes(h, n) /\ h \in DOMAIN stack
      BY <2>0, <2>1 DEF Comes, Low
    <3> QED BY <1>1, <1>5, <3>1
  <2>2. ASSUME NEW m \in Node, WalksOn(m) \/ TellsRest(m) PROVE top \in DOMAIN stack /\ top > k
    <3>1. top > 0 /\ stack[top].do \in {"aboutToDie", "childrenToldOf"}
      BY <2>2 DEF WalksOn, TellsRest, OnTop, Is
    <3> QED BY <1>0, <1>1, <3>1
  <2>3. ASSUME NEW m \in Node, WalksOn(m), m \in Above(n) PROVE FALSE
    <3>1. Comes(top, n)
      BY <2>3 DEF WalksOn, OnTop, Is, Comes
    <3> QED BY <1>1, <2>2, <2>3, <3>1
  <2>4. CASE NewStep(h) /\ stack'[h].do = "childrenToldOf"
    <3>1. PICK m \in Node : WalksOn(m) /\ stack'[h].node = m
      BY <2>4 DEF NewStep
    <3>2. PICK c \in Above(n) : parent[c] = m
      BY <2>0, <2>4, <3>1
    <3>3. m \in Above(n)
      BY <1>0, <3>2, AboveFacts, ObjectNodesAssumption
    <3> QED BY <2>3, <3>1, <3>3
  <2>5. CASE NewStep(h) /\ stack'[h].do = "aboutToDie"
    <3> DEFINE c == stack'[h].node
    <3>0. c \in Above(n) /\ c \in Node
      BY <1>0, <2>0, <2>5, AboveFacts
    <3>1. NewTelling(h)
      BY <2>5 DEF NewStep
    <3>2. CASE Destroys(c)
      <4>1. ~Underway(c) /\ ~(\E q \in DOMAIN stack : Past(q, c))
        BY <3>2 DEF Destroys
      <4>2. c \notin Above(d)
        BY <1>0, <1>2, <3>0, <4>1, NotUnderway
      <4>3. d \in Above(c)
        BY <1>0, <1>1, <3>0, <4>2, AboveLine
      <4> QED BY <1>0, <3>0, <4>1, <4>3, PastUp
    <3>3. ASSUME NEW m \in Node, WalksOn(m), c \in Children(m) PROVE FALSE
      <4>1. Free(m)
        <5>1. top > 0 /\ stack[top].do = "aboutToDie" /\ stack[top].node = m
          BY <3>3 DEF WalksOn, OnTop, Is
        <5> QED BY <5>1, FreeIfTaken DEF Taking, Telling, IInv
      <4>2. parent[c] = m
        BY <1>0, <3>3, <4>1, BelowIs
      <4>3. m \in Above(n)
        BY <1>0, <3>0, <4>2, AboveFacts, ObjectNodesAssumption
      <4> QED BY <2>3, <3>3, <4>3
    <3>4. ASSUME NEW m \in Node, TellsRest(m), c \in Children(m) \ stack[top].arg PROVE FALSE
      <4>0. top > 0 /\ stack[top].do = "childrenToldOf" /\ stack[top].node = m
        BY <3>4 DEF TellsRest, OnTop, Is
      <4>1. Free(m)
        BY <4>0, FreeIfTaken DEF Taking, Telling, IInv
      <4>2. parent[c] = m
        BY <1>0, <3>4, <4>1, BelowIs
      <4>3. Comes(top, n)
        BY <3>0, <3>4, <4>0, <4>2 DEF Comes
      <4> QED BY <1>1, <2>2, <3>4, <4>3
    <3> QED BY <3>1, <3>2, <3>3, <3>4 DEF NewTelling
  <2>6. Low(h, b) \/ NewStep(h)
    BY MovesFacts
  <2> QED BY <2>0, <2>1, <2>4, <2>5, <2>6
<1> QED BY <1>0, <1>1, <1>3, <1>4, <1>5, PastIsNow

-----------------------------------------------------------------------------
(* The telling steps *)

DiesAbove(n) == \E d \in Above(n) : On("die", d)

\* Who is told dies.
LEMMA SayingDies ==
  ASSUME IInv, NEW h \in DOMAIN stack, NEW n \in Node, Saying(stack[h], n)
  PROVE  DiesAbove(n)
<1>1. PICK k \in 1 .. h - 1 : Past(k, n)
  BY DEF IInv, DiesSoon
<1>2. k \in DOMAIN stack
  BY StackFacts DEF IInv
<1>3. stack[k].do = "die" /\ stack[k].node \in Above(n)
  BY <1>1 DEF Past
<1> QED BY <1>2, <1>3 DEF DiesAbove, On, Is

\* Who is told of a death, dies.
LEMMA TellingDies ==
  ASSUME IInv, NEW h \in DOMAIN stack, stack[h].do \in Telling, Alive(stack[h].node)
  PROVE  DiesAbove(stack[h].node)
<1> DEFINE n == stack[h].node
<1>0. Typed /\ n \in Node /\ DOMAIN stack = 1 .. top /\ top \in Nat
  BY StackFacts DEF IInv, StepRecord, top
<1>1. CASE stack[h].do = "die"
  <2>1. On("die", n)
    BY <1>1 DEF On, Is
  <2>2. n \in Above(n)
    BY <1>0, AboveFacts
  <2> QED BY <2>1, <2>2 DEF DiesAbove
<1>2. CASE stack[h].do \in {"childrenToldOf", "beforeDestroy"}
  BY <1>0, <1>2, SayingDies DEF Saying
<1>3. CASE stack[h].do = "aboutToDie"
  <2>1. CASE h > 1 /\ Is(stack[h - 1], "die", n)
    <3>1. h - 1 \in DOMAIN stack
      BY <1>0, <2>1
    <3>2. On("die", n)
      BY <2>1, <3>1 DEF On
    <3>3. n \in Above(n)
      BY <1>0, AboveFacts
    <3> QED BY <3>2, <3>3 DEF DiesAbove
  <2>2. ASSUME parent[n] # NoNode, NEW h2 \in 1 .. h - 1, Saying(stack[h2], parent[n])
        PROVE  DiesAbove(n)
    <3>1. h2 \in DOMAIN stack /\ parent[n] \in Node /\ Above(parent[n]) \subseteq Above(n)
      BY <1>0, <2>2, AboveFacts
    <3>2. DiesAbove(parent[n])
      BY <2>2, <3>1, SayingDies
    <3> QED BY <3>1, <3>2 DEF DiesAbove
  <2> QED BY <1>3, <2>1, <2>2 DEF IInv, ToldBy
<1> QED BY <1>1, <1>2, <1>3 DEF Telling

OldStep(h) == h \in DOMAIN stack /\ h \in DOMAIN stack' /\ stack'[h] = stack[h]

\* The stack after a call that plans two steps
LEMMA CallHeights ==
  ASSUME NEW b, Moves(b), NEW n \in Node, Destroys(n) \/ Detaches(n) \/ \E p \in Node : Attaches(n, p)
  PROVE  /\ \A h \in DOMAIN stack' : (OldStep(h) /\ h <= top) \/ h = top + 1 \/ h = top + 2
         /\ top + 1 \in DOMAIN stack' /\ top + 2 \in DOMAIN stack'
         /\ \A h \in DOMAIN stack : OldStep(h)
         /\ Detaches(n) => parent' = parent
         /\ Destroys(n) => parent' = parent
<1>1. top \in Nat /\ DOMAIN stack = 1 .. top /\ DOMAIN stack' = 1 .. Len(agenda')
  BY MovesFacts
<1>2. Kept(top) /\ Len(agenda') = top + 2
  BY DEF Destroys, Detaches, Attaches
<1>3. Destroys(n) \/ Detaches(n) => parent' = parent
  BY DEF Destroys, Detaches, Same
<1>4. \A h \in 1 .. top : OldStep(h)
  BY <1>1, <1>2 DEF OldStep, Kept
<1> QED BY <1>1, <1>2, <1>3, <1>4

\* The stack after a walk goes on
LEMMA WalkHeights ==
  ASSUME NEW b, Moves(b), NEW n \in Node, WalksOn(n) \/ TellsRest(n)
  PROVE  /\ \A h \in DOMAIN stack' : (OldStep(h) /\ h < top) \/ h = top \/ h > top
         /\ top \in DOMAIN stack /\ top \in DOMAIN stack' /\ stack[top].node = n /\ parent' = parent
         /\ \A h \in DOMAIN stack : OldStep(h) \/ h = top
         /\ \A h \in DOMAIN stack : h < top => OldStep(h)
         /\ WalksOn(n) => stack[top].do = "aboutToDie" /\ Alive(n)
         /\ TellsRest(n) => stack[top].do = "childrenToldOf" /\ top + 1 \in DOMAIN stack'
<1>1. top \in Nat /\ DOMAIN stack = 1 .. top /\ DOMAIN stack' = 1 .. Len(agenda') /\ Len(agenda') \in Nat
  BY MovesFacts
<1>2. Kept(top - 1) /\ top > 0 /\ stack[top].node = n /\ parent' = parent
  BY DEF WalksOn, TellsRest, OnTop, Is, Builds, Same
<1>3. \A h \in 1 .. top - 1 : OldStep(h)
  BY <1>1, <1>2 DEF OldStep, Kept
<1>4. WalksOn(n) => stack[top].do = "aboutToDie" /\ Alive(n)
  BY DEF WalksOn, OnTop, Is
<1>5. TellsRest(n) => stack[top].do = "childrenToldOf" /\ top + 1 \in DOMAIN stack'
  BY DEF TellsRest, OnTop, Is
<1>6. top \in DOMAIN stack'
  BY <1>1, <1>2 DEF WalksOn, TellsRest
<1> QED BY <1>1, <1>2, <1>3, <1>4, <1>5, <1>6

\* New steps by what they do
LEMMA NewByKind ==
  ASSUME NEW h, NewStep(h)
  PROVE  /\ stack'[h].node \in Node
         /\ stack'[h].do = "clear" => Disposes(stack'[h].node) /\ h = top
         /\ stack'[h].do = "finalize" => Announces(stack'[h].node) \/ \E m \in Node : Completes(m) /\ stack'[h].node \in Children(m)
         /\ stack'[h].do = "finalized" => Readies(stack'[h].node) /\ h = top
         /\ stack'[h].do = "afterAttach" => \/ Readies(stack'[h].node) /\ h = top + 1 /\ h = Len(agenda') /\ parent[stack'[h].node] # NoNode
                                 \/ \E p \in Node : Attaches(stack'[h].node, p) /\ h = top + 2
         /\ stack'[h].do = "afterCreate" => NewCreation(h)
         /\ stack'[h].do = "store" => h = top + 1 /\ \E p \in Node : Attaches(stack'[h].node, p) /\ stack'[h].arg = {p}
         /\ stack'[h].do = "leave" => h = top + 1 /\ Detaches(stack'[h].node)
         /\ stack'[h].do = "beforeDetach" => h = top + 2 /\ Detaches(stack'[h].node)
         /\ stack'[h].do = "die" => h = top + 1 /\ Destroys(stack'[h].node)
         /\ stack'[h].do = "aboutToDie" => NewTelling(h)
         /\ stack'[h].do = "childrenToldOf" => /\ h = top /\ WalksOn(stack'[h].node)
                                    /\ stack'[h].arg = IF stack'[h].node \in built THEN Node ELSE Children(stack'[h].node)
         /\ stack'[h].do = "beforeDestroy" => h = top + 1 /\ TellsRest(stack'[h].node)
         /\ stack'[h].do = "dispose" => h = top /\ TellsRest(stack'[h].node)
BY DEF NewStep

\* What is between a node that is told and the step that tells it
LEMMA ToldBefore ==
  ASSUME NEW b, NEW h, NEW S, Told1(b, h, S)
  PROVE  /\ \E c \in S : stack'[h] = Step("aboutToDie", c)
         /\ \A j \in b + 1 .. h - 1 : stack'[j].do = "aboutToDie" /\ stack'[j].node \in S
                                     /\ stack'[j].node # stack'[h].node
<1>1. PICK c \in S : /\ stack'[h] = Step("aboutToDie", c)
                     /\ \A j \in b + 1 .. h - 1 : \E e \in S : stack'[j] = Step("aboutToDie", e) /\ e # c
  BY DEF Told1
<1>2. stack'[h].node = c
  BY <1>1, StepFields
<1>3. ASSUME NEW j \in b + 1 .. h - 1
      PROVE  stack'[j].do = "aboutToDie" /\ stack'[j].node \in S /\ stack'[j].node # c
  <2>1. PICK e \in S : stack'[j] = Step("aboutToDie", e) /\ e # c
    BY <1>1
  <2> QED BY <2>1, StepFields
<1> QED BY <1>1, <1>2, <1>3

\* Without a change of parents the nodes above are the same.
LEMMA SameAbove ==
  ASSUME parent' = parent, NEW n
  PROVE  Above(n)' = Above(n)
BY DEF Above

\* The children that a walk goes on to
LEMMA ToldChild ==
  ASSUME IInv, NEW b, Moves(b), NEW m \in Node, WalksOn(m) \/ TellsRest(m), NEW c \in Children(m)
  PROVE  /\ c \in Node /\ parent[c] = m /\ m \in Above(c) /\ c \notin Above(m)
         /\ \A n \in Node : c \in Above(n) => m \in Above(n) /\ n # m
<1>0. Typed
  BY DEF IInv
<1>1. Free(m)
  <2>1. top > 0 /\ stack[top].do \in Taking /\ stack[top].node = m
    BY DEF WalksOn, TellsRest, OnTop, Is, Taking, Telling
  <2> QED BY <2>1, FreeIfTaken DEF IInv
<1>2. c \in Node /\ parent[c] = m /\ m # NoNode
  BY <1>0, <1>1, BelowIs, ObjectNodesAssumption
<1>3. m \in Above(c) /\ c \notin Above(m)
  BY <1>0, <1>2, AboveFacts
<1> QED BY <1>0, <1>2, <1>3, AboveFacts

\* What is new on the stack when a walk goes on
LEMMA NewWhenTelling ==
  ASSUME NEW b, Moves(b), NEW n \in Node, WalksOn(n) \/ TellsRest(n), NEW h \in DOMAIN stack', h > top
  PROVE  \/ stack'[h].do \in {"aboutToDie", "afterCreate"} /\ stack'[h].node \in Children(n) \cup {n}
         \/ TellsRest(n) /\ h = top + 1 /\ stack'[h] = Step("beforeDestroy", n)
<1>1. CASE WalksOn(n)
  <2>1. Told1(top, h, Children(n)) \/ stack'[h] = Chained(n, BuiltForFarewell(n))
    BY <1>1 DEF WalksOn
  <2> QED BY <2>1 DEF Told1, Step, Chained
<1>2. CASE TellsRest(n)
  <2>0. h = top + 1 \/ h > top + 1
    BY MovesFacts
  <2>1. h > top + 1 => Told1(top + 1, h, Children(n) \ stack[top].arg)
    BY <1>2 DEF TellsRest
  <2>2. h = top + 1 => stack'[h] = Step("beforeDestroy", n)
    BY <1>2 DEF TellsRest
  <2>3. CASE h > top + 1
    <3>1. PICK c \in Children(n) : stack'[h] = Step("aboutToDie", c)
      BY <2>1, <2>3 DEF Told1
    <3> QED BY <3>1 DEF Step
  <2> QED BY <1>2, <2>0, <2>2, <2>3
<1> QED BY <1>1, <1>2

\* NothingTaken is preserved: a call is refused on what is underway.
LEMMA TakenStays ==
  ASSUME IInv, NEW b, Moves(b)
  PROVE  NothingTaken'
<1> SUFFICES ASSUME NEW h1 \in DOMAIN stack', NEW h2 \in DOMAIN stack', h1 < h2,
                    Firm(stack'[h1]), stack'[h2].do \in Taking, NEW n \in About(stack'[h1]),
                    stack'[h2].node \in Above(n)'
             PROVE  Precedes(stack'[h1], stack'[h2], h2 = h1 + 1)
  BY DEF NothingTaken
<1> DEFINE t == stack'[h2].node
<1>0. /\ Typed /\ Storing /\ NothingTaken /\ top \in Nat /\ DOMAIN stack = 1 .. top /\ b \in {top, top - 1}
      /\ DOMAIN stack' = 1 .. Len(agenda') /\ Len(agenda') \in Nat
      /\ n \in Node /\ t \in Node
  BY MovesFacts DEF IInv
<1>1. CASE Low(h2, b)
  <2>1. Low(h1, b)
    BY <1>0, <1>1, MovesFacts DEF Low
  <2>2. Steady(n)
    BY <2>1, FirmFixed DEF Low
  <2> QED BY <1>0, <1>1, <2>1, <2>2 DEF Low, Steady, NothingTaken
<1>2. ASSUME NEW m \in Node, Detaches(m) \/ Destroys(m), m \in Above(n), OldStep(h1) PROVE FALSE
  <2>1. ~Underway(m)
    BY <1>2 DEF Detaches, Destroys
  <2> QED BY <1>0, <1>2, <2>1, NotUnderway DEF OldStep
<1>3. CASE Detaches(t) /\ h2 = top + 1
  <2>1. t \in Above(n) /\ OldStep(h1)
    BY <1>0, <1>3, CallHeights, SameAbove
  <2> QED BY <1>0, <1>2, <1>3, <2>1
<1>4. CASE Destroys(t) /\ (h2 = top + 1 \/ h2 = top + 2) /\ (h2 = top + 2 => stack'[h2].do = "aboutToDie")
  <2>1. t \in Above(n) /\ (OldStep(h1) \/ (h1 = top + 1 /\ h2 = top + 2))
    BY <1>0, <1>4, CallHeights, SameAbove
  <2>2. CASE h1 = top + 1 /\ h2 = top + 2
    <3>1. stack'[h1] = Step("die", t)
      BY <1>4, <2>2 DEF Destroys
    <3>2. h2 = h1 + 1
      BY <1>0, <2>2
    <3> QED BY <1>4, <2>2, <3>1, <3>2 DEF Precedes, Step
  <2> QED BY <1>0, <1>2, <1>4, <2>1, <2>2
\* a walk that is below something else than the death it belongs to
<1>5. ASSUME NEW m \in Node, WalksOn(m) \/ TellsRest(m), m \in Above(n), OldStep(h1), h1 < top
      PROVE  stack[h1].do = "die" /\ stack[h1].node = m /\ n = m
  <2>1. top \in DOMAIN stack /\ stack[top].node = m /\ stack[top].do \in {"aboutToDie", "childrenToldOf"}
    BY <1>5, WalkHeights
  <2>2. Precedes(stack[h1], stack[top], top = h1 + 1)
    BY <1>0, <1>5, <2>1 DEF OldStep, NothingTaken, Taking, Telling
  <2>3. stack[h1].do = "die" /\ stack[h1].node = m
    BY <2>1, <2>2 DEF Precedes
  <2>4. stack[h1].arg = {}
    <3>1. stack[h1] \in StepRecord
      BY <1>5, MovesFacts DEF OldStep
    <3> QED BY <2>3, <3>1 DEF StepRecord
  <2> QED BY <1>5, <2>3, <2>4 DEF OldStep, About
<1>6. ASSUME NEW m \in Node, WalksOn(m) \/ TellsRest(m), t \in Children(m), h2 > top,
             \A j \in DOMAIN stack' : j > top /\ j < h2 => ~Firm(stack'[j]) \/ About(stack'[j]) = {m}
      PROVE  FALSE
  <2>1. t \in Above(n) /\ m \in Above(n) /\ n # m
    <3>1. t \in Above(n)
      BY <1>6, WalkHeights, SameAbove
    <3> QED BY <1>0, <1>6, <3>1, ToldChild
  <2>2. ~(OldStep(h1) /\ h1 < top)
    BY <1>5, <1>6, <2>1
  <2>3. h1 = top => About(stack'[h1]) = {m}
    BY <1>6 DEF WalksOn, TellsRest, Step, About
  <2> QED BY <1>6, <2>1, <2>2, <2>3, WalkHeights
<1>7. ASSUME NEW m \in Node, WalksOn(m), t \in Children(m), h2 > top, Told1(top, h2, Children(m))
      PROVE  FALSE
  <2>1. ASSUME NEW j \in DOMAIN stack', j > top, j < h2 PROVE ~Firm(stack'[j])
    <3>1. j \in top + 1 .. h2 - 1
      BY <1>0, <2>1
    <3>2. stack'[j].do = "aboutToDie"
      BY <1>7, <3>1, ToldBefore
    <3> QED BY <3>2 DEF Firm
  <2> QED BY <1>6, <1>7, <2>1
<1>8. ASSUME NEW m \in Node, TellsRest(m), t \in Children(m) \ stack[top].arg, h2 > top + 1,
             Told1(top + 1, h2, Children(m) \ stack[top].arg)
      PROVE  FALSE
  <2>1. ASSUME NEW j \in DOMAIN stack', j > top, j < h2
        PROVE  ~Firm(stack'[j]) \/ About(stack'[j]) = {m}
    <3>1. j = top + 1 \/ j \in top + 1 + 1 .. h2 - 1
      BY <1>0, <2>1
    <3>2. CASE j = top + 1
      BY <1>8, <3>2 DEF TellsRest, Step, About
    <3>3. CASE j \in top + 1 + 1 .. h2 - 1
      <4>1. stack'[j].do = "aboutToDie"
        BY <1>8, <3>3, ToldBefore
      <4> QED BY <4>1 DEF Firm
    <3> QED BY <3>1, <3>2, <3>3
  <2>2. h2 > top /\ t \in Children(m)
    BY <1>0, <1>8
  <2> QED BY <1>6, <1>8, <2>1, <2>2
<1>9. CASE stack'[h2].do = "aboutToDie" /\ NewTelling(h2)
  BY <1>4, <1>7, <1>8, <1>9 DEF NewTelling
<1>10. CASE stack'[h2].do = "childrenToldOf" /\ h2 = top /\ WalksOn(t)
  <2>1. t \in Above(n) /\ OldStep(h1)
    BY <1>10, WalkHeights, SameAbove, <1>0
  <2>2. stack[h1].do = "die" /\ stack[h1].node = t
    BY <1>0, <1>5, <1>10, <2>1
  <2> QED BY <1>10, <2>1, <2>2 DEF Precedes, OldStep
<1>11. CASE stack'[h2].do = "beforeDestroy" /\ h2 = top + 1 /\ TellsRest(t)
  <2>1. t \in Above(n)
    BY <1>0, <1>11, WalkHeights, SameAbove
  <2>2. (OldStep(h1) /\ h1 < top) \/ h1 = top
    BY <1>11, WalkHeights, <1>0
  <2>3. CASE h1 = top
    <3>1. stack'[h1].do = "dispose" /\ stack'[h1].node = t
      BY <1>11, <2>3 DEF TellsRest, Step
    <3> QED BY <1>11, <3>1 DEF Precedes
  <2>4. CASE OldStep(h1) /\ h1 < top
    <3>2. stack[h1].do = "die" /\ stack[h1].node = t
      BY <1>0, <1>5, <1>11, <2>1, <2>4
    <3> QED BY <1>11, <2>4, <3>2 DEF Precedes, OldStep
  <2> QED BY <2>2, <2>3, <2>4
<1>12. CASE NewStep(h2)
  <2>1. stack'[h2].do \in {"leave", "aboutToDie", "childrenToldOf", "beforeDestroy", "die"}
    BY DEF Taking, Telling
  <2>2. CASE stack'[h2].do = "leave"
    BY <1>3, <1>12, <2>2, NewByKind
  <2>3. CASE stack'[h2].do = "aboutToDie"
    BY <1>9, <1>12, <2>3, NewByKind
  <2>4. CASE stack'[h2].do = "childrenToldOf"
    BY <1>10, <1>12, <2>4, NewByKind
  <2>5. CASE stack'[h2].do = "beforeDestroy"
    BY <1>11, <1>12, <2>5, NewByKind
  <2>6. CASE stack'[h2].do = "die"
    <3>1. h2 = top + 1 /\ Destroys(t)
      BY <1>12, <2>6, NewByKind
    <3>2. top + 1 # top + 2
      BY <1>0
    <3> QED BY <1>4, <3>1, <3>2
  <2> QED BY <2>1, <2>2, <2>3, <2>4, <2>5, <2>6
<1> QED BY <1>1, <1>12, MovesFacts

\* The nodes above n after x was attached to p
LEMMA AttachAbove ==
  ASSUME Typed, NEW x \in Node, NEW p \in Node, Attaches(x, p), NEW n \in Node
  PROVE  Above(n)' = Above(n) \cup (IF x \in Above(n) THEN Above(p) ELSE {})
<1>1. /\ parent \in ParentFunction /\ Rooted(parent) /\ NoNode \notin Node
      /\ parent[x] = NoNode /\ x \notin Ancestors(parent, p) /\ parent' = [parent EXCEPT ![x] = p]
  BY ObjectNodesAssumption DEF Typed, Attaches, Above
<1>2. PICK par2 : par2 = parent'
  OBVIOUS
<1>3. par2 = [parent EXCEPT ![x] = p]
  BY <1>1, <1>2
<1>4. Linked(par2, parent, x, p)
  BY <1>1, <1>3, NewLink
<1> QED BY <1>2, <1>4 DEF Above, Linked

\* Without an attachment nothing new is above a node.
LEMMA FewerAbove ==
  ASSUME NEW b, Moves(b), NEW n \in Node, \A x, p \in Node : ~Attaches(x, p)
  PROVE  Above(n)' \subseteq Above(n) /\ \A m \in Node : parent'[m] \in {parent[m], NoNode}
<1>1. parent \in ParentFunction /\ parent' \in ParentFunction
  BY DEF Moves, Typed
<1>2. \A m \in Node : parent'[m] \in {parent[m], NoNode}
  BY <1>1, ParentChanges DEF Leaves, Dies, ParentFunction
<1>3. Ancestors(parent', n) \subseteq Ancestors(parent, n)
  BY <1>1, <1>2, FewerLinks
<1> QED BY <1>2, <1>3 DEF Above

\* NotRevived is preserved.
LEMMA RevivedStays ==
  ASSUME IInv, NEW b, Moves(b)
  PROVE  NotRevived'
<1> SUFFICES ASSUME NEW h1 \in DOMAIN stack', NEW h2 \in DOMAIN stack', h1 < h2,
                    Finishing(stack'[h1]), stack'[h2].do \in Telling,
                    stack'[h2].node \in Ancestors(parent', stack'[h1].node)
             PROVE  FALSE
  BY DEF NotRevived, Above
<1>a. PICK f \in Node : f = stack'[h1].node
  BY MovesFacts
<1>b. PICK t \in Node : t = stack'[h2].node
  BY MovesFacts
<1>c. t \in Above(f)'
  BY <1>a, <1>b DEF Above
<1>0. /\ Typed /\ Storing /\ NotRevived /\ LifeOfNodes /\ top \in Nat /\ DOMAIN stack = 1 .. top /\ b \in {top, top - 1}
      /\ DOMAIN stack' = 1 .. Len(agenda') /\ Len(agenda') \in Nat
      /\ f \in Node /\ t \in Node
  BY MovesFacts DEF IInv
<1>1. CASE Low(h2, b)
  <2>1. Low(h1, b)
    BY <1>0, <1>a, <1>b, <1>c, <1>1, MovesFacts DEF Low
  <2>2. h1 \in DOMAIN stack /\ h2 \in DOMAIN stack /\ stack[h1].node = f /\ stack[h2].node = t
        /\ Finishing(stack[h1]) /\ stack[h2].do \in Telling
    BY <1>a, <1>b, <1>1, <2>1 DEF Low
  <2>3. t \notin Above(f)
    BY <1>0, <1>a, <1>b, <1>c, <2>2 DEF NotRevived
  <2>4. PICK x \in Node, p \in Node : Attaches(x, p)
    BY <1>0, <1>a, <1>b, <1>c, <2>3, FewerAbove
  <2>5. x \in Above(f) /\ t \in Above(p)
    BY <1>0, <1>a, <1>b, <1>c, <2>3, <2>4, AttachAbove
  <2>6. Alive(p) /\ ~Underway(x) /\ ((\E d \in Above(p) : On("die", d)) => NothingFinishes(x))
    BY <2>4 DEF Attaches
  <2>7. Alive(t) /\ Above(t) \subseteq Above(p)
    BY <1>0, <1>a, <1>b, <1>c, <2>5, <2>6, AliveAbove, AboveFacts
  <2>8. DiesAbove(t)
    BY <2>2, <2>7, TellingDies
  <2>9. f \in Below(x)
    BY <1>0, <1>a, <1>b, <1>c, <2>5, <2>6, FreeIfNotUnderway, BelowIs DEF Beneath
  <2>10. On("finalized", f) \/ (DevMode /\ On("finalize", f))
    BY <2>2 DEF On, Is, Finishing
  <2> QED BY <2>6, <2>7, <2>8, <2>9, <2>10 DEF DiesAbove, NothingFinishes
<1>2. CASE Destroys(t)
  <2>1. t \in Above(f)
    BY <1>0, <1>a, <1>b, <1>c, <1>2, CallHeights, SameAbove
  <2>2. OldStep(h1)
    <3>1. h1 # top + 1
      BY <1>a, <1>2 DEF Destroys, Step, Finishing
    <3>2. h1 # top + 2
      BY <1>a, <1>2 DEF Destroys, Step, Finishing
    <3> QED BY <1>0, <1>a, <1>b, <1>c, <1>2, <3>1, <3>2, CallHeights
  <2>3. On("finalized", f) \/ (DevMode /\ On("finalize", f))
    BY <1>a, <2>2 DEF On, Is, OldStep, Finishing
  <2>4. f \in Below(t)
    <3>1. ~Underway(t)
      BY <1>2 DEF Destroys
    <3> QED BY <1>0, <1>a, <1>b, <1>c, <2>1, <3>1, FreeIfNotUnderway, BelowIs DEF Beneath
  <2> QED BY <1>2, <2>3, <2>4 DEF Destroys, NothingFinishes
<1>3. ASSUME NEW m \in Node, WalksOn(m) \/ TellsRest(m), m \in Above(f) PROVE FALSE
  <2>1. ~(OldStep(h1) /\ h1 < top)
    <3> SUFFICES ASSUME OldStep(h1), h1 < top PROVE FALSE
      OBVIOUS
    <3>1. top \in DOMAIN stack /\ stack[top].node = m /\ stack[top].do \in {"aboutToDie", "childrenToldOf"}
      BY <1>3, WalkHeights
    <3> QED BY <1>0, <1>a, <1>b, <1>c, <1>3, <3>1 DEF NotRevived, OldStep, Telling
  <2>2. h1 # top
    BY <1>a, <1>3 DEF WalksOn, TellsRest, Step, Finishing
  <2>3. h1 > top => ~Finishing(stack'[h1])
    BY <1>3, NewWhenTelling, StepFields DEF Finishing
  <2> QED BY <1>3, <2>1, <2>2, <2>3, WalkHeights
<1>4. ASSUME NEW m \in Node, WalksOn(m) \/ TellsRest(m), t \in Children(m) PROVE FALSE
  <2>1. t \in Above(f)
    BY <1>c, <1>4, WalkHeights, SameAbove
  <2> QED BY <1>0, <1>a, <1>b, <1>c, <1>3, <1>4, <2>1, ToldChild
<1>5. CASE WalksOn(t) \/ TellsRest(t)
  <2>1. t \in Above(f)
    BY <1>0, <1>a, <1>b, <1>c, <1>5, WalkHeights, SameAbove
  <2> QED BY <1>0, <1>a, <1>b, <1>c, <1>3, <1>5, <2>1
<1>6. CASE NewStep(h2)
  <2>1. stack'[h2].do \in {"aboutToDie", "childrenToldOf", "beforeDestroy", "die"}
    BY DEF Telling
  <2>2. CASE stack'[h2].do = "aboutToDie"
    <3>1. NewTelling(h2)
      BY <1>6, <2>2, NewByKind
    <3> QED BY <1>b, <1>2, <1>4, <3>1 DEF NewTelling
  <2>3. CASE stack'[h2].do = "childrenToldOf"
    BY <1>b, <1>5, <1>6, <2>3, NewByKind
  <2>4. CASE stack'[h2].do = "beforeDestroy"
    BY <1>b, <1>5, <1>6, <2>4, NewByKind
  <2>5. CASE stack'[h2].do = "die"
    BY <1>b, <1>2, <1>6, <2>5, NewByKind
  <2> QED BY <2>1, <2>2, <2>3, <2>4, <2>5
<1> QED BY <1>1, <1>6, MovesFacts

\* A node that is about to be finalized lives on, at its place.
LEMMA FinalizedFixed ==
  ASSUME IInv, NEW b, Moves(b), NEW h, Low(h, b), Finishing(stack[h]), NEW n, n = stack[h].node
  PROVE  /\ n \in Node /\ Alive(n) /\ Alive(n)'
         /\ stack[h].do = "finalized" => /\ parent'[n] = parent[n]
                                         /\ parent[n] # NoNode => Alive(parent[n])'
<1>0. /\ Typed /\ NotRevived /\ OfTheLiving /\ LifeOfNodes /\ Finalizing /\ Leaving
      /\ h \in DOMAIN stack /\ h <= b /\ top \in Nat /\ b \in {top, top - 1} /\ b \in Nat
      /\ DOMAIN stack = 1 .. top /\ n \in Node
  BY MovesFacts DEF IInv, Low
<1>1. Alive(n) /\ (stack[h].do = "finalized" => life[n] = "created")
  BY <1>0 DEF OfTheLiving, Finalizing, About
<1>2. ASSUME NEW d \in Node, Dies(d) PROVE d \notin Above(n)
  <2>1. top \in DOMAIN stack /\ stack[top].do = "die" /\ stack[top].node = d
    BY <1>2, TopIs
  <2>2. h < top
    BY <1>0, <2>1 DEF Finishing
  <2> QED BY <1>0, <2>1, <2>2 DEF NotRevived, Telling
<1>3. \A m \in Above(n) : Alive(m) => Alive(m)'
  <2> SUFFICES ASSUME NEW m \in Above(n), Alive(m), ~Alive(m)' PROVE FALSE
    OBVIOUS
  <2>0. m \in Node /\ Above(m) \subseteq Above(n)
    BY <1>0, AboveFacts
  <2>1. PICK d \in Node : Dies(d) /\ m \in Below(d)
    BY <2>0, LivesEnd
  <2>2. d \in Above(m)
    BY <1>0, <2>0, <2>1, HolderFacts DEF Below
  <2> QED BY <1>2, <2>0, <2>1, <2>2
<1>4. stack[h].do = "finalized" => parent'[n] = parent[n]
  <2> SUFFICES ASSUME stack[h].do = "finalized" PROVE parent'[n] = parent[n]
    OBVIOUS
  <2>1. ASSUME NEW x \in Node, NEW p \in Node, Attaches(x, p) PROVE parent'[n] = parent[n]
    BY <1>0, <1>1, <2>1 DEF Attaches, Typed, ParentFunction
  <2>2. ASSUME NEW x \in Node, Leaves(x) PROVE parent'[n] = parent[n]
    <3>1. life[x] = "finalized"
      BY <1>0, <2>2, TopIs DEF Leaving
    <3> QED BY <1>0, <1>1, <2>2, <3>1 DEF Leaves, Typed, ParentFunction
  <2>3. ASSUME NEW d \in Node, Dies(d) PROVE parent'[n] = parent[n]
    <3>1. n \notin Below(d)
      BY <1>0, <1>2, <2>3, HolderFacts DEF Below
    <3> QED BY <1>0, <2>3, <3>1 DEF Dies
  <2> QED BY <2>1, <2>2, <2>3, ParentChanges
<1>5. parent[n] # NoNode => parent[n] \in Above(n) /\ Alive(parent[n])
  BY <1>0, <1>1, AboveFacts, AliveAbove
<1>6. n \in Above(n)
  BY <1>0, AboveFacts
<1> QED BY <1>0, <1>1, <1>3, <1>4, <1>5, <1>6

\* Who hears of its creation after n
LEMMA NextCreated ==
  ASSUME IInv, NEW b, Moves(b), NEW n \in Node, Announces(n), stack[top].arg # {}
  PROVE  /\ top \in DOMAIN stack /\ stack[top].do = "afterCreate" /\ stack[top].node = n
         /\ parent[n] # NoNode /\ parent[n] \in stack[top].arg /\ parent[n] \in Node
         /\ n \notin stack[top].arg
         /\ About(Chained(parent[n], stack[top].arg)) = stack[top].arg
         /\ About(stack[top]) = {n} \cup stack[top].arg
<1>0. Typed /\ Creating /\ DOMAIN stack = 1 .. top /\ top \in Nat
  BY MovesFacts DEF IInv
<1>1. top \in DOMAIN stack /\ stack[top].do = "afterCreate" /\ stack[top].node = n
  BY <1>0 DEF Announces, OnTop, Is
<1>2. /\ n \notin stack[top].arg /\ stack[top].arg \subseteq Above(n)
      /\ \A m \in stack[top].arg, z \in Above(n) : m \in Above(z) /\ z # n => z \in stack[top].arg
  BY <1>0, <1>1 DEF Creating
<1>3. PICK m \in stack[top].arg : TRUE
  OBVIOUS
<1>4. m \in Above(n) /\ m # n
  BY <1>2
<1>5. parent[n] # NoNode /\ parent[n] \in Node /\ m \in Above(parent[n]) /\ parent[n] \in Above(n) /\ n # parent[n]
  BY <1>0, <1>4, AboveFacts
<1>6. parent[n] \in stack[top].arg
  BY <1>2, <1>4, <1>5
<1> QED BY <1>1, <1>2, <1>5, <1>6 DEF About, Chained

\* Chains that were just built are alive.
LEMMA NewChain ==
  ASSUME IInv, NEW b, Moves(b), NEW h, NewStep(h), stack'[h].do = "afterCreate"
  PROVE  \/ /\ top \in DOMAIN stack /\ stack[top].do = "afterCreate" /\ stack[top].arg # {} /\ h = top
            /\ Announces(stack[top].node)
            /\ stack'[h] = Chained(parent[stack[top].node], stack[top].arg)
            /\ About(stack'[h]) = stack[top].arg
         \/ \E n \in Node :
              /\ Alive(n) /\ n \notin built /\ About(stack'[h]) = ParentChain(n) /\ Builds(ParentChain(n))
              /\ stack'[h] = Chained(n, ParentChain(n))
              /\ \/ Reads(n) /\ h = top + 1
                 \/ WalksOn(n) /\ h = Len(agenda') /\ h > top /\ \E c \in Children(n) : c \in built
<1>0. Typed /\ NewCreation(h)
  BY NewByKind DEF IInv
<1>1. ASSUME NEW n \in Node, Announces(n), h = top, stack[top].arg # {}, stack'[h] = Chained(parent[n], stack[top].arg)
      PROVE  /\ top \in DOMAIN stack /\ stack[top].do = "afterCreate" /\ h = top
             /\ stack[top].node = n
             /\ About(stack'[h]) = stack[top].arg
  BY <1>1, NextCreated
<1>2. ASSUME NEW n \in Node, Reads(n) \/ (WalksOn(n) /\ BuiltForFarewell(n) # {}),
             stack'[h] = Chained(n, ParentChain(n))
      PROVE  n \notin built /\ About(stack'[h]) = ParentChain(n) /\ Builds(ParentChain(n))
  <2>1. n \notin built
    BY <1>0, <1>2, FarewellChain DEF Reads
  <2>2. n \in ParentChain(n)
    BY <1>0, <2>1, ChainFacts
  <2>3. Builds(ParentChain(n))
    BY <1>0, <1>2, FarewellChain DEF Reads, WalksOn
  <2> QED BY <1>2, <2>1, <2>2, <2>3 DEF About, Chained
<1>3. stack'[h].node \in Node
  BY NewByKind
<1>4. CASE Reads(stack'[h].node) /\ Alive(stack'[h].node) /\ h = top + 1
           /\ stack'[h] = Chained(stack'[h].node, ParentChain(stack'[h].node))
  <2>1. PICK n \in Node : n = stack'[h].node
    BY <1>3
  <2>2. n \notin built /\ About(stack'[h]) = ParentChain(n) /\ Builds(ParentChain(n))
    BY <1>2, <1>4, <2>1
  <2> QED BY <1>4, <2>1, <2>2
<1>5. CASE WalksOn(stack'[h].node) /\ h = Len(agenda') /\ h > top /\ BuiltForFarewell(stack'[h].node) # {}
           /\ stack'[h] = Chained(stack'[h].node, BuiltForFarewell(stack'[h].node))
  <2>1. PICK n \in Node : n = stack'[h].node
    BY <1>3
  <2>2. BuiltForFarewell(n) = ParentChain(n) /\ \E c \in Children(n) : c \in built
    BY <1>0, <1>5, <2>1, FarewellChain
  <2>3. n \notin built /\ About(stack'[h]) = ParentChain(n) /\ Builds(ParentChain(n))
    BY <1>2, <1>5, <2>1, <2>2
  <2>4. Alive(n)
    BY <1>5, <2>1 DEF WalksOn
  <2> QED BY <1>5, <2>1, <2>2, <2>3, <2>4
<1> QED BY <1>0, <1>1, <1>4, <1>5 DEF NewCreation

\* OfTheLiving is preserved: only die kills, and it takes no firm step's node.
LEMMA LivingStays ==
  ASSUME IInv, NEW b, Moves(b)
  PROVE  OfTheLiving'
<1> SUFFICES ASSUME NEW h \in DOMAIN stack'
             PROVE  /\ Firm(stack'[h]) \/ Finishing(stack'[h]) => \A n \in About(stack'[h]) : Alive(n)'
                    /\ Firm(stack'[h]) /\ stack'[h].do # "childrenToldOf" => About(stack'[h]) \subseteq built'
  BY DEF OfTheLiving
<1>0. Typed /\ OfTheLiving /\ LifeOfNodes /\ built \subseteq built' /\ top \in Nat /\ DOMAIN stack = 1 .. top
      /\ \A g \in DOMAIN stack' : About(stack'[g]) \subseteq Node /\ stack'[g].node \in Node /\ stack'[g] \in StepRecord
  BY MovesFacts, BuiltGrows DEF IInv
<1>1. CASE Low(h, b)
  <2>1. ASSUME Firm(stack'[h]), NEW n \in About(stack'[h]) PROVE Alive(n)'
    BY <1>1, <2>1, FirmFixed DEF Low
  <2>2. ASSUME Finishing(stack'[h]), NEW n \in About(stack'[h]) PROVE Alive(n)'
    <3>1. Finishing(stack[h]) /\ n = stack[h].node
      BY <1>0, <1>1, <2>2 DEF Low, About, StepRecord, Finishing
    <3> QED BY <1>1, <3>1, FinalizedFixed
  <2> QED BY <1>0, <1>1, <2>1, <2>2 DEF Low, OfTheLiving
<1>2. ASSUME UNCHANGED life, NEW n \in Node, Alive(n) PROVE Alive(n)'
  BY <1>2 DEF Alive
<1>t. PICK t \in Node : t = stack'[h].node
  BY <1>0
<1>3. stack'[h].do \notin {"afterCreate", "store", "childrenToldOf"} => About(stack'[h]) = {t}
  BY <1>0, <1>t DEF StepRecord, About
<1>4. CASE NewStep(h) /\ stack'[h].do \in {"user", "finalize", "aboutToDie"}
  <2>1. ASSUME stack'[h].do = "finalize" PROVE Alive(t)'
    <3>1. CASE Announces(t)
      <4>1. top \in DOMAIN stack /\ Firm(stack[top]) /\ t \in About(stack[top]) /\ UNCHANGED life
        BY <1>0, <3>1 DEF Announces, OnTop, Is, Firm, About
      <4> QED BY <1>0, <1>2, <4>1 DEF OfTheLiving
    <3>2. ASSUME NEW m \in Node, Completes(m), t \in Children(m) PROVE Alive(t)'
      <4>1. Alive(t)
        <5>1. parent[t] # NoNode
          BY <1>0, <3>2, HolderFacts, ObjectNodesAssumption DEF Children
        <5> QED BY <1>0, <5>1 DEF LifeOfNodes
      <4> QED BY <1>0, <3>2, <4>1 DEF Completes, Alive, Typed
    <3> QED BY <1>t, <1>4, <2>1, <3>1, <3>2, NewByKind
  <2> QED BY <1>3, <1>4, <2>1 DEF Firm, Finishing
<1>5. CASE NewStep(h) /\ stack'[h].do \in {"leave", "beforeDetach", "die"}
  <2>1. t \in built /\ Alive(t) /\ UNCHANGED life
    BY <1>t, <1>5, NewByKind DEF Detaches, Destroys, Same
  <2> QED BY <1>0, <1>2, <1>3, <1>5, <2>1
<1>6. ASSUME NEW p \in Node, Attaches(t, p), About(stack'[h]) \subseteq {t, p}
      PROVE  \A n \in About(stack'[h]) : Alive(n)' /\ n \in built'
  <2>1. t \in built /\ p \in built /\ Alive(t) /\ Alive(p) /\ UNCHANGED life
    BY <1>6 DEF Attaches
  <2> QED BY <1>0, <1>2, <1>6, <2>1
<1>7. CASE NewStep(h) /\ stack'[h].do = "store"
  <2>1. PICK p \in Node : Attaches(t, p) /\ stack'[h].arg = {p}
    BY <1>t, <1>7, NewByKind
  <2>2. About(stack'[h]) \subseteq {t, p}
    BY <1>t, <1>7, <2>1 DEF About
  <2> QED BY <1>6, <2>1, <2>2
<1>8. ASSUME Readies(t) PROVE Alive(t)' /\ t \in built'
  <2>1. life[t] = "created" /\ UNCHANGED <<life, built>>
    BY <1>8 DEF Readies, Same
  <2>2. t \in built
    BY <1>0, <2>1 DEF LifeOfNodes
  <2> QED BY <1>0, <2>1, <2>2 DEF Alive
<1>9. CASE NewStep(h) /\ stack'[h].do \in {"afterAttach", "finalized"}
  <2>1. Readies(t) \/ \E p \in Node : Attaches(t, p)
    BY <1>t, <1>9, NewByKind
  <2> QED BY <1>3, <1>6, <1>8, <1>9, <2>1
<1>10. CASE NewStep(h) /\ stack'[h].do \in {"beforeDestroy", "dispose", "clear"}
  <2>1. TellsRest(t) \/ Disposes(t)
    BY <1>t, <1>10, NewByKind
  <2>2. t \in Node /\ top \in DOMAIN stack /\ stack[top].node = t
        /\ stack[top].do \in {"childrenToldOf", "dispose"} /\ (stack[top].do = "childrenToldOf" => t \in built)
        /\ UNCHANGED life
    BY <1>0, <2>1 DEF TellsRest, Disposes, OnTop, Is, Same
  <2>3. Firm(stack[top]) /\ t \in About(stack[top])
    BY <2>2 DEF Firm, About
  <2>4. Alive(t) /\ t \in built
    BY <1>0, <2>2, <2>3 DEF OfTheLiving
  <2> QED BY <1>0, <1>2, <1>3, <1>10, <2>2, <2>4
<1>11. CASE NewStep(h) /\ stack'[h].do = "childrenToldOf"
  <2>1. WalksOn(t)
    BY <1>t, <1>11, NewByKind
  <2>2. Alive(t)
    BY <2>1 DEF WalksOn
  <2>3. Alive(t)'
    <3>1. Builds(BuiltForFarewell(t))
      BY <2>1 DEF WalksOn
    <3> QED BY <2>2, <3>1 DEF Builds, Alive
  <2> QED BY <1>11, <1>t, <2>3 DEF About
<1>12. CASE NewStep(h) /\ stack'[h].do = "afterCreate"
  <2>1. CASE top \in DOMAIN stack /\ stack[top].do = "afterCreate" /\ About(stack'[h]) = stack[top].arg
             /\ Announces(stack[top].node)
    <3>1. Firm(stack[top]) /\ stack[top].arg \subseteq About(stack[top])
      BY <2>1 DEF Firm, About
    <3>2. UNCHANGED <<life, built>>
      BY <2>1 DEF Announces
    <3> QED BY <1>0, <1>2, <1>12, <2>1, <3>1, <3>2 DEF OfTheLiving
  <2>2. ASSUME NEW n \in Node, Alive(n), n \notin built, About(stack'[h]) = ParentChain(n), Builds(ParentChain(n))
        PROVE  \A m \in About(stack'[h]) : Alive(m)' /\ m \in built'
    <3>1. ParentChain(n) \subseteq Above(n) /\ ParentChain(n) \subseteq Node
      BY <1>0, <2>2, ChainFacts
    <3>2. \A m \in ParentChain(n) : Alive(m)
      BY <1>0, <2>2, <3>1, AliveAbove
    <3> QED BY <2>2, <3>1, <3>2 DEF Builds, Alive
  <2> QED BY <1>12, <2>1, <2>2, NewChain
<1>13. CASE NewStep(h)
  <2>1. stack'[h].do \in Steps
    BY <1>0 DEF StepRecord
  <2> QED BY <1>13, <2>1, <1>4, <1>5, <1>7, <1>9, <1>10, <1>11, <1>12 DEF Steps, Hooks
<1> QED BY <1>1, <1>13, MovesFacts

\* What a step does that finds this on top
LEMMA TopEffects ==
  ASSUME NEW b, Moves(b), top > 0
  PROVE  \/ Passes
         \/ stack[top].do = "user"
         \/ stack[top].do \in {"store", "clear"} /\ Returns
         \/ stack[top].do = "afterCreate" /\ Announces(stack[top].node)
         \/ stack[top].do \in {"afterAttach", "beforeDetach", "beforeDestroy"} /\ Fires(stack[top].node, stack[top].do)
         \/ stack[top].do = "finalize" /\ (Waits(stack[top].node) \/ Readies(stack[top].node))
         \/ stack[top].do = "finalized" /\ Completes(stack[top].node)
         \/ stack[top].do = "leave" /\ Leaves(stack[top].node)
         \/ stack[top].do = "aboutToDie" /\ (Skips(stack[top].node) \/ WalksOn(stack[top].node))
         \/ stack[top].do = "childrenToldOf" /\ (Ends(stack[top].node) \/ TellsRest(stack[top].node))
         \/ stack[top].do = "dispose" /\ Disposes(stack[top].node)
         \/ stack[top].do = "die" /\ Dies(stack[top].node)
<1>1. Effect
  BY DEF Moves
<1>2. CASE Returns
  BY <1>2 DEF Returns
<1>3. ASSUME NEW n \in Node, NEW p \in Node, Reads(n) \/ Attaches(n, p) \/ Detaches(n) \/ Destroys(n)
      PROVE  stack[top].do = "user"
  BY <1>3 DEF Reads, Attaches, Detaches, Destroys, UserOnTop
<1>4. ASSUME NEW n \in Node, Reads(n) \/ Detaches(n) \/ Destroys(n)
      PROVE  stack[top].do = "user"
  BY <1>4 DEF Reads, Detaches, Destroys, UserOnTop
<1>5. ASSUME NEW n \in Node,
             Disposes(n) \/ Waits(n) \/ Skips(n) \/ Ends(n) \/ Announces(n) \/ Readies(n) \/ Completes(n)
             \/ Leaves(n) \/ WalksOn(n) \/ TellsRest(n) \/ Dies(n)
      PROVE  /\ n = stack[top].node
             /\ Disposes(n) => stack[top].do = "dispose"
             /\ Waits(n) \/ Readies(n) => stack[top].do = "finalize"
             /\ Skips(n) \/ WalksOn(n) => stack[top].do = "aboutToDie"
             /\ Ends(n) \/ TellsRest(n) => stack[top].do = "childrenToldOf"
             /\ Announces(n) => stack[top].do = "afterCreate"
             /\ Completes(n) => stack[top].do = "finalized"
             /\ Leaves(n) => stack[top].do = "leave"
             /\ Dies(n) => stack[top].do = "die"
  BY <1>5 DEF Disposes, Waits, Skips, Ends, Announces, Readies, Completes, Leaves, WalksOn, TellsRest, Dies, OnTop, Is
<1>6. ASSUME NEW n \in Node, NEW hook \in Hooks, Fires(n, hook)
      PROVE  n = stack[top].node /\ hook = stack[top].do /\ hook \in {"afterAttach", "beforeDetach", "beforeDestroy"}
  BY <1>6 DEF Fires, OnTop, Is
<1> QED BY <1>1, <1>2, <1>3, <1>4, <1>5, <1>6 DEF Effect

\* How the life of a live node goes on
LEMMA LifeSteps ==
  ASSUME IInv, NEW b, Moves(b), NEW n \in Node, Alive(n)'
  PROVE  /\ n \in built => life'[n] = life[n] \/ (Completes(n) /\ life[n] = "created" /\ life'[n] = "finalized")
         /\ n \notin built /\ n \in built' => life[n] = "initializing" /\ life'[n] = "created"
         /\ n \notin built' => life'[n] = life[n]
<1>0. Typed /\ Finalizing /\ LifeOfNodes /\ Alive(n) /\ top \in Nat /\ DOMAIN stack = 1 .. top
      /\ life \in [Node -> Lives]
  BY LivesEnd, MovesFacts DEF IInv, Typed
<1>a. n \notin built => life[n] = "initializing"
  BY <1>0 DEF LifeOfNodes, Alive
<1>1. ASSUME NEW m \in Node, Completes(m)
      PROVE  (life'[n] = life[n] \/ (n = m /\ life[n] = "created" /\ life'[n] = "finalized")) /\ built' = built
             /\ (n \notin built => life'[n] = life[n])
  <2>1. life[m] = "created"
    BY <1>0, <1>1 DEF Completes, OnTop, Is, Finalizing
  <2>2. life'[n] = life[n] \/ (n = m /\ life'[n] = "finalized")
    BY <1>0, <1>1 DEF Completes
  <2> QED BY <1>1, <1>a, <2>1, <2>2 DEF Completes
<1>2. ASSUME NEW chain \in SUBSET Node, Builds(chain), chain \cap built = {}
      PROVE  /\ n \in built => life'[n] = life[n]
             /\ n \notin built /\ n \in built' => life'[n] = "created"
             /\ n \notin built' => life'[n] = life[n]
  BY <1>0, <1>2 DEF Builds
<1>3. ASSUME NEW m \in Node, Reads(m) \/ WalksOn(m)
      PROVE  \E chain \in SUBSET Node : Builds(chain) /\ chain \cap built = {}
  <2>1. CASE Reads(m)
    BY <1>0, <2>1, ChainFacts DEF Reads
  <2>2. CASE WalksOn(m) /\ BuiltForFarewell(m) # {}
    BY <1>0, <2>2, ChainFacts, FarewellChain DEF WalksOn
  <2>3. CASE WalksOn(m) /\ BuiltForFarewell(m) = {}
    BY <2>3 DEF WalksOn
  <2> QED BY <1>3, <2>1, <2>2, <2>3
<1>4. ASSUME NEW m \in Node, Dies(m)
      PROVE  life'[n] = life[n] /\ built' = built
  BY <1>0, <1>4 DEF Dies, Alive
<1>5. CASE \E m \in Node : Reads(m) \/ WalksOn(m)
  BY <1>2, <1>3, <1>5, <1>a
<1>6. CASE life' = life /\ built' = built
  BY <1>6
<1> QED BY <1>1, <1>4, <1>5, <1>6, LifeChanges, BuiltChanges

\* A finalized node stays so as long as it lives.
LEMMA FinalizedStays ==
  ASSUME IInv, NEW b, Moves(b), NEW n \in Node, life[n] = "finalized", Alive(n)'
  PROVE  life'[n] = "finalized" /\ n \in built
<1>1. n \in built
  BY DEF IInv, LifeOfNodes
<1> QED BY <1>1, LifeSteps

\* An instance that is not underway has heard of its creation.
LEMMA HeardSomething ==
  ASSUME IInv, NEW x \in built, Alive(x), ~Underway(x)
  PROVE  /\ heard[x] # <<>> /\ x \in Node
         /\ \A h \in DOMAIN stack : Firm(stack[h]) => x \notin About(stack[h])
<1>0. Typed /\ Storing /\ x \in Node
  BY DEF IInv, Typed
<1>1. ASSUME NEW h \in DOMAIN stack, Firm(stack[h]), x \in About(stack[h]) PROVE FALSE
  <2>1. x \notin Above(x)
    BY <1>0, <1>1, NotUnderway
  <2> QED BY <1>0, <2>1, AboveFacts
<1>2. ASSUME NEW h \in DOMAIN stack, stack[h].do = "afterCreate", x \in About(stack[h]) PROVE FALSE
  BY <1>1, <1>2 DEF Firm
<1> QED BY <1>0, <1>1, <1>2 DEF IInv, HeardNothing

\* A node that is finalized, not before all hooks of its creation
LEMMA FinalizeFresh ==
  ASSUME IInv, top \in DOMAIN stack, NEW n \in Node, stack[top].do = "finalize", stack[top].node = n,
         life[n] = "created"
  PROVE  heard[n] # <<>> /\ ~SaidFarewell(n) /\ Last(heard[n]) = "afterCreate"
<1>0. /\ Typed /\ LifeOfNodes /\ HeardNothing /\ HeardLast /\ NotTooEarly /\ DiesUnchanged
      /\ DOMAIN stack = 1 .. top /\ top \in Nat
  BY StackFacts DEF IInv, top
<1>1. n \in built /\ Alive(n)
  BY <1>0 DEF LifeOfNodes, Alive
<1>2. ASSUME NEW h \in DOMAIN stack, Unreached(h, n), h # top PROVE FALSE
  <2>1. n \in Ancestors(unready, n)
    BY AncestorsSelf
  <2>2. Finalizes(stack[top], n) /\ top > h
    BY <1>0, <1>2 DEF Finalizes
  <2> QED BY <1>2, <2>1, <2>2 DEF Unreached
<1>3. heard[n] # <<>>
  <2> SUFFICES ASSUME NEW h \in DOMAIN stack, stack[h].do = "afterCreate", n \in About(stack[h]) PROVE FALSE
    BY <1>0, <1>1 DEF HeardNothing
  <2> QED BY <1>0, <1>2 DEF NotTooEarly
<1>4. ~SaidFarewell(n)
  <2> SUFFICES ASSUME SaidFarewell(n) PROVE FALSE
    OBVIOUS
  <2>1. PICK k \in DOMAIN stack : Past(k, n) /\ Unreached(k, n)
    BY <1>0, <1>1 DEF DiesUnchanged
  <2>2. k # top
    BY <2>1 DEF Past
  <2> QED BY <1>2, <2>1, <2>2
<1>5. ~On("finalized", n)
  <2> SUFFICES ASSUME NEW h \in DOMAIN stack, stack[h].do = "finalized", stack[h].node = n PROVE FALSE
    BY DEF On, Is
  <2> QED BY <1>0, <1>2 DEF NotTooEarly
<1> QED BY <1>0, <1>1, <1>3, <1>4, <1>5 DEF HeardLast

\* Storing is preserved.
LEMMA StoringStays ==
  ASSUME IInv, NEW b, Moves(b)
  PROVE  Storing'
<1> SUFFICES ASSUME NEW h \in DOMAIN stack', stack'[h].do = "store", NEW x \in Node, x = stack'[h].node
             PROVE  stack'[h].arg = {parent'[x]} /\ parent'[x] # NoNode /\ life'[x] = "finalized"
  BY MovesFacts DEF Storing
<1>0. Typed /\ Storing
  BY DEF IInv
<1>1. CASE Low(h, b)
  <2>1. Firm(stack[h]) /\ x \in About(stack[h]) /\ stack[h].do = "store" /\ stack[h].node = x /\ h \in DOMAIN stack
    BY <1>1 DEF Low, Firm, About
  <2>2. Steady(x) /\ Alive(x)'
    BY <1>1, <2>1, FirmFixed
  <2>3. x \in Above(x)
    BY <1>0, AboveFacts
  <2>4. parent'[x] = parent[x]
    BY <2>2, <2>3 DEF Steady
  <2>5. stack[h].arg = {parent[x]} /\ parent[x] # NoNode /\ life[x] = "finalized"
    BY <1>0, <2>1 DEF Storing
  <2>6. life'[x] = "finalized"
    BY <2>2, <2>5, FinalizedStays
  <2> QED BY <1>1, <2>4, <2>5, <2>6 DEF Low
<1>2. CASE NewStep(h)
  <2>1. PICK p \in Node : Attaches(x, p) /\ stack'[h].arg = {p}
    BY <1>2, NewByKind
  <2>2. parent'[x] = p /\ life'[x] = "finalized"
    BY <1>0, <2>1 DEF Attaches, Typed, ParentFunction
  <2> QED BY <2>1, <2>2, ObjectNodesAssumption
<1> QED BY <1>1, <1>2, MovesFacts

\* What can be detached has been attached, and heard of it last.
LEMMA DetachingHeard ==
  ASSUME IInv, NEW x \in Node, Detaches(x)
  PROVE  /\ heard[x] # <<>> /\ Last(heard[x]) = "afterAttach" /\ ~SaidFarewell(x) /\ parent[x] # NoNode
         /\ \A h \in DOMAIN stack : Firm(stack[h]) => x \notin About(stack[h])
<1>0. x \in built /\ Alive(x) /\ ~Underway(x) /\ parent[x] \in built /\ life[x] = "finalized"
      /\ ~(\E k \in DOMAIN stack : Past(k, x)) /\ built \subseteq Node /\ NoNode \notin Node
  BY ObjectNodesAssumption DEF Detaches, IInv, Typed
<1>1. heard[x] # <<>> /\ \A h \in DOMAIN stack : Firm(stack[h]) => x \notin About(stack[h])
  BY <1>0, HeardSomething
<1>2. ~SaidFarewell(x)
  BY <1>0 DEF IInv, DiesUnchanged
<1>3. \A h \in DOMAIN stack : Is(stack[h], "afterAttach", x) \/ Is(stack[h], "leave", x) =>
        Firm(stack[h]) /\ x \in About(stack[h])
  BY DEF Is, Firm, About
<1>4. ~On("afterAttach", x) /\ ~On("leave", x)
  BY <1>1, <1>3 DEF On
<1>5. HeardLast
  BY DEF IInv
<1> QED BY <1>0, <1>1, <1>2, <1>4, <1>5 DEF HeardLast

\* What can be attached has heard last that it has no parent.
LEMMA AttachingHeard ==
  ASSUME IInv, NEW x \in Node, NEW p \in Node, Attaches(x, p)
  PROVE  /\ heard[x] # <<>> /\ Last(heard[x]) \in {"afterCreate", "beforeDetach"} /\ ~SaidFarewell(x)
         /\ \A h \in DOMAIN stack : Firm(stack[h]) => x \notin About(stack[h])
<1>0. x \in built /\ Alive(x) /\ ~Underway(x) /\ parent[x] = NoNode /\ life[x] = "finalized" /\ Typed
  BY DEF Attaches, IInv
<1>1. heard[x] # <<>> /\ \A h \in DOMAIN stack : Firm(stack[h]) => x \notin About(stack[h])
  BY <1>0, HeardSomething
<1>2. ~SaidFarewell(x)
  <2> SUFFICES ASSUME SaidFarewell(x) PROVE FALSE
    OBVIOUS
  <2>1. PICK k \in DOMAIN stack : Past(k, x)
    BY <1>0 DEF IInv, DiesUnchanged
  <2>2. stack[k].do = "die" /\ stack[k].node = x
    BY <1>0, <2>1, AboveFacts DEF Past
  <2> QED BY <1>1, <2>2 DEF Firm, About
<1>3. HeardLast
  BY DEF IInv
<1> QED BY <1>0, <1>1, <1>2, <1>3 DEF HeardLast

\* A step on top stays there only if nothing happens.
LEMMA TopStays ==
  ASSUME IInv, NEW b, Moves(b), Low(top, b), stack[top].do \in Hooks
  PROVE  Passes
<1>0. top \in DOMAIN stack /\ top \in DOMAIN stack' /\ stack'[top] = stack[top] /\ top > 0
  BY MovesFacts DEF Low
<1>1. CASE stack[top].do = "afterCreate" /\ Announces(stack[top].node)
  <2>1. \/ stack'[top].do \in {"user", "finalize"}
        \/ stack[top].arg # {} /\ stack'[top] = Chained(parent[stack[top].node], stack[top].arg)
    BY <1>0, <1>1, StepFields DEF Announces
  <2>2. CASE stack[top].arg # {} /\ stack'[top] = Chained(parent[stack[top].node], stack[top].arg)
    <3>1. PICK n \in Node : n = stack[top].node
      BY MovesFacts, <1>0
    <3>2. parent[n] \in stack[top].arg /\ stack'[top].arg = stack[top].arg \ {parent[n]}
      BY <1>1, <2>2, <3>1, NextCreated DEF Chained
    <3> QED BY <1>0, <3>2
  <2> QED BY <1>0, <1>1, <2>1, <2>2
<1>2. CASE Fires(stack[top].node, stack[top].do)
  <2>1. stack'[top].do = "user"
    BY <1>0, <1>2, MovesFacts DEF Fires
  <2> QED BY <1>0, <2>1 DEF Hooks
<1> QED BY <1>0, <1>1, <1>2, TopEffects DEF Hooks

\* Nothing changes in a step that leaves the stack.
LEMMA PassesFacts ==
  ASSUME NEW b, Moves(b), Passes
  PROVE  /\ life' = life /\ built' = built /\ parent' = parent /\ heard' = heard
         /\ DOMAIN stack' = DOMAIN stack /\ Len(agenda') = Len(agenda)
         /\ \A h \in DOMAIN stack : stack'[h] = stack[h]
<1>1. Kept(top) /\ Len(agenda') = top /\ Same
  BY DEF Passes
<1> QED BY <1>1, MovesFacts DEF Same, Kept, top

\* Detaching is preserved.
LEMMA DetachingStays ==
  ASSUME IInv, NEW b, Moves(b)
  PROVE  Detaching'
<1> SUFFICES ASSUME NEW h \in DOMAIN stack', stack'[h].do = "beforeDetach", NEW x \in Node, x = stack'[h].node
             PROVE  /\ h = Len(agenda') /\ h > 1 /\ Is(stack'[h - 1], "leave", x)
                    /\ heard'[x] # <<>> /\ Last(heard'[x]) = "afterAttach"
  BY MovesFacts DEF Detaching
<1>0. DOMAIN stack = 1 .. top /\ top \in Nat
  BY MovesFacts
<1>1. CASE Low(h, b)
  <2>1. h \in DOMAIN stack /\ stack[h].do = "beforeDetach" /\ stack[h].node = x
    BY <1>1 DEF Low
  <2>2. /\ h = top /\ h > 1 /\ Is(stack[h - 1], "leave", x)
        /\ heard[x] # <<>> /\ Last(heard[x]) = "afterAttach"
    BY <2>1 DEF IInv, Detaching, top
  <2>3. Passes
    BY <1>1, <2>1, <2>2, TopStays DEF Hooks
  <2>4. h - 1 \in DOMAIN stack
    BY <1>0, <2>2
  <2> QED BY <2>2, <2>3, <2>4, PassesFacts DEF top
<1>2. CASE NewStep(h)
  <2>1. h = top + 2 /\ Detaches(x)
    BY <1>2, NewByKind
  <2>2. Len(agenda') = top + 2 /\ stack'[top + 1] = Step("leave", x) /\ heard' = heard
    BY <2>1 DEF Detaches, Same
  <2>3. h - 1 = top + 1 /\ h > 1
    BY <1>0, <2>1
  <2> QED BY <2>1, <2>2, <2>3, DetachingHeard, StepFields DEF Is
<1> QED BY <1>1, <1>2, MovesFacts

\* Attaching is preserved.
LEMMA AttachingStays ==
  ASSUME IInv, NEW b, Moves(b)
  PROVE  Attaching'
<1> SUFFICES ASSUME NEW h \in DOMAIN stack', stack'[h].do = "afterAttach", NEW x \in Node, x = stack'[h].node
             PROVE  /\ h = Len(agenda') /\ h > 1 /\ parent'[x] # NoNode
                    /\ Is(stack'[h - 1], "store", x) \/ Is(stack'[h - 1], "finalized", x)
                    /\ heard'[x] # <<>> /\ Last(heard'[x]) \in {"afterCreate", "beforeDetach"}
  BY MovesFacts DEF Attaching
<1>0. DOMAIN stack = 1 .. top /\ top \in Nat
  BY MovesFacts
<1>1. CASE Low(h, b)
  <2>1. h \in DOMAIN stack /\ stack[h].do = "afterAttach" /\ stack[h].node = x
    BY <1>1 DEF Low
  <2>2. /\ h = top /\ h > 1 /\ parent[x] # NoNode
        /\ Is(stack[h - 1], "store", x) \/ Is(stack[h - 1], "finalized", x)
        /\ heard[x] # <<>> /\ Last(heard[x]) \in {"afterCreate", "beforeDetach"}
    BY <2>1 DEF IInv, Attaching, top
  <2>3. Passes
    BY <1>1, <2>1, <2>2, TopStays DEF Hooks
  <2>4. h - 1 \in DOMAIN stack
    BY <1>0, <2>2
  <2> QED BY <2>2, <2>3, <2>4, PassesFacts DEF top
<1>2. ASSUME NEW p \in Node, Attaches(x, p), h = top + 2
      PROVE  /\ h = Len(agenda') /\ h > 1 /\ parent'[x] # NoNode
             /\ Is(stack'[h - 1], "store", x)
             /\ heard'[x] # <<>> /\ Last(heard'[x]) \in {"afterCreate", "beforeDetach"}
  <2>2. Len(agenda') = top + 2 /\ stack'[top + 1] = [do |-> "store", node |-> x, arg |-> {p}]
        /\ heard' = heard /\ parent' = [parent EXCEPT ![x] = p]
    BY <1>2 DEF Attaches
  <2>3. h - 1 = top + 1 /\ h > 1
    BY <1>0, <1>2
  <2>4. parent'[x] # NoNode
    BY <2>2, ObjectNodesAssumption DEF IInv, Typed, ParentFunction
  <2>5. Is(stack'[h - 1], "store", x)
    BY <2>2, <2>3 DEF Is
  <2> QED BY <1>2, <2>2, <2>3, <2>4, <2>5, AttachingHeard
<1>3. CASE Readies(x) /\ h = top + 1 /\ h = Len(agenda') /\ parent[x] # NoNode
  <2>1. top \in DOMAIN stack /\ stack[top].do = "finalize" /\ stack[top].node = x /\ life[x] = "created"
        /\ heard' = heard /\ parent' = parent /\ stack'[top] = Step("finalized", x)
    BY <1>0, <1>3 DEF Readies, OnTop, Is, Same
  <2>2. heard[x] # <<>> /\ Last(heard[x]) = "afterCreate"
    BY <2>1, FinalizeFresh
  <2>3. h - 1 = top /\ h > 1
    BY <1>0, <1>3, <2>1
  <2>4. Is(stack'[h - 1], "finalized", x)
    BY <2>1, <2>3, StepFields DEF Is
  <2> QED BY <1>3, <2>1, <2>2, <2>3, <2>4
<1>4. CASE NewStep(h)
  BY <1>2, <1>3, <1>4, NewByKind
<1> QED BY <1>1, <1>4, MovesFacts

\* MovedOnce is preserved.
LEMMA MovedStays ==
  ASSUME IInv, NEW b, Moves(b)
  PROVE  MovedOnce'
<1> SUFFICES ASSUME NEW h1 \in DOMAIN stack', NEW h2 \in DOMAIN stack',
                    stack'[h1].do \in {"store", "leave"}, stack'[h2].do \in {"store", "leave"},
                    NEW x \in Node, x = stack'[h1].node, x = stack'[h2].node
             PROVE  h1 = h2
  BY MovesFacts DEF MovedOnce
<1>1. ASSUME NEW h, NewStep(h), stack'[h].do \in {"store", "leave"}, stack'[h].node = x
      PROVE  /\ h = top + 1
             /\ \A g \in DOMAIN stack : Firm(stack[g]) => x \notin About(stack[g])
  <2>1. h = top + 1 /\ (Detaches(x) \/ \E p \in Node : Attaches(x, p))
    BY <1>1, NewByKind
  <2> QED BY <2>1, DetachingHeard, AttachingHeard
<1>2. ASSUME NEW h, Low(h, b), stack'[h].do \in {"store", "leave"}, stack'[h].node = x
      PROVE  h \in DOMAIN stack /\ Firm(stack[h]) /\ x \in About(stack[h])
             /\ stack[h].do \in {"store", "leave"} /\ stack[h].node = x
  BY <1>2 DEF Low, Firm, About
<1>3. (Low(h1, b) \/ NewStep(h1)) /\ (Low(h2, b) \/ NewStep(h2))
  BY MovesFacts
<1>4. CASE Low(h1, b) /\ Low(h2, b)
  <2>1. h1 \in DOMAIN stack /\ stack[h1].do \in {"store", "leave"} /\ stack[h1].node = x
    BY <1>2, <1>4
  <2>2. h2 \in DOMAIN stack /\ stack[h2].do \in {"store", "leave"} /\ stack[h2].node = x
    BY <1>2, <1>4
  <2> QED BY <2>1, <2>2 DEF IInv, MovedOnce
<1>5. CASE NewStep(h1) /\ NewStep(h2)
  <2>1. h1 = top + 1
    BY <1>1, <1>5
  <2>2. h2 = top + 1
    BY <1>1, <1>5
  <2> QED BY <2>1, <2>2
<1>6. ASSUME NEW h, NEW g, Low(h, b), NewStep(g), stack'[h].do \in {"store", "leave"}, stack'[h].node = x,
             stack'[g].do \in {"store", "leave"}, stack'[g].node = x
      PROVE  FALSE
  <2>1. h \in DOMAIN stack /\ Firm(stack[h]) /\ x \in About(stack[h])
    BY <1>2, <1>6
  <2>2. \A k \in DOMAIN stack : Firm(stack[k]) => x \notin About(stack[k])
    BY <1>1, <1>6
  <2> QED BY <2>1, <2>2
<1>7. CASE Low(h1, b) /\ NewStep(h2)
  BY <1>6, <1>7
<1>8. CASE NewStep(h1) /\ Low(h2, b)
  BY <1>6, <1>8
<1> QED BY <1>3, <1>4, <1>5, <1>7, <1>8

-----------------------------------------------------------------------------
(* What leaves *)

\* A node that is leaving hears only of that.
LEMMA LeaverHears ==
  ASSUME IInv, NEW b, Moves(b), NEW h, Low(h, b), stack[h].do = "leave", NEW x \in Node, x = stack[h].node
  PROVE  heard'[x] = heard[x] \/ Fires(x, "beforeDetach")
<1>0. /\ h \in DOMAIN stack /\ h <= b /\ DOMAIN stack = 1 .. top /\ top \in Nat /\ b \in {top, top - 1}
      /\ Typed /\ NothingTaken /\ Leaving /\ MovedOnce /\ Attaching /\ Creating /\ Finalizing
  BY MovesFacts DEF IInv, Low
<1>1. heard[x] # <<>> /\ life[x] = "finalized"
  BY <1>0 DEF Leaving
<1>2. ASSUME Announces(x) PROVE FALSE
  <2>1. top \in DOMAIN stack /\ stack[top].do = "afterCreate" /\ stack[top].node = x
    BY <1>0, <1>2 DEF Announces, OnTop, Is
  <2>2. heard[x] = <<>>
    BY <1>0, <2>1 DEF Creating, About
  <2> QED BY <1>1, <2>2
<1>3. ASSUME Fires(x, "afterAttach") PROVE FALSE
  <2>1. top \in DOMAIN stack /\ stack[top].do = "afterAttach" /\ stack[top].node = x
    BY <1>0, <1>3 DEF Fires, OnTop, Is
  <2>2. top > 1 /\ (Is(stack[top - 1], "store", x) \/ Is(stack[top - 1], "finalized", x))
    BY <1>0, <2>1 DEF Attaching, top
  <2>3. top - 1 \in DOMAIN stack
    BY <1>0, <2>2
  <2>4. ~Is(stack[top - 1], "finalized", x)
    BY <1>0, <1>1, <2>3 DEF Finalizing, Is
  <2>5. stack[top - 1].do = "store" /\ stack[top - 1].node = x
    BY <2>2, <2>4 DEF Is
  <2>6. h = top - 1
    BY <1>0, <2>3, <2>5 DEF MovedOnce
  <2> QED BY <2>5, <2>6
<1>4. ASSUME Fires(x, "beforeDestroy") PROVE FALSE
  <2>1. top \in DOMAIN stack /\ stack[top].do = "beforeDestroy" /\ stack[top].node = x
    BY <1>0, <1>4 DEF Fires, OnTop, Is
  <2>2. h < top
    BY <1>0, <2>1
  <2>3. Firm(stack[h]) /\ x \in About(stack[h]) /\ x \in Above(x)
    BY <1>0, AboveFacts DEF Firm, About
  <2>4. ~Precedes(stack[h], stack[top], top = h + 1)
    BY DEF Precedes
  <2> QED BY <1>0, <2>1, <2>2, <2>3, <2>4 DEF NothingTaken, Taking, Telling
<1>5. CASE heard' = heard
  BY <1>5
<1>6. ASSUME NEW n \in Node, Announces(n) PROVE heard'[x] = heard[x]
  <2>1. n # x
    BY <1>2, <1>6
  <2>2. heard' = [heard EXCEPT ![n] = Append(@, "afterCreate")]
    BY <1>6 DEF Announces
  <2> QED BY <2>1, <2>2, <1>0 DEF Typed
<1>7. ASSUME NEW n \in Node, NEW hook \in Hooks, Fires(n, hook), ~Fires(x, "beforeDetach") PROVE heard'[x] = heard[x]
  <2>0. hook \in {"afterAttach", "beforeDetach", "beforeDestroy"} /\ heard' = [heard EXCEPT ![n] = Append(@, hook)]
    BY <1>7 DEF Fires
  <2>1. n # x
    BY <1>3, <1>4, <1>7, <2>0
  <2> QED BY <2>0, <2>1, <1>0 DEF Typed
<1> QED BY <1>5, <1>6, <1>7, HeardChanges

\* Leaving is preserved.
LEMMA LeavingStays ==
  ASSUME IInv, NEW b, Moves(b)
  PROVE  Leaving'
<1> SUFFICES ASSUME NEW h \in DOMAIN stack', stack'[h].do = "leave", NEW x \in Node, x = stack'[h].node
             PROVE  /\ parent'[x] # NoNode /\ life'[x] = "finalized"
                    /\ heard'[x] # <<>>
                    /\ \/ Last(heard'[x]) = "beforeDetach"
                       \/ h = Len(agenda') - 1 /\ Is(stack'[h + 1], "beforeDetach", x) /\ ~SaidFarewell(x)'
                    /\ \A h1 \in 1 .. h - 1 : ~Is(stack'[h1], "aboutToDie", x)
  BY MovesFacts DEF Leaving
<1>0. /\ DOMAIN stack = 1 .. top /\ top \in Nat /\ b \in {top, top - 1} /\ Typed /\ Leaving
      /\ \A g \in 1 .. b : stack'[g] = stack[g]
  BY MovesFacts DEF IInv, Low
<1>1. CASE Low(h, b)
  <2>1. h \in DOMAIN stack /\ h <= b /\ stack[h].do = "leave" /\ stack[h].node = x /\ stack'[h] = stack[h]
    BY <1>1 DEF Low
  <2>2. /\ parent[x] # NoNode /\ life[x] = "finalized"
        /\ heard[x] # <<>>
        /\ \/ Last(heard[x]) = "beforeDetach"
           \/ h = top - 1 /\ Is(stack[h + 1], "beforeDetach", x) /\ ~SaidFarewell(x)
        /\ \A h1 \in 1 .. h - 1 : ~Is(stack[h1], "aboutToDie", x)
    BY <1>0, <2>1 DEF Leaving, top
  <2>3. Steady(x) /\ Alive(x)'
    BY <1>1, <2>1, FirmFixed DEF Firm, About
  <2>4. parent'[x] = parent[x] /\ life'[x] = "finalized"
    BY <1>0, <2>2, <2>3, AboveFacts, FinalizedStays DEF Steady
  <2>5. \A h1 \in 1 .. h - 1 : ~Is(stack'[h1], "aboutToDie", x)
    BY <1>0, <2>1, <2>2
  <2>6. ASSUME Fires(x, "beforeDetach") PROVE heard'[x] # <<>> /\ Last(heard'[x]) = "beforeDetach"
    BY <2>6, <1>0, HeardFire DEF Fires, Hooks
  <2>7. ASSUME heard'[x] = heard[x], ~Fires(x, "beforeDetach")
        PROVE  \/ Last(heard'[x]) = "beforeDetach"
               \/ h = Len(agenda') - 1 /\ Is(stack'[h + 1], "beforeDetach", x) /\ ~SaidFarewell(x)'
    <3> SUFFICES ASSUME h = top - 1, Is(stack[h + 1], "beforeDetach", x), ~SaidFarewell(x)
                 PROVE h = Len(agenda') - 1 /\ Is(stack'[h + 1], "beforeDetach", x) /\ ~SaidFarewell(x)'
      BY <2>2, <2>7
    <3>1. h + 1 = top /\ top > 0 /\ top \in DOMAIN stack
      BY <1>0, <2>1
    <3>2. stack[top].do = "beforeDetach" /\ stack[top].node = x
      BY <3>1 DEF Is
    <3>3. Passes
      BY <2>7, <3>1, <3>2, TopEffects
    <3>4. Len(agenda') = top /\ stack'[top] = stack[top]
      BY <3>1, <3>3, PassesFacts DEF top
    <3>5. ~SaidFarewell(x)'
      BY <2>7 DEF SaidFarewell
    <3> QED BY <3>1, <3>2, <3>4, <3>5 DEF Is
  <2> QED BY <2>1, <2>2, <2>4, <2>5, <2>6, <2>7, <1>1, LeaverHears
<1>2. CASE NewStep(h)
  <2>1. h = top + 1 /\ Detaches(x)
    BY <1>2, NewByKind
  <2>2. /\ Len(agenda') = top + 2 /\ stack'[top + 2] = Step("beforeDetach", x)
        /\ parent' = parent /\ life' = life /\ heard' = heard /\ life[x] = "finalized"
        /\ ~On("aboutToDie", x) /\ Kept(top)
    BY <2>1 DEF Detaches, Same
  <2>3. heard[x] # <<>> /\ Last(heard[x]) = "afterAttach" /\ ~SaidFarewell(x) /\ parent[x] # NoNode
    BY <2>1, DetachingHeard
  <2>4. \A h1 \in 1 .. h - 1 : h1 \in DOMAIN stack /\ stack'[h1] = stack[h1]
    BY <1>0, <2>1, <2>2 DEF Kept
  <2>5. h = Len(agenda') - 1 /\ Is(stack'[h + 1], "beforeDetach", x)
    <3>1. h + 1 = top + 2
      BY <1>0, <2>1
    <3> QED BY <1>0, <2>1, <2>2, <3>1, StepFields DEF Is
  <2>6. ~SaidFarewell(x)'
    BY <2>2, <2>3 DEF SaidFarewell
  <2> QED BY <2>2, <2>3, <2>4, <2>5, <2>6 DEF On
<1> QED BY <1>1, <1>2, MovesFacts

\* LeavingEarly after a step, by the walks up the parents
LEMMA EarlyNow ==
  ASSUME Typed',
         \A h \in DOMAIN stack', x \in Node : stack'[h].do = "leave" /\ stack'[h].node = x =>
           \A k \in 1 .. h - 1 : stack'[k].do = "die" /\ stack'[k].node \in Above(x)' =>
             \E j \in k + 1 .. h - 1 : Comes(j, x)'
  PROVE  LeavingEarly'
<1>1. \A n \in Node : Up(n)' = Above(n)'
  BY ClimbReaches, ObjectNodesAssumption DEF Typed, Up, Above
<1>2. \A n \in Node : \A j : Comes(j, n)' => ComesTo(stack[j], n)'
  BY <1>1 DEF Comes, ComesTo
<1>3. \A h \in DOMAIN stack' : stack'[h].node \in Node
  BY NewStackFacts DEF StepRecord
<1> QED BY <1>2, <1>3 DEF LeavingEarly

\* What comes to a steady node still comes to it.
LEMMA ComesStays ==
  ASSUME NEW n \in Node, Steady(n), NEW j, stack'[j] = stack[j], Comes(j, n)
  PROVE  Comes(j, n)'
BY DEF Comes, Steady

\* LeavingEarly is preserved.
LEMMA LeavingEarlyStays ==
  ASSUME IInv, NEW b, Moves(b)
  PROVE  LeavingEarly'
<1> SUFFICES ASSUME NEW h \in DOMAIN stack', stack'[h].do = "leave", NEW x \in Node, stack'[h].node = x,
                    NEW k \in 1 .. h - 1, stack'[k].do = "die", stack'[k].node \in Above(x)'
             PROVE  \E j \in k + 1 .. h - 1 : Comes(j, x)'
  <2>1. Typed'
    BY DEF Moves
  <2> QED BY <2>1, EarlyNow
<1>0. /\ DOMAIN stack = 1 .. top /\ top \in Nat /\ b \in {top, top - 1} /\ Typed /\ LeavingEarly
      /\ \A g \in 1 .. b : stack'[g] = stack[g]
  BY MovesFacts DEF IInv, Low
<1>1. CASE Low(h, b)
  <2>1. h \in DOMAIN stack /\ h <= b /\ stack[h].do = "leave" /\ stack[h].node = x /\ stack'[h] = stack[h]
    BY <1>1 DEF Low
  <2>2. Steady(x)
    BY <1>1, <2>1, FirmFixed DEF Firm, About
  <2>3. k \in 1 .. b /\ stack'[k] = stack[k]
    BY <1>0, <2>1
  <2>4. stack[k].do = "die" /\ stack[k].node \in Above(x)
    BY <2>2, <2>3 DEF Steady
  <2>5. PICK j \in k + 1 .. h - 1 : ComesTo(stack[j], x)
    BY <1>0, <2>1, <2>4 DEF LeavingEarly
  <2>6. Comes(j, x)
    BY <1>0, <2>5, UpIs DEF ComesTo, Comes
  <2>7. stack'[j] = stack[j]
    BY <1>0, <2>1, <2>5
  <2> QED BY <2>2, <2>5, <2>6, <2>7, ComesStays
<1>2. CASE NewStep(h)
  <2>1. h = top + 1 /\ Detaches(x)
    BY <1>2, NewByKind
  <2>2. ~Past(k, x) /\ k \in DOMAIN stack /\ stack'[k] = stack[k]
    <3>1. k \in DOMAIN stack
      BY <1>0, <2>1
    <3> QED BY <1>0, <2>1, <3>1 DEF Detaches, Kept
  <2>3. Steady(x)
    BY <2>1 DEF Detaches, Same, Steady, Above
  <2>4. stack[k].do = "die" /\ stack[k].node \in Above(x)
    BY <2>2, <2>3 DEF Steady
  <2>5. PICK j \in DOMAIN stack : j > k /\ Comes(j, x)
    BY <1>0, <2>2, <2>4, PastIs
  <2>6. stack'[j] = stack[j] /\ j \in k + 1 .. h - 1
    BY <1>0, <2>1, <2>5 DEF Detaches, Kept
  <2> QED BY <2>3, <2>5, <2>6, ComesStays
<1> QED BY <1>1, <1>2, MovesFacts

-----------------------------------------------------------------------------
(* Creation, and the hooks of the nodes that were created *)

\* A node that is said to be unreached is not finalized by the step on top.
LEMMA TopReaches ==
  ASSUME IInv, NEW h \in DOMAIN stack, NEW n \in Node, Unreached(h, n), h # top,
         life[n] = "created"
  PROVE  ~Finalizes(stack[top], n)
<1>0. DOMAIN stack = 1 .. top /\ top \in Nat
  BY StackFacts DEF IInv, top
<1>1. top > h /\ top \in DOMAIN stack
  BY <1>0
<1>2. n \in Ancestors(unready, n)
  BY AncestorsSelf
<1> QED BY <1>1, <1>2 DEF Unreached

\* The step on top
LEMMA OnTopIs ==
  ASSUME Typed, NEW do, NEW n, OnTop(do, n)
  PROVE  top \in DOMAIN stack /\ stack[top].do = do /\ stack[top].node = n /\ top > 0 /\ top \in Nat
<1>0. DOMAIN stack = 1 .. top /\ top \in Nat
  BY StackFacts DEF top
<1> QED BY <1>0 DEF OnTop, Is

\* The hook on top, if it is one about n.
LEMMA HookOnTop ==
  ASSUME NEW n, NEW hook, Fires(n, hook) \/ (hook = "afterCreate" /\ Announces(n)), Typed
  PROVE  top \in DOMAIN stack /\ stack[top].do = hook /\ stack[top].node = n
<1>0. DOMAIN stack = 1 .. top /\ top \in Nat
  BY StackFacts DEF top
<1> QED BY <1>0 DEF Fires, Announces, OnTop, Is

\* What a node hears in a step
LEMMA HeardBy ==
  ASSUME NEW b, Moves(b), NEW n \in Node
  PROVE  heard'[n] = heard[n] \/ Announces(n) \/ Fires(n, "afterAttach") \/ Fires(n, "beforeDetach") \/ Fires(n, "beforeDestroy")
<1>0. Typed
  BY DEF Moves
<1>1. CASE heard' = heard
  BY <1>1
<1>2. ASSUME NEW m \in Node, Announces(m) PROVE heard'[n] = heard[n] \/ Announces(n)
  <2>2. heard' = [heard EXCEPT ![m] = Append(@, "afterCreate")]
    BY <1>2 DEF Announces
  <2> QED BY <2>2, <1>0, <1>2 DEF Typed
<1>3. ASSUME NEW m \in Node, NEW hook \in Hooks, Fires(m, hook)
      PROVE  heard'[n] = heard[n] \/ (hook \in {"afterAttach", "beforeDetach", "beforeDestroy"} /\ Fires(n, hook))
  <2>0. hook \in {"afterAttach", "beforeDetach", "beforeDestroy"} /\ heard' = [heard EXCEPT ![m] = Append(@, hook)]
    BY <1>3 DEF Fires
  <2> QED BY <2>0, <1>0, <1>3 DEF Typed
<1> QED BY <1>1, <1>2, <1>3, HeardChanges

\* A node that waits for its creation to be told hears nothing else.
LEMMA CreatedHears ==
  ASSUME IInv, NEW b, Moves(b), NEW h, Low(h, b), stack[h].do = "afterCreate", NEW m \in About(stack[h])
  PROVE  life'[m] = "created" /\ heard'[m] = <<>>
<1>0. /\ h \in DOMAIN stack /\ h <= b /\ DOMAIN stack = 1 .. top /\ top \in Nat /\ b \in {top, top - 1}
      /\ Typed /\ NothingTaken /\ OfTheLiving /\ Detaching /\ Attaching /\ Creating /\ NotTooEarly
  BY MovesFacts DEF IInv, Low
<1>1. life[m] = "created" /\ heard[m] = <<>> /\ Firm(stack[h]) /\ m \in built
  BY <1>0 DEF Creating, Firm, OfTheLiving
<1>2. Alive(m)' /\ m \in Node
  BY <1>1, FirmFixed
<1>3. CASE h = top
  <2>1. Passes
    BY <1>0, <1>3, TopStays DEF Hooks
  <2> QED BY <1>1, <2>1, PassesFacts
<1>4. CASE h # top
  <2>0. Unreached(h, m)
    BY <1>0 DEF NotTooEarly
  <2>1. ~Finalizes(stack[top], m) /\ h < top
    BY <1>0, <1>1, <1>2, <1>4, <2>0, TopReaches
  <2>2. ~Completes(m)
    BY <2>1 DEF Completes, OnTop, Is, Finalizes
  <2>3. ~Announces(m)
    BY <2>1, <1>0, HookOnTop DEF Finalizes, About
  <2>4. ~Fires(m, "afterAttach")
    BY <1>0, <1>1, HookOnTop DEF Attaching
  <2>5. ~Fires(m, "beforeDetach")
    BY <1>0, <1>1, HookOnTop DEF Detaching
  <2>6. ~Fires(m, "beforeDestroy")
    <3> SUFFICES ASSUME Fires(m, "beforeDestroy") PROVE FALSE
      OBVIOUS
    <3>1. top \in DOMAIN stack /\ stack[top].do = "beforeDestroy" /\ stack[top].node = m
      BY <1>0, HookOnTop
    <3>2. ~Precedes(stack[h], stack[top], top = h + 1)
      BY <3>1 DEF Precedes
    <3>3. m \in Above(m)
      BY <1>0, <1>2, AboveFacts
    <3> QED BY <1>0, <1>1, <2>1, <3>1, <3>2, <3>3 DEF NothingTaken, Taking, Telling
  <2> QED BY <1>1, <1>2, <2>2, <2>3, <2>4, <2>5, <2>6, HeardBy, LifeSteps
<1> QED BY <1>3, <1>4

\* Creating is preserved.
LEMMA CreatingStays ==
  ASSUME IInv, NEW b, Moves(b)
  PROVE  Creating'
<1> DEFINE Good(h, n) ==
      /\ n \notin stack'[h].arg /\ stack'[h].arg \subseteq Above(n)'
      /\ \A m \in About(stack'[h]) : life'[m] = "created" /\ heard'[m] = <<>>
      /\ \A m \in stack'[h].arg, z \in Above(n)' : m \in Above(z)' /\ z # n => z \in stack'[h].arg
<1> SUFFICES ASSUME NEW h \in DOMAIN stack', stack'[h].do = "afterCreate", NEW n \in Node, n = stack'[h].node
             PROVE  Good(h, n)
  BY MovesFacts DEF Creating, About
<1>0. Typed /\ Typed' /\ Creating
  BY DEF IInv, Moves
<1>1. CASE Low(h, b)
  <2>1. h \in DOMAIN stack /\ stack[h].do = "afterCreate" /\ stack[h].node = n /\ stack'[h] = stack[h]
    BY <1>1 DEF Low
  <2>2. Steady(n)
    BY <1>1, <2>1, FirmFixed DEF Firm, About
  <2>3. Above(n)' = Above(n) /\ \A z \in Above(n) : Above(z)' = Above(z)
    BY <1>0, <2>2, SteadyAbove DEF Steady
  <2>4. /\ n \notin stack[h].arg /\ stack[h].arg \subseteq Above(n)
        /\ \A m \in stack[h].arg, z \in Above(n) : m \in Above(z) /\ z # n => z \in stack[h].arg
    BY <1>0, <2>1 DEF Creating
  <2>5. \A m \in About(stack[h]) : life'[m] = "created" /\ heard'[m] = <<>>
    BY <1>1, <2>1, CreatedHears
  <2> QED BY <2>1, <2>3, <2>4, <2>5
<1>2. ASSUME top \in DOMAIN stack, stack[top].do = "afterCreate", stack[top].arg # {}, h = top,
             NEW n0 \in Node, n0 = stack[top].node, Announces(n0),
             stack'[h] = Chained(parent[n0], stack[top].arg), About(stack'[h]) = stack[top].arg
      PROVE  Good(h, n)
  <2> DEFINE A == stack[top].arg
  <2>1. parent[n0] # NoNode /\ parent[n0] \in A /\ parent[n0] = n /\ stack'[h].arg = A \ {n}
    BY <1>2, NextCreated DEF Chained
  <2>2. parent' = parent /\ life' = life /\ heard' = [heard EXCEPT ![n0] = Append(@, "afterCreate")]
    BY <1>2 DEF Announces
  <2>3. /\ n0 \notin A /\ A \subseteq Above(n0)
        /\ \A m \in About(stack[top]) : life[m] = "created" /\ heard[m] = <<>>
        /\ \A m \in A, z \in Above(n0) : m \in Above(z) /\ z # n0 => z \in A
    BY <1>0, <1>2 DEF Creating
  <2>4. Above(n0) = {n0} \cup Above(n) /\ n0 \notin Above(n)
    BY <1>0, <2>1, AboveFacts
  <2>5. \A z : Above(z)' = Above(z)
    BY <2>2, SameAbove
  <2>6. A \subseteq Node /\ A \subseteq About(stack[top])
    BY <1>0, <2>3, AboveFacts, <1>2 DEF About
  <2>7. \A m \in A : heard'[m] = heard[m]
    BY <1>0, <2>2, <2>3, <2>6 DEF Typed
  <2>8. stack'[h].arg \subseteq Above(n)'
    BY <2>1, <2>3, <2>4, <2>5
  <2>9. \A m \in About(stack'[h]) : life'[m] = "created" /\ heard'[m] = <<>>
    BY <1>2, <2>2, <2>3, <2>6, <2>7
  <2>10. \A m \in stack'[h].arg, z \in Above(n)' : m \in Above(z)' /\ z # n => z \in stack'[h].arg
    <3> SUFFICES ASSUME NEW m \in A, NEW z \in Above(n), m \in Above(z), z # n PROVE z \in A
      BY <2>1, <2>5
    <3> QED BY <2>3, <2>4
  <2> QED BY <2>1, <2>8, <2>9, <2>10
<1>3. ASSUME NEW q \in Node, Alive(q), q \notin built, About(stack'[h]) = ParentChain(q), Builds(ParentChain(q)),
             stack'[h] = Chained(q, ParentChain(q))
      PROVE  Good(h, n)
  <2> DEFINE A == ParentChain(q)
  <2>1. q = n /\ stack'[h].arg = A \ {n}
    BY <1>3 DEF Chained
  <2>2. /\ A \subseteq Above(n) /\ A \subseteq Node /\ A \cap built = {}
        /\ \A m \in A, z \in Above(n) : m \in Above(z) => z \in A
    BY <1>0, <1>3, <2>1, ChainFacts
  <2>3. \A m \in A : Alive(m) /\ heard[m] = <<>>
    BY <1>0, <1>3, <2>1, <2>2, AliveAbove DEF IInv, LifeOfNodes
  <2>4. parent' = parent /\ heard' = heard /\ \A m \in A : life'[m] = "created"
    BY <1>3, <2>2, <2>3 DEF Builds
  <2>5. \A z : Above(z)' = Above(z)
    BY <2>4, SameAbove
  <2>6. n \notin stack'[h].arg /\ stack'[h].arg \subseteq Above(n)'
    BY <2>1, <2>2, <2>5
  <2>7. \A m \in About(stack'[h]) : life'[m] = "created" /\ heard'[m] = <<>>
    BY <1>3, <2>3, <2>4
  <2>8. \A m \in stack'[h].arg, z \in Above(n)' : m \in Above(z)' /\ z # n => z \in stack'[h].arg
    <3> SUFFICES ASSUME NEW m \in A, NEW z \in Above(n), m \in Above(z), z # n PROVE z \in A
      BY <2>1, <2>5
    <3> QED BY <2>2
  <2> QED BY <2>6, <2>7, <2>8
<1>4. CASE NewStep(h)
  <2>1. top \in DOMAIN stack => stack[top].node \in Node
    BY MovesFacts
  <2> HIDE DEF Good
  <2> QED BY <1>2, <1>3, <1>4, <2>1, NewChain
<1> QED BY <1>1, <1>4, MovesFacts

\* Finalizing is preserved.
LEMMA FinalizingStays ==
  ASSUME IInv, NEW b, Moves(b)
  PROVE  Finalizing'
<1> DEFINE Good(h, n) ==
      /\ life'[n] = "created" /\ heard'[n] # <<>>
      /\ \/ parent'[n] = NoNode /\ Last(heard'[n]) = "afterCreate"
         \/ /\ parent'[n] # NoNode /\ life'[parent'[n]] = "finalized"
            /\ \/ Last(heard'[n]) = "afterAttach"
               \/ /\ h = Len(agenda') - 1 /\ Is(stack'[h + 1], "afterAttach", n)
                  /\ Last(heard'[n]) = "afterCreate"
<1> SUFFICES ASSUME NEW h \in DOMAIN stack', stack'[h].do = "finalized", NEW n \in Node, n = stack'[h].node
             PROVE  Good(h, n)
  BY MovesFacts DEF Finalizing
<1>0. /\ DOMAIN stack = 1 .. top /\ top \in Nat /\ b \in {top, top - 1} /\ Typed
      /\ Finalizing /\ Attaching /\ Detaching /\ Storing /\ Leaving /\ NotTooEarly /\ NotRevived /\ LifeOfNodes
  BY MovesFacts DEF IInv
<1>1. CASE Low(h, b)
  <2>1. h \in DOMAIN stack /\ h <= b /\ stack[h].do = "finalized" /\ stack[h].node = n /\ stack'[h] = stack[h]
    BY <1>1 DEF Low
  <2>2. /\ life[n] = "created" /\ heard[n] # <<>>
        /\ \/ parent[n] = NoNode /\ Last(heard[n]) = "afterCreate"
           \/ /\ parent[n] # NoNode /\ life[parent[n]] = "finalized"
              /\ \/ Last(heard[n]) = "afterAttach"
                 \/ /\ h = top - 1 /\ Is(stack[h + 1], "afterAttach", n)
                    /\ Last(heard[n]) = "afterCreate"
    BY <1>0, <2>1 DEF Finalizing, top
  <2>3. /\ Alive(n)' /\ parent'[n] = parent[n] /\ (parent[n] # NoNode => Alive(parent[n])')
    <3>1. Finishing(stack[h])
      BY <2>1 DEF Finishing
    <3> QED BY <1>1, <2>1, <3>1, FinalizedFixed
  <2>4. parent[n] # NoNode => parent[n] \in Node /\ life'[parent[n]] = "finalized"
    <3> SUFFICES ASSUME parent[n] # NoNode, NEW q, q = parent[n] PROVE q \in Node /\ life'[q] = "finalized"
      OBVIOUS
    <3>1. q \in Node /\ life[q] = "finalized"
      BY <1>0, <2>2, AboveFacts
    <3>2. Alive(q)'
      BY <2>3 DEF Alive
    <3> QED BY <3>1, <3>2, FinalizedStays
  <2>5. CASE Passes
    <3>1. h + 1 \in DOMAIN stack => stack'[h + 1] = stack[h + 1]
      BY <2>5, PassesFacts
    <3>2. h = top - 1 => h + 1 \in DOMAIN stack
      BY <1>0, <2>1
    <3> QED BY <2>2, <2>5, <3>1, <3>2, PassesFacts DEF top
  <2>6. CASE ~Passes
    <3>1. h # top
      <4> SUFFICES ASSUME h = top PROVE FALSE
        OBVIOUS
      <4>1. top > 0
        BY <1>0, <2>1
      <4>2. Completes(n)
        BY <2>1, <2>6, <4>1, TopEffects
      <4>3. stack'[top].do = "finalize"
        BY <2>1, <4>2, StepFields, MovesFacts, <1>0 DEF Completes
      <4> QED BY <2>1, <4>3
    <3>2. Unreached(h, n)
      BY <1>0, <2>1 DEF NotTooEarly
    <3>3. ~Finalizes(stack[top], n) /\ h < top
      BY <1>0, <2>1, <2>2, <3>1, <3>2, TopReaches
    <3>4. n \in built /\ ~Completes(n)
      BY <1>0, <2>2, <3>3 DEF LifeOfNodes, Completes, OnTop, Is, Finalizes
    <3>5. life'[n] = "created"
      BY <2>2, <2>3, <3>4, LifeSteps
    <3>6. ~Announces(n)
      BY <1>0, <3>3, HookOnTop DEF Finalizes, About
    <3>7. ~Fires(n, "beforeDetach")
      <4> SUFFICES ASSUME Fires(n, "beforeDetach") PROVE FALSE
        OBVIOUS
      <4>1. top \in DOMAIN stack /\ stack[top].do = "beforeDetach" /\ stack[top].node = n
        BY <1>0, HookOnTop
      <4>2. top > 1 /\ Is(stack[top - 1], "leave", n)
        BY <1>0, <4>1 DEF Detaching, top
      <4>3. top - 1 \in DOMAIN stack
        BY <1>0, <4>2
      <4> QED BY <1>0, <2>2, <4>2, <4>3 DEF Leaving, Is
    <3>8. ~Fires(n, "beforeDestroy")
      <4> SUFFICES ASSUME Fires(n, "beforeDestroy") PROVE FALSE
        OBVIOUS
      <4>1. top \in DOMAIN stack /\ stack[top].do = "beforeDestroy" /\ stack[top].node = n
        BY <1>0, HookOnTop
      <4>2. n \in Above(n)
        BY <1>0, AboveFacts
      <4> QED BY <1>0, <2>1, <3>3, <4>1, <4>2 DEF NotRevived, Telling, Finishing
    <3>9. CASE Fires(n, "afterAttach")
      <4>1. top \in DOMAIN stack /\ stack[top].do = "afterAttach" /\ stack[top].node = n
        BY <1>0, <3>9, HookOnTop
      <4>2. parent[n] # NoNode
        BY <1>0, <4>1 DEF Attaching
      <4>3. heard'[n] # <<>> /\ Last(heard'[n]) = "afterAttach"
        BY <1>0, <3>9, HeardFire DEF Fires, Hooks
      <4> QED BY <2>2, <2>3, <2>4, <3>5, <4>2, <4>3
    <3>10. CASE heard'[n] = heard[n] /\ ~Fires(n, "afterAttach")
      <4>1. ~(h = top - 1 /\ Is(stack[h + 1], "afterAttach", n))
        <5> SUFFICES ASSUME h = top - 1, Is(stack[h + 1], "afterAttach", n) PROVE FALSE
          OBVIOUS
        <5>1. h + 1 = top /\ top > 0
          BY <1>0, <2>1
        <5>2. stack[top].do = "afterAttach" /\ stack[top].node = n
          BY <5>1 DEF Is
        <5> QED BY <2>6, <3>10, <5>1, <5>2, TopEffects
      <4> QED BY <2>2, <2>3, <2>4, <3>5, <3>10, <4>1
    <3> HIDE DEF Good
    <3> QED BY <3>6, <3>7, <3>8, <3>9, <3>10, HeardBy
  <2> QED BY <2>5, <2>6
<1>2. CASE NewStep(h)
  <2>1. h = top /\ Readies(n)
    BY <1>2, NewByKind
  <2>2. top \in DOMAIN stack /\ stack[top].do = "finalize" /\ stack[top].node = n /\ life[n] = "created"
        /\ heard' = heard /\ parent' = parent /\ life' = life
        /\ (parent[n] # NoNode => /\ life[parent[n]] = "finalized" /\ Len(agenda') = top + 1
                                  /\ stack'[top + 1] = Step("afterAttach", n))
    <3>1. OnTop("finalize", n) /\ life[n] = "created" /\ Same
          /\ (parent[n] # NoNode => /\ life[parent[n]] = "finalized" /\ Len(agenda') = top + 1
                                    /\ stack'[top + 1] = Step("afterAttach", n))
      BY <2>1 DEF Readies
    <3> QED BY <1>0, <3>1, OnTopIs DEF Same
  <2>3. heard[n] # <<>> /\ Last(heard[n]) = "afterCreate"
    BY <2>2, FinalizeFresh
  <2> QED BY <1>0, <2>1, <2>2, <2>3, StepFields DEF Is
<1> QED BY <1>1, <1>2, MovesFacts

\* Disposing is preserved.
LEMMA DisposingStays ==
  ASSUME IInv, NEW b, Moves(b)
  PROVE  Disposing'
<1> SUFFICES ASSUME NEW h \in DOMAIN stack', NEW n \in Node, n = stack'[h].node
             PROVE  /\ stack'[h].do = "beforeDestroy" => h > 1 /\ Is(stack'[h - 1], "dispose", n)
                    /\ stack'[h].do = "dispose" =>
                         SaidFarewell(n)' \/ (h < Len(agenda') /\ Is(stack'[h + 1], "beforeDestroy", n))
                    /\ stack'[h].do = "clear" => SaidFarewell(n)' /\ ~On("dispose", n)'
  BY MovesFacts DEF Disposing, SaidFarewell, On
<1>0. /\ DOMAIN stack = 1 .. top /\ top \in Nat /\ b \in {top, top - 1} /\ Typed /\ DOMAIN stack' = 1 .. Len(agenda')
      /\ \A g \in 1 .. b : stack'[g] = stack[g] /\ g \in DOMAIN stack'
      /\ Disposing /\ DisposedOnce /\ OnceSaid
      /\ Len(agenda') \in Nat
  BY MovesFacts DEF IInv, Low
<1>1. CASE Low(h, b)
  <2>1. h \in DOMAIN stack /\ h <= b /\ stack[h].node = n /\ stack'[h] = stack[h]
    BY <1>1 DEF Low
  <2>2. CASE stack[h].do = "beforeDestroy"
    <3>1. h > 1 /\ Is(stack[h - 1], "dispose", n)
      BY <1>0, <2>1, <2>2 DEF Disposing
    <3>2. h - 1 \in 1 .. b
      BY <1>0, <2>1, <3>1
    <3> QED BY <1>0, <2>1, <2>2, <3>1, <3>2
  <2>3. CASE stack[h].do = "dispose"
    <3>1. SaidFarewell(n) \/ (h < top /\ Is(stack[h + 1], "beforeDestroy", n))
      BY <1>0, <2>1, <2>3 DEF Disposing, top
    <3>2. SaidFarewell(n) => SaidFarewell(n)'
      BY SaidStays
    <3>3. ASSUME h < top, Is(stack[h + 1], "beforeDestroy", n)
          PROVE  SaidFarewell(n)' \/ (h < Len(agenda') /\ Is(stack'[h + 1], "beforeDestroy", n))
      <4>1. h + 1 \in DOMAIN stack /\ stack[h + 1].do = "beforeDestroy" /\ stack[h + 1].node = n
        BY <1>0, <2>1, <3>3 DEF Is
      <4>2. CASE Low(h + 1, b)
        <5>1. stack'[h + 1] = stack[h + 1] /\ h + 1 \in DOMAIN stack'
          BY <4>2 DEF Low
        <5>2. h < Len(agenda')
          BY <1>0, <2>1, <5>1
        <5> QED BY <4>1, <5>1, <5>2 DEF Is
      <4>3. CASE h + 1 = top /\ Popped
        <5>1. Fires(n, "beforeDestroy")
          BY <4>1, <4>3 DEF Popped
        <5>2. SaidFarewell(n)'
          BY <1>0, <5>1, HeardFire DEF Fires, Hooks, SaidFarewell
        <5> QED BY <5>2
      <4>4. Low(h + 1, b) \/ (h + 1 = top /\ Popped)
        BY <4>1, MovesFacts
      <4> QED BY <4>2, <4>3, <4>4
    <3> QED BY <2>1, <2>3, <3>1, <3>2, <3>3
  <2>4. CASE stack[h].do = "clear"
    <3>1. SaidFarewell(n) /\ ~On("dispose", n)
      BY <1>0, <2>1, <2>4 DEF Disposing
    <3>2. ASSUME On("dispose", n)' PROVE FALSE
      <4>1. PICK g \in DOMAIN stack' : stack'[g].do = "dispose" /\ stack'[g].node = n
        BY <3>2 DEF On, Is
      <4>2. CASE Low(g, b)
        BY <3>1, <4>1, <4>2 DEF On, Is, Low
      <4>3. CASE NewStep(g)
        <5>1. TellsRest(n)
          BY <4>1, <4>3, NewByKind
        <5>2. top \in DOMAIN stack /\ Saying(stack[top], n)
          BY <1>0, <5>1 DEF TellsRest, OnTop, Is, Saying
        <5> QED BY <1>0, <3>1, <5>2 DEF OnceSaid
      <4> QED BY <4>2, <4>3, MovesFacts
    <3> QED BY <2>1, <2>4, <3>1, <3>2, SaidStays
  <2> QED BY <2>1, <2>2, <2>3, <2>4
<1>2. CASE NewStep(h)
  <2>1. CASE stack'[h].do = "beforeDestroy"
    <3>1. h = top + 1 /\ TellsRest(n)
      BY <1>2, <2>1, NewByKind
    <3>2. h > 1 /\ h - 1 = top /\ stack'[top] = Step("dispose", n)
      <4>1. OnTop("childrenToldOf", n) /\ stack'[top] = Step("dispose", n)
        BY <3>1 DEF TellsRest
      <4>2. top > 0 /\ top \in Nat
        BY <1>0, <4>1, OnTopIs
      <4> QED BY <3>1, <4>1, <4>2
    <3> QED BY <2>1, <3>2, StepFields DEF Is
  <2>2. CASE stack'[h].do = "dispose"
    <3>1. h = top /\ TellsRest(n)
      BY <1>2, <2>2, NewByKind
    <3>2. h < Len(agenda') /\ stack'[h + 1] = Step("beforeDestroy", n)
      <4>1. top + 1 \in DOMAIN stack' /\ stack'[top + 1] = Step("beforeDestroy", n)
        BY <3>1 DEF TellsRest
      <4> QED BY <1>0, <3>1, <4>1
    <3> QED BY <2>2, <3>2, StepFields DEF Is
  <2>3. CASE stack'[h].do = "clear"
    <3>1. h = top /\ Disposes(n)
      BY <1>2, <2>3, NewByKind
    <3>2. /\ top \in DOMAIN stack /\ stack[top].do = "dispose" /\ stack[top].node = n /\ Kept(top - 1)
          /\ \A g \in DOMAIN stack' : g > top => stack'[g].do = "user"
      <4>1. OnTop("dispose", n) /\ Kept(top - 1) /\ \A g \in DOMAIN stack' : g > top => stack'[g].do = "user"
        BY <3>1 DEF Disposes
      <4> QED BY <1>0, <4>1, OnTopIs
    <3>3. SaidFarewell(n)
      BY <1>0, <3>2 DEF Disposing, top
    <3>4. ASSUME On("dispose", n)' PROVE FALSE
      <4>1. PICK g \in DOMAIN stack' : stack'[g].do = "dispose" /\ stack'[g].node = n
        BY <3>4 DEF On, Is
      <4>2. g < top
        BY <1>0, <2>3, <3>1, <3>2, <4>1
      <4>3. g \in DOMAIN stack /\ stack'[g] = stack[g]
        BY <1>0, <3>2, <4>2 DEF Kept
      <4>4. g = top
        BY <1>0, <3>2, <4>1, <4>3 DEF DisposedOnce
      <4> QED BY <1>0, <4>2, <4>4
    <3> QED BY <2>3, <3>3, <3>4, SaidStays
  <2> QED BY <2>1, <2>2, <2>3
<1> QED BY <1>1, <1>2, MovesFacts

\* DisposedOnce is preserved.
LEMMA DisposedOnceStays ==
  ASSUME IInv, NEW b, Moves(b)
  PROVE  DisposedOnce'
<1> SUFFICES ASSUME NEW h1 \in DOMAIN stack', NEW h2 \in DOMAIN stack',
                    stack'[h1].do = "dispose", stack'[h2].do = "dispose",
                    NEW x \in Node, x = stack'[h1].node, x = stack'[h2].node
             PROVE  h1 = h2
  BY MovesFacts DEF DisposedOnce
<1>0. DOMAIN stack = 1 .. top /\ top \in Nat /\ Disposing /\ DisposedOnce /\ OnceSaid
  BY MovesFacts DEF IInv
<1>1. CASE Low(h1, b) /\ Low(h2, b)
  <2>1. h1 \in DOMAIN stack /\ stack[h1].do = "dispose" /\ stack[h1].node = x
    BY <1>1 DEF Low
  <2>2. h2 \in DOMAIN stack /\ stack[h2].do = "dispose" /\ stack[h2].node = x
    BY <1>1 DEF Low
  <2> QED BY <1>0, <2>1, <2>2 DEF DisposedOnce
<1>2. ASSUME NEW h, NewStep(h), stack'[h].do = "dispose", stack'[h].node = x PROVE h = top /\ TellsRest(x)
  BY <1>2, NewByKind
<1>3. ASSUME NEW h, NEW g, Low(h, b), NewStep(g), stack'[h].do = "dispose", stack'[h].node = x,
             stack'[g].do = "dispose", stack'[g].node = x
      PROVE  FALSE
  <2>1. TellsRest(x)
    BY <1>2, <1>3
  <2>2. top \in DOMAIN stack /\ Saying(stack[top], x) /\ stack[top].do = "childrenToldOf"
    BY <1>0, <2>1 DEF TellsRest, OnTop, Is, Saying
  <2>3. ~SaidFarewell(x) /\ \A g2 \in DOMAIN stack : Saying(stack[g2], x) => g2 = top
    BY <1>0, <2>2 DEF OnceSaid
  <2>4. h \in DOMAIN stack /\ stack[h].do = "dispose" /\ stack[h].node = x
    BY <1>3 DEF Low
  <2>5. h < top /\ Is(stack[h + 1], "beforeDestroy", x)
    BY <1>0, <2>3, <2>4 DEF Disposing, top
  <2>6. h + 1 \in DOMAIN stack /\ Saying(stack[h + 1], x) /\ stack[h + 1].do = "beforeDestroy"
    BY <1>0, <2>4, <2>5 DEF Is, Saying
  <2> QED BY <2>2, <2>3, <2>6
<1>4. CASE NewStep(h1) /\ NewStep(h2)
  <2>1. h1 = top
    BY <1>2, <1>4
  <2>2. h2 = top
    BY <1>2, <1>4
  <2> QED BY <2>1, <2>2
<1>5. CASE Low(h1, b) /\ NewStep(h2)
  BY <1>3, <1>5
<1>6. CASE NewStep(h1) /\ Low(h2, b)
  BY <1>3, <1>6
<1>7. (Low(h1, b) \/ NewStep(h1)) /\ (Low(h2, b) \/ NewStep(h2))
  BY MovesFacts
<1> QED BY <1>1, <1>4, <1>5, <1>6, <1>7

\* DyingPlaced is preserved.
LEMMA DyingStays ==
  ASSUME IInv, NEW b, Moves(b)
  PROVE  DyingPlaced'
<1> SUFFICES ASSUME NEW h \in DOMAIN stack', stack'[h].do = "die", NEW n \in Node, n = stack'[h].node
             PROVE  parent'[n] \in built' \cup {NoNode}
  BY MovesFacts DEF DyingPlaced
<1>0. Typed /\ DyingPlaced
  BY DEF IInv
<1>1. CASE Low(h, b)
  <2>1. h \in DOMAIN stack /\ stack[h].do = "die" /\ stack[h].node = n
    BY <1>1 DEF Low
  <2>2. Steady(n)
    BY <1>1, <2>1, FirmFixed DEF Firm, About
  <2>3. parent'[n] = parent[n]
    BY <1>0, <2>2, AboveFacts DEF Steady
  <2> QED BY <1>0, <2>1, <2>3, BuiltGrows DEF DyingPlaced
<1>2. CASE NewStep(h)
  <2>1. Destroys(n)
    BY <1>2, NewByKind
  <2> QED BY <2>1 DEF Destroys, Same
<1> QED BY <1>1, <1>2, MovesFacts

-----------------------------------------------------------------------------
(* The life of a node *)

\* A new instance belongs to the parent chain of what is read or told.
LEMMA BuiltBy ==
  ASSUME NEW b, Moves(b), NEW n \in built', n \notin built
  PROVE  \E m \in Node : /\ m \notin built /\ n \in ParentChain(m) /\ Builds(ParentChain(m))
                         /\ Reads(m) \/ (WalksOn(m) /\ \E c \in Children(m) : c \in built)
<1>0. Typed
  BY DEF Moves
<1>1. PICK m \in Node : Reads(m) \/ WalksOn(m)
  BY BuiltChanges
<1>2. CASE Reads(m)
  BY <1>2 DEF Reads, Builds
<1>3. CASE WalksOn(m)
  <2>1. n \in BuiltForFarewell(m) /\ Builds(BuiltForFarewell(m))
    BY <1>3 DEF WalksOn, Builds
  <2> QED BY <1>0, <1>3, <2>1, FarewellChain
<1> QED BY <1>1, <1>2, <1>3

\* LifeOfNodes is preserved.
LEMMA LifeStays ==
  ASSUME IInv, NEW b, Moves(b)
  PROVE  LifeOfNodes'
<1> SUFFICES ASSUME NEW n \in Node
             PROVE  /\ n \notin built' => heard'[n] = <<>> /\ life'[n] \in {"initializing", "dead"}
                    /\ n \in built' => life'[n] # "initializing"
                    /\ n \in built' /\ Alive(n)' /\ parent'[n] # NoNode /\ parent'[n] \notin built' => life'[n] = "finalized"
                    /\ ~Alive(n)' => parent'[n] = NoNode /\ \A c \in Node : parent'[c] # n
  BY DEF LifeOfNodes, Alive
<1>0. Typed /\ LifeOfNodes /\ OfTheLiving /\ DOMAIN stack = 1 .. top /\ NoNode \notin Node /\ built \subseteq built' /\ Storing /\ NothingTaken
      /\ built \subseteq Node
  BY MovesFacts, ObjectNodesAssumption, BuiltGrows DEF IInv, Typed
<1>1. ASSUME n \notin built' PROVE heard'[n] = <<>> /\ life'[n] \in {"initializing", "dead"}
  <2>1. n \notin built /\ heard[n] = <<>> /\ life[n] \in {"initializing", "dead"}
    BY <1>0, <1>1 DEF LifeOfNodes
  <2>2. ASSUME NEW hook \in Hooks, Fires(n, hook) \/ (hook = "afterCreate" /\ Announces(n)) PROVE FALSE
    <3>1. top \in DOMAIN stack /\ stack[top].do \in Hooks /\ stack[top].node = n
      BY <1>0, <2>2, HookOnTop
    <3>2. Firm(stack[top]) /\ stack[top].do # "childrenToldOf" /\ n \in About(stack[top])
      BY <3>1 DEF Firm, About, Hooks
    <3> QED BY <1>0, <2>1, <3>1, <3>2 DEF OfTheLiving
  <2>3. heard'[n] = <<>>
    BY <2>1, <2>2, HeardBy DEF Hooks
  <2>4. life'[n] \in {"initializing", "dead"}
    BY <1>1, <2>1, LifeSteps DEF Alive
  <2> QED BY <2>3, <2>4
<1>2. n \in built' => life'[n] # "initializing"
  BY <1>0, LifeSteps DEF LifeOfNodes, Alive
<1>3. ASSUME n \in built', Alive(n)', NEW q, q = parent'[n], q # NoNode, q \notin built' PROVE life'[n] = "finalized"
  <2>1. q = parent[n]
    <3>1. ASSUME NEW x \in Node, NEW p \in Node, Attaches(x, p) PROVE q = parent[n]
      <4>1. parent' = [parent EXCEPT ![x] = p] /\ p \in built
        BY <3>1 DEF Attaches
      <4>2. n # x
        BY <1>0, <1>3, <4>1 DEF Typed, ParentFunction
      <4> QED BY <1>3, <4>1, <4>2
    <3>2. ASSUME NEW x \in Node, Leaves(x) PROVE q = parent[n]
      BY <1>0, <1>3, <3>2 DEF Leaves, Typed, ParentFunction
    <3>3. ASSUME NEW x \in Node, Dies(x) PROVE q = parent[n]
      BY <1>3, <3>3 DEF Dies
    <3> QED BY <1>3, <3>1, <3>2, <3>3, ParentChanges
  <2>2. CASE n \in built
    <3>1. Alive(n) /\ life[n] = "finalized"
      BY <1>0, <1>3, <2>1, <2>2, LivesEnd DEF LifeOfNodes
    <3> QED BY <1>3, <3>1, FinalizedStays
  <2>3. CASE n \notin built
    <3>1. PICK m \in Node : m \notin built /\ n \in ParentChain(m) /\ Builds(ParentChain(m))
      BY <1>3, <2>3, BuiltBy
    <3>2. parent[n] \in built \cup ParentChain(m)
      BY <1>0, <1>3, <2>1, <3>1, ChainFacts
    <3> QED BY <1>3, <2>1, <3>1, <3>2 DEF Builds
  <2> QED BY <2>2, <2>3
<1>4. ASSUME ~Alive(n)' PROVE parent'[n] = NoNode /\ \A c \in Node : parent'[c] # n
  <2>1. CASE ~Alive(n)
    <3>1. parent[n] = NoNode /\ \A c \in Node : parent[c] # n
      BY <1>0, <2>1 DEF LifeOfNodes
    <3>2. ASSUME NEW x \in Node, NEW p \in Node, Attaches(x, p) PROVE parent'[n] = NoNode /\ \A c \in Node : parent'[c] # n
      <4>1. x # n /\ p # n /\ parent' = [parent EXCEPT ![x] = p]
        BY <2>1, <3>2 DEF Attaches
      <4> QED BY <1>0, <3>1, <4>1 DEF Typed, ParentFunction
    <3>3. ASSUME \A x, p \in Node : ~Attaches(x, p) PROVE parent'[n] = NoNode /\ \A c \in Node : parent'[c] # n
      <4>1. \A m \in Node : parent'[m] \in {parent[m], NoNode}
        BY <3>3, FewerAbove
      <4> QED BY <1>0, <3>1, <4>1
    <3> QED BY <3>2, <3>3
  <2>2. CASE Alive(n)
    <3>1. PICK d \in Node : Dies(d) /\ n \in Below(d)
      BY <1>4, <2>2, LivesEnd
    <3>2. top \in DOMAIN stack /\ stack[top].do = "die" /\ stack[top].node = d /\ top > 0
      BY <1>0, <3>1, TopIs DEF Dies, OnTop
    <3>3. Free(d)
      BY <1>0, <3>2, FreeIfTaken DEF Taking, Telling
    <3>4. Below(d) = Beneath(d)
      BY <1>0, <3>3, BelowIs
    <3>5. parent'[n] = NoNode
      BY <3>1 DEF Dies
    <3>6. ASSUME NEW c \in Node, parent'[c] = n PROVE FALSE
      <4>1. c \notin Below(d) /\ parent[c] = n
        BY <1>0, <3>1, <3>6 DEF Dies
      <4>2. n \in Above(c) /\ Above(n) \subseteq Above(c)
        BY <1>0, <4>1, AboveFacts
      <4> QED BY <3>1, <3>4, <4>1, <4>2 DEF Beneath
    <3> QED BY <3>5, <3>6
  <2> QED BY <2>1, <2>2
<1> QED BY <1>1, <1>2, <1>3, <1>4

-----------------------------------------------------------------------------
(* What is heard *)

\* CreatedOnce is preserved: chains that are built are disjoint.
LEMMA CreatedOnceStays ==
  ASSUME IInv, NEW b, Moves(b)
  PROVE  CreatedOnce'
<1> SUFFICES ASSUME NEW h1 \in DOMAIN stack', NEW h2 \in DOMAIN stack', h1 # h2,
                    stack'[h1].do = "afterCreate", stack'[h2].do = "afterCreate"
             PROVE  About(stack'[h1]) \cap About(stack'[h2]) = {}
  BY DEF CreatedOnce, About
<1>0. DOMAIN stack = 1 .. top /\ top \in Nat /\ Typed /\ CreatedOnce /\ OfTheLiving
  BY MovesFacts DEF IInv
<1> DEFINE Next1(h) == /\ top \in DOMAIN stack /\ stack[top].do = "afterCreate" /\ h = top
                       /\ About(stack'[h]) = stack[top].arg
           Fresh(h) == /\ \E n \in Node : (Reads(n) /\ h = top + 1) \/ (WalksOn(n) /\ h = Len(agenda'))
                       /\ About(stack'[h]) \cap built = {}
<1>1. ASSUME NEW h, NewStep(h), stack'[h].do = "afterCreate" PROVE Next1(h) \/ Fresh(h)
  <2>1. ASSUME NEW n \in Node, n \notin built, About(stack'[h]) = ParentChain(n) PROVE About(stack'[h]) \cap built = {}
    BY <1>0, <2>1, ChainFacts
  <2> QED BY <1>1, <2>1, NewChain
<1>2. CASE Low(h1, b) /\ Low(h2, b)
  BY <1>0, <1>2 DEF Low, CreatedOnce
<1>3. ASSUME NEW h, Fresh(h), top \in DOMAIN stack PROVE stack[top].do # "afterCreate"
  BY <1>0, <1>3, OnTopIs DEF Reads, UserOnTop, WalksOn
<1>4. ASSUME NEW h, NEW g, Fresh(h), Fresh(g) PROVE h = g
  <2>1. ASSUME NEW n \in Node, NEW m \in Node, Reads(n), WalksOn(m) PROVE FALSE
    <3>1. UserOnTop /\ OnTop("aboutToDie", m)
      BY <2>1 DEF Reads, WalksOn
    <3>2. stack[top].do = "aboutToDie" /\ top > 0
      BY <1>0, <3>1, OnTopIs
    <3> QED BY <3>1, <3>2 DEF UserOnTop
  <2> QED BY <1>4, <2>1
<1>5. ASSUME NEW g, NEW h, Low(g, b), NewStep(h), h # g, stack'[g].do = "afterCreate", stack'[h].do = "afterCreate"
      PROVE  About(stack'[g]) \cap About(stack'[h]) = {}
  <2>1. g \in DOMAIN stack /\ stack[g].do = "afterCreate" /\ stack'[g] = stack[g]
    BY <1>5 DEF Low
  <2>2. CASE Next1(h)
    <3>1. About(stack[g]) \cap About(stack[top]) = {}
      BY <1>0, <1>5, <2>1, <2>2 DEF CreatedOnce
    <3>2. About(stack'[h]) \subseteq About(stack[top])
      BY <2>2 DEF About
    <3> QED BY <2>1, <3>1, <3>2
  <2>3. CASE Fresh(h)
    <3>1. About(stack[g]) \subseteq built
      BY <1>0, <2>1 DEF OfTheLiving, Firm
    <3> QED BY <2>1, <2>3, <3>1
  <2> HIDE DEF Next1, Fresh
  <2> QED BY <1>1, <1>5, <2>2, <2>3
<1>6. (Low(h1, b) \/ NewStep(h1)) /\ (Low(h2, b) \/ NewStep(h2))
  BY MovesFacts
<1>7. CASE NewStep(h1) /\ NewStep(h2)
  <2>1. Next1(h1) \/ Fresh(h1)
    BY <1>1, <1>7
  <2>2. Next1(h2) \/ Fresh(h2)
    BY <1>1, <1>7
  <2>3. ~(Fresh(h1) /\ Fresh(h2))
    BY <1>4
  <2>4. ~(Next1(h1) /\ Fresh(h2)) /\ ~(Next1(h2) /\ Fresh(h1))
    BY <1>3
  <2> QED BY <2>1, <2>2, <2>3, <2>4
<1>8. CASE Low(h1, b) /\ NewStep(h2)
  BY <1>5, <1>8
<1>9. CASE NewStep(h1) /\ Low(h2, b)
  <2>1. About(stack'[h2]) \cap About(stack'[h1]) = {}
    BY <1>5, <1>9
  <2> QED BY <2>1
<1> QED BY <1>2, <1>6, <1>7, <1>8, <1>9

\* A node without instance hears nothing.
LEMMA UnbuiltHears ==
  ASSUME IInv, NEW b, Moves(b), NEW n \in Node, n \notin built
  PROVE  heard'[n] = <<>>
<1>0. Typed /\ LifeOfNodes /\ OfTheLiving /\ heard[n] = <<>>
  BY DEF IInv, LifeOfNodes
<1>1. ASSUME NEW hook \in Hooks, Fires(n, hook) \/ (hook = "afterCreate" /\ Announces(n)) PROVE FALSE
  <2>1. top \in DOMAIN stack /\ stack[top].do \in Hooks /\ stack[top].node = n
    BY <1>0, <1>1, HookOnTop
  <2>2. Firm(stack[top]) /\ stack[top].do # "childrenToldOf" /\ n \in About(stack[top])
    BY <2>1 DEF Firm, About, Hooks
  <2> QED BY <1>0, <2>1, <2>2 DEF OfTheLiving
<1> QED BY <1>0, <1>1, HeardBy DEF Hooks

\* HeardNothing is preserved.
LEMMA HeardNothingStays ==
  ASSUME IInv, NEW b, Moves(b)
  PROVE  HeardNothing'
<1> SUFFICES ASSUME NEW n \in built', Alive(n)', heard'[n] = <<>>
             PROVE  \E h \in DOMAIN stack' : stack'[h].do = "afterCreate" /\ n \in About(stack'[h])
  <2>1. Creating' /\ Typed'
    BY CreatingStays DEF Moves
  <2>2. \A h \in DOMAIN stack' : stack'[h].do = "afterCreate" => \A m \in About(stack'[h]) : heard'[m] = <<>>
    BY <2>1 DEF Creating, About
  <2> QED BY <2>2 DEF HeardNothing, About
<1>0. DOMAIN stack = 1 .. top /\ top \in Nat /\ Typed /\ LifeOfNodes /\ HeardNothing /\ n \in Node /\ Alive(n)
      /\ DOMAIN stack' = 1 .. Len(agenda') /\ Len(agenda') \in Nat
  <2>1. Typed'
    BY DEF Moves
  <2>2. n \in Node
    BY <2>1 DEF Typed
  <2> QED BY <2>2, MovesFacts, LivesEnd DEF IInv
<1>1. ~Announces(n)
  BY <1>0, HeardFire DEF Announces, Hooks
<1>2. heard[n] = <<>>
  <2>1. \A hook \in Hooks : ~Fires(n, hook)
    BY <1>0, HeardFire DEF Fires
  <2> QED BY <1>0, <1>1, <2>1, HeardBy DEF Hooks
<1>3. CASE n \in built
  <2>1. PICK h \in DOMAIN stack : stack[h].do = "afterCreate" /\ n \in About(stack[h])
    BY <1>0, <1>2, <1>3 DEF HeardNothing
  <2>2. CASE Low(h, b)
    BY <2>1, <2>2 DEF Low
  <2>3. CASE h = top /\ Popped
    <3>1. PICK m \in Node : m = stack[top].node
      BY <2>1, <2>3, MovesFacts
    <3>2. Announces(m) /\ m # n
      BY <1>1, <2>1, <2>3, <3>1 DEF Popped
    <3>3. n \in stack[top].arg
      BY <2>1, <2>3, <3>1, <3>2 DEF About
    <3>4. top \in DOMAIN stack' /\ stack'[top] = Chained(parent[m], stack[top].arg)
          /\ About(Chained(parent[m], stack[top].arg)) = stack[top].arg
      BY <3>2, <3>3, NextCreated DEF Announces
    <3>5. stack'[top].do = "afterCreate"
      BY <3>4 DEF Chained
    <3> QED BY <3>3, <3>4, <3>5
  <2> QED BY <2>1, <2>2, <2>3, MovesFacts
<1>4. CASE n \notin built
  <2>1. PICK m \in Node : /\ m \notin built /\ n \in ParentChain(m) /\ Builds(ParentChain(m))
                          /\ Reads(m) \/ (WalksOn(m) /\ \E c \in Children(m) : c \in built)
    BY <1>4, BuiltBy
  <2>2. About(Chained(m, ParentChain(m))) = {m} \cup ParentChain(m) /\ Chained(m, ParentChain(m)).do = "afterCreate"
    BY DEF Chained, About
  <2>3. Alive(m)
    <3>1. n \in Above(m)
      BY <1>0, <2>1, ChainFacts
    <3>2. ~Alive(m) => n = m
      BY <1>0, <3>1, AboveFacts DEF LifeOfNodes
    <3> QED BY <1>0, <3>2
  <2>4. CASE Reads(m)
    <3>1. stack'[top + 1] = Chained(m, ParentChain(m)) /\ Len(agenda') = top + 1
      BY <2>3, <2>4 DEF Reads
    <3>2. top + 1 \in DOMAIN stack'
      BY <1>0, <3>1
    <3> QED BY <2>1, <2>2, <3>1, <3>2
  <2>5. CASE WalksOn(m)
    <3>1. BuiltForFarewell(m) = ParentChain(m) /\ BuiltForFarewell(m) # {}
      <4>1. Children(m) \cap built # {}
        <5>1. top > 0 /\ stack[top].do = "aboutToDie"
          BY <1>0, <2>5, OnTopIs DEF WalksOn
        <5>2. ~Reads(m)
          BY <5>1 DEF Reads, UserOnTop
        <5> QED BY <2>1, <5>2
      <4> QED BY <2>1, <4>1 DEF BuiltForFarewell
    <3>2. Len(agenda') > top /\ stack'[Len(agenda')] = Chained(m, ParentChain(m))
      BY <2>5, <3>1 DEF WalksOn
    <3>3. Len(agenda') \in DOMAIN stack'
      BY <1>0, <3>2
    <3> QED BY <2>1, <2>2, <3>2, <3>3
  <2> QED BY <2>1, <2>4, <2>5
<1> QED BY <1>3, <1>4

\* How the parent of a live node changes
LEMMA ParentBy ==
  ASSUME IInv, NEW b, Moves(b), NEW n \in Node, Alive(n)'
  PROVE  \/ parent'[n] = parent[n]
         \/ Leaves(n) /\ parent'[n] = NoNode
         \/ \E p \in Node : Attaches(n, p) /\ parent'[n] = p
<1>0. Typed
  BY DEF IInv
<1>1. ASSUME NEW x \in Node, NEW p \in Node, Attaches(x, p)
      PROVE parent'[n] = parent[n] \/ (Attaches(n, p) /\ parent'[n] = p)
  BY <1>0, <1>1 DEF Attaches, Typed, ParentFunction
<1>2. ASSUME NEW x \in Node, Leaves(x)
      PROVE parent'[n] = parent[n] \/ (Leaves(n) /\ parent'[n] = NoNode)
  BY <1>0, <1>2 DEF Leaves, Typed, ParentFunction
<1>3. ASSUME NEW d \in Node, Dies(d) PROVE parent'[n] = parent[n]
  BY <1>3 DEF Dies, Alive
<1> QED BY <1>1, <1>2, <1>3, ParentChanges

\* A step stays on the stack, or it was on top and done.
LEMMA OnStays ==
  ASSUME NEW b, Moves(b), NEW do, NEW n, On(do, n)
  PROVE  On(do, n)' \/ (top \in DOMAIN stack /\ stack[top].do = do /\ stack[top].node = n /\ Popped)
<1>1. PICK h \in DOMAIN stack : stack[h].do = do /\ stack[h].node = n
  BY DEF On, Is
<1>2. CASE Low(h, b)
  BY <1>1, <1>2 DEF Low, On, Is
<1> QED BY <1>1, <1>2, MovesFacts

\* What tells whether a node is finalized and placed
LastSays(n) ==
  \/ SaidFarewell(n)
  \/ life[n] = "created" /\ Last(heard[n]) = "afterCreate"
  \/ life[n] = "created" /\ Last(heard[n]) = "afterAttach" /\ On("finalized", n)
  \/ life[n] = "finalized" /\ parent[n] = NoNode /\ Last(heard[n]) \in {"afterCreate", "beforeDetach"}
  \/ life[n] = "finalized" /\ parent[n] # NoNode /\ Last(heard[n]) = "afterAttach"
  \/ /\ life[n] = "finalized" /\ parent[n] # NoNode
     /\ Last(heard[n]) \in {"afterCreate", "beforeDetach"} /\ On("afterAttach", n)
  \/ /\ life[n] = "finalized" /\ parent[n] # NoNode
     /\ Last(heard[n]) = "beforeDetach" /\ On("leave", n)

\* when n hears something
LEMMA HookSays ==
  ASSUME IInv, NEW b, Moves(b), NEW n \in Node, n \in built, Alive(n)',
         NEW hook \in Hooks, Fires(n, hook) \/ (hook = "afterCreate" /\ Announces(n))
  PROVE  LastSays(n)'
<1>0. /\ DOMAIN stack = 1 .. top /\ top \in Nat /\ b \in {top, top - 1} /\ Typed /\ DOMAIN stack' = 1 .. Len(agenda')
      /\ Len(agenda') \in Nat
      /\ Creating /\ Attaching /\ Detaching /\ Storing /\ Leaving /\ Finalizing
  BY MovesFacts DEF IInv, Low
<1>1. top \in DOMAIN stack /\ stack[top].do = hook /\ stack[top].node = n
  BY <1>0, HookOnTop
<1>2. Kept(top - 1) /\ life' = life /\ parent' = parent /\ heard'[n] # <<>> /\ Last(heard'[n]) = hook
  BY <1>0, HeardFire DEF Fires, Announces, Hooks
<1>3. ASSUME NEW do, top > 1, Is(stack[top - 1], do, n) PROVE On(do, n)'
  <2>1. top - 1 \in DOMAIN stack' /\ stack'[top - 1] = stack[top - 1]
    BY <1>0, <1>2, <1>3 DEF Kept
  <2> QED BY <1>3, <2>1 DEF On
<1>4. CASE hook = "afterCreate"
  <2>1. life[n] = "created"
    BY <1>0, <1>1, <1>4 DEF Creating, About
  <2> QED BY <1>2, <1>4, <2>1 DEF LastSays
<1>5. CASE hook = "afterAttach"
  <2>1. top > 1 /\ parent[n] # NoNode /\ (Is(stack[top - 1], "store", n) \/ Is(stack[top - 1], "finalized", n))
    BY <1>0, <1>1, <1>5 DEF Attaching, top
  <2>2. top - 1 \in DOMAIN stack
    BY <1>0, <2>1
  <2>3. CASE Is(stack[top - 1], "store", n)
    <3>1. life[n] = "finalized"
      BY <1>0, <2>2, <2>3 DEF Storing, Is
    <3> QED BY <1>2, <1>5, <2>1, <3>1 DEF LastSays
  <2>4. CASE Is(stack[top - 1], "finalized", n)
    <3>1. life[n] = "created"
      BY <1>0, <2>2, <2>4 DEF Finalizing, Is
    <3>2. On("finalized", n)'
      BY <1>3, <2>1, <2>4
    <3> QED BY <1>2, <1>5, <3>1, <3>2 DEF LastSays
  <2> QED BY <2>1, <2>3, <2>4
<1>6. CASE hook = "beforeDetach"
  <2>1. top > 1 /\ Is(stack[top - 1], "leave", n)
    BY <1>0, <1>1, <1>6 DEF Detaching, top
  <2>2. top - 1 \in DOMAIN stack
    BY <1>0, <2>1
  <2>3. parent[n] # NoNode /\ life[n] = "finalized"
    BY <1>0, <2>1, <2>2 DEF Leaving, Is
  <2>4. On("leave", n)'
    BY <1>3, <2>1
  <2> QED BY <1>2, <1>6, <2>3, <2>4 DEF LastSays
<1>7. CASE hook = "beforeDestroy"
  BY <1>2, <1>7 DEF LastSays, SaidFarewell
<1> QED BY <1>4, <1>5, <1>6, <1>7 DEF Hooks

\* when n hears nothing
LEMMA SilentlySays ==
  ASSUME IInv, NEW b, Moves(b), NEW n \in Node, n \in built, Alive(n)', LastSays(n), heard[n] # <<>>,
         heard'[n] = heard[n], \A hook \in Hooks : ~Fires(n, hook), ~Announces(n)
  PROVE  LastSays(n)'
<1>0. /\ DOMAIN stack = 1 .. top /\ top \in Nat /\ b \in {top, top - 1} /\ Typed /\ DOMAIN stack' = 1 .. Len(agenda')
      /\ Len(agenda') \in Nat
      /\ Creating /\ Attaching /\ Detaching /\ Storing /\ Leaving /\ Finalizing
  BY MovesFacts DEF IInv, Low
<1>1. life'[n] = life[n] \/ (Completes(n) /\ life[n] = "created" /\ life'[n] = "finalized")
  BY LifeSteps
<1>2. \/ parent'[n] = parent[n]
      \/ Leaves(n) /\ parent'[n] = NoNode
      \/ \E p \in Node : Attaches(n, p) /\ parent'[n] = p
  BY ParentBy
<1>3. CASE SaidFarewell(n)
  BY <1>3, SaidStays DEF LastSays
<1>4. CASE Completes(n)
  <2>1. top \in DOMAIN stack /\ stack[top].do = "finalized" /\ stack[top].node = n
    BY <1>0, <1>4, OnTopIs DEF Completes
  <2>2. life'[n] = "finalized" /\ parent' = parent
    BY <1>0, <1>4 DEF Completes, Typed
  <2>3. \/ parent[n] = NoNode /\ Last(heard[n]) = "afterCreate"
        \/ parent[n] # NoNode /\ Last(heard[n]) = "afterAttach"
    BY <1>0, <2>1 DEF Finalizing, top
  <2> QED BY <2>2, <2>3 DEF LastSays
<1>5. CASE life[n] = "created" /\ ~Completes(n) /\ ~SaidFarewell(n)
  <2>1. life'[n] = "created"
    BY <1>1, <1>5
  <2>2. On("finalized", n) => On("finalized", n)'
    BY <1>5, OnStays DEF Popped
  <2> QED BY <1>5, <2>1, <2>2 DEF LastSays
<1>6. CASE life[n] = "finalized" /\ ~SaidFarewell(n)
  <2>1. life'[n] = "finalized"
    BY <1>1, <1>6
  <2>2. CASE parent'[n] = parent[n]
    <3>1. On("afterAttach", n) => On("afterAttach", n)'
      BY OnStays DEF Popped, Hooks
    <3>2. ASSUME On("leave", n), ~On("leave", n)' PROVE Last(heard[n]) # "beforeDetach" \/ parent[n] = NoNode
      <4>1. Leaves(n)
        BY <3>2, OnStays DEF Popped
      <4> QED BY <4>1, <2>2, <1>0 DEF Leaves, Typed, ParentFunction
    <3> QED BY <1>6, <2>1, <2>2, <3>1, <3>2 DEF LastSays
  <2>3. CASE Leaves(n) /\ parent'[n] = NoNode
    <3>1. top \in DOMAIN stack /\ stack[top].do = "leave" /\ stack[top].node = n
      BY <1>0, <2>3, TopIs
    <3>2. Last(heard[n]) = "beforeDetach"
      BY <1>0, <3>1 DEF Leaving, top
    <3> QED BY <2>1, <2>3, <3>2 DEF LastSays
  <2>4. ASSUME NEW p \in Node, Attaches(n, p), parent'[n] = p PROVE LastSays(n)'
    <3>1. Last(heard[n]) \in {"afterCreate", "beforeDetach"}
      BY <2>4, AttachingHeard
    <3>2. Len(agenda') = top + 2 /\ stack'[top + 2] = Step("afterAttach", n)
      BY <2>4 DEF Attaches
    <3>3. top + 2 \in DOMAIN stack'
      BY <1>0, <3>2
    <3>4. On("afterAttach", n)'
      BY <3>2, <3>3, StepFields DEF On, Is
    <3>5. p # NoNode
      BY ObjectNodesAssumption
    <3> QED BY <2>1, <2>4, <3>1, <3>4, <3>5 DEF LastSays
  <2> QED BY <1>2, <2>2, <2>3, <2>4
<1> QED BY <1>3, <1>4, <1>5, <1>6 DEF LastSays

\* HeardLast is preserved.
LEMMA HeardLastStays ==
  ASSUME IInv, NEW b, Moves(b)
  PROVE  HeardLast'
<1> SUFFICES ASSUME NEW n \in built', Alive(n)', heard'[n] # <<>> PROVE LastSays(n)'
  BY DEF HeardLast, LastSays
<1>0. Typed' /\ HeardLast
  BY DEF IInv, Moves
<1>1. n \in Node /\ Alive(n)
  <2>1. n \in Node
    BY <1>0 DEF Typed
  <2> QED BY <2>1, LivesEnd
<1>2. n \in built
  BY <1>1, UnbuiltHears
<1>3. ASSUME NEW hook \in Hooks, Fires(n, hook) \/ (hook = "afterCreate" /\ Announces(n)) PROVE LastSays(n)'
  BY <1>1, <1>2, <1>3, HookSays
<1>4. CASE (\A hook \in Hooks : ~Fires(n, hook)) /\ ~Announces(n)
  <2>1. heard'[n] = heard[n]
    BY <1>1, <1>4, HeardBy DEF Hooks
  <2>2. LastSays(n)
    BY <1>0, <1>1, <1>2, <2>1 DEF HeardLast, LastSays
  <2> QED BY <1>1, <1>2, <1>4, <2>1, <2>2, SilentlySays
<1> QED BY <1>3, <1>4 DEF Hooks

-----------------------------------------------------------------------------
(* Finalization *)

\* The links to parents that are not finalized
LEMMA UnreadyIs ==
  ASSUME Typed
  PROVE  /\ unready \in ParentFunction
         /\ \A m \in Node : unready[m] \in {parent[m], NoNode}
         /\ \A m \in Node : unready[m] # NoNode =>
              /\ unready[m] = parent[m] /\ life[m] = "created" /\ parent[m] # NoNode
              /\ parent[m] \in Node /\ life[parent[m]] = "created"
         /\ \A m \in Node : life[m] = "created" /\ parent[m] # NoNode /\ life[parent[m]] = "created"
              => unready[m] = parent[m]
BY DEF unready, Typed, ParentFunction

\* The same after a step
LEMMA UnreadyNow ==
  ASSUME Typed'
  PROVE  /\ unready' \in ParentFunction
         /\ \A m \in Node : unready'[m] \in {parent'[m], NoNode}
         /\ \A m \in Node : unready'[m] # NoNode =>
              /\ unready'[m] = parent'[m] /\ life'[m] = "created" /\ parent'[m] # NoNode
              /\ parent'[m] \in Node /\ life'[parent'[m]] = "created"
BY DEF unready, Typed, ParentFunction

\* From a created node, only created ones are reached.
LEMMA UnreadyCreated ==
  ASSUME Typed, NEW n \in Node, life[n] = "created"
  PROVE  \A y \in Ancestors(unready, n) : y \in Node /\ life[y] = "created"
<1> DEFINE S == {y \in Node : life[y] = "created"}
<1>1. n \in S /\ S \in SUBSET Node
  OBVIOUS
<1>2. \A x \in S : unready[x] # NoNode => unready[x] \in S
  BY UnreadyIs
<1>3. Ancestors(unready, n) \subseteq S
  <2> HIDE DEF S
  <2> QED BY <1>1, <1>2, AncestorsLeast
<1> QED BY <1>3

\* The parents that a created node waits for become no more.
LEMMA UnreadyShrinks ==
  ASSUME IInv, NEW b, Moves(b), NEW n \in Node, life[n] = "created", life'[n] = "created"
  PROVE  Ancestors(unready, n)' \subseteq Ancestors(unready, n)
<1>0. Typed /\ Typed' /\ LifeOfNodes /\ Leaving
  BY DEF IInv, Moves
<1> DEFINE S == Ancestors(unready, n)
<1>1. n \in S /\ S \in SUBSET Node
  BY AncestorsSelf, AncestorsType
<1>2. ASSUME NEW x \in S, unready'[x] # NoNode PROVE unready'[x] \in S
  <2>1. x \in Node /\ life[x] = "created"
    BY <1>0, <1>2, UnreadyCreated
  <2>2. /\ unready'[x] = parent'[x] /\ life'[x] = "created" /\ parent'[x] # NoNode
        /\ parent'[x] \in Node /\ life'[parent'[x]] = "created"
    BY <1>0, <1>2, <2>1, UnreadyNow
  <2>3. parent'[x] = parent[x]
    <3>1. \A p \in Node : ~Attaches(x, p)
      BY <2>1 DEF Attaches
    <3>2. Alive(x)'
      BY <2>2 DEF Alive
    <3> QED BY <2>1, <2>2, <3>1, <3>2, ParentBy
  <2>4. PICK p \in Node : p = parent[x] /\ life'[p] = "created"
    BY <2>2, <2>3
  <2>5. p \in built
    BY <1>0, <2>1, <2>2, <2>3, <2>4 DEF LifeOfNodes, Alive
  <2>6. life[p] = "created"
    <3>1. Alive(p)'
      BY <2>4 DEF Alive
    <3> QED BY <2>4, <2>5, <3>1, LifeSteps
  <2>7. unready[x] = p /\ p # NoNode /\ unready \in ParentFunction
    BY <1>0, <2>1, <2>2, <2>3, <2>4, <2>6, UnreadyIs
  <2>8. p \in S
    BY <2>1, <2>7, <1>2, AncestorsStep
  <2> QED BY <2>2, <2>3, <2>4, <2>8
<1>3. Ancestors(unready', n) \subseteq S
  <2> HIDE DEF S
  <2> QED BY <1>1, <1>2, AncestorsLeast
<1> QED BY <1>3

\* Who finalizes a node that was created before comes from a step that did.
LEMMA FinalizesBefore ==
  ASSUME IInv, NEW b, Moves(b), NEW h \in DOMAIN stack', NewStep(h), NEW y \in Node, Finalizes(stack'[h], y),
         life[y] = "created", life'[y] = "created"
  PROVE  /\ top \in DOMAIN stack
         /\ \/ Finalizes(stack[top], y)
            \/ \E m \in Node : Finalizes(stack[top], m) /\ parent[y] = m /\ life[m] = "created"
         /\ b = top - 1
<1>0. Typed /\ LifeOfNodes /\ Finalizing /\ DOMAIN stack = 1 .. top /\ top \in Nat /\ b \in {top, top - 1}
  BY MovesFacts DEF IInv
<1>1. y \in built
  BY <1>0 DEF LifeOfNodes
<1>2. \/ stack'[h].do = "finalize" /\ stack'[h].node = y
      \/ stack'[h].do = "finalized" /\ stack'[h].node = y
      \/ stack'[h].do = "afterCreate" /\ y \in About(stack'[h])
  BY DEF Finalizes
<1>3. ASSUME NEW do \in {"finalize", "finalized", "afterCreate"}, NEW m, OnTop(do, m),
             ~(top \in DOMAIN stack' /\ stack'[top] = stack[top])
      PROVE  top \in DOMAIN stack /\ b = top - 1
  <2>1. top \in DOMAIN stack
    BY <1>0, <1>3, OnTopIs
  <2> QED BY <1>3, <2>1, MovesFacts DEF Low
<1>4. ASSUME Announces(y) PROVE top \in DOMAIN stack /\ Finalizes(stack[top], y) /\ b = top - 1
  <2>1. OnTop("afterCreate", y) /\ stack[top].do = "afterCreate" /\ stack[top].node = y /\ top \in DOMAIN stack
    BY <1>0, <1>4, OnTopIs DEF Announces
  <2>2. heard' # heard
    <3>1. heard'[y] # <<>> /\ Last(heard'[y]) = "afterCreate"
      BY <1>0, <1>4, HeardFire DEF Announces, Hooks
    <3>2. heard[y] = <<>>
      BY <2>1 DEF IInv, Creating, About
    <3> QED BY <3>1, <3>2
  <2>3. ~Low(top, b)
    BY <2>1, <2>2, TopStays, PassesFacts DEF Hooks
  <2>4. b = top - 1
    BY <2>1, <2>3, MovesFacts
  <2> QED BY <2>1, <2>4 DEF Finalizes, About
<1>5. CASE stack'[h].do = "finalize" /\ stack'[h].node = y
  <2>1. Announces(y) \/ \E m \in Node : Completes(m) /\ y \in Children(m)
    BY <1>5, NewByKind
  <2>2. ASSUME NEW m \in Node, Completes(m), y \in Children(m)
        PROVE  top \in DOMAIN stack /\ Finalizes(stack[top], m) /\ parent[y] = m /\ life[m] = "created" /\ b = top - 1
    <3>1. OnTop("finalized", m) /\ top \in DOMAIN stack /\ stack[top].do = "finalized" /\ stack[top].node = m
      BY <1>0, <2>2, OnTopIs DEF Completes
    <3>2. holder[y] = m
      BY <2>2 DEF Children
    <3>3. parent[y] = m
      BY <1>0, <3>2, HolderFacts, ObjectNodesAssumption
    <3>4. ~(top \in DOMAIN stack' /\ stack'[top] = stack[top])
      BY <1>0, <2>2, <3>1, StepFields DEF Completes
    <3> QED BY <1>0, <1>3, <3>1, <3>3, <3>4 DEF Finalizes, Finalizing
  <2> QED BY <1>4, <2>1, <2>2
<1>6. CASE stack'[h].do = "finalized" /\ stack'[h].node = y
  <2>1. Readies(y)
    BY <1>6, NewByKind
  <2>2. OnTop("finalize", y) /\ top \in DOMAIN stack /\ stack[top].do = "finalize" /\ stack[top].node = y
    BY <1>0, <2>1, OnTopIs DEF Readies
  <2>3. stack'[top] # stack[top]
    BY <2>1, <2>2, StepFields DEF Readies
  <2> QED BY <1>3, <2>2, <2>3 DEF Finalizes
<1>7. CASE stack'[h].do = "afterCreate" /\ y \in About(stack'[h])
  <2>1. ASSUME NEW n \in Node, n \notin built, About(stack'[h]) = ParentChain(n) PROVE FALSE
    BY <1>0, <1>1, <1>7, <2>1, ChainFacts
  <2>2. /\ top \in DOMAIN stack /\ stack[top].do = "afterCreate" /\ About(stack'[h]) = stack[top].arg
        /\ Announces(stack[top].node) /\ h = top
    BY <1>7, <2>1, NewChain
  <2>3. PICK m \in Node : m = stack[top].node
    BY <2>2, MovesFacts
  <2>4. ~Low(top, b)
    <3>1. heard'[m] # <<>>
      BY <1>0, <2>2, <2>3, HeardFire DEF Announces, Hooks
    <3>2. heard[m] = <<>>
      BY <2>2, <2>3 DEF IInv, Creating, About
    <3> QED BY <2>2, <3>1, <3>2, TopStays, PassesFacts DEF Hooks
  <2>5. b = top - 1
    BY <2>2, <2>4, MovesFacts
  <2> QED BY <1>7, <2>2, <2>5 DEF Finalizes, About
<1> QED BY <1>2, <1>5, <1>6, <1>7

\* What was not reached by a finalization is not reached after a step.
LEMMA UnreachedStays ==
  ASSUME IInv, NEW b, Moves(b), NEW h, Low(h, b), NEW n \in Node, life[n] # "initializing", Unreached(h, n)
  PROVE  Unreached(h, n)'
<1>0. /\ DOMAIN stack = 1 .. top /\ top \in Nat /\ b \in {top, top - 1} /\ Typed /\ Typed' /\ LifeOfNodes
      /\ h \in DOMAIN stack /\ h <= b
  BY MovesFacts DEF IInv, Low, Moves
<1> SUFFICES ASSUME NEW h2 \in DOMAIN stack', h2 > h, NEW y \in Ancestors(unready, n)', Finalizes(stack'[h2], y),
                    life'[y] = "created"
             PROVE  FALSE
  BY DEF Unreached, Finalizes, About
<1>1. life'[n] = "created"
  <2> SUFFICES ASSUME life'[n] # "created" PROVE FALSE
    OBVIOUS
  <2>1. unready' \in ParentFunction /\ unready'[n] = NoNode
    BY <1>0, UnreadyNow
  <2>2. Ancestors(unready', n) = {n}
    BY <2>1, AncestorsOfRoot
  <2> QED BY <2>2
<1>2. life[n] = "created"
  BY <1>0, <1>1, LifeSteps DEF Alive, LifeOfNodes
<1>3. y \in Ancestors(unready, n)
  BY <1>1, <1>2, UnreadyShrinks
<1>4. y \in Node /\ life[y] = "created"
  BY <1>0, <1>2, <1>3, UnreadyCreated
<1>5. CASE Low(h2, b)
  <2>1. h2 \in DOMAIN stack /\ Finalizes(stack[h2], y)
    BY <1>5 DEF Low
  <2> QED BY <1>3, <1>4, <2>1 DEF Unreached
<1>6. CASE NewStep(h2)
  <2>1. /\ top \in DOMAIN stack /\ b = top - 1
        /\ \/ Finalizes(stack[top], y)
           \/ \E m \in Node : Finalizes(stack[top], m) /\ parent[y] = m /\ life[m] = "created"
    BY <1>4, <1>6, FinalizesBefore
  <2>2. top > h
    BY <1>0, <2>1
  <2>3. ASSUME NEW m \in Node, Finalizes(stack[top], m), parent[y] = m, life[m] = "created" PROVE FALSE
    <3>1. unready[y] = m /\ m # NoNode /\ unready \in ParentFunction
      BY <1>0, <1>4, <2>3, UnreadyIs, ObjectNodesAssumption
    <3>2. m \in Ancestors(unready, n)
      BY <1>3, <3>1, AncestorsStep
    <3> QED BY <2>1, <2>2, <2>3, <3>2 DEF Unreached
  <2> QED BY <1>3, <1>4, <2>1, <2>2, <2>3 DEF Unreached
<1> QED BY <1>5, <1>6, MovesFacts

\* The parents that a node waits for are above it.
LEMMA UnreadyAbove ==
  ASSUME Typed', NEW n \in Node
  PROVE  Ancestors(unready, n)' \subseteq Above(n)'
<1>1. Ancestors(unready', n) \subseteq Ancestors(parent', n)
  <2>1. unready' \in ParentFunction /\ parent' \in ParentFunction /\ \A m \in Node : unready'[m] \in {parent'[m], NoNode}
    BY UnreadyNow DEF Typed
  <2> QED BY <2>1, FewerLinks
<1> QED BY <1>1 DEF Above

\* NotTooEarly is preserved.
LEMMA NotTooEarlyStays ==
  ASSUME IInv, NEW b, Moves(b)
  PROVE  NotTooEarly'
<1> SUFFICES ASSUME NEW h \in DOMAIN stack', NEW n \in Node,
                    \/ stack'[h].do = "afterCreate" /\ n \in About(stack'[h])
                    \/ stack'[h].do = "finalized" /\ n = stack'[h].node
             PROVE  Unreached(h, n)'
  BY MovesFacts DEF NotTooEarly, About, Unreached
<1>0. /\ DOMAIN stack = 1 .. top /\ top \in Nat /\ b \in {top, top - 1} /\ Typed /\ Typed' /\ LifeOfNodes
      /\ NotTooEarly /\ Creating /\ Finalizing
      /\ DOMAIN stack' = 1 .. Len(agenda') /\ Len(agenda') \in Nat
  BY MovesFacts DEF IInv, Low, Moves
<1>1. CASE Low(h, b)
  <2>1. h \in DOMAIN stack /\ stack'[h] = stack[h]
    BY <1>1 DEF Low
  <2>2. Unreached(h, n)
    BY <1>0, <2>1 DEF NotTooEarly
  <2>3. life[n] = "created"
    BY <1>0, <2>1 DEF Creating, Finalizing
  <2> QED BY <1>1, <2>2, <2>3, UnreachedStays
<1>2. ASSUME \A h2 \in DOMAIN stack' : h2 > h => stack'[h2].do \notin {"finalize", "finalized", "afterCreate"}
      PROVE  Unreached(h, n)'
  BY <1>2 DEF Unreached, Finalizes
<1>3. CASE NewStep(h) /\ stack'[h].do = "finalized" /\ n = stack'[h].node
  <2>1. h = top /\ Readies(n)
    BY <1>3, NewByKind
  <2>2. Len(agenda') = (IF parent[n] = NoNode THEN top ELSE top + 1)
        /\ (parent[n] # NoNode => stack'[top + 1] = Step("afterAttach", n))
    BY <2>1 DEF Readies
  <2>3. ASSUME NEW h2 \in DOMAIN stack', h2 > h PROVE stack'[h2].do = "afterAttach"
    <3>1. parent[n] # NoNode /\ h2 = top + 1
      BY <1>0, <2>1, <2>2, <2>3
    <3> QED BY <2>2, <3>1, StepFields
  <2> QED BY <1>2, <2>3
<1>4. ASSUME top \in DOMAIN stack, stack[top].do = "afterCreate", stack[top].arg # {}, h = top,
             NEW n0 \in Node, n0 = stack[top].node, Announces(n0), n \in stack[top].arg
      PROVE  Unreached(h, n)'
  <2>1. n \in Above(n0) /\ n # n0
    BY <1>0, <1>4 DEF Creating
  <2>2. Above(n)' = Above(n)
    <3>1. parent' = parent
      BY <1>4 DEF Announces
    <3> QED BY <3>1, SameAbove
  <2>3. n0 \notin Above(n)
    BY <1>0, <2>1, AncestorsAntisymmetric, ObjectNodesAssumption DEF Above, Typed
  <2>4. ASSUME NEW h2 \in DOMAIN stack', h2 > h PROVE stack'[h2] = Step("user", n0) \/ stack'[h2] = Step("finalize", n0)
    BY <1>0, <1>4, <2>4 DEF Announces
  <2>5. ASSUME NEW h2 \in DOMAIN stack', h2 > h, NEW y, Finalizes(stack'[h2], y) PROVE y = n0
    BY <2>4, <2>5, StepFields DEF Finalizes
  <2>6. n0 \notin Ancestors(unready, n)'
    BY <1>0, <2>2, <2>3, UnreadyAbove
  <2> QED BY <2>5, <2>6 DEF Unreached, Finalizes, About
<1>5. CASE NewStep(h) /\ stack'[h].do = "afterCreate" /\ n \in About(stack'[h])
  <2>1. ASSUME NEW q \in Node, (Reads(q) /\ h = top + 1) \/ (WalksOn(q) /\ h = Len(agenda')) PROVE Unreached(h, n)'
    <3>1. Reads(q) => Len(agenda') \in {top, top + 1}
      BY DEF Reads
    <3>2. \A h2 \in DOMAIN stack' : ~(h2 > h)
      BY <1>0, <2>1, <3>1
    <3> QED BY <1>2, <3>2
  <2>2. top \in DOMAIN stack => stack[top].node \in Node
    BY MovesFacts
  <2> QED BY <1>4, <1>5, <2>1, <2>2, NewChain
<1> QED BY <1>1, <1>3, <1>5, MovesFacts

\* Awaited is preserved: whoever completes goes on to the children.
LEMMA AwaitedStays ==
  ASSUME IInv, NEW b, Moves(b)
  PROVE  Awaited'
<1> SUFFICES ASSUME NEW n \in Node, life'[n] = "created",
                    \A h \in DOMAIN stack' : ~Finalizes(stack'[h], n)
             PROVE  parent'[n] # NoNode /\ life'[parent'[n]] # "finalized"
  BY DEF Awaited, Finalizes, About
<1>0. /\ DOMAIN stack = 1 .. top /\ top \in Nat /\ b \in {top, top - 1} /\ Typed /\ Typed' /\ LifeOfNodes /\ LifeOfNodes'
      /\ Awaited /\ Storing
      /\ DOMAIN stack' = 1 .. Len(agenda') /\ Len(agenda') \in Nat
  BY MovesFacts, LifeStays DEF IInv, Moves
<1>1. Alive(n)' /\ n \in built'
  BY <1>0 DEF Alive, LifeOfNodes
<1>2. n \in built
  <2> SUFFICES ASSUME n \notin built PROVE FALSE
    OBVIOUS
  <2>1. heard'[n] = <<>>
    BY UnbuiltHears
  <2>2. \E h \in DOMAIN stack' : stack'[h].do = "afterCreate" /\ n \in About(stack'[h])
    BY <1>1, <2>1, HeardNothingStays DEF HeardNothing, About
  <2> QED BY <2>2 DEF Finalizes
<1>3. life[n] = "created"
  BY <1>1, <1>2, LifeSteps
<1>4. ASSUME NEW h \in DOMAIN stack, Finalizes(stack[h], n)
      PROVE  parent'[n] # NoNode /\ life'[parent'[n]] # "finalized"
  <2>1. ~Low(h, b)
    BY <1>4 DEF Low
  <2>2. h = top /\ Popped /\ top > 0
    BY <1>0, <2>1, MovesFacts
  <2>3. CASE stack[top].do = "finalize" /\ stack[top].node = n
    <3>1. Waits(n) \/ Readies(n)
      BY <2>2, <2>3 DEF Popped
    <3>2. CASE Readies(n)
      <4>1. stack'[top] = Step("finalized", n) /\ Len(agenda') = (IF parent[n] = NoNode THEN top ELSE top + 1)
        BY <3>2 DEF Readies
      <4>2. top \in DOMAIN stack'
        BY <1>0, <2>2, <4>1
      <4> QED BY <4>1, <4>2, StepFields DEF Finalizes
    <3>3. CASE Waits(n)
      BY <1>3, <3>3 DEF Waits, Same
    <3> QED BY <3>1, <3>2, <3>3
  <2>4. CASE stack[top].do = "finalized" /\ stack[top].node = n
    <3>1. Completes(n)
      BY <2>2, <2>4 DEF Popped
    <3>2. life'[n] = "finalized"
      BY <1>0, <3>1 DEF Completes, Typed
    <3> QED BY <3>2
  <2>5. CASE stack[top].do = "afterCreate" /\ n \in About(stack[top])
    <3>1. PICK m \in Node : m = stack[top].node
      BY <1>4, <2>2, MovesFacts
    <3>2. Announces(m)
      BY <2>2, <2>5, <3>1 DEF Popped
    <3>3. CASE n = m
      <4>1. PICK g \in DOMAIN stack' : stack'[g] = Step("finalize", n)
        BY <3>2, <3>3 DEF Announces
      <4> QED BY <4>1, StepFields DEF Finalizes
    <3>4. CASE n \in stack[top].arg
      <4>1. /\ top \in DOMAIN stack' /\ stack'[top] = Chained(parent[m], stack[top].arg)
            /\ About(Chained(parent[m], stack[top].arg)) = stack[top].arg
        BY <3>2, <3>4, NextCreated DEF Announces
      <4>2. stack'[top].do = "afterCreate"
        BY <4>1 DEF Chained
      <4> QED BY <3>4, <4>1, <4>2 DEF Finalizes
    <3> QED BY <2>5, <3>1, <3>3, <3>4 DEF About
  <2> QED BY <1>4, <2>2, <2>3, <2>4, <2>5 DEF Finalizes
<1>5. ASSUME parent[n] # NoNode, life[parent[n]] # "finalized"
      PROVE  parent'[n] # NoNode /\ life'[parent'[n]] # "finalized"
  <2>1. parent'[n] = parent[n]
    <3>1. \A p \in Node : ~Attaches(n, p)
      BY <1>3 DEF Attaches
    <3>2. ~Leaves(n)
      <4> SUFFICES ASSUME Leaves(n) PROVE FALSE
        OBVIOUS
      <4>1. top \in DOMAIN stack /\ stack[top].do = "leave" /\ stack[top].node = n
        BY TopIs
      <4> QED BY <1>3, <4>1 DEF IInv, Leaving
    <3> QED BY <1>1, <3>1, <3>2, ParentBy
  <2>2. PICK p \in Node : p = parent[n]
    BY <1>0, <1>5, AboveFacts
  <2>3. ASSUME life'[p] = "finalized" PROVE FALSE
    <3>1. Alive(p)' /\ life[p] # "finalized"
      BY <1>5, <2>2, <2>3 DEF Alive
    <3>2. Completes(p)
      BY <2>3, <3>1, LifeSteps
    <3>3. n \in Children(p)
      <4>1. ~On("store", n)
        BY <1>0, <1>3 DEF On, Is, Storing
      <4> QED BY <1>0, <2>2, <4>1, HolderFacts DEF Children
    <3>4. PICK g \in DOMAIN stack' : stack'[g] = Step("finalize", n)
      BY <3>2, <3>3 DEF Completes
    <3> QED BY <3>4, StepFields DEF Finalizes
  <2> QED BY <1>5, <2>1, <2>2, <2>3
<1> QED BY <1>0, <1>3, <1>4, <1>5 DEF Awaited

-----------------------------------------------------------------------------
(* Telling a node that it dies *)

\* A walk reaches nothing that is past.
LEMMA TopComes ==
  ASSUME IInv, NEW n \in Node, top \in DOMAIN stack, stack[top].do = "aboutToDie", stack[top].node = n
  PROVE  \A k \in DOMAIN stack : ~Past(k, n)
<1>0. Typed /\ DOMAIN stack = 1 .. top /\ top \in Nat
  BY StackFacts DEF IInv, top
<1>1. n \in Above(n)
  BY <1>0, AboveFacts
<1>2. Comes(top, n)
  BY <1>1 DEF Comes
<1> SUFFICES ASSUME NEW k \in DOMAIN stack, Past(k, n) PROVE FALSE
  OBVIOUS
<1>3. stack[k].do = "die" /\ \A h \in DOMAIN stack : h > k => ~Comes(h, n)
  BY <1>0, PastIs
<1>4. top > k
  BY <1>0, <1>3
<1> QED BY <1>2, <1>3, <1>4

\* A node that the walk reaches had not been told.
LEMMA NotTold ==
  ASSUME IInv, NEW n \in Node, WalksOn(n)
  PROVE  /\ ~Told(n) /\ ~SaidFarewell(n) /\ Alive(n)
         /\ top \in DOMAIN stack /\ stack[top].do = "aboutToDie" /\ stack[top].node = n /\ top > 0 /\ top \in Nat
<1>0. Typed /\ DOMAIN stack = 1 .. top /\ top \in Nat /\ DiesSoon /\ DiesUnchanged
  BY StackFacts DEF IInv, top
<1>1. Alive(n) /\ top \in DOMAIN stack /\ stack[top].do = "aboutToDie" /\ stack[top].node = n /\ top > 0
  BY <1>0, OnTopIs DEF WalksOn
<1>2. \A k \in DOMAIN stack : ~Past(k, n)
  BY <1>1, TopComes
<1>3. ~SaidFarewell(n)
  BY <1>0, <1>1, <1>2 DEF DiesUnchanged
<1>4. ASSUME NEW h \in DOMAIN stack, Saying(stack[h], n) PROVE FALSE
  <2>1. PICK k \in 1 .. h - 1 : Past(k, n)
    BY <1>0, <1>4 DEF DiesSoon
  <2>2. k \in DOMAIN stack
    BY <1>0, <2>1
  <2> QED BY <1>2, <2>1, <2>2
<1> QED BY <1>0, <1>1, <1>3, <1>4 DEF Told

\* What comes to a child after the death that its parent tells of, is about
\* the child alone, and told by its parent.
LEMMA ChildPast ==
  ASSUME IInv, NEW h \in DOMAIN stack, NEW p \in Node, NEW c \in Node, parent[c] = p, Saying(stack[h], p),
         stack[h].do = "childrenToldOf" => c \in stack[h].arg,
         NEW k \in 1 .. h - 1, Past(k, p), \A j \in k + 1 .. h - 1 : stack[j].do \in WalkSteps,
         NEW j \in DOMAIN stack, j > k, Comes(j, c)
  PROVE  j > h /\ stack[j].do = "aboutToDie" /\ stack[j].node = c
<1>0. Typed /\ DOMAIN stack = 1 .. top /\ top \in Nat /\ OnceSaid /\ ToldBy /\ LifeOfNodes /\ NoNode \notin Node
  BY StackFacts, ObjectNodesAssumption DEF IInv, top
<1>1. Above(c) = {c} \cup Above(p) /\ c \notin Above(p)
  BY <1>0, AboveFacts
<1>2. Alive(c)
  BY <1>0 DEF LifeOfNodes
<1>3. /\ stack[k].do = "die" /\ stack[k].node \in Above(p)
      /\ \A g \in DOMAIN stack : g > k => ~Comes(g, p)
  BY <1>0, PastIs
<1>4. CASE stack[j].do = "childrenToldOf" /\ \E e \in Above(c) : parent[e] = stack[j].node /\ e \notin stack[j].arg
  <2>1. PICK e \in Above(c) : parent[e] = stack[j].node /\ e \notin stack[j].arg
    BY <1>4
  <2>2. e \notin Above(p)
    BY <1>3, <1>4, <2>1 DEF Comes
  <2>3. e = c /\ Saying(stack[j], p)
    BY <1>1, <1>4, <2>1, <2>2 DEF Saying
  <2>4. j = h
    BY <1>0, <2>3 DEF OnceSaid
  <2> QED BY <1>4, <2>1, <2>3, <2>4
<1>5. CASE stack[j].do = "aboutToDie" /\ stack[j].node \in Above(c)
  <2>1. stack[j].node = c
    BY <1>1, <1>3, <1>5 DEF Comes
  <2>2. j # h
    BY <1>5 DEF Saying
  <2>3. ASSUME j < h PROVE FALSE
    <3>1. CASE j > 1 /\ Is(stack[j - 1], "die", c)
      <4>1. stack[j - 1].do = "die" /\ stack[j - 1].node = c
        BY <3>1 DEF Is
      <4>2. j - 1 = k \/ j - 1 \in k + 1 .. h - 1
        BY <1>0, <2>3
      <4>3. j - 1 = k
        BY <4>1, <4>2 DEF WalkSteps
      <4> QED BY <1>1, <1>3, <4>1, <4>3
    <3>2. ASSUME NEW g \in 1 .. j - 1, Saying(stack[g], p) PROVE FALSE
      <4>1. g \in DOMAIN stack
        BY <1>0, <3>2
      <4>2. g = h
        BY <1>0, <3>2, <4>1 DEF OnceSaid
      <4> QED BY <1>0, <2>3, <4>2
    <3> QED BY <1>0, <1>2, <1>5, <2>1, <3>1, <3>2 DEF ToldBy
  <2> QED BY <1>0, <1>5, <2>1, <2>2, <2>3
<1> QED BY <1>4, <1>5 DEF Comes

\* A walk that goes on from n does not come to n again.
LEMMA WalkLeaves ==
  ASSUME IInv, NEW b, Moves(b), NEW n \in Node, WalksOn(n), NEW h \in DOMAIN stack', h >= top
  PROVE  ~Comes(h, n)'
<1>0. Typed /\ Typed' /\ NoNode \notin Node
  BY ObjectNodesAssumption DEF IInv, Moves
<1>1. parent' = parent /\ Above(n)' = Above(n)
  <2>1. parent' = parent
    BY DEF WalksOn, Builds
  <2> QED BY <2>1, SameAbove
<1>2. \A c \in Node : parent[c] = n => c \notin Above(n)
  <2> SUFFICES ASSUME NEW c \in Node, parent[c] = n, c \in Above(n) PROVE FALSE
    OBVIOUS
  <2>1. c \notin Above(n)
    BY <1>0, AboveFacts
  <2> QED BY <2>1
<1>3. \A c \in Children(n) : c \notin Above(n)
  BY ToldChild
<1>4. CASE h = top
  <2>1. stack'[top].do = "childrenToldOf" /\ stack'[top].node = n
    BY DEF WalksOn
  <2>2. Above(n) \subseteq Node
    BY <1>0, AboveFacts
  <2> QED BY <1>1, <1>2, <1>4, <2>1, <2>2 DEF Comes
<1>5. CASE h > top
  <2>1. Told1(top, h, Children(n)) \/ stack'[h] = Chained(n, BuiltForFarewell(n))
    BY <1>5 DEF WalksOn
  <2>2. CASE Told1(top, h, Children(n))
    <3>1. PICK c \in Children(n) : stack'[h] = Step("aboutToDie", c)
      BY <2>2, ToldBefore
    <3> QED BY <1>1, <1>3, <3>1, StepFields DEF Comes
  <2>3. CASE stack'[h] = Chained(n, BuiltForFarewell(n))
    BY <2>3 DEF Chained, Comes
  <2> QED BY <2>1, <2>2, <2>3
<1>6. h = top \/ h > top
  BY MovesFacts
<1> QED BY <1>4, <1>5, <1>6

\* DiesSoon is preserved.
LEMMA DiesSoonStays ==
  ASSUME IInv, NEW b, Moves(b)
  PROVE  DiesSoon'
<1> SUFFICES ASSUME NEW n \in Node, NEW h \in DOMAIN stack', Saying(stack'[h], n)
             PROVE  \E k \in 1 .. h - 1 : Past(k, n)' /\ \A j \in k + 1 .. h - 1 : stack'[j].do \in WalkSteps
  BY DEF DiesSoon, Saying, Past, ComesTo, Up
<1>0. /\ DOMAIN stack = 1 .. top /\ top \in Nat /\ b \in {top, top - 1} /\ b \in Nat /\ Typed /\ Typed'
      /\ DiesSoon /\ ToldBy /\ OfTheLiving
      /\ \A g \in 1 .. b : Low(g, b)
      /\ \A g \in 1 .. b : stack'[g] = stack[g] /\ g \in DOMAIN stack
  BY MovesFacts DEF IInv, Low, Moves
<1>1. CASE Low(h, b)
  <2>1. h \in DOMAIN stack /\ h <= b /\ Saying(stack[h], n)
    BY <1>1 DEF Low
  <2>2. PICK k \in 1 .. h - 1 : Past(k, n) /\ \A j \in k + 1 .. h - 1 : stack[j].do \in WalkSteps
    BY <1>0, <2>1 DEF DiesSoon
  <2>3. Alive(n)'
    BY <1>1, <2>1, FirmFixed DEF Firm, About, Saying
  <2>4. Low(k, b) /\ \A j \in k + 1 .. h - 1 : stack'[j] = stack[j]
    BY <1>0, <2>1
  <2>5. Past(k, n)'
    BY <2>2, <2>3, <2>4, PastStays
  <2> QED BY <2>2, <2>4, <2>5
<1>2. CASE NewStep(h) /\ stack'[h].do = "beforeDestroy"
  <2>1. h = top + 1 /\ TellsRest(n)
    BY <1>2, NewByKind DEF Saying
  <2>2. /\ top \in DOMAIN stack /\ Saying(stack[top], n) /\ stack'[top] = Step("dispose", n) /\ life' = life
        /\ stack[top].do = "childrenToldOf"
    BY <1>0, <2>1, OnTopIs DEF TellsRest, Saying, Same
  <2>3. PICK k \in 1 .. top - 1 : Past(k, n) /\ \A j \in k + 1 .. top - 1 : stack[j].do \in WalkSteps
    BY <1>0, <2>2 DEF DiesSoon
  <2>4. Alive(n)'
    BY <1>0, <2>2 DEF OfTheLiving, Firm, About, Saying, Alive
  <2>5. Low(k, b) /\ k \in 1 .. h - 1 /\ \A j \in k + 1 .. top - 1 : stack'[j] = stack[j]
    BY <1>0, <2>1
  <2>6. Past(k, n)'
    BY <2>3, <2>4, <2>5, PastStays
  <2>7. \A j \in k + 1 .. h - 1 : j = top \/ j \in k + 1 .. top - 1
    BY <1>0, <2>1
  <2>8. \A j \in k + 1 .. h - 1 : stack'[j].do \in WalkSteps
    BY <2>2, <2>3, <2>5, <2>7, StepFields DEF WalkSteps
  <2> QED BY <2>5, <2>6, <2>8
<1>3. CASE NewStep(h) /\ stack'[h].do = "childrenToldOf"
  <2>1. h = top /\ WalksOn(n)
    BY <1>3, NewByKind DEF Saying
  <2>2. top \in DOMAIN stack /\ stack[top].do = "aboutToDie" /\ stack[top].node = n /\ Alive(n) /\ top > 0
    BY <2>1, NotTold
  <2>3. parent' = parent /\ Above(n)' = Above(n)
    <3>1. parent' = parent
      BY <2>1 DEF WalksOn, Builds
    <3> QED BY <3>1, SameAbove
  <2>4. \A g \in DOMAIN stack' : g >= top => ~Comes(g, n)'
    BY <2>1, WalkLeaves
  <2>5. \A g \in 1 .. top - 1 : stack'[g] = stack[g] /\ g \in DOMAIN stack
    BY <1>0
  <2>6. ASSUME NEW k \in 1 .. top - 1, stack[k].do = "die", stack[k].node \in Above(n),
               \A g \in k + 1 .. top - 1 : ~Comes(g, n)
        PROVE  Past(k, n)'
    <3>1. stack'[k].do = "die" /\ stack'[k].node \in Above(n)'
      BY <2>3, <2>5, <2>6
    <3>2. ASSUME NEW g \in DOMAIN stack', g > k PROVE ~Comes(g, n)'
      <4>1. CASE g >= top
        BY <2>4, <4>1
      <4>2. CASE g < top
        <5>1. g \in k + 1 .. top - 1 /\ g \in 1 .. top - 1
          BY <1>0, <3>2, <4>2, Domains
        <5>2. ~Comes(g, n) /\ stack'[g] = stack[g]
          BY <2>5, <2>6, <5>1
        <5> QED BY <2>3, <5>2 DEF Comes
      <4> QED BY <1>0, <4>1, <4>2, Domains
    <3> QED BY <1>0, <3>1, <3>2, PastIsNow
  <2>7. CASE top > 1 /\ Is(stack[top - 1], "die", n)
    <3>0. PICK k : k = top - 1
      OBVIOUS
    <3>1. k \in 1 .. top - 1 /\ stack[k].do = "die" /\ stack[k].node = n
      BY <1>0, <2>7, <3>0 DEF Is
    <3>2. n \in Above(n)
      BY <1>0, AboveFacts
    <3>3. \A g \in k + 1 .. top - 1 : FALSE
      BY <1>0, <3>0
    <3>4. Past(k, n)'
      BY <2>6, <3>1, <3>2, <3>3
    <3> QED BY <2>1, <3>1, <3>3, <3>4
  <2>8. ASSUME parent[n] # NoNode, NEW p, p = parent[n], NEW h2 \in 1 .. top - 1, Saying(stack[h2], p),
               stack[h2].do = "childrenToldOf" => n \in stack[h2].arg,
               \A j \in h2 + 1 .. top - 1 : stack[j].do = "aboutToDie" /\ stack[j].node # n
        PROVE  \E k \in 1 .. h - 1 : Past(k, n)' /\ \A j \in k + 1 .. h - 1 : stack'[j].do \in WalkSteps
    <3>1. p \in Node /\ Above(p) \subseteq Above(n) /\ h2 \in DOMAIN stack
      BY <1>0, <2>8, AboveFacts
    <3>2. PICK k \in 1 .. h2 - 1 : Past(k, p) /\ \A j \in k + 1 .. h2 - 1 : stack[j].do \in WalkSteps
      BY <1>0, <2>8, <3>1 DEF DiesSoon
    <3>3. k \in 1 .. top - 1
      BY <1>0, <3>2
    <3>4. stack[k].do = "die" /\ stack[k].node \in Above(n)
      BY <1>0, <3>1, <3>2, PastIs
    <3>5. ASSUME NEW g \in k + 1 .. top - 1, Comes(g, n) PROVE FALSE
      <4>1. g \in DOMAIN stack /\ g > k
        BY <1>0, <3>3, <3>5
      <4>2. g > h2 /\ stack[g].do = "aboutToDie" /\ stack[g].node = n
        BY <2>8, <3>1, <3>2, <3>5, <4>1, ChildPast
      <4>3. g \in h2 + 1 .. top - 1
        BY <1>0, <3>3, <3>5, <4>2
      <4> QED BY <2>8, <4>2, <4>3
    <3>6. Past(k, n)'
      BY <2>6, <3>3, <3>4, <3>5
    <3>7. ASSUME NEW j \in k + 1 .. top - 1 PROVE stack'[j].do \in WalkSteps
      <4>1. stack'[j] = stack[j]
        BY <1>0, <2>5, <3>3
      <4>2. j \in k + 1 .. h2 - 1 \/ j = h2 \/ j \in h2 + 1 .. top - 1
        BY <1>0, <3>3
      <4> QED BY <2>8, <3>2, <4>1, <4>2 DEF WalkSteps, Saying
    <3> QED BY <2>1, <3>3, <3>6, <3>7
  <2>9. CASE ~(top > 1 /\ Is(stack[top - 1], "die", n))
    <3>1. PICK p : p = parent[n]
      OBVIOUS
    <3>2. /\ p # NoNode
          /\ \E h2 \in 1 .. top - 1 :
               /\ Saying(stack[h2], p)
               /\ stack[h2].do = "childrenToldOf" => n \in stack[h2].arg
               /\ \A j \in h2 + 1 .. top - 1 : stack[j].do = "aboutToDie" /\ stack[j].node # n
      BY <1>0, <2>2, <2>9, <3>1 DEF ToldBy
    <3> QED BY <2>8, <3>1, <3>2
  <2> QED BY <2>7, <2>9
<1> QED BY <1>1, <1>2, <1>3, MovesFacts DEF Saying

\* Steps that stay below one that was done
LEMMA NewSaying ==
  ASSUME IInv, NEW b, Moves(b), NEW n \in Node, NEW h \in DOMAIN stack', NewStep(h), Saying(stack'[h], n)
  PROVE  \/ WalksOn(n) /\ h = top /\ ~Told(n)
         \/ TellsRest(n) /\ h = top + 1 /\ top \in DOMAIN stack /\ Saying(stack[top], n)
<1>0. Typed
  BY DEF IInv
<1>1. (WalksOn(n) /\ h = top) \/ (TellsRest(n) /\ h = top + 1)
  BY NewByKind DEF Saying
<1> QED BY <1>0, <1>1, NotTold, OnTopIs DEF TellsRest, Saying

\* OnceSaid is preserved.
LEMMA OnceSaidStays ==
  ASSUME IInv, NEW b, Moves(b)
  PROVE  OnceSaid'
<1> SUFFICES ASSUME NEW n \in Node, NEW h \in DOMAIN stack', Saying(stack'[h], n)
             PROVE  /\ ~SaidFarewell(n)'
                    /\ \A h2 \in DOMAIN stack' : Saying(stack'[h2], n) => h2 = h
  BY DEF OnceSaid, Saying, SaidFarewell
<1>0. OnceSaid /\ Typed /\ DOMAIN stack = 1 .. top /\ top \in Nat /\ b \in {top, top - 1}
  BY MovesFacts DEF IInv
<1>1. ASSUME NEW g, Low(g, b), Saying(stack'[g], n) PROVE g \in DOMAIN stack /\ Saying(stack[g], n) /\ Told(n)
  BY <1>1 DEF Low, Told
<1>2. ~SaidFarewell(n)
  <2>1. CASE Low(h, b)
    BY <1>0, <1>1, <2>1 DEF OnceSaid
  <2>2. CASE NewStep(h)
    BY <1>0, <2>2, NewSaying DEF OnceSaid, Told
  <2> QED BY <2>1, <2>2, MovesFacts
<1>3. ~SaidFarewell(n)'
  <2> SUFFICES ASSUME Fires(n, "beforeDestroy") PROVE FALSE
    BY <1>2, SaidStays
  <2>1. top \in DOMAIN stack /\ Saying(stack[top], n) /\ stack[top].do \in Hooks
    BY <1>0, HookOnTop DEF Hooks, Saying
  <2>2. CASE Low(h, b)
    <3>1. h = top
      BY <1>0, <1>1, <2>1, <2>2 DEF OnceSaid
    <3>2. heard' = heard
      BY <2>1, <2>2, <3>1, TopStays, PassesFacts
    <3>3. SaidFarewell(n)'
      BY <1>0, HeardFire DEF Fires, Hooks, SaidFarewell
    <3> QED BY <1>2, <3>2, <3>3 DEF SaidFarewell
  <2>3. CASE NewStep(h)
    <3>1. OnTop("beforeDestroy", n) /\ (OnTop("aboutToDie", n) \/ OnTop("childrenToldOf", n))
      BY <2>3, NewSaying DEF Fires, WalksOn, TellsRest
    <3> QED BY <3>1 DEF OnTop, Is
  <2> QED BY <2>2, <2>3, MovesFacts
<1>4. ASSUME NEW g \in DOMAIN stack', NEW j \in DOMAIN stack', Low(g, b), NewStep(j),
             Saying(stack'[g], n), Saying(stack'[j], n)
      PROVE  FALSE
  <2>1. g \in DOMAIN stack /\ Saying(stack[g], n) /\ Told(n) /\ stack'[g] = stack[g]
    BY <1>1, <1>4 DEF Low
  <2>2. TellsRest(n) /\ top \in DOMAIN stack /\ Saying(stack[top], n)
    BY <1>4, <2>1, NewSaying
  <2>3. g = top
    BY <1>0, <2>1, <2>2 DEF OnceSaid
  <2>4. stack'[top] = Step("dispose", n)
    BY <2>2 DEF TellsRest
  <2> QED BY <1>4, <2>3, <2>4, StepFields DEF Saying
<1>5. ASSUME NEW g \in DOMAIN stack', Saying(stack'[g], n) PROVE g = h
  <2>1. CASE Low(g, b) /\ Low(h, b)
    BY <1>0, <1>1, <1>5, <2>1 DEF OnceSaid
  <2>2. CASE NewStep(g) /\ NewStep(h)
    <3>1. (WalksOn(n) /\ g = top) \/ (TellsRest(n) /\ g = top + 1)
      BY <1>5, <2>2, NewSaying
    <3>2. (WalksOn(n) /\ h = top) \/ (TellsRest(n) /\ h = top + 1)
      BY <2>2, NewSaying
    <3>3. ~(WalksOn(n) /\ TellsRest(n))
      BY DEF WalksOn, TellsRest, OnTop, Is
    <3> QED BY <3>1, <3>2, <3>3
  <2>3. CASE Low(g, b) /\ NewStep(h)
    BY <1>4, <1>5, <2>3
  <2>4. CASE NewStep(g) /\ Low(h, b)
    BY <1>4, <1>5, <2>4
  <2> QED BY <2>1, <2>2, <2>3, <2>4, MovesFacts, <1>5
<1> QED BY <1>3, <1>5

\* What is told dies, at its place.
LEMMA DeathStays ==
  ASSUME IInv, NEW b, Moves(b), NEW n \in Node, Alive(n)', NEW k \in DOMAIN stack, Past(k, n)
  PROVE  Low(k, b) /\ Past(k, n)' /\ Steady(n)
<1>0. Typed /\ Storing /\ NothingTaken /\ DOMAIN stack = 1 .. top /\ top \in Nat
  BY MovesFacts DEF IInv
<1>1. stack[k].do = "die" /\ stack[k].node \in Above(n) /\ stack[k].node \in Node
  BY <1>0, PastIs, AboveFacts
<1>2. Low(k, b)
  <2> SUFFICES ASSUME ~Low(k, b) PROVE FALSE
    OBVIOUS
  <2>1. k = top /\ Popped
    BY MovesFacts
  <2>2. PICK d \in Node : d = stack[top].node
    BY <1>1, <2>1
  <2>3. Dies(d) /\ top > 0
    BY <1>0, <1>1, <2>1, <2>2 DEF Popped
  <2>4. Free(d)
    BY <1>0, <1>1, <2>1, <2>2, <2>3, FreeIfTaken DEF Taking, Telling
  <2>5. n \in Below(d)
    BY <1>0, <1>1, <2>1, <2>2, <2>4, BelowIs DEF Beneath
  <2> QED BY <2>3, <2>5 DEF Dies, Alive
<1> QED BY <1>2, PastStays

\* A death is past whoever has been told.
LEMMA ToldDies ==
  ASSUME IInv, NEW n \in Node, Alive(n), Told(n)
  PROVE  \E k \in DOMAIN stack : Past(k, n)
<1>0. DiesSoon /\ DiesUnchanged /\ DOMAIN stack = 1 .. top /\ top \in Nat
  BY StackFacts DEF IInv, top
<1>1. CASE SaidFarewell(n)
  BY <1>0, <1>1 DEF DiesUnchanged
<1>2. ASSUME NEW h \in DOMAIN stack, Saying(stack[h], n) PROVE \E k \in DOMAIN stack : Past(k, n)
  <2>1. PICK k \in 1 .. h - 1 : Past(k, n)
    BY <1>0, <1>2 DEF DiesSoon
  <2>2. k \in DOMAIN stack
    BY <1>0, <2>1
  <2> QED BY <2>1, <2>2
<1> QED BY <1>1, <1>2 DEF Told

\* DiesUnchanged is preserved.
LEMMA DiesUnchangedStays ==
  ASSUME IInv, NEW b, Moves(b)
  PROVE  DiesUnchanged'
<1> SUFFICES ASSUME NEW n \in Node, Alive(n)', SaidFarewell(n)'
             PROVE  \E k \in DOMAIN stack' : Past(k, n)' /\ Unreached(k, n)'
  BY DEF DiesUnchanged, Alive, SaidFarewell, Past, ComesTo, Up, Unreached, Finalizes, About
<1>0. Typed /\ Typed' /\ DiesUnchanged /\ DiesSoon /\ LifeOfNodes /\ DOMAIN stack = 1 .. top /\ top \in Nat
      /\ b \in {top, top - 1} /\ Alive(n)
  BY MovesFacts, LivesEnd DEF IInv, Moves
<1>1. CASE SaidFarewell(n)
  <2>1. PICK k \in DOMAIN stack : Past(k, n) /\ Unreached(k, n)
    BY <1>0, <1>1 DEF DiesUnchanged
  <2>2. Low(k, b) /\ Past(k, n)'
    BY <2>1, DeathStays
  <2>3. life[n] # "initializing"
    BY <1>0, <1>1 DEF LifeOfNodes, SaidFarewell
  <2>4. Unreached(k, n)'
    BY <2>1, <2>2, <2>3, UnreachedStays
  <2> QED BY <2>2, <2>4 DEF Low
<1>2. CASE ~SaidFarewell(n)
  <2>1. Fires(n, "beforeDestroy")
    BY <1>2, SaidStays
  <2>2. top \in DOMAIN stack /\ Saying(stack[top], n)
    BY <1>0, <2>1, HookOnTop DEF Saying
  <2>3. PICK k \in 1 .. top - 1 : Past(k, n) /\ \A j \in k + 1 .. top - 1 : stack[j].do \in WalkSteps
    BY <1>0, <2>2 DEF DiesSoon
  <2>4. k \in DOMAIN stack
    BY <1>0, <2>3
  <2>5. Low(k, b) /\ Past(k, n)'
    BY <2>3, <2>4, DeathStays
  <2>6. \A h \in DOMAIN stack' : h > k => stack'[h].do \in WalkSteps \cup {"user"}
    <3> SUFFICES ASSUME NEW h \in DOMAIN stack', h > k PROVE stack'[h].do \in WalkSteps \cup {"user"}
      OBVIOUS
    <3>1. CASE h < top
      <4>1. h \in k + 1 .. top - 1 /\ h \in 1 .. top - 1
        BY <1>0, <2>3, <3>1, Domains
      <4>2. stack'[h] = stack[h]
        BY <2>1, <4>1 DEF Fires, Kept
      <4> QED BY <2>3, <4>1, <4>2
    <3>2. CASE h >= top
      BY <2>1, <3>2 DEF Fires
    <3> QED BY <1>0, <3>1, <3>2, Domains
  <2>7. \A h \in DOMAIN stack' : h > k => \A y : ~Finalizes(stack'[h], y)
    BY <2>6 DEF Finalizes, WalkSteps
  <2>8. Unreached(k, n)'
    BY <2>7 DEF Unreached, Finalizes, About
  <2> QED BY <2>5, <2>8 DEF Low
<1> QED BY <1>1, <1>2

\* Who has been told before
LEMMA ToldStays ==
  ASSUME IInv, NEW b, Moves(b), NEW p \in Node, Told(p)
  PROVE  Told(p)' \/ (top \in DOMAIN stack /\ stack[top].do = "childrenToldOf" /\ stack[top].node = p /\ Ends(p))
<1>0. Typed /\ DOMAIN stack = 1 .. top /\ top \in Nat
  BY MovesFacts DEF IInv
<1>1. CASE SaidFarewell(p)
  BY <1>1, SaidStays DEF Told
<1>2. ASSUME NEW h \in DOMAIN stack, Saying(stack[h], p)
      PROVE  Told(p)' \/ (top \in DOMAIN stack /\ stack[top].do = "childrenToldOf" /\ stack[top].node = p /\ Ends(p))
  <2>1. CASE Low(h, b)
    <3>1. h \in DOMAIN stack' /\ Saying(stack'[h], p)
      BY <1>2, <2>1 DEF Low
    <3> QED BY <3>1 DEF Told, Saying
  <2>2. CASE h = top /\ Popped
    <3>1. CASE stack[top].do = "beforeDestroy"
      <4>1. Fires(p, "beforeDestroy")
        BY <1>2, <2>2, <3>1 DEF Popped, Saying
      <4>2. SaidFarewell(p)'
        BY <1>0, <4>1, HeardFire DEF Fires, Hooks, SaidFarewell
      <4> QED BY <4>2 DEF Told
    <3>2. CASE stack[top].do = "childrenToldOf"
      <4>1. Ends(p) \/ TellsRest(p)
        BY <1>2, <2>2, <3>2 DEF Popped, Saying
      <4>2. CASE TellsRest(p)
        <5>1. top + 1 \in DOMAIN stack' /\ stack'[top + 1] = Step("beforeDestroy", p)
          BY <4>2 DEF TellsRest
        <5> QED BY <5>1, StepFields DEF Told, Saying
      <4> QED BY <1>2, <2>2, <3>2, <4>1, <4>2 DEF Saying
    <3> QED BY <1>2, <2>2, <3>1, <3>2 DEF Saying
  <2> QED BY <2>1, <2>2, MovesFacts
<1> QED BY <1>1, <1>2 DEF Told

\* ToldFromAbove is preserved.
LEMMA ToldFromAboveStays ==
  ASSUME IInv, NEW b, Moves(b)
  PROVE  ToldFromAbove'
<1>0. Typed /\ Typed' /\ ToldFromAbove /\ ToldBy /\ NothingFound /\ NothingTaken /\ Storing /\ LifeOfNodes
      /\ DOMAIN stack = 1 .. top /\ top \in Nat /\ NoNode \notin Node
  BY MovesFacts, ObjectNodesAssumption DEF IInv, Moves
<1> SUFFICES ASSUME NEW n \in Node, Alive(n)', Told(n)'
             PROVE  On("die", n)' \/ \E p \in Node : p = parent'[n] /\ Told(p)'
  BY <1>0 DEF ToldFromAbove, Alive, Told, SaidFarewell, Saying, On, Is
<1>1. Alive(n)
  BY LivesEnd
<1>2. CASE Told(n)
  <2>1. parent'[n] = parent[n]
    <3>1. PICK k \in DOMAIN stack : Past(k, n)
      BY <1>1, <1>2, ToldDies
    <3>2. Steady(n)
      BY <3>1, DeathStays
    <3> QED BY <1>0, <3>2, AboveFacts DEF Steady
  <2>2. CASE On("die", n)
    <3> SUFFICES ASSUME top \in DOMAIN stack, stack[top].do = "die", stack[top].node = n, Popped PROVE FALSE
      BY <2>2, OnStays
    <3>1. Dies(n) /\ top > 0
      BY <1>0 DEF Popped
    <3>2. Free(n)
      BY <1>0, <3>1, FreeIfTaken DEF Taking, Telling
    <3>3. n \in Below(n)
      BY <1>0, <3>2, BelowIs, AboveFacts DEF Beneath
    <3> QED BY <3>1, <3>3 DEF Dies, Alive
  <2>3. CASE parent[n] # NoNode /\ Told(parent[n])
    <3>1. PICK p \in Node : p = parent[n]
      BY <1>0, <2>3 DEF Typed, ParentFunction
    <3>2. CASE Told(p)'
      BY <2>1, <3>1, <3>2
    <3>3. CASE top \in DOMAIN stack /\ stack[top].do = "childrenToldOf" /\ stack[top].node = p /\ Ends(p)
      <4>1. n \notin built
        BY <1>0, <3>1, <3>3 DEF NothingFound, Ends
      <4>2. ~SaidFarewell(n)
        BY <1>0, <4>1 DEF LifeOfNodes, SaidFarewell
      <4>3. PICK h \in DOMAIN stack : Saying(stack[h], n)
        BY <1>2, <4>2 DEF Told
      <4>4. p \in Above(n) /\ p # n
        BY <1>0, <2>3, <3>1, AboveFacts
      <4>5. h < top
        BY <1>0, <3>3, <4>3, <4>4 DEF Saying
      <4>6. Firm(stack[h]) /\ n \in About(stack[h]) /\ stack[top].do \in Taking
        BY <3>3, <4>3 DEF Firm, Saying, About, Taking, Telling
      <4>7. Precedes(stack[h], stack[top], top = h + 1)
        BY <1>0, <3>3, <4>4, <4>5, <4>6 DEF NothingTaken
      <4> QED BY <3>3, <4>3, <4>4, <4>7 DEF Precedes, Saying
    <3> QED BY <2>3, <3>1, <3>2, <3>3, ToldStays
  <2> QED BY <1>0, <1>1, <1>2, <2>2, <2>3 DEF ToldFromAbove
<1>3. CASE ~Told(n)
  <2>1. WalksOn(n)
    <3>1. CASE SaidFarewell(n)'
      <4>1. Fires(n, "beforeDestroy")
        BY <1>3, <3>1, SaidStays DEF Told
      <4> QED BY <1>0, <1>3, <4>1, HookOnTop DEF Told, Saying
    <3>2. ASSUME NEW h \in DOMAIN stack', Saying(stack'[h], n) PROVE WalksOn(n)
      <4>1. CASE Low(h, b)
        BY <1>3, <3>2, <4>1 DEF Low, Told
      <4>2. CASE NewStep(h)
        BY <1>3, <3>2, <4>2, NewSaying DEF Told
      <4> QED BY <4>1, <4>2, MovesFacts
    <3> QED BY <3>1, <3>2 DEF Told, Saying
  <2>2. top \in DOMAIN stack /\ stack[top].do = "aboutToDie" /\ stack[top].node = n
    BY <2>1, NotTold
  <2>3. parent' = parent /\ \A h \in DOMAIN stack : h < top => OldStep(h)
    BY <2>1, WalkHeights
  <2>4. CASE top > 1 /\ Is(stack[top - 1], "die", n)
    <3>1. PICK k \in DOMAIN stack : k = top - 1
      BY <1>0, <2>4
    <3>2. OldStep(k) /\ Is(stack[k], "die", n)
      BY <1>0, <2>3, <2>4, <3>1
    <3> QED BY <3>2 DEF OldStep, On, Is
  <2>5. ASSUME parent[n] # NoNode, NEW h2 \in 1 .. top - 1, Saying(stack[h2], parent[n])
        PROVE  \E p \in Node : p = parent'[n] /\ Told(p)'
    <3>1. PICK p \in Node : p = parent[n]
      BY <1>0, <2>5 DEF Typed, ParentFunction
    <3>2. h2 \in DOMAIN stack /\ h2 < top
      BY <1>0
    <3>3. OldStep(h2)
      BY <2>3, <3>2
    <3>4. Told(p)'
      BY <2>5, <3>1, <3>3 DEF OldStep, Told, Saying
    <3> QED BY <2>3, <3>1, <3>4
  <2>6. \/ top > 1 /\ Is(stack[top - 1], "die", n)
        \/ parent[n] # NoNode /\ \E h2 \in 1 .. top - 1 : Saying(stack[h2], parent[n])
    BY <1>0, <1>1, <2>2 DEF ToldBy
  <2> QED BY <2>4, <2>5, <2>6
<1> QED BY <1>2, <1>3

\* ToldBy is preserved.
LEMMA ToldByStays ==
  ASSUME IInv, NEW b, Moves(b)
  PROVE  ToldBy'
<1>0. Typed /\ Typed' /\ ToldBy /\ Leaving /\ b \in Nat /\ b \in {top, top - 1}
      /\ DOMAIN stack = 1 .. top /\ top \in Nat /\ NoNode \notin Node
      /\ DOMAIN stack' = 1 .. Len(agenda') /\ Len(agenda') \in Nat
  BY MovesFacts, ObjectNodesAssumption DEF IInv, Moves
<1> SUFFICES ASSUME NEW h \in DOMAIN stack', NEW n \in Node, n = stack'[h].node,
                    stack'[h].do = "aboutToDie", Alive(n)'
             PROVE  \/ h > 1 /\ Is(stack'[h - 1], "die", n)
                    \/ \E p \in Node :
                         /\ p = parent'[n]
                         /\ \E h2 \in 1 .. h - 1 :
                              /\ Saying(stack'[h2], p)
                              /\ stack'[h2].do = "childrenToldOf" => n \in stack'[h2].arg
                              /\ \A j \in h2 + 1 .. h - 1 : stack'[j].do = "aboutToDie" /\ stack'[j].node # n
  <2>1. \A h \in DOMAIN stack' : stack'[h].node \in Node
    BY MovesFacts
  <2> QED BY <1>0, <2>1 DEF ToldBy, Alive, Saying, Is
<1>1. CASE Low(h, b)
  <2>0. h \in DOMAIN stack /\ stack[h].do = "aboutToDie" /\ stack[h].node = n /\ h <= b /\ Alive(n) /\ h \in Nat /\ h >= 1
    BY <1>0, <1>1, LivesEnd DEF Low
  <2>1. CASE h > 1 /\ Is(stack[h - 1], "die", n)
    <3>1. PICK k : k = h - 1
      OBVIOUS
    <3>2. k \in 1 .. b
      BY <1>0, <2>0, <2>1, <3>1
    <3>3. stack'[k] = stack[k]
      BY <3>2, MovesFacts DEF Low
    <3> QED BY <2>1, <3>1, <3>3
  <2>2. ASSUME parent[n] # NoNode, NEW h2 \in 1 .. h - 1, Saying(stack[h2], parent[n]),
               stack[h2].do = "childrenToldOf" => n \in stack[h2].arg,
               \A j \in h2 + 1 .. h - 1 : stack[j].do = "aboutToDie" /\ stack[j].node # n
        PROVE  \E p \in Node :
                         /\ p = parent'[n]
                         /\ \E g \in 1 .. h - 1 :
                              /\ Saying(stack'[g], p)
                              /\ stack'[g].do = "childrenToldOf" => n \in stack'[g].arg
                              /\ \A j \in g + 1 .. h - 1 : stack'[j].do = "aboutToDie" /\ stack'[j].node # n
    <3>1. PICK p \in Node : p = parent[n]
      BY <1>0, <2>2 DEF Typed, ParentFunction
    <3>2. parent'[n] = parent[n]
      <4>1. ~Leaves(n)
        <5> SUFFICES ASSUME Leaves(n) PROVE FALSE
          OBVIOUS
        <5>1. top \in DOMAIN stack /\ stack[top].do = "leave" /\ stack[top].node = n
          BY TopIs
        <5>2. \A h1 \in 1 .. top - 1 : ~Is(stack[h1], "aboutToDie", n)
          BY <1>0, <5>1 DEF Leaving
        <5>3. h # top /\ h <= top
          BY <1>0, <2>0, <5>1
        <5>4. h \in 1 .. top - 1
          BY <1>0, <2>0, <5>3
        <5> QED BY <2>0, <5>2, <5>4 DEF Is
      <4>2. \A q \in Node : ~Attaches(n, q)
        BY <2>2 DEF Attaches
      <4> QED BY <4>1, <4>2, ParentBy
    <3>3. \A j \in 1 .. h - 1 : j \in 1 .. b
      BY <1>0, <2>0
    <3>4. \A j \in 1 .. h - 1 : stack'[j] = stack[j]
      BY <3>3, MovesFacts DEF Low
    <3>5. \A j \in h2 + 1 .. h - 1 : j \in 1 .. h - 1
      BY <2>0
    <3> QED BY <2>2, <3>1, <3>2, <3>4, <3>5
  <2> QED BY <1>0, <2>0, <2>1, <2>2 DEF ToldBy
<1>2. CASE h > b /\ NewStep(h)
  <2>0. NewTelling(h)
    BY <1>2, NewByKind
  <2>1. CASE Destroys(n) /\ h = top + 2
    <3>1. stack'[top + 1] = Step("die", n) /\ h - 1 = top + 1 /\ h > 1
      BY <1>0, <2>1 DEF Destroys
    <3> QED BY <3>1, StepFields DEF Is
  <2>2. ASSUME NEW m \in Node, WalksOn(m), h > top, Told1(top, h, Children(m)), n \in Children(m)
        PROVE  \E p \in Node :
                         /\ p = parent'[n]
                         /\ \E g \in 1 .. h - 1 :
                              /\ Saying(stack'[g], p)
                              /\ stack'[g].do = "childrenToldOf" => n \in stack'[g].arg
                              /\ \A j \in g + 1 .. h - 1 : stack'[j].do = "aboutToDie" /\ stack'[j].node # n
    <3>1. m = parent'[n]
      BY <2>2, WalkHeights, ToldChild
    <3>2. top \in 1 .. h - 1
      BY <1>0, <2>2, WalkHeights
    <3>3. Saying(stack'[top], m) /\ n \in stack'[top].arg
      BY <2>2 DEF WalksOn, Saying
    <3>4. \A j \in top + 1 .. h - 1 : stack'[j].do = "aboutToDie" /\ stack'[j].node # n
      BY <2>2, ToldBefore
    <3> QED BY <3>1, <3>2, <3>3, <3>4
  <2>3. ASSUME NEW m \in Node, TellsRest(m), h > top + 1, n \in Children(m) \ stack[top].arg,
               Told1(top + 1, h, Children(m) \ stack[top].arg)
        PROVE  \E p \in Node :
                         /\ p = parent'[n]
                         /\ \E g \in 1 .. h - 1 :
                              /\ Saying(stack'[g], p)
                              /\ stack'[g].do = "childrenToldOf" => n \in stack'[g].arg
                              /\ \A j \in g + 1 .. h - 1 : stack'[j].do = "aboutToDie" /\ stack'[j].node # n
    <3>1. m = parent'[n]
      BY <2>3, WalkHeights, ToldChild
    <3>2. PICK g : g = top + 1
      OBVIOUS
    <3>3. g \in 1 .. h - 1
      BY <1>0, <2>3, <3>2
    <3>4. stack'[g] = Step("beforeDestroy", m)
      BY <2>3, <3>2 DEF TellsRest
    <3>5. Saying(stack'[g], m) /\ stack'[g].do # "childrenToldOf"
      BY <3>4, StepFields DEF Saying
    <3>6. \A j \in g + 1 .. h - 1 : stack'[j].do = "aboutToDie" /\ stack'[j].node # n
      BY <2>3, <3>2, ToldBefore
    <3> QED BY <3>1, <3>3, <3>5, <3>6
  <2> QED BY <2>0, <2>1, <2>2, <2>3 DEF NewTelling
<1> QED BY <1>1, <1>2, MovesFacts

\* A parent that is an instance when its child becomes one, or becomes one too
LEMMA BuiltParent ==
  ASSUME IInv, NEW b, Moves(b), NEW c \in built', c \notin built, NEW p \in Node, parent[c] = p
  PROVE  p \in built'
<1>0. Typed /\ NoNode \notin Node /\ built \subseteq built'
  BY BuiltGrows, ObjectNodesAssumption DEF IInv
<1>1. PICK m \in Node : m \notin built /\ c \in ParentChain(m) /\ Builds(ParentChain(m))
  BY <1>0, BuiltBy
<1>2. p \in built \cup ParentChain(m)
  BY <1>0, <1>1, ChainFacts
<1> QED BY <1>0, <1>1, <1>2 DEF Builds

\* Linked nodes are alive.
LEMMA LinkedAlive ==
  ASSUME IInv, NEW b, Moves(b), NEW c \in Node, NEW p \in Node, p = parent'[c]
  PROVE  /\ Alive(c) /\ Alive(c)' /\ Alive(p) /\ Alive(p)'
         /\ parent[c] = p \/ Attaches(c, p)
<1>0. NoNode \notin Node /\ LifeOfNodes'
  BY ObjectNodesAssumption, LifeStays
<1>1. Alive(c)' /\ Alive(p)'
  BY <1>0 DEF LifeOfNodes, Alive
<1> QED BY <1>0, <1>1, LivesEnd, ParentBy

\* Linked nodes are alive, before the step.
LEMMA LinkedNow ==
  ASSUME IInv, NEW c \in Node, NEW p \in Node, p = parent[c]
  PROVE  Alive(c) /\ Alive(p)
BY ObjectNodesAssumption DEF IInv, LifeOfNodes, Alive

\* The walk that is past a node without instance is past its children.
LEMMA PastChild ==
  ASSUME IInv, NEW q \in Node, q \notin built, NEW k \in DOMAIN stack, Past(k, q), ~On("childrenToldOf", q),
         NEW c \in Node, parent[c] = q
  PROVE  Past(k, c) /\ c \notin built /\ ~On("childrenToldOf", c)
<1>0. Typed /\ NothingBelow /\ ToldBy /\ OfTheLiving /\ NoNode \notin Node /\ DOMAIN stack = 1 .. top /\ top \in Nat
  BY ObjectNodesAssumption, StackFacts DEF IInv, top
<1>1. c \notin built /\ ~On("childrenToldOf", c)
  BY <1>0 DEF NothingBelow
<1>2. Above(c) = {c} \cup Above(q) /\ Alive(c)
  BY <1>0, AboveFacts, LinkedNow
<1>3. stack[k].do = "die" /\ stack[k].node \in Above(c)
  BY <1>0, <1>2, PastIs
<1>4. ASSUME NEW j \in DOMAIN stack, j > k, Comes(j, c) PROVE FALSE
  <2>1. ~Comes(j, q)
    BY <1>0, <1>4, PastIs
  <2>2. stack[j].do = "aboutToDie" /\ stack[j].node = c
    <3>1. CASE stack[j].do = "aboutToDie" /\ stack[j].node \in Above(c)
      BY <1>2, <2>1, <3>1 DEF Comes
    <3>2. CASE stack[j].do = "childrenToldOf" /\ \E e \in Above(c) : parent[e] = stack[j].node /\ e \notin stack[j].arg
      <4>1. stack[j].node = q
        BY <1>2, <2>1, <3>2 DEF Comes
      <4> QED BY <3>2, <4>1 DEF On, Is
    <3> QED BY <1>4, <3>1, <3>2 DEF Comes
  <2>3. \/ j > 1 /\ Is(stack[j - 1], "die", c)
        \/ \E h2 \in 1 .. j - 1 : Saying(stack[h2], q)
    BY <1>0, <1>2, <2>2 DEF ToldBy
  <2>4. CASE j > 1 /\ Is(stack[j - 1], "die", c)
    <3>1. PICK i \in DOMAIN stack : i = j - 1
      BY <1>0, <2>4
    <3>2. stack[i].do = "die" /\ stack[i].node = c
      BY <2>4, <3>1 DEF Is
    <3>3. Firm(stack[i]) /\ c \in About(stack[i]) /\ stack[i].do # "childrenToldOf"
      BY <3>2 DEF Firm, About
    <3> QED BY <1>0, <1>1, <3>3 DEF OfTheLiving
  <2>5. ASSUME NEW h2 \in 1 .. j - 1, Saying(stack[h2], q) PROVE FALSE
    <3>1. h2 \in DOMAIN stack
      BY <1>0
    <3>2. stack[h2].do = "beforeDestroy" /\ stack[h2].node = q
      BY <2>5, <3>1 DEF Saying, On, Is
    <3>3. Firm(stack[h2]) /\ q \in About(stack[h2]) /\ stack[h2].do # "childrenToldOf"
      BY <3>2 DEF Firm, About
    <3> QED BY <1>0, <3>1, <3>3 DEF OfTheLiving
  <2> QED BY <2>3, <2>4, <2>5
<1> QED BY <1>0, <1>1, <1>3, <1>4, PastIs

\* Nothing builds what a walk has passed without building it.
LEMMA PastUnbuilt ==
  ASSUME IInv, NEW b, Moves(b), NEW c \in Node, c \notin built, NEW k \in DOMAIN stack, Past(k, c),
         ~On("childrenToldOf", c)
  PROVE  c \notin built'
<1> SUFFICES ASSUME c \in built' PROVE FALSE
  OBVIOUS
<1>0. Typed /\ NoNode \notin Node /\ parent \in ParentFunction /\ Rooted(parent)
  BY ObjectNodesAssumption DEF IInv, Typed
<1>1. PICK m \in Node : m \notin built /\ c \in ParentChain(m) /\ (Reads(m) \/ WalksOn(m))
  BY BuiltBy
<1>2. c \in Above(m) /\ \A z \in Above(m) : c \in Above(z) => z \notin built
  <2>1. /\ c \in Above(m) /\ ParentChain(m) \cap built = {}
        /\ \A z \in Above(m) : c \in Above(z) => z \in ParentChain(m)
    BY <1>0, <1>1, ChainFacts
  <2> QED BY <2>1
<1> DEFINE Hyp(z) == c \in Above(z) /\ \A x \in Above(z) : c \in Above(x) => x \notin built
           Good(z) == Past(k, z) /\ ~On("childrenToldOf", z)
           G == {z \in Node : Hyp(z) => Good(z)}
<1>3. ASSUME NEW z \in Node, parent[z] = NoNode PROVE z \in G
  <2>1. Above(z) = {z}
    BY <1>0, <1>3, AboveFacts
  <2> QED BY <2>1
<1>4. ASSUME NEW z \in Node, parent[z] # NoNode, parent[z] \in G PROVE z \in G
  <2> SUFFICES ASSUME Hyp(z) PROVE Good(z)
    OBVIOUS
  <2>1. PICK y \in Node : y = parent[z]
    BY <1>4
  <2>2. Above(z) = {z} \cup Above(y)
    BY <1>0, <1>4, <2>1, AboveFacts
  <2>3. CASE z = c
    BY <2>3
  <2>4. CASE z # c
    <3>1. Hyp(y)
      BY <2>2, <2>4
    <3>2. Past(k, y) /\ ~On("childrenToldOf", y) /\ y \notin built
      <4>1. y \in Above(y)
        BY <1>0, AboveFacts
      <4> QED BY <1>4, <2>1, <3>1, <4>1
    <3> QED BY <2>1, <3>2, PastChild
  <2> QED BY <2>3, <2>4
<1>5. m \in G
  <2> HIDE DEF G
  <2>1. Node \subseteq G
    BY <1>0, <1>3, <1>4, ForestInduction
  <2> QED BY <2>1
<1>6. Past(k, m)
  BY <1>2, <1>5
<1>7. CASE Reads(m)
  BY <1>6, <1>7 DEF Reads
<1>8. CASE WalksOn(m)
  BY <1>0, <1>6, <1>8, TopComes, NotTold
<1> QED BY <1>1, <1>7, <1>8

\* Who is done stays done.
LEMMA DoneStays ==
  ASSUME IInv, NEW b, Moves(b), NEW c \in Node, Done(c),
         c \notin built => \E k \in DOMAIN stack : Past(k, c)
  PROVE  Done(c)'
<1>0. Typed /\ OnceSaid'
  BY OnceSaidStays DEF IInv
<1>1. CASE c \in built
  <2>1. SaidFarewell(c)'
    BY <1>1, SaidStays DEF Done
  <2>2. \A h \in DOMAIN stack' : ~Saying(stack'[h], c)
    BY <1>0, <2>1 DEF OnceSaid, SaidFarewell, Saying
  <2> QED BY <2>1, <2>2 DEF Done, SaidFarewell, Saying
<1>2. CASE c \notin built
  <2>1. PICK k \in DOMAIN stack : Past(k, c)
    BY <1>2
  <2>2. ~On("childrenToldOf", c)
    BY DEF Done, On, Is, Saying
  <2>3. c \notin built'
    BY <1>2, <2>1, <2>2, PastUnbuilt
  <2>4. ASSUME NEW h \in DOMAIN stack', Saying(stack'[h], c) PROVE FALSE
    <3>1. CASE Low(h, b)
      BY <2>4, <3>1 DEF Low, Done
    <3>2. CASE NewStep(h)
      <4>1. WalksOn(c)
        BY <2>4, <3>2, NewSaying DEF Done
      <4> QED BY <2>1, <4>1, TopComes, NotTold
    <3> QED BY <3>1, <3>2, MovesFacts
  <2> QED BY <2>3, <2>4 DEF Done, Saying, SaidFarewell
<1> QED BY <1>1, <1>2

\* NothingFound is preserved.
LEMMA NothingFoundStays ==
  ASSUME IInv, NEW b, Moves(b)
  PROVE  NothingFound'
<1> SUFFICES ASSUME NEW h \in DOMAIN stack', NEW c \in Node, NEW p \in Node, p = parent'[c],
                    stack'[h].do = "childrenToldOf", stack'[h].node = p, p \notin built'
             PROVE  c \notin built' /\ c \in stack'[h].arg
  <2>1. \A h \in DOMAIN stack' : stack'[h].node \in Node
    BY MovesFacts
  <2> QED BY <2>1 DEF NothingFound
<1>0. Typed /\ NothingFound /\ Storing /\ NothingTaken /\ NoNode \notin Node /\ built \subseteq built'
      /\ DOMAIN stack = 1 .. top /\ top \in Nat
  BY MovesFacts, ObjectNodesAssumption, BuiltGrows DEF IInv
<1>1. p \notin built
  BY <1>0
<1>2. parent[c] = p
  BY <1>1, LinkedAlive DEF Attaches
<1>3. c \notin built => c \notin built'
  BY <1>2, BuiltParent
<1>4. CASE Low(h, b)
  BY <1>0, <1>1, <1>2, <1>3, <1>4 DEF Low, NothingFound
<1>5. CASE NewStep(h)
  <2>1. WalksOn(p) /\ stack'[h].arg = Children(p)
    BY <1>1, <1>5, NewByKind
  <2>2. top \in DOMAIN stack /\ stack[top].do = "aboutToDie" /\ stack[top].node = p /\ top > 0
    BY <1>0, <2>1, NotTold
  <2>3. Free(p)
    BY <1>0, <2>2, FreeIfTaken DEF Taking, Telling
  <2>4. c \in Children(p)
    BY <1>0, <1>2, <2>3, BelowIs
  <2>5. BuiltForFarewell(p) = {}
    <3> SUFFICES ASSUME BuiltForFarewell(p) # {} PROVE FALSE
      OBVIOUS
    <3>1. p \in BuiltForFarewell(p)
      BY <1>0, <1>1, ChainFacts DEF BuiltForFarewell
    <3> QED BY <2>1, <3>1 DEF WalksOn, Builds
  <2>6. c \notin built
    <3>1. p \in ParentChain(p)
      BY <1>0, <1>1, ChainFacts
    <3> QED BY <1>1, <2>4, <2>5, <3>1 DEF BuiltForFarewell
  <2> QED BY <1>3, <2>1, <2>4, <2>6
<1> QED BY <1>4, <1>5, MovesFacts

\* Who is being told, or has been told
LEMMA ComingStays ==
  ASSUME IInv, NEW b, Moves(b), NEW c \in Node, Alive(c), NEW h, h \in Nat, Coming(c, h)
  PROVE  Coming(c, h)' \/ Done(c)'
<1>0. Typed /\ OnceSaid /\ OnceSaid' /\ top \in Nat /\ DOMAIN stack = 1 .. top
  BY OnceSaidStays, MovesFacts DEF IInv
<1>1. PICK g \in DOMAIN stack : g > h /\ (Is(stack[g], "aboutToDie", c) \/ Saying(stack[g], c))
  BY DEF Coming
<1>2. CASE Low(g, b)
  <2>1. g \in DOMAIN stack' /\ (Is(stack'[g], "aboutToDie", c) \/ Saying(stack'[g], c))
    BY <1>1, <1>2 DEF Low
  <2> QED BY <1>1, <2>1 DEF Coming, Is, Saying
<1>3. ASSUME NEW i \in DOMAIN stack', i > h, Saying(stack'[i], c) PROVE Coming(c, h)'
  BY <1>3 DEF Coming, Saying, Is
<1>4. CASE g = top /\ b = top - 1 /\ Popped
  <2>1. CASE stack[top].do = "aboutToDie" /\ stack[top].node = c
    <3>1. WalksOn(c)
      BY <1>4, <2>1 DEF Popped, Skips
    <3>2. top \in DOMAIN stack' /\ Saying(stack'[top], c)
      BY <3>1 DEF WalksOn, Saying
    <3> QED BY <1>1, <1>3, <1>4, <3>2
  <2>2. CASE stack[top].do = "childrenToldOf" /\ stack[top].node = c
    <3>1. CASE TellsRest(c)
      <4>1. top + 1 \in DOMAIN stack' /\ stack'[top + 1] = Step("beforeDestroy", c)
        BY <3>1 DEF TellsRest
      <4>2. top + 1 > h /\ Saying(stack'[top + 1], c)
        BY <1>0, <1>1, <1>4, <4>1, StepFields DEF Saying
      <4> QED BY <1>3, <4>1, <4>2
    <3>2. CASE Ends(c)
      <4>1. c \notin built'
        BY <3>2 DEF Ends, Same
      <4>2. ASSUME NEW i \in DOMAIN stack', Saying(stack'[i], c) PROVE FALSE
        <5>1. CASE Low(i, b)
          <6>1. i \in DOMAIN stack /\ Saying(stack[i], c) /\ i # top
            BY <1>0, <1>4, <4>2, <5>1 DEF Low
          <6>2. Saying(stack[top], c) /\ top \in DOMAIN stack
            BY <1>1, <1>4, <2>2 DEF Saying
          <6> QED BY <1>0, <6>1, <6>2 DEF OnceSaid
        <5>2. CASE NewStep(i)
          <6>1. WalksOn(c) \/ TellsRest(c)
            BY <4>2, <5>2, NewSaying
          <6> QED BY <2>2, <3>2, <6>1, NotTold DEF TellsRest, Ends
        <5> QED BY <5>1, <5>2, MovesFacts
      <4> QED BY <4>1, <4>2 DEF Done, Saying, SaidFarewell
    <3> QED BY <1>4, <2>2, <3>1, <3>2 DEF Popped
  <2>3. CASE stack[top].do = "beforeDestroy" /\ stack[top].node = c
    <3>1. Fires(c, "beforeDestroy")
      BY <1>4, <2>3 DEF Popped
    <3>2. SaidFarewell(c)'
      BY <1>0, <3>1, HeardFire DEF Fires, Hooks, SaidFarewell
    <3>3. \A i \in DOMAIN stack' : ~Saying(stack'[i], c)
      BY <1>0, <3>2 DEF OnceSaid, SaidFarewell, Saying
    <3> QED BY <3>2, <3>3 DEF Done, SaidFarewell, Saying
  <2> QED BY <1>1, <1>4, <2>1, <2>2, <2>3 DEF Is, Saying
<1> QED BY <1>1, <1>2, <1>4, MovesFacts

\* A node is not attached to one whose walk is past all but those it finds late.
LEMMA AttachedLate ==
  ASSUME IInv, NEW c \in Node, NEW p \in Node, Attaches(c, p), NEW k \in DOMAIN stack, Past(k, p)
  PROVE  /\ ~SaidFarewell(p)
         /\ \A h \in DOMAIN stack : Saying(stack[h], p) => stack[h].do = "childrenToldOf" /\ c \notin stack[h].arg
<1>1. PICK h \in DOMAIN stack : Is(stack[h], "childrenToldOf", p) /\ c \notin stack[h].arg
  BY DEF Attaches
<1>2. Saying(stack[h], p) /\ stack[h].do = "childrenToldOf" /\ OnceSaid
  BY <1>1 DEF Saying, Is, IInv
<1> QED BY <1>1, <1>2 DEF OnceSaid

\* The children of p are covered by what says its farewell.
LEMMA CoveredBy ==
  ASSUME IInv, NEW b, Moves(b), NEW c \in Node, NEW p \in Node, parent[c] = p, parent' = parent,
         NEW S, NEW h, h \in Nat, c \in S, Tells(h, S)
  PROVE  Coming(c, h)'
<1>1. PICK i \in DOMAIN stack' : i > h /\ stack'[i] = Step("aboutToDie", c)
  BY DEF Tells
<1>2. Is(stack'[i], "aboutToDie", c)
  BY <1>1, StepFields DEF Is
<1> QED BY <1>1, <1>2 DEF Coming, Is, Saying

\* ChildrenCovered is preserved.
LEMMA ChildrenCoveredStays ==
  ASSUME IInv, NEW b, Moves(b)
  PROVE  ChildrenCovered'
<1> SUFFICES ASSUME NEW h \in DOMAIN stack', NEW c \in Node, NEW p \in Node, p = parent'[c],
                    Saying(stack'[h], p), stack'[h].do = "childrenToldOf" => c \in stack'[h].arg
             PROVE  Done(c)' \/ Coming(c, h)'
  <2>1. \A h \in DOMAIN stack' : stack'[h].node \in Node
    BY MovesFacts
  <2> QED BY <2>1 DEF ChildrenCovered, Saying, Done, Coming, SaidFarewell, Is
<1>0. Typed /\ ChildrenCovered /\ DiesSoon /\ OnceSaid /\ Storing /\ NothingTaken /\ NoNode \notin Node
      /\ DOMAIN stack = 1 .. top /\ top \in Nat /\ DOMAIN stack' = 1 .. Len(agenda') /\ Len(agenda') \in Nat
  BY MovesFacts, ObjectNodesAssumption DEF IInv
<1>1. Alive(c) /\ (parent[c] = p \/ Attaches(c, p))
  BY LinkedAlive
<1>2. CASE Low(h, b)
  <2>1. h \in DOMAIN stack /\ Saying(stack[h], p) /\ (stack[h].do = "childrenToldOf" => c \in stack[h].arg)
    BY <1>2 DEF Low
  <2>2. PICK k \in 1 .. h - 1 : Past(k, p) /\ \A j \in k + 1 .. h - 1 : stack[j].do \in WalkSteps
    BY <1>0, <2>1 DEF DiesSoon
  <2>3. k \in DOMAIN stack
    BY <1>0, <2>1
  <2>4. parent[c] = p
    BY <1>1, <2>1, <2>2, <2>3, AttachedLate
  <2>5. CASE Coming(c, h)
    BY <1>0, <1>1, <2>5, ComingStays
  <2>6. CASE Done(c) /\ ~Coming(c, h)
    <3>1. Past(k, c)
      <4>1. stack[k].do = "die" /\ stack[k].node \in Above(c)
        <5>1. stack[k].do = "die" /\ stack[k].node \in Above(p)
          BY <2>2 DEF Past
        <5>2. Above(p) \subseteq Above(c)
          BY <1>0, <2>4, AboveFacts
        <5> QED BY <5>1, <5>2
      <4>2. ASSUME NEW j \in DOMAIN stack, j > k, Comes(j, c) PROVE FALSE
        <5>1. j > h /\ stack[j].do = "aboutToDie" /\ stack[j].node = c
          BY <2>1, <2>2, <2>4, <4>2, ChildPast
        <5> QED BY <2>6, <5>1 DEF Coming, Is
      <4> QED BY <1>0, <4>1, <4>2, PastIs
    <3> QED BY <2>3, <2>6, <3>1, DoneStays
  <2> QED BY <1>0, <2>1, <2>4, <2>5, <2>6 DEF ChildrenCovered
<1>3. CASE NewStep(h)
  <2>1. \/ WalksOn(p) /\ h = top
        \/ TellsRest(p) /\ h = top + 1 /\ top \in DOMAIN stack /\ Saying(stack[top], p)
    BY <1>3, NewSaying
  <2>2. parent' = parent /\ top \in DOMAIN stack /\ stack[top].node = p /\ stack[top].do \in Taking
    <3>1. parent' = parent /\ top \in DOMAIN stack /\ stack[top].node = p
      BY <2>1, WalkHeights
    <3>2. stack[top].do \in Taking
      BY <2>1, WalkHeights DEF Taking, Telling
    <3> QED BY <3>1, <3>2
  <2>3. Free(p)
    BY <1>0, <2>2, FreeIfTaken
  <2>4. parent[c] = p /\ c \in Children(p)
    BY <1>0, <2>2, <2>3, BelowIs
  <2>5. CASE WalksOn(p) /\ h = top
    <3>1. Tells(top, Children(p))
      BY <2>5 DEF WalksOn
    <3> QED BY <1>0, <2>2, <2>4, <2>5, <3>1, CoveredBy
  <2>6. CASE TellsRest(p) /\ h = top + 1 /\ Saying(stack[top], p)
    <3>1. CASE c \notin stack[top].arg
      <4>1. Tells(top + 1, Children(p) \ stack[top].arg)
        BY <2>6 DEF TellsRest
      <4>2. h \in Nat /\ c \in Children(p) \ stack[top].arg
        BY <1>0, <2>4, <2>6, <3>1
      <4> QED BY <2>2, <2>4, <2>6, <4>1, <4>2, CoveredBy
    <3>2. CASE c \in stack[top].arg
      <4>1. Done(c) \/ Coming(c, top)
        BY <1>0, <2>2, <2>4, <2>6, <3>2 DEF ChildrenCovered
      <4>2. Done(c)
        BY <1>0, <4>1 DEF Coming
      <4>3. c # p
        BY <1>0, <2>4, AboveFacts
      <4>4. built' = built /\ heard' = heard
        BY <2>6 DEF TellsRest, Same
      <4>5. ASSUME NEW i \in DOMAIN stack', Saying(stack'[i], c) PROVE FALSE
        <5>1. CASE Low(i, b)
          BY <4>2, <4>5, <5>1 DEF Low, Done
        <5>2. CASE NewStep(i)
          <6>1. WalksOn(c) \/ TellsRest(c)
            BY <4>5, <5>2, NewSaying
          <6>2. stack[top].node = c
            BY <6>1, WalkHeights
          <6> QED BY <2>2, <4>3, <6>2
        <5> QED BY <5>1, <5>2, MovesFacts
      <4> QED BY <4>2, <4>4, <4>5 DEF Done, Saying, SaidFarewell
    <3> QED BY <3>1, <3>2
  <2> QED BY <2>1, <2>5, <2>6
<1> QED BY <1>2, <1>3, MovesFacts

\* ChildrenDone is preserved.
LEMMA ChildrenDoneStays ==
  ASSUME IInv, NEW b, Moves(b)
  PROVE  ChildrenDone'
<1>0. Typed /\ Typed' /\ ChildrenDone /\ ChildrenCovered /\ DiesUnchanged /\ OnceSaid /\ ToldBy /\ OfTheLiving /\ NoNode \notin Node
      /\ DOMAIN stack = 1 .. top /\ top \in Nat
  BY MovesFacts, ObjectNodesAssumption DEF IInv, Moves
<1> SUFFICES ASSUME NEW c \in Node, NEW p \in Node, p = parent'[c], SaidFarewell(p)'
             PROVE  Done(c)'
  BY <1>0 DEF ChildrenDone, SaidFarewell, Done, Saying, Typed, ParentFunction
<1>1. Alive(c) /\ Alive(p) /\ (parent[c] = p \/ Attaches(c, p))
  BY LinkedAlive
<1>2. CASE SaidFarewell(p)
  <2>1. PICK k \in DOMAIN stack : Past(k, p)
    BY <1>0, <1>1, <1>2 DEF DiesUnchanged
  <2>2. parent[c] = p
    BY <1>1, <1>2, <2>1, AttachedLate
  <2>3. Done(c)
    BY <1>0, <1>2, <2>2 DEF ChildrenDone
  <2>4. \A h \in DOMAIN stack : ~Saying(stack[h], p)
    BY <1>0, <1>2 DEF OnceSaid
  <2>5. ASSUME c \notin built PROVE Past(k, c)
    <3>1. Above(c) = {c} \cup Above(p)
      BY <1>0, <2>2, AboveFacts
    <3>2. stack[k].do = "die" /\ stack[k].node \in Above(c)
      BY <1>0, <2>1, <3>1, PastIs
    <3>3. ASSUME NEW j \in DOMAIN stack, j > k, Comes(j, c) PROVE FALSE
      <4>1. ~Comes(j, p)
        BY <1>0, <2>1, <3>3, PastIs
      <4>2. stack[j].do = "aboutToDie" /\ stack[j].node = c
        <5>1. CASE stack[j].do = "aboutToDie" /\ stack[j].node \in Above(c)
          BY <3>1, <4>1, <5>1 DEF Comes
        <5>2. CASE stack[j].do = "childrenToldOf" /\ \E e \in Above(c) : parent[e] = stack[j].node /\ e \notin stack[j].arg
          <6>1. stack[j].node = p
            BY <2>2, <3>1, <4>1, <5>2 DEF Comes
          <6> QED BY <2>4, <5>2, <6>1 DEF Saying
        <5> QED BY <3>3, <5>1, <5>2 DEF Comes
      <4>3. \/ j > 1 /\ Is(stack[j - 1], "die", c)
            \/ \E h2 \in 1 .. j - 1 : Saying(stack[h2], p)
        BY <1>0, <1>1, <2>2, <4>2 DEF ToldBy
      <4>4. \A h2 \in 1 .. j - 1 : h2 \in DOMAIN stack
        BY <1>0
      <4>5. j > 1 /\ Is(stack[j - 1], "die", c)
        BY <2>4, <4>3, <4>4
      <4>6. PICK i \in DOMAIN stack : i = j - 1
        BY <1>0, <4>5
      <4>7. Firm(stack[i]) /\ c \in About(stack[i]) /\ stack[i].do # "childrenToldOf"
        BY <4>5, <4>6 DEF Firm, About, Is
      <4> QED BY <1>0, <2>5, <4>7 DEF OfTheLiving
    <3> QED BY <1>0, <3>2, <3>3, PastIs
  <2> QED BY <2>3, <2>5, DoneStays
<1>3. CASE ~SaidFarewell(p)
  <2>1. Fires(p, "beforeDestroy")
    BY <1>3, SaidStays
  <2>2. top \in DOMAIN stack /\ stack[top].do = "beforeDestroy" /\ Saying(stack[top], p)
    BY <1>0, <2>1, HookOnTop DEF Saying
  <2>3. parent[c] = p
    BY <1>0, <1>1, <2>1, <2>2, OnTopIs DEF Attaches, UserOnTop, Fires
  <2>4. Done(c) \/ Coming(c, top)
    BY <1>0, <2>2, <2>3 DEF ChildrenCovered
  <2>5. Done(c)
    BY <1>0, <2>4 DEF Coming
  <2>6. c # p
    BY <1>0, <2>3, AboveFacts
  <2>7. built' = built /\ heard'[c] = heard[c]
    BY <1>0, <2>1, <2>6, HeardFire DEF Fires, Hooks
  <2>8. ASSUME NEW i \in DOMAIN stack', Saying(stack'[i], c) PROVE FALSE
    <3>1. CASE Low(i, b)
      BY <2>5, <2>8, <3>1 DEF Low, Done
    <3>2. CASE NewStep(i)
      <4>1. WalksOn(c) \/ TellsRest(c)
        BY <2>8, <3>2, NewSaying
      <4> QED BY <2>2, <4>1, WalkHeights
    <3> QED BY <3>1, <3>2, MovesFacts
  <2> QED BY <2>5, <2>7, <2>8 DEF Done, Saying, SaidFarewell
<1> QED BY <1>2, <1>3

\* From a node above n, a step leads down towards n.
LEMMA StepDown ==
  ASSUME Typed, NEW n \in Node, NEW m \in Above(n), m # n
  PROVE  \E e \in Above(n) : parent[e] = m
<1> SUFFICES ASSUME \A e \in Above(n) : parent[e] # m PROVE FALSE
  OBVIOUS
<1>1. PICK S \in SUBSET Node : S = Above(n) \ {m}
  BY AboveFacts
<1>2. n \in S
  BY <1>1, AboveFacts
<1>3. \A x \in S : parent[x] # NoNode => parent[x] \in S
  BY <1>1, AboveFacts
<1>4. Above(n) \subseteq S
  BY <1>2, <1>3, AncestorsLeast DEF Above
<1> QED BY <1>1, <1>4

\* What a death is past after a step, it was past before.
LEMMA PastCame ==
  ASSUME IInv, NEW b, Moves(b), NEW q \in Node, Alive(q)', q \notin built',
         NEW k \in DOMAIN stack', Past(k, q)', ~On("childrenToldOf", q), ~On("childrenToldOf", q)'
  PROVE  k \in DOMAIN stack /\ Past(k, q)
<1>0. Typed /\ Typed' /\ Storing /\ NothingTaken /\ LifeOfNodes /\ NothingFound /\ NoNode \notin Node
      /\ DOMAIN stack = 1 .. top /\ top \in Nat /\ b \in {top, top - 1} /\ b \in Nat /\ Alive(q) /\ q \notin built
  BY MovesFacts, ObjectNodesAssumption, LivesEnd, BuiltGrows DEF IInv, Moves
<1>1. stack'[k].do = "die" /\ stack'[k].node \in Above(q)' /\ \A h \in DOMAIN stack' : h > k => ~Comes(h, q)'
  BY <1>0, PastIsNow
<1>2. PICK d \in Node : d = stack'[k].node
  BY MovesFacts
<1>3. Low(k, b)
  <2> SUFFICES ASSUME NewStep(k) PROVE FALSE
    BY MovesFacts
  <2>1. Destroys(d) /\ k = top + 1
    BY <1>1, <1>2, NewByKind
  <2>2. top + 2 \in DOMAIN stack' /\ stack'[top + 2] = Step("aboutToDie", d)
    BY <2>1, CallHeights DEF Destroys
  <2>3. PICK j \in DOMAIN stack' : j = top + 2
    BY <2>2
  <2>4. j > k /\ Comes(j, q)'
    BY <1>0, <1>1, <1>2, <2>1, <2>2, <2>3, StepFields DEF Comes
  <2> QED BY <1>1, <2>4
<1>4. k \in DOMAIN stack /\ stack[k].do = "die" /\ stack[k].node = d /\ k <= b /\ Firm(stack[k]) /\ d \in About(stack[k])
  BY <1>1, <1>2, <1>3 DEF Low, Firm, About
<1>5. ASSUME NEW x \in Above(q), NEW p \in Node, Attaches(x, p) PROVE FALSE
  <2>1. x \in Node
    BY <1>0, AboveFacts
  <2>2. \A n \in Node : Above(n)' = Above(n) \cup (IF x \in Above(n) THEN Above(p) ELSE {})
    BY <1>0, <1>5, <2>1, AttachAbove
  <2>3. x \notin Above(d)
    BY <1>0, <1>4, <1>5, <2>1, NotUnderway DEF Attaches
  <2>4. d \notin Above(q)
    <3> SUFFICES ASSUME d \in Above(q) PROVE FALSE
      OBVIOUS
    <3>1. parent[x] = NoNode /\ Above(x) = {x}
      BY <1>0, <1>5, <2>1, AboveFacts DEF Attaches
    <3>2. d \in Above(x)
      BY <1>0, <1>5, <2>3, AncestorsLinear DEF Above, Typed
    <3>3. x \in Above(x)
      BY <1>0, <2>1, AboveFacts
    <3> QED BY <2>3, <3>1, <3>2, <3>3
  <2>5. d \in Above(p)
    BY <1>1, <1>2, <2>2, <2>4
  <2>6. x \notin Above(p) /\ p \in built /\ parent' = [parent EXCEPT ![x] = p]
    BY <1>5 DEF Attaches
  <2>7. Steady(p)
    <3>1. \A m \in Above(p) : parent'[m] = parent[m]
      BY <1>0, <2>6, AboveFacts DEF Typed, ParentFunction
    <3> QED BY <1>0, <3>1, SteadyIf
  <2>8. x \in Above(q)' /\ \A e \in Above(p)' : e \in Above(q)'
    BY <1>5, <2>2, <2>7 DEF Steady
  <2>9. \A h \in DOMAIN stack : OldStep(h)
    BY <1>5, <2>1, CallHeights
  <2>10. ASSUME NEW h \in DOMAIN stack, h > k, Comes(h, p) PROVE FALSE
    <3>1. Comes(h, p)' /\ h \in DOMAIN stack'
      BY <2>7, <2>9, <2>10, ComesStays DEF OldStep
    <3>2. Comes(h, q)'
      BY <2>8, <3>1 DEF Comes
    <3> QED BY <1>1, <2>10, <3>1, <3>2
  <2>11. Past(k, p)
    BY <1>0, <1>4, <2>5, <2>10, PastIs
  <2>12. PICK h \in DOMAIN stack : Is(stack[h], "childrenToldOf", p) /\ x \notin stack[h].arg
    BY <1>4, <1>5, <2>11 DEF Attaches
  <2>13. h > k
    <3>1. h # k
      BY <1>4, <2>12 DEF Is
    <3>2. CASE h < k
      <4>1. Firm(stack[h]) /\ p \in About(stack[h]) /\ stack[k].do \in Taking
        BY <1>4, <2>12 DEF Firm, About, Is, Taking, Telling
      <4>2. Precedes(stack[h], stack[k], k = h + 1)
        BY <1>0, <1>4, <2>5, <3>2, <4>1 DEF NothingTaken
      <4> QED BY <1>4, <2>12, <4>2 DEF Precedes, Is
    <3> QED BY <1>0, <1>4, <3>1, <3>2
  <2>14. parent'[x] = p /\ stack'[h] = stack[h] /\ h \in DOMAIN stack'
    BY <1>0, <2>1, <2>6, <2>9, <2>12 DEF Typed, ParentFunction, OldStep
  <2>15. Comes(h, q)'
    BY <2>8, <2>12, <2>14 DEF Comes, Is
  <2> QED BY <1>1, <2>13, <2>14, <2>15
<1>6. ASSUME NEW x \in Above(q), Leaves(x) PROVE FALSE
  <2>1. x \in Node /\ top \in DOMAIN stack /\ stack[top].do = "leave" /\ stack[top].node = x
    BY <1>0, <1>6, AboveFacts, TopIs
  <2>2. parent' = [parent EXCEPT ![x] = NoNode] /\ parent'[x] = NoNode
    BY <1>0, <1>6, <2>1 DEF Leaves, Typed, ParentFunction
  <2>3. PICK S \in SUBSET Node : S = {y \in Above(q) : x \in Above(y)}
    BY <1>0, AboveFacts
  <2>4. q \in S
    BY <1>0, <1>6, <2>3, AboveFacts
  <2>5. ASSUME NEW y \in S, parent'[y] # NoNode PROVE parent'[y] \in S
    <3>1. y # x /\ y \in Node /\ parent'[y] = parent[y]
      BY <1>0, <2>2, <2>3, <2>5 DEF Typed, ParentFunction
    <3>2. parent[y] \in Above(q) /\ parent[y] \in Node /\ Above(y) = {y} \cup Above(parent[y])
      BY <1>0, <2>3, <2>5, <3>1, AboveFacts
    <3> QED BY <2>3, <3>1, <3>2
  <2>6. Ancestors(parent', q) \subseteq S
    BY <2>4, <2>5, AncestorsLeast
  <2>7. x \in Above(d)
    BY <1>1, <1>2, <2>3, <2>6 DEF Above
  <2>8. k < top
    BY <1>0, <1>4, <2>1
  <2>9. Precedes(stack[k], stack[top], top = k + 1)
    BY <1>0, <1>4, <2>1, <2>7, <2>8 DEF NothingTaken, Taking
  <2> QED BY <1>4, <2>1, <2>9 DEF Precedes
<1>7. ASSUME NEW e \in Above(q), Dies(e) PROVE FALSE
  <2>1. e \in Node /\ top \in DOMAIN stack /\ stack[top].do = "die" /\ stack[top].node = e /\ top > 0
    BY <1>0, <1>7, AboveFacts, TopIs
  <2>2. Free(e)
    BY <1>0, <2>1, FreeIfTaken DEF Taking, Telling
  <2>3. q \in Below(e)
    BY <1>0, <1>7, <2>1, <2>2, BelowIs DEF Beneath
  <2> QED BY <1>7, <2>3 DEF Dies, Alive
<1>8. Steady(q)
  BY <1>5, <1>6, <1>7, SteadyUnless
<1>9. d \in Above(q)
  BY <1>1, <1>2, <1>8 DEF Steady
<1>10. ASSUME NEW m \in Node, WalksOn(m) \/ TellsRest(m), NEW c \in Above(q), c \in Children(m),
              NEW h \in DOMAIN stack', h > top, stack'[h] = Step("aboutToDie", c)
       PROVE  FALSE
  <2>1. Comes(h, q)'
    BY <1>8, <1>10, StepFields DEF Comes, Steady
  <2>2. h > k
    BY <1>0, <1>4, <1>10, MovesFacts
  <2> QED BY <1>1, <1>10, <2>1, <2>2
<1>11. ASSUME NEW h \in DOMAIN stack, h > k, Comes(h, q) PROVE FALSE
  <2>1. CASE Low(h, b)
    <3>1. Comes(h, q)' /\ h \in DOMAIN stack'
      BY <1>8, <1>11, <2>1, ComesStays DEF Low
    <3> QED BY <1>1, <1>11, <3>1
  <2>2. CASE h = top /\ b = top - 1 /\ Popped
    <3>0. top \in DOMAIN stack /\ top > 0
      BY <1>0, <1>11, <2>2
    <3>1. PICK m \in Node : m = stack[top].node
      BY <3>0, MovesFacts
    <3>2. CASE stack[top].do = "aboutToDie" /\ m \in Above(q)
      <4>1. Alive(m)
        BY <1>0, <3>2, AliveAbove
      <4>2. WalksOn(m)
        BY <2>2, <3>1, <3>2, <4>1 DEF Popped, Skips
      <4>3. m # q
        BY <4>2, StepFields DEF WalksOn, On, Is
      <4>4. PICK c \in Above(q) : parent[c] = m
        BY <1>0, <3>2, <4>3, StepDown
      <4>5. Free(m)
        BY <1>0, <3>0, <3>1, <3>2, FreeIfTaken DEF Taking, Telling
      <4>6. c \in Children(m)
        BY <1>0, <4>4, <4>5, BelowIs, AboveFacts
      <4>7. PICK i \in DOMAIN stack' : i > top /\ stack'[i] = Step("aboutToDie", c)
        BY <4>2, <4>6 DEF WalksOn, Tells
      <4> QED BY <1>10, <4>2, <4>4, <4>6, <4>7
    <3>3. ASSUME stack[top].do = "childrenToldOf", NEW c \in Above(q), parent[c] = m, c \notin stack[top].arg
          PROVE  FALSE
      <4>0. c \in Node
        BY <1>0, AboveFacts
      <4>1. TellsRest(m)
        <5>1. m \in built
          BY <1>0, <3>0, <3>1, <3>3, <4>0 DEF NothingFound
        <5> QED BY <2>2, <3>1, <3>3, <5>1 DEF Popped, Ends
      <4>2. Free(m)
        BY <1>0, <3>0, <3>1, <3>3, FreeIfTaken DEF Taking, Telling
      <4>3. c \in Children(m)
        BY <1>0, <3>3, <4>0, <4>2, BelowIs
      <4>4. PICK i \in DOMAIN stack' : i > top + 1 /\ stack'[i] = Step("aboutToDie", c)
        BY <3>3, <4>1, <4>3 DEF TellsRest, Tells
      <4>5. i > top
        BY <1>0, <4>4, MovesFacts
      <4> QED BY <1>10, <4>1, <4>3, <4>4, <4>5
    <3> QED BY <1>11, <2>2, <3>1, <3>2, <3>3 DEF Comes
  <2> QED BY <2>1, <2>2, MovesFacts
<1> QED BY <1>0, <1>4, <1>9, <1>11, PastIs

\* NothingBelow is preserved.
LEMMA NothingBelowStays ==
  ASSUME IInv, NEW b, Moves(b)
  PROVE  NothingBelow'
<1>0. Typed /\ Typed' /\ NothingFound /\ NothingTaken /\ NoNode \notin Node
      /\ DOMAIN stack = 1 .. top /\ top \in Nat
  BY MovesFacts, ObjectNodesAssumption DEF IInv, Moves
<1> SUFFICES ASSUME NEW c \in Node, NEW q \in Node, q = parent'[c], q \notin built',
                    NEW k \in DOMAIN stack', Past(k, q)', ~On("childrenToldOf", q)'
             PROVE  c \notin built' /\ ~On("childrenToldOf", c)'
  <2>1. SUFFICES ASSUME NEW c \in Node, parent'[c] # NoNode, parent'[c] \notin built',
                        NEW k \in DOMAIN stack', Past(k, parent[c])', ~On("childrenToldOf", parent[c])'
                 PROVE  c \notin built' /\ ~On("childrenToldOf", c)'
    BY DEF NothingBelow
  <2>2. PICK q \in Node : q = parent'[c]
    BY <1>0, <2>1 DEF Typed, ParentFunction
  <2>3. Past(k, q)'
    BY <2>1, <2>2 DEF Past, ComesTo, Up
  <2>4. ~On("childrenToldOf", q)'
    BY <2>1, <2>2 DEF On, Is
  <2> QED BY <2>1, <2>2, <2>3, <2>4
<1>1. q \notin built
  BY BuiltGrows
<1>2. parent[c] = q /\ Alive(q)'
  BY <1>1, LinkedAlive DEF Attaches
<1>3. q \in Above(c) /\ q # c
  BY <1>0, <1>2, AboveFacts
<1>4. ASSUME On("childrenToldOf", q) PROVE c \notin built' /\ ~On("childrenToldOf", c)'
  <2>1. top \in DOMAIN stack /\ stack[top].do = "childrenToldOf" /\ stack[top].node = q /\ Popped
    BY <1>4, OnStays
  <2>2. Ends(q)
    BY <1>1, <2>1 DEF Popped, TellsRest
  <2>3. c \notin built'
    BY <1>0, <1>1, <1>2, <2>1, <2>2 DEF NothingFound, Ends, Same
  <2>4. ASSUME NEW h \in DOMAIN stack', Is(stack'[h], "childrenToldOf", c) PROVE FALSE
    <3>1. CASE Low(h, b)
      <4>1. h \in DOMAIN stack /\ Is(stack[h], "childrenToldOf", c)
        BY <2>4, <3>1 DEF Low
      <4>2. h < top
        BY <1>0, <1>3, <2>1, <4>1 DEF Is
      <4>3. Firm(stack[h]) /\ c \in About(stack[h]) /\ stack[top].do \in Taking
        BY <2>1, <4>1 DEF Firm, About, Is, Taking, Telling
      <4>4. Precedes(stack[h], stack[top], top = h + 1)
        BY <1>0, <1>3, <2>1, <4>1, <4>2, <4>3 DEF NothingTaken
      <4> QED BY <1>3, <2>1, <4>1, <4>4 DEF Precedes, Is
    <3>2. CASE NewStep(h)
      <4>1. WalksOn(c)
        BY <2>4, <3>2, NewByKind DEF Is
      <4> QED BY <1>0, <2>1, <4>1, NotTold
    <3> QED BY <3>1, <3>2, MovesFacts
  <2> QED BY <2>3, <2>4 DEF On, Is
<1>5. ASSUME ~On("childrenToldOf", q) PROVE c \notin built' /\ ~On("childrenToldOf", c)'
  <2>1. k \in DOMAIN stack /\ Past(k, q)
    BY <1>2, <1>5, PastCame
  <2>2. Past(k, c) /\ c \notin built /\ ~On("childrenToldOf", c)
    BY <1>1, <1>2, <1>5, <2>1, PastChild
  <2>3. c \notin built'
    BY <2>1, <2>2, PastUnbuilt
  <2>4. ASSUME NEW h \in DOMAIN stack', Is(stack'[h], "childrenToldOf", c) PROVE FALSE
    <3>1. CASE Low(h, b)
      BY <2>2, <2>4, <3>1 DEF Low, On
    <3>2. CASE NewStep(h)
      <4>1. WalksOn(c)
        BY <2>4, <3>2, NewByKind DEF Is
      <4> QED BY <2>1, <2>2, <4>1, TopComes, NotTold
    <3> QED BY <3>1, <3>2, MovesFacts
  <2> QED BY <2>3, <2>4 DEF On, Is
<1> QED BY <1>4, <1>5

\* WillSay is preserved.
LEMMA WillSayStays ==
  ASSUME IInv, NEW b, Moves(b)
  PROVE  WillSay'
<1>0. Typed /\ Typed' /\ WillSay /\ OfTheLiving /\ NothingTaken /\ NoNode \notin Node
      /\ DOMAIN stack = 1 .. top /\ top \in Nat
  BY MovesFacts, ObjectNodesAssumption DEF IInv, Moves
<1> SUFFICES ASSUME NEW k \in DOMAIN stack', NEW d \in Node, d = stack'[k].node, stack'[k].do = "die"
             PROVE  SaidFarewell(d)' \/ Coming(d, k)'
  <2>1. \A h \in DOMAIN stack' : stack'[h].node \in Node
    BY MovesFacts
  <2> QED BY <2>1 DEF WillSay, SaidFarewell, Coming, Is, Saying
<1>1. CASE Low(k, b)
  <2>1. k \in DOMAIN stack /\ stack[k].do = "die" /\ stack[k].node = d /\ k \in Nat
    BY <1>0, <1>1 DEF Low
  <2>2. Alive(d) /\ d \in built
    <3>1. Firm(stack[k]) /\ d \in About(stack[k]) /\ stack[k].do # "childrenToldOf"
      BY <2>1 DEF Firm, About
    <3> QED BY <1>0, <2>1, <3>1 DEF OfTheLiving
  <2>3. d \in built'
    BY <2>2, BuiltGrows
  <2>4. SaidFarewell(d) => SaidFarewell(d)'
    BY SaidStays
  <2>5. Coming(d, k) => Coming(d, k)' \/ SaidFarewell(d)'
    <3>1. Done(d)' => SaidFarewell(d)'
      BY <2>3 DEF Done, SaidFarewell
    <3> QED BY <2>1, <2>2, <3>1, ComingStays
  <2> QED BY <1>0, <2>1, <2>4, <2>5 DEF WillSay
<1>2. CASE NewStep(k)
  <2>1. Destroys(d) /\ k = top + 1
    BY <1>2, NewByKind
  <2>2. top + 2 \in DOMAIN stack' /\ stack'[top + 2] = Step("aboutToDie", d)
    BY <2>1, CallHeights DEF Destroys
  <2>3. PICK j \in DOMAIN stack' : j = top + 2
    BY <2>2
  <2>4. j > k /\ Is(stack'[j], "aboutToDie", d)
    BY <1>0, <2>1, <2>2, <2>3, StepFields DEF Is
  <2> QED BY <2>4 DEF Coming, Is, Saying
<1> QED BY <1>1, <1>2, MovesFacts

\* ParentBuilt is preserved.
LEMMA ParentBuiltStays ==
  ASSUME IInv, NEW b, Moves(b)
  PROVE  ParentBuilt'
<1>0. Typed /\ Typed' /\ ParentBuilt /\ OfTheLiving /\ NothingFound /\ ToldBy /\ DyingPlaced /\ NoNode \notin Node
      /\ DOMAIN stack = 1 .. top /\ top \in Nat /\ built \subseteq built'
  BY MovesFacts, ObjectNodesAssumption, BuiltGrows DEF IInv, Moves
<1> SUFFICES ASSUME NEW h \in DOMAIN stack', NEW n \in Node, Saying(stack'[h], n), n \in built'
             PROVE  parent'[n] \in built' \cup {NoNode}
  <2>1. \A h \in DOMAIN stack' : stack'[h].node \in Node
    BY MovesFacts
  <2> QED BY <2>1 DEF ParentBuilt, Saying
<1>1. n \notin built => parent[n] \in built' \cup {NoNode}
  <2> SUFFICES ASSUME n \notin built, parent[n] # NoNode PROVE parent[n] \in built'
    OBVIOUS
  <2>1. PICK p \in Node : p = parent[n]
    BY <1>0 DEF Typed, ParentFunction
  <2> QED BY <2>1, BuiltParent
<1>2. CASE Low(h, b)
  <2>1. h \in DOMAIN stack /\ Saying(stack[h], n)
    BY <1>2 DEF Low
  <2>2. Firm(stack[h]) /\ n \in About(stack[h])
    BY <2>1 DEF Saying, Firm, About
  <2>3. Steady(n)
    BY <1>2, <2>2, FirmFixed
  <2>4. parent'[n] = parent[n]
    BY <1>0, <2>3, AboveFacts DEF Steady
  <2>5. n \in built => parent[n] \in built \cup {NoNode}
    BY <1>0, <2>1 DEF ParentBuilt, Saying
  <2> QED BY <1>0, <1>1, <2>4, <2>5
<1>3. CASE NewStep(h)
  <2>1. WalksOn(n) \/ (TellsRest(n) /\ top \in DOMAIN stack /\ Saying(stack[top], n))
    BY <1>3, NewSaying
  <2>2. parent' = parent
    BY <2>1, WalkHeights
  <2>3. CASE TellsRest(n) /\ top \in DOMAIN stack /\ Saying(stack[top], n)
    <3>1. n \in built
      BY <2>3 DEF TellsRest
    <3> QED BY <1>0, <2>2, <2>3, <3>1 DEF ParentBuilt, Saying
  <2>4. ASSUME WalksOn(n), n \in built PROVE parent[n] \in built \cup {NoNode}
    <3>1. Alive(n) /\ top \in DOMAIN stack /\ stack[top].do = "aboutToDie" /\ stack[top].node = n
      BY <2>4, NotTold
    <3>2. CASE top > 1 /\ Is(stack[top - 1], "die", n)
      <4>1. PICK i \in DOMAIN stack : i = top - 1
        BY <1>0, <3>2
      <4> QED BY <1>0, <3>2, <4>1 DEF DyingPlaced, Is
    <3>3. ASSUME parent[n] # NoNode, NEW h2 \in 1 .. top - 1, Saying(stack[h2], parent[n])
          PROVE  parent[n] \in built
      <4>1. PICK p \in Node : p = parent[n]
        BY <1>0, <3>3 DEF Typed, ParentFunction
      <4>2. h2 \in DOMAIN stack
        BY <1>0
      <4>3. CASE stack[h2].do = "childrenToldOf"
        BY <1>0, <2>4, <3>3, <4>1, <4>2, <4>3 DEF NothingFound, Saying
      <4>4. CASE stack[h2].do = "beforeDestroy"
        <5>1. Firm(stack[h2]) /\ p \in About(stack[h2]) /\ stack[h2].do # "childrenToldOf"
          BY <3>3, <4>1, <4>4 DEF Firm, About, Saying
        <5> QED BY <1>0, <4>1, <4>2, <5>1 DEF OfTheLiving
      <4> QED BY <3>3, <4>3, <4>4 DEF Saying
    <3> QED BY <1>0, <3>1, <3>2, <3>3 DEF ToldBy
  <2> QED BY <1>0, <1>1, <2>1, <2>2, <2>3, <2>4
<1> QED BY <1>2, <1>3, MovesFacts

-----------------------------------------------------------------------------
(* Disposers *)

\* The step that is done is the one on top.
LEMMA DoesTop ==
  ASSUME Typed, NEW do, NEW n, Does(do, n)
  PROVE  OnTop(do, n) /\ top \in Nat
<1>1. agenda \in Seq(StepRecord) /\ agenda # <<>>
  BY DEF Typed, Does, Idle
<1>2. top \in Nat /\ top >= 1 /\ stack[top] = Head(agenda)
  BY <1>1, StackPop DEF stack, top
<1> QED BY <1>2 DEF OnTop, Is, Does

\* When it is the turn of user code, that is on top.
LEMMA TurnTop ==
  ASSUME Typed, UserTurn
  PROVE  UserOnTop
<1> SUFFICES ASSUME top > 0 PROVE stack[top].do = "user"
  BY DEF UserOnTop
<1>1. agenda \in Seq(StepRecord) /\ agenda # <<>>
  BY DEF Typed, top
<1>2. stack[top] = Head(agenda)
  BY <1>1, StackPop DEF stack, top
<1> QED BY <1>1, <1>2 DEF UserTurn, Idle

\* Every step has one of these effects on the disposers.
LEMMA NextDisposers ==
  ASSUME Doomed = {}, Typed, [Next]_vars, pending \in [Node -> Nat], owed \in [Node -> Nat]
  PROVE  DisposerEffect
<1>1. ASSUME NEW do, NEW n, do # "dispose", Does(do, n) PROVE NoDisposal
  BY <1>1, DoesTop DEF NoDisposal, OnTop, Is
<1>2. ASSUME UserTurn PROVE NoDisposal
  BY <1>2, TurnTop DEF NoDisposal, UserOnTop
<1>3. ASSUME NEW n \in Node, n \notin built, Build(ParentChain(n)) PROVE \E S : Adds(S)
  <2>1. PICK S : S = {m \in ParentChain(n) : Alive(m)}
    OBVIOUS
  <2>2. S \subseteq Node /\ \A m \in S : m \notin built /\ m \in built' /\ Alive(m)
    BY <1>3, <2>1, ChainFacts DEF Build
  <2> QED BY <1>3, <2>1, <2>2 DEF Build, Adds
<1>4. ASSUME NEW n \in Node, Read(n) PROVE DisposerEffect
  BY <1>2, <1>3, <1>4 DEF Read, Calls, DisposerEffect
<1>5. ASSUME NEW n \in Node, Write(n) \/ ReadSnapshot(n) \/ Detach(n) \/ Destroy(n) PROVE DisposerEffect
  BY <1>2, <1>5 DEF Write, ReadSnapshot, Detach, Destroy, Calls, DisposerEffect, disposers
<1>6. ASSUME NEW n \in Node, NEW p \in Node, Attach(n, p) PROVE DisposerEffect
  BY <1>2, <1>6 DEF Attach, Calls, DisposerEffect, disposers
<1>7. ASSUME NEW n \in Node, AddDisposer(n) PROVE DisposerEffect
  <2>1. ~SaidFarewell(n) \/ On("dispose", n)
    BY <1>7, PlannedIs DEF AddDisposer
  <2>2. n \in built /\ Alive(n) /\ built' = built /\ UserTurn
    BY <1>7 DEF AddDisposer, nodes, Calls
  <2>3. PICK S : S = {n}
    OBVIOUS
  <2>4. Adds(S)
    BY <1>7, <2>1, <2>2, <2>3 DEF AddDisposer, Adds
  <2> QED BY <1>2, <2>2, <2>4 DEF DisposerEffect
<1>8. ASSUME NEW n \in Node, Return(n) \/ Store(n) \/ Created(n) \/ Finalize(n) \/ Finalized(n) \/ Leave(n) \/ ChildrenTold(n)
      PROVE  DisposerEffect
  <2>1. UNCHANGED <<pending, owed>>
    BY <1>8 DEF Return, Store, Created, Finalize, Finalized, Leave, ChildrenTold, disposers
  <2>2. \E do : do # "dispose" /\ Does(do, n)
    <3>1. {"user", "store", "afterCreate", "finalize", "finalized", "leave", "childrenToldOf"} \cap {"dispose"} = {}
      OBVIOUS
    <3>2. \E do \in {"user", "store", "afterCreate", "finalize", "finalized", "leave", "childrenToldOf"} : Does(do, n)
      BY <1>8 DEF Return, Store, Created, Finalize, Finalized, Leave, ChildrenTold
    <3> QED BY <3>1, <3>2
  <2> QED BY <1>1, <2>1, <2>2 DEF DisposerEffect
<1>9. ASSUME NEW n \in Node, NEW hook \in Hooks, FireHook(n, hook) PROVE DisposerEffect
  <2>1. UNCHANGED <<pending, owed>> /\ Does(hook, n) /\ hook # "dispose"
    BY <1>9 DEF FireHook, disposers, Hooks
  <2> QED BY <1>1, <2>1 DEF DisposerEffect
<1>10. ASSUME NEW n \in Node, AboutToDie(n) PROVE DisposerEffect
  <2>1. NoDisposal
    BY <1>1, <1>10 DEF AboutToDie
  <2>2. CASE ~Alive(n)
    BY <1>10, <2>1, <2>2 DEF AboutToDie, disposers, DisposerEffect
  <2>3. CASE Alive(n) /\ BuiltForFarewell(n) = {}
    <3>1. pending' = [m \in Node |-> pending[m]] /\ owed' = [m \in Node |-> owed[m]]
      BY <1>10, <2>3 DEF AboutToDie, Build
    <3> QED BY <2>1, <3>1 DEF DisposerEffect
  <2>4. CASE Alive(n) /\ BuiltForFarewell(n) # {}
    <3>1. n \notin built /\ BuiltForFarewell(n) = ParentChain(n)
      BY <2>4 DEF BuiltForFarewell
    <3>2. Build(ParentChain(n))
      BY <1>10, <2>4, <3>1 DEF AboutToDie
    <3> QED BY <1>3, <2>1, <3>1, <3>2 DEF DisposerEffect
  <2> QED BY <2>2, <2>3, <2>4
<1>11. ASSUME NEW n \in Node, Dispose(n) PROVE DisposerEffect
  BY <1>11, DisposeEffect DEF Dispose, DisposerEffect
<1>12. ASSUME NEW n \in Node, Clear(n) PROVE DisposerEffect
  BY <1>1, <1>12, DoesTop DEF Clear, DisposerEffect
<1>13. ASSUME NEW n \in Node, Die(n) PROVE DisposerEffect
  BY <1>1, <1>13, DieEffect DEF Die, DisposerEffect
<1>14. CASE UserCalls
  BY <1>14, <1>4, <1>5, <1>6, <1>7 DEF UserCalls
<1>15. CASE NextStep
  BY <1>15, <1>8, <1>9, <1>10, <1>11, <1>12, <1>13 DEF NextStep
<1>16. CASE UNCHANGED vars
  BY <1>16 DEF DisposerEffect
<1> QED BY <1>14, <1>15, <1>16 DEF Next

\* n has said farewell, and its disposers have run
Gone(n) == SaidFarewell(n) /\ ~On("dispose", n)

\* Who has said farewell and been disposed of, unless the disposal is on top
LEMMA GoneStays ==
  ASSUME IInv, NEW b, Moves(b), NoDisposal, NEW n \in Node
  PROVE  Gone(n)' <=> Gone(n)
<1>0. Typed /\ OnceSaid /\ Disposing /\ DOMAIN stack = 1 .. top /\ top \in Nat
  BY MovesFacts DEF IInv
<1>1. ASSUME Gone(n) PROVE Gone(n)'
  <2>1. SaidFarewell(n)'
    BY <1>1, SaidStays DEF Gone
  <2>2. ASSUME NEW h \in DOMAIN stack', Is(stack'[h], "dispose", n) PROVE FALSE
    <3>1. CASE Low(h, b)
      BY <1>1, <2>2, <3>1 DEF Low, Gone, On
    <3>2. CASE NewStep(h)
      <4>1. TellsRest(n)
        BY <2>2, <3>2, NewByKind DEF Is
      <4>2. top \in DOMAIN stack /\ Saying(stack[top], n)
        BY <1>0, <4>1, OnTopIs DEF TellsRest, Saying
      <4> QED BY <1>0, <1>1, <4>2 DEF OnceSaid, Gone
    <3> QED BY <3>1, <3>2, MovesFacts
  <2> QED BY <2>1, <2>2 DEF Gone, SaidFarewell, On, Is
<1>2. ASSUME Gone(n)' PROVE Gone(n)
  <2>1. SaidFarewell(n)' /\ ~On("dispose", n)'
    BY <1>2 DEF Gone, SaidFarewell, On, Is
  <2>2. ~On("dispose", n)
    <3> SUFFICES ASSUME On("dispose", n) PROVE FALSE
      OBVIOUS
    <3>1. top \in DOMAIN stack /\ stack[top].do = "dispose"
      BY <2>1, OnStays
    <3> QED BY <1>0, <3>1 DEF NoDisposal
  <2>3. SaidFarewell(n)
    <3> SUFFICES ASSUME Fires(n, "beforeDestroy") PROVE FALSE
      BY <2>1, SaidStays
    <3>1. top \in DOMAIN stack /\ stack[top].do = "beforeDestroy" /\ stack[top].node = n
      BY <1>0, HookOnTop
    <3>2. top > 1 /\ Is(stack[top - 1], "dispose", n)
      BY <1>0, <3>1 DEF Disposing
    <3>3. PICK i \in DOMAIN stack : i = top - 1
      BY <1>0, <3>2
    <3> QED BY <2>2, <3>2, <3>3 DEF On
  <2> QED BY <2>2, <2>3 DEF Gone
<1> QED BY <1>1, <1>2

\* When a node dies, what is below it has said its farewell and been disposed of.
LEMMA DyingDone ==
  ASSUME IInv, NEW d \in Node, top \in DOMAIN stack, stack[top].do = "die", stack[top].node = d,
         NEW n \in Node, d \in Above(n)
  PROVE  Done(n) /\ ~On("dispose", n) /\ owed[n] = 0
<1>0. Typed /\ NoNode \notin Node /\ parent \in ParentFunction /\ Rooted(parent) /\ WillSay /\ OnceSaid /\ OfTheLiving
      /\ ChildrenDone /\ NothingBelow /\ NothingTaken /\ Disposed /\ LifeOfNodes /\ DOMAIN stack = 1 .. top /\ top \in Nat
  BY ObjectNodesAssumption, StackFacts DEF IInv, Typed, top
<1>1. Done(d)
  <2>1. ~Coming(d, top)
    BY <1>0 DEF Coming
  <2>2. SaidFarewell(d)
    BY <1>0, <2>1 DEF WillSay
  <2> QED BY <1>0, <2>2 DEF Done, OnceSaid
<1> DEFINE G == {z \in Node : d \in Above(z) => Done(z)}
<1>2. ASSUME NEW z \in Node, parent[z] = NoNode PROVE z \in G
  <2>1. Above(z) = {z}
    BY <1>0, <1>2, AboveFacts
  <2> QED BY <1>1, <2>1
<1>3. ASSUME NEW z \in Node, parent[z] # NoNode, parent[z] \in G PROVE z \in G
  <2> SUFFICES ASSUME d \in Above(z), z # d PROVE Done(z)
    BY <1>1
  <2>1. PICK y \in Node : y = parent[z]
    BY <1>3
  <2>2. d \in Above(y)
    BY <1>0, <1>3, <2>1, AboveFacts
  <2>3. Done(y)
    BY <1>3, <2>1, <2>2
  <2>4. CASE y \in built
    BY <1>0, <1>3, <2>1, <2>3, <2>4 DEF ChildrenDone, Done
  <2>5. CASE y \notin built
    <3>1. Past(top, y)
      BY <1>0, <2>2, PastIs
    <3>2. ~On("childrenToldOf", y)
      BY <2>3 DEF Done, On, Is, Saying
    <3>3. z \notin built /\ ~On("childrenToldOf", z)
      BY <1>0, <1>3, <2>1, <2>5, <3>1, <3>2 DEF NothingBelow
    <3>4. ASSUME NEW h \in DOMAIN stack, Saying(stack[h], z) PROVE FALSE
      <4>1. stack[h].do = "beforeDestroy" /\ stack[h].node = z
        BY <3>3, <3>4 DEF On, Is, Saying
      <4>2. Firm(stack[h]) /\ z \in About(stack[h]) /\ stack[h].do # "childrenToldOf"
        BY <4>1 DEF Firm, About
      <4> QED BY <1>0, <3>3, <4>2 DEF OfTheLiving
    <3> QED BY <3>3, <3>4 DEF Done
  <2> QED BY <2>4, <2>5
<1>4. Done(n)
  <2> HIDE DEF G
  <2>1. Node \subseteq G
    BY <1>0, <1>2, <1>3, ForestInduction
  <2> QED BY <2>1 DEF G
<1>5. ~On("dispose", n)
  <2> SUFFICES ASSUME NEW h \in DOMAIN stack, Is(stack[h], "dispose", n) PROVE FALSE
    BY DEF On
  <2>1. h < top
    BY <1>0 DEF Is
  <2>2. Firm(stack[h]) /\ n \in About(stack[h]) /\ stack[top].do \in Taking
    BY DEF Firm, About, Is, Taking, Telling
  <2>3. Precedes(stack[h], stack[top], top = h + 1)
    BY <1>0, <2>1, <2>2 DEF NothingTaken
  <2> QED BY <2>3 DEF Precedes, Is
<1>6. n \notin built => pending[n] = 0
  BY <1>0 DEF Disposed
<1>7. owed[n] = 0
  BY <1>0, <1>4, <1>5, <1>6 DEF Disposed, Done
<1> QED BY <1>4, <1>5, <1>7

\* Disposed is preserved.
LEMMA DisposedStays ==
  ASSUME IInv, NEW b, Moves(b), DisposerEffect
  PROVE  Disposed'
<1>0. /\ Typed /\ Typed' /\ Disposing /\ DisposedOnce /\ LifeOfNodes /\ built \subseteq built'
      /\ Storing /\ NothingTaken /\ DOMAIN stack = 1 .. top /\ top \in Nat /\ b \in {top, top - 1}
  BY MovesFacts, BuiltGrows DEF IInv, Moves
<1>1. /\ pending \in [Node -> Nat] /\ owed \in [Node -> Nat]
      /\ \A n \in Node : n \notin built => pending[n] = 0
      /\ \A n \in Node : owed[n] = IF Gone(n) THEN 0 ELSE pending[n]
  BY DEF IInv, Disposed, Gone
<1> DEFINE Fine == /\ pending' \in [Node -> Nat] /\ owed' \in [Node -> Nat]
                   /\ \A n \in Node : n \notin built' => pending'[n] = 0
                   /\ \A n \in Node : owed'[n] = IF Gone(n)' THEN 0 ELSE pending'[n]
<1> SUFFICES Fine
  BY DEF Disposed, Gone, SaidFarewell, On, Is
<1>2. CASE UNCHANGED vars
  <2>1. UNCHANGED <<pending, owed, built, agenda, heard>>
    BY <1>2 DEF vars, nodes, disposers
  <2>2. stack' = stack
    BY <2>1 DEF stack
  <2>3. \A n \in Node : Gone(n)' <=> Gone(n)
    BY <2>1, <2>2 DEF Gone, SaidFarewell, On, Is
  <2> QED BY <1>1, <2>1, <2>3
<1>3. ASSUME NoDisposal, UNCHANGED <<pending, owed>> PROVE Fine
  <2>1. \A n \in Node : Gone(n)' <=> Gone(n)
    BY <1>3, GoneStays
  <2> QED BY <1>0, <1>1, <1>3, <2>1
<1>4. ASSUME NoDisposal, NEW S, Adds(S) PROVE Fine
  <2>1. \A n \in Node : Gone(n)' <=> Gone(n)
    BY <1>4, GoneStays
  <2>2. \A m \in S : m \in Node /\ m \in built' /\ (m \in built => ~Gone(m))
    BY <1>4 DEF Adds, Gone
  <2>3. \A m \in Node : m \notin built => ~Gone(m)
    BY <1>0 DEF LifeOfNodes, Gone, SaidFarewell
  <2>4. /\ pending' = [m \in Node |-> IF m \in S THEN pending[m] + 1 ELSE pending[m]]
        /\ owed' = [m \in Node |-> IF m \in S THEN owed[m] + 1 ELSE owed[m]]
    BY <1>4 DEF Adds
  <2>5. ASSUME NEW n \in Node PROVE owed'[n] = IF Gone(n)' THEN 0 ELSE pending'[n]
    <3>1. n \in S => ~Gone(n)
      BY <2>2, <2>3
    <3>2. owed[n] = IF Gone(n) THEN 0 ELSE pending[n]
      BY <1>1
    <3>3. Gone(n)' <=> Gone(n)
      BY <2>1
    <3> QED BY <2>4, <3>1, <3>2, <3>3
  <2>6. pending' \in [Node -> Nat] /\ owed' \in [Node -> Nat]
    BY <1>1, <2>4
  <2>7. \A n \in Node : n \notin built' => pending'[n] = 0
    BY <1>0, <1>1, <2>2, <2>4
  <2> QED BY <2>5, <2>6, <2>7
<1>5. ASSUME NEW n \in Node, Disposes(n), owed' = [owed EXCEPT ![n] = @ - pending[n]], pending' = pending PROVE Fine
  <2>1. top \in DOMAIN stack /\ stack[top].do = "dispose" /\ stack[top].node = n
    BY <1>0, <1>5, OnTopIs DEF Disposes
  <2>2. ~Gone(n)
    BY <2>1 DEF Gone, On, Is
  <2>3. SaidFarewell(n)
    <3>1. \/ SaidFarewell(n)
          \/ top < Len(agenda) /\ Is(stack[top + 1], "beforeDestroy", n)
      BY <1>0, <2>1 DEF Disposing
    <3> QED BY <1>0, <3>1 DEF top
  <2>4. heard' = heard /\ built' = built /\ Kept(top - 1)
    BY <1>5 DEF Disposes, Same
  <2>5. \A h \in DOMAIN stack' : h < top => h \in DOMAIN stack /\ stack'[h] = stack[h]
    <3> SUFFICES ASSUME NEW h \in DOMAIN stack', h < top PROVE h \in DOMAIN stack /\ stack'[h] = stack[h]
      OBVIOUS
    <3>1. h \in 1 .. top - 1 /\ h \in 1 .. top
      BY <1>0, MovesFacts
    <3> QED BY <1>0, <2>4, <3>1 DEF Kept
  <2>6. \A h \in DOMAIN stack' : h >= top => stack'[h].do # "dispose"
    BY <1>0, <1>5, StepFields, MovesFacts DEF Disposes
  <2>7. \A h \in DOMAIN stack' : Is(stack'[h], "dispose", n) => FALSE
    BY <1>0, <2>1, <2>5, <2>6, MovesFacts DEF Is, DisposedOnce
  <2>8. Gone(n)'
    BY <2>3, <2>4, <2>7 DEF Gone, SaidFarewell, On, Is
  <2>9. ASSUME NEW m \in Node, m # n PROVE Gone(m)' <=> Gone(m)
    <3>1. ASSUME On("dispose", m) PROVE On("dispose", m)'
      BY <2>1, <2>9, <3>1, OnStays
    <3>2. ASSUME NEW h \in DOMAIN stack', Is(stack'[h], "dispose", m) PROVE On("dispose", m)
      BY <1>0, <2>5, <2>6, <3>2, MovesFacts DEF Is, On
    <3> QED BY <2>4, <3>1, <3>2 DEF Gone, SaidFarewell, On, Is
  <2>10. owed[n] = pending[n] /\ pending[n] \in Nat
    BY <1>1, <2>2
  <2>11. owed'[n] = 0 /\ \A m \in Node : m # n => owed'[m] = owed[m]
    BY <1>1, <1>5, <2>10
  <2>12. owed' \in [Node -> Nat]
    BY <1>1, <1>5, <2>10
  <2> QED BY <1>1, <1>5, <2>4, <2>8, <2>9, <2>11, <2>12
<1>6. ASSUME NEW n \in Node, NoDisposal, OnTop("clear", n), pending' = [pending EXCEPT ![n] = 0], owed' = owed PROVE Fine
  <2>1. \A m \in Node : Gone(m)' <=> Gone(m)
    BY <1>6, GoneStays
  <2>2. top \in DOMAIN stack /\ stack[top].do = "clear" /\ stack[top].node = n
    BY <1>0, <1>6, OnTopIs
  <2>3. Gone(n)
    BY <1>0, <2>2 DEF Disposing, Gone
  <2> QED BY <1>0, <1>1, <1>6, <2>1, <2>3
<1>7. ASSUME NEW d \in Node, NoDisposal, Dies(d), owed' = owed,
             pending' = [m \in Node |-> IF m \in Below(d) THEN 0 ELSE pending[m]]
      PROVE  Fine
  <2>1. \A m \in Node : Gone(m)' <=> Gone(m)
    BY <1>7, GoneStays
  <2>2. top \in DOMAIN stack /\ stack[top].do = "die" /\ stack[top].node = d
    BY <1>7, TopIs
  <2>3. Free(d)
    BY <1>0, <2>2, FreeIfTaken DEF Taking, Telling
  <2>4. \A m \in Node : m \in Below(d) => owed[m] = 0
    BY <1>0, <2>2, <2>3, BelowIs, DyingDone DEF Beneath
  <2> QED BY <1>0, <1>1, <1>7, <2>1, <2>4
<1> QED BY <1>2, <1>3, <1>4, <1>5, <1>6, <1>7 DEF DisposerEffect

\* Farewells is preserved: what dies has said farewell and been disposed of.
LEMMA FarewellsStay ==
  ASSUME IInv, NEW b, Moves(b), DisposerEffect
  PROVE  Farewells'
<1>0. /\ Typed /\ Typed' /\ OfTheLiving /\ LifeOfNodes /\ Farewells /\ Storing /\ NothingTaken
      /\ DOMAIN stack = 1 .. top /\ top \in Nat /\ owed \in [Node -> Nat] /\ pending \in [Node -> Nat]
  BY MovesFacts DEF IInv, Moves, Disposed
<1> SUFFICES ASSUME NEW n \in Node, ~Alive(n)'
             PROVE  owed'[n] = 0 /\ (heard'[n] # <<>> => SaidFarewell(n)')
  BY DEF Farewells, Alive, SaidFarewell
<1>1. CASE ~Alive(n)
  <2>1. heard'[n] = heard[n]
    <3> SUFFICES ASSUME NEW hook \in Hooks, Fires(n, hook) \/ (hook = "afterCreate" /\ Announces(n)) PROVE FALSE
      BY HeardBy DEF Hooks
    <3>1. top \in DOMAIN stack /\ stack[top].do = hook /\ stack[top].node = n
      BY <1>0, HookOnTop
    <3>2. Firm(stack[top]) /\ n \in About(stack[top])
      BY <3>1 DEF Firm, About, Hooks
    <3> QED BY <1>0, <1>1, <3>1, <3>2 DEF OfTheLiving
  <2>2. owed'[n] = owed[n]
    <3>1. CASE UNCHANGED vars
      BY <3>1 DEF vars, disposers
    <3>2. ASSUME NEW S, Adds(S) PROVE owed'[n] = owed[n]
      BY <1>1, <3>2 DEF Adds
    <3>3. ASSUME NEW m \in Node, Disposes(m), owed' = [owed EXCEPT ![m] = @ - pending[m]] PROVE owed'[n] = owed[n]
      <4>1. top \in DOMAIN stack /\ stack[top].do = "dispose" /\ stack[top].node = m
        BY <1>0, <3>3, OnTopIs DEF Disposes
      <4>2. Firm(stack[top]) /\ m \in About(stack[top])
        BY <4>1 DEF Firm, About
      <4>3. m # n
        BY <1>0, <1>1, <4>1, <4>2 DEF OfTheLiving
      <4> QED BY <1>0, <3>3, <4>3
    <3> QED BY <3>1, <3>2, <3>3 DEF DisposerEffect
  <2>3. owed[n] = 0 /\ (heard[n] # <<>> => SaidFarewell(n))
    BY <1>0, <1>1 DEF Farewells
  <2> QED BY <2>1, <2>2, <2>3 DEF SaidFarewell
<1>2. CASE Alive(n)
  <2>1. PICK d \in Node : Dies(d) /\ n \in Below(d)
    BY <1>2, LivesEnd
  <2>2. top \in DOMAIN stack /\ stack[top].do = "die" /\ stack[top].node = d
    BY <2>1, TopIs
  <2>3. Free(d)
    BY <1>0, <2>2, FreeIfTaken DEF Taking, Telling
  <2>4. d \in Above(n)
    BY <1>0, <2>1, <2>3, BelowIs DEF Beneath
  <2>5. Done(n) /\ ~On("dispose", n) /\ owed[n] = 0
    BY <2>2, <2>4, DyingDone
  <2>6. heard' = heard /\ built' = built
    BY <2>1 DEF Dies
  <2>7. owed'[n] = owed[n]
    <3>1. CASE UNCHANGED vars
      BY <3>1 DEF vars, disposers
    <3>2. ASSUME NEW S, Adds(S) PROVE owed'[n] = owed[n]
      <4>1. n \notin S
        BY <2>5, <2>6, <3>2 DEF Adds, Done
      <4> QED BY <3>2, <4>1 DEF Adds
    <3>3. \A m \in Node : ~Disposes(m)
      BY <1>0, <2>2, OnTopIs DEF Disposes
    <3> QED BY <3>1, <3>2, <3>3 DEF DisposerEffect
  <2>8. heard[n] # <<>> => SaidFarewell(n)
    BY <1>0, <2>5 DEF Done, LifeOfNodes
  <2> QED BY <2>5, <2>6, <2>7, <2>8 DEF SaidFarewell
<1> QED BY <1>1, <1>2

-----------------------------------------------------------------------------
(* The inductive invariant *)

\* The invariant holds before user code has made a call.
LEMMA InitIInv ==
  Init => IInv
<1> SUFFICES ASSUME Init PROVE IInv
  OBVIOUS
<1> USE DEF Init
<1>1. DOMAIN stack = {}
  <2>1. Len(agenda) = 0
    OBVIOUS
  <2>2. 1 .. Len(agenda) = {}
    BY <2>1
  <2> QED BY <2>2 DEF stack, Stack
<1>2. \A s \in Seq(Hooks) : s # <<>> => Last(s) = s[Len(s)]
  BY DEF Last
<1>3. \A n \in Node : /\ n \notin built => heard[n] = <<>>
                      /\ n \in built /\ parent[n] = NoNode => heard[n] = <<"afterCreate">>
                      /\ n \in built /\ parent[n] # NoNode => heard[n] = <<"afterCreate", "afterAttach">>
  OBVIOUS
<1>4. /\ Last(<<"afterCreate">>) = "afterCreate" /\ <<"afterCreate">> # <<>>
      /\ Last(<<"afterCreate", "afterAttach">>) = "afterAttach" /\ <<"afterCreate", "afterAttach">> # <<>>
  BY DEF Last
<1>5. \A n \in Node : /\ ~SaidFarewell(n)
                      /\ n \in built => heard[n] # <<>>
                      /\ n \in built /\ parent[n] = NoNode => Last(heard[n]) = "afterCreate"
                      /\ n \in built /\ parent[n] # NoNode => Last(heard[n]) = "afterAttach"
  BY <1>3, <1>4 DEF SaidFarewell
<1>6. \A n \in Node : /\ Alive(n) /\ life[n] # "created" /\ life[n] \in Lives
                      /\ n \in built => life[n] = "finalized"
                      /\ n \notin built => life[n] = "initializing"
  BY DEF Alive, Lives
<1>7. Typed
  <2>1. parent \in ParentFunction /\ Rooted(parent) /\ built \subseteq Node
    BY ObjectNodesAssumption DEF ParentFunction
  <2>2. agenda \in Seq(StepRecord)
    OBVIOUS
  <2>3. life \in [Node -> Lives]
    BY DEF Lives
  <2>4. heard \in [Node -> Seq(Hooks)]
    <3>1. \A n \in Node : heard[n] \in Seq(Hooks)
      <4>1. <<>> \in Seq(Hooks) /\ <<"afterCreate">> \in Seq(Hooks) /\ <<"afterCreate", "afterAttach">> \in Seq(Hooks)
        BY DEF Hooks
      <4> QED BY <1>3, <4>1
    <3> QED BY <3>1
  <2> QED BY <2>1, <2>2, <2>3, <2>4 DEF Typed
<1>8. NothingTaken /\ NotRevived /\ OfTheLiving /\ Storing /\ Leaving /\ LeavingEarly /\ MovedOnce /\ Detaching /\ Attaching
  BY <1>1 DEF NothingTaken, NotRevived, OfTheLiving, Storing, Leaving, LeavingEarly, MovedOnce, Detaching, Attaching
<1>9. Creating /\ Finalizing /\ Disposing /\ DisposedOnce /\ DyingPlaced /\ CreatedOnce /\ NotTooEarly
  BY <1>1 DEF Creating, Finalizing, Disposing, DisposedOnce, DyingPlaced, CreatedOnce, NotTooEarly
<1>10. LifeOfNodes
  BY <1>3, <1>6 DEF LifeOfNodes
<1>11. HeardNothing /\ HeardLast
  <2>1. built \subseteq Node
    BY <1>7 DEF Typed
  <2> HIDE DEF Init
  <2> QED BY <1>1, <1>5, <1>6, <2>1 DEF HeardNothing, HeardLast
<1>12. Awaited
  BY <1>6 DEF Awaited
<1>13. DiesSoon /\ DiesUnchanged /\ ToldFromAbove /\ ToldBy /\ OnceSaid
  BY <1>1, <1>5 DEF DiesSoon, DiesUnchanged, ToldFromAbove, ToldBy, OnceSaid, Told
<1>14. ChildrenCovered /\ ChildrenDone /\ NothingBelow /\ NothingFound /\ WillSay /\ ParentBuilt
  <2>1. ChildrenCovered /\ NothingBelow /\ NothingFound /\ WillSay /\ ParentBuilt
    BY <1>1 DEF ChildrenCovered, NothingBelow, NothingFound, WillSay, ParentBuilt
  <2>2. \A c \in Node : parent[c] # NoNode => parent[c] \in Node
    BY <1>7 DEF Typed, ParentFunction
  <2> QED BY <1>5, <2>1, <2>2 DEF ChildrenDone
<1>15. Disposed
  BY <1>5 DEF Disposed
<1>16. Farewells
  BY <1>6 DEF Farewells
<1> QED BY <1>7, <1>8, <1>9, <1>10, <1>11, <1>12, <1>13, <1>14, <1>15, <1>16 DEF IInv

\* A step that moves preserves the invariant.
LEMMA MovesInductive ==
  ASSUME IInv, NEW b, Moves(b), DisposerEffect
  PROVE  IInv'
<1>1. Typed'
  BY DEF Moves
<1>2. NothingTaken' /\ NotRevived' /\ OfTheLiving' /\ Storing' /\ Leaving' /\ LeavingEarly' /\ MovedOnce' /\ Detaching' /\ Attaching'
  BY TakenStays, RevivedStays, LivingStays, StoringStays, LeavingStays, LeavingEarlyStays, MovedStays, DetachingStays, AttachingStays
<1>3. Creating' /\ Finalizing' /\ Disposing' /\ DisposedOnce' /\ DyingPlaced' /\ LifeOfNodes'
  BY CreatingStays, FinalizingStays, DisposingStays, DisposedOnceStays, DyingStays, LifeStays
<1>4. CreatedOnce' /\ HeardNothing' /\ HeardLast' /\ NotTooEarly' /\ Awaited'
  BY CreatedOnceStays, HeardNothingStays, HeardLastStays, NotTooEarlyStays, AwaitedStays
<1>5. DiesSoon' /\ DiesUnchanged' /\ ToldFromAbove' /\ ToldBy' /\ OnceSaid'
  BY DiesSoonStays, DiesUnchangedStays, ToldFromAboveStays, ToldByStays, OnceSaidStays
<1>6. ChildrenCovered' /\ ChildrenDone' /\ NothingBelow' /\ NothingFound' /\ WillSay' /\ ParentBuilt'
  BY ChildrenCoveredStays, ChildrenDoneStays, NothingBelowStays, NothingFoundStays, WillSayStays, ParentBuiltStays
<1>7. Disposed' /\ Farewells'
  BY DisposedStays, FarewellsStay
<1> QED BY <1>1, <1>2, <1>3, <1>4, <1>5, <1>6, <1>7 DEF IInv

\* Every step moves the stack in a frame, with an effect on the disposers.
LEMMA NextMoves ==
  ASSUME Doomed = {}, IInv, [Next]_vars
  PROVE  DisposerEffect /\ \E b : Moves(b)
<1>1. Typed /\ Creating /\ OfTheLiving /\ pending \in [Node -> Nat] /\ owed \in [Node -> Nat]
  BY DEF IInv, Disposed
<1>2. agenda' \in Seq(StepRecord) /\ Effect
  BY <1>1, NextEffect
<1>3. Typed'
  BY <1>1, <1>2, NextTyped
<1>4. \E b : Frame(b)
  BY <1>1, <1>2, <1>3, FrameExists
<1>5. DisposerEffect
  BY <1>1, NextDisposers
<1> QED BY <1>1, <1>2, <1>3, <1>4, <1>5 DEF Moves

\* The agenda of a tree of nodes whose user code makes no call known to go
\* wrong: what firm steps rely on, what each node has heard, and how far the
\* walk that tells of a death has come.
THEOREM AgendaInvariant ==
  ASSUME Doomed = {}
  PROVE  Spec => []IInv
<1>1. Init => IInv
  BY InitIInv
<1>2. IInv /\ [Next]_vars => IInv'
  BY NextMoves, MovesInductive
<1> QED BY <1>1, <1>2, PTL DEF Spec

-----------------------------------------------------------------------------
(* What is promised *)

\* With nothing on the agenda, who is created is finalized.
LEMMA IdleAnnounced ==
  ASSUME IInv
  PROVE  Announced
<1> SUFFICES ASSUME Idle, NEW n \in built, Alive(n)
             PROVE  life[n] = "finalized" /\ (parent[n] # NoNode <=> Last(heard[n]) = "afterAttach")
  BY DEF Announced
<1>0. /\ Typed /\ n \in Node /\ LifeOfNodes /\ Awaited /\ HeardNothing /\ HeardLast /\ DiesUnchanged
      /\ NoNode \notin Node /\ parent \in ParentFunction /\ Rooted(parent)
  BY ObjectNodesAssumption DEF IInv, Typed
<1>1. DOMAIN stack = {}
  <2>1. Len(agenda) = 0
    BY DEF Idle
  <2>2. 1 .. Len(agenda) = {}
    BY <2>1
  <2> QED BY <2>2 DEF stack, Stack
<1> DEFINE G == {m \in Node : life[m] # "created"}
<1>2. ASSUME NEW m \in Node, parent[m] = NoNode PROVE m \in G
  BY <1>0, <1>1, <1>2 DEF Awaited
<1>3. ASSUME NEW m \in Node, parent[m] # NoNode, parent[m] \in G PROVE m \in G
  <2> SUFFICES ASSUME life[m] = "created" PROVE FALSE
    OBVIOUS
  <2>1. PICK p \in Node : p = parent[m] /\ life[p] # "created"
    BY <1>3
  <2>2. life[p] # "finalized"
    BY <1>0, <1>1, <2>1 DEF Awaited
  <2>3. Alive(p) /\ Alive(m) /\ m \in built
    BY <1>0, <1>3, <2>1 DEF LifeOfNodes, Alive
  <2>4. life[p] = "initializing"
    BY <1>0, <2>1, <2>2, <2>3 DEF Typed, Lives, Alive
  <2>5. p \notin built
    BY <1>0, <2>4 DEF LifeOfNodes
  <2> QED BY <1>0, <1>3, <2>1, <2>3, <2>5 DEF LifeOfNodes
<1>4. life[n] # "created"
  <2> HIDE DEF G
  <2>1. Node \subseteq G
    BY <1>0, <1>2, <1>3, ForestInduction
  <2> QED BY <1>0, <2>1 DEF G
<1>5. heard[n] # <<>> /\ ~SaidFarewell(n)
  BY <1>0, <1>1 DEF HeardNothing, DiesUnchanged
<1>6. \A do, m : ~On(do, m)
  BY <1>1 DEF On
<1> QED BY <1>0, <1>4, <1>5, <1>6 DEF HeardLast

\* When all user code has returned, every live instance is finalized, and knows
\* by its hooks whether it has a parent.
THEOREM EveryoneAnnounced ==
  ASSUME Doomed = {}
  PROVE  Spec => []Announced
<1>1. IInv => Announced
  BY IdleAnnounced
<1> QED BY <1>1, AgendaInvariant, PTL

\* No instance dies without its farewell, nor before its disposers have run.
THEOREM EveryoneReleased ==
  ASSUME Doomed = {}
  PROVE  Spec => []Released
<1>1. IInv => Released
  BY DEF IInv, Farewells, Released
<1> QED BY <1>1, AgendaInvariant, PTL

\* The farewell that is next
LEMMA FarewellFacts ==
  ASSUME IInv, top \in DOMAIN stack, stack[top].do = "beforeDestroy", NEW n \in Node, stack[top].node = n
  PROVE  /\ \A k \in Children(n) \cap built : SaidFarewell(k)
         /\ parent[n] # NoNode => parent[n] \in built /\ ~SaidFarewell(parent[n])
         /\ n \in built /\ heard[n] # <<>> /\ ~SaidFarewell(n)
<1>0. /\ Typed /\ OfTheLiving /\ ChildrenCovered /\ ChildrenDone /\ ParentBuilt /\ OnceSaid /\ HeardNothing /\ NothingTaken
      /\ DOMAIN stack = 1 .. top /\ top \in Nat /\ NoNode \notin Node
  BY StackFacts, ObjectNodesAssumption DEF IInv, top
<1>1. Saying(stack[top], n) /\ Firm(stack[top]) /\ n \in About(stack[top]) /\ stack[top].do # "childrenToldOf" /\ stack[top].do \in Taking
  BY DEF Saying, Firm, About, Taking, Telling
<1>2. n \in built /\ Alive(n)
  BY <1>0, <1>1 DEF OfTheLiving
<1>3. ASSUME NEW k \in Children(n) \cap built PROVE SaidFarewell(k)
  <2>1. k \in Node /\ parent[k] = n
    BY <1>0, HolderFacts DEF Children
  <2>2. Done(k) \/ Coming(k, top)
    BY <1>0, <1>1, <2>1 DEF ChildrenCovered
  <2>3. Done(k)
    BY <1>0, <2>2 DEF Coming
  <2> QED BY <2>3 DEF Done
<1>4. ASSUME parent[n] # NoNode PROVE parent[n] \in built /\ ~SaidFarewell(parent[n])
  <2>1. parent[n] \in built
    BY <1>0, <1>2, <1>4 DEF ParentBuilt
  <2>2. ~SaidFarewell(parent[n])
    BY <1>0, <1>1, <1>4 DEF ChildrenDone, Done
  <2> QED BY <2>1, <2>2
<1>5. heard[n] # <<>>
  <2> SUFFICES ASSUME heard[n] = <<>> PROVE FALSE
    OBVIOUS
  <2>1. PICK h \in DOMAIN stack : stack[h].do = "afterCreate" /\ n \in About(stack[h])
    BY <1>0, <1>2 DEF HeardNothing
  <2>2. h < top /\ Firm(stack[h])
    BY <1>0, <2>1 DEF Firm
  <2>3. n \in Above(n)
    BY <1>0, AboveFacts
  <2>4. Precedes(stack[h], stack[top], top = h + 1)
    BY <1>0, <1>1, <2>1, <2>2, <2>3 DEF NothingTaken
  <2> QED BY <2>1, <2>4 DEF Precedes
<1>6. ~SaidFarewell(n)
  BY <1>0, <1>1 DEF OnceSaid
<1> QED BY <1>2, <1>3, <1>4, <1>5, <1>6

\* A node says farewell after its children and before its parent.
THEOREM ChildrenLeaveFirst ==
  ASSUME Doomed = {}
  PROVE  Spec => LeavesFirst
<1> DEFINE A == \A n \in Node : heard'[n] # heard[n] /\ SaidFarewell(n)' =>
                  /\ \A k \in Children(n) \cap built : SaidFarewell(k)
                  /\ parent[n] # NoNode => parent[n] \in built /\ ~SaidFarewell(parent[n])
<1>1. ASSUME IInv, [Next]_vars PROVE A
  <2> SUFFICES ASSUME NEW n \in Node, heard'[n] # heard[n], SaidFarewell(n)'
               PROVE  /\ \A k \in Children(n) \cap built : SaidFarewell(k)
                      /\ parent[n] # NoNode => parent[n] \in built /\ ~SaidFarewell(parent[n])
    OBVIOUS
  <2>1. PICK b : Moves(b)
    BY <1>1, NextMoves
  <2>2. Typed
    BY <1>1 DEF IInv
  <2>3. ASSUME NEW hook \in Hooks, hook # "beforeDestroy", Fires(n, hook) \/ (hook = "afterCreate" /\ Announces(n)) PROVE FALSE
    <3>1. Last(heard'[n]) = hook
      BY <2>2, <2>3, HeardFire DEF Fires, Announces, Hooks
    <3> QED BY <2>3, <3>1 DEF SaidFarewell
  <2>4. Fires(n, "beforeDestroy")
    BY <2>1, <2>3, HeardBy DEF Hooks
  <2>5. top \in DOMAIN stack /\ stack[top].do = "beforeDestroy" /\ stack[top].node = n
    BY <2>2, <2>4, HookOnTop
  <2> QED BY <1>1, <2>5, FarewellFacts
<1>2. IInv /\ [Next]_vars => [A]_vars
  BY <1>1
<1> QED BY <1>2, AgendaInvariant, PTL DEF Spec, LeavesFirst

\* Every node hears its hooks in the order of the protocol.
THEOREM HooksInOrder ==
  ASSUME Doomed = {}
  PROVE  Spec => HeardInOrder
<1>1. Init => Protocol!Init
  BY DEF Init, Protocol!Init
<1>2. ASSUME IInv, [Next]_vars PROVE [Protocol!Next]_heard
  <2>1. PICK b : Moves(b)
    BY <1>2, NextMoves
  <2>2. /\ Typed /\ Creating /\ Attaching /\ Detaching /\ heard \in [Node -> Seq(Hooks)]
    BY <1>2 DEF IInv, Typed
  <2>3. SUFFICES ASSUME NEW n \in Node, NEW hook \in Hooks, Fires(n, hook) \/ (hook = "afterCreate" /\ Announces(n))
                 PROVE  Protocol!Next
    <3>1. heard' = heard \/ \E n \in Node : Announces(n) \/ \E hook \in Hooks : Fires(n, hook)
      BY <2>1, HeardChanges
    <3> QED BY <2>3, <3>1 DEF Hooks
  <2>4. heard' = [heard EXCEPT ![n] = Append(@, hook)] /\ hook \in DOMAIN Protocol!FollowedBy
    BY <2>3 DEF Fires, Announces, Protocol!FollowedBy, Hooks
  <2>5. top \in DOMAIN stack /\ stack[top].do = hook /\ stack[top].node = n
    BY <2>2, <2>3, HookOnTop
  <2>6. heard[n] = <<>> => hook = "afterCreate"
    BY <1>2, <2>2, <2>5, FarewellFacts DEF Attaching, Detaching, Hooks
  <2>7. heard[n] # <<>> => hook \in Protocol!FollowedBy[Last(heard[n])]
    <3> SUFFICES ASSUME heard[n] # <<>> PROVE hook \in Protocol!FollowedBy[Last(heard[n])]
      OBVIOUS
    <3>1. Last(heard[n]) \in Hooks
      BY <2>2 DEF Last
    <3>2. hook # "afterCreate"
      BY <2>2, <2>5 DEF Creating, About
    <3>3. hook = "afterAttach" => Last(heard[n]) \in {"afterCreate", "beforeDetach"}
      BY <2>2, <2>5 DEF Attaching
    <3>4. hook = "beforeDetach" => Last(heard[n]) = "afterAttach"
      BY <2>2, <2>5 DEF Detaching
    <3>5. hook = "beforeDestroy" => Last(heard[n]) # "beforeDestroy"
      BY <1>2, <2>5, FarewellFacts DEF SaidFarewell
    <3> QED BY <3>1, <3>2, <3>3, <3>4, <3>5 DEF Protocol!FollowedBy, Hooks
  <2>8. Protocol!Hears(n, hook)
    BY <2>4, <2>6, <2>7 DEF Protocol!Hears, Last
  <2> QED BY <2>4, <2>8 DEF Protocol!Next
<1> QED BY <1>1, <1>2, AgendaInvariant, PTL DEF Spec, HeardInOrder, Protocol!Spec

-----------------------------------------------------------------------------
(* Snapshots *)

\* A walk that passes n and did not start there came from a child of n.
LEMMA WalkCameFrom ==
  ASSUME NoNode \notin Node, NEW par \in ParentFunction, NEW q \in Node, NEW n \in Ancestors(par, q), n # q
  PROVE  \E k \in Ancestors(par, q) : par[k] = n
<1> SUFFICES ASSUME \A k \in Ancestors(par, q) : par[k] # n
             PROVE  FALSE
  OBVIOUS
<1>1. Ancestors(par, q) \ {n} \in SUBSET Node /\ q \in Ancestors(par, q) \ {n}
  BY AncestorsSelf, AncestorsType
<1>2. \A x \in Ancestors(par, q) \ {n} : par[x] # NoNode => par[x] \in Ancestors(par, q) \ {n}
  BY AncestorsStep
<1>3. Ancestors(par, q) \subseteq Ancestors(par, q) \ {n}
  BY <1>1, <1>2, AncestorsLeast
<1> QED BY <1>3

\* In a finite forest, what holds of a node whenever it holds of its children
\* holds of every node.
LEMMA ChildInduction ==
  ASSUME IsFiniteSet(Node), NoNode \notin Node, NEW par \in ParentFunction, Rooted(par), NEW G,
         \A m \in Node : (\A k \in Node : par[k] = m => k \in G) => m \in G
  PROVE  Node \subseteq G
<1> DEFINE below(m) == {q \in Node : m \in Ancestors(par, q)}
           T == {below(m) : m \in Node \ G}
           R == StrictSubsetOrdering(Node)
<1>1. ASSUME NEW m \in Node PROVE below(m) \in SUBSET Node /\ below(m) \in FiniteSubsetsOf(Node)
  <2>1. below(m) \in SUBSET Node
    OBVIOUS
  <2> QED BY <2>1, FS_Subset DEF FiniteSubsetsOf
<1> SUFFICES ASSUME NEW z \in Node, z \notin G PROVE FALSE
  OBVIOUS
<1>2. T \subseteq FiniteSubsetsOf(Node) /\ below(z) \in T
  BY <1>1
<1>3. IsWellFoundedOn(R, FiniteSubsetsOf(Node))
  BY FS_StrictSubsetOrderingWellFounded
<1>4. \E s \in T : \A t \in T : ~(<<t, s>> \in R)
  <2> HIDE DEF T, R
  <2> QED BY <1>2, <1>3, WFMin
<1>5. PICK m \in Node \ G : \A k \in Node \ G : ~(<<below(k), below(m)>> \in R)
  <2>1. PICK s \in T : \A t \in T : ~(<<t, s>> \in R)
    BY <1>4
  <2>2. PICK m \in Node \ G : s = below(m)
    OBVIOUS
  <2>3. \A k \in Node \ G : below(k) \in T
    OBVIOUS
  <2> HIDE DEF below, R, T
  <2> QED BY <2>1, <2>2, <2>3
<1>6. PICK k \in Node \ G : par[k] = m
  BY <1>5
<1>7. below(k) \subseteq below(m) /\ m \in below(m) /\ m \notin below(k)
  <2>1. Ancestors(par, k) = {k} \cup Ancestors(par, m)
    BY <1>5, <1>6, AncestorsUnfold
  <2>2. m \in Ancestors(par, k) /\ m \in Ancestors(par, m)
    BY <1>5, <2>1, AncestorsSelf
  <2>3. k \notin Ancestors(par, m)
    BY <1>5, <1>6, AncestorsAcyclic
  <2>4. ASSUME NEW q \in Node, k \in Ancestors(par, q) PROVE m \in Ancestors(par, q)
    BY <2>2, <2>4, <1>6, AncestorsTransitive
  <2> QED BY <1>5, <2>2, <2>3, <2>4
<1>8. <<below(k), below(m)>> \in R
  <2>1. below(k) # below(m)
    BY <1>7
  <2>2. below(k) \in SUBSET Node /\ below(m) \in SUBSET Node
    BY <1>1, <1>5, <1>6
  <2> HIDE DEF below
  <2> QED BY <1>7, <2>1, <2>2 DEF StrictSubsetOrdering
<1> QED BY <1>5, <1>6, <1>8

\* The tree of the links that parents have stored
LEMMA OwnerFacts ==
  ASSUME Typed
  PROVE  /\ holder \in ParentFunction /\ Rooted(holder) /\ NoNode \notin Node
         /\ \A n \in Node : Climb(holder, n) = Owners(n) /\ n \in Owners(n) /\ Owners(n) \subseteq Node
         /\ \A n, m \in Node : n \in Below(m) <=> m \in Owners(n)
         /\ \A n \in Node : n \in Below(n) /\ Below(n) \subseteq Node /\ Children(n) \subseteq Node
         /\ \A n, c \in Node : c \in Children(n) <=> holder[c] = n
         /\ \A n \in Node : \A m \in Owners(n) : Owners(m) \subseteq Owners(n)
         /\ \A n \in Node : holder[n] = NoNode => Owners(n) = {n}
         /\ \A n \in Node : holder[n] # NoNode =>
              holder[n] \in Node /\ Owners(n) = {n} \cup Owners(holder[n]) /\ n \notin Owners(holder[n])
<1>1. holder \in ParentFunction /\ Rooted(holder) /\ NoNode \notin Node
      /\ \A n \in Node : Climb(holder, n) = Owners(n)
  BY HolderFacts, ObjectNodesAssumption DEF Owners
<1>2. \A n \in Node : n \in Owners(n) /\ Owners(n) \subseteq Node
  BY AncestorsSelf, AncestorsType DEF Owners
<1>3. \A n, m \in Node : n \in Below(m) <=> m \in Owners(n)
  BY <1>1 DEF Below
<1>4. \A n \in Node : n \in Below(n) /\ Below(n) \subseteq Node /\ Children(n) \subseteq Node
  BY <1>2, <1>3 DEF Below, Children
<1>5. \A n, c \in Node : c \in Children(n) <=> holder[c] = n
  BY DEF Children
<1>6. \A n \in Node : \A m \in Owners(n) : Owners(m) \subseteq Owners(n)
  BY <1>1, AncestorsTransitive DEF Owners
<1>7. \A n \in Node : holder[n] = NoNode => Owners(n) = {n}
  BY AncestorsOfRoot DEF Owners
<1>8. ASSUME NEW n \in Node, holder[n] # NoNode
      PROVE  holder[n] \in Node /\ Owners(n) = {n} \cup Owners(holder[n]) /\ n \notin Owners(holder[n])
  BY <1>1, <1>8, AncestorsUnfold, AncestorsAcyclic DEF Owners, ParentFunction
<1> QED BY <1>1, <1>2, <1>3, <1>4, <1>5, <1>6, <1>7, <1>8

\* A dead node is in no tree: what is above or below a live node is alive.
LEMMA OwnersLive ==
  ASSUME Typed, LifeOfNodes, NEW n \in Node
  PROVE  /\ Alive(n) => (\A m \in Owners(n) : Alive(m)) /\ (\A m \in Below(n) : Alive(m))
         /\ ~Alive(n) => Owners(n) = {n} /\ Below(n) = {n} /\ Children(n) = {}
         /\ \A c \in Children(n) : Alive(c) /\ Alive(n)
<1>0. \A m \in Node : holder[m] = IF On("store", m) THEN NoNode ELSE parent[m]
  BY HolderFacts
<1>1. \A m \in Node : ~Alive(m) => holder[m] = NoNode /\ \A c \in Node : holder[c] # m
  BY <1>0, ObjectNodesAssumption DEF LifeOfNodes
<1>2. \A m \in Node : ~Alive(m) => Owners(m) = {m}
  BY <1>1, OwnerFacts
<1>3. ASSUME NEW m \in Node, NEW a \in Owners(m), ~Alive(a)
      PROVE  a = m
  <2> SUFFICES ASSUME a # m PROVE FALSE
    OBVIOUS
  <2>1. \E k \in Ancestors(holder, m) : holder[k] = a
    BY <1>3, OwnerFacts, WalkCameFrom DEF Owners
  <2>2. Ancestors(holder, m) \subseteq Node
    BY AncestorsType
  <2> QED BY <1>1, <1>3, <2>1, <2>2, OwnerFacts
<1>4. Alive(n) => (\A m \in Owners(n) : Alive(m)) /\ (\A m \in Below(n) : Alive(m))
  BY <1>2, <1>3, OwnerFacts
<1>5. ~Alive(n) => Owners(n) = {n} /\ Below(n) = {n} /\ Children(n) = {}
  BY <1>1, <1>2, <1>3, OwnerFacts
<1>6. \A c \in Children(n) : Alive(c) /\ Alive(n)
  BY <1>1, OwnerFacts
<1> QED BY <1>4, <1>5, <1>6

\* The latest state is what the node stores, and that of its children.
LEMMA LatestUnfolds ==
  ASSUME Typed, NEW n \in Node
  PROVE  Latest(n) = {<<n, value[n]>>} \cup UNION {Latest(k) : k \in Children(n)}
<1>1. \A k \in Children(n) : k \in Node /\ Below(k) \subseteq Below(n)
  <2> SUFFICES ASSUME NEW k \in Children(n), NEW m \in Below(k)
               PROVE  k \in Node /\ m \in Below(n)
    BY OwnerFacts
  <2>1. k \in Node /\ m \in Node /\ holder[k] = n /\ n # NoNode
    BY OwnerFacts
  <2>2. n \in Owners(k) /\ k \in Owners(m)
    BY <2>1, OwnerFacts
  <2> QED BY <2>1, <2>2, OwnerFacts
<1>2. ASSUME NEW m \in Below(n), m # n
      PROVE  \E k \in Children(n) : m \in Below(k)
  <2>1. m \in Node /\ n \in Ancestors(holder, m)
    BY OwnerFacts DEF Owners
  <2>2. PICK k \in Ancestors(holder, m) : holder[k] = n
    BY <1>2, <2>1, OwnerFacts, WalkCameFrom
  <2>3. k \in Node /\ k \in Owners(m)
    BY <2>1, OwnerFacts DEF Owners
  <2> QED BY <2>1, <2>2, <2>3, OwnerFacts
<1>3. n \in Below(n)
  BY OwnerFacts
<1>4. Latest(n) \subseteq {<<n, value[n]>>} \cup UNION {Latest(k) : k \in Children(n)}
  BY <1>2 DEF Latest
<1>5. {<<n, value[n]>>} \cup UNION {Latest(k) : k \in Children(n)} \subseteq Latest(n)
  BY <1>1, <1>3 DEF Latest
<1> QED BY <1>4, <1>5

\* However a snapshot is put together, from memos, from snapshots asked for
\* earlier and from what the nodes store, it is the current one.
LEMMA ValueIs ==
  ASSUME Typed, LifeOfNodes, Snapshots, NEW made \in SUBSET Node, built \subseteq made,
         NEW n \in Node, NEW b \in BOOLEAN
  PROVE  Value(made, n, b) = Current(n)
<1> DEFINE Seen(f, m, c) ==
             IF c /\ memo[m] # Unread THEN memo[m].seen
             ELSE IF life[m] = "dead" THEN frozen[m]
             ELSE IF m \notin made /\ initial[m] # Unread THEN initial[m]
             ELSE {<<m, value[m]>>} \cup UNION {f[<<k, m \in made>>] : k \in Children(m)}
           Sees(f) == f = [q \in Node \X BOOLEAN |-> Seen(f, q[1], q[2])]
           current == [q \in Node \X BOOLEAN |-> Current(q[1])]
<1>0. built \subseteq Node
  BY DEF Typed
<1>1. ASSUME NEW m \in Node, NEW f, NEW c \in BOOLEAN,
             \A k \in Children(m) : f[<<k, m \in made>>] = Current(k)
      PROVE  Current(m) = Seen(f, m, c)
  <2>1. CASE memo[m] # Unread /\ c
    BY <2>1 DEF Snapshots, MemosCurrent
  <2>2. CASE ~Alive(m)
    BY <2>2 DEF Snapshots, MemosCurrent, Current, Alive
  <2>3. CASE Alive(m) /\ m \notin made /\ initial[m] # Unread
    BY <2>1, <2>3 DEF Snapshots, InitialsCurrent, Current, Alive
  <2>4. CASE Alive(m) /\ ~(m \notin made /\ initial[m] # Unread)
    <3>1. \A k \in Children(m) : f[<<k, m \in made>>] = Latest(k)
      BY <1>1, OwnersLive DEF Current
    <3>2. Current(m) = {<<m, value[m]>>} \cup UNION {f[<<k, m \in made>>] : k \in Children(m)}
      BY <2>4, <3>1, LatestUnfolds DEF Current
    <3> QED BY <2>1, <2>4, <3>2 DEF Alive
  <2> QED BY <2>2, <2>3, <2>4
<1> DEFINE see == CHOOSE f : Sees(f)
<1>2. Value(made, n, b) = see[<<n, b>>]
  BY DEF Value
<1> HIDE DEF Seen
<1>3. Sees(current)
  <2>1. \A m \in Node : \A k \in Children(m) : current[<<k, m \in made>>] = Current(k)
    <3>1. \A k \in Node, c \in BOOLEAN : current[<<k, c>>] = Current(k)
      OBVIOUS
    <3> HIDE DEF current
    <3> SUFFICES ASSUME NEW m \in Node, NEW k \in Children(m) PROVE current[<<k, m \in made>>] = Current(k)
      OBVIOUS
    <3>2. k \in Node /\ (m \in made) \in BOOLEAN
      BY OwnerFacts
    <3> QED BY <3>1, <3>2, Zenon
  <2> HIDE DEF current
  <2>2. \A q \in Node \X BOOLEAN : Current(q[1]) = Seen(current, q[1], q[2])
    BY <1>1, <2>1
  <2> QED BY <2>2 DEF current
<1>4. Sees(see)
  <2> HIDE DEF current, Sees
  <2> QED BY <1>3
<1> HIDE DEF see
<1> DEFINE G == {m \in Node : \A c \in BOOLEAN : see[<<m, c>>] = Current(m)}
<1>5. ASSUME NEW m \in Node, \A k \in Node : holder[k] = m => k \in G
      PROVE  m \in G
  <2>1. \A k \in Children(m) : see[<<k, m \in made>>] = Current(k)
    <3> SUFFICES ASSUME NEW k \in Children(m) PROVE see[<<k, m \in made>>] = Current(k)
      OBVIOUS
    <3>1. k \in G /\ (m \in made) \in BOOLEAN
      BY <1>5, OwnerFacts
    <3> QED BY <3>1, Zenon
  <2>2. ASSUME NEW c \in BOOLEAN PROVE see[<<m, c>>] = Current(m)
    <3>1. see[<<m, c>>] = Seen(see, m, c)
      BY <1>4
    <3> QED BY <1>1, <2>1, <3>1
  <2> QED BY <2>2
<1>6. n \in G
  <2>1. IsFiniteSet(Node)
    BY ObjectNodesAssumption
  <2> HIDE DEF G
  <2>2. Node \subseteq G
    BY <1>5, <2>1, OwnerFacts, ChildInduction
  <2> QED BY <2>2
<1> QED BY <1>2, <1>6

\* Snapshots are made of the nodes and what they store.
LEMMA CurrentTypes ==
  ASSUME SnapshotTypes, NEW n \in Node
  PROVE  /\ Current(n) \in Snapshot /\ Current(n) # Unread
         /\ \A t \in BOOLEAN : /\ [seen |-> Current(n), tracked |-> t] \in Memo
                               /\ [seen |-> Current(n), tracked |-> t] # Unread
<1>1. Latest(n) \in Snapshot
  BY DEF Latest, Below, Snapshot, SnapshotTypes
<1>2. Current(n) \in Snapshot
  BY <1>1 DEF Current, SnapshotTypes
<1>3. \A t \in BOOLEAN : [seen |-> Current(n), tracked |-> t] \in Memo
  BY <1>2 DEF Memo
<1>4. \A s \in Snapshot : Unread # s
  BY ObjectNodesAssumption
<1>5. \A m \in Memo : Unread # m
  BY ObjectNodesAssumption
<1> QED BY <1>2, <1>3, <1>4, <1>5

\* The memos that a change of n drops, in the tree of the owners
LEMMA OutdatedIs ==
  ASSUME Typed, NEW n \in Node
  PROVE  Outdated(n) = {m \in Owners(n) : \A y \in Owners(n) :
                          m \in Owners(y) => memo[y] # Unread /\ memo[y].tracked}
<1>1. Climb(holder, n) = Owners(n) /\ Owners(n) \subseteq Node /\ \A y \in Owners(n) : Climb(holder, y) = Owners(y)
  BY OwnerFacts
<1> QED BY <1>1 DEF Outdated

\* Every memo above a live node is dropped with it, unless an earlier snapshot
\* stands between them.
LEMMA OutdatedAll ==
  ASSUME Typed, LifeOfNodes, Snapshots, NEW n \in Node, Alive(n),
         \A a \in Owners(n) \ built : initial[a] = Unread
  PROVE  \A m \in Owners(n) : memo[m] # Unread => m \in Outdated(n)
<1> SUFFICES ASSUME NEW m \in Owners(n), memo[m] # Unread,
                    NEW y \in Owners(n), m \in Owners(y)
             PROVE  memo[y] # Unread /\ memo[y].tracked
  BY OutdatedIs
<1>0. /\ holder \in ParentFunction /\ m \in Node /\ y \in Node
      /\ \A z \in Owners(n) : z \in Node /\ Alive(z)
      /\ \A z \in Owners(n) : memo[z] # Unread => z \in built
  BY OwnerFacts, OwnersLive DEF Snapshots, MemosOfUnbuilt
<1>1. memo[y] # Unread
  <2> SUFFICES ASSUME memo[y] = Unread PROVE FALSE
    OBVIOUS
  <2> DEFINE S == {z \in Owners(y) : memo[z] = Unread} \cup {z \in Owners(y) : m \notin Owners(z)}
  <2>0. Owners(y) \subseteq Owners(n) /\ y \in Owners(y) /\ Owners(y) \subseteq Node
    BY <1>0, OwnerFacts
  <2>1. ASSUME NEW z \in S, holder[z] # NoNode PROVE holder[z] \in S
    <3>0. z \in Owners(n) /\ z \in Node /\ holder[z] \in Owners(y) /\ holder[z] \in Node
          /\ holder[z] \in Owners(n) /\ Owners(z) = {z} \cup Owners(holder[z]) /\ z \in Children(holder[z])
      BY <1>0, <2>0, <2>1, OwnerFacts, AncestorsStep DEF Owners
    <3>1. CASE memo[z] = Unread
      <4>1. memo[holder[z]] # Unread => holder[z] \in built /\ Alive(holder[z])
        BY <1>0, <3>0
      <4> QED BY <3>0, <3>1, <4>1 DEF Snapshots, MemosTracked
    <3>2. CASE m \notin Owners(z)
      BY <3>0, <3>2
    <3> QED BY <2>1, <3>1, <3>2
  <2>2. Owners(y) \subseteq S
    <3>1. S \in SUBSET Node /\ y \in S
      BY <2>0
    <3> HIDE DEF S
    <3> QED BY <1>0, <2>1, <3>1, AncestorsLeast DEF Owners
  <2>3. m \in Owners(m)
    BY <1>0, OwnerFacts
  <2> QED BY <2>2, <2>3
<1> QED BY <1>0, <1>1 DEF Snapshots, MemosTracked

\* Below a memo, the snapshots of nodes without instance have been asked for.
LEMMA MemoBelow ==
  ASSUME Typed, LifeOfNodes, Snapshots, NEW y \in Node, Alive(y), memo[y] # Unread,
         NEW q \in Below(y) \ built
  PROVE  initial[q] # Unread
<1> SUFFICES ASSUME initial[q] = Unread PROVE FALSE
  OBVIOUS
<1>0. /\ holder \in ParentFunction /\ q \in Node /\ y \in Owners(q) /\ q \in Owners(q) /\ Owners(q) \subseteq Node
      /\ Alive(q) /\ \A z \in Owners(q) : Alive(z)
  BY OwnerFacts, OwnersLive
<1>1. \A z \in Owners(q) \ built : initial[z] = Unread
  <2> SUFFICES ASSUME NEW z \in Owners(q) \ built, initial[z] # Unread PROVE FALSE
    OBVIOUS
  <2>1. q \in Below(z)
    BY <1>0, OwnerFacts
  <2> QED BY <1>0, <2>1 DEF Snapshots, InitialsBelow
<1>2. y \in Outdated(q)
  BY <1>0, <1>1, OutdatedAll
<1>3. memo[q] # Unread
  BY <1>0, <1>2, OutdatedIs
<1> QED BY <1>0, <1>3 DEF Snapshots, MemosOfUnbuilt

\* What is memoized when the computeds of some nodes run
LEMMA MemoizedIs ==
  ASSUME Typed, LifeOfNodes, Snapshots, NEW made \in SUBSET Node, built \subseteq made,
         NEW start \in SUBSET Node
  PROVE  /\ \A q \in Node : Memoized(made, start)[q] =
              IF q \in Computed(made, start)
              THEN [seen |-> Current(q), tracked |-> q \in made /\ Alive(q)] ELSE memo[q]
         /\ Memoized(made, start) \in [Node -> Memo \cup {Unread}]
         /\ Memoized(made, start) = [q \in Node |-> Memoized(made, start)[q]]
         /\ \A q \in Node : Memoized(made, start)[q] # Unread =>
              Memoized(made, start)[q].seen = Current(q)
         /\ \A q \in Node : memo[q] # Unread => Memoized(made, start)[q] # Unread
<1>1. ASSUME NEW q \in Node
      PROVE  Memoized(made, start)[q] =
               IF q \in Computed(made, start)
               THEN [seen |-> Current(q), tracked |-> q \in made /\ Alive(q)] ELSE memo[q]
  <2>1. (q \notin start) \in BOOLEAN
    OBVIOUS
  <2>2. \A b \in BOOLEAN : Value(made, q, b) = Current(q)
    BY ValueIs
  <2>3. Value(made, q, q \notin start) = Current(q)
    BY <2>1, <2>2, Zenon
  <2> QED BY <2>3 DEF Memoized
<1>2. \A q \in Node : Memoized(made, start)[q] \in Memo \cup {Unread}
  BY <1>1, CurrentTypes DEF Snapshots, SnapshotTypes
<1>3. Memoized(made, start) = [q \in Node |-> Memoized(made, start)[q]]
  BY DEF Memoized
<1>4. Memoized(made, start) \in [Node -> Memo \cup {Unread}]
  BY <1>2, <1>3
<1>5. \A q \in Node : Memoized(made, start)[q] # Unread => Memoized(made, start)[q].seen = Current(q)
  <2> SUFFICES ASSUME NEW q \in Node, Memoized(made, start)[q] # Unread
               PROVE  Memoized(made, start)[q].seen = Current(q)
    OBVIOUS
  <2>1. CASE q \in Computed(made, start)
    <3>1. Memoized(made, start)[q] = [seen |-> Current(q), tracked |-> q \in made /\ Alive(q)]
      BY <1>1, <2>1
    <3> QED BY <3>1
  <2>2. CASE q \notin Computed(made, start)
    <3>1. Memoized(made, start)[q] = memo[q]
      BY <1>1, <2>2
    <3> QED BY <3>1 DEF Snapshots, MemosCurrent
  <2> QED BY <2>1, <2>2
<1>6. \A q \in Node : memo[q] # Unread => Memoized(made, start)[q] # Unread
  BY <1>1, CurrentTypes DEF Snapshots
<1> QED BY <1>1, <1>3, <1>4, <1>5, <1>6

\* Which computeds run
LEMMA ComputedIs ==
  ASSUME Typed, NEW made, NEW start \in SUBSET Node
  PROVE  /\ start \subseteq Computed(made, start)
         /\ \A q \in Computed(made, start) :
              /\ q \in Node /\ (q \in start \/ memo[q] = Unread)
              /\ \E m \in start : /\ q \in Below(m) /\ m \in Owners(q)
                                  /\ \A y \in (Owners(q) \cap Below(m)) \ {q} : y \in made /\ (y \in start \/ memo[y] = Unread)
         /\ \A q \in Computed(made, start) : \A c \in Children(q) :
              q \in made /\ memo[c] = Unread => c \in Computed(made, start)
<1>0. \A q \in Node : Climb(holder, q) = Owners(q)
  BY OwnerFacts
<1>1. \A q \in Node : q \in Computed(made, start) <=>
        /\ q \in start \/ memo[q] = Unread
        /\ \E m \in start : /\ m \in Owners(q)
                            /\ \A y \in (Owners(q) \cap Below(m)) \ {q} : y \in made /\ (y \in start \/ memo[y] = Unread)
  BY <1>0 DEF Computed
<1>2. \A m \in Node : Owners(m) \cap Below(m) = {m}
  <2> SUFFICES ASSUME NEW m \in Node, NEW y \in Owners(m), m \in Owners(y) PROVE y = m
    BY OwnerFacts
  <2> QED BY OwnerFacts, AncestorsAntisymmetric DEF Owners
<1>3. start \subseteq Computed(made, start)
  BY <1>1, <1>2, OwnerFacts
<1>4. Computed(made, start) \subseteq Node
  BY DEF Computed
<1>5. ASSUME NEW q \in Computed(made, start), NEW c \in Children(q), q \in made, memo[c] = Unread
      PROVE  c \in Computed(made, start)
  <2>1. q \in Node /\ c \in Node /\ holder[c] = q /\ q # NoNode
    BY <1>4, OwnerFacts
  <2>2. Owners(c) = {c} \cup Owners(q)
    BY <2>1, OwnerFacts
  <2>3. PICK m \in start : m \in Owners(q) /\ \A y \in (Owners(q) \cap Below(m)) \ {q} : y \in made /\ (y \in start \/ memo[y] = Unread)
    BY <1>1, <2>1
  <2>4. q \in start \/ memo[q] = Unread
    BY <1>1, <2>1
  <2>5. \A y \in (Owners(c) \cap Below(m)) \ {c} : y \in made /\ (y \in start \/ memo[y] = Unread)
    BY <1>5, <2>2, <2>3, <2>4
  <2> QED BY <1>1, <1>5, <2>1, <2>2, <2>3, <2>5
<1> QED BY <1>1, <1>3, <1>4, <1>5, OwnerFacts

\* Such a step leaves the snapshots what they should be.
LEMMA DropsStays ==
  ASSUME Typed, LifeOfNodes, Snapshots, SnapshotTypes', NEW A, NEW D, Drops(A, D)
  PROVE  Snapshots'
<1>0. /\ built' = built /\ initial' = initial /\ built \subseteq Node
      /\ SnapshotTypes /\ MemosCurrent /\ InitialsCurrent /\ MemosTracked /\ MemosOfUnbuilt /\ InitialsBelow
      /\ \A n \in Node : Children(n) \subseteq Node
  BY OwnerFacts DEF Drops, Snapshots, Typed
<1>1. \A n \in Node : Alive(n)' => Alive(n) /\ n \notin D
  BY DEF Drops
<1>2. \A n \in Node : Alive(n)' /\ memo'[n] # Unread => memo'[n] = memo[n] /\ n \notin A
  BY <1>1 DEF Drops
<1>3. \A n \in Node : Alive(n)' /\ n \notin A =>
        /\ Latest(n)' = Latest(n) /\ Below(n)' \subseteq Below(n) /\ Children(n)' \subseteq Children(n) \ D
  BY <1>1 DEF Drops
<1>4. MemosCurrent'
  <2> SUFFICES ASSUME NEW n \in Node, memo'[n] # Unread PROVE memo'[n].seen = Current(n)'
    BY DEF MemosCurrent
  <2>1. CASE Alive(n)'
    BY <1>0, <1>1, <1>2, <1>3, <2>1 DEF MemosCurrent, Current
  <2>2. CASE ~Alive(n)' /\ n \in D
    BY <2>2 DEF Drops, Current
  <2>3. CASE ~Alive(n)' /\ n \notin D
    <3>1. ~Alive(n) /\ frozen'[n] = frozen[n] /\ memo'[n] = memo[n]
      BY <2>3 DEF Drops
    <3> QED BY <1>0, <2>3, <3>1 DEF MemosCurrent, Current
  <2> QED BY <2>1, <2>2, <2>3
<1>5. \A n \in Node \ built : Alive(n)' /\ initial[n] # Unread => n \notin A
  BY DEF Drops
<1>6. InitialsCurrent'
  BY <1>0, <1>1, <1>3, <1>5 DEF InitialsCurrent
<1>7. MemosTracked'
  <2> SUFFICES ASSUME NEW n \in built, Alive(n)', memo'[n] # Unread
               PROVE  memo'[n].tracked /\ \A c \in Children(n)' : memo'[c] # Unread
    BY <1>0 DEF MemosTracked
  <2>1. n \in Node /\ Alive(n) /\ memo'[n] = memo[n] /\ n \notin A /\ Children(n)' \subseteq Children(n) \ D
    BY <1>0, <1>1, <1>2, <1>3
  <2>2. memo[n].tracked /\ \A c \in Children(n) : memo[c] # Unread
    BY <1>0, <2>1 DEF MemosTracked
  <2>3. ASSUME NEW c \in Children(n) \ D PROVE memo'[c] # Unread
    <3>1. c \in Node /\ Alive(c) /\ c \notin A
      BY <2>1, OwnersLive, <1>0 DEF Drops
    <3> QED BY <2>2, <2>3, <3>1 DEF Drops
  <2> QED BY <2>1, <2>2, <2>3
<1>8. MemosOfUnbuilt'
  BY <1>0, <1>1, <1>2 DEF MemosOfUnbuilt
<1>9. InitialsBelow'
  <2> SUFFICES ASSUME NEW n \in Node \ built, Alive(n)', initial[n] # Unread, NEW m \in Below(n)' \ built
               PROVE  initial[m] # Unread
    BY <1>0 DEF InitialsBelow
  <2>1. m \in Below(n) /\ Alive(n)
    BY <1>1, <1>3, <1>5
  <2> QED BY <1>0, <2>1 DEF InitialsBelow
<1> QED BY <1>4, <1>6, <1>7, <1>8, <1>9 DEF Snapshots

\* Such a step leaves the snapshots what they should be.
LEMMA MemoizesStays ==
  ASSUME Typed, LifeOfNodes, Snapshots, NEW made, NEW start, NEW asked, Memoizes(made, start, asked)
  PROVE  Snapshots'
<1> DEFINE M == Memoized(made, start)
<1>0. /\ built' = made /\ built \subseteq made /\ made \subseteq Node /\ memo' = M /\ start \subseteq Node
      /\ SnapshotTypes /\ MemosCurrent /\ InitialsCurrent /\ MemosTracked /\ MemosOfUnbuilt /\ InitialsBelow
      /\ \A n \in Node : Children(n) \subseteq Node
      /\ \A n \in Node : Alive(n)' <=> Alive(n)
  BY OwnerFacts DEF Memoizes, Snapshots
<1>1. /\ \A q \in Node : M[q] = IF q \in Computed(made, start)
                                THEN [seen |-> Current(q), tracked |-> q \in made /\ Alive(q)] ELSE memo[q]
      /\ M \in [Node -> Memo \cup {Unread}]
      /\ \A q \in Node : M[q] # Unread => M[q].seen = Current(q)
      /\ \A q \in Node : memo[q] # Unread => M[q] # Unread
  BY <1>0, MemoizedIs
<1> HIDE DEF M
<1>2. \A n : Below(n)' = Below(n) /\ Children(n)' = Children(n) /\ Latest(n)' = Latest(n)
  BY DEF Memoizes, Below, Children, Latest
<1>3. \A n \in Node : Current(n)' = Current(n)
  BY <1>0, <1>2 DEF Current, Memoizes
<1>4. \A n \in Node : /\ n \in asked => initial'[n] = Current(n)
                      /\ n \notin asked => initial'[n] = initial[n]
                      /\ Current(n) \in Snapshot /\ Current(n) # Unread
  BY <1>0, CurrentTypes DEF Memoizes
<1>5. SnapshotTypes'
  <2>1. initial' \in [Node -> Snapshot \cup {Unread}]
    <3>1. initial' = [n \in Node |-> IF n \in asked THEN Current(n) ELSE initial[n]]
      BY DEF Memoizes
    <3>2. initial \in [Node -> Snapshot \cup {Unread}]
      BY <1>0 DEF SnapshotTypes
    <3> QED BY <1>4, <3>1, <3>2
  <2>2. value' = value /\ frozen' = frozen
    BY DEF Memoizes
  <2> QED BY <1>0, <1>1, <2>1, <2>2 DEF SnapshotTypes
<1>6. MemosCurrent'
  BY <1>0, <1>1, <1>3 DEF MemosCurrent
<1>7. InitialsCurrent'
  <2> SUFFICES ASSUME NEW n \in Node \ made, Alive(n), initial'[n] # Unread PROVE initial'[n] = Latest(n)
    BY <1>0, <1>2 DEF InitialsCurrent
  <2>1. n \notin asked => initial[n] = Latest(n)
    BY <1>0, <1>4 DEF InitialsCurrent
  <2> QED BY <1>4, <2>1 DEF Current
<1>8. MemosTracked'
  <2> SUFFICES ASSUME NEW n \in made, Alive(n), M[n] # Unread
               PROVE  M[n].tracked /\ \A c \in Children(n) : M[c] # Unread
    BY <1>0, <1>2 DEF MemosTracked
  <2>0. n \in Node /\ Children(n) \subseteq Node
    BY <1>0
  <2>1. CASE n \in Computed(made, start)
    <3>1. M[n].tracked
      <4>1. M[n] = [seen |-> Current(n), tracked |-> n \in made /\ Alive(n)]
        BY <1>1, <2>0, <2>1
      <4>2. M[n].tracked = (n \in made /\ Alive(n))
        BY <4>1
      <4> QED BY <4>2, Zenon
    <3>2. ASSUME NEW c \in Children(n) PROVE M[c] # Unread
      <4>1. CASE memo[c] # Unread
        BY <1>1, <2>0, <4>1
      <4>2. CASE memo[c] = Unread
        <5>1. c \in Computed(made, start)
          BY <1>0, <2>0, <2>1, <4>2, ComputedIs
        <5> QED BY <1>0, <1>1, <2>0, <5>1, CurrentTypes
      <4> QED BY <4>1, <4>2
    <3> QED BY <3>1, <3>2
  <2>2. CASE n \notin Computed(made, start)
    <3>1. M[n] = memo[n]
      BY <1>1, <2>0, <2>2
    <3>2. n \notin start
      BY <1>0, <2>2, ComputedIs
    <3>3. n \in built
      BY <3>1, <3>2 DEF Memoizes
    <3> QED BY <1>0, <1>1, <2>0, <3>1, <3>3 DEF MemosTracked
  <2> QED BY <2>1, <2>2
<1>9. MemosOfUnbuilt'
  <2> SUFFICES ASSUME NEW n \in Node \ made, Alive(n), M[n] # Unread PROVE initial'[n] # Unread
    BY <1>0 DEF MemosOfUnbuilt
  <2>1. CASE n \in Computed(made, start)
    BY <2>1 DEF Memoizes
  <2>2. CASE n \notin Computed(made, start)
    <3>1. initial[n] # Unread
      BY <1>0, <1>1, <2>2 DEF MemosOfUnbuilt
    <3> QED BY <1>4, <3>1
  <2> QED BY <2>1, <2>2
<1>10. InitialsBelow'
  <2> SUFFICES ASSUME NEW n \in Node \ made, Alive(n), initial'[n] # Unread, NEW m \in Below(n) \ made
               PROVE  initial'[m] # Unread
    BY <1>0, <1>2 DEF InitialsBelow
  <2>0. m \in Node /\ n \notin built /\ m \notin built
    BY <1>0, OwnerFacts
  <2>1. CASE n \in asked
    BY <2>0, <2>1 DEF Memoizes
  <2>2. CASE n \notin asked
    <3>1. initial[m] # Unread
      BY <1>0, <1>4, <2>0, <2>2 DEF InitialsBelow
    <3> QED BY <1>4, <2>0, <3>1
  <2> QED BY <2>1, <2>2
<1> QED BY <1>5, <1>6, <1>7, <1>8, <1>9, <1>10 DEF Snapshots

\* The tree of the stored links after a step
LEMMA OwnersNow ==
  Typed' =>
    /\ holder' \in ParentFunction /\ Rooted(holder')
    /\ \A m \in Node : holder'[m] = IF On("store", m)' THEN NoNode ELSE parent'[m]
    /\ \A m \in Node : Owners(m)' = Ancestors(holder', m)
    /\ \A n, m \in Node : n \in Below(m)' <=> m \in Ancestors(holder', n)
    /\ \A n, c \in Node : c \in Children(n)' <=> holder'[c] = n
    /\ \A n \in Node : Below(n)' \subseteq Node /\ Children(n)' \subseteq Node
<1> DEFINE Facts ==
             /\ holder \in ParentFunction /\ Rooted(holder)
             /\ \A m \in Node : holder[m] = IF On("store", m) THEN NoNode ELSE parent[m]
             /\ \A n, m \in Node : n \in Below(m) <=> m \in Owners(n)
             /\ \A n, c \in Node : c \in Children(n) <=> holder[c] = n
             /\ \A n \in Node : Below(n) \subseteq Node /\ Children(n) \subseteq Node
<1>1. Typed => Facts
  BY HolderFacts, OwnerFacts
<1> HIDE DEF Facts
<1>2. Typed' => Facts'
  BY <1>1, PTL
<1> QED BY <1>2 DEF Facts, Owners

\* Nothing happens to the snapshots when nothing happens to what they are made of.
LEMMA QuietStays ==
  ASSUME Typed, LifeOfNodes, Snapshots, UNCHANGED <<built, value, initial, memo, frozen>>,
         holder' = holder, \A n \in Node : Alive(n)' <=> Alive(n)
  PROVE  Snapshots'
<1>1. \A n : Below(n)' = Below(n) /\ Children(n)' = Children(n) /\ Latest(n)' = Latest(n)
  BY DEF Below, Children, Latest
<1>2. Drops({}, {})
  BY <1>1 DEF Drops
<1>3. SnapshotTypes'
  BY DEF Snapshots, SnapshotTypes
<1> QED BY <1>2, <1>3, DropsStays

\* The memos that a change of a live node drops
LEMMA DroppedAre ==
  ASSUME Typed, LifeOfNodes, Snapshots, NEW p \in Node, Alive(p),
         \A a \in Owners(p) \ built : initial[a] = Unread
  PROVE  /\ \A n \in Node : WithoutOutdated(p)[n] = IF n \in Owners(p) THEN Unread ELSE memo[n]
         /\ WithoutOutdated(p) \in [Node -> Memo \cup {Unread}]
         /\ Outdated(p) \subseteq Owners(p) /\ \A n \in Owners(p) : n \notin Outdated(p) => memo[n] = Unread
<1>1. \A m \in Owners(p) : memo[m] # Unread => m \in Outdated(p)
  BY OutdatedAll
<1>2. Outdated(p) \subseteq Owners(p) /\ Owners(p) \subseteq Node
  BY OutdatedIs, OwnerFacts
<1>3. \A n \in Node : WithoutOutdated(p)[n] = IF n \in Owners(p) THEN Unread ELSE memo[n]
  BY <1>1, <1>2 DEF WithoutOutdated
<1>4. WithoutOutdated(p) \in [Node -> Memo \cup {Unread}]
  BY DEF WithoutOutdated, Snapshots, SnapshotTypes
<1> QED BY <1>1, <1>2, <1>3, <1>4

\* The memos of its owners are dropped; the others hold nothing of it.
LEMMA TouchesStays ==
  ASSUME Typed, Typed', LifeOfNodes, Snapshots, NEW p \in Node, Alive(p),
         \A a \in Owners(p) \ built : initial[a] = Unread, Touches(p)
  PROVE  Snapshots'
<1> DEFINE A == Owners(p)
<1>0. A \subseteq Node /\ NoNode \notin Node
  BY OwnerFacts
<1>1. memo' \in [Node -> Memo \cup {Unread}] /\ \A n \in Node : memo'[n] = IF n \in A THEN Unread ELSE memo[n]
  BY DroppedAre DEF Touches
<1>2. ASSUME NEW n \in Node \ A
      PROVE  Latest(n)' = Latest(n) /\ Below(n)' = Below(n) /\ Children(n)' \subseteq Children(n)
  <2>1. Below(n)' = Below(n)
    <3>1. \A q \in Node : n \in Ancestors(holder', q) <=> n \in Owners(q)
      BY DEF Touches
    <3>2. \A q \in Node : q \in Below(n)' <=> n \in Ancestors(holder', q)
      BY OwnersNow
    <3>3. \A q \in Node : q \in Below(n) <=> n \in Owners(q)
      BY OwnerFacts
    <3>4. Below(n) \subseteq Node /\ Below(n)' \subseteq Node
      BY OwnersNow, OwnerFacts
    <3> QED BY <3>1, <3>2, <3>3, <3>4
  <2>2. Children(n)' \subseteq Children(n)
    BY <1>0, OwnersNow, OwnerFacts DEF Touches
  <2>3. p \notin Below(n) /\ Below(n) \subseteq Node
    BY OwnerFacts
  <2>4. Latest(n)' = Latest(n)
    BY <2>1, <2>3 DEF Latest, Touches
  <2> QED BY <2>1, <2>2, <2>4
<1>3. \A c \in A, n \in Node : c \in Children(n) => n \in A
  <2> SUFFICES ASSUME NEW c \in A, NEW n \in Node, holder[c] = n PROVE n \in A
    BY <1>0, OwnerFacts
  <2> QED BY <1>0, OwnerFacts, AncestorsStep DEF Owners
<1>4. Drops(A, {})
  <2> HIDE DEF A
  <2> QED BY <1>0, <1>1, <1>2, <1>3 DEF Drops, Touches, A
<1>5. SnapshotTypes'
  BY <1>1 DEF Touches, Snapshots, SnapshotTypes
<1> QED BY <1>4, <1>5, DropsStays

\* The step that is next changes no link that is stored.
Settled == top > 0 => stack[top].do \notin {"store", "leave", "die"}

\* User code, and steps of other kinds
LEMMA WhoSettles ==
  ASSUME Typed
  PROVE  /\ UserTurn => Settled
         /\ \A do, n : Does(do, n) /\ do \notin {"store", "leave", "die"} => Settled
<1>1. UserTurn => Settled
  BY TurnTop DEF UserOnTop, Settled
<1>2. ASSUME NEW do, NEW n, Does(do, n), do \notin {"store", "leave", "die"} PROVE Settled
  BY <1>2, DoesTop DEF OnTop, Is, Settled
<1> QED BY <1>1, <1>2

\* What is being stored stays so, and what is attached is.
LEMMA StoresSettled ==
  ASSUME IInv, NEW b, Moves(b), Settled, NEW m \in Node
  PROVE  On("store", m)' <=> On("store", m) \/ \E p \in Node : Attaches(m, p)
<1>0. DOMAIN stack = 1 .. top /\ top \in Nat
  BY MovesFacts
<1>1. ASSUME NEW h \in DOMAIN stack, Is(stack[h], "store", m) PROVE On("store", m)'
  <2>1. h # top
    BY <1>0, <1>1 DEF Settled, Is
  <2>2. Low(h, b)
    BY <2>1, MovesFacts
  <2> QED BY <1>1, <2>2 DEF Low, On, Is
<1>2. ASSUME NEW p \in Node, Attaches(m, p) PROVE On("store", m)'
  <2>1. top + 1 \in DOMAIN stack'
    BY <1>2, CallHeights
  <2>2. stack'[top + 1] = [do |-> "store", node |-> m, arg |-> {p}]
    BY <1>2 DEF Attaches
  <2>3. Is(stack'[top + 1], "store", m)
    BY <2>2 DEF Is
  <2> QED BY <2>1, <2>3 DEF On, Is
<1>3. ASSUME NEW h \in DOMAIN stack', Is(stack'[h], "store", m)
      PROVE  On("store", m) \/ \E p \in Node : Attaches(m, p)
  <2>1. CASE Low(h, b)
    BY <1>3, <2>1 DEF Low, On, Is
  <2>2. CASE NewStep(h)
    BY <1>3, <2>2, NewByKind DEF Is
  <2> QED BY <2>1, <2>2, MovesFacts
<1>4. On("store", m)' => \E h \in DOMAIN stack' : Is(stack'[h], "store", m)
  BY DEF On, Is
<1> QED BY <1>1, <1>2, <1>3, <1>4 DEF On

\* No stored link changes, and nobody dies.
LEMMA HolderSettled ==
  ASSUME IInv, NEW b, Moves(b), Settled
  PROVE  holder' = holder /\ \A n \in Node : Alive(n)' <=> Alive(n)
<1>0. Typed /\ Typed' /\ holder \in ParentFunction /\ NoNode \notin Node
  BY OwnerFacts DEF IInv, Moves
<1>1. holder' \in ParentFunction /\ \A m \in Node : holder'[m] = IF On("store", m)' THEN NoNode ELSE parent'[m]
  BY <1>0, OwnersNow
<1>2. \A m \in Node : holder[m] = IF On("store", m) THEN NoNode ELSE parent[m]
  BY <1>0, HolderFacts
<1>3. (\A x \in Node : ~Leaves(x)) /\ (\A d \in Node : ~Dies(d))
  BY MovesFacts DEF Settled, Leaves, Dies, OnTop, Is
<1>4. ASSUME NEW m \in Node PROVE holder'[m] = holder[m]
  <2>1. CASE \E p \in Node : Attaches(m, p)
    <3>1. holder'[m] = NoNode /\ parent[m] = NoNode
      BY <1>1, <2>1, StoresSettled DEF Attaches
    <3> QED BY <1>2, <3>1
  <2>2. CASE ~\E p \in Node : Attaches(m, p)
    <3>1. parent'[m] = parent[m]
      <4>1. ASSUME NEW x \in Node, NEW p \in Node, Attaches(x, p) PROVE parent'[m] = parent[m]
        <5>1. parent' = [parent EXCEPT ![x] = p] /\ x # m
          BY <2>2, <4>1 DEF Attaches
        <5> QED BY <1>0, <5>1 DEF Typed, ParentFunction
      <4> QED BY <1>3, <4>1, ParentChanges
    <3>2. On("store", m)' <=> On("store", m)
      BY <2>2, StoresSettled
    <3> QED BY <1>1, <1>2, <3>1, <3>2
  <2> QED BY <2>1, <2>2
<1>5. holder' = holder
  BY <1>0, <1>1, <1>4 DEF ParentFunction
<1> QED BY <1>3, <1>5, LivesEnd

\* What is going to change is not kept by an earlier snapshot.
LEMMA ChangingStays ==
  ASSUME Doomed = {}, IInv, Changing, NEW b, Moves(b),
         initial' = initial \/ \E n \in Node : ReadSnapshot(n)
  PROVE  Changing'
<1> SUFFICES ASSUME NEW s \in Node, NEW h \in DOMAIN stack', stack'[h].node = s,
                    stack'[h].do \in {"store", "leave", "die"}, NEW a \in Above(s)' \ built'
             PROVE  initial'[a] = Unread
  <2>1. \A h \in DOMAIN stack' : stack'[h].node \in Node
    BY MovesFacts
  <2>2. ASSUME NEW h \in DOMAIN stack', stack'[h].do \in {"store", "leave", "die"}
        PROVE  \A a \in Ancestors(parent', stack'[h].node) \ built' : initial'[a] = Unread
    <3>1. PICK s \in Node : stack'[h].node = s
      BY <2>1
    <3>2. \A a \in Above(s)' \ built' : initial'[a] = Unread
      BY <2>2, <3>1
    <3> QED BY <3>1, <3>2 DEF Above
  <2> QED BY <2>2 DEF Changing, Exposed, Above
<1>0. /\ Typed /\ Typed' /\ built \subseteq built' /\ s \in Node /\ top \in Nat
      /\ DOMAIN stack = 1 .. top /\ DOMAIN stack' = 1 .. Len(agenda')
  BY BuiltGrows, MovesFacts DEF IInv, Moves
<1>1. CASE Low(h, b)
  <2>1. Firm(stack[h]) /\ s \in About(stack[h]) /\ stack[h] = stack'[h] /\ h \in DOMAIN stack
    BY <1>1 DEF Low, Firm, About
  <2>2. Steady(s)
    BY <1>1, <2>1, FirmFixed
  <2>3. a \in Above(s) \ built /\ initial[a] = Unread /\ a \in Node
    BY <1>0, <2>1, <2>2, AboveFacts DEF Steady, Changing, Exposed
  <2>4. ASSUME NEW n \in Node, ReadSnapshot(n) PROVE initial'[a] = initial[a]
    <3>1. top + 1 - h \in DOMAIN agenda /\ agenda[top + 1 - h] = stack[h]
      <4>1. DOMAIN agenda = 1 .. top
        BY <1>0, LenProperties DEF Typed, top
      <4>2. stack[h] = agenda[top + 1 - h]
        BY <1>0, <2>1 DEF stack, Stack, top
      <4> QED BY <1>0, <2>1, <4>1, <4>2
    <3>2. InitialRead(n) \cap Up(s) = {}
      BY <2>1, <2>4, <3>1 DEF ReadSnapshot
    <3>3. a \notin InitialRead(n)
      BY <1>0, <2>3, <3>2, UpIs
    <3> QED BY <2>3, <2>4, <3>3 DEF ReadSnapshot
  <2> QED BY <2>3, <2>4
<1>2. CASE h > b /\ NewStep(h)
  <2>0. ASSUME NEW p \in Node, Attaches(s, p)
        PROVE  s \in built /\ Exposed(p) /\ Above(s) = {s} /\ Above(s)' = {s} \cup Above(p)
    <3>1. s \in built /\ Exposed(p) /\ parent[s] = NoNode
      BY <2>0 DEF Attaches
    <3>2. Above(s) = {s}
      BY <1>0, <3>1, AboveFacts
    <3>3. Above(s)' = Above(s) \cup Above(p)
      BY <1>0, <2>0, <3>2, AttachAbove
    <3> QED BY <3>1, <3>2, <3>3
  <2>1. ASSUME NEW n \in Node, ReadSnapshot(n) PROVE FALSE
    <3>1. Calls("snapshot", <<>>) /\ Same
      BY <2>1 DEF ReadSnapshot, Same, nodes
    <3>2. Len(agenda') = top
      BY <1>0, <3>1, NothingCalled DEF Passes
    <3>3. h = top + 1
      BY <1>2, NewByKind
    <3> QED BY <1>0, <3>2, <3>3
  <2>2. initial' = initial
    BY <2>1
  <2>3. Exposed(s) \/ \E p \in Node : s \in built /\ Exposed(p) /\ Above(s)' \subseteq {s} \cup Above(p)
    <3>1. CASE stack'[h].do = "die"
      BY <1>2, <3>1, NewByKind DEF Destroys
    <3>2. CASE stack'[h].do = "leave"
      <4>1. Detaches(s)
        BY <1>2, <3>2, NewByKind
      <4>2. parent[s] \in Node /\ s \in built /\ Exposed(parent[s]) /\ Above(s)' = Above(s)
        BY <1>0, <4>1, SameAbove DEF Detaches, Same, Typed
      <4> QED BY <1>0, <4>2, AboveFacts, ObjectNodesAssumption
    <3>3. CASE stack'[h].do = "store"
      <4>1. PICK p \in Node : Attaches(s, p)
        BY <1>2, <3>3, NewByKind
      <4> QED BY <2>0, <4>1
    <3> QED BY <3>1, <3>2, <3>3
  <2>4. Exposed(s) => initial[a] = Unread
    <3>1. CASE parent' = parent
      BY <1>0, <3>1, SameAbove DEF Exposed
    <3>2. CASE stack'[h].do = "store"
      <4>1. PICK p \in Node : Attaches(s, p)
        BY <1>2, <3>2, NewByKind
      <4> QED BY <1>0, <2>0, <4>1 DEF Exposed
    <3>3. stack'[h].do # "store" => parent' = parent
      BY <1>2, NewByKind DEF Destroys, Detaches, Same
    <3> QED BY <3>1, <3>2, <3>3
  <2> QED BY <1>0, <2>2, <2>3, <2>4 DEF Exposed
<1> QED BY <1>1, <1>2, MovesFacts

\* A step that changes no stored link nor what snapshots are made of
LEMMA SettledStays ==
  ASSUME IInv, Snapshots, NEW b, Moves(b), Settled, UNCHANGED <<built, value, initial, memo, frozen>>
  PROVE  Snapshots'
<1>1. holder' = holder /\ \A n \in Node : Alive(n)' <=> Alive(n)
  BY HolderSettled
<1> QED BY <1>1, QuietStays DEF IInv

\* The calls of user code that do nothing to snapshots
LEMMA QuietCallStays ==
  ASSUME Doomed = {}, IInv, Snapshots, NEW b, Moves(b), NEW n \in Node,
         (\E p \in Node : Attach(n, p)) \/ Detach(n) \/ Destroy(n) \/ AddDisposer(n)
  PROVE  Snapshots'
<1>1. UserTurn /\ UNCHANGED <<built, value, initial, memo, frozen>>
  BY DEF Attach, Detach, Destroy, AddDisposer, Calls, nodes, snapshots
<1> QED BY <1>1, WhoSettles, SettledStays DEF IInv

\* The steps of the agenda that do nothing to snapshots
LEMMA QuietStepStays ==
  ASSUME Doomed = {}, IInv, Snapshots, NEW b, Moves(b), NEW n \in Node,
         \/ Return(n) \/ Created(n) \/ (\E hook \in Hooks \ {"afterCreate"} : FireHook(n, hook))
         \/ Finalize(n) \/ Finalized(n) \/ ChildrenTold(n) \/ Dispose(n) \/ Clear(n)
         \/ (AboutToDie(n) /\ ~Alive(n))
  PROVE  Snapshots'
<1>1. Settled
  <2>1. ASSUME NEW do, Does(do, n), do \notin {"store", "leave", "die"} PROVE Settled
    BY <2>1, WhoSettles DEF IInv
  <2>2. \/ \E do \in {"user", "afterCreate", "finalize", "finalized", "childrenToldOf", "dispose", "clear", "aboutToDie"} : Does(do, n)
        \/ \E hook \in Hooks \ {"afterCreate"} : Does(hook, n)
    BY DEF Return, Created, FireHook, Finalize, Finalized, ChildrenTold, Dispose, Clear, AboutToDie
  <2> QED BY <2>1, <2>2 DEF Hooks
<1>2. UNCHANGED <<built, value, initial, memo, frozen>>
  BY DEF Return, Created, FireHook, Finalize, Finalized, ChildrenTold, Dispose, Clear, AboutToDie, nodes, snapshots
<1> QED BY <1>1, <1>2, SettledStays

\* Nothing happens to snapshots when nothing happens.
LEMMA StutterStays ==
  ASSUME IInv, Snapshots, UNCHANGED vars
  PROVE  Snapshots'
<1>1. UNCHANGED <<built, value, initial, memo, frozen>> /\ agenda' = agenda /\ parent' = parent /\ life' = life
  BY DEF vars, nodes, snapshots
<1>2. holder' = holder /\ \A n \in Node : Alive(n)' <=> Alive(n)
  BY <1>1 DEF holder, Planned, Alive
<1> QED BY <1>1, <1>2, QuietStays DEF IInv

\* A write drops the memos above it. On a dead node it changes no snapshot.
LEMMA WriteStays ==
  ASSUME Doomed = {}, IInv, Snapshots, NEW b, Moves(b), NEW n \in Node, Write(n)
  PROVE  Snapshots'
<1>0. /\ Typed /\ Typed' /\ LifeOfNodes /\ SnapshotTypes /\ UserTurn
      /\ UNCHANGED <<built, initial, frozen>> /\ value' = [value EXCEPT ![n] = 1 - @] /\ memo' = WithoutOutdated(n)
      /\ Exposed(n)
  BY ExposedIs DEF IInv, Moves, Snapshots, Write, Calls, nodes
<1>1. holder' = holder /\ \A m \in Node : Alive(m)' <=> Alive(m)
  BY <1>0, WhoSettles, HolderSettled
<1>2. value' \in [Node -> {0, 1}] /\ \A m \in Node \ {n} : value'[m] = value[m]
  BY <1>0 DEF SnapshotTypes
<1>3. Owners(n) \subseteq Above(n)
  BY <1>0, HolderFacts DEF Owners
<1>4. CASE Alive(n)
  <2>1. Touches(n)
    BY <1>0, <1>1, <1>2 DEF Touches, Owners
  <2>2. \A a \in Owners(n) \ built : initial[a] = Unread
    BY <1>0, <1>3 DEF Exposed
  <2> QED BY <1>0, <1>4, <2>1, <2>2, TouchesStays
<1>5. CASE ~Alive(n)
  <2>1. Outdated(n) \subseteq {n}
    BY <1>0, <1>5, OutdatedIs, OwnersLive
  <2>2. \A m \in Node : memo'[m] \in {memo[m], Unread} /\ (m # n => memo'[m] = memo[m])
    BY <1>0, <2>1 DEF WithoutOutdated
  <2>3. \A m : Below(m)' = Below(m) /\ Children(m)' = Children(m)
    BY <1>1 DEF Below, Children
  <2>4. ASSUME NEW m \in Node, Alive(m) PROVE Latest(m)' = Latest(m) /\ m # n
    <3>1. n \notin Below(m) /\ Below(m) \subseteq Node /\ m # n
      BY <1>0, <1>5, <2>4, OwnersLive, OwnerFacts
    <3> QED BY <1>2, <2>3, <3>1 DEF Latest
  <2>5. Drops({}, {})
    BY <1>0, <1>1, <2>2, <2>3, <2>4 DEF Drops
  <2>6. SnapshotTypes'
    <3>1. memo' \in [Node -> Memo \cup {Unread}]
      BY <1>0 DEF WithoutOutdated, SnapshotTypes
    <3> QED BY <1>0, <1>1, <1>2, <3>1 DEF SnapshotTypes
  <2> QED BY <1>0, <2>5, <2>6, DropsStays
<1> QED BY <1>4, <1>5

\* What is still being stored when a step of some kind is done
LEMMA StillStored ==
  ASSUME IInv, NEW b, Moves(b), NEW do, NEW n \in Node, OnTop(do, n), Shortens
  PROVE  \A m \in Node : On("store", m)' <=> On("store", m) /\ ~(do = "store" /\ m = n)
<1>0. /\ top \in Nat /\ top > 0 /\ DOMAIN stack = 1 .. top /\ DOMAIN stack' = 1 .. top - 1 /\ MovedOnce
      /\ \A h \in 1 .. top - 1 : stack'[h] = stack[h]
  BY MovesFacts DEF OnTop, Shortens, Kept, IInv
<1>1. stack[top].do = do /\ stack[top].node = n
  BY DEF OnTop, Is
<1> SUFFICES ASSUME NEW m \in Node
             PROVE  On("store", m)' <=> On("store", m) /\ ~(do = "store" /\ m = n)
  OBVIOUS
<1>2. On("store", m)' <=> \E h \in DOMAIN stack' : Is(stack'[h], "store", m)
  BY DEF On, Is
<1>3. On("store", m)' <=> \E h \in 1 .. top - 1 : Is(stack[h], "store", m)
  BY <1>0, <1>2
<1>4. ASSUME NEW h \in 1 .. top - 1, Is(stack[h], "store", m) PROVE ~(do = "store" /\ m = n)
  BY <1>0, <1>1, <1>4 DEF MovedOnce, Is
<1>5. ASSUME NEW h \in 1 .. top, Is(stack[h], "store", m), ~(do = "store" /\ m = n) PROVE h \in 1 .. top - 1
  BY <1>0, <1>1, <1>5 DEF Is
<1> QED BY <1>0, <1>3, <1>4, <1>5 DEF On

\* A parent that stores a node drops the memos above it.
LEMMA StoreStays ==
  ASSUME Doomed = {}, IInv, Snapshots, Changing, NEW b, Moves(b), NEW x \in Node, Store(x)
  PROVE  Snapshots'
<1>0. Typed /\ Typed' /\ LifeOfNodes /\ SnapshotTypes /\ NoNode \notin Node
  BY OwnerFacts DEF IInv, Moves, Snapshots
<1>1. OnTop("store", x) /\ Shortens
  <2>1. Does("store", x) /\ agenda' = <<>> \o Tail(agenda)
    BY DEF Store, Then
  <2> QED BY <1>0, <2>1, NothingThen
<1>2. top \in DOMAIN stack /\ stack[top].do = "store" /\ stack[top].node = x /\ top \in Nat
  BY <1>1, MovesFacts DEF OnTop, Is
<1>3. /\ UNCHANGED <<built, initial, frozen, value, parent, life>>
      /\ memo' = WithoutOutdated(parent[x])
  BY DEF Store, nodes
<1>4. PICK p \in Node : p = parent[x] /\ stack[top].arg = {p}
  <2>1. parent[x] # NoNode /\ stack[top].arg = {parent[x]}
    BY <1>2 DEF IInv, Storing
  <2> QED BY <1>0, <2>1 DEF Typed, ParentFunction
<1>5. Alive(p) /\ Exposed(p) /\ x \notin Owners(p)
  <2>1. p \in About(stack[top]) /\ Firm(stack[top])
    BY <1>2, <1>4 DEF About, Firm
  <2>2. Alive(p)
    BY <1>2, <2>1 DEF IInv, OfTheLiving
  <2>3. Above(p) \subseteq Above(x) /\ x \notin Above(p)
    BY <1>0, <1>4, AboveFacts
  <2>4. Exposed(x)
    BY <1>2 DEF Changing
  <2>5. Owners(p) \subseteq Above(p)
    BY <1>0, HolderFacts DEF Owners
  <2> QED BY <2>2, <2>3, <2>4, <2>5 DEF Exposed
<1>6. holder' = [holder EXCEPT ![x] = p] /\ holder[x] = NoNode
  <2>1. \A m \in Node : holder'[m] = IF On("store", m)' THEN NoNode ELSE parent[m]
    BY <1>0, <1>3, OwnersNow
  <2>2. \A m \in Node : holder[m] = IF On("store", m) THEN NoNode ELSE parent[m]
    BY <1>0, HolderFacts
  <2>3. \A m \in Node : On("store", m)' <=> On("store", m) /\ m # x
    BY <1>1, StillStored
  <2>4. On("store", x)
    BY <1>2 DEF On, Is
  <2>5. \A m \in Node : holder'[m] = IF m = x THEN p ELSE holder[m]
    BY <1>4, <2>1, <2>2, <2>3
  <2>6. holder' \in ParentFunction /\ holder \in ParentFunction
    BY <1>0, OwnersNow, OwnerFacts
  <2> QED BY <2>2, <2>4, <2>5, <2>6 DEF ParentFunction
<1>7. Linked(holder', holder, x, p)
  <2>1. x \notin Ancestors(holder, p)
    BY <1>5 DEF Owners
  <2> QED BY <1>0, <1>6, <2>1, OwnerFacts, NewLink
<1>8. Touches(p)
  <2>1. \A m \in Node : holder'[m] = holder[m] \/ holder'[m] \in Owners(p) \cup {NoNode}
    BY <1>0, <1>6, OwnerFacts DEF ParentFunction
  <2>2. \A m \in Node : Ancestors(holder', m) \ Owners(p) = Owners(m) \ Owners(p)
    BY <1>7 DEF Linked, Owners
  <2> QED BY <1>0, <1>3, <1>4, <2>1, <2>2 DEF Touches, SnapshotTypes, Alive
<1>9. \A a \in Owners(p) \ built : initial[a] = Unread
  <2>1. Owners(p) \subseteq Above(p)
    BY <1>0, HolderFacts DEF Owners
  <2> QED BY <1>5, <2>1 DEF Exposed
<1> QED BY <1>0, <1>5, <1>8, <1>9, TouchesStays

\* So does one that gives up a node.
LEMMA LeaveStays ==
  ASSUME Doomed = {}, IInv, Snapshots, Changing, NEW b, Moves(b), NEW x \in Node, Leave(x)
  PROVE  Snapshots'
<1>0. Typed /\ Typed' /\ LifeOfNodes /\ SnapshotTypes /\ NoNode \notin Node
  BY OwnerFacts DEF IInv, Moves, Snapshots
<1>1. OnTop("leave", x) /\ Shortens
  <2>1. Does("leave", x) /\ agenda' = <<>> \o Tail(agenda)
    BY DEF Leave, Then
  <2> QED BY <1>0, <2>1, NothingThen
<1>2. top \in DOMAIN stack /\ stack[top].do = "leave" /\ stack[top].node = x /\ top \in Nat
  BY <1>1, MovesFacts DEF OnTop, Is
<1>3. /\ UNCHANGED <<built, initial, frozen, value, life>> /\ parent' = [parent EXCEPT ![x] = NoNode]
      /\ memo' = WithoutOutdated(parent[x])
  BY DEF Leave
<1>4. PICK p \in Node : p = parent[x]
  <2>1. parent[x] # NoNode
    BY <1>2 DEF IInv, Leaving
  <2> QED BY <1>0, <2>1 DEF Typed, ParentFunction
<1>5. Alive(p) /\ Exposed(p)
  <2>1. x \in About(stack[top]) /\ Firm(stack[top])
    BY <1>2 DEF About, Firm
  <2>2. Alive(x)
    BY <1>2, <2>1 DEF IInv, OfTheLiving
  <2>3. Above(p) \subseteq Above(x) /\ p \in Above(p)
    BY <1>0, <1>4, AboveFacts
  <2>4. Exposed(x)
    BY <1>2 DEF Changing
  <2>5. Alive(p)
    BY <1>0, <2>2, <2>3, AliveAbove
  <2> QED BY <2>3, <2>4, <2>5 DEF Exposed
<1>6. holder = [holder' EXCEPT ![x] = p] /\ holder'[x] = NoNode /\ holder[x] = p
  <2>1. \A m \in Node : holder'[m] = IF On("store", m)' THEN NoNode ELSE parent'[m]
    BY <1>0, OwnersNow
  <2>2. \A m \in Node : holder[m] = IF On("store", m) THEN NoNode ELSE parent[m]
    BY <1>0, HolderFacts
  <2>3. \A m \in Node : On("store", m)' <=> On("store", m)
    BY <1>1, StillStored
  <2>4. ~On("store", x)
    <3> SUFFICES ASSUME NEW h \in DOMAIN stack, stack[h].do = "store", stack[h].node = x PROVE FALSE
      BY DEF On, Is
    <3>1. h = top
      BY <1>2 DEF IInv, MovedOnce
    <3> QED BY <1>2, <3>1
  <2>5. \A m \in Node : parent'[m] = IF m = x THEN NoNode ELSE parent[m]
    BY <1>0, <1>3 DEF Typed, ParentFunction
  <2>6. \A m \in Node : holder[m] = IF m = x THEN p ELSE holder'[m]
    BY <1>4, <2>1, <2>2, <2>3, <2>4, <2>5
  <2>7. holder' \in ParentFunction /\ holder \in ParentFunction
    BY <1>0, OwnersNow, OwnerFacts
  <2> QED BY <1>4, <2>1, <2>5, <2>6, <2>7 DEF ParentFunction
<1>7. Linked(holder, holder', x, p) /\ Ancestors(holder', p) \subseteq Owners(p)
  <2>1. \A m \in Node : holder'[m] \in {holder[m], NoNode}
    BY <1>0, <1>6, OwnersNow DEF ParentFunction
  <2>2. Ancestors(holder', p) \subseteq Owners(p)
    BY <1>0, <2>1, OwnersNow, OwnerFacts, FewerLinks DEF Owners
  <2>3. x \notin Ancestors(holder', p)
    BY <1>0, <1>4, <1>6, <2>2, OwnerFacts
  <2>4. holder' \in ParentFunction /\ Rooted(holder')
    BY <1>0, OwnersNow
  <2> QED BY <1>0, <1>6, <2>2, <2>3, <2>4, NewLink
<1>8. Touches(p)
  <2>1. \A m \in Node : holder'[m] = holder[m] \/ holder'[m] \in Owners(p) \cup {NoNode}
    BY <1>0, <1>6, OwnersNow DEF ParentFunction
  <2>2. \A m \in Node : Ancestors(holder', m) \ Owners(p) = Owners(m) \ Owners(p)
    BY <1>7 DEF Linked, Owners
  <2> QED BY <1>0, <1>3, <1>4, <2>1, <2>2 DEF Touches, SnapshotTypes, Alive
<1>9. \A a \in Owners(p) \ built : initial[a] = Unread
  <2>1. Owners(p) \subseteq Above(p)
    BY <1>0, HolderFacts DEF Owners
  <2> QED BY <1>5, <2>1 DEF Exposed
<1> QED BY <1>0, <1>5, <1>8, <1>9, TouchesStays

\* What gets an instance memoizes what was asked for before.
LEMMA BuildStays ==
  ASSUME IInv, Snapshots, NEW b, Moves(b), Settled, NEW chain \in SUBSET (Node \ built), Build(chain)
  PROVE  Snapshots'
<1> DEFINE made == built \cup chain
           start == {m \in chain : \E y \in chain \cap Climb(holder, m) : memo[y] # Unread}
<1>0. /\ Typed /\ LifeOfNodes /\ SnapshotTypes /\ built \subseteq Node
      /\ \A m \in Node : Climb(holder, m) = Owners(m) /\ m \in Owners(m)
  BY OwnerFacts DEF IInv, Snapshots, Typed
<1>1. UNCHANGED <<value, frozen, initial>> /\ built' = made /\ memo' = Memoized(made, start)
  BY DEF Build, Refreshed
<1>2. holder' = holder /\ \A n \in Node : Alive(n)' <=> Alive(n)
  BY HolderSettled
<1>3. initial' = [n \in Node |-> IF n \in {} THEN Current(n) ELSE initial[n]]
  BY <1>0, <1>1 DEF SnapshotTypes
<1>4. \A n \in made \ built : memo[n] # Unread => n \in start
  BY <1>0
<1>5. ASSUME NEW n \in Node \ made, Alive(n), n \in Computed(made, start)
      PROVE  initial'[n] # Unread
  <2>1. start \in SUBSET Node
    OBVIOUS
  <2>2. PICK m \in start : m \in Owners(n)
    BY <1>0, <1>5, <2>1, ComputedIs
  <2>3. PICK y \in chain : y \in Owners(m) /\ memo[y] # Unread
    BY <1>0, <2>2
  <2>4. y \in Owners(n) /\ y \in Node /\ n \in Below(y)
    BY <1>0, <1>5, <2>2, <2>3, OwnerFacts
  <2>5. Alive(y)
    BY <1>0, <1>5, <2>4, OwnersLive
  <2> QED BY <1>0, <1>1, <1>5, <2>3, <2>4, <2>5, MemoBelow
<1>6. made \subseteq Node /\ start \subseteq made /\ built \subseteq made
  BY <1>0
<1> HIDE DEF made, start
<1>7. Memoizes(made, start, {})
  BY <1>1, <1>2, <1>3, <1>4, <1>5, <1>6 DEF Memoizes
<1> QED BY <1>0, <1>7, MemoizesStays

\* The first read of a node makes it, and what is above it, an instance.
LEMMA ReadStays ==
  ASSUME Doomed = {}, IInv, Snapshots, NEW b, Moves(b), NEW n \in Node, Read(n)
  PROVE  Snapshots'
<1>1. UserTurn /\ n \notin built /\ Build(ParentChain(n))
  BY DEF Read, Calls
<1>2. ParentChain(n) \in SUBSET (Node \ built)
  BY <1>1, ChainFacts DEF IInv
<1> QED BY <1>1, <1>2, WhoSettles, BuildStays DEF IInv

\* So does the walk that tells of a death.
LEMMA AboutToDieStays ==
  ASSUME Doomed = {}, IInv, Snapshots, NEW b, Moves(b), NEW n \in Node, AboutToDie(n)
  PROVE  Snapshots'
<1>1. CASE ~Alive(n)
  BY <1>1, QuietStepStays
<1>2. CASE Alive(n)
  <2>1. Does("aboutToDie", n) /\ Build(BuiltForFarewell(n))
    BY <1>2 DEF AboutToDie
  <2>2. BuiltForFarewell(n) \in SUBSET (Node \ built)
    <3>1. CASE BuiltForFarewell(n) # {}
      BY <3>1, FarewellChain, ChainFacts DEF IInv
    <3> QED BY <3>1
  <2>3. Settled
    BY <2>1, WhoSettles DEF IInv
  <2> QED BY <2>1, <2>2, <2>3, BuildStays
<1> QED BY <1>1, <1>2

\* A snapshot that is read memoizes those below it, and those without instance
\* keep theirs.
LEMMA SnapshotStays ==
  ASSUME Doomed = {}, IInv, Snapshots, NEW b, Moves(b), NEW n \in Node, ReadSnapshot(n)
  PROVE  Snapshots'
<1> DEFINE asked == InitialRead(n)
<1>0. /\ Typed /\ LifeOfNodes /\ SnapshotTypes /\ InitialsBelow /\ built \subseteq Node
      /\ \A m \in Node : Climb(holder, m) = Owners(m) /\ m \in Owners(m)
      /\ holder \in ParentFunction /\ NoNode \notin Node
  BY OwnerFacts DEF IInv, Snapshots, Typed
<1>1. /\ UserTurn /\ n \in built /\ Alive(n) /\ memo[n] = Unread /\ UNCHANGED <<value, frozen, built>>
      /\ memo' = Memoized(built, {n})
      /\ initial' = [q \in Node |-> IF q \in asked THEN Value(built, q, FALSE) ELSE initial[q]]
  BY DEF ReadSnapshot, Calls, nodes
<1>2. holder' = holder /\ \A m \in Node : Alive(m)' <=> Alive(m)
  BY <1>0, <1>1, WhoSettles, HolderSettled
<1>3. \A q \in Node : Value(built, q, FALSE) = Current(q)
  BY <1>0, ValueIs
<1>4. initial' = [q \in Node |-> IF q \in asked THEN Current(q) ELSE initial[q]]
  BY <1>1, <1>3
<1>5. \A q \in Node : /\ q \in asked => initial'[q] # Unread
                      /\ q \notin asked => initial'[q] = initial[q]
  BY <1>0, <1>4, CurrentTypes
<1>6. \A q : q \in asked <=> /\ q \in Below(n) \ built
                             /\ \A y \in Owners(q) \cap Below(n) :
                                  IF y \in built THEN memo[y] = Unread ELSE initial[y] = Unread
  BY <1>0, OwnerFacts DEF InitialRead
<1>7. \A q \in Below(n) : q \in Node /\ Alive(q)
  BY <1>0, <1>1, OwnersLive, OwnerFacts
<1> HIDE DEF asked
<1>8. ASSUME NEW q \in Node \ built, q \in Computed(built, {n}) PROVE initial'[q] # Unread
  <2> SUFFICES ASSUME initial[q] = Unread PROVE q \in asked
    BY <1>5
  <2>1. /\ q \in Below(n)
        /\ \A y \in (Owners(q) \cap Below(n)) \ {q} : y \in built /\ (y = n \/ memo[y] = Unread)
    BY <1>0, <1>1, <1>8, ComputedIs
  <2> QED BY <1>1, <1>6, <1>8, <2>1
<1>9. ASSUME NEW q \in asked, NEW m \in Below(q) \ built PROVE initial'[m] # Unread
  <2> SUFFICES ASSUME m \notin asked PROVE initial[m] # Unread
    BY <1>5, <1>6, <1>7, OwnerFacts, <1>0
  <2>1. q \in Node /\ q \in Below(n) /\ m \in Node /\ q \in Owners(m) /\ n \in Owners(q) /\ n \in Owners(m) /\ m \in Below(n)
    BY <1>0, <1>1, <1>6, <1>7, OwnerFacts
  <2>2. PICK y \in Owners(m) \cap Below(n) : IF y \in built THEN memo[y] # Unread ELSE initial[y] # Unread
    BY <1>6, <2>1
  <2>3. y \notin Owners(q)
    BY <1>6, <2>2
  <2>4. y \in Node /\ Alive(y) /\ m \in Below(y)
    BY <1>0, <1>7, <2>1, <2>2, OwnerFacts
  <2>5. CASE y \in built
    BY <1>0, <2>2, <2>4, <2>5, MemoBelow
  <2>6. CASE y \notin built
    BY <1>0, <2>2, <2>4, <2>6 DEF InitialsBelow
  <2> QED BY <2>5, <2>6
<1>10. Memoizes(built, {n}, asked)
  BY <1>0, <1>1, <1>2, <1>4, <1>6, <1>7, <1>8, <1>9 DEF Memoizes
<1> QED BY <1>0, <1>10, MemoizesStays

\* The links when d dies: those of the nodes below it are gone.
LEMMA HolderWhenDying ==
  ASSUME IInv, NEW b, Moves(b), NEW d \in Node, Dies(d)
  PROVE  /\ holder[d] = parent[d]
         /\ \A m \in Node : holder'[m] = IF m \in Below(d) THEN NoNode ELSE holder[m]
         /\ \A m \in Node : Alive(m)' <=> Alive(m) /\ m \notin Below(d)
<1>0. /\ Typed /\ Typed' /\ NoNode \notin Node /\ OnTop("die", d) /\ Shortens
      /\ life' = [m \in Node |-> IF m \in Below(d) THEN "dead" ELSE life[m]]
      /\ parent' = [m \in Node |-> IF m \in Below(d) THEN NoNode ELSE parent[m]]
  BY OwnerFacts DEF IInv, Moves, Dies
<1>1. top \in DOMAIN stack /\ stack[top].do = "die" /\ stack[top].node = d /\ top > 0
  BY <1>0, MovesFacts DEF OnTop, Is
<1>2. \A m \in Node : holder'[m] = IF On("store", m)' THEN NoNode ELSE parent'[m]
  BY <1>0, OwnersNow
<1>3. \A m \in Node : holder[m] = IF On("store", m) THEN NoNode ELSE parent[m]
  BY <1>0, HolderFacts
<1>4. \A m \in Node : On("store", m)' <=> On("store", m)
  BY <1>0, StillStored
<1>5. ~On("store", d)
  <2> SUFFICES ASSUME NEW h \in DOMAIN stack, stack[h].do = "store", stack[h].node = d PROVE FALSE
    BY DEF On, Is
  <2>1. h < top
    BY <1>1, MovesFacts
  <2>2. Firm(stack[h]) /\ d \in About(stack[h]) /\ stack[top].do \in Taking /\ d \in Above(d)
    BY <1>0, <1>1, AboveFacts DEF Firm, About, Taking, Telling
  <2>3. Precedes(stack[h], stack[top], top = h + 1)
    BY <1>1, <2>1, <2>2 DEF IInv, NothingTaken
  <2> QED BY <1>1, <2>3 DEF Precedes
<1>6. \A m \in Node : holder'[m] = IF m \in Below(d) THEN NoNode ELSE holder[m]
  BY <1>0, <1>2, <1>3, <1>4
<1>7. \A m \in Node : Alive(m)' <=> Alive(m) /\ m \notin Below(d)
  BY <1>0 DEF Alive
<1> QED BY <1>3, <1>5, <1>6, <1>7

\* Outside what dies and what is above it, the trees stay.
LEMMA BelowWhenDying ==
  ASSUME IInv, NEW b, Moves(b), NEW d \in Node, Dies(d), NEW A,
         A = IF parent[d] = NoNode THEN {} ELSE Owners(parent[d]),
         NEW n \in Node, n \notin A, n \notin Below(d)
  PROVE  Below(n)' = Below(n) /\ Children(n)' \subseteq Children(n) \ Below(d)
<1>0. /\ Typed /\ Typed' /\ NoNode \notin Node /\ holder[d] = parent[d]
      /\ holder \in ParentFunction /\ holder' \in ParentFunction
      /\ \A m \in Node : holder'[m] = IF m \in Below(d) THEN NoNode ELSE holder[m]
  BY OwnersNow, OwnerFacts, HolderWhenDying DEF IInv, Moves
<1>1. \A m \in Below(n) : m \notin Below(d)
  <2> SUFFICES ASSUME NEW m \in Node, n \in Owners(m), d \in Owners(m) PROVE FALSE
    BY <1>0, OwnerFacts
  <2>1. n \in Owners(d) \/ d \in Owners(n)
    BY <1>0, AncestorsLinear DEF Owners
  <2>2. CASE n \in Owners(d)
    <3>1. n # d
      BY <1>0, OwnerFacts
    <3>2. holder[d] # NoNode /\ n \in Owners(holder[d])
      BY <1>0, <2>2, <3>1, OwnerFacts
    <3> QED BY <1>0, <3>2
  <2>3. CASE d \in Owners(n)
    BY <1>0, <2>3, OwnerFacts
  <2> QED BY <2>1, <2>2, <2>3
<1>2. ASSUME NEW q \in Below(n) PROVE q \in Below(n)'
  <2>1. q \in Node /\ n \in Owners(q) /\ q \notin Below(d) /\ Owners(q) \subseteq Node
    BY <1>0, <1>1, <1>2, OwnerFacts
  <2>2. \A m \in Owners(q) : m \notin Below(d)
    BY <1>0, <2>1, OwnerFacts
  <2>3. Ancestors(holder', q) = Ancestors(holder, q)
    BY <1>0, <2>1, <2>2, SameLinks DEF Owners
  <2> QED BY <1>0, <2>1, <2>3, OwnersNow DEF Owners
<1>3. ASSUME NEW q \in Below(n)' PROVE q \in Below(n)
  <2>1. q \in Node /\ n \in Ancestors(holder', q)
    BY <1>0, <1>3, OwnersNow
  <2>2. \A m \in Node : holder'[m] \in {holder[m], NoNode}
    BY <1>0
  <2>3. n \in Owners(q)
    BY <1>0, <2>1, <2>2, FewerLinks DEF Owners
  <2> QED BY <1>0, <2>1, <2>3, OwnerFacts
<1>4. ASSUME NEW c \in Children(n)' PROVE c \in Children(n) \ Below(d)
  BY <1>0, <1>4, OwnersNow, OwnerFacts
<1> QED BY <1>2, <1>3, <1>4

\* Who dies keeps the snapshot it had, and the memos above are dropped.
LEMMA DieStays ==
  ASSUME Doomed = {}, IInv, Snapshots, Changing, NEW b, Moves(b), NEW d \in Node, Die(d)
  PROVE  /\ Snapshots'
         /\ \A n \in Below(d) : frozen'[n] = Current(n)
         /\ \A n \in Node \ Below(d) : frozen'[n] = frozen[n]
<1> DEFINE D == Below(d)
           A == IF parent[d] = NoNode THEN {} ELSE Owners(parent[d])
           outdated == IF parent[d] = NoNode THEN {} ELSE Outdated(parent[d])
           start == {m \in D : memo[m] = Unread}
           M == Memoized(built, start)
<1>0. /\ Typed /\ Typed' /\ LifeOfNodes /\ SnapshotTypes /\ NoNode \notin Node /\ built \subseteq Node
      /\ D \subseteq Node /\ d \in D /\ start \in SUBSET Node
  BY OwnerFacts DEF IInv, Moves, Snapshots, Typed
<1>1. Dies(d)
  BY <1>0, DieEffect
<1>2. top \in DOMAIN stack /\ stack[top].do = "die" /\ stack[top].node = d
  BY <1>1, MovesFacts DEF Dies, OnTop, Is
<1>3. /\ UNCHANGED <<built, value, initial>>
      /\ frozen' = [m \in Node |-> IF m \in D THEN LastSnapshot(m) ELSE frozen[m]]
      /\ memo' = [m \in Node |-> IF m \in outdated THEN Unread
                                 ELSE IF m \in D THEN [M[m] EXCEPT !.seen = LastSnapshot(m)] ELSE M[m]]
  BY DEF Die
<1>4. \A m \in Node : LastSnapshot(m) = Current(m) /\ Current(m) \in Snapshot /\ Current(m) # Unread
  <2>1. \A m \in Node : Value(built, m, TRUE) = Current(m)
    BY <1>0, ValueIs
  <2> QED BY <1>0, <2>1, CurrentTypes DEF LastSnapshot, Shown
<1>5. /\ holder[d] = parent[d]
      /\ \A m \in Node : Alive(m)' <=> Alive(m) /\ m \notin D
  BY <1>1, HolderWhenDying
<1>6. /\ \A m \in A : m \in Node /\ (m \notin built => initial[m] = Unread)
      /\ \A m \in outdated : m \in A
      /\ \A m \in A : m \notin outdated => memo[m] = Unread
      /\ \A m \in A : m \notin D
  <2>1. CASE parent[d] = NoNode
    BY <2>1
  <2>2. CASE parent[d] # NoNode
    <3>1. PICK p \in Node : p = parent[d]
      BY <1>0, <2>2 DEF Typed, ParentFunction
    <3>2. Alive(p)
      BY <1>0, <2>2, <3>1 DEF LifeOfNodes
    <3>3. Exposed(d)
      BY <1>2 DEF Changing
    <3>4. Owners(p) \subseteq Above(d)
      BY <1>0, <2>2, <3>1, HolderFacts, AboveFacts DEF Owners
    <3>5. \A a \in Owners(p) \ built : initial[a] = Unread
      BY <3>3, <3>4 DEF Exposed
    <3>6. Outdated(p) \subseteq Owners(p) /\ \A m \in Owners(p) : m \notin Outdated(p) => memo[m] = Unread
      BY <1>0, <3>2, <3>5, DroppedAre
    <3>7. \A m \in Owners(p) : m \in Node /\ m \notin D
      <4> SUFFICES ASSUME NEW m \in Owners(p), d \in Owners(m) PROVE FALSE
        BY <1>0, OwnerFacts
      <4>1. d \in Owners(p) /\ d \notin Owners(p)
        BY <1>0, <1>5, <2>2, <3>1, OwnerFacts
      <4> QED BY <4>1
    <3> QED BY <2>2, <3>1, <3>5, <3>6, <3>7
  <2> QED BY <2>1, <2>2
<1>7. /\ \A m \in Node \ D : M[m] = memo[m]
      /\ \A m \in Node : M[m] \in Memo \cup {Unread}
      /\ \A m \in D : M[m] # Unread
  <2>1. start \subseteq Computed(built, start) /\ Computed(built, start) \subseteq D
    <3>1. ASSUME NEW q \in Computed(built, start) PROVE q \in D
      <4>1. q \in Node /\ \E m \in start : m \in Owners(q)
        BY <1>0, <3>1, ComputedIs
      <4>2. PICK m \in D : m \in Owners(q)
        BY <4>1
      <4> QED BY <1>0, <4>1, <4>2, OwnerFacts
    <3>2. start \subseteq Computed(built, start)
      BY <1>0, ComputedIs
    <3> QED BY <3>1, <3>2
  <2>2. /\ \A q \in Node : M[q] = IF q \in Computed(built, start)
                                  THEN [seen |-> Current(q), tracked |-> q \in built /\ Alive(q)] ELSE memo[q]
        /\ M \in [Node -> Memo \cup {Unread}]
        /\ \A q \in Node : memo[q] # Unread => M[q] # Unread
    <3>1. start \in SUBSET Node /\ built \in SUBSET Node /\ built \subseteq built /\ Typed /\ LifeOfNodes
      BY <1>0
    <3> HIDE DEF start, D
    <3> QED BY <3>1, MemoizedIs, Zenon
  <2>3. ASSUME NEW m \in D PROVE M[m] # Unread
    <3>1. CASE memo[m] = Unread
      <4>1. m \in Computed(built, start)
        BY <2>1, <3>1
      <4>2. (m \in built /\ Alive(m)) \in BOOLEAN
        OBVIOUS
      <4>3. M[m] = [seen |-> Current(m), tracked |-> m \in built /\ Alive(m)]
        BY <1>0, <2>2, <4>1
      <4>4. \A t \in BOOLEAN : [seen |-> Current(m), tracked |-> t] # Unread
        BY <1>0, CurrentTypes
      <4> QED BY <4>2, <4>3, <4>4, Zenon
    <3> QED BY <1>0, <2>2, <3>1
  <2>4. \A m \in Node \ D : M[m] = memo[m]
    BY <2>1, <2>2
  <2> QED BY <2>2, <2>3, <2>4
<1> HIDE DEF M
<1>8. \A m \in D : memo'[m] \in Memo /\ memo'[m].seen = Current(m) /\ frozen'[m] = Current(m)
  <2> SUFFICES ASSUME NEW m \in D PROVE memo'[m] \in Memo /\ memo'[m].seen = Current(m) /\ frozen'[m] = Current(m)
    OBVIOUS
  <2>1. m \in Node /\ m \notin outdated /\ M[m] \in Memo
    BY <1>0, <1>6, <1>7
  <2>2. memo'[m] = [M[m] EXCEPT !.seen = Current(m)] /\ frozen'[m] = Current(m)
    BY <1>3, <1>4, <2>1
  <2> QED BY <1>4, <2>1, <2>2 DEF Memo
<1>9. \A m \in Node \ D : memo'[m] = (IF m \in outdated THEN Unread ELSE memo[m]) /\ frozen'[m] = frozen[m]
  BY <1>3, <1>7
<1>10. SnapshotTypes'
  <2>1. memo' \in [Node -> Memo \cup {Unread}]
    <3>1. \A m \in Node : memo'[m] \in Memo \cup {Unread}
      BY <1>0, <1>8, <1>9 DEF SnapshotTypes
    <3> QED BY <1>3, <3>1
  <2>2. frozen' \in [Node -> Snapshot \cup {Unread}]
    BY <1>0, <1>3, <1>4 DEF SnapshotTypes
  <2>3. \A n \in Node : ~Alive(n)' => frozen'[n] # Unread
    BY <1>0, <1>4, <1>5, <1>8, <1>9 DEF SnapshotTypes
  <2> QED BY <1>0, <1>3, <2>1, <2>2, <2>3 DEF SnapshotTypes
<1>11. \A c \in A, n \in Node : c \in Children(n) => n \in A
  <2> SUFFICES ASSUME parent[d] # NoNode, NEW c \in Owners(parent[d]), NEW n \in Node, holder[c] = n
               PROVE  n \in Owners(parent[d])
    BY <1>0, <1>6, OwnerFacts
  <2>1. parent[d] \in Node /\ holder \in ParentFunction /\ n # NoNode
    BY <1>0, OwnerFacts DEF Typed, ParentFunction
  <2> QED BY <1>0, <2>1, AncestorsStep DEF Owners
<1>12. ASSUME NEW n \in Node, n \notin A, n \notin D
       PROVE  Latest(n)' = Latest(n) /\ Below(n)' \subseteq Below(n) /\ Children(n)' \subseteq Children(n) \ D
  <2>1. Below(n)' = Below(n) /\ Children(n)' \subseteq Children(n) \ D
    BY <1>1, <1>12, BelowWhenDying
  <2> QED BY <1>3, <2>1 DEF Latest
<1> HIDE DEF A, D, outdated
<1>13. Drops(A, D)
  BY <1>0, <1>3, <1>5, <1>6, <1>8, <1>9, <1>11, <1>12 DEF Drops
<1>14. Snapshots'
  BY <1>0, <1>10, <1>13, DropsStays
<1> QED BY <1>8, <1>9, <1>14 DEF D

\* Nothing is memoized before create() is called.
LEMMA InitSnapshots ==
  Init => Snapshots /\ Changing
<1> SUFFICES ASSUME Init PROVE Snapshots /\ Changing
  OBVIOUS
<1>1. /\ \A n \in Node : Alive(n) /\ initial[n] = Unread /\ memo[n] = Unread
      /\ DOMAIN stack = {}
  <2>1. Len(agenda) = 0 /\ 1 .. 0 = {}
    BY DEF Init
  <2>2. DOMAIN stack = {}
    BY <2>1 DEF stack, Stack
  <2> QED BY <2>2 DEF Init, Alive
<1>2. SnapshotTypes
  BY <1>1 DEF Init, SnapshotTypes
<1>3. built \subseteq Node
  BY ObjectNodesAssumption DEF Init
<1> QED BY <1>1, <1>2, <1>3 DEF Snapshots, MemosCurrent, InitialsCurrent, MemosTracked, MemosOfUnbuilt, InitialsBelow, Changing

\* Only death changes what the dead are left with, and only a read of a snapshot
\* what nodes without instance keep.
LEMMA WhoFreezes ==
  ASSUME Typed, [Next]_vars
  PROVE  /\ (frozen' = frozen /\ (\A m \in Node : Alive(m) => Alive(m)')) \/ \E n \in Node : Die(n)
         /\ initial' = initial \/ \E n \in Node : ReadSnapshot(n)
<1>0. life \in [Node -> Lives]
  BY DEF Typed
<1>1. ASSUME NEW n \in Node, NEW chain, Build(chain)
      PROVE  UNCHANGED <<initial, frozen>> /\ \A m \in Node : Alive(m) => Alive(m)'
  BY <1>0, <1>1 DEF Build, Alive
<1>2. ASSUME NEW n \in Node, Read(n) \/ AboutToDie(n)
      PROVE  UNCHANGED <<initial, frozen>> /\ \A m \in Node : Alive(m) => Alive(m)'
  BY <1>1, <1>2 DEF Read, AboutToDie, nodes, snapshots, Alive
<1>3. ASSUME NEW n \in Node, Finalized(n)
      PROVE  UNCHANGED <<initial, frozen>> /\ \A m \in Node : Alive(m) => Alive(m)'
  BY <1>0, <1>3 DEF Finalized, snapshots, Alive
<1>4. ASSUME NEW n \in Node,
             \/ Write(n) \/ (\E p \in Node : Attach(n, p)) \/ Detach(n) \/ Destroy(n) \/ AddDisposer(n)
             \/ Return(n) \/ Created(n) \/ (\E hook \in Hooks \ {"afterCreate"} : FireHook(n, hook))
             \/ Finalize(n) \/ Store(n) \/ Leave(n) \/ ChildrenTold(n) \/ Dispose(n) \/ Clear(n)
      PROVE  UNCHANGED <<initial, frozen, life>>
  BY <1>4 DEF Write, Attach, Detach, Destroy, AddDisposer, Return, Created, FireHook, Finalize, Store, Leave,
              ChildrenTold, Dispose, Clear, nodes, snapshots
<1>5. ASSUME NEW n \in Node, ReadSnapshot(n) PROVE UNCHANGED <<frozen, life>>
  BY <1>5 DEF ReadSnapshot, nodes
<1>6. ASSUME NEW n \in Node, Die(n) PROVE initial' = initial
  BY <1>6 DEF Die
<1>7. CASE UNCHANGED vars
  BY <1>7 DEF vars, nodes, snapshots, Alive
<1>8. CASE UserCalls
  BY <1>2, <1>4, <1>5, <1>8 DEF UserCalls, Alive
<1>9. CASE NextStep
  BY <1>2, <1>3, <1>4, <1>6, <1>9 DEF NextStep, Alive
<1> QED BY <1>7, <1>8, <1>9 DEF Next

\* Every step leaves the snapshots what they should be, and the dead with the
\* state that they died in.
LEMMA NextSnapshots ==
  ASSUME Doomed = {}, IInv, Snapshots, Changing, [Next]_vars
  PROVE  /\ Snapshots' /\ Changing'
         /\ \A n \in Node : ~Alive(n) => ~Alive(n)' /\ frozen'[n] = frozen[n]
         /\ \A n \in Node : Alive(n) /\ ~Alive(n)' => frozen'[n] = Latest(n)
<1>0. PICK b : Moves(b)
  BY NextMoves
<1>1. Typed
  BY DEF IInv
<1>2. Changing'
  BY <1>0, <1>1, WhoFreezes, ChangingStays
<1>3. ASSUME NEW n \in Node,
             \/ Read(n) \/ Write(n) \/ ReadSnapshot(n) \/ (\E p \in Node : Attach(n, p)) \/ Detach(n)
             \/ Destroy(n) \/ AddDisposer(n)
      PROVE  Snapshots'
  BY <1>0, <1>3, ReadStays, WriteStays, SnapshotStays, QuietCallStays
<1>4. ASSUME NEW n \in Node,
             \/ Return(n) \/ Created(n) \/ (\E hook \in Hooks \ {"afterCreate"} : FireHook(n, hook))
             \/ Finalize(n) \/ Finalized(n) \/ Store(n) \/ Leave(n) \/ AboutToDie(n) \/ ChildrenTold(n)
             \/ Dispose(n) \/ Clear(n) \/ Die(n)
      PROVE  Snapshots'
  BY <1>0, <1>4, QuietStepStays, StoreStays, LeaveStays, AboutToDieStays, DieStays
<1>5. Snapshots'
  <2>1. CASE UNCHANGED vars
    BY <2>1, StutterStays
  <2>2. CASE UserCalls
    BY <1>3, <2>2 DEF UserCalls
  <2>3. CASE NextStep
    BY <1>4, <2>3 DEF NextStep
  <2> QED BY <2>1, <2>2, <2>3 DEF Next
<1>6. \A n \in Node : Alive(n)' => Alive(n)
  BY <1>0, LivesEnd
<1>7. CASE frozen' = frozen /\ \A n \in Node : Alive(n) => Alive(n)'
  BY <1>2, <1>5, <1>6, <1>7
<1>8. ASSUME NEW d \in Node, Die(d)
      PROVE  /\ \A n \in Node : ~Alive(n) => frozen'[n] = frozen[n]
             /\ \A n \in Node : Alive(n) /\ ~Alive(n)' => frozen'[n] = Latest(n)
  <2>1. /\ \A n \in Below(d) : frozen'[n] = Current(n)
        /\ \A n \in Node \ Below(d) : frozen'[n] = frozen[n]
    BY <1>0, <1>8, DieStays
  <2>2. Dies(d)
    BY <1>1, <1>8, DieEffect
  <2>3. \A n \in Node : Alive(n)' <=> Alive(n) /\ n \notin Below(d)
    BY <1>0, <2>2, HolderWhenDying
  <2> QED BY <2>1, <2>3 DEF Current
<1> QED BY <1>1, <1>2, <1>5, <1>6, <1>7, <1>8, WhoFreezes

\* The snapshot of a node is its latest state, or the one it died in.
LEMMA ShownIs ==
  Typed /\ LifeOfNodes /\ Snapshots => \A n \in Node : Shown(n) = IF Alive(n) THEN Latest(n) ELSE frozen[n]
<1> SUFFICES ASSUME Typed, LifeOfNodes, Snapshots, NEW n \in Node
             PROVE  Shown(n) = Current(n)
  BY DEF Current
<1>1. built \in SUBSET Node
  BY DEF Typed
<1> QED BY <1>1, ValueIs DEF Shown

\* Snapshots, memoized or not, are what they should be in every state.
THEOREM SnapshotInvariant ==
  ASSUME Doomed = {}
  PROVE  Spec => [](Snapshots /\ Changing)
<1>1. Init => Snapshots /\ Changing
  BY InitSnapshots
<1>2. IInv /\ (Snapshots /\ Changing) /\ [Next]_vars => (Snapshots /\ Changing)'
  BY NextSnapshots
<1> QED BY <1>1, <1>2, AgendaInvariant, PTL DEF Spec

\* getSnapshot of a live instance is its latest state, whatever was memoized
\* before: also while it is being attached, told of its death or taken out.
THEOREM SnapshotsCurrent ==
  ASSUME Doomed = {}
  PROVE  Spec => []SnapshotIsCurrent
<1>1. IInv /\ Snapshots => SnapshotIsCurrent
  <2>1. IInv => Typed /\ LifeOfNodes /\ built \subseteq Node
    BY DEF IInv, Typed
  <2> QED BY <2>1, ShownIs DEF SnapshotIsCurrent
<1> QED BY <1>1, AgendaInvariant, SnapshotInvariant, PTL

\* The snapshot of a dead node is the state it died in, for good.
THEOREM DeathKeeps ==
  ASSUME Doomed = {}
  PROVE  Spec => DeathKeepsSnapshot
<1> DEFINE A == \A n \in Node :
                  /\ life[n] = "dead" => life'[n] = "dead" /\ Shown(n)' = Shown(n)
                  /\ Alive(n) /\ life'[n] = "dead" => Shown(n)' = Latest(n)
           Facts == \A n \in Node : Shown(n) = IF Alive(n) THEN Latest(n) ELSE frozen[n]
<1>1. IInv /\ Snapshots => Facts
  BY ShownIs DEF IInv
<1>2. IInv /\ Snapshots /\ Changing /\ Facts /\ Facts' /\ [Next]_vars => A
  <2> SUFFICES ASSUME IInv, Snapshots, Changing, Facts, Facts', [Next]_vars, NEW n \in Node
               PROVE  /\ life[n] = "dead" => life'[n] = "dead" /\ Shown(n)' = Shown(n)
                      /\ Alive(n) /\ life'[n] = "dead" => Shown(n)' = Latest(n)
    OBVIOUS
  <2>1. /\ ~Alive(n) => ~Alive(n)' /\ frozen'[n] = frozen[n]
        /\ Alive(n) /\ ~Alive(n)' => frozen'[n] = Latest(n)
    BY NextSnapshots
  <2>2. Shown(n)' = IF Alive(n)' THEN Latest(n)' ELSE frozen'[n]
    OBVIOUS
  <2>3. Shown(n) = IF Alive(n) THEN Latest(n) ELSE frozen[n]
    OBVIOUS
  <2> QED BY <2>1, <2>2, <2>3 DEF Alive
<1> HIDE DEF A, Facts
<1>3. Spec => [][A]_vars
  BY <1>1, <1>2, AgendaInvariant, SnapshotInvariant, PTL DEF Spec
<1> QED BY <1>3 DEF DeathKeepsSnapshot, A
=============================================================================
