----------------------- MODULE IdentifierCachesProofs -----------------------
(***************************************************************************)
(* Proofs about IdentifierCaches, for any number of trees, nodes,          *)
(* identifiers and references.  The invariant adds to the properties what  *)
(* keeps them true: unused caches are empty and unknown to every           *)
(* reference, only live caches have inhabitants, and a memoized stamp is   *)
(* never ahead of the counter it was read from.                            *)
(***************************************************************************)
EXTENDS IdentifierCaches, TLAPS

UnusedAreEmpty == \A c \in Unused, i \in Id : set[c][i] = {}

LiveOrRetired == live \cap retired = {}

Inhabited ==
  /\ \A n \in Node : home[n] \in live \cup {NoCache}
  /\ \A f \in Ref : refHome[f] \in live \cup {NoCache}
  /\ \A n \in dead : home[n] = NoCache

\* What a reference saw is the past or the present of the counter; while it is
\* the present, its target is the only match.
Memo ==
  \A f \in Ref : seen[f] # NoStamp =>
    /\ seen[f][1] \in live \cup retired
    /\ target[f] \in Node
    /\ seen[f][2] <= stamp[seen[f][1]][Wanted[f]]
    /\ seen[f][2] = stamp[seen[f][1]][Wanted[f]] /\ seen[f][1] \in live =>
         set[seen[f][1]][Wanted[f]] \cap Accepts[f] = {target[f]}

IInv == TypeOK /\ SetsExact /\ UnusedAreEmpty /\ LiveOrRetired /\ Inhabited /\ Memo

-----------------------------------------------------------------------------
(* The parts the actions are built from *)

LEMMA Sets ==
  ASSUME TypeOK, NEW c \in Cache, NEW N \in SUBSET Node
  PROVE  /\ Plus(c, N) \in [Id -> SUBSET Node]
         /\ Minus(c, N) \in [Id -> SUBSET Node]
         /\ Advance(c, N) \in [Id -> Nat]
         /\ \A i \in Id : Plus(c, N)[i] = set[c][i] \cup {n \in N : IdOf[n] = i}
         /\ \A i \in Id : Minus(c, N)[i] = set[c][i] \ N
         /\ \A i \in Id : Advance(c, N)[i] >= stamp[c][i]
         /\ \A i \in Id : (\E n \in N : IdOf[n] = i) => Advance(c, N)[i] > stamp[c][i]
<1>1. /\ set[c] \in [Id -> SUBSET Node]
      /\ stamp[c] \in [Id -> Nat]
  BY DEF TypeOK
<1>2. \A i \in Id : set[c][i] \in SUBSET Node /\ stamp[c][i] \in Nat
  BY <1>1
<1>3. Plus(c, N) \in [Id -> SUBSET Node] /\ Minus(c, N) \in [Id -> SUBSET Node]
  BY <1>2 DEF Plus, Minus
<1>4. Advance(c, N) \in [Id -> Nat]
  BY <1>2 DEF Advance
<1>5. \A i \in Id : Advance(c, N)[i] >= stamp[c][i]
  BY <1>2 DEF Advance
<1>6. ASSUME NEW i \in Id, NEW n \in N, IdOf[n] = i
      PROVE  Advance(c, N)[i] > stamp[c][i]
  BY <1>2, <1>6 DEF Advance, Touched
<1> QED
  BY <1>3, <1>4, <1>5, <1>6 DEF Plus, Minus

\* A node of c is moved out of c, or into it, only with an advance of the
\* counter of its identifier.
LEMMA StillCounter ==
  ASSUME IInv, NEW c \in live, NEW N \in SUBSET Node, NEW i \in Id,
         Advance(c, N)[i] = stamp[c][i]
  PROVE  Plus(c, N)[i] = set[c][i] /\ Minus(c, N)[i] = set[c][i]
<1>1. TypeOK /\ c \in Cache /\ SetsExact
  BY DEF IInv, TypeOK
<1>2. stamp[c][i] \in Nat /\ set[c][i] \subseteq Node
  BY <1>1 DEF TypeOK
<1>3. \A n \in N : IdOf[n] # i
  BY <1>1, <1>2, Sets
<1>4. Plus(c, N)[i] = set[c][i]
  <2>1. Plus(c, N)[i] = set[c][i] \cup {n \in N : IdOf[n] = i}
    BY <1>1, Sets
  <2>2. {n \in N : IdOf[n] = i} = {}
    BY <1>3
  <2> QED
    BY <2>1, <2>2
<1>5. set[c][i] \cap N = {}
  BY <1>1, <1>3 DEF SetsExact
<1>6. Minus(c, N)[i] = set[c][i]
  <2>1. Minus(c, N)[i] = set[c][i] \ N
    BY <1>1, Sets
  <2> QED
    BY <1>2, <1>5, <2>1
<1> QED
  BY <1>4, <1>6

LEMMA Counters ==
  ASSUME IInv, NEW c \in live, NEW N \in SUBSET Node
  PROVE  /\ \A i \in Id : Advance(c, N)[i] >= stamp[c][i]
         /\ \A i \in Id : Advance(c, N)[i] = stamp[c][i] =>
              Plus(c, N)[i] = set[c][i] /\ Minus(c, N)[i] = set[c][i]
<1>1. TypeOK /\ c \in Cache
  BY DEF IInv, TypeOK
<1>2. \A i \in Id : Advance(c, N)[i] >= stamp[c][i]
  BY <1>1, Sets
<1>3. \A i \in Id : Advance(c, N)[i] = stamp[c][i] =>
              Plus(c, N)[i] = set[c][i] /\ Minus(c, N)[i] = set[c][i]
  BY StillCounter
<1> QED
  BY <1>2, <1>3

\* A write that resolves nothing keeps every memo honest, when no counter of a
\* known cache goes back and a counter that stands still stands for a set that
\* did not change.
LEMMA MemoKept ==
  ASSUME IInv, TypeOK',
         seen' = seen, target' = target,
         live \cup retired \subseteq live' \cup retired',
         live' \cap retired = {},
         \A c \in live \cup retired, i \in Id : stamp'[c][i] >= stamp[c][i],
         \A c \in live, i \in Id :
           stamp'[c][i] = stamp[c][i] /\ c \in live' => set'[c][i] = set[c][i]
  PROVE  Memo'
<1> SUFFICES ASSUME NEW f \in Ref, seen'[f] # NoStamp
             PROVE  /\ seen'[f][1] \in live' \cup retired'
                    /\ target'[f] \in Node
                    /\ seen'[f][2] <= stamp'[seen'[f][1]][Wanted[f]]
                    /\ seen'[f][2] = stamp'[seen'[f][1]][Wanted[f]] /\ seen'[f][1] \in live' =>
                         set'[seen'[f][1]][Wanted[f]] \cap Accepts[f] = {target'[f]}
  BY DEF Memo
<1> DEFINE c == seen[f][1]
           k == seen[f][2]
           i == Wanted[f]
<1>1. seen[f] # NoStamp /\ seen[f] \in Cache \X Nat /\ i \in Id
  BY IdentifierCachesAssumption DEF IInv, TypeOK
<1>2. /\ c \in live \cup retired
      /\ target[f] \in Node
      /\ k <= stamp[c][i]
      /\ k = stamp[c][i] /\ c \in live => set[c][i] \cap Accepts[f] = {target[f]}
  BY <1>1 DEF IInv, Memo
<1>3. c \in Cache /\ k \in Nat /\ stamp[c][i] \in Nat /\ stamp'[c][i] \in Nat
  BY <1>1 DEF IInv, TypeOK
<1>4. k <= stamp'[c][i]
  BY <1>1, <1>2, <1>3
<1>5. ASSUME k = stamp'[c][i], c \in live'
      PROVE  set'[c][i] \cap Accepts[f] = {target[f]}
  <2>1. c \in live
    BY <1>2, <1>5
  <2>2. k = stamp[c][i] /\ stamp'[c][i] = stamp[c][i]
    BY <1>1, <1>2, <1>3, <1>5
  <2> QED
    BY <1>1, <1>2, <1>5, <2>1, <2>2
<1> QED
  BY <1>2, <1>4, <1>5

-----------------------------------------------------------------------------
(* Every step preserves the invariant *)

LEMMA InitIInv == Init => IInv
<1> SUFFICES ASSUME Init PROVE IInv
  OBVIOUS
<1>1. TypeOK
  BY DEF Init, TypeOK
<1>2. SetsExact /\ UnusedAreEmpty /\ LiveOrRetired
  BY DEF Init, SetsExact, UnusedAreEmpty, LiveOrRetired, Unused
<1>3. Inhabited /\ Memo
  BY DEF Init, Inhabited, Memo
<1> QED
  BY <1>1, <1>2, <1>3 DEF IInv

LEMMA NewTreeIInv == ASSUME IInv, NEW c \in Cache, NewTree(c) PROVE IInv'
<1>1. TypeOK'
  BY DEF IInv, TypeOK, NewTree
<1>2. SetsExact'
  BY IdentifierCachesAssumption DEF IInv, SetsExact, UnusedAreEmpty, Inhabited, Unused, NewTree
<1>3. UnusedAreEmpty' /\ LiveOrRetired'
  BY DEF IInv, UnusedAreEmpty, LiveOrRetired, Unused, NewTree
<1>4. Inhabited'
  BY DEF IInv, Inhabited, NewTree
<1>5. Memo'
  BY DEF IInv, Memo, Unused, NewTree
<1> QED
  BY <1>1, <1>2, <1>3, <1>4, <1>5 DEF IInv

LEMMA AddNodeIInv ==
  ASSUME IInv, NEW c \in Cache, NEW n \in Node, AddNode(c, n)
  PROVE  IInv'
<1>1. /\ {n} \in SUBSET Node
      /\ TypeOK
  BY DEF IInv
<1>2. TypeOK'
  BY <1>1, Sets DEF TypeOK, AddNode
<1>3. SetsExact'
  BY <1>1, Sets, IdentifierCachesAssumption DEF IInv, TypeOK, SetsExact, AddNode
<1>4. UnusedAreEmpty' /\ LiveOrRetired'
  BY DEF IInv, TypeOK, UnusedAreEmpty, LiveOrRetired, Unused, AddNode
<1>5. Inhabited'
  BY DEF IInv, TypeOK, Inhabited, AddNode
<1>6. Memo'
  <2>1. c \in live
    BY DEF AddNode
  <2>2. /\ \A i \in Id : Advance(c, {n})[i] >= stamp[c][i]
        /\ \A i \in Id : Advance(c, {n})[i] = stamp[c][i] => Plus(c, {n})[i] = set[c][i]
    BY <1>1, <2>1, Counters
  <2>3. /\ \A d \in Cache, i \in Id : stamp'[d][i] >= stamp[d][i]
        /\ \A d \in live, i \in Id : stamp'[d][i] = stamp[d][i] => set'[d][i] = set[d][i]
    <3>1. /\ stamp' = [stamp EXCEPT ![c] = Advance(c, {n})]
          /\ set' = [set EXCEPT ![c] = Plus(c, {n})]
          /\ stamp \in [Cache -> [Id -> Nat]] /\ set \in [Cache -> [Id -> SUBSET Node]]
      BY <1>1 DEF TypeOK, AddNode
    <3>2. \A d \in Cache, i \in Id : stamp[d][i] \in Nat
      BY <3>1
    <3>3. \A d \in Cache \ {c} : stamp'[d] = stamp[d] /\ set'[d] = set[d]
      BY <3>1
    <3>4. stamp'[c] = Advance(c, {n}) /\ set'[c] = Plus(c, {n})
      BY <3>1
    <3>5. live \subseteq Cache
      BY <1>1 DEF TypeOK
    <3>6. ASSUME NEW d \in Cache, NEW i \in Id
          PROVE  stamp'[d][i] >= stamp[d][i]
      BY <2>2, <3>2, <3>3, <3>4
    <3>7. ASSUME NEW d \in live, NEW i \in Id, stamp'[d][i] = stamp[d][i]
          PROVE  set'[d][i] = set[d][i]
      BY <2>2, <3>3, <3>4, <3>5, <3>7
    <3> QED
      BY <3>6, <3>7
  <2> QED
    BY <1>2, <2>3, MemoKept DEF IInv, TypeOK, LiveOrRetired, AddNode
<1> QED
  BY <1>2, <1>3, <1>4, <1>5, <1>6 DEF IInv

LEMMA AddRefIInv ==
  ASSUME IInv, NEW c \in Cache, NEW f \in Ref, AddRef(c, f)
  PROVE  IInv'
<1>1. TypeOK'
  BY DEF IInv, TypeOK, AddRef
<1>2. SetsExact' /\ UnusedAreEmpty' /\ LiveOrRetired' /\ Memo'
  BY DEF IInv, SetsExact, UnusedAreEmpty, LiveOrRetired, Memo, Unused, AddRef
<1>3. Inhabited'
  BY DEF IInv, TypeOK, Inhabited, AddRef
<1> QED
  BY <1>1, <1>2, <1>3 DEF IInv

LEMMA DieIInv ==
  ASSUME IInv, NEW c \in Cache, NEW N \in SUBSET Node, NEW F \in SUBSET Ref, Die(c, N, F)
  PROVE  IInv'
<1>1. TypeOK /\ c \in live
  BY DEF IInv, Die
<1>2. TypeOK'
  BY <1>1, Sets DEF TypeOK, Die
<1>3. SetsExact'
  BY <1>1, Sets, IdentifierCachesAssumption DEF IInv, TypeOK, SetsExact, Die
<1>4. UnusedAreEmpty' /\ LiveOrRetired'
  BY <1>1 DEF IInv, TypeOK, UnusedAreEmpty, LiveOrRetired, Unused, Die
<1>5. Inhabited'
  BY <1>1, IdentifierCachesAssumption DEF IInv, TypeOK, Inhabited, Die
<1>6. Memo'
  <2>1. /\ \A d \in Cache, i \in Id : stamp'[d][i] >= stamp[d][i]
        /\ \A d \in live, i \in Id : stamp'[d][i] = stamp[d][i] => set'[d][i] = set[d][i]
    BY <1>1, Counters DEF IInv, TypeOK, Die
  <2> QED
    BY <1>2, <2>1, MemoKept DEF IInv, TypeOK, LiveOrRetired, Die
<1> QED
  BY <1>2, <1>3, <1>4, <1>5, <1>6 DEF IInv

LEMMA SplitIInv ==
  ASSUME IInv, NEW c \in Cache, NEW d \in Cache,
         NEW N \in SUBSET Node, NEW F \in SUBSET Ref, Split(c, d, N, F)
  PROVE  IInv'
<1>1. TypeOK /\ c \in live /\ d \in Unused /\ d \notin live /\ d # c
  BY DEF IInv, Split, Unused
<1>2. TypeOK'
  BY <1>1, Sets DEF TypeOK, Split
<1>3. SetsExact'
  <2>1. \A i \in Id : set'[d][i] = {n \in Node : home'[n] = d /\ IdOf[n] = i}
    BY <1>1, Sets, IdentifierCachesAssumption
    DEF IInv, TypeOK, UnusedAreEmpty, Inhabited, Split
  <2>2. \A e \in live, i \in Id : set'[e][i] = {n \in Node : home'[n] = e /\ IdOf[n] = i}
    <3> SUFFICES ASSUME NEW e \in live, NEW i \in Id
                 PROVE  set'[e][i] = {n \in Node : home'[n] = e /\ IdOf[n] = i}
      OBVIOUS
    <3>1. /\ set[e][i] = {n \in Node : home[n] = e /\ IdOf[n] = i} /\ e # d
          /\ \A n \in N : home[n] = c
      BY <1>1 DEF IInv, SetsExact, Split
    <3>2. set'[e][i] = IF e = c THEN Minus(c, N)[i] ELSE set[e][i]
      BY <1>1, <3>1 DEF TypeOK, Split
    <3>3. Minus(c, N)[i] = set[c][i] \ N
      BY DEF Minus
    <3>4. \A n \in Node : home'[n] = IF n \in N THEN d ELSE home[n]
      BY DEF Split
    <3> QED
      BY <3>1, <3>2, <3>3, <3>4
  <2> QED
    <3>1. live' = live \cup {d}
      BY DEF Split
    <3> QED
      BY <2>1, <2>2, <3>1 DEF SetsExact
<1>4. UnusedAreEmpty' /\ LiveOrRetired'
  <2>1. LiveOrRetired' /\ Unused' = Unused \ {d}
    BY <1>1 DEF IInv, LiveOrRetired, Unused, Split
  <2>2. \A e \in Cache \ {c, d} : set'[e] = set[e]
    BY <1>1 DEF TypeOK, Split
  <2>3. c \notin Unused
    BY <1>1 DEF Unused
  <2> QED
    BY <2>1, <2>2, <2>3 DEF IInv, UnusedAreEmpty, Unused
<1>5. Inhabited'
  BY <1>1, IdentifierCachesAssumption DEF IInv, TypeOK, Inhabited, Split
<1>6. Memo'
  <2>1. /\ \A e \in Cache, i \in Id : stamp'[e][i] >= stamp[e][i]
        /\ \A e \in live, i \in Id : stamp'[e][i] = stamp[e][i] => set'[e][i] = set[e][i]
    BY <1>1, Counters DEF IInv, TypeOK, Split
  <2>2. live' \cap retired = {}
    BY <1>1 DEF IInv, LiveOrRetired, Unused, Split
  <2> QED
    BY <1>2, <2>1, <2>2, MemoKept DEF IInv, TypeOK, Split
<1> QED
  BY <1>2, <1>3, <1>4, <1>5, <1>6 DEF IInv

LEMMA MergeIInv ==
  ASSUME IInv, NEW c \in Cache, NEW d \in Cache, Merge(c, d)
  PROVE  IInv'
<1> DEFINE N == Registered(d)
<1>1. TypeOK /\ c \in live /\ d \in live /\ c # d
  BY DEF IInv, Merge
<1>2. N \in SUBSET Node /\ N = {n \in Node : home[n] = d}
  BY <1>1, IdentifierCachesAssumption DEF IInv, SetsExact, Registered
<1>3. /\ set' = [set EXCEPT ![c] = Plus(c, N)]
      /\ stamp' = [stamp EXCEPT ![c] = Advance(c, N)]
      /\ home' = [n \in Node |-> IF home[n] = d THEN c ELSE home[n]]
      /\ refHome' = [f \in Ref |-> IF refHome[f] = d THEN c ELSE refHome[f]]
      /\ live' = live \ {d}
      /\ retired' = retired \cup {d}
      /\ UNCHANGED <<dead, target, seen>>
  BY DEF Merge
<1> HIDE DEF N
<1>4. TypeOK'
  BY <1>1, <1>2, <1>3, Sets DEF TypeOK
<1>5. SetsExact'
  <2> SUFFICES ASSUME NEW e \in live', NEW i \in Id
               PROVE  set'[e][i] = {n \in Node : home'[n] = e /\ IdOf[n] = i}
    BY DEF SetsExact
  <2>1. e \in live /\ e # d
    BY <1>3
  <2>2. set[e][i] = {n \in Node : home[n] = e /\ IdOf[n] = i}
    BY <2>1 DEF IInv, SetsExact
  <2>3. set'[e][i] = IF e = c THEN Plus(c, N)[i] ELSE set[e][i]
    BY <1>1, <1>3, <2>1 DEF TypeOK
  <2>4. Plus(c, N)[i] = set[c][i] \cup {n \in N : IdOf[n] = i}
    BY DEF Plus
  <2>5. \A n \in Node : home'[n] = IF home[n] = d THEN c ELSE home[n]
    BY <1>3
  <2> QED
    BY <1>2, <2>1, <2>2, <2>3, <2>4, <2>5
<1>6. UnusedAreEmpty' /\ LiveOrRetired'
  BY <1>1, <1>3 DEF IInv, TypeOK, UnusedAreEmpty, LiveOrRetired, Unused
<1>7. Inhabited'
  BY <1>1, <1>3, IdentifierCachesAssumption DEF IInv, TypeOK, Inhabited
<1>8. Memo'
  <2>1. /\ \A i \in Id : Advance(c, N)[i] >= stamp[c][i]
        /\ \A i \in Id : Advance(c, N)[i] = stamp[c][i] => Plus(c, N)[i] = set[c][i]
    BY <1>1, <1>2, Counters
  <2>2. /\ \A e \in Cache, i \in Id : stamp'[e][i] >= stamp[e][i]
        /\ \A e \in live, i \in Id : stamp'[e][i] = stamp[e][i] => set'[e][i] = set[e][i]
    BY <1>1, <1>3, <2>1 DEF IInv, TypeOK
  <2>3. live' \cap retired = {}
    BY <1>3 DEF IInv, LiveOrRetired
  <2> QED
    BY <1>1, <1>3, <1>4, <2>2, <2>3, MemoKept DEF IInv, TypeOK
<1> QED
  BY <1>4, <1>5, <1>6, <1>7, <1>8 DEF IInv

LEMMA ResolveIInv == ASSUME IInv, NEW f \in Ref, Resolve(f) PROVE IInv'
<1>1. PICK n \in Matches(f) : Matches(f) = {n} /\ target' = [target EXCEPT ![f] = n]
  BY DEF Resolve
<1>2. /\ TypeOK
      /\ refHome[f] \in Cache /\ refHome[f] \in live
      /\ Wanted[f] \in Id
      /\ stamp[refHome[f]][Wanted[f]] \in Nat
      /\ n \in Node
  <2>1. refHome[f] \in live /\ refHome[f] \in Cache
    BY DEF IInv, TypeOK, Inhabited, Resolve
  <2>2. Wanted[f] \in Id /\ Accepts[f] \subseteq Node
    BY IdentifierCachesAssumption
  <2>3. n \in Node
    BY <1>1, <2>2 DEF Matches
  <2> QED
    BY <2>1, <2>2, <2>3 DEF IInv, TypeOK
<1>3. TypeOK'
  BY <1>1, <1>2 DEF TypeOK, Resolve, trees, CurrentStamp
<1>4. (SetsExact /\ UnusedAreEmpty /\ LiveOrRetired /\ Inhabited)'
  BY DEF IInv, SetsExact, UnusedAreEmpty, LiveOrRetired, Inhabited, Unused, Resolve, trees
<1>5. Memo'
  BY <1>1, <1>2 DEF IInv, TypeOK, Memo, Resolve, trees, CurrentStamp, Matches
<1> QED
  BY <1>3, <1>4, <1>5 DEF IInv

LEMMA StepIInv == IInv /\ [Next]_vars => IInv'
<1> SUFFICES ASSUME IInv, [Next]_vars PROVE IInv'
  OBVIOUS
<1>1. CASE Next
  BY <1>1, NewTreeIInv, AddNodeIInv, AddRefIInv, DieIInv, SplitIInv, MergeIInv, ResolveIInv
  DEF Next
<1>2. CASE UNCHANGED vars
  BY <1>2
  DEF IInv, TypeOK, SetsExact, UnusedAreEmpty, LiveOrRetired, Inhabited, Memo, Unused, vars
<1> QED
  BY <1>1, <1>2

-----------------------------------------------------------------------------
THEOREM Invariant == Spec => []IInv
BY InitIInv, StepIInv, PTL DEF Spec

\* The variables keep their types (the fields of IdentifierCache and of
\* StoredReference).
THEOREM TypeCorrect == Spec => []TypeOK
BY Invariant, PTL DEF IInv

\* Every cache registers exactly the nodes of its tree, through every attach,
\* detach and death (addNodeToCache, mergeCache, splitCache, notifyDied).
THEOREM SetsStayExact == Spec => []SetsExact
BY Invariant, PTL DEF IInv

\* A reference never returns a memoized target that another lookup would not
\* find (StoredReference.resolvedValue).
THEOREM MemosStayCurrent == Spec => []MemoIsCurrent
<1>1. IInv => MemoIsCurrent
  <2> SUFFICES ASSUME IInv, NEW f \in Ref, Trusted(f)
      PROVE  /\ home[target[f]] = refHome[f]
             /\ \A n \in Accepts[f] :
                  home[n] = refHome[f] /\ IdOf[n] = Wanted[f] => n = target[f]
    BY DEF MemoIsCurrent
  <2>1. refHome[f] \in live /\ refHome[f] \in Cache /\ Wanted[f] \in Id
    BY IdentifierCachesAssumption DEF IInv, TypeOK, Inhabited, Trusted
  <2>2. seen[f] # NoStamp /\ seen[f] = <<refHome[f], stamp[refHome[f]][Wanted[f]]>>
    BY <2>1, IdentifierCachesAssumption DEF IInv, TypeOK, Trusted, CurrentStamp
  <2>3. set[refHome[f]][Wanted[f]] \cap Accepts[f] = {target[f]}
    <3>1. seen[f][1] = refHome[f] /\ seen[f][2] = stamp[refHome[f]][Wanted[f]]
      BY <2>2
    <3>2. Memo
      BY DEF IInv
    <3> QED
      BY <2>1, <2>2, <3>1, <3>2 DEF Memo
  <2>4. Accepts[f] \subseteq Node
    BY IdentifierCachesAssumption
  <2>5. set[refHome[f]][Wanted[f]] =
          {n \in Node : home[n] = refHome[f] /\ IdOf[n] = Wanted[f]}
    BY <2>1 DEF IInv, SetsExact
  <2>6. target[f] \in set[refHome[f]][Wanted[f]]
    BY <2>3
  <2>7. \A n \in Accepts[f] : n \in set[refHome[f]][Wanted[f]] => n = target[f]
    BY <2>3
  <2> QED
    BY <2>4, <2>5, <2>6, <2>7
<1> QED
  BY <1>1, Invariant, PTL

-----------------------------------------------------------------------------
(* The caches implement IdentifierScope *)

\* While the sets are exact, a node is resolved in the tree it is in.
LEMMA ResolvedAtHome == IInv => resolvedIn = home
<1> SUFFICES ASSUME IInv PROVE resolvedIn = home
  OBVIOUS
<1>1. home \in [Node -> Cache \cup {NoCache}]
  BY DEF IInv, TypeOK
<1>2. ASSUME NEW n \in Node PROVE resolvedIn[n] = home[n]
  <2>1. IdOf[n] \in Id
    BY IdentifierCachesAssumption
  <2>2. \A c \in live : n \in set[c][IdOf[n]] <=> home[n] = c
    BY <2>1 DEF IInv, SetsExact
  <2>3. home[n] \in live \cup {NoCache} /\ NoCache \notin live
    BY IdentifierCachesAssumption DEF IInv, TypeOK, Inhabited
  <2>4. CASE home[n] \in live
    <3>1. (CHOOSE c \in live : n \in set[c][IdOf[n]]) = home[n]
      BY <2>2, <2>4
    <3> QED
      BY <2>2, <2>4, <3>1 DEF resolvedIn
  <2>5. CASE home[n] = NoCache
    BY <2>2, <2>3, <2>5 DEF resolvedIn
  <2> QED
    BY <2>3, <2>4, <2>5
<1> QED
  BY <1>1, <1>2 DEF resolvedIn

\* One step of the caches, seen as one step of the scope with home for the
\* node's tree.
ScopeWrite(t) ==
  /\ \A n \in Node : home'[n] # home[n] =>
       \/ home[n] = t /\ home'[n] = NoCache /\ n \in dead'
       \/ home[n] = NoCache /\ n \notin dead /\ home'[n] = t
       \/ home[n] # NoCache /\ home'[n] = t /\ \A m \in Node : home'[m] # home[n]
  /\ dead' \subseteq dead \cup {n \in Node : home[n] = t}
  /\ dead \subseteq dead'
  /\ \A n \in dead' : home'[n] = NoCache

ScopeSplit(t, u) ==
  /\ {n \in Node : home[n] = u} = {}
  /\ \A n \in Node : home'[n] # home[n] => home[n] = t /\ home'[n] = u
  /\ dead' = dead

LEMMA AsScope ==
  ASSUME IInv, IInv'
  PROVE  /\ \A t \in Cache : ScopeWrite(t) => Scope!Write(t)
         /\ \A t, u \in Cache : ScopeSplit(t, u) => Scope!Split(t, u)
<1>1. resolvedIn = home /\ (resolvedIn = home)'
  <2>1. resolvedIn = home
    BY ResolvedAtHome
  <2>2. (resolvedIn = home)'
    BY ResolvedAtHome, PTL
  <2> QED
    BY <2>1, <2>2
<1> QED
  BY <1>1 DEF ScopeWrite, ScopeSplit, Scope!Write, Scope!Split, Scope!Members

LEMMA StepIsScope ==
  ASSUME IInv, IInv', [Next]_vars
  PROVE  [Scope!Next]_<<resolvedIn, dead>>
<1>1. resolvedIn = home /\ (resolvedIn = home)'
  <2>1. resolvedIn = home
    BY ResolvedAtHome
  <2>2. (resolvedIn = home)'
    BY ResolvedAtHome, PTL
  <2> QED
    BY <2>1, <2>2
<1>2. /\ home \in [Node -> Cache \cup {NoCache}]
      /\ NoCache \notin Cache
      /\ live \subseteq Cache
      /\ dead \subseteq Node
      /\ \A n \in dead : home[n] = NoCache
      /\ \A n \in Node : home[n] \in live \cup {NoCache}
  BY IdentifierCachesAssumption DEF IInv, TypeOK, Inhabited
<1>3. ASSUME NEW c \in Cache, NEW n \in Node, AddNode(c, n) PROVE ScopeWrite(c)
  BY <1>2, <1>3 DEF AddNode, ScopeWrite
<1>4. ASSUME NEW c \in Cache, NEW N \in SUBSET Node, NEW F \in SUBSET Ref, Die(c, N, F)
      PROVE  ScopeWrite(c)
  BY <1>2, <1>4 DEF Die, ScopeWrite
<1>5. ASSUME NEW c \in Cache, NEW d \in Cache, NEW N \in SUBSET Node, NEW F \in SUBSET Ref,
             Split(c, d, N, F)
      PROVE  c # d /\ ScopeSplit(c, d)
  BY <1>2, <1>5 DEF Split, Unused, ScopeSplit
<1>6. ASSUME NEW c \in Cache, NEW d \in Cache, Merge(c, d) PROVE ScopeWrite(c)
  BY <1>2, <1>6 DEF Merge, ScopeWrite
<1>7. ASSUME \/ \E c \in Cache : NewTree(c)
             \/ \E c \in Cache, f \in Ref : AddRef(c, f)
             \/ \E f \in Ref : Resolve(f)
             \/ UNCHANGED vars
      PROVE  UNCHANGED <<resolvedIn, dead>>
  BY <1>1, <1>7 DEF NewTree, AddRef, Resolve, trees, vars
<1> QED
  BY <1>3, <1>4, <1>5, <1>6, <1>7, AsScope DEF Next, Scope!Next

\* The caches keep what resolveIdentifier promises: a node is resolvable in at
\* most one tree, enters it once, and leaves for good when it dies.
THEOREM CachesImplementScope == Spec => ImplementsScope
<1>1. Init => Scope!Init
  BY DEF Init, Scope!Init, resolvedIn
<1>2. IInv /\ IInv' /\ [Next]_vars => [Scope!Next]_<<resolvedIn, dead>>
  BY StepIsScope
<1> QED
  BY <1>1, <1>2, Invariant, PTL DEF Spec, Scope!Spec, ImplementsScope
=============================================================================
