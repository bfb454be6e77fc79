----------------------------- MODULE ObjectNodes -----------------------------
(***************************************************************************)
(* One tree of object nodes from its creation to its destruction, at the   *)
(* granularity of the steps between two pieces of user code: hooks and     *)
(* disposers run in the middle of building, finalizing, attaching,         *)
(* detaching and destroying a node, and call the library again.  StateTree *)
(* has the same operations without user code in them.                      *)
(*                                                                         *)
(* The call stack is the agenda: what is still to be done, next step       *)
(* first.  A step "user" stands for user code, which makes any calls of    *)
(* its program before it returns; so does an empty agenda.                 *)
(*                                                                         *)
(* Of a node's snapshot only its value and its children are kept, as the   *)
(* set of pairs of a node and a value over the subtree.                    *)
(***************************************************************************)
EXTENDS Naturals, FiniteSets, SequencesExt, Forest

CONSTANTS
  Instances, \* nodes that are instances before create() is called
  Shapes,    \* parent functions: the tree that it makes, and other roots
  Programs,  \* the kinds of calls that user code makes, one of these sets
  MaxCalls,  \* bound on the calls of user code
  DevMode,   \* devMode(): assertions are checked
  Unread,    \* no value memoized
  Doomed     \* calls known to go wrong that user code still makes

Kinds == {"read", "write", "snapshot", "attach", "detach", "destroy", "addDisposer"}

DoomedCalls ==
  {"placed", "unfinalized", "twice", "revived", "cut short", "again", "rescued",
   "late build", "late child", "late disposer"}

Snapshot == SUBSET (Node \X {0, 1})

Memo == [seen : Snapshot, tracked : BOOLEAN]

ASSUME ObjectNodesAssumption ==
  /\ IsFiniteSet(Node) /\ NoNode \notin Node
  /\ Instances \subseteq Node
  /\ Shapes \subseteq [Node -> Node \cup {NoNode}] /\ \A par \in Shapes : Rooted(par)
  /\ Programs \subseteq SUBSET Kinds /\ MaxCalls \in Nat /\ DevMode \in BOOLEAN
  /\ \A s \in Snapshot : Unread # s
  /\ \A m \in Memo : Unread # m
  /\ Doomed \subseteq DoomedCalls

VARIABLES
  program,  \* what user code may call in this behaviour
  calls,    \* calls it has made
  agenda,   \* what is to be done, next step first
  life,     \* NodeLifeCycle
  built,    \* nodes whose observable instance exists
  parent,   \* parent pointer
  heard,    \* user hooks that have run, per node
  pending,  \* number of disposers registered on each node
  owed,     \* number of its disposers that have not run
  value,    \* what the node itself stores, beside its children
  initial,  \* _cachedInitialSnapshot
  memo,     \* _snapshotComputed: its value, and whether MobX tracks it
  frozen    \* _snapshotUponDeath

nodes == <<life, built, parent>>
disposers == <<pending, owed>>
snapshots == <<value, initial, memo, frozen>>
vars == <<program, calls, agenda, nodes, heard, disposers, snapshots>>

Hooks == {"afterCreate", "afterAttach", "beforeDetach", "beforeDestroy"}

Steps ==
  Hooks \cup {"user", "finalize", "finalized", "store", "leave",
              "aboutToDie", "childrenToldOf", "dispose", "clear", "die"}

TypeOK ==
  /\ program \in Programs /\ calls \in 0 .. MaxCalls
  /\ agenda \in Seq([do : Steps, node : Node, arg : SUBSET Node])
  /\ life \in [Node -> {"initializing", "created", "finalized", "dead"}]
  /\ built \subseteq Node
  /\ parent \in [Node -> Node \cup {NoNode}]
  /\ heard \in [Node -> Seq(Hooks)]
  /\ pending \in [Node -> Nat] /\ owed \in [Node -> Nat]
  /\ value \in [Node -> {0, 1}]
  /\ initial \in [Node -> Snapshot \cup {Unread}]
  /\ memo \in [Node -> Memo \cup {Unread}]
  /\ frozen \in [Node -> Snapshot \cup {Unread}]

-----------------------------------------------------------------------------
(* Nodes *)

Step(do, n) == [do |-> do, node |-> n, arg |-> {}]

Each(do, set) == LET s == SetToSeq(set) IN [i \in DOMAIN s |-> Step(do, s[i])]

Planned(do, n) == \E i \in DOMAIN agenda : agenda[i].do = do /\ agenda[i].node = n

Alive(n) == life[n] # "dead"

Climb(link, n) ==
  LET up[m \in Node] == {m} \cup IF link[m] = NoNode THEN {} ELSE up[link[m]] IN up[n]

Up(n) == Climb(parent, n)

\* a node that is being attached has its parent before the parent stores it
holder == [n \in Node |-> IF Planned("store", n) THEN NoNode ELSE parent[n]]

\* n and what getChildren() reaches from it
Below(n) == {m \in Node : n \in Climb(holder, m)}

Children(n) == {m \in Node : holder[m] = n}

\* n and the uninitialized ancestors directly above it
ParentChain(n) == {m \in Up(n) : \A x \in Up(n) : m \in Up(x) => x \notin built}

-----------------------------------------------------------------------------
(* Snapshots *)

\* getSnapshot() of n, or its memoized snapshot, when "made" are the instances
Value(made, n, memoized) ==
  LET see[q \in Node \X BOOLEAN] ==
        LET m == q[1] IN
        IF q[2] /\ memo[m] # Unread THEN memo[m].seen
        ELSE IF life[m] = "dead" THEN frozen[m]
        ELSE IF m \notin made /\ initial[m] # Unread THEN initial[m]
        ELSE {<<m, value[m]>>} \cup UNION {see[<<k, m \in made>>] : k \in Children(m)}
  IN see[<<n, memoized>>]

\* node.snapshot
Shown(n) == Value(built, n, TRUE)

Latest(n) == {<<m, value[m]>> : m \in Below(n)}

\* The nodes whose computed runs when those of "start" do: a node asks its
\* children for their computed, but a node without instance asks for the
\* snapshots they were created with
Computed(made, start) ==
  {q \in Node :
     /\ q \in start \/ memo[q] = Unread
     /\ \E m \in start \cap Climb(holder, q) :
          \A y \in (Climb(holder, q) \cap Below(m)) \ {q} :
            y \in made /\ (y \in start \/ memo[y] = Unread)}

Memoized(made, start) ==
  [q \in Node |->
     IF q \in Computed(made, start)
     THEN [seen |-> Value(made, q, q \notin start), tracked |-> q \in made /\ Alive(q)]
     ELSE memo[q]]

\* _getCachedInitialSnapshot() of the nodes below n that have no instance
InitialRead(n) ==
  {q \in Below(n) \ built : \A y \in Climb(holder, q) \cap Below(n) :
     IF y \in built THEN memo[y] = Unread ELSE initial[y] = Unread}

\* mutant: the memo from before the instance is kept as it is
NotRefreshed(chain) == memo

\* refreshMemoizedSnapshot() of instances that have just been made, ancestors
\* first
Refreshed(chain) ==
  Memoized(built \cup chain,
           {m \in chain : \E y \in chain \cap Climb(holder, m) : memo[y] # Unread})

\* the memos that MobX drops when something changes that n itself stores
Outdated(n) ==
  {m \in Climb(holder, n) : \A y \in Climb(holder, n) :
     m \in Climb(holder, y) => memo[y] # Unread /\ memo[y].tracked}

WithoutOutdated(n) == [m \in Node |-> IF m \in Outdated(n) THEN Unread ELSE memo[m]]

\* n stores something that a snapshot taken earlier keeps
Concealed(n) == \E a \in Up(n) \ built : initial[a] # Unread

-----------------------------------------------------------------------------
(* The agenda *)

Idle == agenda = <<>>

UserTurn == ~Idle => Head(agenda).do = "user"

\* user code makes a call of one of its kinds
Calls(kind, steps) ==
  /\ UserTurn /\ kind \in program /\ calls < MaxCalls
  /\ calls' = calls + 1
  /\ agenda' = steps \o agenda
  /\ UNCHANGED program

\* the first step is to do this about n
Does(do, n) ==
  /\ ~Idle /\ Head(agenda).do = do /\ Head(agenda).node = n
  /\ UNCHANGED <<program, calls>>

\* it is done, and leads to other steps
Then(steps) == agenda' = steps \o Tail(agenda)

\* user code that can still make a call
UserCode(n) == IF calls < MaxCalls THEN <<Step("user", n)>> ELSE <<>>

\* A step about n, or about a node below it, that could not be completed after
\* a call that removes n
Underway(n) ==
  \E i \in DOMAIN agenda :
    /\ agenda[i].do \notin {"user", "finalize", "finalized", "aboutToDie"}
    /\ ({agenda[i].node} \cup IF agenda[i].do = "childrenToldOf" THEN {} ELSE agenda[i].arg)
         \cap Below(n) # {}

\* n can die without killing a node that is being finalized, or in development
\* one whose finalization is to come
FinalizationAllows(n) ==
  /\ (\E m \in Below(n) : Planned("finalized", m)) => "revived" \in Doomed
  /\ DevMode /\ (\E m \in Below(n) : Planned("finalize", m)) => "cut short" \in Doomed

SaidFarewell(n) == heard[n] # <<>> /\ Last(heard[n]) = "beforeDestroy"

\* the step tells n that it is about to die, or what n is below
ComesTo(step, n) ==
  \/ step.do = "aboutToDie" /\ step.node \in Up(n)
  \/ step.do = "childrenToldOf" /\ \E c \in Up(n) : parent[c] = step.node /\ c \notin step.arg

\* n is about to die, and nothing will tell it any more
WalkIsPast(n) ==
  \E i \in DOMAIN agenda :
    /\ agenda[i].do = "die" /\ agenda[i].node \in Up(n)
    /\ \A j \in 1 .. i - 1 : ~ComesTo(agenda[j], n)

\* the walk through p will find x among the children that p did not have
FoundLate(x, p) ==
  \E i \in DOMAIN agenda :
    agenda[i].do = "childrenToldOf" /\ agenda[i].node = p /\ x \notin agenda[i].arg

-----------------------------------------------------------------------------
\* The tree and the snapshot that create() is about to use, with the instances
\* that exist already
Init ==
  /\ program \in Programs /\ calls = 0
  /\ agenda = <<>>
  /\ parent \in Shapes
  /\ built = Instances
  /\ life = [n \in Node |-> IF n \in Instances THEN "finalized" ELSE "initializing"]
  /\ heard = [n \in Node |-> IF n \notin Instances THEN <<>>
                             ELSE IF parent[n] = NoNode THEN <<"afterCreate">>
                             ELSE <<"afterCreate", "afterAttach">>]
  /\ pending = [n \in Node |-> IF n \in Instances THEN 1 ELSE 0]
  /\ owed = pending
  /\ value = [n \in Node |-> 0]
  /\ initial = [n \in Node |-> Unread]
  /\ memo = [n \in Node |-> Unread]
  /\ frozen = [n \in Node |-> Unread]

Return(n) ==
  /\ Does("user", n)
  /\ Then(<<>>)
  /\ UNCHANGED <<nodes, heard, disposers, snapshots>>

\* the hooks of a chain of live nodes that were built, n the lowest
Announcements(n, chain) ==
  IF chain = {} THEN <<>>
  ELSE <<[do |-> "afterCreate", node |-> n, arg |-> chain \ {n}]>>

\* the afterCreate of n, and then of the parents that were built with it
Created(n) ==
  LET rest == Head(agenda).arg IN
  /\ Does("afterCreate", n)
  /\ heard' = [heard EXCEPT ![n] = Append(@, "afterCreate")]
  /\ Then(UserCode(n) \o <<Step("finalize", n)>> \o Announcements(parent[n], rest))
  /\ UNCHANGED <<nodes, disposers, snapshots>>

\* fireHook of another hook
FireHook(n, hook) ==
  /\ Does(hook, n)
  /\ heard' = [heard EXCEPT ![n] = Append(@, hook)]
  /\ Then(UserCode(n))
  /\ UNCHANGED <<nodes, disposers, snapshots>>

-----------------------------------------------------------------------------
(* Building and finalizing *)

\* createObservableInstance of a chain, without its hooks: initializers add
\* one disposer each, which runs at once when the node is dead already
Build(chain) ==
  /\ built' = built \cup chain
  /\ life' = [m \in Node |-> IF m \in chain /\ Alive(m) THEN "created" ELSE life[m]]
  /\ pending' = [m \in Node |-> IF m \in chain /\ Alive(m) THEN pending[m] + 1 ELSE pending[m]]
  /\ owed' = [m \in Node |-> IF m \in chain /\ Alive(m) THEN owed[m] + 1 ELSE owed[m]]
  /\ memo' = Refreshed(chain)
  /\ UNCHANGED <<parent, heard, value, initial, frozen>>

\* create(), and the first read of a node below what it returned, or of one
\* that died unread
Read(n) ==
  LET chain == ParentChain(n) IN
  /\ n \notin built
  /\ parent[n] # NoNode => \E r \in Up(n) \cap built : parent[r] = NoNode
  /\ WalkIsPast(n) => "late build" \in Doomed
  /\ Calls("read", Announcements(n, IF Alive(n) THEN chain ELSE {}))
  /\ Build(chain)

\* mutant: a node that is finalized already is finalized again
AnyLife == {"created", "finalized"}

Unfinalized == {"created"}

\* an exception, which the user code catches that made the call
Caught ==
  agenda' = SubSeq(agenda, Min({i \in DOMAIN agenda : agenda[i].do = "user"} \cup {Len(agenda) + 1}),
                   Len(agenda))

\* finalizeCreation, postponed as long as the parent is not ready.  In
\* development it throws when the node is dead, and the nodes that were to be
\* announced or finalized after it never are.
Finalize(n) ==
  /\ Does("finalize", n)
  /\ IF DevMode /\ ~Alive(n) THEN Caught
     ELSE Then(IF life[n] \notin Unfinalized \/ (parent[n] # NoNode /\ life[parent[n]] # "finalized")
               THEN <<>>
               ELSE (IF parent[n] = NoNode THEN <<>> ELSE <<Step("afterAttach", n)>>)
                      \o <<Step("finalized", n)>>)
  /\ UNCHANGED <<nodes, heard, disposers, snapshots>>

\* mutant: nobody comes back for the children
NoneWaiting(n) == {}

\* children that may wait for the finalization of n
Waiting(n) == Children(n)

Finalized(n) ==
  /\ Does("finalized", n)
  /\ life' = [life EXCEPT ![n] = "finalized"]
  /\ Then(Each("finalize", Waiting(n)))
  /\ UNCHANGED <<built, parent, heard, disposers, snapshots>>

-----------------------------------------------------------------------------
(* Writes and snapshots *)

\* an action on n, which runs on a dead node too
Write(n) ==
  /\ n \in built
  /\ Concealed(n) => "placed" \in Doomed
  /\ Calls("write", <<>>)
  /\ value' = [value EXCEPT ![n] = 1 - @]
  /\ memo' = WithoutOutdated(n)
  /\ UNCHANGED <<nodes, heard, disposers, initial, frozen>>

\* getSnapshot(n)
ReadSnapshot(n) ==
  /\ n \in built /\ Alive(n) /\ memo[n] = Unread
  /\ (\E i \in DOMAIN agenda : /\ agenda[i].do \in {"store", "leave", "die"}
                               /\ InitialRead(n) \cap Up(agenda[i].node) # {})
       => "placed" \in Doomed
  /\ Calls("snapshot", <<>>)
  /\ memo' = Memoized(built, {n})
  /\ initial' = [q \in Node |-> IF q \in InitialRead(n) THEN Value(built, q, FALSE) ELSE initial[q]]
  /\ UNCHANGED <<nodes, heard, disposers, value, frozen>>

-----------------------------------------------------------------------------
(* Attaching and detaching *)

\* an assignment of the root x to a slot of p: the hook runs before p has it
Attach(x, p) ==
  /\ {x, p} \subseteq built /\ Alive(x) /\ Alive(p)
  /\ parent[x] = NoNode /\ x \notin Up(p) /\ ~Underway(x)
  /\ life[x] # "finalized" => "twice" \in Doomed
  /\ WalkIsPast(p) /\ ~FoundLate(x, p) => "late child" \in Doomed
  /\ (\E d \in Up(p) : Planned("die", d)) => FinalizationAllows(x)
  /\ Concealed(p) => "placed" \in Doomed
  /\ Calls("attach", <<Step("afterAttach", x), [do |-> "store", node |-> x, arg |-> {p}]>>)
  /\ parent' = [parent EXCEPT ![x] = p]
  /\ UNCHANGED <<life, built, heard, disposers, snapshots>>

Store(x) ==
  /\ Does("store", x)
  /\ Then(<<>>)
  /\ memo' = WithoutOutdated(parent[x])
  /\ UNCHANGED <<nodes, heard, disposers, value, initial, frozen>>

\* clearParent, up to the hook
Detach(n) ==
  /\ n \in built /\ Alive(n) /\ parent[n] \in built /\ ~Underway(n)
  /\ life[n] # "finalized" => "unfinalized" \in Doomed
  /\ WalkIsPast(n) \/ Planned("aboutToDie", n) => "rescued" \in Doomed
  /\ Concealed(parent[n]) => "placed" \in Doomed
  /\ Calls("detach", <<Step("beforeDetach", n), Step("leave", n)>>)
  /\ UNCHANGED <<nodes, heard, disposers, snapshots>>

\* and after it
Leave(n) ==
  /\ Does("leave", n)
  /\ Then(<<>>)
  /\ parent' = [parent EXCEPT ![n] = NoNode]
  /\ memo' = WithoutOutdated(parent[n])
  /\ UNCHANGED <<life, built, heard, disposers, value, initial, frozen>>

-----------------------------------------------------------------------------
(* Death *)

\* destroy(n): the parent removes it, or it dies as a root
Destroy(n) ==
  /\ n \in built /\ Alive(n) /\ parent[n] \in built \cup {NoNode} /\ ~Underway(n)
  /\ FinalizationAllows(n)
  /\ WalkIsPast(n) => "again" \in Doomed
  /\ Concealed(n) => "placed" \in Doomed
  /\ Calls("destroy", <<Step("aboutToDie", n), Step("die", n)>>)
  /\ UNCHANGED <<nodes, heard, disposers, snapshots>>

\* mutant: a node nothing has read is not built
NoChain(n) == {}

\* what aboutToDie builds: a node nothing has read, with a child that is built
BuiltForFarewell(n) ==
  IF n \notin built /\ Children(n) \cap built # {} THEN ParentChain(n) ELSE {}

\* the children are told first; those of a node that was built are the same
\* afterwards
AboutToDie(n) ==
  LET chain == BuiltForFarewell(n)
      walked == IF n \in built THEN Node ELSE Children(n)
  IN
  /\ Does("aboutToDie", n)
  /\ IF ~Alive(n)
     THEN Then(<<>>) /\ UNCHANGED <<nodes, heard, disposers, snapshots>>
     ELSE /\ Then(Announcements(n, chain) \o Each("aboutToDie", Children(n))
                    \o <<[do |-> "childrenToldOf", node |-> n, arg |-> walked]>>)
          /\ Build(chain)

\* mutant: the disposers run before the hook
DisposersFirst(n) == <<Step("dispose", n), Step("beforeDestroy", n)>>

Farewell(n) == <<Step("beforeDestroy", n), Step("dispose", n)>>

ChildrenTold(n) ==
  /\ Does("childrenToldOf", n)
  /\ Then(IF n \notin built THEN <<>>
          ELSE Each("aboutToDie", Children(n) \ Head(agenda).arg) \o Farewell(n))
  /\ UNCHANGED <<nodes, heard, disposers, snapshots>>

\* the disposers that are registered now run, then all are dropped
Dispose(n) ==
  /\ Does("dispose", n)
  /\ owed' = [owed EXCEPT ![n] = @ - pending[n]]
  /\ Then((IF pending[n] = 0 THEN <<>> ELSE UserCode(n)) \o <<Step("clear", n)>>)
  /\ UNCHANGED <<nodes, heard, pending, snapshots>>

Clear(n) ==
  /\ Does("clear", n)
  /\ Then(<<>>)
  /\ pending' = [pending EXCEPT ![n] = 0]
  /\ UNCHANGED <<nodes, heard, owed, snapshots>>

\* mutant: the children are gone when the snapshot is taken
OwnValue(m) == {<<m, value[m]>>}

LastSnapshot(m) == Shown(m)

\* finalizeDeath, then the parent clears the slot
Die(n) ==
  LET dying == Below(n)
      outdated == IF parent[n] = NoNode THEN {} ELSE Outdated(parent[n])
      memoized == Memoized(built, {m \in dying : memo[m] = Unread})
  IN
  /\ Does("die", n)
  /\ Then(<<>>)
  /\ life' = [m \in Node |-> IF m \in dying THEN "dead" ELSE life[m]]
  /\ parent' = [m \in Node |-> IF m \in dying THEN NoNode ELSE parent[m]]
  /\ pending' = [m \in Node |-> IF m \in dying THEN 0 ELSE pending[m]]
  /\ frozen' = [m \in Node |-> IF m \in dying THEN LastSnapshot(m) ELSE frozen[m]]
  /\ memo' = [m \in Node |-> IF m \in outdated THEN Unread
                             ELSE IF m \in dying THEN [memoized[m] EXCEPT !.seen = LastSnapshot(m)]
                             ELSE memoized[m]]
  /\ UNCHANGED <<built, heard, owed, value, initial>>

\* addDisposer(n)
AddDisposer(n) ==
  /\ n \in built /\ Alive(n)
  /\ SaidFarewell(n) /\ ~Planned("dispose", n) => "late disposer" \in Doomed
  /\ Calls("addDisposer", <<>>)
  /\ pending' = [pending EXCEPT ![n] = @ + 1]
  /\ owed' = [owed EXCEPT ![n] = @ + 1]
  /\ UNCHANGED <<nodes, heard, snapshots>>

-----------------------------------------------------------------------------
UserCalls ==
  \E n \in Node :
    \/ Read(n)
    \/ Write(n)
    \/ ReadSnapshot(n)
    \/ \E p \in Node : Attach(n, p)
    \/ Detach(n)
    \/ Destroy(n)
    \/ AddDisposer(n)

NextStep ==
  \E n \in Node :
    \/ Return(n)
    \/ Created(n)
    \/ \E hook \in Hooks \ {"afterCreate"} : FireHook(n, hook)
    \/ Finalize(n)
    \/ Finalized(n)
    \/ Store(n)
    \/ Leave(n)
    \/ AboutToDie(n)
    \/ ChildrenTold(n)
    \/ Dispose(n)
    \/ Clear(n)
    \/ Die(n)

Next == UserCalls \/ NextStep

Spec == Init /\ [][Next]_vars

-----------------------------------------------------------------------------
(* Properties *)

\* What a node hears of its own life comes in order, each hook once for what it
\* tells of, whatever other hooks do meanwhile (fireHook, finalizeCreation).
Protocol == INSTANCE HookProtocol

HeardInOrder == Protocol!Spec

\* When all user code has returned, a node that can be read is finalized, and
\* knows by its hooks whether it has a parent (baseFinalizeCreation postpones).
Announced ==
  Idle => \A n \in built : Alive(n) =>
    /\ life[n] = "finalized"
    /\ parent[n] # NoNode <=> Last(heard[n]) = "afterAttach"

\* An instance does not die without its beforeDestroy, and all disposers added
\* to it, by whichever hook, have run by then (addDisposer, aboutToDie).
Released ==
  \A n \in Node : ~Alive(n) => owed[n] = 0 /\ (heard[n] # <<>> => SaidFarewell(n))

\* A node says farewell after its children and while its parent is an instance
\* that has not (aboutToDie).
LeavesFirst ==
  [][\A n \in Node : heard'[n] # heard[n] /\ SaidFarewell(n)' =>
       /\ \A k \in Children(n) \cap built : SaidFarewell(k)
       /\ parent[n] # NoNode => parent[n] \in built /\ ~SaidFarewell(parent[n])]_vars

\* Whenever user code can look, getSnapshot of a live instance is its latest state,
\* also where it was memoized before the instance existed (mst-operations.ts:353).
SnapshotIsCurrent ==
  UserTurn => \A n \in built : Alive(n) => Shown(n) = Latest(n)

\* The snapshot of a dead node is what it was when the node died, for good: also
\* when it is written to, or read for the first time, after that; and it stays dead.
DeathKeepsSnapshot ==
  [][\A n \in Node :
       /\ life[n] = "dead" => life'[n] = "dead" /\ Shown(n)' = Shown(n)
       /\ Alive(n) /\ life'[n] = "dead" => Shown(n)' = Latest(n)]_vars
=============================================================================
