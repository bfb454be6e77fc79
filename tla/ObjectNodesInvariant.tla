----------------------- MODULE ObjectNodesInvariant -----------------------
(***************************************************************************)
(* Why hooks, disposers and snapshots go right in one tree of object       *)
(* nodes: the inductive invariant, and what the steps of the life cycle    *)
(* do, in the terms of that invariant.                                     *)
(*                                                                         *)
(* The agenda is seen as a stack, from its last step up: a step keeps the  *)
(* stack up to a height, may pop what is above it, and puts new steps      *)
(* there.  ObjectNodesProofs shows that every action has one of the        *)
(* effects below, and that each of them preserves the invariant.           *)
(***************************************************************************)
EXTENDS ObjectNodes

\* The links from each node to the one that holds it
ParentFunction == [Node -> Node \cup {NoNode}]

\* The agenda from the step that is last to be done to the first: what is
\* there already keeps its place when other steps are put in front of it.
Stack(s) == [h \in 1 .. Len(s) |-> s[Len(s) + 1 - h]]

-----------------------------------------------------------------------------
(* The inductive invariant *)

\* Only three kinds of step say more than what is done to which node.
StepRecord ==
  {s \in [do : Steps, node : Node, arg : SUBSET Node] :
     s.do \notin {"afterCreate", "store", "childrenToldOf"} => s.arg = {}}

Lives == {"initializing", "created", "finalized", "dead"}

Typed ==
  /\ agenda \in Seq(StepRecord)
  /\ life \in [Node -> Lives]
  /\ built \subseteq Node
  /\ parent \in ParentFunction /\ Rooted(parent)
  /\ heard \in [Node -> Seq(Hooks)]

stack == Stack(agenda)

Above(n) == Ancestors(parent, n)

Is(s, do, n) == s.do = do /\ s.node = n

\* That step is still to be done.
On(do, n) == \E h \in DOMAIN stack : Is(stack[h], do, n)

\* A step that a call would cut short that removes one of its nodes.
Firm(s) == s.do \notin {"user", "finalize", "finalized", "aboutToDie"}

\* The nodes that a step needs alive
About(s) == {s.node} \cup (IF s.do = "childrenToldOf" THEN {} ELSE s.arg)

Telling == {"aboutToDie", "childrenToldOf", "beforeDestroy", "die"}

Taking == Telling \cup {"leave"}

\* What comes before a firm step on the same node: its farewell before it
\* dies, told at once, and before its disposers.
Precedes(a, b, next) ==
  /\ a.node = b.node
  /\ \/ /\ a.do = "die" /\ b.do \in {"aboutToDie", "childrenToldOf", "beforeDestroy"}
        /\ b.do = "aboutToDie" => next
     \/ a.do = "dispose" /\ b.do = "beforeDestroy"

\* Nothing that is to be done before a firm step takes its nodes away.
NothingTaken ==
  \A h1, h2 \in DOMAIN stack :
    h1 < h2 /\ Firm(stack[h1]) /\ stack[h2].do \in Taking =>
      \A n \in About(stack[h1]) :
        stack[h2].node \in Above(n) => Precedes(stack[h1], stack[h2], h2 = h1 + 1)

\* A step that finalizes a node, which has to be alive then
Finishing(s) == s.do = "finalized" \/ (DevMode /\ s.do = "finalize")

\* Nor kills a node that is about to be finalized.
NotRevived ==
  \A h1, h2 \in DOMAIN stack :
    h1 < h2 /\ Finishing(stack[h1]) /\ stack[h2].do \in Telling =>
      stack[h2].node \notin Above(stack[h1].node)

\* Firm steps are about live nodes, and all but the walk about instances.
OfTheLiving ==
  \A h \in DOMAIN stack :
    /\ Firm(stack[h]) \/ Finishing(stack[h]) => \A n \in About(stack[h]) : Alive(n)
    /\ Firm(stack[h]) /\ stack[h].do # "childrenToldOf" => About(stack[h]) \subseteq built

\* What is known when a step is planned, and still when it is done.
Storing ==
  \A h \in DOMAIN stack : stack[h].do = "store" =>
    LET x == stack[h].node IN
    stack[h].arg = {parent[x]} /\ parent[x] # NoNode /\ life[x] = "finalized"

Leaving ==
  \A h \in DOMAIN stack : stack[h].do = "leave" =>
    LET x == stack[h].node IN
    /\ parent[x] # NoNode /\ life[x] = "finalized"
    /\ heard[x] # <<>>
    /\ \/ Last(heard[x]) = "beforeDetach"
       \/ h = Len(agenda) - 1 /\ Is(stack[h + 1], "beforeDetach", x) /\ ~SaidFarewell(x)
    /\ \A h1 \in 1 .. h - 1 : ~Is(stack[h1], "aboutToDie", x)

\* What is leaving would have been told, if anything above it dies.
LeavingEarly ==
  \A h \in DOMAIN stack : stack[h].do = "leave" =>
    LET x == stack[h].node IN
    \A k \in 1 .. h - 1 : stack[k].do = "die" /\ stack[k].node \in Above(x) =>
      \E j \in k + 1 .. h - 1 : ComesTo(stack[j], x)

MovedOnce ==
  \A h1, h2 \in DOMAIN stack :
    /\ stack[h1].do \in {"store", "leave"} /\ stack[h2].do \in {"store", "leave"}
    /\ stack[h1].node = stack[h2].node
    => h1 = h2

Detaching ==
  \A h \in DOMAIN stack : stack[h].do = "beforeDetach" =>
    LET x == stack[h].node IN
    /\ h = Len(agenda) /\ h > 1 /\ Is(stack[h - 1], "leave", x)
    /\ heard[x] # <<>> /\ Last(heard[x]) = "afterAttach"

Attaching ==
  \A h \in DOMAIN stack : stack[h].do = "afterAttach" =>
    LET x == stack[h].node IN
    /\ h = Len(agenda) /\ h > 1 /\ parent[x] # NoNode
    /\ Is(stack[h - 1], "store", x) \/ Is(stack[h - 1], "finalized", x)
    /\ heard[x] # <<>> /\ Last(heard[x]) \in {"afterCreate", "beforeDetach"}

Creating ==
  \A h \in DOMAIN stack : stack[h].do = "afterCreate" =>
    LET n == stack[h].node IN
    /\ n \notin stack[h].arg /\ stack[h].arg \subseteq Above(n)
    /\ \A m \in About(stack[h]) : life[m] = "created" /\ heard[m] = <<>>
    /\ \A m \in stack[h].arg, z \in Above(n) : m \in Above(z) /\ z # n => z \in stack[h].arg

Finalizing ==
  \A h \in DOMAIN stack : stack[h].do = "finalized" =>
    LET n == stack[h].node IN
    /\ life[n] = "created" /\ heard[n] # <<>>
    /\ \/ parent[n] = NoNode /\ Last(heard[n]) = "afterCreate"
       \/ /\ parent[n] # NoNode /\ life[parent[n]] = "finalized"
          /\ \/ Last(heard[n]) = "afterAttach"
             \/ /\ h = Len(agenda) - 1 /\ Is(stack[h + 1], "afterAttach", n)
                /\ Last(heard[n]) = "afterCreate"

Disposing ==
  \A h \in DOMAIN stack :
    /\ stack[h].do = "beforeDestroy" => h > 1 /\ Is(stack[h - 1], "dispose", stack[h].node)
    /\ stack[h].do = "dispose" =>
         SaidFarewell(stack[h].node) \/ (h < Len(agenda) /\ Is(stack[h + 1], "beforeDestroy", stack[h].node))
    /\ stack[h].do = "clear" => SaidFarewell(stack[h].node) /\ ~On("dispose", stack[h].node)

DisposedOnce ==
  \A h1, h2 \in DOMAIN stack :
    stack[h1].do = "dispose" /\ stack[h2].do = "dispose" /\ stack[h1].node = stack[h2].node => h1 = h2

DyingPlaced ==
  \A h \in DOMAIN stack : stack[h].do = "die" => parent[stack[h].node] \in built \cup {NoNode}

\* A node without instance has heard nothing; an instance below a node without
\* one is finalized; a dead node has no links.
LifeOfNodes ==
  \A n \in Node :
    /\ n \notin built => heard[n] = <<>> /\ life[n] \in {"initializing", "dead"}
    /\ n \in built => life[n] # "initializing"
    /\ n \in built /\ Alive(n) /\ parent[n] # NoNode /\ parent[n] \notin built => life[n] = "finalized"
    /\ ~Alive(n) => parent[n] = NoNode /\ \A c \in Node : parent[c] # n

-----------------------------------------------------------------------------
(* What has been heard *)

CreatedOnce ==
  \A h1, h2 \in DOMAIN stack :
    h1 # h2 /\ stack[h1].do = "afterCreate" /\ stack[h2].do = "afterCreate" =>
      About(stack[h1]) \cap About(stack[h2]) = {}

HeardNothing ==
  \A n \in built : Alive(n) =>
    (heard[n] = <<>> <=>
      \E h \in DOMAIN stack : stack[h].do = "afterCreate" /\ n \in About(stack[h]))

\* What a live node has heard last tells whether it is finalized and placed.
HeardLast ==
  \A n \in built : Alive(n) /\ heard[n] # <<>> =>
    \/ SaidFarewell(n)
    \/ life[n] = "created" /\ Last(heard[n]) = "afterCreate"
    \/ life[n] = "created" /\ Last(heard[n]) = "afterAttach" /\ On("finalized", n)
    \/ life[n] = "finalized" /\ parent[n] = NoNode /\ Last(heard[n]) \in {"afterCreate", "beforeDetach"}
    \/ life[n] = "finalized" /\ parent[n] # NoNode /\ Last(heard[n]) = "afterAttach"
    \/ /\ life[n] = "finalized" /\ parent[n] # NoNode
       /\ Last(heard[n]) \in {"afterCreate", "beforeDetach"} /\ On("afterAttach", n)
    \/ /\ life[n] = "finalized" /\ parent[n] # NoNode
       /\ Last(heard[n]) = "beforeDetach" /\ On("leave", n)

\* The parents that are not finalized, up to which a finalization can pass
unready ==
  [m \in Node |-> IF life[m] = "created" /\ parent[m] # NoNode /\ life[parent[m]] = "created"
                  THEN parent[m] ELSE NoNode]

Finalizes(s, y) ==
  \/ s.do \in {"finalize", "finalized"} /\ s.node = y
  \/ s.do = "afterCreate" /\ y \in About(s)

\* Nothing above h finalizes n, nor a parent that it waits for.
Unreached(h, n) ==
  \A h2 \in DOMAIN stack : h2 > h =>
    \A y \in Ancestors(unready, n) : Finalizes(stack[h2], y) => life[y] # "created"

NotTooEarly ==
  \A h \in DOMAIN stack :
    /\ stack[h].do = "afterCreate" => \A n \in About(stack[h]) : Unreached(h, n)
    /\ stack[h].do = "finalized" => Unreached(h, stack[h].node)

\* Somebody finalizes every node that is created.
Awaited ==
  \A n \in Node : life[n] = "created" =>
    \/ \E h \in DOMAIN stack : Finalizes(stack[h], n)
    \/ parent[n] # NoNode /\ life[parent[n]] # "finalized"

-----------------------------------------------------------------------------
(* The walk that tells the nodes of a tree that they die *)

Saying(s, n) == s.do \in {"childrenToldOf", "beforeDestroy"} /\ s.node = n

\* n is saying farewell, or has
Told(n) == SaidFarewell(n) \/ \E h \in DOMAIN stack : Saying(stack[h], n)

\* n dies with step k, and nothing comes to it before
Past(k, n) ==
  /\ stack[k].do = "die" /\ stack[k].node \in Above(n)
  /\ \A h \in DOMAIN stack : h > k => ~ComesTo(stack[h], n)

WalkSteps == {"aboutToDie", "childrenToldOf", "beforeDestroy", "dispose"}

\* What says farewell dies soon.
DiesSoon ==
  \A n \in Node, h \in DOMAIN stack : Saying(stack[h], n) =>
    \E k \in 1 .. h - 1 : Past(k, n) /\ \A j \in k + 1 .. h - 1 : stack[j].do \in WalkSteps

\* What has said farewell dies, and is not finalized before.
DiesUnchanged ==
  \A n \in Node : Alive(n) /\ SaidFarewell(n) =>
    \E k \in DOMAIN stack : Past(k, n) /\ Unreached(k, n)

ToldFromAbove ==
  \A n \in Node : Alive(n) /\ Told(n) => On("die", n) \/ (parent[n] # NoNode /\ Told(parent[n]))

\* Who tells a node: its death, or its parent, among the other children.
ToldBy ==
  \A h \in DOMAIN stack : stack[h].do = "aboutToDie" /\ Alive(stack[h].node) =>
    LET n == stack[h].node IN
    \/ h > 1 /\ Is(stack[h - 1], "die", n)
    \/ /\ parent[n] # NoNode
       /\ \E h2 \in 1 .. h - 1 :
            /\ Saying(stack[h2], parent[n])
            /\ stack[h2].do = "childrenToldOf" => n \in stack[h2].arg
            /\ \A j \in h2 + 1 .. h - 1 : stack[j].do = "aboutToDie" /\ stack[j].node # n

OnceSaid ==
  \A n \in Node, h \in DOMAIN stack : Saying(stack[h], n) =>
    ~SaidFarewell(n) /\ \A h2 \in DOMAIN stack : Saying(stack[h2], n) => h2 = h

Done(c) == (c \notin built \/ SaidFarewell(c)) /\ ~\E h \in DOMAIN stack : Saying(stack[h], c)

Coming(c, h) == \E h1 \in DOMAIN stack : h1 > h /\ (Is(stack[h1], "aboutToDie", c) \/ Saying(stack[h1], c))

\* The children are told before their parent says farewell.
ChildrenCovered ==
  \A h \in DOMAIN stack, c \in Node :
    Saying(stack[h], parent[c]) /\ (stack[h].do = "childrenToldOf" => c \in stack[h].arg) =>
      Done(c) \/ Coming(c, h)

ChildrenDone == \A c \in Node : parent[c] # NoNode /\ SaidFarewell(parent[c]) => Done(c)

\* Nothing below a node without instance has one when the walk is past it.
NothingBelow ==
  \A c \in Node :
    /\ parent[c] # NoNode /\ parent[c] \notin built
    /\ \E k \in DOMAIN stack : Past(k, parent[c])
    /\ ~On("childrenToldOf", parent[c])
    => c \notin built /\ ~On("childrenToldOf", c)

NothingFound ==
  \A h \in DOMAIN stack, c \in Node :
    stack[h].do = "childrenToldOf" /\ stack[h].node \notin built /\ parent[c] = stack[h].node =>
      c \notin built /\ c \in stack[h].arg

WillSay ==
  \A k \in DOMAIN stack : stack[k].do = "die" =>
    SaidFarewell(stack[k].node) \/ Coming(stack[k].node, k)

ParentBuilt ==
  \A h \in DOMAIN stack :
    stack[h].do \in {"childrenToldOf", "beforeDestroy"} /\ stack[h].node \in built =>
      parent[stack[h].node] \in built \cup {NoNode}

\* The disposers of a node are run by its farewell.
Disposed ==
  /\ pending \in [Node -> Nat] /\ owed \in [Node -> Nat]
  /\ \A n \in Node : n \notin built => pending[n] = 0
  /\ \A n \in Node : owed[n] = IF SaidFarewell(n) /\ ~On("dispose", n) THEN 0 ELSE pending[n]

Farewells ==
  \A n \in Node : ~Alive(n) => owed[n] = 0 /\ (heard[n] # <<>> => SaidFarewell(n))

IInv ==
  /\ Typed
  /\ NothingTaken /\ NotRevived /\ OfTheLiving
  /\ Storing /\ Leaving /\ LeavingEarly /\ MovedOnce /\ Detaching /\ Attaching
  /\ Creating /\ Finalizing /\ Disposing /\ DisposedOnce /\ DyingPlaced
  /\ LifeOfNodes
  /\ CreatedOnce /\ HeardNothing /\ HeardLast
  /\ NotTooEarly /\ Awaited
  /\ DiesSoon /\ DiesUnchanged /\ ToldFromAbove /\ ToldBy /\ OnceSaid
  /\ ChildrenCovered /\ ChildrenDone /\ NothingBelow /\ NothingFound /\ WillSay /\ ParentBuilt
  /\ Disposed /\ Farewells

-----------------------------------------------------------------------------
(* What a step does to the stack *)

top == Len(agenda)

\* The lowest b steps stay.
Kept(b) ==
  /\ b \in Nat /\ b <= Len(agenda) /\ b <= Len(agenda')
  /\ \A h \in 1 .. b : stack'[h] = stack[h]

OnTop(do, n) == top > 0 /\ Is(stack[top], do, n)

UserOnTop == top > 0 => stack[top].do = "user"

\* Steps that leave the nodes alone: what is next is put off, replaced or done.
Same == UNCHANGED <<life, built, parent, heard>>

Passes == Kept(top) /\ Len(agenda') = top /\ Same

Shortens == Kept(top - 1) /\ Len(agenda') = top - 1

Returns == top > 0 /\ stack[top].do \in {"user", "store", "clear"} /\ Shortens /\ Same

Disposes(n) ==
  /\ OnTop("dispose", n) /\ Kept(top - 1) /\ top \in DOMAIN stack' /\ stack'[top] = Step("clear", n)
  /\ \A h \in DOMAIN stack' : h > top => stack'[h].do = "user"
  /\ Same

Waits(n) ==
  /\ OnTop("finalize", n)
  /\ life[n] = "created" => parent[n] # NoNode /\ life[parent[n]] # "finalized"
  /\ Shortens /\ Same

Skips(n) == OnTop("aboutToDie", n) /\ ~Alive(n) /\ Shortens /\ Same

Ends(n) == OnTop("childrenToldOf", n) /\ n \notin built /\ Shortens /\ Same

\* The steps that announce creations
Chained(n, chain) == [do |-> "afterCreate", node |-> n, arg |-> chain \ {n}]

Announces(n) ==
  /\ OnTop("afterCreate", n) /\ Kept(top - 1)
  /\ heard' = [heard EXCEPT ![n] = Append(@, "afterCreate")] /\ UNCHANGED <<life, built, parent>>
  /\ \A h \in DOMAIN stack' : h >= top =>
       \/ stack'[h] = Step("user", n)
       \/ stack'[h] = Step("finalize", n)
       \/ h = top /\ stack[top].arg # {} /\ stack'[h] = Chained(parent[n], stack[top].arg)
  /\ \E h \in DOMAIN stack' : h >= top /\ stack'[h] = Step("finalize", n)
  /\ stack[top].arg # {} => top \in DOMAIN stack' /\ stack'[top] = Chained(parent[n], stack[top].arg)

\* Every other hook
Fires(n, hook) ==
  /\ hook \in {"afterAttach", "beforeDetach", "beforeDestroy"} /\ OnTop(hook, n) /\ Kept(top - 1)
  /\ \A h \in DOMAIN stack' : h >= top => stack'[h].do = "user"
  /\ heard' = [heard EXCEPT ![n] = Append(@, hook)] /\ UNCHANGED <<life, built, parent>>

\* Finalization
Readies(n) ==
  /\ OnTop("finalize", n) /\ Kept(top - 1)
  /\ life[n] = "created" /\ (parent[n] # NoNode => life[parent[n]] = "finalized")
  /\ Len(agenda') = IF parent[n] = NoNode THEN top ELSE top + 1
  /\ stack'[top] = Step("finalized", n)
  /\ parent[n] # NoNode => stack'[top + 1] = Step("afterAttach", n)
  /\ Same

Completes(n) ==
  /\ OnTop("finalized", n) /\ Kept(top - 1)
  /\ life' = [life EXCEPT ![n] = "finalized"] /\ UNCHANGED <<built, parent, heard>>
  /\ \A h \in DOMAIN stack' : h >= top => \E c \in Children(n) : stack'[h] = Step("finalize", c)
  /\ \A c \in Children(n) : \E h \in DOMAIN stack' : h >= top /\ stack'[h] = Step("finalize", c)

\* Instances are made, from n up, when one is asked for.
Builds(chain) ==
  /\ built' = built \cup chain
  /\ life' = [m \in Node |-> IF m \in chain /\ Alive(m) THEN "created" ELSE life[m]]
  /\ UNCHANGED <<parent, heard>>

Reads(n) ==
  /\ n \notin built /\ ~(\E k \in DOMAIN stack : Past(k, n))
  /\ UserOnTop /\ Kept(top)
  /\ Len(agenda') = IF Alive(n) THEN top + 1 ELSE top
  /\ Alive(n) => stack'[top + 1] = Chained(n, ParentChain(n))
  /\ Builds(ParentChain(n))

\* Nothing above n without instance was asked for its snapshot.
Exposed(n) == \A a \in Above(n) \ built : initial[a] = Unread

\* Nothing below n is about to be finalized.
NothingFinishes(n) ==
  \A m \in Below(n) : ~On("finalized", m) /\ (DevMode => ~On("finalize", m))

\* The calls of user code that place, remove and destroy a node
Attaches(x, p) ==
  /\ x \in built /\ p \in built /\ Alive(x) /\ Alive(p)
  /\ parent[x] = NoNode /\ x \notin Above(p) /\ ~Underway(x) /\ life[x] = "finalized"
  /\ (\E k \in DOMAIN stack : Past(k, p)) =>
       \E h \in DOMAIN stack : Is(stack[h], "childrenToldOf", p) /\ x \notin stack[h].arg
  /\ (\E d \in Above(p) : On("die", d)) => NothingFinishes(x)
  /\ Exposed(p)
  /\ UserOnTop /\ Kept(top) /\ Len(agenda') = top + 2
  /\ stack'[top + 1] = [do |-> "store", node |-> x, arg |-> {p}]
  /\ stack'[top + 2] = Step("afterAttach", x)
  /\ parent' = [parent EXCEPT ![x] = p] /\ UNCHANGED <<life, built, heard>>

Leaves(n) ==
  /\ OnTop("leave", n) /\ Shortens
  /\ parent' = [parent EXCEPT ![n] = NoNode] /\ UNCHANGED <<life, built, heard>>

Detaches(n) ==
  /\ n \in built /\ Alive(n) /\ parent[n] \in built /\ ~Underway(n) /\ life[n] = "finalized"
  /\ ~(\E k \in DOMAIN stack : Past(k, n)) /\ ~On("aboutToDie", n)
  /\ Exposed(parent[n])
  /\ UserOnTop /\ Kept(top) /\ Len(agenda') = top + 2
  /\ stack'[top + 1] = Step("leave", n) /\ stack'[top + 2] = Step("beforeDetach", n)
  /\ Same

Destroys(n) ==
  /\ n \in built /\ Alive(n) /\ parent[n] \in built \cup {NoNode} /\ ~Underway(n)
  /\ ~(\E k \in DOMAIN stack : Past(k, n)) /\ NothingFinishes(n)
  /\ Exposed(n)
  /\ UserOnTop /\ Kept(top) /\ Len(agenda') = top + 2
  /\ stack'[top + 1] = Step("die", n) /\ stack'[top + 2] = Step("aboutToDie", n)
  /\ Same

\* The children in S of n are told, above height b.
Tells(b, S) ==
  /\ \A c \in S : \E h \in DOMAIN stack' : h > b /\ stack'[h] = Step("aboutToDie", c)

Told1(b, h, S) ==
  \E c \in S : /\ stack'[h] = Step("aboutToDie", c)
               /\ \A j \in b + 1 .. h - 1 : \E e \in S : stack'[j] = Step("aboutToDie", e) /\ e # c

\* The walk reaches n, and comes back to it when its children have been told.
WalksOn(n) ==
  /\ OnTop("aboutToDie", n) /\ Alive(n) /\ Kept(top - 1) /\ top \in DOMAIN stack'
  /\ stack'[top] = [do |-> "childrenToldOf", node |-> n, arg |-> IF n \in built THEN Node ELSE Children(n)]
  /\ \A h \in DOMAIN stack' : h > top =>
       \/ Told1(top, h, Children(n))
       \/ /\ h = Len(agenda') /\ BuiltForFarewell(n) # {}
          /\ stack'[h] = Chained(n, BuiltForFarewell(n))
  /\ Tells(top, Children(n))
  /\ BuiltForFarewell(n) # {} => /\ Len(agenda') > top
                                 /\ stack'[Len(agenda')] = Chained(n, BuiltForFarewell(n))
  /\ Builds(BuiltForFarewell(n))

TellsRest(n) ==
  LET rest == Children(n) \ stack[top].arg IN
  /\ OnTop("childrenToldOf", n) /\ n \in built /\ Kept(top - 1) /\ top + 1 \in DOMAIN stack'
  /\ stack'[top] = Step("dispose", n) /\ stack'[top + 1] = Step("beforeDestroy", n)
  /\ \A h \in DOMAIN stack' : h > top + 1 => Told1(top + 1, h, rest)
  /\ Tells(top + 1, rest)
  /\ Same

Dies(d) ==
  /\ OnTop("die", d) /\ Shortens
  /\ life' = [m \in Node |-> IF m \in Below(d) THEN "dead" ELSE life[m]]
  /\ parent' = [m \in Node |-> IF m \in Below(d) THEN NoNode ELSE parent[m]]
  /\ UNCHANGED <<built, heard>>

\* Every step of the model is one of these.
Effect ==
  \/ Passes \/ Returns
  \/ \E n \in Node :
       \/ Disposes(n) \/ Waits(n) \/ Skips(n) \/ Ends(n)
       \/ Announces(n) \/ (\E hook \in Hooks : Fires(n, hook))
       \/ Readies(n) \/ Completes(n)
       \/ Reads(n) \/ (\E p \in Node : Attaches(n, p)) \/ Leaves(n) \/ Detaches(n)
       \/ Destroys(n) \/ WalksOn(n) \/ TellsRest(n) \/ Dies(n)

-----------------------------------------------------------------------------
(* What stays, what is popped and what is new on the stack *)

\* Where the steps at height h that are new after a step come from
NewCreation(h) ==
  LET s == stack'[h] IN
  \/ \E n \in Node : Announces(n) /\ h = top /\ stack[top].arg # {} /\ s = Chained(parent[n], stack[top].arg)
  \/ Reads(s.node) /\ Alive(s.node) /\ h = top + 1 /\ s = Chained(s.node, ParentChain(s.node))
  \/ /\ WalksOn(s.node) /\ h = Len(agenda') /\ h > top /\ BuiltForFarewell(s.node) # {}
     /\ s = Chained(s.node, BuiltForFarewell(s.node))

NewTelling(h) ==
  LET s == stack'[h] IN
  \/ Destroys(s.node) /\ h = top + 2
  \/ \E n \in Node : /\ WalksOn(n) /\ h > top /\ Told1(top, h, Children(n)) /\ s.node \in Children(n)
  \/ \E n \in Node : /\ TellsRest(n) /\ h > top + 1 /\ s.node \in Children(n) \ stack[top].arg
                     /\ Told1(top + 1, h, Children(n) \ stack[top].arg)

NewStep(h) ==
  LET s == stack'[h] IN
  /\ s.node \in Node
  /\ \/ s.do = "user"
     \/ s.do = "clear" /\ Disposes(s.node) /\ h = top
     \/ s.do = "finalize" /\ (Announces(s.node) \/ \E n \in Node : Completes(n) /\ s.node \in Children(n))
     \/ s.do = "finalized" /\ Readies(s.node) /\ h = top
     \/ /\ s.do = "afterAttach"
        /\ \/ Readies(s.node) /\ h = top + 1 /\ h = Len(agenda') /\ parent[s.node] # NoNode
           \/ \E p \in Node : Attaches(s.node, p) /\ h = top + 2
     \/ s.do = "afterCreate" /\ NewCreation(h)
     \/ s.do = "store" /\ h = top + 1 /\ \E p \in Node : Attaches(s.node, p) /\ s.arg = {p}
     \/ s.do = "leave" /\ h = top + 1 /\ Detaches(s.node)
     \/ s.do = "beforeDetach" /\ h = top + 2 /\ Detaches(s.node)
     \/ s.do = "die" /\ h = top + 1 /\ Destroys(s.node)
     \/ s.do = "aboutToDie" /\ NewTelling(h)
     \/ /\ s.do = "childrenToldOf" /\ h = top /\ WalksOn(s.node)
        /\ s.arg = IF s.node \in built THEN Node ELSE Children(s.node)
     \/ s.do = "beforeDestroy" /\ h = top + 1 /\ TellsRest(s.node)
     \/ s.do = "dispose" /\ h = top /\ TellsRest(s.node)

\* What was next has been done.
Popped ==
  LET s == stack[top] IN
  /\ s.do = "afterCreate" => Announces(s.node)
  /\ s.do \in {"afterAttach", "beforeDetach", "beforeDestroy"} => Fires(s.node, s.do)
  /\ s.do = "finalize" => Waits(s.node) \/ Readies(s.node)
  /\ s.do = "finalized" => Completes(s.node)
  /\ s.do = "leave" => Leaves(s.node)
  /\ s.do = "aboutToDie" => Skips(s.node) \/ WalksOn(s.node)
  /\ s.do = "childrenToldOf" => Ends(s.node) \/ TellsRest(s.node)
  /\ s.do = "dispose" => Disposes(s.node)
  /\ s.do = "die" => Dies(s.node)

\* The stack stays up to b, which is all of it or all but the step that was next.
Frame(b) ==
  /\ Kept(b) /\ top \in Nat /\ b \in Nat
  /\ \/ b = top
     \/ b = top - 1 /\ top >= 1 /\ Popped
  /\ \A h \in DOMAIN stack' : h > b => NewStep(h)

-----------------------------------------------------------------------------
(* What a step does to the disposers *)

\* The step that is next runs no disposers.
NoDisposal == top > 0 => stack[top].do # "dispose"

\* Disposers are added to live instances before they have been disposed of.
Adds(S) ==
  /\ S \subseteq Node
  /\ pending' = [m \in Node |-> IF m \in S THEN pending[m] + 1 ELSE pending[m]]
  /\ owed' = [m \in Node |-> IF m \in S THEN owed[m] + 1 ELSE owed[m]]
  /\ \A m \in S : Alive(m) /\ m \in built' /\ (m \in built => ~SaidFarewell(m) \/ On("dispose", m))

\* Every step of the model is one of these to the disposers.
DisposerEffect ==
  \/ UNCHANGED vars
  \/ NoDisposal /\ UNCHANGED <<pending, owed>>
  \/ NoDisposal /\ \E S : Adds(S)
  \/ \E n \in Node : Disposes(n) /\ owed' = [owed EXCEPT ![n] = @ - pending[n]] /\ pending' = pending
  \/ \E n \in Node : NoDisposal /\ OnTop("clear", n) /\ pending' = [pending EXCEPT ![n] = 0] /\ owed' = owed
  \/ \E n \in Node : /\ NoDisposal /\ Dies(n) /\ owed' = owed
                     /\ pending' = [m \in Node |-> IF m \in Below(n) THEN 0 ELSE pending[m]]

-----------------------------------------------------------------------------
(* The invariant of snapshots *)

\* The nodes whose snapshots hold that of n
Owners(n) == Ancestors(holder, n)

\* What the snapshot of n should be
Current(n) == IF Alive(n) THEN Latest(n) ELSE frozen[n]

SnapshotTypes ==
  /\ value \in [Node -> {0, 1}]
  /\ initial \in [Node -> Snapshot \cup {Unread}]
  /\ memo \in [Node -> Memo \cup {Unread}]
  /\ frozen \in [Node -> Snapshot \cup {Unread}]
  /\ \A n \in Node : ~Alive(n) => frozen[n] # Unread

\* What is memoized is current, or what the node died with.
MemosCurrent ==
  \A n \in Node : memo[n] # Unread => memo[n].seen = Current(n)

\* So is the snapshot that a node without instance was asked for before.
InitialsCurrent ==
  \A n \in Node \ built : Alive(n) /\ initial[n] # Unread => initial[n] = Latest(n)

\* A memo of a live instance is dropped when a child is, or changes.
MemosTracked ==
  \A n \in built : Alive(n) /\ memo[n] # Unread =>
    memo[n].tracked /\ \A c \in Children(n) : memo[c] # Unread

\* Without an instance, a memo comes from the snapshot that was asked for.
MemosOfUnbuilt ==
  \A n \in Node \ built : Alive(n) /\ memo[n] # Unread => initial[n] # Unread

\* Which was put together from those below.
InitialsBelow ==
  \A n \in Node \ built : Alive(n) /\ initial[n] # Unread =>
    \A m \in Below(n) \ built : initial[m] # Unread

\* Nothing that an earlier snapshot keeps is going to change.
Changing ==
  \A h \in DOMAIN stack : stack[h].do \in {"store", "leave", "die"} => Exposed(stack[h].node)

Snapshots ==
  /\ SnapshotTypes
  /\ MemosCurrent /\ InitialsCurrent
  /\ MemosTracked /\ MemosOfUnbuilt /\ InitialsBelow

-----------------------------------------------------------------------------
(* What a step does to snapshots *)

\* Snapshots stay what they should be in a step that drops the memos of the
\* owners A of what it changes, and in which the nodes D die.
Drops(A, D) ==
  /\ UNCHANGED <<built, initial>>
  /\ \A n \in Node : Alive(n)' <=> Alive(n) /\ n \notin D
  /\ \A n \in A : n \in Node /\ (n \notin built => initial[n] = Unread)
  /\ \A c \in A, n \in Node : c \in Children(n) => n \in A
  /\ \A n \in Node \ D : /\ memo'[n] \in {memo[n], Unread}
                         /\ Alive(n) /\ n \in A => memo'[n] = Unread
                         /\ Alive(n) /\ n \notin A => memo'[n] = memo[n]
  /\ \A n \in Node \ (A \cup D) : Alive(n) =>
       /\ Latest(n)' = Latest(n)
       /\ Below(n)' \subseteq Below(n)
       /\ Children(n)' \subseteq Children(n) \ D
  /\ \A n \in Node \ D : ~Alive(n) => frozen'[n] = frozen[n]
  /\ \A n \in Node \cap D : memo'[n] # Unread => memo'[n].seen = frozen'[n]

\* Nor do they change in a step that memoizes: nodes get an instance, or one is
\* asked for its snapshot, and nodes below it without instance for theirs.
Memoizes(made, start, asked) ==
  /\ UNCHANGED <<value, frozen>> /\ holder' = holder /\ \A n \in Node : Alive(n)' <=> Alive(n)
  /\ built' = made /\ built \subseteq made /\ made \subseteq Node /\ start \subseteq made
  /\ memo' = Memoized(made, start)
  /\ initial' = [n \in Node |-> IF n \in asked THEN Current(n) ELSE initial[n]]
  /\ \A n \in asked : n \in Node /\ n \notin built /\ Alive(n)
  /\ \A n \in made \ built : memo[n] # Unread => n \in start
  /\ \A n \in Node \ made : Alive(n) /\ n \in Computed(made, start) => initial'[n] # Unread
  /\ \A n \in asked : \A m \in Below(n) \ built : initial'[m] # Unread

\* What the live node p stores changes, itself or the links to it.
Touches(p) ==
  /\ UNCHANGED <<built, initial, frozen>> /\ memo' = WithoutOutdated(p)
  /\ \A n \in Node : Alive(n)' <=> Alive(n)
  /\ value' \in [Node -> {0, 1}] /\ \A n \in Node \ {p} : value'[n] = value[n]
  /\ \A n \in Node : holder'[n] = holder[n] \/ holder'[n] \in Owners(p) \cup {NoNode}
  /\ \A n \in Node : Ancestors(holder', n) \ Owners(p) = Owners(n) \ Owners(p)

=============================================================================
