------------------------------- MODULE Actions -------------------------------
(***************************************************************************)
(* Calls of actions and the middleware they pass through.  A call on a     *)
(* node goes through the middleware of the node and of its ancestors, each *)
(* of which hands it on, ends it or throws, before its code runs; a tree   *)
(* that is protected can be written only below a node whose action runs.   *)
(* One of the middlewares is an action recorder, which listens with        *)
(* onAction on the root of a tree.  extendInstance puts members on a live  *)
(* instance in a call of its own, which unlocks the node, passes the       *)
(* middlewares, and is not recorded.                                       *)
(*                                                                         *)
(* What an action does is left open: it calls further actions, attaches    *)
(* and disposes middleware, returns or throws, and so do the handlers of   *)
(* the other middlewares.  Flows show up when they go on, outside of any   *)
(* call.                                                                   *)
(***************************************************************************)
EXTENDS Naturals, SequencesExt

CONSTANTS
  Node,
  Up,          \* of each node: it and its ancestors, from the node up
  Subject,     \* the root that is recorded
  Middleware,
  Recorder,    \* the middleware of recordActions(Subject)
  Arg,         \* kinds of arguments: "json", "date", "node", ...
  SkipsHooks,  \* middlewares that were added with includeHooks = false
  MaxCalls,    \* bound on nextActionId
  MaxDepth,    \* bound on the calls inside each other
  MaxLists     \* bound on the changes to the lists of middlewares

NoArg == "none"

ASSUME ActionsAssumption ==
  /\ Up \in [Node -> Seq(Node)]
  /\ \A n \in Node : Up[n] # <<>> /\ Head(Up[n]) = n
  /\ \A n \in Node : \A i \in DOMAIN Up[n] : Up[Up[n][i]] = SubSeq(Up[n], i, Len(Up[n]))
  /\ Subject \in Node /\ Up[Subject] = <<Subject>>
  /\ Recorder \in Middleware /\ SkipsHooks \subseteq Middleware \ {Recorder}
  /\ "json" \in Arg /\ NoArg \notin Arg
  /\ MaxCalls \in Nat /\ MaxDepth \in Nat /\ MaxLists \in Nat \ {0}

Above(n) == ToSet(Up[n])

VARIABLES
  middlewares,  \* of each node: the list it refers to, 0 for none
  lists,        \* the lists there have been; a call may still hold an older one
  stack,        \* the calls that run, innermost last
  running,      \* the nodes with _isRunningAction
  context,      \* currentActionContext
  calls,        \* nextActionId
  flows,        \* flows that can go on: their node and their root id
  records,      \* what the recorder has
  made,         \* history: the argument of the calls from outside of any call, by id,
                \* but those of extendInstance
  ran,          \* history: the recordable ones of them whose code ran
  listening     \* history: the recorder has been attached since the stack was empty

vars == <<middlewares, lists, stack, running, context, calls, flows, records, made,
          ran, listening>>

NoContext == [id |-> 0, root |-> 0]
Context == {NoContext} \cup [id : 1 .. MaxCalls, root : 1 .. MaxCalls]

Record == [id : 1 .. MaxCalls, node : Node, arg : {"json", "$MST_DATE", "$MST_UNSERIALIZABLE"}]

outermost == {i \in DOMAIN made : made[i] # NoArg}

\* one middleware of one of the lists
Step == [array : Nat, index : Nat, middleware : Middleware]

Frame == [id : 1 .. MaxCalls, root : 1 .. MaxCalls, type : {"action", "hook", "flow_resume", "extendInstance"},
          node : Node, baseIsRunning : BOOLEAN, previous : Context,
          arrays : Seq(0 .. MaxLists), arrayIndex : Nat, inArrayIndex : Nat,
          due : Seq(Seq(Middleware)), seen : Seq(Step),
          stage : {"next", "handler", "code"}, handler : Middleware]

TypeOK ==
  /\ middlewares \in [Node -> 0 .. Len(lists)]
  /\ lists \in Seq(Seq(Middleware)) /\ Len(lists) <= MaxLists
  /\ stack \in Seq(Frame)
  /\ running \subseteq Node
  /\ context \in Context
  /\ calls \in 0 .. MaxCalls
  /\ flows \subseteq Node \X (1 .. MaxCalls)
  /\ records \in Seq(Record)
  /\ made \in [1 .. MaxCalls -> Arg \cup {NoArg}] /\ ran \subseteq outermost
  /\ listening \in BOOLEAN

Init ==
  /\ middlewares = [n \in Node |-> IF n = Subject THEN 1 ELSE 0]
  /\ lists = <<<<Recorder>>>>
  /\ stack = <<>>
  /\ running = {}
  /\ context = NoContext
  /\ calls = 0
  /\ flows = {}
  /\ records = <<>>
  /\ made = [i \in 1 .. MaxCalls |-> NoArg]
  /\ ran = {}
  /\ listening = TRUE

-----------------------------------------------------------------------------
(* The stack *)

Idle == stack = <<>>

Top == Last(stack)

InCode == ~Idle /\ Top.stage = "code"

\* the code of an action or the handler of a middleware is on
InUserCode == ~Idle => Top.stage = "code" \/ (Top.stage = "handler" /\ Top.handler # Recorder)

Held(l) == IF l = 0 THEN <<>> ELSE lists[l]

ListOf(n) == Held(middlewares[n])

Attached(m) == \E n \in Node : m \in ToSet(ListOf(n))

\* CollectedMiddlewares: the lists of the node and its ancestors, not copies.
\* A node that has none counts as one with an empty list.  The list that
\* decorate puts on an action itself, which comes before them and is pushed to
\* where it is, is not among them.
Collected(n) == [i \in DOMAIN Up[n] |-> middlewares[Up[n][i]]]

\* history: what those lists hold now
Due(n) == [i \in DOMAIN Up[n] |-> ListOf(Up[n][i])]

\* runWithActionContext
Enter(id, root, type, n) ==
  /\ stack' = Append(stack,
       [id |-> id, root |-> root, type |-> type, node |-> n, baseIsRunning |-> n \in running,
        previous |-> context, arrays |-> Collected(n), arrayIndex |-> 0, inArrayIndex |-> 0,
        due |-> Due(n), seen |-> <<>>, stage |-> "next", handler |-> Recorder])
  /\ running' = running \cup {n}
  /\ context' = [id |-> id, root |-> root]
  /\ listening' = IF Idle THEN Attached(Recorder) ELSE listening

\* mutant: an exception skips the end of runWithActionContext
WithoutFinally(threw) ==
  /\ stack' = Front(stack)
  /\ IF threw THEN UNCHANGED <<running, context>>
     ELSE /\ context' = Top.previous
          /\ running' = IF Top.baseIsRunning THEN running ELSE running \ {Top.node}

\* its finally block
Leave(threw) ==
  /\ stack' = Front(stack)
  /\ context' = Top.previous
  /\ running' = IF Top.baseIsRunning THEN running ELSE running \ {Top.node}

Becomes(fields) == stack' = [stack EXCEPT ![Len(stack)] = fields]

-----------------------------------------------------------------------------
(* Calls *)

\* createActionInvoker: an action, a hook that is fired, or the attach of
\* extendInstance
Call(n, type, arg) ==
  /\ InUserCode
  /\ calls < MaxCalls /\ Len(stack) < MaxDepth
  /\ calls' = calls + 1
  /\ Enter(calls + 1, IF context = NoContext THEN calls + 1 ELSE context.root, type, n)
  /\ made' = IF Idle /\ type # "extendInstance" THEN [made EXCEPT ![calls + 1] = arg] ELSE made
  /\ UNCHANGED <<middlewares, lists, flows, records, ran>>

\* a flow that this action started goes on when the event loop gets to it
Spawn ==
  /\ InCode /\ flows = {}
  /\ flows' = {<<Top.node, Top.root>>}
  /\ UNCHANGED <<middlewares, lists, stack, running, context, calls, records, made, ran,
                 listening>>

Resume(n, root) ==
  /\ Idle /\ <<n, root>> \in flows
  /\ calls < MaxCalls
  /\ calls' = calls + 1
  /\ Enter(calls + 1, root, "flow_resume", n)
  /\ flows' = flows \ {<<n, root>>}
  /\ UNCHANGED <<middlewares, lists, records, made, ran>>

\* the call returns or throws; its caller may catch
End(threw) ==
  /\ InUserCode /\ ~Idle
  /\ Leave(threw)
  /\ UNCHANGED <<middlewares, lists, calls, flows, records, made, ran, listening>>

-----------------------------------------------------------------------------
(* Middleware *)

\* the i-th list and the j-th place in it come before the k-th and the l-th
Before(i, j, k, l) == i < k \/ (i = k /\ j < l)

\* what the lists of a call hold beyond what getNextMiddleware has returned
Ahead(f) ==
  {s \in UNION {{[array |-> i, index |-> j, middleware |-> Held(f.arrays[i])[j]] :
                   j \in DOMAIN Held(f.arrays[i])} : i \in DOMAIN f.arrays} :
     Before(f.arrayIndex, f.inArrayIndex, s.array, s.index)}

\* hooks do not pass the middlewares that were added without them
Skips(type, m) == type = "hook" /\ m \in SkipsHooks

DueTo(f, m) == \E i \in DOMAIN f.due : m \in ToSet(f.due[i])

\* getNextMiddleware and the rest of runNextMiddleware, which at the end runs
\* the action itself
RunNextMiddleware ==
  /\ ~Idle /\ Top.stage = "next"
  /\ \/ /\ Ahead(Top) = {}
        /\ Becomes([Top EXCEPT !.stage = "code"])
        /\ ran' = IF Top.id \in outermost /\ DueTo(Top, Recorder) THEN ran \cup {Top.id} ELSE ran
     \/ \E s \in Ahead(Top) :
          /\ \A t \in Ahead(Top) : ~Before(t.array, t.index, s.array, s.index)
          /\ LET f == [Top EXCEPT !.arrayIndex = s.array, !.inArrayIndex = s.index]
             IN Becomes(IF Skips(Top.type, s.middleware) THEN f
                        ELSE [f EXCEPT !.seen = Append(@, s), !.stage = "handler",
                                       !.handler = s.middleware])
          /\ UNCHANGED ran
  /\ UNCHANGED <<middlewares, lists, running, context, calls, flows, records, made,
                 listening>>

\* mutant: every action is recorded
EveryAction(f) == f.type # "flow_resume"

\* onAction listens to these
Listened(f) == f.type \notin {"flow_resume", "extendInstance"} /\ f.id = f.root

\* serializeArgument: nodes, functions and class instances become a marker
Serialized(arg) ==
  IF arg = "date" THEN "$MST_DATE" ELSE IF arg = "json" THEN arg ELSE "$MST_UNSERIALIZABLE"

\* deserializeArgument, when the records are replayed with applyAction
Deserialized(arg) == IF arg = "$MST_DATE" THEN "date" ELSE arg

\* next(call): onAction tells its listener first
PassOn ==
  /\ ~Idle /\ Top.stage = "handler"
  /\ Becomes([Top EXCEPT !.stage = "next"])
  /\ records' = IF Top.handler = Recorder /\ Listened(Top) THEN Append(records, [id |-> Top.id, node |-> Top.node,
                                                      arg |-> Serialized(made[Top.id])])
                ELSE records
  /\ UNCHANGED <<middlewares, lists, running, context, calls, flows, made, ran, listening>>

\* mutant: the list is changed where it is
Pushed(n, list) ==
  IF list = <<>> THEN UNCHANGED lists /\ middlewares' = [middlewares EXCEPT ![n] = 0]
  ELSE IF middlewares[n] = 0
  THEN lists' = Append(lists, list) /\ middlewares' = [middlewares EXCEPT ![n] = Len(lists) + 1]
  ELSE lists' = [lists EXCEPT ![middlewares[n]] = list] /\ UNCHANGED middlewares

\* copy-on-write
Replaced(n, list) ==
  IF list = <<>>
  THEN middlewares' = [middlewares EXCEPT ![n] = 0] /\ UNCHANGED lists
  ELSE /\ Len(lists) < MaxLists
       /\ lists' = Append(lists, list)
       /\ middlewares' = [middlewares EXCEPT ![n] = Len(lists) + 1]

\* addMiddleware, and resume of the recorder
AddMiddleWare(n, m) ==
  /\ InUserCode /\ ~Attached(m)
  /\ m = Recorder => n = Subject
  /\ Replaced(n, Append(ListOf(n), m))
  /\ UNCHANGED <<stack, running, context, calls, flows, records, made, ran, listening>>

\* the disposer of a middleware, and stop of the recorder
RemoveMiddleware(n, m) ==
  /\ InUserCode
  /\ \E i \in DOMAIN ListOf(n) : ListOf(n)[i] = m /\ Replaced(n, RemoveAt(ListOf(n), i))
  /\ listening' = (listening /\ m # Recorder)
  /\ UNCHANGED <<stack, running, context, calls, flows, records, made, ran>>

-----------------------------------------------------------------------------
(* Protection *)

\* mutant: any action unlocks every tree
AnyRunning(n) == running # {}

\* isRunningAction
IsRunningAction(n) == Above(n) \cap running # {}

\* assertWritable lets the code that runs write to n, in a tree that is protected
Writable(n) == InCode /\ IsRunningAction(n)

Next ==
  \/ \E n \in Node, arg \in Arg : Call(n, "action", arg)
  \/ \E n \in Node, type \in {"hook", "extendInstance"} : Call(n, type, "json")
  \/ \E n \in Node, m \in Middleware : AddMiddleWare(n, m) \/ RemoveMiddleware(n, m)
  \/ \E f \in flows : Resume(f[1], f[2])
  \/ \E threw \in BOOLEAN : End(threw)
  \/ Spawn \/ RunNextMiddleware \/ PassOn

Spec == Init /\ [][Next]_vars

-----------------------------------------------------------------------------
(* Properties *)

\* A node is unlocked exactly while one of its actions is on the stack, and the
\* current context is the innermost call, whichever calls threw and were caught
\* on the way (the finally block of runWithActionContext).
UnlockedWhileRunning ==
  /\ running = {stack[i].node : i \in DOMAIN stack}
  /\ context = IF Idle THEN NoContext ELSE [id |-> Top.id, root |-> Top.root]

\* The code of a call runs after exactly the middlewares that were attached
\* when it was called, in their order ("one already running keeps the
\* middlewares it started with").
PassesWhatItStartedWith ==
  \A f \in ToSet(stack) : f.stage = "code" =>
    LET due == UNION {{[array |-> i, index |-> j, middleware |-> f.due[i][j]] :
                         j \in DOMAIN f.due[i]} : i \in DOMAIN f.due}
    IN /\ ToSet(f.seen) = {s \in due : ~Skips(f.type, s.middleware)}
       /\ \A k, l \in DOMAIN f.seen : k < l =>
            Before(f.seen[k].array, f.seen[k].index, f.seen[l].array, f.seen[l].index)

\* The middleware has been handed the call.
Passed(f, m) == \E k \in DOMAIN f.seen : f.seen[k].middleware = m

\* A recorder has every outermost call whose code ran, once and in the order
\* of the calls, but those of extendInstance, which is no action a replay
\* could call by its name ("recordActions leaves out extendInstance, so replay
\* works", extend-instance.test.ts); it has nothing that was called from
\* another call or by a flow that goes on, since replaying the outer call makes
\* it again ("onAction events are emitted only for the outermost called action
\* in the stack"); and a replay passes the arguments that were passed, nodes and
\* functions excepted.
OutermostRecorded ==
  LET ids == {records[i].id : i \in DOMAIN records} IN
  /\ ids \subseteq outermost
  /\ ran \subseteq ids
  /\ \A i, j \in DOMAIN records : i < j => records[i].id < records[j].id
  /\ \A i \in DOMAIN records :
       made[records[i].id] \in {"json", "date"} =>
         Deserialized(records[i].arg) = made[records[i].id]

\* While the recorder listens the code that runs can write in its tree only in
\* a call that was handed to it, or in what another middleware of the tree calls
\* before it hands a call on ("any mutation of the tree will pass through your
\* middleware").
WritesPassThrough ==
  listening /\ (\E n \in Node : Writable(n) /\ Subject \in Above(n)) =>
    \E i \in DOMAIN stack :
      \/ Passed(stack[i], Recorder)
      \/ stack[i].stage = "handler" /\ Subject \in Above(stack[i].node)
=============================================================================
