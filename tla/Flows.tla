------------------------------- MODULE Flows -------------------------------
(***************************************************************************)
(* Actions and flows.  An action runs synchronously and may call further   *)
(* actions; a flow is a generator that runs one step at a time, its first  *)
(* step inside the action that spawned it and the others from the event    *)
(* loop, when the promise it yielded has settled.  Its own promise settles *)
(* in a microtask after its last step.                                     *)
(*                                                                         *)
(* Every call and every flow has a number, a parent context and the        *)
(* numbers of its parent action and of the call everything started with.   *)
(* currentActionContext is the top of the stack of running contexts.       *)
(***************************************************************************)
EXTENDS Naturals, SequencesExt

CONSTANTS
  MaxId,     \* bound on nextActionId
  MaxYields  \* bound on the steps of a flow

ASSUME FlowsAssumption == MaxId \in Nat /\ MaxYields \in Nat

Id == 1 .. MaxId
None == 0   \* no context

Open == {"running", "waiting", "returning", "throwing"}
Settled == {"returned", "thrown"}

VARIABLES
  nextActionId,
  info,    \* what the events of a number have in common
  stack,   \* the contexts that are running, innermost last
  flow,    \* how far each flow is
  awaited, \* the flow whose promise a flow waits for, or None for any other
  yields   \* steps each flow has yielded

engine == <<nextActionId, info, stack, flow, awaited, yields>>

Unused == [kind |-> "unused", parent |-> None, action |-> None, root |-> None]

Call == [kind : {"unused", "action", "flow"}, parent : Id \cup {None},
         action : Id \cup {None}, root : Id \cup {None}]

EngineTypeOK ==
  /\ nextActionId \in 1 .. MaxId + 1
  /\ info \in [Id -> Call]
  /\ stack \in Seq([id : Id, type : {"action", "flow_spawn", "flow_resume"}])
  /\ flow \in [Id -> Open \cup Settled \cup {"unused"}]
  /\ awaited \in [Id -> Id \cup {None}]
  /\ yields \in [Id -> 0 .. MaxYields]

EngineInit ==
  /\ nextActionId = 1
  /\ info = [i \in Id |-> Unused]
  /\ stack = <<>>
  /\ flow = [i \in Id |-> "unused"]
  /\ awaited = [i \in Id |-> None]
  /\ yields = [i \in Id |-> 0]

Context == IF stack = <<>> THEN None ELSE Last(stack).id

\* getParentActionContext
ParentAction(c) ==
  IF c = None THEN None
  ELSE IF info[c].kind = "action" THEN c ELSE info[c].action

RootId(c, i) == IF c = None THEN i ELSE info[c].root

\* allParentIds
Parents(i) ==
  LET closed == {S \in SUBSET (Id \cup {None}) :
                   /\ info[i].parent \in S
                   /\ \A x \in S \ {None} : info[x].parent \in S}
  IN {x \in Id : \A S \in closed : x \in S}

IsOpen(f) == flow[f] \in Open
Runs(i, type) == stack # <<>> /\ Last(stack) = [id |-> i, type |-> type]
OnStack(i) == \E k \in DOMAIN stack : stack[k] = [id |-> i, type |-> "action"]

Allocate(kind) ==
  /\ nextActionId \in Id
  /\ nextActionId' = nextActionId + 1
  /\ info' = [info EXCEPT ![nextActionId] =
       [kind |-> kind, parent |-> Context, action |-> ParentAction(Context),
        root |-> RootId(Context, nextActionId)]]

-----------------------------------------------------------------------------
\* An action called from the event loop, from an action or from a flow.
Invoke ==
  /\ Allocate("action")
  /\ stack' = Append(stack, [id |-> nextActionId, type |-> "action"])
  /\ UNCHANGED <<flow, awaited, yields>>

\* The action on top of the stack returns or throws: runWithActionContext
\* restores the context it found.
Exit(a) ==
  /\ Runs(a, "action")
  /\ stack' = Front(stack)
  /\ UNCHANGED <<nextActionId, info, flow, awaited, yields>>

\* A flow is called: flow_spawn, and within it the first step.  It needs a
\* parent context.
Spawn ==
  /\ stack # <<>>
  /\ Allocate("flow")
  /\ stack' = stack \o <<[id |-> nextActionId, type |-> "flow_spawn"],
                         [id |-> nextActionId, type |-> "flow_resume"]>>
  /\ flow' = [flow EXCEPT ![nextActionId] = "running"]
  /\ UNCHANGED <<awaited, yields>>

\* A step of flow f ends, and its flow_spawn with it when it was the first.
Leave(f) ==
  LET below == Front(stack)
      first == below # <<>> /\ Last(below) = [id |-> f, type |-> "flow_spawn"]
  IN /\ Runs(f, "flow_resume")
     /\ stack' = IF first THEN Front(below) ELSE below

\* The generator yields a promise, its own or that of a flow it started.
Yield(f, g) ==
  /\ Leave(f)
  /\ yields[f] < MaxYields
  /\ g # None => flow[g] # "unused" /\ f \in Parents(g)
  /\ flow' = [flow EXCEPT ![f] = "waiting"]
  /\ awaited' = [awaited EXCEPT ![f] = g]
  /\ yields' = [yields EXCEPT ![f] = @ + 1]
  /\ UNCHANGED <<nextActionId, info>>

\* The generator is done or throws: a microtask will report it.
Finish(f, how) ==
  /\ Leave(f)
  /\ flow' = [flow EXCEPT ![f] = how]
  /\ UNCHANGED <<nextActionId, info, awaited, yields>>

\* The promise a flow waits for has settled: flow_resume or
\* flow_resume_error, with nothing else running.
Resume(f) ==
  /\ stack = <<>> /\ flow[f] = "waiting"
  /\ awaited[f] # None => flow[awaited[f]] \in Settled
  /\ stack' = <<[id |-> f, type |-> "flow_resume"]>>
  /\ flow' = [flow EXCEPT ![f] = "running"]
  /\ awaited' = [awaited EXCEPT ![f] = None]
  /\ UNCHANGED <<nextActionId, info, yields>>

\* The microtask: flow_return or flow_throw, which settles the promise.
SettleFlow(f) ==
  /\ stack = <<>> /\ flow[f] \in {"returning", "throwing"}
  /\ flow' = [flow EXCEPT ![f] = IF @ = "returning" THEN "returned" ELSE "thrown"]
  /\ UNCHANGED <<nextActionId, info, stack, awaited, yields>>
=============================================================================
