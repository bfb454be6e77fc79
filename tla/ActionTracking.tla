--------------------------- MODULE ActionTracking ---------------------------
(***************************************************************************)
(* The two action tracking middlewares on one tree.  The first keeps an    *)
(* entry for each running action and counts, in the entry of the root      *)
(* action, every flow spawned under it.  The second counts a flow in the   *)
(* entry of its parent action.                                             *)
(***************************************************************************)
EXTENDS Flows, FiniteSets

VARIABLES
  entries1,  \* createActionTrackingMiddleware: runningActions
  pending1,  \* the synchronous run plus the flows under it
  failure1,  \* the first failed flow the action started itself
  told1,     \* onSuccess or onFail, and the call they were given
  entries2,  \* createActionTrackingMiddleware2: runningActions
  pending2,  \* flowsPending
  told2,     \* onFinish, with an error or without
  threw,     \* actions that threw synchronously (history)
  ended      \* flows in the order they settled (history)

first == <<entries1, pending1, failure1, told1>>
second == <<entries2, pending2, told2>>
history == <<threw, ended>>
vars == <<engine, first, second, history>>

Untold == [verdict |-> "none", call |-> None]

TypeOK ==
  /\ EngineTypeOK
  /\ entries1 \subseteq Id /\ entries2 \subseteq Id /\ threw \subseteq Id
  /\ pending1 \in [Id -> Nat] /\ pending2 \in [Id -> Nat]
  /\ failure1 \in [Id -> Id \cup {None}]
  /\ told1 \in [Id -> [verdict : {"none", "success", "fail"}, call : Id \cup {None}]]
  /\ told2 \in [Id -> {"none", "success", "fail"}]
  /\ ended \in Seq(Id)

Init ==
  /\ EngineInit
  /\ entries1 = {} /\ entries2 = {}
  /\ pending1 = [i \in Id |-> 0] /\ pending2 = [i \in Id |-> 0]
  /\ failure1 = [i \in Id |-> None]
  /\ told1 = [i \in Id |-> Untold]
  /\ told2 = [i \in Id |-> "none"]
  /\ threw = {} /\ ended = <<>>

-----------------------------------------------------------------------------
(* createActionTrackingMiddleware *)

\* Whether a flow was spawned from inside another flow's step.
StartedInFlow(c) == \E p \in Parents(c) : info[p].kind = "flow"

\* mutant: whoever awaits the flow, its failure is recorded
AnyFailure(r, c, bad) == IF bad /\ failure1[r] = None THEN c ELSE failure1[r]

Failure(r, c, bad) ==
  IF bad /\ failure1[r] = None /\ ~StartedInFlow(c) THEN c ELSE failure1[r]

Verdict(failure, c, bad) ==
  IF failure # None THEN [verdict |-> "fail", call |-> failure]
  ELSE [verdict |-> IF bad THEN "fail" ELSE "success", call |-> c]

\* settle: one run or flow under r is over.
Settle1(r, c, bad) ==
  \/ r \notin entries1 /\ UNCHANGED first
  \/ /\ r \in entries1
     /\ failure1' = [failure1 EXCEPT ![r] = Failure(r, c, bad)]
     /\ pending1' = [pending1 EXCEPT ![r] = @ - 1]
     /\ IF pending1'[r] > 0 THEN UNCHANGED <<entries1, told1>>
        ELSE /\ entries1' = entries1 \ {r}
             /\ told1' = [told1 EXCEPT ![r] = Verdict(failure1'[r], c, bad)]

Start1(passes) ==
  /\ entries1' = IF passes THEN entries1 \cup {nextActionId} ELSE entries1
  /\ pending1' = IF passes THEN [pending1 EXCEPT ![nextActionId] = 1] ELSE pending1
  /\ UNCHANGED <<failure1, told1>>

\* mutant: a flow is counted in the entry of its parent action
SpawnInParent ==
  LET a == ParentAction(Context)
  IN /\ pending1' = IF a \in entries1 THEN [pending1 EXCEPT ![a] = @ + 1] ELSE pending1
     /\ UNCHANGED <<entries1, failure1, told1>>

Spawn1 ==
  LET r == RootId(Context, nextActionId)
  IN /\ pending1' = IF r \in entries1 THEN [pending1 EXCEPT ![r] = @ + 1] ELSE pending1
     /\ UNCHANGED <<entries1, failure1, told1>>

\* mutant: the entry of an action that threw is kept
ThrowKept(a) ==
  /\ told1' = [told1 EXCEPT ![a] = [verdict |-> "fail", call |-> a]]
  /\ UNCHANGED <<entries1, pending1, failure1>>

Throw1(a) ==
  \/ a \notin entries1 /\ UNCHANGED first
  \/ /\ a \in entries1
     /\ entries1' = entries1 \ {a}
     /\ told1' = [told1 EXCEPT ![a] = [verdict |-> "fail", call |-> a]]
     /\ UNCHANGED <<pending1, failure1>>

-----------------------------------------------------------------------------
(* createActionTrackingMiddleware2 *)

\* finish, and the entry deleted
Finish2(a, bad) ==
  /\ entries2' = entries2 \ {a}
  /\ told2' = [told2 EXCEPT ![a] = IF bad THEN "fail" ELSE "success"]

Start2 == entries2' = entries2 \cup {nextActionId} /\ UNCHANGED <<pending2, told2>>

Spawn2 ==
  LET a == ParentAction(Context)
  IN /\ pending2' = IF a \in entries2 THEN [pending2 EXCEPT ![a] = @ + 1] ELSE pending2
     /\ UNCHANGED <<entries2, told2>>

\* mutant: pending flows are not looked at
ReturnAnyway(a) == Finish2(a, FALSE) /\ UNCHANGED pending2

Return2(a) ==
  IF pending2[a] > 0 THEN UNCHANGED second
  ELSE Finish2(a, FALSE) /\ UNCHANGED pending2

Throw2(a) == Finish2(a, TRUE) /\ UNCHANGED pending2

Settle2(a, bad) ==
  \/ a \notin entries2 /\ UNCHANGED second
  \/ /\ a \in entries2
     /\ pending2' = [pending2 EXCEPT ![a] = @ - 1]
     /\ IF pending2'[a] > 0 THEN UNCHANGED <<entries2, told2>> ELSE Finish2(a, bad)

-----------------------------------------------------------------------------
InvokeAction(passes) == Invoke /\ Start1(passes) /\ Start2 /\ UNCHANGED history

Return(a) == Exit(a) /\ Settle1(a, a, FALSE) /\ Return2(a) /\ UNCHANGED history

Throw(a) ==
  /\ Exit(a) /\ Throw1(a) /\ Throw2(a)
  /\ threw' = threw \cup {a}
  /\ UNCHANGED ended

SpawnFlow == Spawn /\ Spawn1 /\ Spawn2 /\ UNCHANGED history

\* A step of a flow changes nothing in the middlewares but calls onResume and
\* onSuspend.
EndStep(f) ==
  /\ \/ \E g \in Id \cup {None} : Yield(f, g)
     \/ \E how \in {"returning", "throwing"} : Finish(f, how)
  /\ UNCHANGED <<first, second, history>>

ResumeFlow(f) == Resume(f) /\ UNCHANGED <<first, second, history>>

EndFlow(f) ==
  LET bad == flow[f] = "throwing"
  IN /\ SettleFlow(f)
     /\ Settle1(info[f].root, f, bad)
     /\ Settle2(info[f].action, bad)
     /\ ended' = Append(ended, f)
     /\ UNCHANGED threw

\* The code on top of the stack comes to an end.
EndCode == \E i \in Id : Return(i) \/ Throw(i) \/ EndStep(i)

Next ==
  \/ \E passes \in BOOLEAN : InvokeAction(passes)
  \/ SpawnFlow
  \/ EndCode
  \/ \E f \in Id : ResumeFlow(f) \/ EndFlow(f)

\* User code terminates, every promise settles, and the event loop runs every
\* callback it was given.
Fairness ==
  /\ WF_vars(EndCode)
  /\ \A f \in Id : WF_vars(ResumeFlow(f)) /\ WF_vars(EndFlow(f))

Spec == Init /\ [][Next]_vars /\ Fairness

-----------------------------------------------------------------------------
(* Properties *)

FlowsUnder(r) == {f \in Id : IsOpen(f) /\ info[f].root = r}
FlowsOf(a) == {f \in Id : IsOpen(f) /\ info[f].action = a}

\* Each middleware counts exactly what is still to settle an entry: a flow is
\* counted when it is spawned and discounted when its promise settles, also
\* when the action that spawned it is gone (pending and flowsPending).
CountsAreExact ==
  /\ \A r \in entries1 :
       pending1[r] = Cardinality(FlowsUnder(r)) + (IF OnStack(r) THEN 1 ELSE 0)
  /\ \A a \in entries2 : pending2[a] = Cardinality(FlowsOf(a))

\* A root action that returned is reported once every flow under it settled,
\* and none is spawned under it afterwards (createActionTrackingMiddleware);
\* the second middleware reports every action after the flows it spawned.
ReportedLast ==
  \A a \in Id \ threw :
    /\ told1[a] # Untold /\ info[a].parent = None => FlowsUnder(a) = {}
    /\ told2[a] # "none" => FlowsOf(a) = {}

\* The places in ended of the flows under r, and of those that failed and were
\* started by the action itself.
EndedUnder(r) == {k \in DOMAIN ended : info[ended[k]].root = r}
FailedUnder(r) ==
  {k \in EndedUnder(r) : flow[ended[k]] = "thrown" /\ ~StartedInFlow(ended[k])}

\* How the root action r is reported, in the words of the documentation.
Documented(r) ==
  LET last == ended[Max(EndedUnder(r))]
  IN IF FailedUnder(r) # {}
     THEN [verdict |-> "fail", call |-> ended[Min(FailedUnder(r))]]
     ELSE IF EndedUnder(r) = {} THEN [verdict |-> "success", call |-> r]
     ELSE [verdict |-> IF flow[last] = "thrown" THEN "fail" ELSE "success", call |-> last]

\* Reports come last, and "onFail reports the first failure of a flow the action
\* started itself; otherwise the hooks report how the last one ended."
ReportsAsDocumented ==
  /\ ReportedLast
  /\ \A r \in Id \ threw :
       told1[r] # Untold /\ info[r].parent = None => told1[r] = Documented(r)

\* Both middlewares settle whatever they started to track, and what is settled
\* has no entry and never gets one again; a second report would need one.
Lifetimes1 == INSTANCE Lifetimes
                WITH open <- entries1, settled <- {a \in Id : told1[a] # Untold}
Lifetimes2 == INSTANCE Lifetimes
                WITH open <- entries2, settled <- {a \in Id : told2[a] # "none"}

ImplementsLifetimes == Lifetimes1!Spec /\ Lifetimes2!Spec
=============================================================================
