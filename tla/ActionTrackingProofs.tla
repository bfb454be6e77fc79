------------------------ MODULE ActionTrackingProofs ------------------------
(***************************************************************************)
(* Proofs about ActionTracking: for any number of actions and flows, the   *)
(* counts of both middlewares are exact, reports come last and say what    *)
(* the documentation says.                                                 *)
(*                                                                         *)
(* The inductive invariant has a part for the engine (what the numbers,    *)
(* the stack and the flows have to do with each other), from which follows *)
(* that a flow is only spawned under a root action that is still running   *)
(* or has an open flow, and a part for the middlewares.                    *)
(***************************************************************************)
EXTENDS ActionTracking, FiniteSetTheorems, SequenceTheorems, TLAPS

Frame == [id : Id, type : {"action", "flow_spawn", "flow_resume"}]

Issued == {i \in Id : i < nextActionId}

\* numbers that are not given out have left no trace in the engine
Unnumbered ==
  \A i \in Id : i \notin Issued => info[i] = Unused /\ flow[i] = "unused"

\* parents, parent actions and root actions have numbers; a root action is its
\* own root and has no parent
IsRelative(i, calls, progress, issued) ==
  /\ calls[i].kind \in {"action", "flow"}
  /\ calls[i].kind = "flow" <=> progress # "unused"
  /\ calls[i].kind = "flow" =>
       calls[i].action \in issued /\ calls[calls[i].action].kind = "action"
  /\ calls[i].parent # None => calls[i].parent \in issued
  /\ calls[i].root \in issued /\ calls[calls[i].root].kind = "action"
  /\ calls[calls[i].root].root = calls[i].root
  /\ calls[i].root = i <=> calls[i].parent = None

Family == \A i \in Issued : IsRelative(i, info, flow[i], Issued)

\* A frame runs a numbered action or a running flow, the first step of a flow
\* is right above its flow_spawn, and everything on the stack has one root.
IsFrame(k, s, calls, progress, issued) ==
  /\ s[k].id \in issued
  /\ s[k].type = "action" <=> calls[s[k].id].kind = "action"
  /\ s[k].type # "action" => progress[s[k].id] = "running"
  /\ s[k].type = "flow_spawn" =>
       k < Len(s) /\ s[k + 1] = [id |-> s[k].id, type |-> "flow_resume"]
  /\ calls[s[k].id].root = calls[s[1].id].root

\* No frame is there twice, and an action at the bottom was called by nobody.
IsStack(s, calls, progress, issued) ==
  /\ s \in Seq(Frame)
  /\ \A k \in 1 .. Len(s) : IsFrame(k, s, calls, progress, issued)
  /\ \A j, k \in 1 .. Len(s) : s[j] = s[k] => j = k
  /\ s # <<>> /\ s[1].type = "action" => calls[s[1].id].root = s[1].id

EngineInv ==
  EngineTypeOK /\ Unnumbered /\ Family /\ IsStack(stack, info, flow, Issued)

\* the actions on a stack
ActionsOn(s) == {a \in Id : \E k \in 1 .. Len(s) : s[k] = [id |-> a, type |-> "action"]}

-----------------------------------------------------------------------------
(* The engine *)

LEMMA Numbers ==
  ASSUME EngineTypeOK
  PROVE  /\ MaxId \in Nat /\ MaxYields \in Nat
         /\ nextActionId \in Nat /\ Id \subseteq Nat \ {None}
         /\ stack \in Seq(Frame) /\ Len(stack) \in Nat /\ DOMAIN stack = 1 .. Len(stack)
         /\ info \in [Id -> Call]
         /\ stack = <<>> <=> Len(stack) = 0
         /\ \A k \in 1 .. Len(stack) : stack[k] \in Frame
<1>1. MaxId \in Nat /\ MaxYields \in Nat
  BY FlowsAssumption
<1>2. Id \subseteq Nat \ {None} /\ nextActionId \in Nat
  BY <1>1 DEF Id, None, EngineTypeOK
<1>3. stack \in Seq(Frame) /\ info \in [Id -> Call]
  BY DEF EngineTypeOK, Frame
<1> HIDE DEF Frame
<1>4. /\ Len(stack) \in Nat /\ DOMAIN stack = 1 .. Len(stack)
      /\ stack = <<>> <=> Len(stack) = 0
      /\ \A k \in 1 .. Len(stack) : stack[k] \in Frame
  BY <1>3
<1> QED BY <1>1, <1>2, <1>3, <1>4

LEMMA OnStackAt ==
  ASSUME EngineTypeOK, NEW a \in Id
  PROVE  OnStack(a) <=> a \in ActionsOn(stack)
BY Numbers DEF OnStack, ActionsOn

LEMMA PushOne ==
  ASSUME NEW s \in Seq(Frame), NEW e \in Frame
  PROVE  /\ Append(s, e) \in Seq(Frame) /\ Len(Append(s, e)) = Len(s) + 1
         /\ \A k \in 1 .. Len(s) : Append(s, e)[k] = s[k]
         /\ Append(s, e)[Len(s) + 1] = e
OBVIOUS

LEMMA PushTwo ==
  ASSUME NEW s \in Seq(Frame), NEW d \in Frame, NEW e \in Frame
  PROVE  /\ s \o <<d, e>> \in Seq(Frame) /\ Len(s \o <<d, e>>) = Len(s) + 2
         /\ \A k \in 1 .. Len(s) : (s \o <<d, e>>)[k] = s[k]
         /\ (s \o <<d, e>>)[Len(s) + 1] = d /\ (s \o <<d, e>>)[Len(s) + 2] = e
OBVIOUS

LEMMA Pop ==
  ASSUME NEW s \in Seq(Frame), s # <<>>
  PROVE  /\ Front(s) \in Seq(Frame) /\ Len(Front(s)) = Len(s) - 1
         /\ \A k \in 1 .. Len(s) - 1 : Front(s)[k] = s[k]
<1>1. Len(s) \in Nat \ {0}
  OBVIOUS
<1>2. \A k \in 1 .. Len(s) : s[k] \in Frame
  OBVIOUS
<1> DEFINE n == Len(s) - 1
<1>3. n \in Nat /\ 1 \in Int /\ \A k \in 1 .. n : s[k] \in Frame
  BY <1>1, <1>2
<1>4. Front(s) = SubSeq(s, 1, n)
  BY DEF Front
<1> HIDE DEF n
<1>5. /\ SubSeq(s, 1, n) \in Seq(Frame)
      /\ Len(SubSeq(s, 1, n)) = IF 1 <= n THEN n - 1 + 1 ELSE 0
      /\ \A k \in 1 .. n - 1 + 1 : SubSeq(s, 1, n)[k] = s[1 + k - 1]
  BY <1>3, SubSeqProperties
<1>6. /\ Front(s) \in Seq(Frame) /\ Len(Front(s)) = n
      /\ \A k \in 1 .. n : Front(s)[k] = s[k]
  BY <1>3, <1>4, <1>5
<1> QED BY <1>6 DEF n

-----------------------------------------------------------------------------
(* Contexts and new numbers *)

LEMMA TopFrame ==
  ASSUME EngineInv
  PROVE  /\ Context = None <=> stack = <<>>
         /\ stack # <<>> => /\ Len(stack) \in 1 .. Len(stack)
                            /\ Context = stack[Len(stack)].id /\ Context \in Issued
<1>1. CASE stack = <<>>
  BY <1>1 DEF Context
<1>2. CASE stack # <<>>
  <2>1. Len(stack) \in 1 .. Len(stack)
    BY <1>2, Numbers DEF EngineInv
  <2>2. Context = stack[Len(stack)].id
    BY <1>2 DEF Context, Last
  <2>3. stack[Len(stack)].id \in Issued
    BY <2>1 DEF EngineInv, IsStack, IsFrame
  <2> QED BY <1>2, <2>1, <2>2, <2>3, Numbers DEF EngineInv, Issued
<1> QED BY <1>1, <1>2

\* The parent action of what is started now and its root action.
LEMMA ContextKnown ==
  ASSUME EngineInv, stack # <<>>, NEW i
  PROVE  /\ ParentAction(Context) \in Issued /\ info[ParentAction(Context)].kind = "action"
         /\ RootId(Context, i) = info[Context].root
         /\ RootId(Context, i) \in Issued /\ info[RootId(Context, i)].kind = "action"
         /\ info[RootId(Context, i)].root = RootId(Context, i)
         /\ info[RootId(Context, i)].parent = None
<1>1. Context \in Issued /\ Context # None /\ Context \in Id
  BY TopFrame, Numbers DEF EngineInv, Issued
<1>2. Family
  BY DEF EngineInv
<1>3. RootId(Context, i) = info[Context].root
  BY <1>1 DEF RootId
<1>4. /\ info[Context].root \in Issued /\ info[info[Context].root].kind = "action"
      /\ info[info[Context].root].root = info[Context].root
  BY <1>1, <1>2 DEF Family, IsRelative
<1>5. info[info[Context].root].parent = None
  BY <1>2, <1>4 DEF Family, IsRelative, Issued
<1>6. ParentAction(Context) \in Issued /\ info[ParentAction(Context)].kind = "action"
  BY <1>1, <1>2 DEF Family, IsRelative, ParentAction
<1> QED BY <1>3, <1>4, <1>5, <1>6

\* A new number, and what is known of it.
Allocated(n, kind) ==
  /\ n \in Id /\ n \notin Issued /\ nextActionId' = n + 1
  /\ \A i \in Id : i \in Issued' <=> i \in Issued \/ i = n
  /\ \A i \in Id : i # n => info'[i] = info[i]
  /\ info'[n] = [kind |-> kind, parent |-> Context, action |-> ParentAction(Context),
                 root |-> RootId(Context, n)]
  /\ info' \in [Id -> Call]

LEMMA NewNumber ==
  ASSUME EngineInv, NEW kind \in {"action", "flow"}, Allocate(kind)
  PROVE  Allocated(nextActionId, kind)
<1> DEFINE n == nextActionId
           new == [kind |-> kind, parent |-> Context, action |-> ParentAction(Context),
                   root |-> RootId(Context, n)]
<1>1. n \in Id /\ n \notin Issued /\ nextActionId' = n + 1
  BY Numbers DEF Allocate, Issued, EngineInv
<1>2. \A i \in Id : i \in Issued' <=> i \in Issued \/ i = n
  BY <1>1, Numbers DEF Issued, EngineInv
<1>3. info \in [Id -> Call] /\ info' = [info EXCEPT ![n] = new]
  BY Numbers DEF Allocate, EngineInv
<1>4. new \in Call
  <2>1. CASE stack = <<>>
    BY <2>1, <1>1, TopFrame DEF ParentAction, RootId, Call
  <2>2. CASE stack # <<>>
    <3>1. /\ Context \in Id /\ ParentAction(Context) \in Id /\ RootId(Context, n) \in Id
      BY <2>2, TopFrame, ContextKnown DEF Issued
    <3> QED BY <3>1 DEF Call
  <2> QED BY <2>1, <2>2
<1> HIDE DEF new
<1>5. info' \in [Id -> Call] /\ info'[n] = new /\ \A i \in Id : i # n => info'[i] = info[i]
  BY <1>1, <1>3, <1>4
<1> QED BY <1>1, <1>2, <1>5 DEF Allocated, new

LEMMA FamilyGrows ==
  ASSUME EngineInv, NEW kind \in {"action", "flow"}, Allocated(nextActionId, kind),
         kind = "flow" => stack # <<>>,
         \A i \in Id : i # nextActionId => flow'[i] = flow[i],
         kind = "flow" <=> flow'[nextActionId] # "unused"
  PROVE  Unnumbered' /\ Family'
<1> DEFINE n == nextActionId
<1>1. n \in Id /\ n \notin Issued /\ \A i \in Id : i \in Issued' <=> i \in Issued \/ i = n
  BY DEF Allocated
<1>2. \A i \in Id : i # n => info'[i] = info[i] /\ flow'[i] = flow[i]
  BY DEF Allocated
<1>3. info'[n] = [kind |-> kind, parent |-> Context, action |-> ParentAction(Context),
                  root |-> RootId(Context, n)]
  BY DEF Allocated
<1>4. kind = "flow" <=> flow'[n] # "unused"
  OBVIOUS
<1> HIDE DEF n
<1>5. Unnumbered'
  BY <1>1, <1>2 DEF Unnumbered, EngineInv
<1>6. Issued \subseteq Issued' /\ n \in Issued' /\ \A j \in Issued' : j \in Issued \/ j = n
  BY <1>1 DEF Issued
<1>7. \A j \in Issued : info'[j] = info[j] /\ flow'[j] = flow[j]
  BY <1>1, <1>2 DEF Issued
<1>8. ASSUME NEW i \in Issued
      PROVE  IsRelative(i, info', flow'[i], Issued')
  <2>1. IsRelative(i, info, flow[i], Issued)
    BY DEF EngineInv, Family
  <2> QED BY <2>1, <1>6, <1>7 DEF IsRelative
<1>9. IsRelative(n, info', flow'[n], Issued')
  <2>1. CASE stack = <<>>
    <3>1. kind = "action" /\ Context = None /\ RootId(Context, n) = n
      BY <2>1, TopFrame DEF RootId
    <3> QED BY <3>1, <1>3, <1>4, <1>6 DEF IsRelative
  <2>2. CASE stack # <<>>
    <3>1. /\ Context \in Issued /\ Context # None
          /\ ParentAction(Context) \in Issued /\ info[ParentAction(Context)].kind = "action"
          /\ RootId(Context, n) \in Issued /\ info[RootId(Context, n)].kind = "action"
          /\ info[RootId(Context, n)].root = RootId(Context, n)
      BY <2>2, TopFrame, ContextKnown, Numbers DEF EngineInv, Issued
    <3> QED BY <3>1, <1>1, <1>3, <1>4, <1>6, <1>7 DEF IsRelative
  <2> QED BY <2>1, <2>2
<1> QED BY <1>5, <1>6, <1>8, <1>9 DEF Family
-----------------------------------------------------------------------------
(* Stacks *)

\* Whatever is given a number or stops running elsewhere leaves a stack alone.
LEMMA SameStack ==
  ASSUME NEW s, NEW calls, NEW calls2, NEW progress, NEW progress2, NEW issued, NEW issued2,
         IsStack(s, calls, progress, issued), issued \subseteq issued2,
         \A i \in issued : calls2[i] = calls[i],
         \A k \in 1 .. Len(s) : s[k].type # "action" => progress2[s[k].id] = "running"
  PROVE  IsStack(s, calls2, progress2, issued2)
<1>1. s \in Seq(Frame) /\ (s # <<>> => 1 \in 1 .. Len(s))
  BY DEF IsStack
<1>2. ASSUME NEW k \in 1 .. Len(s)
      PROVE  IsFrame(k, s, calls2, progress2, issued2)
  <2>1. IsFrame(k, s, calls, progress, issued)
    BY DEF IsStack
  <2>2. 1 \in 1 .. Len(s)
    BY <1>1
  <2>3. s[1].id \in issued /\ s[k].id \in issued
    BY <2>1, <2>2 DEF IsStack, IsFrame
  <2> QED BY <2>1, <2>3 DEF IsFrame
<1>3. s # <<>> => s[1].id \in issued
  BY <1>1 DEF IsStack, IsFrame
<1> QED BY <1>1, <1>2, <1>3 DEF IsStack

\* An action is called, at the bottom of the stack or above a context of its root.
LEMMA ActionEnters ==
  ASSUME NEW s, NEW calls, NEW progress, NEW issued, IsStack(s, calls, progress, issued),
         NEW a \in Id, a \in issued, calls[a].kind = "action",
         \A k \in 1 .. Len(s) : s[k].id # a,
         IF s = <<>> THEN calls[a].root = a ELSE calls[a].root = calls[s[Len(s)].id].root
  PROVE  /\ IsStack(Append(s, [id |-> a, type |-> "action"]), calls, progress, issued)
         /\ ActionsOn(Append(s, [id |-> a, type |-> "action"])) = ActionsOn(s) \cup {a}
<1> DEFINE e == [id |-> a, type |-> "action"]
           t == Append(s, e)
<1>1. s \in Seq(Frame) /\ e \in Frame /\ e.id = a /\ e.type = "action" /\ Len(s) \in Nat
  BY DEF IsStack, Frame
<1>2. /\ t \in Seq(Frame) /\ Len(t) = Len(s) + 1
      /\ \A k \in 1 .. Len(s) : t[k] = s[k]
      /\ t[Len(s) + 1] = e
  BY <1>1, PushOne
<1> HIDE DEF t
<1>3. \A k \in 1 .. Len(t) : k \in 1 .. Len(s) \/ k = Len(s) + 1
  BY <1>1, <1>2
<1>4. \A k \in 1 .. Len(s) : IsFrame(k, s, calls, progress, issued) /\ k \in 1 .. Len(t)
  BY <1>1, <1>2 DEF IsStack
<1>5. s # <<>> => 1 \in 1 .. Len(s) /\ Len(s) \in 1 .. Len(s)
  BY <1>1
<1>6. s = <<>> => Len(s) = 0
  BY <1>1
<1>7. \A k \in 1 .. Len(s) : IsFrame(k, t, calls, progress, issued)
  <2> SUFFICES ASSUME NEW k \in 1 .. Len(s)
               PROVE  IsFrame(k, t, calls, progress, issued)
    OBVIOUS
  <2>1. IsFrame(k, s, calls, progress, issued) /\ t[k] = s[k] /\ t[1] = s[1]
    BY <1>2, <1>4, <1>1
  <2>2. k < Len(s) => k + 1 \in 1 .. Len(s) /\ k < Len(t)
    BY <1>1, <1>2
  <2> QED BY <2>1, <2>2, <1>2 DEF IsFrame
<1>8. IsFrame(Len(s) + 1, t, calls, progress, issued)
  <2>1. calls[a].root = calls[t[1].id].root
    <3>1. CASE s = <<>>
      <4>1. t[1] = e
        BY <3>1, <1>2, <1>6
      <4> QED BY <4>1, <3>1, <1>1
    <3>2. CASE s # <<>>
      <4>1. t[1] = s[1] /\ Len(s) \in 1 .. Len(s)
        BY <3>2, <1>2, <1>5
      <4>2. calls[s[Len(s)].id].root = calls[s[1].id].root
        BY <4>1, <1>4 DEF IsFrame
      <4> QED BY <4>1, <4>2, <3>2
    <3> QED BY <3>1, <3>2
  <2> QED BY <2>1, <1>1, <1>2 DEF IsFrame
<1>9. \A j, k \in 1 .. Len(t) : t[j] = t[k] => j = k
  BY <1>1, <1>2, <1>3 DEF IsStack
<1>10. t # <<>> /\ t[1].type = "action" => calls[t[1].id].root = t[1].id
  BY <1>1, <1>2, <1>5, <1>6 DEF IsStack
<1>11. IsStack(t, calls, progress, issued)
  BY <1>2, <1>3, <1>7, <1>8, <1>9, <1>10 DEF IsStack
<1>12. ActionsOn(t) = ActionsOn(s) \cup {a}
  BY <1>1, <1>2, <1>3, <1>4 DEF ActionsOn
<1> QED BY <1>11, <1>12 DEF t

\* t is s with the frames of a new flow f on top
SpawnedOn(s, f, t) ==
  /\ \A k \in 1 .. Len(s) : s[k].id # f
  /\ t = s \o <<[id |-> f, type |-> "flow_spawn"], [id |-> f, type |-> "flow_resume"]>>

\* A flow is spawned and takes its first step.
LEMMA FlowEnters ==
  ASSUME NEW s, NEW calls, NEW progress, NEW issued, IsStack(s, calls, progress, issued),
         s # <<>>, NEW f \in Id, f \in issued, calls[f].kind = "flow", progress[f] = "running",
         calls[f].root = calls[s[Len(s)].id].root, NEW t, SpawnedOn(s, f, t)
  PROVE  IsStack(t, calls, progress, issued) /\ ActionsOn(t) = ActionsOn(s)
<1> DEFINE d == [id |-> f, type |-> "flow_spawn"]
           e == [id |-> f, type |-> "flow_resume"]
<1>1. /\ s \in Seq(Frame) /\ Len(s) \in Nat
      /\ e \in Frame /\ e.id = f /\ e.type = "flow_resume"
      /\ d \in Frame /\ d.id = f /\ d.type = "flow_spawn"
  BY DEF IsStack, Frame
<1> HIDE DEF d, e
<1>2. /\ t \in Seq(Frame) /\ Len(t) = Len(s) + 2
      /\ \A k \in 1 .. Len(s) : t[k] = s[k]
      /\ t[Len(s) + 1] = d /\ t[Len(s) + 2] = e
  BY <1>1, PushTwo DEF SpawnedOn, d, e
<1>3. \A k \in 1 .. Len(t) : k \in 1 .. Len(s) \/ k = Len(s) + 1 \/ k = Len(s) + 2
  BY <1>1, <1>2
<1>4. \A k \in 1 .. Len(s) : IsFrame(k, s, calls, progress, issued) /\ k \in 1 .. Len(t)
  BY <1>1, <1>2 DEF IsStack
<1>5. 1 \in 1 .. Len(s) /\ Len(s) \in 1 .. Len(s)
  BY <1>1
<1>6. \A k \in 1 .. Len(s) : IsFrame(k, t, calls, progress, issued)
  <2> SUFFICES ASSUME NEW k \in 1 .. Len(s)
               PROVE  IsFrame(k, t, calls, progress, issued)
    OBVIOUS
  <2>1. IsFrame(k, s, calls, progress, issued) /\ t[k] = s[k] /\ t[1] = s[1]
    BY <1>2, <1>4, <1>5
  <2>2. k < Len(s) => k + 1 \in 1 .. Len(s) /\ k < Len(t)
    BY <1>1, <1>2
  <2> QED BY <2>1, <2>2, <1>2 DEF IsFrame
<1>7. IsFrame(Len(s) + 1, t, calls, progress, issued) /\ IsFrame(Len(s) + 2, t, calls, progress, issued)
  <2>1. calls[f].root = calls[t[1].id].root
    BY <1>2, <1>4, <1>5 DEF IsFrame
  <2>2. e = [id |-> d.id, type |-> "flow_resume"] /\ Len(s) + 1 < Len(t) /\ Len(s) + 1 + 1 = Len(s) + 2
    BY <1>1, <1>2 DEF d, e
  <2> QED BY <2>1, <2>2, <1>1, <1>2 DEF IsFrame
<1>8. \A j, k \in 1 .. Len(t) : t[j] = t[k] => j = k
  BY <1>1, <1>2, <1>3 DEF IsStack, SpawnedOn
<1>9. t # <<>> /\ t[1].type = "action" => calls[t[1].id].root = t[1].id
  BY <1>2, <1>5 DEF IsStack
<1>10. IsStack(t, calls, progress, issued)
  BY <1>2, <1>3, <1>6, <1>7, <1>8, <1>9 DEF IsStack
<1>11. ActionsOn(t) = ActionsOn(s)
  BY <1>1, <1>2, <1>3, <1>4 DEF ActionsOn
<1> QED BY <1>10, <1>11

\* What is left when the code on top ends.
LEMMA Leaves ==
  ASSUME NEW s, NEW calls, NEW progress, NEW issued, IsStack(s, calls, progress, issued),
         NEW t \in Seq(Frame), Len(t) <= Len(s), \A k \in 1 .. Len(t) : t[k] = s[k],
         \A k \in 1 .. Len(s) : k = Len(t) => s[k].type # "flow_spawn"
  PROVE  IsStack(t, calls, progress, issued)
<1>1. s \in Seq(Frame) /\ Len(s) \in Nat /\ Len(t) \in Nat
  BY DEF IsStack
<1>2. \A k \in 1 .. Len(t) : k \in 1 .. Len(s) /\ 1 \in 1 .. Len(t)
  BY <1>1
<1>3. ASSUME NEW k \in 1 .. Len(t)
      PROVE  IsFrame(k, t, calls, progress, issued)
  <2>1. IsFrame(k, s, calls, progress, issued) /\ t[k] = s[k] /\ t[1] = s[1]
    BY <1>2 DEF IsStack
  <2>2. k # Len(t) => k < Len(t) /\ k + 1 \in 1 .. Len(t)
    BY <1>1
  <2>3. s[k].type = "flow_spawn" => k # Len(t)
    BY <1>2
  <2> QED BY <2>1, <2>2, <2>3 DEF IsFrame
<1>4. \A j, k \in 1 .. Len(t) : t[j] = t[k] => j = k
  BY <1>2 DEF IsStack
<1>5. t # <<>> => 1 \in 1 .. Len(t) /\ s # <<>>
  BY <1>1
<1> QED BY <1>1, <1>3, <1>4, <1>5 DEF IsStack

LEMMA ActionLeaves ==
  ASSUME NEW s, NEW calls, NEW progress, NEW issued, IsStack(s, calls, progress, issued),
         s # <<>>, NEW a \in Id, s[Len(s)] = [id |-> a, type |-> "action"]
  PROVE  /\ IsStack(Front(s), calls, progress, issued)
         /\ a \in ActionsOn(s) /\ ActionsOn(Front(s)) = ActionsOn(s) \ {a}
<1> DEFINE t == Front(s)
           e == [id |-> a, type |-> "action"]
<1>1. s \in Seq(Frame) /\ Len(s) \in Nat \ {0} /\ Len(s) \in 1 .. Len(s)
  BY DEF IsStack
<1>2. t \in Seq(Frame) /\ Len(t) = Len(s) - 1 /\ \A k \in 1 .. Len(t) : t[k] = s[k]
  BY <1>1, Pop
<1> HIDE DEF t
<1>3. \A k \in 1 .. Len(s) : k = Len(t) => s[k].type # "flow_spawn"
  <2> SUFFICES ASSUME NEW k \in 1 .. Len(s), k = Len(t), s[k].type = "flow_spawn"
               PROVE  FALSE
    OBVIOUS
  <2>1. s[k + 1] = [id |-> s[k].id, type |-> "flow_resume"] /\ k + 1 = Len(s)
    BY <1>1, <1>2 DEF IsStack, IsFrame
  <2> QED BY <2>1
<1>4. IsStack(t, calls, progress, issued)
  BY <1>1, <1>2, <1>3, Leaves
<1>5. \A k \in 1 .. Len(s) : k \in 1 .. Len(t) \/ k = Len(s)
  BY <1>1, <1>2
<1>6. \A k \in 1 .. Len(t) : k \in 1 .. Len(s) /\ k # Len(s)
  BY <1>1, <1>2
<1>7. \A k \in 1 .. Len(t) : t[k] # e
  BY <1>1, <1>2, <1>6 DEF IsStack
<1>8. ActionsOn(t) \subseteq ActionsOn(s) \ {a}
  BY <1>2, <1>6, <1>7 DEF ActionsOn
<1>9. ActionsOn(s) \ {a} \subseteq ActionsOn(t)
  <2> SUFFICES ASSUME NEW b \in ActionsOn(s), b # a
               PROVE  b \in ActionsOn(t)
    OBVIOUS
  <2>1. PICK k \in 1 .. Len(s) : s[k] = [id |-> b, type |-> "action"]
    BY DEF ActionsOn
  <2>2. s[k].id = b /\ s[Len(s)].id = a
    BY <2>1
  <2>3. k \in 1 .. Len(t)
    BY <2>2, <1>5
  <2> QED BY <2>1, <2>3, <1>2 DEF ActionsOn
<1>10. a \in ActionsOn(s)
  BY <1>1 DEF ActionsOn
<1> QED BY <1>4, <1>8, <1>9, <1>10 DEF t

\* A step of a flow ends, and nothing of that flow is left.
LEMMA StepLeaves ==
  ASSUME NEW s, NEW calls, NEW progress, NEW issued, IsStack(s, calls, progress, issued),
         s # <<>>, NEW f \in Id, s[Len(s)] = [id |-> f, type |-> "flow_resume"],
         NEW t, t = IF Front(s) # <<>> /\ Last(Front(s)) = [id |-> f, type |-> "flow_spawn"]
                    THEN Front(Front(s)) ELSE Front(s)
  PROVE  /\ IsStack(t, calls, progress, issued)
         /\ \A k \in 1 .. Len(t) : t[k].id # f
         /\ ActionsOn(t) = ActionsOn(s)
<1> DEFINE d == [id |-> f, type |-> "flow_spawn"]
           e == [id |-> f, type |-> "flow_resume"]
           u == Front(s)
           spawned == u # <<>> /\ u[Len(u)] = d
<1>1. /\ s \in Seq(Frame) /\ Len(s) \in Nat \ {0} /\ Len(s) \in 1 .. Len(s) /\ s[Len(s)] = e
      /\ e.id = f /\ e.type = "flow_resume" /\ d.id = f /\ d.type = "flow_spawn"
  BY DEF IsStack
<1>2. u \in Seq(Frame) /\ Len(u) = Len(s) - 1 /\ \A k \in 1 .. Len(u) : u[k] = s[k]
  BY <1>1, Pop
<1>3. t = IF spawned THEN Front(u) ELSE u
  BY DEF Last
<1> HIDE DEF u, d, e, spawned
<1>4. u # <<>> <=> Len(u) \in 1 .. Len(u)
  BY <1>2
<1>5. u # <<>> => /\ Front(u) \in Seq(Frame) /\ Len(Front(u)) = Len(u) - 1
                  /\ \A k \in 1 .. Len(u) - 1 : Front(u)[k] = u[k]
  BY <1>2, Pop
<1>6. \A k \in 1 .. Len(s) : IsFrame(k, s, calls, progress, issued) /\ s[k] \in Frame
  BY <1>1 DEF IsStack
<1>7. \A k \in 1 .. Len(s) : s[k].type = "flow_spawn" => s[k + 1] = [id |-> s[k].id, type |-> "flow_resume"]
  BY <1>6 DEF IsFrame
<1>8. ASSUME NEW k \in 1 .. Len(s), k = Len(u), s[k].type = "flow_spawn"
      PROVE  spawned
  <2>0. k + 1 = Len(s) /\ s[k + 1] = [id |-> s[k].id, type |-> "flow_resume"]
    BY <1>1, <1>2, <1>7, <1>8
  <2>1. s[k].id = f
    BY <2>0, <1>1
  <2>2. s[k] = d
    BY <2>1, <1>6, <1>8 DEF Frame, d
  <2> QED BY <2>2, <1>2, <1>4, <1>8 DEF spawned
<1>9. /\ t \in Seq(Frame) /\ Len(t) \in Nat /\ Len(t) < Len(s) /\ \A k \in 1 .. Len(t) : t[k] = s[k]
      /\ Len(t) = IF spawned THEN Len(s) - 2 ELSE Len(s) - 1
  <2>1. CASE spawned
    <3>1. u # <<>> /\ t = Front(u) /\ Len(u) \in Nat \ {0}
      BY <2>1, <1>2, <1>3 DEF spawned
    <3>2. t \in Seq(Frame) /\ Len(t) = Len(u) - 1 /\ \A k \in 1 .. Len(u) - 1 : t[k] = u[k]
      BY <3>1, <1>5
    <3>3. Len(t) \in Nat /\ Len(t) = Len(s) - 2 /\ Len(t) < Len(s)
      BY <3>1, <3>2, <1>1, <1>2
    <3>4. \A k \in 1 .. Len(t) : t[k] = s[k]
      BY <3>1, <3>2, <1>2
    <3> QED BY <2>1, <3>2, <3>3, <3>4
  <2>2. CASE ~spawned
    BY <2>2, <1>1, <1>2, <1>3
  <2> QED BY <2>1, <2>2
<1>10. spawned => Len(s) - 1 \in 1 .. Len(s) /\ s[Len(s) - 1] = d
  BY <1>1, <1>2, <1>4 DEF spawned
<1>11. ASSUME NEW k \in 1 .. Len(s), k = Len(t), s[k].type = "flow_spawn"
      PROVE  FALSE
  <2>1. CASE spawned
    <3>1. k + 1 = Len(s) - 1
      BY <2>1, <1>1, <1>9, <1>11
    <3>2. s[k + 1] = d
      BY <2>1, <3>1, <1>10
    <3>3. s[k + 1] = [id |-> s[k].id, type |-> "flow_resume"]
      BY <1>7, <1>11
    <3>4. s[k + 1].type = "flow_resume"
      BY <3>3
    <3> QED BY <3>2, <3>4, <1>1
  <2>2. CASE ~spawned
    BY <2>2, <1>2, <1>8, <1>9, <1>11
  <2> QED BY <2>1, <2>2
<1>12. IsStack(t, calls, progress, issued)
  <2>1. Len(t) <= Len(s)
    BY <1>1, <1>9
  <2>2. \A k \in 1 .. Len(s) : k = Len(t) => s[k].type # "flow_spawn"
    BY <1>11
  <2> QED BY <2>1, <2>2, <1>9, Leaves
<1>13. ASSUME NEW k \in 1 .. Len(t), t[k].id = f
       PROVE  FALSE
  <2>1. k \in 1 .. Len(s) /\ k < Len(s) /\ s[k].id = f /\ s[k] \in Frame
    BY <1>1, <1>6, <1>9, <1>13
  <2>2. CASE s[k].type = "action"
    BY <2>1, <2>2, <1>1, <1>6 DEF IsFrame
  <2>3. CASE s[k].type = "flow_resume"
    <3>1. s[k] = e
      BY <2>1, <2>3 DEF Frame, e
    <3> QED BY <3>1, <2>1, <1>1 DEF IsStack
  <2>4. CASE s[k].type = "flow_spawn"
    <3>1. s[k + 1] = e /\ k + 1 \in 1 .. Len(s)
      BY <2>1, <2>4, <1>1, <1>7 DEF e
    <3>2. k + 1 = Len(s)
      BY <3>1, <1>1 DEF IsStack
    <3>3. spawned
      BY <3>2, <2>1, <2>4, <1>1, <1>2, <1>8
    <3> QED BY <3>2, <3>3, <1>1, <1>9
  <2> QED BY <2>1, <2>2, <2>3, <2>4 DEF Frame
<1>14. ActionsOn(t) \subseteq ActionsOn(s)
  BY <1>1, <1>9 DEF ActionsOn
<1>15. ActionsOn(s) \subseteq ActionsOn(t)
  <2> SUFFICES ASSUME NEW b \in ActionsOn(s)
               PROVE  b \in ActionsOn(t)
    OBVIOUS
  <2>1. PICK k \in 1 .. Len(s) : s[k] = [id |-> b, type |-> "action"]
    BY DEF ActionsOn
  <2>2. s[k].type = "action"
    BY <2>1
  <2>3. k # Len(s) /\ (spawned => k # Len(s) - 1)
    BY <2>2, <1>1, <1>10
  <2>4. k \in 1 .. Len(t)
    BY <2>3, <1>1, <1>9
  <2> QED BY <2>1, <2>4, <1>9 DEF ActionsOn
<1> QED BY <1>12, <1>13, <1>14, <1>15
-----------------------------------------------------------------------------
(* The steps of the engine *)

LEMMA InvokeEngine ==
  ASSUME EngineInv, Invoke
  PROVE  /\ EngineInv' /\ Allocated(nextActionId, "action")
         /\ ActionsOn(stack') = ActionsOn(stack) \cup {nextActionId}
<1> DEFINE n == nextActionId
           e == [id |-> n, type |-> "action"]
<1>1. Allocated(n, "action")
  BY NewNumber DEF Invoke
<1>2. n \in Id /\ n \notin Issued /\ Issued \subseteq Issued' /\ n \in Issued'
  BY <1>1 DEF Allocated, Issued
<1>3. stack' = Append(stack, e) /\ UNCHANGED <<flow, awaited, yields>>
  BY DEF Invoke
<1>4. Unnumbered' /\ Family'
  <2>1. flow[n] = "unused"
    BY <1>2 DEF EngineInv, Unnumbered
  <2> QED BY <2>1, <1>1, <1>3, FamilyGrows
<1>5. IsStack(stack, info', flow', Issued')
  <2>1. \A i \in Issued : info'[i] = info[i]
    BY <1>1, <1>2 DEF Allocated, Issued
  <2>2. \A k \in 1 .. Len(stack) : stack[k].type # "action" => flow'[stack[k].id] = "running"
    BY <1>3 DEF EngineInv, IsStack, IsFrame
  <2> QED BY <2>1, <2>2, <1>2, SameStack DEF EngineInv
<1>6. info'[n].kind = "action"
  BY <1>1 DEF Allocated
<1>7. \A k \in 1 .. Len(stack) : stack[k].id # n
  BY <1>2 DEF EngineInv, IsStack, IsFrame
<1>8. IF stack = <<>> THEN info'[n].root = n ELSE info'[n].root = info'[stack[Len(stack)].id].root
  <2>1. info'[n].root = RootId(Context, n)
    BY <1>1 DEF Allocated
  <2>2. CASE stack = <<>>
    BY <2>1, <2>2, TopFrame DEF RootId
  <2>3. CASE stack # <<>>
    <3>1. Context = stack[Len(stack)].id /\ Context \in Issued
      BY <2>3, TopFrame
    <3>2. info'[Context] = info[Context]
      BY <3>1, <1>1, <1>2 DEF Allocated, Issued
    <3> QED BY <2>1, <2>3, <3>1, <3>2, ContextKnown
  <2> QED BY <2>2, <2>3
<1>9. IsStack(stack', info', flow', Issued') /\ ActionsOn(stack') = ActionsOn(stack) \cup {n}
  BY <1>2, <1>3, <1>5, <1>6, <1>7, <1>8, ActionEnters
<1>10. EngineTypeOK'
  <2>1. nextActionId' \in 1 .. MaxId + 1
    BY <1>1, <1>2, Numbers DEF Allocated, Id, EngineInv
  <2>2. info' \in [Id -> Call]
    BY <1>1 DEF Allocated
  <2>3. stack' \in Seq(Frame)
    BY <1>9 DEF IsStack
  <2> QED BY <2>1, <2>2, <2>3, <1>3 DEF EngineInv, EngineTypeOK, Frame
<1> QED BY <1>1, <1>4, <1>9, <1>10 DEF EngineInv

LEMMA ExitEngine ==
  ASSUME EngineInv, NEW a \in Id, Exit(a)
  PROVE  /\ EngineInv' /\ a \in ActionsOn(stack) /\ ActionsOn(stack') = ActionsOn(stack) \ {a}
         /\ a \in Issued /\ info[a].kind = "action"
<1>1. stack # <<>> /\ stack[Len(stack)] = [id |-> a, type |-> "action"] /\ stack' = Front(stack)
  BY DEF Exit, Runs, Last
<1>2. UNCHANGED <<nextActionId, info, flow, awaited, yields>>
  BY DEF Exit
<1>3. /\ IsStack(stack', info, flow, Issued)
      /\ a \in ActionsOn(stack) /\ ActionsOn(stack') = ActionsOn(stack) \ {a}
  BY <1>1, ActionLeaves DEF EngineInv
<1>4. IsStack(stack', info', flow', Issued')
  BY <1>2, <1>3 DEF Issued
<1>5. EngineTypeOK'
  <2>1. stack' \in Seq(Frame)
    BY <1>3 DEF IsStack
  <2> QED BY <2>1, <1>2 DEF EngineInv, EngineTypeOK, Frame
<1>6. Unnumbered' /\ Family'
  BY <1>2 DEF EngineInv, Unnumbered, Family, Issued
<1>7. a \in Issued /\ info[a].kind = "action"
  <2>1. Len(stack) \in 1 .. Len(stack)
    BY <1>1, TopFrame
  <2>2. stack[Len(stack)].id = a /\ stack[Len(stack)].type = "action"
    BY <1>1
  <2> QED BY <2>1, <2>2 DEF EngineInv, IsStack, IsFrame
<1> QED BY <1>3, <1>4, <1>5, <1>6, <1>7 DEF EngineInv

LEMMA SpawnEngine ==
  ASSUME EngineInv, Spawn
  PROVE  /\ EngineInv' /\ Allocated(nextActionId, "flow") /\ stack # <<>>
         /\ ActionsOn(stack') = ActionsOn(stack)
         /\ flow' = [flow EXCEPT ![nextActionId] = "running"]
<1> DEFINE n == nextActionId
<1>1. stack # <<>> /\ Allocated(n, "flow")
  BY NewNumber DEF Spawn
<1>2. n \in Id /\ n \notin Issued /\ Issued \subseteq Issued' /\ n \in Issued'
  BY <1>1 DEF Allocated, Issued
<1>3. /\ stack' = stack \o <<[id |-> n, type |-> "flow_spawn"], [id |-> n, type |-> "flow_resume"]>>
      /\ flow' = [flow EXCEPT ![n] = "running"]
      /\ UNCHANGED <<awaited, yields>>
  BY DEF Spawn
<1>4. flow \in [Id -> Open \cup Settled \cup {"unused"}]
  BY DEF EngineInv, EngineTypeOK
<1>5. flow'[n] = "running" /\ \A i \in Id : i # n => flow'[i] = flow[i]
  BY <1>2, <1>3, <1>4
<1>6. Unnumbered' /\ Family'
  BY <1>1, <1>5, FamilyGrows
<1>7. \A k \in 1 .. Len(stack) : stack[k].id # n /\ stack[k].id \in Id
  BY <1>2 DEF EngineInv, IsStack, IsFrame, Issued
<1>8. IsStack(stack, info', flow', Issued')
  <2>1. \A i \in Issued : info'[i] = info[i]
    BY <1>1, <1>2 DEF Allocated, Issued
  <2>2. \A k \in 1 .. Len(stack) : stack[k].type # "action" => flow'[stack[k].id] = "running"
    BY <1>5, <1>7 DEF EngineInv, IsStack, IsFrame
  <2> QED BY <2>1, <2>2, <1>2, SameStack DEF EngineInv
<1>9. info'[n].kind = "flow" /\ info'[n].root = info'[stack[Len(stack)].id].root
  <2>1. info'[n].root = RootId(Context, n) /\ info'[n].kind = "flow"
    BY <1>1 DEF Allocated
  <2>2. Context = stack[Len(stack)].id /\ Context \in Issued
    BY <1>1, TopFrame
  <2>3. info'[Context] = info[Context]
    BY <2>2, <1>1, <1>2 DEF Allocated, Issued
  <2> QED BY <2>1, <2>2, <2>3, <1>1, ContextKnown
<1>10. IsStack(stack', info', flow', Issued') /\ ActionsOn(stack') = ActionsOn(stack)
  <2>1. SpawnedOn(stack, n, stack')
    BY <1>3, <1>7 DEF SpawnedOn
  <2>2. flow'[n] = "running"
    BY <1>5
  <2> HIDE DEF n
  <2> QED BY <2>1, <2>2, <1>1, <1>2, <1>8, <1>9, FlowEnters
<1>11. EngineTypeOK'
  <2>1. nextActionId' \in 1 .. MaxId + 1
    BY <1>1, <1>2, Numbers DEF Allocated, Id, EngineInv
  <2>2. info' \in [Id -> Call]
    BY <1>1 DEF Allocated
  <2>3. stack' \in Seq(Frame)
    BY <1>10 DEF IsStack
  <2>4. flow' \in [Id -> Open \cup Settled \cup {"unused"}]
    BY <1>3, <1>4 DEF Open
  <2> QED BY <2>1, <2>2, <2>3, <2>4, <1>3 DEF EngineInv, EngineTypeOK, Frame
<1> QED BY <1>1, <1>3, <1>6, <1>10, <1>11 DEF EngineInv

\* What the middlewares do not see: a flow goes on, or stops, and is still open.
Quiet ==
  /\ UNCHANGED <<nextActionId, info>>
  /\ ActionsOn(stack') = ActionsOn(stack)
  /\ \A i \in Id : flow'[i] = flow[i] \/ (flow[i] \in Open /\ flow'[i] \in Open)

LEMMA StepEngine ==
  ASSUME EngineInv, NEW f \in Id,
         (\E g \in Id \cup {None} : Yield(f, g)) \/ (\E how \in {"returning", "throwing"} : Finish(f, how))
  PROVE  EngineInv' /\ Quiet
<1>1. Leave(f)
  BY DEF Yield, Finish
<1>2. UNCHANGED <<nextActionId, info>>
  BY DEF Yield, Finish
<1>3. /\ stack # <<>> /\ stack[Len(stack)] = [id |-> f, type |-> "flow_resume"]
      /\ stack' = IF Front(stack) # <<>> /\ Last(Front(stack)) = [id |-> f, type |-> "flow_spawn"]
                  THEN Front(Front(stack)) ELSE Front(stack)
  BY <1>1 DEF Leave, Runs, Last
<1>4. /\ IsStack(stack', info, flow, Issued) /\ ActionsOn(stack') = ActionsOn(stack)
      /\ \A k \in 1 .. Len(stack') : stack'[k].id # f
  BY <1>3, StepLeaves DEF EngineInv
<1>5. flow[f] = "running"
  <2>1. Len(stack) \in 1 .. Len(stack)
    BY <1>3, TopFrame
  <2>2. stack[Len(stack)].id = f /\ stack[Len(stack)].type = "flow_resume"
    BY <1>3
  <2> QED BY <2>1, <2>2 DEF EngineInv, IsStack, IsFrame
<1>6. flow \in [Id -> Open \cup Settled \cup {"unused"}]
  BY DEF EngineInv, EngineTypeOK
<1>7. PICK v \in {"waiting", "returning", "throwing"} : flow' = [flow EXCEPT ![f] = v]
  BY DEF Yield, Finish
<1>8. flow'[f] = v /\ v \in Open /\ \A i \in Id : i # f => flow'[i] = flow[i]
  BY <1>6, <1>7 DEF Open
<1>9. Quiet
  BY <1>2, <1>4, <1>5, <1>8 DEF Quiet, Open
<1>10. IsStack(stack', info', flow', Issued')
  <2>1. Issued' = Issued
    BY <1>2 DEF Issued
  <2>2. \A k \in 1 .. Len(stack') : stack'[k].type # "action" => flow'[stack'[k].id] = "running"
    BY <1>4, <1>8 DEF IsStack, IsFrame, Issued
  <2> QED BY <2>1, <2>2, <1>2, <1>4, SameStack
<1>11. Unnumbered' /\ Family'
  <2>1. f \in Issued
    BY <1>5 DEF EngineInv, Unnumbered
  <2>2. \A i \in Id : flow'[i] = "unused" <=> flow[i] = "unused"
    BY <1>5, <1>8
  <2> QED BY <2>1, <2>2, <1>2, <1>8 DEF EngineInv, Unnumbered, Family, IsRelative, Issued
<1>12. EngineTypeOK'
  <2>1. stack' \in Seq(Frame)
    BY <1>4 DEF IsStack
  <2>2. flow' \in [Id -> Open \cup Settled \cup {"unused"}]
    BY <1>6, <1>7, <1>8
  <2>3. awaited' \in [Id -> Id \cup {None}]
    BY DEF Yield, Finish, EngineInv, EngineTypeOK
  <2>4. yields' \in [Id -> 0 .. MaxYields]
    <3>1. yields \in [Id -> 0 .. MaxYields] /\ MaxYields \in Nat
      BY Numbers DEF EngineInv, EngineTypeOK
    <3>2. yields' = yields \/ (yields[f] < MaxYields /\ yields' = [yields EXCEPT ![f] = @ + 1])
      BY DEF Yield, Finish
    <3> QED BY <3>1, <3>2
  <2> QED BY <2>1, <2>2, <2>3, <2>4, <1>2 DEF EngineInv, EngineTypeOK, Frame
<1> QED BY <1>9, <1>10, <1>11, <1>12 DEF EngineInv

LEMMA ResumeEngine ==
  ASSUME EngineInv, NEW f \in Id, Resume(f)
  PROVE  EngineInv' /\ Quiet
<1> DEFINE e == [id |-> f, type |-> "flow_resume"]
<1>1. stack = <<>> /\ flow[f] = "waiting" /\ stack' = <<e>> /\ UNCHANGED <<nextActionId, info, yields>>
  BY DEF Resume
<1>2. flow \in [Id -> Open \cup Settled \cup {"unused"}] /\ awaited \in [Id -> Id \cup {None}]
  BY DEF EngineInv, EngineTypeOK
<1>3. flow' = [flow EXCEPT ![f] = "running"] /\ awaited' = [awaited EXCEPT ![f] = None]
  BY DEF Resume
<1>4. flow'[f] = "running" /\ \A i \in Id : i # f => flow'[i] = flow[i]
  BY <1>2, <1>3
<1>5. e \in Frame /\ e.id = f /\ e.type = "flow_resume" /\ e # [id |-> f, type |-> "action"]
  BY DEF Frame
<1>6. f \in Issued /\ info[f].kind = "flow"
  <2>1. f \in Issued
    BY <1>1 DEF EngineInv, Unnumbered
  <2> QED BY <2>1, <1>1 DEF EngineInv, Family, IsRelative
<1> HIDE DEF e
<1>7. stack' \in Seq(Frame) /\ Len(stack') = 1 /\ stack'[1] = e
  BY <1>1, <1>5
<1>8. \A k \in 1 .. Len(stack') : k = 1
  BY <1>7
<1>9. IsStack(stack', info', flow', Issued')
  <2>1. IsFrame(1, stack', info', flow', Issued')
    BY <1>1, <1>4, <1>5, <1>6, <1>7 DEF IsFrame, Issued
  <2> QED BY <2>1, <1>5, <1>7, <1>8 DEF IsStack
<1>10. ActionsOn(stack') = ActionsOn(stack)
  <2>1. ActionsOn(stack) = {}
    BY <1>1 DEF ActionsOn
  <2>2. \A a \in Id : [id |-> a, type |-> "action"] # e
    BY DEF e
  <2>3. ActionsOn(stack') = {}
    BY <2>2, <1>7, <1>8 DEF ActionsOn
  <2> QED BY <2>1, <2>3
<1>11. Quiet
  BY <1>1, <1>4, <1>10 DEF Quiet, Open
<1>12. Unnumbered' /\ Family'
  <2>1. \A i \in Id : flow'[i] = "unused" <=> flow[i] = "unused"
    BY <1>1, <1>4
  <2> QED BY <2>1, <1>1, <1>4, <1>6 DEF EngineInv, Unnumbered, Family, IsRelative, Issued
<1>13. EngineTypeOK'
  <2>1. flow' \in [Id -> Open \cup Settled \cup {"unused"}] /\ awaited' \in [Id -> Id \cup {None}]
    BY <1>2, <1>3 DEF Open
  <2> QED BY <2>1, <1>1, <1>7 DEF EngineInv, EngineTypeOK, Frame
<1> QED BY <1>9, <1>11, <1>12, <1>13 DEF EngineInv

LEMMA SettleEngine ==
  ASSUME EngineInv, NEW f \in Id, SettleFlow(f)
  PROVE  /\ EngineInv' /\ UNCHANGED <<nextActionId, info, stack>>
         /\ ActionsOn(stack) = {} /\ f \in Issued /\ info[f].kind = "flow"
         /\ flow[f] \in {"returning", "throwing"}
         /\ flow'[f] = IF flow[f] = "returning" THEN "returned" ELSE "thrown"
         /\ \A i \in Id : i # f => flow'[i] = flow[i]
<1>1. /\ stack = <<>> /\ flow[f] \in {"returning", "throwing"}
      /\ UNCHANGED <<nextActionId, info, stack, awaited, yields>>
  BY DEF SettleFlow
<1>2. flow \in [Id -> Open \cup Settled \cup {"unused"}]
  BY DEF EngineInv, EngineTypeOK
<1>3. flow' = [flow EXCEPT ![f] = IF flow[f] = "returning" THEN "returned" ELSE "thrown"]
  BY DEF SettleFlow
<1>4. /\ flow'[f] = IF flow[f] = "returning" THEN "returned" ELSE "thrown"
      /\ \A i \in Id : i # f => flow'[i] = flow[i]
  BY <1>2, <1>3
<1>5. f \in Issued /\ info[f].kind = "flow"
  <2>1. f \in Issued
    BY <1>1 DEF EngineInv, Unnumbered
  <2> QED BY <2>1, <1>1 DEF EngineInv, Family, IsRelative
<1>6. ActionsOn(stack) = {}
  BY <1>1 DEF ActionsOn
<1>7. Unnumbered' /\ Family'
  <2>1. \A i \in Id : flow'[i] = "unused" <=> flow[i] = "unused"
    BY <1>1, <1>4
  <2> QED BY <2>1, <1>1, <1>4, <1>5 DEF EngineInv, Unnumbered, Family, IsRelative, Issued
<1>8. IsStack(stack', info', flow', Issued')
  <2>1. Issued' = Issued
    BY <1>1 DEF Issued
  <2>2. \A k \in 1 .. Len(stack) : FALSE
    BY <1>1
  <2>3. IsStack(stack, info', flow', Issued')
    BY <2>1, <2>2, <1>1, SameStack DEF EngineInv
  <2> QED BY <2>3, <1>1
<1>9. EngineTypeOK'
  <2>1. flow' \in [Id -> Open \cup Settled \cup {"unused"}]
    BY <1>2, <1>3 DEF Settled
  <2> QED BY <2>1, <1>1 DEF EngineInv, EngineTypeOK
<1> QED BY <1>1, <1>4, <1>5, <1>6, <1>7, <1>8, <1>9 DEF EngineInv

-----------------------------------------------------------------------------
(* Who starts a flow *)

\* A flow is spawned while its parent action is running or has another open
\* flow, and so for its root action.
LEMMA SpawnedUnderTheRunning ==
  ASSUME EngineInv, stack # <<>>, NEW i
  PROVE  LET a == ParentAction(Context)
             r == RootId(Context, i)
         IN /\ a \in ActionsOn(stack) \/ FlowsOf(a) # {}
            /\ r \in ActionsOn(stack) \/ FlowsUnder(r) # {}
<1> DEFINE top == stack[Len(stack)]
           bottom == stack[1]
<1>1. 1 \in 1 .. Len(stack) /\ Len(stack) \in 1 .. Len(stack) /\ Context = top.id
  BY TopFrame, Numbers DEF EngineInv
<1>2. /\ IsFrame(1, stack, info, flow, Issued) /\ IsFrame(Len(stack), stack, info, flow, Issued)
      /\ top \in Frame /\ bottom \in Frame
      /\ bottom.type = "action" => info[bottom.id].root = bottom.id
  BY <1>1 DEF EngineInv, IsStack
<1>3. top.id \in Issued /\ bottom.id \in Issued /\ top.id \in Id /\ bottom.id \in Id /\ top.id # None
  BY <1>2, Numbers DEF IsFrame, Issued, EngineInv
<1>4. ParentAction(Context) \in ActionsOn(stack) \/ FlowsOf(ParentAction(Context)) # {}
  <2>1. CASE top.type = "action"
    <3>1. ParentAction(Context) = top.id
      BY <2>1, <1>1, <1>2, <1>3 DEF ParentAction, IsFrame
    <3>2. top = [id |-> top.id, type |-> "action"]
      BY <2>1, <1>2 DEF Frame
    <3> QED BY <3>1, <3>2, <1>1, <1>3 DEF ActionsOn
  <2>2. CASE top.type # "action"
    <3>1. flow[top.id] = "running" /\ info[top.id].kind # "action"
      BY <2>2, <1>2 DEF IsFrame
    <3>2. ParentAction(Context) = info[top.id].action
      BY <3>1, <1>1, <1>3 DEF ParentAction
    <3> QED BY <3>1, <3>2, <1>3 DEF FlowsOf, IsOpen, Open
  <2> QED BY <2>1, <2>2
<1>5. RootId(Context, i) \in ActionsOn(stack) \/ FlowsUnder(RootId(Context, i)) # {}
  <2>1. RootId(Context, i) = info[bottom.id].root
    BY <1>1, <1>2, <1>3 DEF RootId, IsFrame
  <2>2. CASE bottom.type = "action"
    <3>1. bottom = [id |-> bottom.id, type |-> "action"]
      BY <2>2, <1>2 DEF Frame
    <3> QED BY <3>1, <2>1, <2>2, <1>1, <1>2, <1>3 DEF ActionsOn
  <2>3. CASE bottom.type # "action"
    <3>1. flow[bottom.id] = "running"
      BY <2>3, <1>2 DEF IsFrame
    <3> QED BY <3>1, <2>1, <1>3 DEF FlowsUnder, IsOpen, Open
  <2> QED BY <2>2, <2>3
<1> QED BY <1>4, <1>5
-----------------------------------------------------------------------------
(* The flows that are still open *)

LEMMA SubsetsOfId ==
  ASSUME NEW S \in SUBSET Id
  PROVE  IsFiniteSet(S) /\ Cardinality(S) \in Nat /\ (Cardinality(S) = 0 <=> S = {})
<1>1. IsFiniteSet(Id)
  BY FlowsAssumption, FS_Interval DEF Id
<1>2. IsFiniteSet(S)
  BY <1>1, FS_Subset
<1> QED BY <1>2, FS_CardinalityType, FS_EmptySet

LEMMA FlowsAreFinite ==
  ASSUME NEW a
  PROVE  /\ IsFiniteSet(FlowsUnder(a)) /\ Cardinality(FlowsUnder(a)) \in Nat
         /\ Cardinality(FlowsUnder(a)) = 0 <=> FlowsUnder(a) = {}
         /\ IsFiniteSet(FlowsOf(a)) /\ Cardinality(FlowsOf(a)) \in Nat
         /\ Cardinality(FlowsOf(a)) = 0 <=> FlowsOf(a) = {}
<1>1. FlowsUnder(a) \in SUBSET Id /\ FlowsOf(a) \in SUBSET Id
  BY DEF FlowsUnder, FlowsOf
<1> QED BY <1>1, SubsetsOfId

LEMMA FlowsStayFinite ==
  ASSUME NEW a
  PROVE  /\ Cardinality(FlowsUnder(a))' \in Nat /\ Cardinality(FlowsOf(a))' \in Nat
         /\ Cardinality(FlowsUnder(a))' = 0 <=> FlowsUnder(a)' = {}
         /\ Cardinality(FlowsOf(a))' = 0 <=> FlowsOf(a)' = {}
<1>1. FlowsUnder(a)' \in SUBSET Id /\ FlowsOf(a)' \in SUBSET Id
  BY DEF FlowsUnder, FlowsOf
<1> QED BY <1>1, SubsetsOfId

LEMMA OneMore ==
  ASSUME NEW S, IsFiniteSet(S), NEW x, x \notin S
  PROVE  Cardinality(S \cup {x}) = Cardinality(S) + 1
BY FS_AddElement

LEMMA OneLess ==
  ASSUME NEW S, IsFiniteSet(S), NEW x \in S
  PROVE  Cardinality(S \ {x}) = Cardinality(S) - 1 /\ Cardinality(S) > 0
<1>1. Cardinality(S \ {x}) = Cardinality(S) - 1
  BY FS_RemoveElement
<1>2. Cardinality(S) \in Nat /\ Cardinality(S) # 0
  BY FS_CardinalityType, FS_EmptySet
<1> QED BY <1>1, <1>2

\* An open flow has a number, a root action and a parent action.
LEMMA OpenFlow ==
  ASSUME EngineInv, NEW f \in Id, IsOpen(f)
  PROVE  f \in Issued /\ info[f].root \in Issued /\ info[f].action \in Issued
<1>1. f \in Issued /\ flow[f] # "unused"
  BY DEF EngineInv, Unnumbered, IsOpen, Open
<1> QED BY <1>1 DEF EngineInv, Family, IsRelative

\* what is open under each number, and its flows
SameFlows ==
  \A a \in Id : FlowsUnder(a)' = FlowsUnder(a) /\ FlowsOf(a)' = FlowsOf(a)

LEMMA FlowsKept ==
  ASSUME EngineInv, \A i \in Issued : info'[i] = info[i],
         \A i \in Id : IsOpen(i)' <=> IsOpen(i)
  PROVE  SameFlows
<1>1. \A f \in Id : IsOpen(f) => info'[f] = info[f]
  BY OpenFlow
<1> QED BY <1>1 DEF SameFlows, FlowsUnder, FlowsOf

\* A new flow f under r, called by a.
FlowAdded(f, r, a) ==
  /\ f \in Id /\ r \in Id /\ a \in Id
  /\ \A b \in Id : f \notin FlowsUnder(b) /\ f \notin FlowsOf(b)
  /\ \A b \in Id : FlowsUnder(b)' = IF b = r THEN FlowsUnder(b) \cup {f} ELSE FlowsUnder(b)
  /\ \A b \in Id : FlowsOf(b)' = IF b = a THEN FlowsOf(b) \cup {f} ELSE FlowsOf(b)

LEMMA SpawnAddsAFlow ==
  ASSUME EngineInv, Spawn
  PROVE  FlowAdded(nextActionId, RootId(Context, nextActionId), ParentAction(Context))
<1> DEFINE n == nextActionId
           r == RootId(Context, n)
           a == ParentAction(Context)
<1>1. /\ Allocated(n, "flow") /\ stack # <<>> /\ flow' = [flow EXCEPT ![n] = "running"]
      /\ n \in Id /\ n \notin Issued
  BY SpawnEngine DEF Allocated
<1>2. r \in Id /\ a \in Id
  BY <1>1, ContextKnown DEF Issued
<1>3. ~IsOpen(n)
  BY <1>1, OpenFlow
<1>4. flow \in [Id -> Open \cup Settled \cup {"unused"}]
  BY DEF EngineInv, EngineTypeOK
<1>5. /\ info'[n].root = r /\ info'[n].action = a
      /\ \A i \in Id : i # n => info'[i] = info[i]
  BY <1>1 DEF Allocated
<1> HIDE DEF n, r, a
<1>6. flow'[n] \in Open /\ \A i \in Id : i # n => (IsOpen(i)' <=> IsOpen(i))
  BY <1>1, <1>4 DEF IsOpen, Open
<1>7. \A b \in Id : n \notin FlowsUnder(b) /\ n \notin FlowsOf(b)
  BY <1>3 DEF FlowsUnder, FlowsOf
<1>8. \A b \in Id : FlowsUnder(b)' = IF b = r THEN FlowsUnder(b) \cup {n} ELSE FlowsUnder(b)
  BY <1>1, <1>3, <1>5, <1>6 DEF FlowsUnder, IsOpen
<1>9. \A b \in Id : FlowsOf(b)' = IF b = a THEN FlowsOf(b) \cup {n} ELSE FlowsOf(b)
  BY <1>1, <1>3, <1>5, <1>6 DEF FlowsOf, IsOpen
<1> QED BY <1>1, <1>2, <1>7, <1>8, <1>9 DEF FlowAdded, n, r, a

\* The flow f under r, called by a, has settled.
FlowRemoved(f, r, a) ==
  /\ f \in Id /\ r \in Id /\ a \in Id
  /\ f \in FlowsUnder(r) /\ f \in FlowsOf(a)
  /\ \A b \in Id : FlowsUnder(b)' = IF b = r THEN FlowsUnder(b) \ {f} ELSE FlowsUnder(b)
  /\ \A b \in Id : FlowsOf(b)' = IF b = a THEN FlowsOf(b) \ {f} ELSE FlowsOf(b)

LEMMA SettleRemovesAFlow ==
  ASSUME EngineInv, NEW f \in Id, SettleFlow(f)
  PROVE  FlowRemoved(f, info[f].root, info[f].action)
<1>1. /\ UNCHANGED info
      /\ IsOpen(f) /\ ~IsOpen(f)'
      /\ \A i \in Id : i # f => (IsOpen(i)' <=> IsOpen(i))
  BY SettleEngine DEF IsOpen, Open
<1>2. info[f].root \in Id /\ info[f].action \in Id
  BY <1>1, OpenFlow DEF Issued
<1>3. f \in FlowsUnder(info[f].root) /\ f \in FlowsOf(info[f].action)
  BY <1>1 DEF FlowsUnder, FlowsOf
<1>4. \A b \in Id : FlowsUnder(b)' = IF b = info[f].root THEN FlowsUnder(b) \ {f} ELSE FlowsUnder(b)
  BY <1>1 DEF FlowsUnder
<1>5. \A b \in Id : FlowsOf(b)' = IF b = info[f].action THEN FlowsOf(b) \ {f} ELSE FlowsOf(b)
  BY <1>1 DEF FlowsOf
<1> QED BY <1>2, <1>3, <1>4, <1>5 DEF FlowRemoved
-----------------------------------------------------------------------------
(* The invariant of the middlewares *)

Report == [verdict : {"none", "success", "fail"}, call : Id \cup {None}]

\* What is still to settle under a root action: its flows and its own run.
Load(r) == Cardinality(FlowsUnder(r)) + (IF r \in ActionsOn(stack) THEN 1 ELSE 0)

\* An entry is open until its action is reported, and counts what is to settle;
\* an action on the stack is not reported, and one that is has no open flow.
FirstInv ==
  /\ entries1 \subseteq Issued
  /\ pending1 \in [Id -> Nat] /\ failure1 \in [Id -> Id \cup {None}] /\ told1 \in [Id -> Report]
  /\ \A i \in Id \ Issued : told1[i] = Untold /\ failure1[i] = None
  /\ \A a \in entries1 : told1[a] = Untold /\ a \notin threw
  /\ \A a \in ActionsOn(stack) : told1[a] = Untold
  /\ \A r \in entries1 : pending1[r] = Load(r)
  /\ \A a \in Id \ threw : told1[a] # Untold => FlowsUnder(a) = {}

SecondInv ==
  /\ entries2 \subseteq Issued
  /\ pending2 \in [Id -> Nat] /\ told2 \in [Id -> {"none", "success", "fail"}]
  /\ \A i \in Id \ Issued : told2[i] = "none" /\ pending2[i] = 0
  /\ \A a \in entries2 : told2[a] = "none" /\ a \notin threw
  /\ ActionsOn(stack) \subseteq entries2
  /\ \A a \in entries2 : pending2[a] = Cardinality(FlowsOf(a))
  /\ \A a \in Id \ threw : told2[a] # "none" => FlowsOf(a) = {}

HistoryInv ==
  /\ threw \subseteq Issued /\ ActionsOn(stack) \cap threw = {}
  /\ ended \in Seq(Id)

IInv == EngineInv /\ FirstInv /\ SecondInv /\ HistoryInv

LEMMA Loads ==
  ASSUME NEW r
  PROVE  /\ Load(r) \in Nat /\ (Load(r) = 0 => FlowsUnder(r) = {})
         /\ Load(r)' \in Nat /\ (Load(r)' = 0 => FlowsUnder(r)' = {})
<1>1. Load(r) \in Nat /\ (Load(r) = 0 => FlowsUnder(r) = {})
  BY FlowsAreFinite DEF Load
<1>2. Load(r)' \in Nat /\ (Load(r)' = 0 => FlowsUnder(r)' = {})
  BY FlowsStayFinite DEF Load
<1> QED BY <1>1, <1>2

\* Something under r has settled.
LoadLessened(r) ==
  /\ Load(r)' = Load(r) - 1
  /\ \A b \in Id : b # r => Load(b)' = Load(b)
  /\ \A b \in Id : FlowsUnder(b)' \subseteq FlowsUnder(b)
  /\ ActionsOn(stack') \subseteq ActionsOn(stack) \ {r}
  /\ Issued' = Issued /\ threw' = threw

LEMMA SettlesFirst ==
  ASSUME EngineInv, FirstInv, NEW r \in Id, NEW c \in Id, NEW bad \in BOOLEAN,
         Settle1(r, c, bad), LoadLessened(r)
  PROVE  FirstInv'
<1>1. /\ Issued' = Issued /\ threw' = threw /\ entries1 \subseteq Id
      /\ \A a \in ActionsOn(stack') : a \in Id /\ a # r /\ a \in ActionsOn(stack)
      /\ \A b \in Id : b # r => Load(b)' = Load(b)
      /\ \A b \in Id : FlowsUnder(b)' \subseteq FlowsUnder(b)
  BY DEF LoadLessened, ActionsOn, FirstInv, Issued
<1>2. CASE r \notin entries1 /\ UNCHANGED first
  <2>1. \A b \in entries1' : pending1'[b] = Load(b)'
    BY <1>1, <1>2 DEF FirstInv, first
  <2>2. \A a \in Id \ threw' : told1'[a] # Untold => FlowsUnder(a)' = {}
    BY <1>1, <1>2 DEF FirstInv, first
  <2> QED BY <2>1, <2>2, <1>1, <1>2 DEF FirstInv, first
<1>3. CASE r \in entries1 /\ ~(r \notin entries1 /\ UNCHANGED first)
  <2> DEFINE v == Verdict(failure1'[r], c, bad)
  <2>1. /\ pending1 \in [Id -> Nat] /\ pending1[r] = Load(r) /\ Load(r) \in Nat
        /\ Load(r)' \in Nat /\ Load(r)' = Load(r) - 1
    BY <1>3, Loads DEF FirstInv, LoadLessened
  <2>2. /\ failure1' = [failure1 EXCEPT ![r] = Failure(r, c, bad)]
        /\ pending1' = [pending1 EXCEPT ![r] = pending1[r] - 1]
    BY <1>3 DEF Settle1
  <2>3. pending1' \in [Id -> Nat] /\ pending1'[r] = Load(r)' /\ \A b \in Id : b # r => pending1'[b] = pending1[b]
    BY <2>1, <2>2
  <2>4. failure1' \in [Id -> Id \cup {None}] /\ \A b \in Id : b # r => failure1'[b] = failure1[b]
    <3>1. failure1 \in [Id -> Id \cup {None}]
      BY DEF FirstInv
    <3>2. Failure(r, c, bad) \in Id \cup {None}
      BY <3>1 DEF Failure
    <3> QED BY <3>1, <3>2, <2>2
  <2>5. v \in Report /\ v # Untold
    <3>1. failure1'[r] \in Id \cup {None}
      BY <2>4
    <3> QED BY <3>1 DEF Verdict, Report, Untold
  <2> HIDE DEF v
  <2>6. \A b \in entries1 : pending1'[b] = Load(b)'
    BY <2>3, <1>1 DEF FirstInv
  <2>7. r \in Issued
    BY <1>3 DEF FirstInv
  <2>8. \A i \in Id \ Issued : failure1'[i] = None
    BY <2>4, <2>7 DEF FirstInv
  <2>9. CASE pending1'[r] > 0
    <3>1. entries1' = entries1 /\ told1' = told1
      BY <1>3, <2>9 DEF Settle1
    <3>2. \A a \in Id \ threw' : told1'[a] # Untold => FlowsUnder(a)' = {}
      BY <3>1, <1>1 DEF FirstInv
    <3> QED BY <3>1, <3>2, <2>3, <2>4, <2>6, <2>8, <1>1 DEF FirstInv
  <2>10. CASE ~(pending1'[r] > 0)
    <3>1. entries1' = entries1 \ {r} /\ told1' = [told1 EXCEPT ![r] = v]
      BY <1>3, <2>10 DEF Settle1, v
    <3>2. told1 \in [Id -> Report]
      BY DEF FirstInv
    <3>3. told1' \in [Id -> Report] /\ \A b \in Id : b # r => told1'[b] = told1[b]
      BY <3>1, <3>2, <2>5
    <3>4. FlowsUnder(r)' = {}
      BY <2>1, <2>3, <2>10, Loads
    <3>5. \A a \in Id \ threw' : told1'[a] # Untold => FlowsUnder(a)' = {}
      BY <3>3, <3>4, <1>1 DEF FirstInv
    <3>6. /\ \A i \in Id \ Issued : told1'[i] = Untold
          /\ \A a \in entries1' : told1'[a] = Untold /\ a \notin threw
          /\ \A a \in ActionsOn(stack') : told1'[a] = Untold
      BY <3>1, <3>3, <2>7, <1>1 DEF FirstInv
    <3>7. entries1' \subseteq Issued /\ \A b \in entries1' : pending1'[b] = Load(b)'
      BY <3>1, <2>6 DEF FirstInv
    <3> QED BY <3>3, <3>5, <3>6, <3>7, <2>3, <2>4, <2>8, <1>1 DEF FirstInv
  <2> QED BY <2>9, <2>10
<1> QED BY <1>2, <1>3 DEF Settle1

\* A new action n on top of the stack.
ActionBorn(n) ==
  /\ n \in Id /\ n \notin Issued /\ Issued' = Issued \cup {n}
  /\ ActionsOn(stack') = ActionsOn(stack) \cup {n} /\ ActionsOn(stack) \subseteq Issued
  /\ SameFlows /\ FlowsUnder(n) = {} /\ FlowsOf(n) = {}

LEMMA NumberedActions ==
  ASSUME EngineInv
  PROVE  ActionsOn(stack) \subseteq Issued
<1> SUFFICES ASSUME NEW a \in ActionsOn(stack)
             PROVE  a \in Issued
  OBVIOUS
<1>1. PICK k \in 1 .. Len(stack) : stack[k] = [id |-> a, type |-> "action"]
  BY DEF ActionsOn
<1>2. stack[k].id = a
  BY <1>1
<1>3. stack[k].id \in Issued
  BY DEF EngineInv, IsStack, IsFrame
<1> QED BY <1>2, <1>3

LEMMA InvokeBearsAnAction ==
  ASSUME EngineInv, Invoke
  PROVE  ActionBorn(nextActionId)
<1> DEFINE n == nextActionId
<1>1. Allocated(n, "action") /\ ActionsOn(stack') = ActionsOn(stack) \cup {n} /\ flow' = flow
  BY InvokeEngine DEF Invoke
<1>2. n \in Id /\ n \notin Issued /\ Issued' = Issued \cup {n} /\ \A i \in Issued : info'[i] = info[i]
  BY <1>1 DEF Allocated, Issued
<1>3. SameFlows
  BY <1>1, <1>2, FlowsKept DEF IsOpen
<1>4. FlowsUnder(n) = {} /\ FlowsOf(n) = {}
  BY <1>2, OpenFlow DEF FlowsUnder, FlowsOf
<1> QED BY <1>1, <1>2, <1>3, <1>4, NumberedActions DEF ActionBorn

\* a runs no more
ActionGone(a) ==
  /\ a \in ActionsOn(stack) /\ ActionsOn(stack') = ActionsOn(stack) \ {a}
  /\ SameFlows /\ Issued' = Issued

LEMMA ExitEndsAnAction ==
  ASSUME EngineInv, NEW a \in Id, Exit(a)
  PROVE  ActionGone(a)
<1>1. UNCHANGED <<nextActionId, info, flow>>
  BY DEF Exit
<1> QED BY <1>1, ExitEngine, FlowsKept DEF ActionGone, IsOpen, Issued

LEMMA QuietKeepsFlows ==
  ASSUME EngineInv, Quiet
  PROVE  SameFlows /\ Issued' = Issued
<1>1. \A i \in Id : IsOpen(i)' <=> IsOpen(i)
  BY DEF Quiet, IsOpen
<1>2. UNCHANGED <<nextActionId, info>>
  BY DEF Quiet
<1> QED BY <1>1, <1>2, FlowsKept DEF Issued

\* what is to settle under a number depends on its flows and on the stack
LEMMA SameLoad ==
  ASSUME SameFlows, NEW b \in Id, b \in ActionsOn(stack') <=> b \in ActionsOn(stack)
  PROVE  Load(b)' = Load(b)
BY DEF SameFlows, Load

-----------------------------------------------------------------------------
(* The first middleware *)

LEMMA FirstInvoke ==
  ASSUME FirstInv, HistoryInv, NEW passes \in BOOLEAN, NEW n \in Id, n = nextActionId,
         ActionBorn(n), Start1(passes), threw' = threw
  PROVE  FirstInv'
<1>1. /\ n \in Id /\ n \notin Issued /\ Issued' = Issued \cup {n} /\ SameFlows
      /\ ActionsOn(stack') = ActionsOn(stack) \cup {n} /\ ActionsOn(stack) \subseteq Issued
      /\ FlowsUnder(n) = {}
  BY DEF ActionBorn
<1>2. /\ entries1' = IF passes THEN entries1 \cup {n} ELSE entries1
      /\ pending1' = IF passes THEN [pending1 EXCEPT ![n] = 1] ELSE pending1
      /\ failure1' = failure1 /\ told1' = told1
  BY DEF Start1
<1>3. pending1 \in [Id -> Nat] /\ entries1 \subseteq Issued /\ Issued \subseteq Id
  BY DEF FirstInv, Issued
<1>4. pending1' \in [Id -> Nat] /\ (passes => pending1'[n] = 1) /\ \A b \in Id : b # n => pending1'[b] = pending1[b]
  BY <1>1, <1>2, <1>3
<1>5. \A b \in Issued : Load(b)' = Load(b)
  BY <1>1, <1>3, SameLoad
<1>6. Load(n)' = 1
  BY <1>1, FS_EmptySet DEF Load, SameFlows
<1>7. \A b \in entries1' : pending1'[b] = Load(b)'
  BY <1>1, <1>2, <1>3, <1>4, <1>5, <1>6 DEF FirstInv
<1>8. told1[n] = Untold /\ n \notin threw
  BY <1>1 DEF FirstInv, HistoryInv
<1>9. \A a \in Id \ threw' : told1'[a] # Untold => FlowsUnder(a)' = {}
  BY <1>1, <1>2 DEF FirstInv, SameFlows
<1>10. entries1' \subseteq Issued'
  BY <1>1, <1>2, <1>3
<1> QED BY <1>1, <1>2, <1>4, <1>7, <1>8, <1>9, <1>10 DEF FirstInv

LEMMA FirstThrow ==
  ASSUME FirstInv, NEW a \in Id, ActionGone(a), Throw1(a), threw' = threw \cup {a}
  PROVE  FirstInv'
<1>1. /\ a \in ActionsOn(stack) /\ ActionsOn(stack') = ActionsOn(stack) \ {a}
      /\ SameFlows /\ Issued' = Issued
  BY DEF ActionGone
<1>2. /\ told1 \in [Id -> Report] /\ entries1 \subseteq Issued /\ Issued \subseteq Id
  BY DEF FirstInv, Issued
<1>3. \A b \in Id : b # a => Load(b)' = Load(b)
  BY <1>1, SameLoad
<1>4. /\ entries1' = entries1 \ {a} /\ pending1' = pending1 /\ failure1' = failure1
      /\ a \in entries1 \/ told1' = told1
      /\ told1' \in [Id -> Report] /\ \A b \in Id : b # a => told1'[b] = told1[b]
  <2>1. CASE a \notin entries1 /\ UNCHANGED first
    BY <2>1, <1>2 DEF first
  <2>2. CASE a \in entries1 /\ ~(a \notin entries1 /\ UNCHANGED first)
    <3>1. /\ entries1' = entries1 \ {a} /\ UNCHANGED <<pending1, failure1>>
          /\ told1' = [told1 EXCEPT ![a] = [verdict |-> "fail", call |-> a]]
      BY <2>2 DEF Throw1
    <3>2. [verdict |-> "fail", call |-> a] \in Report
      BY DEF Report
    <3> QED BY <2>2, <3>1, <3>2, <1>2
  <2> QED BY <2>1, <2>2 DEF Throw1
<1>5. \A b \in entries1' : pending1'[b] = Load(b)'
  BY <1>2, <1>3, <1>4 DEF FirstInv
<1>6. \A b \in Id \ threw' : told1'[b] # Untold => FlowsUnder(b)' = {}
  BY <1>1, <1>4 DEF FirstInv, SameFlows
<1>7. \A b \in ActionsOn(stack') : b \in Id /\ told1'[b] = Untold
  BY <1>1, <1>4 DEF FirstInv, ActionsOn
<1>8. \A b \in entries1' : told1'[b] = Untold /\ b \notin threw'
  BY <1>2, <1>4 DEF FirstInv
<1>9. \A i \in Id \ Issued' : told1'[i] = Untold /\ failure1'[i] = None
  BY <1>1, <1>2, <1>4 DEF FirstInv
<1> QED BY <1>1, <1>2, <1>4, <1>5, <1>6, <1>7, <1>8, <1>9 DEF FirstInv

LEMMA FirstSpawn ==
  ASSUME FirstInv, NEW f \in Id, NEW r \in Id, NEW a, FlowAdded(f, r, a),
         IF r \in entries1 THEN pending1' = [pending1 EXCEPT ![r] = @ + 1] ELSE pending1' = pending1,
         UNCHANGED <<entries1, failure1, told1, threw>>,
         ActionsOn(stack') = ActionsOn(stack), Issued \subseteq Issued',
         r \in ActionsOn(stack) \/ FlowsUnder(r) # {}
  PROVE  FirstInv'
<1>1. /\ \A b \in Id : f \notin FlowsUnder(b)
      /\ \A b \in Id : FlowsUnder(b)' = IF b = r THEN FlowsUnder(b) \cup {f} ELSE FlowsUnder(b)
  BY DEF FlowAdded
<1>2. pending1 \in [Id -> Nat] /\ entries1 \subseteq Id
  BY DEF FirstInv, Issued
<1>3. \A b \in Id : b # r => Load(b)' = Load(b)
  BY <1>1 DEF Load
<1>4. Load(r)' = Load(r) + 1
  <2>1. Cardinality(FlowsUnder(r) \cup {f}) = Cardinality(FlowsUnder(r)) + 1
    BY <1>1, FlowsAreFinite, OneMore
  <2>2. Cardinality(FlowsUnder(r)) \in Nat
    BY FlowsAreFinite
  <2>3. Load(r)' = Cardinality(FlowsUnder(r) \cup {f}) + (IF r \in ActionsOn(stack) THEN 1 ELSE 0)
    BY <1>1 DEF Load
  <2> QED BY <2>1, <2>2, <2>3 DEF Load
<1>5. /\ pending1' \in [Id -> Nat] /\ \A b \in Id : b # r => pending1'[b] = pending1[b]
      /\ r \in entries1 => pending1'[r] = pending1[r] + 1
  BY <1>2
<1>6. \A b \in entries1 : pending1'[b] = Load(b)'
  BY <1>2, <1>3, <1>4, <1>5 DEF FirstInv
<1>7. r \in Id \ threw => told1[r] = Untold
  BY DEF FirstInv
<1>8. \A b \in Id \ threw : told1[b] # Untold => FlowsUnder(b)' = {}
  BY <1>1, <1>7 DEF FirstInv
<1> QED BY <1>5, <1>6, <1>8 DEF FirstInv

LEMMA FirstQuiet ==
  ASSUME FirstInv, SameFlows, UNCHANGED first, threw' = threw,
         ActionsOn(stack') = ActionsOn(stack), Issued' = Issued
  PROVE  FirstInv'
<1>1. \A b \in Id : Load(b)' = Load(b)
  BY SameLoad
<1>2. entries1 \subseteq Id
  BY DEF FirstInv, Issued
<1>3. \A b \in entries1' : pending1'[b] = Load(b)'
  BY <1>1, <1>2 DEF FirstInv, first
<1>4. \A b \in Id \ threw' : told1'[b] # Untold => FlowsUnder(b)' = {}
  BY DEF FirstInv, first, SameFlows
<1> QED BY <1>3, <1>4 DEF FirstInv, first

\* A run that returns and a flow that ends lessen the load of their root action.
LEMMA ReturnLessens ==
  ASSUME NEW a \in Id, ActionGone(a), threw' = threw
  PROVE  LoadLessened(a)
<1>1. /\ a \in ActionsOn(stack) /\ ActionsOn(stack') = ActionsOn(stack) \ {a}
      /\ SameFlows /\ Issued' = Issued
  BY DEF ActionGone
<1>2. \A b \in Id : b # a => Load(b)' = Load(b)
  BY <1>1, SameLoad
<1>3. Load(a)' = Load(a) - 1
  BY <1>1, FlowsAreFinite DEF Load, SameFlows
<1>4. \A b \in Id : FlowsUnder(b)' \subseteq FlowsUnder(b)
  BY <1>1 DEF SameFlows
<1> QED BY <1>1, <1>2, <1>3, <1>4 DEF LoadLessened

LEMMA EndLessens ==
  ASSUME NEW f \in Id, NEW r \in Id, NEW a, FlowRemoved(f, r, a), threw' = threw,
         Issued' = Issued, ActionsOn(stack) = {}, ActionsOn(stack') = {}
  PROVE  LoadLessened(r)
<1>1. /\ f \in FlowsUnder(r)
      /\ \A b \in Id : FlowsUnder(b)' = IF b = r THEN FlowsUnder(b) \ {f} ELSE FlowsUnder(b)
  BY DEF FlowRemoved
<1>2. \A b \in Id : b # r => Load(b)' = Load(b)
  BY <1>1 DEF Load
<1>3. Load(r)' = Load(r) - 1
  <2>1. Cardinality(FlowsUnder(r) \ {f}) = Cardinality(FlowsUnder(r)) - 1
    BY <1>1, FlowsAreFinite, OneLess
  <2>2. Cardinality(FlowsUnder(r))' = Cardinality(FlowsUnder(r)) - 1
    BY <2>1, <1>1
  <2>3. Cardinality(FlowsUnder(r)) \in Nat
    BY FlowsAreFinite
  <2> QED BY <2>2, <2>3 DEF Load
<1>4. \A b \in Id : FlowsUnder(b)' \subseteq FlowsUnder(b)
  BY <1>1
<1> QED BY <1>2, <1>3, <1>4 DEF LoadLessened

-----------------------------------------------------------------------------
(* The second middleware *)

LEMMA SecondInvoke ==
  ASSUME SecondInv, HistoryInv, NEW n \in Id, n = nextActionId, ActionBorn(n), Start2, threw' = threw
  PROVE  SecondInv'
<1>1. /\ n \notin Issued /\ Issued' = Issued \cup {n} /\ SameFlows
      /\ ActionsOn(stack') = ActionsOn(stack) \cup {n} /\ FlowsOf(n) = {}
  BY DEF ActionBorn
<1>2. entries2' = entries2 \cup {n} /\ pending2' = pending2 /\ told2' = told2
  BY DEF Start2
<1>3. entries2 \subseteq Issued /\ Issued \subseteq Id
  BY DEF SecondInv, Issued
<1>4. pending2[n] = 0 /\ told2[n] = "none" /\ n \notin threw
  BY <1>1 DEF SecondInv, HistoryInv
<1>5. Cardinality(FlowsOf(n)) = 0
  BY <1>1, FS_EmptySet
<1>6. \A b \in Id : FlowsOf(b)' = FlowsOf(b)
  BY <1>1 DEF SameFlows
<1>7. \A b \in entries2' : pending2'[b] = Cardinality(FlowsOf(b))'
  BY <1>2, <1>3, <1>4, <1>5, <1>6 DEF SecondInv
<1>8. \A b \in Id \ threw' : told2'[b] # "none" => FlowsOf(b)' = {}
  BY <1>2, <1>6 DEF SecondInv
<1> QED BY <1>1, <1>2, <1>3, <1>4, <1>7, <1>8 DEF SecondInv

\* An entry whose flows have all settled is finished.
LEMMA Finishes ==
  ASSUME SecondInv, NEW a \in entries2, NEW bad \in BOOLEAN, Finish2(a, bad), threw' = threw,
         pending2' \in [Id -> Nat], FlowsOf(a)' = {},
         \A b \in Id : b # a => FlowsOf(b)' = FlowsOf(b) /\ pending2'[b] = pending2[b],
         Issued' = Issued, ActionsOn(stack') \subseteq ActionsOn(stack) \ {a}
  PROVE  SecondInv'
<1>1. /\ told2 \in [Id -> {"none", "success", "fail"}]
      /\ entries2 \subseteq Issued /\ Issued \subseteq Id /\ a \in Id
  BY DEF SecondInv, Issued
<1>2. /\ entries2' = entries2 \ {a}
      /\ told2' \in [Id -> {"none", "success", "fail"}]
      /\ \A b \in Id : b # a => told2'[b] = told2[b]
  BY <1>1 DEF Finish2
<1>3. \A b \in entries2' : pending2'[b] = Cardinality(FlowsOf(b))'
  BY <1>1, <1>2 DEF SecondInv
<1>4. \A b \in Id \ threw' : told2'[b] # "none" => FlowsOf(b)' = {}
  BY <1>2 DEF SecondInv
<1>5. \A i \in Id \ Issued' : told2'[i] = "none" /\ pending2'[i] = 0
  BY <1>1, <1>2 DEF SecondInv
<1>6. \A b \in entries2' : told2'[b] = "none" /\ b \notin threw'
  BY <1>1, <1>2 DEF SecondInv
<1>7. ActionsOn(stack') \subseteq entries2' /\ entries2' \subseteq Issued'
  BY <1>1, <1>2 DEF SecondInv
<1> QED BY <1>2, <1>3, <1>4, <1>5, <1>6, <1>7 DEF SecondInv

LEMMA SecondReturn ==
  ASSUME SecondInv, NEW a \in Id, ActionGone(a), Return2(a), threw' = threw
  PROVE  SecondInv'
<1>1. /\ a \in entries2 /\ ActionsOn(stack') = ActionsOn(stack) \ {a}
      /\ SameFlows /\ Issued' = Issued
  BY DEF ActionGone, SecondInv
<1>2. \A b \in Id : FlowsOf(b)' = FlowsOf(b)
  BY <1>1 DEF SameFlows
<1>3. entries2 \subseteq Id /\ pending2[a] \in Nat
  BY DEF SecondInv, Issued
<1>4. CASE pending2[a] > 0
  <2>1. UNCHANGED second
    BY <1>4 DEF Return2
  <2>2. \A b \in entries2' : pending2'[b] = Cardinality(FlowsOf(b))'
    BY <2>1, <1>2, <1>3 DEF SecondInv, second
  <2>3. \A b \in Id \ threw' : told2'[b] # "none" => FlowsOf(b)' = {}
    BY <2>1, <1>2 DEF SecondInv, second
  <2> QED BY <2>1, <2>2, <2>3, <1>1 DEF SecondInv, second
<1>5. CASE ~(pending2[a] > 0)
  <2>1. Finish2(a, FALSE) /\ pending2' = pending2
    BY <1>5 DEF Return2
  <2>2. FlowsOf(a) = {}
    BY <1>1, <1>3, <1>5, FlowsAreFinite DEF SecondInv
  <2>3. pending2' \in [Id -> Nat]
    BY <2>1 DEF SecondInv
  <2> QED BY <2>1, <2>2, <2>3, <1>1, <1>2, Finishes
<1> QED BY <1>4, <1>5

LEMMA SecondThrow ==
  ASSUME SecondInv, NEW a \in Id, ActionGone(a), Throw2(a), threw' = threw \cup {a}
  PROVE  SecondInv'
<1>1. /\ a \in entries2 /\ ActionsOn(stack') = ActionsOn(stack) \ {a}
      /\ SameFlows /\ Issued' = Issued
  BY DEF ActionGone, SecondInv
<1>2. \A b \in Id : FlowsOf(b)' = FlowsOf(b)
  BY <1>1 DEF SameFlows
<1>3. /\ told2 \in [Id -> {"none", "success", "fail"}]
      /\ entries2 \subseteq Issued /\ Issued \subseteq Id
  BY DEF SecondInv, Issued
<1>4. /\ entries2' = entries2 \ {a} /\ pending2' = pending2
      /\ told2' \in [Id -> {"none", "success", "fail"}]
      /\ \A b \in Id : b # a => told2'[b] = told2[b]
  BY <1>3 DEF Throw2, Finish2
<1>5. \A b \in entries2' : pending2'[b] = Cardinality(FlowsOf(b))'
  BY <1>2, <1>3, <1>4 DEF SecondInv
<1>6. \A b \in Id \ threw' : told2'[b] # "none" => FlowsOf(b)' = {}
  BY <1>2, <1>4 DEF SecondInv
<1>7. \A i \in Id \ Issued' : told2'[i] = "none" /\ pending2'[i] = 0
  BY <1>1, <1>3, <1>4 DEF SecondInv
<1>8. \A b \in entries2' : told2'[b] = "none" /\ b \notin threw'
  BY <1>3, <1>4 DEF SecondInv
<1>9. ActionsOn(stack') \subseteq entries2' /\ entries2' \subseteq Issued'
  BY <1>1, <1>4 DEF SecondInv
<1> QED BY <1>4, <1>5, <1>6, <1>7, <1>8, <1>9 DEF SecondInv

LEMMA SecondSpawn ==
  ASSUME SecondInv, NEW f \in Id, NEW r, NEW a \in Id, FlowAdded(f, r, a),
         IF a \in entries2 THEN pending2' = [pending2 EXCEPT ![a] = @ + 1] ELSE pending2' = pending2,
         UNCHANGED <<entries2, told2, threw>>,
         ActionsOn(stack') = ActionsOn(stack), Issued \subseteq Issued',
         a \in ActionsOn(stack) \/ FlowsOf(a) # {}
  PROVE  SecondInv'
<1>1. /\ \A b \in Id : f \notin FlowsOf(b)
      /\ \A b \in Id : FlowsOf(b)' = IF b = a THEN FlowsOf(b) \cup {f} ELSE FlowsOf(b)
  BY DEF FlowAdded
<1>2. pending2 \in [Id -> Nat] /\ entries2 \subseteq Id /\ entries2 \subseteq Issued
  BY DEF SecondInv, Issued
<1>3. Cardinality(FlowsOf(a))' = Cardinality(FlowsOf(a)) + 1
  <2>1. Cardinality(FlowsOf(a) \cup {f}) = Cardinality(FlowsOf(a)) + 1
    BY <1>1, FlowsAreFinite, OneMore
  <2> QED BY <2>1, <1>1
<1>4. /\ pending2' \in [Id -> Nat] /\ \A b \in Id : b # a => pending2'[b] = pending2[b]
      /\ a \in entries2 => pending2'[a] = pending2[a] + 1
      /\ a \notin entries2 => pending2' = pending2
  BY <1>2
<1>5. \A b \in entries2 : pending2'[b] = Cardinality(FlowsOf(b))'
  BY <1>1, <1>2, <1>3, <1>4 DEF SecondInv
<1>6. a \in Id \ threw => told2[a] = "none"
  BY DEF SecondInv
<1>7. \A b \in Id \ threw : told2[b] # "none" => FlowsOf(b)' = {}
  BY <1>1, <1>6 DEF SecondInv
<1>8. \A i \in Id \ Issued' : pending2'[i] = 0 /\ told2[i] = "none"
  BY <1>2, <1>4 DEF SecondInv
<1> QED BY <1>4, <1>5, <1>7, <1>8 DEF SecondInv

LEMMA SecondQuiet ==
  ASSUME SecondInv, SameFlows, UNCHANGED second, threw' = threw,
         ActionsOn(stack') = ActionsOn(stack), Issued' = Issued
  PROVE  SecondInv'
<1>1. entries2 \subseteq Id /\ \A b \in Id : FlowsOf(b)' = FlowsOf(b)
  BY DEF SecondInv, Issued, SameFlows
<1>2. \A b \in entries2' : pending2'[b] = Cardinality(FlowsOf(b))'
  BY <1>1 DEF SecondInv, second
<1>3. \A b \in Id \ threw' : told2'[b] # "none" => FlowsOf(b)' = {}
  BY <1>1 DEF SecondInv, second
<1> QED BY <1>2, <1>3 DEF SecondInv, second

LEMMA SettlesSecond ==
  ASSUME SecondInv, NEW f \in Id, NEW r, NEW a \in Id, FlowRemoved(f, r, a), NEW bad \in BOOLEAN,
         Settle2(a, bad), threw' = threw, Issued' = Issued,
         ActionsOn(stack) = {}, ActionsOn(stack') = {}
  PROVE  SecondInv'
<1>1. /\ f \in FlowsOf(a)
      /\ \A b \in Id : FlowsOf(b)' = IF b = a THEN FlowsOf(b) \ {f} ELSE FlowsOf(b)
  BY DEF FlowRemoved
<1>2. pending2 \in [Id -> Nat] /\ entries2 \subseteq Id /\ entries2 \subseteq Issued
  BY DEF SecondInv, Issued
<1>3. /\ Cardinality(FlowsOf(a))' = Cardinality(FlowsOf(a)) - 1
      /\ Cardinality(FlowsOf(a))' \in Nat /\ Cardinality(FlowsOf(a)) \in Nat
      /\ Cardinality(FlowsOf(a))' = 0 => FlowsOf(a)' = {}
  <2>1. Cardinality(FlowsOf(a) \ {f}) = Cardinality(FlowsOf(a)) - 1
    BY <1>1, FlowsAreFinite, OneLess
  <2> QED BY <2>1, <1>1, FlowsAreFinite, FlowsStayFinite
<1>4. CASE a \notin entries2 /\ UNCHANGED second
  <2>1. \A b \in entries2' : pending2'[b] = Cardinality(FlowsOf(b))'
    BY <1>1, <1>2, <1>4 DEF SecondInv, second
  <2>2. \A b \in Id \ threw' : told2'[b] # "none" => FlowsOf(b)' = {}
    BY <1>1, <1>4 DEF SecondInv, second
  <2> QED BY <2>1, <2>2, <1>4 DEF SecondInv, second
<1>5. CASE a \in entries2 /\ ~(a \notin entries2 /\ UNCHANGED second)
  <2>1. pending2' = [pending2 EXCEPT ![a] = pending2[a] - 1]
    BY <1>5 DEF Settle2
  <2>2. pending2[a] = Cardinality(FlowsOf(a))
    BY <1>5 DEF SecondInv
  <2>3. /\ pending2' \in [Id -> Nat] /\ pending2'[a] = Cardinality(FlowsOf(a))'
        /\ \A b \in Id : b # a => pending2'[b] = pending2[b]
    BY <2>1, <2>2, <1>2, <1>3
  <2>4. CASE pending2'[a] > 0
    <3>1. entries2' = entries2 /\ told2' = told2
      BY <1>5, <2>4 DEF Settle2
    <3>2. \A b \in entries2' : pending2'[b] = Cardinality(FlowsOf(b))'
      BY <3>1, <2>3, <1>1, <1>2 DEF SecondInv
    <3>3. \A b \in Id \ threw' : told2'[b] # "none" => FlowsOf(b)' = {}
      BY <3>1, <1>1 DEF SecondInv
    <3>4. \A i \in Id \ Issued' : told2'[i] = "none" /\ pending2'[i] = 0
      BY <3>1, <2>3, <1>2, <1>5 DEF SecondInv
    <3> QED BY <3>1, <3>2, <3>3, <3>4, <2>3 DEF SecondInv
  <2>5. CASE ~(pending2'[a] > 0)
    <3>1. Finish2(a, bad)
      BY <1>5, <2>5 DEF Settle2
    <3>2. FlowsOf(a)' = {}
      BY <2>3, <2>5, <1>3
    <3>3. \A b \in Id : b # a => FlowsOf(b)' = FlowsOf(b) /\ pending2'[b] = pending2[b]
      BY <2>3, <1>1
    <3> QED BY <3>1, <3>2, <3>3, <2>3, <1>5, Finishes
  <2> QED BY <2>4, <2>5
<1> QED BY <1>4, <1>5 DEF Settle2

-----------------------------------------------------------------------------
(* Every step keeps the invariant *)

LEMMA InitialState ==
  ASSUME Init
  PROVE  IInv
<1>1. MaxId \in Nat /\ MaxYields \in Nat
  BY FlowsAssumption
<1>2. EngineInit
  BY DEF Init
<1>3. EngineTypeOK
  <2>1. 1 \in 1 .. MaxId + 1 /\ 0 \in 0 .. MaxYields
    BY <1>1
  <2>2. Unused \in Call
    BY DEF Unused, Call
  <2>3. stack \in Seq(Frame)
    BY <1>2 DEF EngineInit
  <2> QED BY <2>1, <2>2, <2>3, <1>2 DEF EngineInit, EngineTypeOK, Frame
<1>4. Issued = {}
  BY <1>2 DEF EngineInit, Issued, Id
<1>5. stack = <<>> /\ Len(stack) = 0 /\ ActionsOn(stack) = {}
  BY <1>2 DEF EngineInit, ActionsOn
<1>6. Unnumbered
  BY <1>2 DEF EngineInit, Unnumbered
<1>7. Family
  BY <1>4 DEF Family
<1>8. IsStack(stack, info, flow, Issued)
  BY <1>3, <1>5 DEF IsStack, EngineTypeOK, Frame
<1>9. FirstInv
  <2>1. Untold \in Report
    BY DEF Untold, Report
  <2> QED BY <2>1, <1>5 DEF Init, FirstInv
<1>10. SecondInv
  BY <1>5 DEF Init, SecondInv
<1>11. HistoryInv
  BY <1>5 DEF Init, HistoryInv
<1> QED BY <1>3, <1>6, <1>7, <1>8, <1>9, <1>10, <1>11 DEF IInv, EngineInv

LEMMA InvokeStep ==
  ASSUME IInv, NEW passes \in BOOLEAN, InvokeAction(passes)
  PROVE  IInv'
<1>1. Invoke /\ Start1(passes) /\ Start2 /\ threw' = threw /\ ended' = ended
  BY DEF InvokeAction, history
<1>2. EngineInv'
  BY <1>1, InvokeEngine DEF IInv
<1>3. PICK n \in Id : n = nextActionId /\ ActionBorn(n)
  BY <1>1, InvokeBearsAnAction DEF IInv, ActionBorn
<1>4. FirstInv' /\ SecondInv'
  BY <1>1, <1>3, FirstInvoke, SecondInvoke DEF IInv
<1>5. HistoryInv'
  BY <1>1, <1>3 DEF IInv, HistoryInv, ActionBorn
<1> QED BY <1>2, <1>4, <1>5 DEF IInv

LEMMA ReturnStep ==
  ASSUME IInv, NEW a \in Id, Return(a)
  PROVE  IInv'
<1>1. Exit(a) /\ Settle1(a, a, FALSE) /\ Return2(a) /\ threw' = threw /\ ended' = ended
  BY DEF Return, history
<1>2. EngineInv' /\ ActionGone(a)
  BY <1>1, ExitEngine, ExitEndsAnAction DEF IInv
<1>3. FirstInv' /\ SecondInv'
  BY <1>1, <1>2, ReturnLessens, SettlesFirst, SecondReturn DEF IInv
<1>4. HistoryInv'
  BY <1>1, <1>2 DEF IInv, HistoryInv, ActionGone
<1> QED BY <1>2, <1>3, <1>4 DEF IInv

LEMMA ThrowStep ==
  ASSUME IInv, NEW a \in Id, Throw(a)
  PROVE  IInv'
<1>1. Exit(a) /\ Throw1(a) /\ Throw2(a) /\ threw' = threw \cup {a} /\ ended' = ended
  BY DEF Throw
<1>2. EngineInv' /\ ActionGone(a) /\ a \in Issued
  BY <1>1, ExitEngine, ExitEndsAnAction DEF IInv
<1>3. FirstInv' /\ SecondInv'
  BY <1>1, <1>2, FirstThrow, SecondThrow DEF IInv
<1>4. HistoryInv'
  BY <1>1, <1>2 DEF IInv, HistoryInv, ActionGone
<1> QED BY <1>2, <1>3, <1>4 DEF IInv

LEMMA SpawnStep ==
  ASSUME IInv, SpawnFlow
  PROVE  IInv'
<1>1. Spawn /\ Spawn1 /\ Spawn2 /\ threw' = threw /\ ended' = ended
  BY DEF SpawnFlow, history
<1>2. /\ EngineInv' /\ stack # <<>> /\ ActionsOn(stack') = ActionsOn(stack)
      /\ Allocated(nextActionId, "flow")
  BY <1>1, SpawnEngine DEF IInv
<1>3. Issued \subseteq Issued'
  BY <1>2 DEF Allocated, Issued
<1>4. PICK f \in Id : f = nextActionId
  BY <1>2 DEF Allocated
<1>5. FlowAdded(f, RootId(Context, f), ParentAction(Context))
  BY <1>1, <1>4, SpawnAddsAFlow DEF IInv
<1>6. PICK r \in Id : r = RootId(Context, f)
  BY <1>5 DEF FlowAdded
<1>7. PICK a \in Id : a = ParentAction(Context)
  BY <1>5 DEF FlowAdded
<1>8. /\ a \in ActionsOn(stack) \/ FlowsOf(a) # {}
      /\ r \in ActionsOn(stack) \/ FlowsUnder(r) # {}
  BY <1>2, <1>6, <1>7, SpawnedUnderTheRunning DEF IInv
<1>9. FirstInv'
  <2>1. /\ IF r \in entries1 THEN pending1' = [pending1 EXCEPT ![r] = @ + 1] ELSE pending1' = pending1
        /\ UNCHANGED <<entries1, failure1, told1>>
    BY <1>1, <1>4, <1>6 DEF Spawn1
  <2> QED BY <2>1, <1>1, <1>2, <1>3, <1>5, <1>6, <1>7, <1>8, FirstSpawn DEF IInv
<1>10. SecondInv'
  <2>1. /\ IF a \in entries2 THEN pending2' = [pending2 EXCEPT ![a] = @ + 1] ELSE pending2' = pending2
        /\ UNCHANGED <<entries2, told2>>
    BY <1>1, <1>7 DEF Spawn2
  <2> QED BY <2>1, <1>1, <1>2, <1>3, <1>5, <1>6, <1>7, <1>8, SecondSpawn DEF IInv
<1>11. HistoryInv'
  BY <1>1, <1>2, <1>3 DEF IInv, HistoryInv
<1> QED BY <1>2, <1>9, <1>10, <1>11 DEF IInv

LEMMA QuietStep ==
  ASSUME IInv, EngineInv', Quiet, UNCHANGED <<first, second, history>>
  PROVE  IInv'
<1>1. SameFlows /\ Issued' = Issued /\ ActionsOn(stack') = ActionsOn(stack)
  BY QuietKeepsFlows DEF IInv, Quiet
<1>2. UNCHANGED first /\ UNCHANGED second /\ threw' = threw /\ ended' = ended
  BY DEF first, second, history
<1>3. FirstInv' /\ SecondInv'
  BY <1>1, <1>2, FirstQuiet, SecondQuiet DEF IInv
<1>4. HistoryInv'
  BY <1>1, <1>2 DEF IInv, HistoryInv
<1> QED BY <1>3, <1>4 DEF IInv

LEMMA EndStepIsQuiet ==
  ASSUME EngineInv, NEW f \in Id, EndStep(f)
  PROVE  EngineInv' /\ Quiet /\ UNCHANGED <<first, second, history>>
BY StepEngine DEF EndStep

LEMMA ResumeIsQuiet ==
  ASSUME EngineInv, NEW f \in Id, ResumeFlow(f)
  PROVE  EngineInv' /\ Quiet /\ UNCHANGED <<first, second, history>>
BY ResumeEngine DEF ResumeFlow

LEMMA EndFlowStep ==
  ASSUME IInv, NEW f \in Id, EndFlow(f)
  PROVE  IInv'
<1> DEFINE bad == flow[f] = "throwing"
<1>1. /\ SettleFlow(f) /\ Settle1(info[f].root, f, bad) /\ Settle2(info[f].action, bad)
      /\ ended' = Append(ended, f) /\ threw' = threw
  BY DEF EndFlow
<1>2. /\ EngineInv' /\ UNCHANGED <<nextActionId, info, stack>> /\ ActionsOn(stack) = {}
  BY <1>1, SettleEngine DEF IInv
<1>3. FlowRemoved(f, info[f].root, info[f].action)
  BY <1>1, SettleRemovesAFlow DEF IInv
<1>4. Issued' = Issued /\ ActionsOn(stack') = {}
  BY <1>2 DEF Issued
<1>5. PICK r \in Id : r = info[f].root
  BY <1>3 DEF FlowRemoved
<1>6. PICK a \in Id : a = info[f].action
  BY <1>3 DEF FlowRemoved
<1>7. bad \in BOOLEAN
  OBVIOUS
<1> HIDE DEF bad
<1>8. FirstInv'
  <2>1. LoadLessened(r)
    BY <1>1, <1>2, <1>3, <1>4, <1>5, EndLessens
  <2> QED BY <2>1, <1>1, <1>5, <1>7, SettlesFirst DEF IInv
<1>9. SecondInv'
  BY <1>1, <1>2, <1>3, <1>4, <1>6, <1>7, SettlesSecond DEF IInv
<1>10. HistoryInv'
  BY <1>1, <1>4 DEF IInv, HistoryInv
<1> QED BY <1>2, <1>8, <1>9, <1>10 DEF IInv

LEMMA NextStep ==
  ASSUME IInv, [Next]_vars
  PROVE  IInv'
<1>1. ASSUME NEW passes \in BOOLEAN, InvokeAction(passes)
      PROVE  IInv'
  BY <1>1, InvokeStep
<1>2. CASE SpawnFlow
  BY <1>2, SpawnStep
<1>3. CASE EndCode
  <2>1. ASSUME NEW i \in Id, Return(i)
        PROVE  IInv'
    BY <2>1, ReturnStep
  <2>2. ASSUME NEW i \in Id, Throw(i)
        PROVE  IInv'
    BY <2>2, ThrowStep
  <2>3. ASSUME NEW i \in Id, EndStep(i)
        PROVE  IInv'
    BY <2>3, EndStepIsQuiet, QuietStep DEF IInv
  <2> QED BY <2>1, <2>2, <2>3, <1>3 DEF EndCode
<1>4. ASSUME NEW f \in Id, ResumeFlow(f)
      PROVE  IInv'
  BY <1>4, ResumeIsQuiet, QuietStep DEF IInv
<1>5. ASSUME NEW f \in Id, EndFlow(f)
      PROVE  IInv'
  BY <1>5, EndFlowStep
<1>6. CASE UNCHANGED vars
  <2>1. /\ UNCHANGED <<nextActionId, info, stack, flow, awaited, yields>>
        /\ UNCHANGED <<first, second, history>>
    BY <1>6 DEF vars, engine
  <2>2. Quiet
    BY <2>1 DEF Quiet
  <2>3. EngineInv'
    BY <2>1 DEF IInv, EngineInv, EngineTypeOK, Unnumbered, Family, Issued
  <2> QED BY <2>1, <2>2, <2>3, QuietStep
<1> QED BY <1>1, <1>2, <1>3, <1>4, <1>5, <1>6 DEF Next

\* The inductive invariant of the two middlewares and the engine below them.
THEOREM Invariant == Spec => []IInv
<1>1. Init => IInv
  BY InitialState
<1>2. IInv /\ [Next]_vars => IInv'
  BY NextStep
<1> QED BY <1>1, <1>2, PTL DEF Spec

\* The variables of both middlewares and of the engine keep their types; the
\* counts never go below zero.
THEOREM TypeCorrect == Spec => []TypeOK
<1>1. IInv => TypeOK
  BY DEF IInv, EngineInv, FirstInv, SecondInv, HistoryInv, TypeOK, Issued, Report
<1> QED BY <1>1, Invariant, PTL

\* pending and flowsPending are the flows still open, plus the run of the
\* action itself, under each action that is tracked.
THEOREM CountsAlwaysExact == Spec => []CountsAreExact
<1>1. ASSUME IInv
      PROVE  CountsAreExact
  <2>1. \A r \in Id : OnStack(r) <=> r \in ActionsOn(stack)
    BY <1>1, OnStackAt DEF IInv, EngineInv
  <2>2. entries1 \subseteq Id
    BY <1>1 DEF IInv, FirstInv, Issued
  <2>3. \A r \in entries1 :
          pending1[r] = Cardinality(FlowsUnder(r)) + (IF OnStack(r) THEN 1 ELSE 0)
    BY <2>1, <2>2, <1>1 DEF IInv, FirstInv, Load
  <2>4. \A a \in entries2 : pending2[a] = Cardinality(FlowsOf(a))
    BY <1>1 DEF IInv, SecondInv
  <2> QED BY <2>3, <2>4 DEF CountsAreExact
<1> QED BY <1>1, Invariant, PTL

LEMMA NothingAfterTheReport ==
  ASSUME IInv
  PROVE  ReportedLast
BY DEF IInv, FirstInv, SecondInv, ReportedLast

-----------------------------------------------------------------------------
(* What is reported *)

\* x is reached from i by walking up parents: it is in every set closed under them
ClosedAbove(i, S, calls) ==
  /\ S \in SUBSET (Id \cup {None})
  /\ calls[i].parent \in S
  /\ \A x \in S \ {None} : calls[x].parent \in S

LEMMA ParentsAre ==
  ASSUME NEW i
  PROVE  Parents(i) = {x \in Id : \A S : ClosedAbove(i, S, info) => x \in S}
BY DEF Parents, ClosedAbove

LEMMA ParentsBecome ==
  ASSUME NEW i
  PROVE  Parents(i)' = {x \in Id : \A S : ClosedAbove(i, S, info') => x \in S}
BY DEF Parents, ClosedAbove

\* A number that is given out later is on no walk up from an earlier one.
LEMMA NotAbove ==
  ASSUME NEW calls, NEW calls2, NEW n \in Id, NEW i \in Id \ {n}, NEW S, ClosedAbove(i, S, calls),
         \A j \in Id \ {n} : calls2[j] = calls[j] /\ calls[j].parent # n
  PROVE  ClosedAbove(i, S \ {n}, calls2)
BY DEF ClosedAbove

\* Nor does it change whether an earlier flow was spawned inside another one.
LEMMA StartedStays ==
  ASSUME EngineInv, NEW n \in Id, n \notin Issued,
         \A j \in Id \ {n} : info'[j] = info[j], NEW i \in Issued
  PROVE  StartedInFlow(i)' <=> StartedInFlow(i)
<1>1. \A j \in Id \ {n} : info'[j] = info[j] /\ info[j].parent # n /\ info'[j].parent # n
  <2> SUFFICES ASSUME NEW j \in Id \ {n}
               PROVE  info[j].parent # n
    OBVIOUS
  <2>1. CASE j \in Issued
    BY <2>1, Numbers DEF EngineInv, Family, IsRelative
  <2>2. CASE j \notin Issued
    BY <2>2, Numbers DEF EngineInv, Unnumbered, Unused
  <2> QED BY <2>1, <2>2
<1>2. i \in Id \ {n}
  BY DEF Issued
<1>3. \A S : ClosedAbove(i, S, info) => ClosedAbove(i, S \ {n}, info')
  BY <1>1, <1>2, NotAbove
<1>4. \A S : ClosedAbove(i, S, info') => ClosedAbove(i, S \ {n}, info)
  BY <1>1, <1>2, NotAbove
<1>5. Parents(i) = {x \in Id : \A S : ClosedAbove(i, S, info) => x \in S}
  BY ParentsAre
<1>6. Parents(i)' = {x \in Id : \A S : ClosedAbove(i, S, info') => x \in S}
  BY ParentsBecome
<1>7. ASSUME NEW x \in Parents(i)
      PROVE  x \in Parents(i)'
  BY <1>4, <1>5, <1>6
<1>8. ASSUME NEW x \in Parents(i)'
      PROVE  x \in Parents(i)
  BY <1>3, <1>5, <1>6
<1>9. n \notin Parents(i)
  <2>1. ClosedAbove(i, (Id \cup {None}) \ {n}, info)
    <3>1. info \in [Id -> Call] /\ Id \subseteq Nat \ {None}
      BY Numbers DEF EngineInv
    <3>2. \A j \in Id : info[j].parent \in Id \cup {None}
      BY <3>1 DEF Call
    <3> QED BY <3>1, <3>2, <1>1, <1>2 DEF ClosedAbove
  <2> QED BY <2>1, <1>5
<1>10. Parents(i)' = Parents(i) /\ Parents(i) \subseteq Id \ {n}
  BY <1>5, <1>7, <1>8, <1>9
<1> QED BY <1>1, <1>10 DEF StartedInFlow

\* the first failure that r is to report
FirstFailure(r) == IF FailedUnder(r) = {} THEN None ELSE ended[Min(FailedUnder(r))]

HasLeast(S) == S # {} => \E k \in S : \A j \in S : k <= j
HasGreatest(S) == S # {} => \E k \in S : \A j \in S : k >= j

\* Only numbered flows that have settled are in ended, while no action under
\* their root runs; an open entry holds the first failure to report, and a
\* report is the documented one.
ReportInv ==
  /\ \A k \in 1 .. Len(ended) :
       /\ ended[k] \in Issued /\ flow[ended[k]] \in Settled
       /\ info[ended[k]].root \in Issued /\ info[ended[k]].root \notin ActionsOn(stack)
  /\ \A r \in Id : HasLeast(FailedUnder(r)) /\ HasGreatest(EndedUnder(r))
  /\ \A r \in entries1 : failure1[r] = FirstFailure(r)
  /\ \A r \in Id \ threw : told1[r] # Untold => told1[r] = Documented(r)

\* Nothing has settled, and what has is as it was.
SameEnds ==
  /\ ended' = ended
  /\ \A i \in Issued : info'[i] = info[i] /\ (StartedInFlow(i)' <=> StartedInFlow(i))
  /\ \A i \in Id : flow[i] \in Settled => flow'[i] = flow[i]

LEMMA EndsKept ==
  ASSUME HistoryInv, ReportInv, SameEnds
  PROVE  /\ \A r \in Id : EndedUnder(r)' = EndedUnder(r) /\ FailedUnder(r)' = FailedUnder(r)
         /\ \A r \in Id : FirstFailure(r)' = FirstFailure(r)
         /\ \A r \in Id : HasGreatest(EndedUnder(r)) => Documented(r)' = Documented(r)
         /\ \A k \in 1 .. Len(ended) : ended'[k] = ended[k] /\ info'[ended[k]] = info[ended[k]]
                                     /\ flow'[ended[k]] = flow[ended[k]]
<1>1. ended' = ended /\ DOMAIN ended = 1 .. Len(ended) /\ \A k \in DOMAIN ended : ended[k] \in Id
  BY DEF SameEnds, HistoryInv
<1>2. \A k \in DOMAIN ended : /\ info'[ended[k]] = info[ended[k]]
                              /\ flow'[ended[k]] = flow[ended[k]]
                              /\ StartedInFlow(ended[k])' <=> StartedInFlow(ended[k])
  <2> SUFFICES ASSUME NEW k \in DOMAIN ended
               PROVE  /\ info'[ended[k]] = info[ended[k]]
                      /\ flow'[ended[k]] = flow[ended[k]]
                      /\ StartedInFlow(ended[k])' <=> StartedInFlow(ended[k])
    OBVIOUS
  <2>1. PICK i \in Issued : i = ended[k]
    BY <1>1 DEF ReportInv
  <2>2. flow[i] \in Settled /\ i \in Id
    BY <2>1, <1>1 DEF ReportInv
  <2>3. StartedInFlow(i)' <=> StartedInFlow(i)
    BY DEF SameEnds
  <2>4. StartedInFlow(ended[k])' <=> StartedInFlow(i)'
    BY <2>1, <1>1
  <2>5. StartedInFlow(ended[k]) <=> StartedInFlow(i)
    BY <2>1
  <2> QED BY <2>1, <2>2, <2>3, <2>4, <2>5 DEF SameEnds
<1>3. ASSUME NEW r \in Id
      PROVE  EndedUnder(r)' = EndedUnder(r)
  <2>1. EndedUnder(r)' = {k \in DOMAIN ended : info'[ended[k]].root = r}
    BY <1>1 DEF EndedUnder
  <2>2. \A k \in DOMAIN ended : info'[ended[k]].root = r <=> info[ended[k]].root = r
    BY <1>2
  <2> QED BY <2>1, <2>2 DEF EndedUnder
<1>4. ASSUME NEW r \in Id
      PROVE  FailedUnder(r)' = FailedUnder(r)
  <2>1. FailedUnder(r)' = {k \in EndedUnder(r) :
                             flow'[ended[k]] = "thrown" /\ ~StartedInFlow(ended[k])'}
    BY <1>1, <1>3 DEF FailedUnder
  <2>2. \A k \in EndedUnder(r) : /\ flow'[ended[k]] = "thrown" <=> flow[ended[k]] = "thrown"
                                 /\ StartedInFlow(ended[k])' <=> StartedInFlow(ended[k])
    BY <1>2 DEF EndedUnder
  <2> QED BY <2>1, <2>2 DEF FailedUnder
<1>5. \A r \in Id : FirstFailure(r)' = FirstFailure(r)
  BY <1>1, <1>4 DEF FirstFailure
<1>6. ASSUME NEW r \in Id, HasGreatest(EndedUnder(r))
      PROVE  Documented(r)' = Documented(r)
  <2>1. CASE EndedUnder(r) = {}
    BY <2>1, <1>3, <1>4 DEF Documented, FailedUnder
  <2>2. CASE EndedUnder(r) # {}
    <3>1. Max(EndedUnder(r)) \in DOMAIN ended
      <4>1. Max(EndedUnder(r)) \in EndedUnder(r)
        BY <2>2, <1>6 DEF HasGreatest, Max
      <4> QED BY <4>1 DEF EndedUnder
    <3>2. PICK m \in DOMAIN ended : m = Max(EndedUnder(r))
      BY <3>1
    <3>3. ended'[m] = ended[m] /\ flow'[ended[m]] = flow[ended[m]]
      BY <1>1, <1>2
    <3>4. EndedUnder(r)' = EndedUnder(r) /\ FailedUnder(r)' = FailedUnder(r)
      BY <1>3, <1>4
    <3> QED BY <3>2, <3>3, <3>4, <1>1 DEF Documented
  <2> QED BY <2>1, <2>2
<1>7. \A k \in 1 .. Len(ended) : ended'[k] = ended[k] /\ info'[ended[k]] = info[ended[k]]
                             /\ flow'[ended[k]] = flow[ended[k]]
  BY <1>1, <1>2
<1> QED BY <1>3, <1>4, <1>5, <1>6, <1>7

LEMMA ReportStays ==
  ASSUME HistoryInv, HistoryInv', ReportInv, SameEnds, Issued \subseteq Issued',
         ActionsOn(stack') \cap Issued \subseteq ActionsOn(stack),
         \A r \in entries1' : r \in Id /\ failure1'[r] = FirstFailure(r),
         \A r \in Id \ threw' : told1'[r] # Untold => told1'[r] = Documented(r)
  PROVE  ReportInv'
<1>1. /\ \A r \in Id : EndedUnder(r)' = EndedUnder(r) /\ FailedUnder(r)' = FailedUnder(r)
      /\ \A r \in Id : FirstFailure(r)' = FirstFailure(r)
      /\ \A r \in Id : Documented(r)' = Documented(r)
  BY EndsKept DEF ReportInv
<1>2. ended' = ended
  BY DEF SameEnds
<1>3. ASSUME NEW k \in 1 .. Len(ended')
      PROVE  /\ ended'[k] \in Issued' /\ flow'[ended'[k]] \in Settled
             /\ info'[ended'[k]].root \in Issued' /\ info'[ended'[k]].root \notin ActionsOn(stack')
  <2>1. k \in 1 .. Len(ended)
    BY <1>2
  <2>2. ended'[k] = ended[k] /\ info'[ended[k]] = info[ended[k]] /\ flow'[ended[k]] = flow[ended[k]]
    BY <2>1, EndsKept
  <2>3. /\ ended[k] \in Issued /\ flow[ended[k]] \in Settled
        /\ info[ended[k]].root \in Issued /\ info[ended[k]].root \notin ActionsOn(stack)
    BY <2>1 DEF ReportInv
  <2> QED BY <2>2, <2>3
<1>4. \A r \in Id : HasLeast(FailedUnder(r))' /\ HasGreatest(EndedUnder(r))'
  BY <1>1 DEF ReportInv, HasLeast, HasGreatest
<1>5. /\ \A r \in entries1' : failure1'[r] = FirstFailure(r)'
      /\ \A r \in Id \ threw' : told1'[r] # Untold => told1'[r] = Documented(r)'
  BY <1>1
<1> QED BY <1>3, <1>4, <1>5 DEF ReportInv

\* Nothing under r is in ended when r is new or still runs.
LEMMA NothingEnded ==
  ASSUME HistoryInv, ReportInv, NEW r, r \notin Issued \/ r \in ActionsOn(stack)
  PROVE  EndedUnder(r) = {} /\ FirstFailure(r) = None /\ Documented(r) = [verdict |-> "success", call |-> r]
<1>1. DOMAIN ended = 1 .. Len(ended)
  BY DEF HistoryInv
<1>2. EndedUnder(r) = {}
  BY <1>1 DEF EndedUnder, ReportInv
<1>3. FailedUnder(r) = {}
  BY <1>2 DEF FailedUnder
<1> QED BY <1>2, <1>3 DEF FirstFailure, Documented

LEMMA ReportsInvoke ==
  ASSUME IInv, IInv', ReportInv, NEW passes \in BOOLEAN, InvokeAction(passes)
  PROVE  ReportInv'
<1>1. Invoke /\ Start1(passes) /\ threw' = threw /\ ended' = ended
  BY DEF InvokeAction, history
<1>2. PICK n \in Id : n = nextActionId /\ ActionBorn(n)
  BY <1>1, InvokeBearsAnAction DEF IInv, ActionBorn
<1>3. n \notin Issued /\ Issued \subseteq Issued' /\ ActionsOn(stack') \cap Issued \subseteq ActionsOn(stack)
  BY <1>2 DEF ActionBorn
<1>4. flow' = flow /\ \A j \in Id \ {n} : info'[j] = info[j]
  BY <1>1, <1>2, InvokeEngine DEF Invoke, Allocated, IInv
<1>5. SameEnds
  BY <1>1, <1>3, <1>4, StartedStays DEF SameEnds, IInv, Issued
<1>6. \A r \in entries1' : r \in Id /\ failure1'[r] = FirstFailure(r)
  <2>1. \A r \in entries1' : r \in entries1 \/ r = n
    BY <1>1, <1>2 DEF Start1
  <2>2. failure1' = failure1 /\ failure1[n] = None /\ FirstFailure(n) = None
    BY <1>1, <1>3, NothingEnded DEF Start1, IInv, FirstInv
  <2> QED BY <2>1, <2>2 DEF ReportInv, IInv, FirstInv, Issued
<1>7. \A r \in Id \ threw' : told1'[r] # Untold => told1'[r] = Documented(r)
  BY <1>1 DEF Start1, ReportInv
<1> QED BY <1>3, <1>5, <1>6, <1>7, ReportStays DEF IInv

LEMMA ReportsReturn ==
  ASSUME IInv, IInv', ReportInv, NEW a \in Id, Return(a)
  PROVE  ReportInv'
<1>1. Exit(a) /\ Settle1(a, a, FALSE) /\ threw' = threw /\ ended' = ended
  BY DEF Return, history
<1>2. ActionGone(a) /\ UNCHANGED <<info, flow, nextActionId>>
  BY <1>1, ExitEndsAnAction DEF IInv, Exit
<1>3. Issued' = Issued /\ a \in ActionsOn(stack) /\ ActionsOn(stack') = ActionsOn(stack) \ {a}
  BY <1>2 DEF ActionGone
<1>4. SameEnds
  BY <1>1, <1>2 DEF SameEnds, StartedInFlow, Parents
<1>5. FirstFailure(a) = None /\ Documented(a) = [verdict |-> "success", call |-> a]
  BY <1>3, NothingEnded DEF IInv
<1>6. /\ failure1' = failure1 /\ entries1' \subseteq entries1
      /\ \A b \in Id : told1'[b] = told1[b] \/ (b = a /\ told1'[b] = Documented(b))
  <2>1. CASE a \notin entries1 /\ UNCHANGED first
    BY <2>1 DEF first
  <2>2. CASE a \in entries1 /\ ~(a \notin entries1 /\ UNCHANGED first)
    <3>1. failure1 \in [Id -> Id \cup {None}] /\ told1 \in [Id -> Report]
      BY DEF IInv, FirstInv
    <3>2. failure1' = [failure1 EXCEPT ![a] = failure1[a]]
      BY <2>2, <1>1 DEF Settle1, Failure
    <3>3. failure1' = failure1
      BY <3>1, <3>2
    <3>4. failure1[a] = None
      BY <2>2, <1>5 DEF ReportInv
    <3>5. Verdict(failure1'[a], a, FALSE) = [verdict |-> "success", call |-> a]
      BY <3>3, <3>4 DEF Verdict
    <3>6. \/ UNCHANGED <<entries1, told1>>
          \/ /\ entries1' = entries1 \ {a}
             /\ told1' = [told1 EXCEPT ![a] = [verdict |-> "success", call |-> a]]
      BY <2>2, <3>5, <1>1 DEF Settle1
    <3> QED BY <3>1, <3>3, <3>6, <1>5
  <2> QED BY <2>1, <2>2, <1>1 DEF Settle1
<1>7. \A r \in entries1' : r \in Id /\ failure1'[r] = FirstFailure(r)
  BY <1>6 DEF ReportInv, IInv, FirstInv, Issued
<1>8. \A r \in Id \ threw' : told1'[r] # Untold => told1'[r] = Documented(r)
  BY <1>1, <1>6 DEF ReportInv
<1> QED BY <1>3, <1>4, <1>7, <1>8, ReportStays DEF IInv

LEMMA ReportsThrow ==
  ASSUME IInv, IInv', ReportInv, NEW a \in Id, Throw(a)
  PROVE  ReportInv'
<1>1. Exit(a) /\ Throw1(a) /\ threw' = threw \cup {a} /\ ended' = ended
  BY DEF Throw
<1>2. ActionGone(a) /\ UNCHANGED <<info, flow, nextActionId>>
  BY <1>1, ExitEndsAnAction DEF IInv, Exit
<1>3. Issued' = Issued /\ a \in ActionsOn(stack) /\ ActionsOn(stack') = ActionsOn(stack) \ {a}
  BY <1>2 DEF ActionGone
<1>4. SameEnds
  BY <1>1, <1>2 DEF SameEnds, StartedInFlow, Parents
<1>5. /\ failure1' = failure1 /\ entries1' \subseteq entries1
      /\ \A b \in Id : b # a => told1'[b] = told1[b]
  <2>1. told1 \in [Id -> Report]
    BY DEF IInv, FirstInv
  <2> QED BY <2>1, <1>1 DEF Throw1, first
<1>6. \A r \in entries1' : r \in Id /\ failure1'[r] = FirstFailure(r)
  BY <1>5 DEF ReportInv, IInv, FirstInv, Issued
<1>7. \A r \in Id \ threw' : told1'[r] # Untold => told1'[r] = Documented(r)
  BY <1>1, <1>5 DEF ReportInv
<1> QED BY <1>3, <1>4, <1>6, <1>7, ReportStays DEF IInv

LEMMA ReportsSpawn ==
  ASSUME IInv, IInv', ReportInv, SpawnFlow
  PROVE  ReportInv'
<1>1. Spawn /\ Spawn1 /\ threw' = threw /\ ended' = ended
  BY DEF SpawnFlow, history
<1>2. PICK n \in Id : n = nextActionId
  BY <1>1, SpawnEngine DEF IInv, Allocated
<1>3. /\ Allocated(n, "flow") /\ ActionsOn(stack') = ActionsOn(stack)
      /\ flow' = [flow EXCEPT ![n] = "running"]
  BY <1>1, <1>2, SpawnEngine DEF IInv
<1>4. n \notin Issued /\ Issued \subseteq Issued' /\ \A j \in Id \ {n} : info'[j] = info[j]
  BY <1>3 DEF Allocated, Issued
<1>5. flow[n] = "unused" /\ flow \in [Id -> Open \cup Settled \cup {"unused"}]
  BY <1>4 DEF IInv, EngineInv, Unnumbered, EngineTypeOK
<1>6. \A i \in Id : flow[i] \in Settled => flow'[i] = flow[i]
  BY <1>3, <1>5 DEF Settled
<1>7. SameEnds
  BY <1>1, <1>4, <1>6, StartedStays DEF SameEnds, IInv, Issued
<1>8. UNCHANGED <<entries1, failure1, told1>>
  BY <1>1 DEF Spawn1
<1>9. \A r \in entries1' : r \in Id /\ failure1'[r] = FirstFailure(r)
  BY <1>8 DEF ReportInv, IInv, FirstInv, Issued
<1>10. \A r \in Id \ threw' : told1'[r] # Untold => told1'[r] = Documented(r)
  BY <1>1, <1>8 DEF ReportInv
<1> QED BY <1>3, <1>4, <1>7, <1>9, <1>10, ReportStays DEF IInv

LEMMA ReportsQuiet ==
  ASSUME IInv, IInv', ReportInv, Quiet, UNCHANGED <<first, second, history>>
  PROVE  ReportInv'
<1>1. /\ UNCHANGED <<entries1, failure1, told1, threw, ended, info, nextActionId>>
      /\ ActionsOn(stack') = ActionsOn(stack)
      /\ \A i \in Id : flow[i] \in Settled => flow'[i] = flow[i]
  BY DEF first, history, Quiet, Settled, Open
<1>2. Issued' = Issued
  BY <1>1 DEF Issued
<1>3. SameEnds
  BY <1>1 DEF SameEnds, StartedInFlow, Parents
<1>4. \A r \in entries1' : r \in Id /\ failure1'[r] = FirstFailure(r)
  BY <1>1 DEF ReportInv, IInv, FirstInv, Issued
<1>5. \A r \in Id \ threw' : told1'[r] # Untold => told1'[r] = Documented(r)
  BY <1>1 DEF ReportInv
<1> QED BY <1>1, <1>2, <1>3, <1>4, <1>5, ReportStays DEF IInv

LEMMA LatestIsGreatest ==
  ASSUME NEW n \in Nat, NEW S \in SUBSET (1 .. n)
  PROVE  Max(S \cup {n + 1}) = n + 1 /\ HasGreatest(S \cup {n + 1})
<1>1. \A j \in S \cup {n + 1} : j \in Nat /\ n + 1 >= j
  OBVIOUS
<1>2. \A x \in S \cup {n + 1} : (\A j \in S \cup {n + 1} : x >= j) => x = n + 1
  BY <1>1
<1>3. \E x \in S \cup {n + 1} : \A j \in S \cup {n + 1} : x >= j
  BY <1>1
<1> QED BY <1>2, <1>3 DEF Max, HasGreatest

LEMMA EarliestStays ==
  ASSUME NEW n \in Nat, NEW S \in SUBSET (1 .. n), HasLeast(S)
  PROVE  /\ HasLeast(S \cup {n + 1})
         /\ Min(S \cup {n + 1}) = IF S = {} THEN n + 1 ELSE Min(S)
         /\ S # {} => Min(S) \in S
<1>1. CASE S = {}
  <2>1. S \cup {n + 1} = {n + 1} /\ n + 1 \in Nat
    BY <1>1
  <2>2. \A x \in S \cup {n + 1} : x = n + 1
    BY <2>1
  <2>3. \E x \in S \cup {n + 1} : \A j \in S \cup {n + 1} : x <= j
    BY <2>1
  <2> QED BY <1>1, <2>2, <2>3 DEF Min, HasLeast
<1>2. CASE S # {}
  <2>1. PICK k \in S : \A j \in S : k <= j
    BY <1>2 DEF HasLeast
  <2>2. k \in Nat /\ \A j \in S : j \in Nat /\ j <= n
    BY <2>1
  <2>3. \A x \in S : (\A j \in S : x <= j) => x = k
    BY <2>1, <2>2
  <2>4. Min(S) = k
    BY <2>1, <2>3 DEF Min
  <2>5. \A j \in S \cup {n + 1} : k <= j
    BY <2>1, <2>2
  <2>6. \A x \in S \cup {n + 1} : (\A j \in S \cup {n + 1} : x <= j) => x = k
    BY <2>1, <2>2, <2>5
  <2>7. Min(S \cup {n + 1}) = k
    BY <2>1, <2>5, <2>6 DEF Min
  <2> QED BY <1>2, <2>1, <2>4, <2>5, <2>7 DEF HasLeast
<1> QED BY <1>1, <1>2

\* The flow f under r is the last one in ended, at m; it did not settle before.
FlowEnded(f, r, m) ==
  /\ m = Len(ended) + 1 /\ ended' = Append(ended, f)
  /\ f \in Issued /\ r \in Issued /\ info[f].root = r
  /\ UNCHANGED <<info, nextActionId>>
  /\ ActionsOn(stack) = {} /\ ActionsOn(stack') = {}
  /\ flow[f] \in {"returning", "throwing"}
  /\ flow'[f] = IF flow[f] = "returning" THEN "returned" ELSE "thrown"
  /\ \A i \in Id : i # f => flow'[i] = flow[i]

LEMMA SettlingEndsAFlow ==
  ASSUME IInv, NEW f \in Id, EndFlow(f)
  PROVE  FlowEnded(f, info[f].root, Len(ended) + 1)
<1>1. SettleFlow(f) /\ ended' = Append(ended, f)
  BY DEF EndFlow
<1>2. /\ UNCHANGED <<nextActionId, info, stack>>
      /\ ActionsOn(stack) = {} /\ f \in Issued
      /\ flow[f] \in {"returning", "throwing"}
      /\ flow'[f] = IF flow[f] = "returning" THEN "returned" ELSE "thrown"
      /\ \A i \in Id : i # f => flow'[i] = flow[i]
  BY <1>1, SettleEngine DEF IInv
<1>3. info[f].root \in Issued
  BY <1>2, OpenFlow DEF IInv, IsOpen, Open
<1> QED BY <1>1, <1>2, <1>3 DEF FlowEnded

LEMMA EndsBecome ==
  ASSUME HistoryInv, ReportInv, NEW f \in Id, NEW r \in Id, NEW m \in Nat, FlowEnded(f, r, m)
  PROVE  /\ DOMAIN ended = 1 .. Len(ended) /\ DOMAIN ended' = 1 .. m /\ ended'[m] = f
         /\ \A k \in DOMAIN ended : /\ ended'[k] = ended[k] /\ flow'[ended[k]] = flow[ended[k]]
                                    /\ ended[k] \in Id
         /\ StartedInFlow(f)' <=> StartedInFlow(f)
         /\ \A b \in Id : EndedUnder(b)' = IF b = r THEN EndedUnder(b) \cup {m} ELSE EndedUnder(b)
         /\ \A b \in Id : FailedUnder(b)' =
              IF b = r /\ flow[f] = "throwing" /\ ~StartedInFlow(f)
              THEN FailedUnder(b) \cup {m} ELSE FailedUnder(b)
<1>1. ended \in Seq(Id) /\ ended' = Append(ended, f) /\ m = Len(ended) + 1 /\ info' = info
  BY DEF HistoryInv, FlowEnded
<1>2. /\ DOMAIN ended = 1 .. Len(ended) /\ DOMAIN ended' = 1 .. m /\ ended'[m] = f
      /\ Len(ended) \in Nat
      /\ \A k \in DOMAIN ended : ended'[k] = ended[k] /\ ended[k] \in Id /\ k # m
  BY <1>1
<1>3. \A k \in DOMAIN ended : flow'[ended[k]] = flow[ended[k]]
  <2>1. \A k \in DOMAIN ended : flow[ended[k]] \in Settled
    BY <1>2 DEF ReportInv
  <2>2. flow[f] \notin Settled
    BY DEF FlowEnded, Settled
  <2> QED BY <1>2, <2>1, <2>2 DEF FlowEnded
<1>4. \A i : StartedInFlow(i)' <=> StartedInFlow(i)
  BY <1>1 DEF StartedInFlow, Parents
<1>5. ASSUME NEW b \in Id
      PROVE  EndedUnder(b)' = IF b = r THEN EndedUnder(b) \cup {m} ELSE EndedUnder(b)
  <2>1. EndedUnder(b)' = {k \in 1 .. m : info[ended'[k]].root = b}
    BY <1>1, <1>2 DEF EndedUnder
  <2>2. EndedUnder(b) = {k \in 1 .. Len(ended) : info[ended[k]].root = b}
    BY <1>2 DEF EndedUnder
  <2>3. \A k \in 1 .. m : k \in 1 .. Len(ended) \/ k = m
    BY <1>1, <1>2
  <2>4. \A k \in 1 .. Len(ended) : k \in 1 .. m /\ ended'[k] = ended[k] /\ k # m
    BY <1>1, <1>2
  <2>5. info[ended'[m]].root = r /\ m \in 1 .. m
    BY <1>1, <1>2 DEF FlowEnded
  <2> QED BY <2>1, <2>2, <2>3, <2>4, <2>5
<1>6. ASSUME NEW b \in Id
      PROVE  FailedUnder(b)' = IF b = r /\ flow[f] = "throwing" /\ ~StartedInFlow(f)
                               THEN FailedUnder(b) \cup {m} ELSE FailedUnder(b)
  <2>1. FailedUnder(b)' = {k \in EndedUnder(b)' :
                             flow'[ended'[k]] = "thrown" /\ ~StartedInFlow(ended[k])'}
    BY DEF FailedUnder
  <2>2. \A k \in EndedUnder(b) :
          /\ flow'[ended'[k]] = "thrown" <=> flow[ended[k]] = "thrown"
          /\ StartedInFlow(ended[k])' <=> StartedInFlow(ended[k])
    <3> SUFFICES ASSUME NEW k \in EndedUnder(b)
                 PROVE  /\ flow'[ended'[k]] = "thrown" <=> flow[ended[k]] = "thrown"
                        /\ StartedInFlow(ended[k])' <=> StartedInFlow(ended[k])
      OBVIOUS
    <3>1. ended'[k] = ended[k] /\ flow'[ended[k]] = flow[ended[k]]
      BY <1>2, <1>3 DEF EndedUnder
    <3> QED BY <3>1, <1>1 DEF StartedInFlow, Parents
  <2>3. flow'[ended'[m]] = "thrown" <=> flow[f] = "throwing"
    BY <1>2 DEF FlowEnded
  <2>4. StartedInFlow(ended[m])' <=> StartedInFlow(f)
    BY <1>1, <1>2 DEF StartedInFlow, Parents
  <2>5. m \notin EndedUnder(b)
    BY <1>2 DEF EndedUnder
  <2>6. \A k \in EndedUnder(b)' : k \in EndedUnder(b) \/ (k = m /\ b = r)
    BY <1>5
  <2>7. EndedUnder(b) \subseteq EndedUnder(b)' /\ (b = r => m \in EndedUnder(b)')
    BY <1>5
  <2>8. FailedUnder(b) = {k \in EndedUnder(b) : flow[ended[k]] = "thrown" /\ ~StartedInFlow(ended[k])}
    BY DEF FailedUnder
  <2> QED BY <2>1, <2>2, <2>3, <2>4, <2>5, <2>6, <2>7, <2>8
<1> QED BY <1>2, <1>3, <1>4, <1>5, <1>6

LEMMA FirstFailureBecomes ==
  ASSUME HistoryInv, ReportInv, NEW f \in Id, NEW r \in Id, NEW m \in Nat, FlowEnded(f, r, m)
  PROVE  /\ \A b \in Id : HasLeast(FailedUnder(b))' /\ HasGreatest(EndedUnder(b))'
         /\ \A b \in Id : b # r => FirstFailure(b)' = FirstFailure(b)
         /\ FirstFailure(r)' =
              IF FirstFailure(r) = None /\ flow[f] = "throwing" /\ ~StartedInFlow(f)
              THEN f ELSE FirstFailure(r)
         /\ Max(EndedUnder(r)') = m /\ EndedUnder(r)' # {}
<1> DEFINE n == Len(ended)
           fails == flow[f] = "throwing" /\ ~StartedInFlow(f)
<1>1. /\ n \in Nat /\ m = n + 1 /\ DOMAIN ended = 1 .. n /\ ended'[m] = f
      /\ \A k \in 1 .. n : ended'[k] = ended[k] /\ ended[k] \in Id
  BY EndsBecome DEF HistoryInv, FlowEnded
<1>2. \A b \in Id : FailedUnder(b) \in SUBSET (1 .. n) /\ EndedUnder(b) \in SUBSET (1 .. n)
  BY <1>1 DEF FailedUnder, EndedUnder
<1>3. \A b \in Id : EndedUnder(b)' = IF b = r THEN EndedUnder(b) \cup {m} ELSE EndedUnder(b)
  BY EndsBecome
<1>4. \A b \in Id : FailedUnder(b)' = IF b = r /\ fails THEN FailedUnder(b) \cup {m} ELSE FailedUnder(b)
  BY EndsBecome
<1> HIDE DEF n, fails
<1>5. \A b \in Id : HasLeast(FailedUnder(b)) /\ HasGreatest(EndedUnder(b))
  BY DEF ReportInv
<1>6. \A b \in Id : /\ HasLeast(FailedUnder(b) \cup {m})
                    /\ Min(FailedUnder(b) \cup {m}) = IF FailedUnder(b) = {} THEN m ELSE Min(FailedUnder(b))
                    /\ FailedUnder(b) # {} => Min(FailedUnder(b)) \in 1 .. n
  BY <1>1, <1>2, <1>5, EarliestStays
<1>7. Max(EndedUnder(r) \cup {m}) = m /\ HasGreatest(EndedUnder(r) \cup {m})
  BY <1>1, <1>2, LatestIsGreatest
<1>8. \A b \in Id : HasLeast(FailedUnder(b)') /\ HasGreatest(EndedUnder(b)')
  BY <1>3, <1>4, <1>5, <1>6, <1>7
<1>9. \A b \in Id : HasLeast(FailedUnder(b))' /\ HasGreatest(EndedUnder(b))'
  BY <1>8 DEF HasLeast, HasGreatest
<1>10. \A b \in Id : FirstFailure(b)' = IF FailedUnder(b)' = {} THEN None ELSE ended'[Min(FailedUnder(b)')]
  BY DEF FirstFailure
<1>11. \A b \in Id : FailedUnder(b) # {} => ended'[Min(FailedUnder(b))] = ended[Min(FailedUnder(b))]
  BY <1>1, <1>6
<1>12. \A b \in Id : b # r => FirstFailure(b)' = FirstFailure(b)
  BY <1>4, <1>10, <1>11 DEF FirstFailure
<1>13. FirstFailure(r) = None <=> FailedUnder(r) = {}
  <2>1. None \notin Id
    BY FlowsAssumption DEF None, Id
  <2>2. FailedUnder(r) # {} => ended[Min(FailedUnder(r))] \in Id
    BY <1>1, <1>6
  <2> QED BY <2>1, <2>2 DEF FirstFailure
<1>14. FirstFailure(r)' = IF FirstFailure(r) = None /\ fails THEN f ELSE FirstFailure(r)
  <2>1. CASE fails
    <3>1. FailedUnder(r)' = FailedUnder(r) \cup {m}
      BY <2>1, <1>4
    <3>2. FirstFailure(r)' = ended'[Min(FailedUnder(r) \cup {m})]
      BY <3>1, <1>10
    <3>3. CASE FailedUnder(r) = {}
      <4>1. Min(FailedUnder(r) \cup {m}) = m
        BY <3>3, <1>6
      <4> QED BY <4>1, <3>2, <3>3, <2>1, <1>13, <1>1
    <3>4. CASE FailedUnder(r) # {}
      <4>1. Min(FailedUnder(r) \cup {m}) = Min(FailedUnder(r))
        BY <3>4, <1>6
      <4> QED BY <4>1, <3>2, <3>4, <1>11, <1>13 DEF FirstFailure
    <3> QED BY <3>3, <3>4
  <2>2. CASE ~fails
    BY <2>2, <1>4, <1>10, <1>11 DEF FirstFailure
  <2> QED BY <2>1, <2>2
<1>15. Max(EndedUnder(r)') = m /\ EndedUnder(r)' # {}
  BY <1>3, <1>7
<1> QED BY <1>9, <1>12, <1>14, <1>15 DEF fails

\* r is now reported by its first failure, or else by the flow that settled last.
LEMMA DocumentedBecomes ==
  ASSUME HistoryInv, ReportInv, NEW f \in Id, NEW r \in Id, NEW m \in Nat, FlowEnded(f, r, m)
  PROVE  /\ Documented(r)' = Verdict(FirstFailure(r)', f, flow[f] = "throwing")
         /\ \A b \in Id : b # r => Documented(b)' = Documented(b)
<1>1. /\ DOMAIN ended = 1 .. Len(ended) /\ DOMAIN ended' = 1 .. m /\ ended'[m] = f
      /\ \A k \in DOMAIN ended : /\ ended'[k] = ended[k] /\ flow'[ended[k]] = flow[ended[k]]
                                 /\ ended[k] \in Id
      /\ \A b \in Id : b # r => EndedUnder(b)' = EndedUnder(b) /\ FailedUnder(b)' = FailedUnder(b)
  BY EndsBecome
<1>2. Max(EndedUnder(r)') = m /\ EndedUnder(r)' # {} /\ HasLeast(FailedUnder(r))'
  BY FirstFailureBecomes
<1>3. Documented(r)' = IF FailedUnder(r)' # {}
                       THEN [verdict |-> "fail", call |-> ended'[Min(FailedUnder(r)')]]
                       ELSE IF EndedUnder(r)' = {} THEN [verdict |-> "success", call |-> r]
                       ELSE [verdict |-> IF flow'[ended'[Max(EndedUnder(r)')]] = "thrown"
                                         THEN "fail" ELSE "success",
                             call |-> ended'[Max(EndedUnder(r)')]]
  BY DEF Documented
<1>4. flow'[f] = "thrown" <=> flow[f] = "throwing"
  BY DEF FlowEnded
<1>5. FirstFailure(r)' = IF FailedUnder(r)' = {} THEN None ELSE ended'[Min(FailedUnder(r)')]
  BY DEF FirstFailure
<1>6. FailedUnder(r)' # {} => ended'[Min(FailedUnder(r)')] \in Id
  <2>1. FailedUnder(r)' \subseteq DOMAIN ended'
    BY DEF FailedUnder, EndedUnder
  <2>2. FailedUnder(r)' # {} => \E k \in FailedUnder(r)' : \A j \in FailedUnder(r)' : k <= j
    BY <1>2 DEF HasLeast
  <2>3. FailedUnder(r)' # {} => Min(FailedUnder(r)') \in FailedUnder(r)'
    BY <2>2 DEF Min
  <2>4. \A k \in DOMAIN ended' : ended'[k] \in Id
    BY DEF HistoryInv, FlowEnded
  <2> QED BY <2>1, <2>3, <2>4
<1>7. FirstFailure(r)' # None <=> FailedUnder(r)' # {}
  <2>1. None \notin Id
    BY FlowsAssumption DEF None, Id
  <2> QED BY <2>1, <1>5, <1>6
<1>8. Documented(r)' = Verdict(FirstFailure(r)', f, flow[f] = "throwing")
  <2>1. CASE FailedUnder(r)' # {}
    BY <2>1, <1>3, <1>5, <1>7 DEF Verdict
  <2>2. CASE FailedUnder(r)' = {}
    BY <2>2, <1>1, <1>2, <1>3, <1>4, <1>7 DEF Verdict
  <2> QED BY <2>1, <2>2
<1>9. ASSUME NEW b \in Id, b # r
      PROVE  Documented(b)' = Documented(b)
  <2>1. EndedUnder(b)' = EndedUnder(b) /\ FailedUnder(b)' = FailedUnder(b)
    BY <1>1, <1>9
  <2>2. Documented(b)' = IF FailedUnder(b) # {}
                         THEN [verdict |-> "fail", call |-> ended'[Min(FailedUnder(b))]]
                         ELSE IF EndedUnder(b) = {} THEN [verdict |-> "success", call |-> b]
                         ELSE [verdict |-> IF flow'[ended'[Max(EndedUnder(b))]] = "thrown"
                                           THEN "fail" ELSE "success",
                               call |-> ended'[Max(EndedUnder(b))]]
    BY <2>1 DEF Documented
  <2>3. FailedUnder(b) # {} => Min(FailedUnder(b)) \in DOMAIN ended
    <3>1. FailedUnder(b) # {} => \E k \in FailedUnder(b) : \A j \in FailedUnder(b) : k <= j
      BY DEF ReportInv, HasLeast
    <3>2. FailedUnder(b) # {} => Min(FailedUnder(b)) \in FailedUnder(b)
      BY <3>1 DEF Min
    <3> QED BY <3>2 DEF FailedUnder, EndedUnder
  <2>4. EndedUnder(b) # {} => Max(EndedUnder(b)) \in DOMAIN ended
    <3>1. EndedUnder(b) # {} => \E k \in EndedUnder(b) : \A j \in EndedUnder(b) : k >= j
      BY DEF ReportInv, HasGreatest
    <3>2. EndedUnder(b) # {} => Max(EndedUnder(b)) \in EndedUnder(b)
      BY <3>1 DEF Max
    <3> QED BY <3>2 DEF EndedUnder
  <2>5. FailedUnder(b) # {} => ended'[Min(FailedUnder(b))] = ended[Min(FailedUnder(b))]
    BY <2>3, <1>1
  <2>6. EndedUnder(b) # {} => /\ ended'[Max(EndedUnder(b))] = ended[Max(EndedUnder(b))]
                              /\ flow'[ended'[Max(EndedUnder(b))]] = flow[ended[Max(EndedUnder(b))]]
    BY <2>4, <1>1
  <2> QED BY <2>2, <2>5, <2>6 DEF Documented
<1> QED BY <1>8, <1>9

LEMMA ReportsEndFlow ==
  ASSUME IInv, IInv', ReportInv, NEW f \in Id, EndFlow(f)
  PROVE  ReportInv'
<1> DEFINE bad == flow[f] = "throwing"
<1>1. PICK r \in Id : r = info[f].root
  BY SettlingEndsAFlow DEF FlowEnded, Issued
<1>2. PICK m \in Nat : m = Len(ended) + 1
  BY DEF IInv, HistoryInv
<1>3. FlowEnded(f, r, m) /\ HistoryInv
  BY <1>1, <1>2, SettlingEndsAFlow DEF IInv
<1>4. Settle1(r, f, bad) /\ threw' = threw
  BY <1>1 DEF EndFlow
<1>5. ASSUME NEW k \in 1 .. Len(ended')
      PROVE  /\ ended'[k] \in Issued' /\ flow'[ended'[k]] \in Settled
             /\ info'[ended'[k]].root \in Issued' /\ info'[ended'[k]].root \notin ActionsOn(stack')
  <2>1. Issued' = Issued /\ info' = info /\ ActionsOn(stack') = {}
    BY <1>3 DEF FlowEnded, Issued
  <2>2. /\ DOMAIN ended = 1 .. Len(ended) /\ ended'[m] = f /\ Len(ended) \in Nat
        /\ Len(ended') = m
        /\ \A j \in DOMAIN ended : ended'[j] = ended[j] /\ flow'[ended[j]] = flow[ended[j]]
    BY <1>3, EndsBecome DEF HistoryInv, FlowEnded
  <2>3. CASE k = m
    BY <2>1, <2>2, <2>3, <1>3 DEF FlowEnded, Settled
  <2>4. CASE k # m
    <3>1. k \in 1 .. Len(ended)
      BY <2>2, <2>4, <1>2
    <3> QED BY <3>1, <2>1, <2>2 DEF ReportInv
  <2> QED BY <2>3, <2>4
<1>6. \A b \in Id : HasLeast(FailedUnder(b))' /\ HasGreatest(EndedUnder(b))'
  BY <1>3, FirstFailureBecomes
<1>7. /\ \A b \in Id : b # r => FirstFailure(b)' = FirstFailure(b) /\ Documented(b)' = Documented(b)
      /\ FirstFailure(r)' = IF FirstFailure(r) = None /\ bad /\ ~StartedInFlow(f)
                            THEN f ELSE FirstFailure(r)
      /\ Documented(r)' = Verdict(FirstFailure(r)', f, bad)
  BY <1>3, FirstFailureBecomes, DocumentedBecomes
<1>8. failure1 \in [Id -> Id \cup {None}] /\ told1 \in [Id -> Report] /\ entries1 \subseteq Id
  BY DEF IInv, FirstInv, Issued
<1>9. r \in entries1 \/ told1[r] = Untold \/ r \in threw
  <2>1. f \in FlowsUnder(r)
    BY <1>1, <1>3 DEF FlowsUnder, FlowEnded, IsOpen, Open
  <2> QED BY <2>1 DEF IInv, FirstInv
<1> HIDE DEF bad
<1>10. CASE r \notin entries1 /\ UNCHANGED first
  <2>1. \A b \in entries1' : failure1'[b] = FirstFailure(b)'
    BY <1>7, <1>8, <1>10 DEF ReportInv, first
  <2>2. \A b \in Id \ threw' : told1'[b] # Untold => told1'[b] = Documented(b)'
    BY <1>4, <1>7, <1>9, <1>10 DEF ReportInv, first
  <2> QED BY <2>1, <2>2, <1>5, <1>6 DEF ReportInv
<1>11. CASE r \in entries1 /\ ~(r \notin entries1 /\ UNCHANGED first)
  <2>1. failure1' = [failure1 EXCEPT ![r] = Failure(r, f, bad)]
    BY <1>4, <1>11 DEF Settle1
  <2>2. failure1[r] = FirstFailure(r)
    BY <1>11 DEF ReportInv
  <2>3. failure1'[r] = FirstFailure(r)' /\ \A b \in Id : b # r => failure1'[b] = failure1[b]
    BY <2>1, <2>2, <1>7, <1>8 DEF Failure
  <2>4. \/ UNCHANGED <<entries1, told1>>
        \/ /\ entries1' = entries1 \ {r}
           /\ told1' = [told1 EXCEPT ![r] = Verdict(failure1'[r], f, bad)]
    BY <1>4, <1>11 DEF Settle1
  <2>5. told1[r] = Untold
    BY <1>11 DEF IInv, FirstInv
  <2>6. /\ entries1' \subseteq entries1 /\ \A b \in Id : b # r => told1'[b] = told1[b]
        /\ told1'[r] = Untold \/ told1'[r] = Documented(r)'
    BY <2>3, <2>4, <2>5, <1>7, <1>8
  <2>7. \A b \in entries1' : failure1'[b] = FirstFailure(b)'
    BY <2>3, <2>6, <1>7, <1>8 DEF ReportInv
  <2>8. \A b \in Id \ threw' : told1'[b] # Untold => told1'[b] = Documented(b)'
    BY <2>6, <1>4, <1>7 DEF ReportInv
  <2> QED BY <2>7, <2>8, <1>5, <1>6 DEF ReportInv
<1> QED BY <1>4, <1>10, <1>11 DEF Settle1

LEMMA InitialReports ==
  ASSUME Init
  PROVE  ReportInv
<1>1. /\ ended = <<>> /\ entries1 = {} /\ told1 = [i \in Id |-> Untold]
  BY DEF Init
<1>2. \A r : EndedUnder(r) = {} /\ FailedUnder(r) = {}
  BY <1>1 DEF EndedUnder, FailedUnder
<1> QED BY <1>1, <1>2 DEF ReportInv, HasLeast, HasGreatest

LEMMA NextReports ==
  ASSUME IInv, IInv', ReportInv, [Next]_vars
  PROVE  ReportInv'
<1>1. ASSUME NEW passes \in BOOLEAN, InvokeAction(passes)
      PROVE  ReportInv'
  BY <1>1, ReportsInvoke
<1>2. CASE SpawnFlow
  BY <1>2, ReportsSpawn
<1>3. CASE EndCode
  <2>1. ASSUME NEW i \in Id, Return(i)
        PROVE  ReportInv'
    BY <2>1, ReportsReturn
  <2>2. ASSUME NEW i \in Id, Throw(i)
        PROVE  ReportInv'
    BY <2>2, ReportsThrow
  <2>3. ASSUME NEW i \in Id, EndStep(i)
        PROVE  ReportInv'
    BY <2>3, EndStepIsQuiet, ReportsQuiet DEF IInv
  <2> QED BY <2>1, <2>2, <2>3, <1>3 DEF EndCode
<1>4. ASSUME NEW f \in Id, ResumeFlow(f)
      PROVE  ReportInv'
  BY <1>4, ResumeIsQuiet, ReportsQuiet DEF IInv
<1>5. ASSUME NEW f \in Id, EndFlow(f)
      PROVE  ReportInv'
  BY <1>5, ReportsEndFlow
<1>6. CASE UNCHANGED vars
  <2>1. /\ UNCHANGED <<nextActionId, info, stack, flow, awaited, yields>>
        /\ UNCHANGED <<first, second, history>>
    BY <1>6 DEF vars, engine
  <2>2. Quiet
    BY <2>1 DEF Quiet
  <2> QED BY <2>1, <2>2, ReportsQuiet
<1> QED BY <1>1, <1>2, <1>3, <1>4, <1>5, <1>6 DEF Next

\* onSuccess and onFail come after the last flow of the action and are given
\* what the documentation says: the first failure of a flow the action started
\* itself, and without one the flow that settled last, or the action.
THEOREM AlwaysReportsAsDocumented == Spec => []ReportsAsDocumented
<1>1. Init => ReportInv
  BY InitialReports
<1>2. IInv /\ IInv' /\ ReportInv /\ [Next]_vars => ReportInv'
  BY NextReports
<1>3. IInv /\ ReportInv => ReportsAsDocumented
  BY NothingAfterTheReport DEF ReportInv, ReportsAsDocumented
<1> QED BY <1>1, <1>2, <1>3, Invariant, PTL DEF Spec

-----------------------------------------------------------------------------
(* What both middlewares promise *)

Reported1 == {a \in Id : told1[a] # Untold}
Reported2 == {a \in Id : told2[a] # "none"}

\* Nothing, a new entry, or an entry that is closed and reported.
Tracks(open, settled, open2, settled2) ==
  \/ open2 = open /\ settled2 = settled
  \/ \E a \in Id : /\ a \notin open \cup settled
                   /\ open2 = open \cup {a} /\ settled2 = settled
  \/ \E a \in Id : a \in open /\ open2 = open \ {a} /\ settled2 = settled \cup {a}

LEMMA SettlingTracks ==
  ASSUME FirstInv, NEW r \in Id, NEW c \in Id, NEW bad \in BOOLEAN, Settle1(r, c, bad)
  PROVE  Tracks(entries1, Reported1, entries1', Reported1')
<1> DEFINE v == Verdict(failure1'[r], c, bad)
<1>1. CASE UNCHANGED <<entries1, told1>>
  BY <1>1 DEF Tracks, Reported1
<1>2. CASE r \in entries1 /\ entries1' = entries1 \ {r} /\ told1' = [told1 EXCEPT ![r] = v]
  <2>1. v # Untold
    BY DEF Verdict, Untold
  <2>2. told1 \in [Id -> Report]
    BY DEF FirstInv
  <2> HIDE DEF v
  <2>3. told1'[r] # Untold /\ \A b \in Id : b # r => told1'[b] = told1[b]
    BY <1>2, <2>1, <2>2
  <2>4. Reported1' = Reported1 \cup {r}
    BY <2>3 DEF Reported1
  <2> QED BY <2>4, <1>2 DEF Tracks
<1>3. UNCHANGED <<entries1, told1>> \/
      (r \in entries1 /\ entries1' = entries1 \ {r} /\ told1' = [told1 EXCEPT ![r] = v])
  BY DEF Settle1, first
<1> QED BY <1>1, <1>2, <1>3

LEMMA FinishingTracks ==
  ASSUME SecondInv, NEW a \in entries2, NEW bad \in BOOLEAN, Finish2(a, bad)
  PROVE  Tracks(entries2, Reported2, entries2', Reported2')
<1>1. told2 \in [Id -> {"none", "success", "fail"}] /\ a \in Id
  BY DEF SecondInv, Issued
<1>2. told2'[a] # "none" /\ \A b \in Id : b # a => told2'[b] = told2[b]
  BY <1>1 DEF Finish2
<1>3. Reported2' = Reported2 \cup {a}
  BY <1>1, <1>2 DEF Reported2
<1> QED BY <1>1, <1>3 DEF Tracks, Finish2

LEMMA FirstTracks ==
  ASSUME IInv, [Next]_vars
  PROVE  Tracks(entries1, Reported1, entries1', Reported1')
<1>1. CASE UNCHANGED <<entries1, told1>>
  BY <1>1 DEF Tracks, Reported1
<1>2. ASSUME NEW passes \in BOOLEAN, InvokeAction(passes)
      PROVE  Tracks(entries1, Reported1, entries1', Reported1')
  <2>1. Invoke /\ Start1(passes)
    BY <1>2 DEF InvokeAction
  <2>2. PICK n \in Id : n = nextActionId /\ ActionBorn(n)
    BY <2>1, InvokeBearsAnAction DEF IInv, ActionBorn
  <2>3. n \notin Issued /\ n \notin entries1 /\ n \notin Reported1
    BY <2>2 DEF ActionBorn, IInv, FirstInv, Reported1
  <2>4. Reported1' = Reported1 /\ (entries1' = entries1 \cup {n} \/ entries1' = entries1)
    BY <2>1, <2>2 DEF Start1, Reported1
  <2> QED BY <2>3, <2>4 DEF Tracks
<1>3. ASSUME NEW i \in Id, Return(i)
      PROVE  Tracks(entries1, Reported1, entries1', Reported1')
  BY <1>3, SettlingTracks DEF Return, IInv
<1>4. ASSUME NEW i \in Id, Throw(i)
      PROVE  Tracks(entries1, Reported1, entries1', Reported1')
  <2>1. CASE UNCHANGED first
    BY <2>1, <1>1 DEF first
  <2>2. CASE /\ i \in entries1 /\ entries1' = entries1 \ {i}
             /\ told1' = [told1 EXCEPT ![i] = [verdict |-> "fail", call |-> i]]
    <3>1. told1 \in [Id -> Report]
      BY DEF IInv, FirstInv
    <3>2. told1'[i] # Untold /\ \A b \in Id : b # i => told1'[b] = told1[b]
      BY <2>2, <3>1 DEF Untold
    <3>3. Reported1' = Reported1 \cup {i}
      BY <3>2 DEF Reported1
    <3> QED BY <3>3, <2>2 DEF Tracks
  <2> QED BY <2>1, <2>2, <1>4 DEF Throw, Throw1
<1>5. ASSUME NEW f \in Id, EndFlow(f)
      PROVE  Tracks(entries1, Reported1, entries1', Reported1')
  <2>1. Settle1(info[f].root, f, flow[f] = "throwing")
    BY <1>5 DEF EndFlow
  <2>2. PICK r \in Id : r = info[f].root
    BY <1>5, SettlingEndsAFlow DEF FlowEnded, Issued
  <2> QED BY <2>1, <2>2, SettlingTracks DEF IInv
<1>6. CASE SpawnFlow
  BY <1>6, <1>1 DEF SpawnFlow, Spawn1
<1>7. ASSUME NEW f \in Id, EndStep(f) \/ ResumeFlow(f)
      PROVE  Tracks(entries1, Reported1, entries1', Reported1')
  BY <1>7, <1>1 DEF EndStep, ResumeFlow, first
<1>8. CASE UNCHANGED vars
  BY <1>8, <1>1 DEF vars, first
<1> QED BY <1>2, <1>3, <1>4, <1>5, <1>6, <1>7, <1>8 DEF Next, EndCode

LEMMA SecondTracks ==
  ASSUME IInv, [Next]_vars
  PROVE  Tracks(entries2, Reported2, entries2', Reported2')
<1>1. CASE UNCHANGED <<entries2, told2>>
  BY <1>1 DEF Tracks, Reported2
<1>2. ASSUME NEW passes \in BOOLEAN, InvokeAction(passes)
      PROVE  Tracks(entries2, Reported2, entries2', Reported2')
  <2>1. Invoke /\ Start2
    BY <1>2 DEF InvokeAction
  <2>2. PICK n \in Id : n = nextActionId /\ ActionBorn(n)
    BY <2>1, InvokeBearsAnAction DEF IInv, ActionBorn
  <2>3. n \notin Issued /\ n \notin entries2 /\ n \notin Reported2
    BY <2>2 DEF ActionBorn, IInv, SecondInv, Reported2
  <2>4. Reported2' = Reported2 /\ entries2' = entries2 \cup {n}
    BY <2>1, <2>2 DEF Start2, Reported2
  <2> QED BY <2>3, <2>4 DEF Tracks
<1>3. ASSUME NEW i \in Id, Return(i) \/ Throw(i)
      PROVE  Tracks(entries2, Reported2, entries2', Reported2')
  <2>1. i \in entries2
    <3>1. Exit(i)
      BY <1>3 DEF Return, Throw
    <3>2. i \in ActionsOn(stack)
      BY <3>1, ExitEndsAnAction DEF ActionGone, IInv
    <3> QED BY <3>2 DEF IInv, SecondInv
  <2>2. UNCHANGED second \/ \E bad \in BOOLEAN : Finish2(i, bad)
    BY <1>3 DEF Return, Throw, Return2, Throw2
  <2> QED BY <2>1, <2>2, <1>1, FinishingTracks DEF IInv, second
<1>4. ASSUME NEW f \in Id, EndFlow(f)
      PROVE  Tracks(entries2, Reported2, entries2', Reported2')
  <2>1. Settle2(info[f].action, flow[f] = "throwing")
    BY <1>4 DEF EndFlow
  <2>2. UNCHANGED <<entries2, told2>> \/
        (info[f].action \in entries2 /\ \E bad \in BOOLEAN : Finish2(info[f].action, bad))
    BY <2>1 DEF Settle2, second
  <2> QED BY <2>2, <1>1, FinishingTracks DEF IInv
<1>5. CASE SpawnFlow
  BY <1>5, <1>1 DEF SpawnFlow, Spawn2
<1>6. ASSUME NEW f \in Id, EndStep(f) \/ ResumeFlow(f)
      PROVE  Tracks(entries2, Reported2, entries2', Reported2')
  BY <1>6, <1>1 DEF EndStep, ResumeFlow, second
<1>7. CASE UNCHANGED vars
  BY <1>7, <1>1 DEF vars, second
<1> QED BY <1>2, <1>3, <1>4, <1>5, <1>6, <1>7 DEF Next, EndCode

\* Both middlewares start to track an action once and settle it once: the
\* safety part of ImplementsLifetimes, every step of which is one of Lifetimes
\* or leaves the entries and the reports alone.
THEOREM SettlesOnce ==
  Spec => /\ Lifetimes1!Init /\ [][Lifetimes1!Next]_<<entries1, Reported1>>
          /\ Lifetimes2!Init /\ [][Lifetimes2!Next]_<<entries2, Reported2>>
<1>1. Init => Lifetimes1!Init /\ Lifetimes2!Init
  BY DEF Init, Lifetimes1!Init, Lifetimes2!Init
<1>2. IInv /\ [Next]_vars => [Lifetimes1!Next]_<<entries1, Reported1>>
  BY FirstTracks DEF Tracks, Reported1, Lifetimes1!Next, Lifetimes1!Start, Lifetimes1!Settle
<1>3. IInv /\ [Next]_vars => [Lifetimes2!Next]_<<entries2, Reported2>>
  BY SecondTracks DEF Tracks, Reported2, Lifetimes2!Next, Lifetimes2!Start, Lifetimes2!Settle
<1> QED BY <1>1, <1>2, <1>3, Invariant, PTL DEF Spec
=============================================================================
