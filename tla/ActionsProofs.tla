---------------------------- MODULE ActionsProofs ----------------------------
(***************************************************************************)
(* Proofs about Actions: for any forest of nodes, any middlewares and any  *)
(* depth of calls.  What is unlocked is spread over the stack: each call   *)
(* restores what it found, so the invariant says of every frame what that  *)
(* was; the lemmas are about a stack s, the theorem about the one of the   *)
(* specification.  Of its way through the middlewares a frame says that    *)
(* the lists it started with still hold what they held, that it has seen   *)
(* what comes before the place it is at, and whether the recorder is one   *)
(* of them; with that the records and the writes are accounted for.        *)
(***************************************************************************)
EXTENDS Actions, SequenceTheorems, TLAPS

\* What a call keeps until it ends; the rest of a frame does not matter here.
Kept == {"id", "root", "node", "baseIsRunning", "previous"}

\* a stack, the type of what else its frames hold left open
IsStack(s) ==
  /\ \E S : s \in Seq(S)
  /\ \A i \in 1 .. Len(s) : Kept \subseteq DOMAIN s[i]

\* the context that the i-th frame sets
ContextOf(s, i) == IF i = 0 THEN NoContext ELSE [id |-> s[i].id, root |-> s[i].root]

\* the nodes that the first i frames unlock
UnlockedBy(s, i) == {s[j].node : j \in 1 .. i}

\* Each frame remembers the context and the lock that the frames before it left.
Restores(s) ==
  \A i \in 1 .. Len(s) :
    /\ s[i].previous = ContextOf(s, i - 1)
    /\ s[i].baseIsRunning = (s[i].node \in UnlockedBy(s, i - 1))

Balanced(s, unlocked, current) ==
  /\ IsStack(s)
  /\ Restores(s)
  /\ unlocked = UnlockedBy(s, Len(s))
  /\ current = ContextOf(s, Len(s))

LocksInv == Balanced(stack, running, context)

-----------------------------------------------------------------------------
\* What is said of the first frames depends on what they keep.
LEMMA SameFrames ==
  ASSUME NEW s, NEW t, NEW n \in Nat,
         \A i \in 1 .. n : /\ t[i].id = s[i].id /\ t[i].root = s[i].root
                           /\ t[i].node = s[i].node
  PROVE  \A i \in 0 .. n : /\ ContextOf(t, i) = ContextOf(s, i)
                           /\ UnlockedBy(t, i) = UnlockedBy(s, i)
<1> SUFFICES ASSUME NEW i \in 0 .. n
             PROVE  ContextOf(t, i) = ContextOf(s, i) /\ UnlockedBy(t, i) = UnlockedBy(s, i)
  OBVIOUS
<1>1. ContextOf(t, i) = ContextOf(s, i)
  BY DEF ContextOf
<1>2. UnlockedBy(t, i) = UnlockedBy(s, i)
  BY DEF UnlockedBy
<1> QED
  BY <1>1, <1>2

\* A frame on top of the others, which remembers what it found.
LEMMA Entered ==
  ASSUME NEW s, NEW unlocked, NEW current, NEW f,
         Balanced(s, unlocked, current), Kept \subseteq DOMAIN f,
         f.previous = current, f.baseIsRunning = (f.node \in unlocked)
  PROVE  Balanced(Append(s, f), unlocked \cup {f.node}, [id |-> f.id, root |-> f.root])
<1> DEFINE t == Append(s, f)
           n == Len(s)
<1>1. PICK S : s \in Seq(S)
  BY DEF Balanced, IsStack
<1>2. s \in Seq(S \cup {f})
  BY <1>1
<1>3. /\ n \in Nat /\ t \in Seq(S \cup {f}) /\ Len(t) = n + 1
      /\ \A i \in 1 .. n : t[i] = s[i]
      /\ t[n + 1] = f
  BY <1>2
<1> HIDE DEF t, n
<1>4. \A i \in 0 .. n : /\ ContextOf(t, i) = ContextOf(s, i)
                        /\ UnlockedBy(t, i) = UnlockedBy(s, i)
  BY <1>3, SameFrames
<1>5. \A i \in 1 .. n + 1 : i = n + 1 \/ i \in 1 .. n
  BY <1>3
<1>6. IsStack(t)
  BY <1>3, <1>5 DEF IsStack, Balanced, n
<1>7. Restores(t)
  <2> SUFFICES ASSUME NEW i \in 1 .. n + 1
               PROVE  /\ t[i].previous = ContextOf(t, i - 1)
                      /\ t[i].baseIsRunning = (t[i].node \in UnlockedBy(t, i - 1))
    BY <1>3 DEF Restores
  <2>1. CASE i = n + 1
    <3>1. t[i] = f /\ i - 1 = n /\ n \in 0 .. n
      BY <2>1, <1>3
    <3>2. ContextOf(t, i - 1) = current /\ UnlockedBy(t, i - 1) = unlocked
      BY <3>1, <1>4 DEF Balanced, n
    <3> QED
      BY <3>1, <3>2
  <2>2. CASE i \in 1 .. n
    <3>1. t[i] = s[i] /\ i - 1 \in 0 .. n
      BY <2>2, <1>3
    <3>2. ContextOf(t, i - 1) = ContextOf(s, i - 1) /\ UnlockedBy(t, i - 1) = UnlockedBy(s, i - 1)
      BY <3>1, <1>4
    <3> QED
      BY <2>2, <3>1, <3>2 DEF Balanced, Restores, n
  <2> QED
    BY <1>5, <2>1, <2>2
<1>8. UnlockedBy(t, n + 1) = unlocked \cup {f.node}
  <2>1. UnlockedBy(t, n + 1) = UnlockedBy(t, n) \cup {f.node}
    BY <1>3, <1>5 DEF UnlockedBy
  <2>2. UnlockedBy(t, n) = unlocked
    BY <1>3, <1>4 DEF Balanced, n
  <2> QED
    BY <2>1, <2>2
<1>9. ContextOf(t, n + 1) = [id |-> f.id, root |-> f.root]
  BY <1>3 DEF ContextOf
<1> QED
  BY <1>3, <1>6, <1>7, <1>8, <1>9 DEF Balanced, t

\* The top frame takes its lock and its context with it.
LEMMA Left ==
  ASSUME NEW s, NEW unlocked, NEW current, Balanced(s, unlocked, current), s # <<>>
  PROVE  Balanced(Front(s),
                  IF Last(s).baseIsRunning THEN unlocked ELSE unlocked \ {Last(s).node},
                  Last(s).previous)
<1> DEFINE t == Front(s)
           n == Len(s)
           top == Last(s)
<1>1. PICK S : s \in Seq(S)
  BY DEF Balanced, IsStack
<1>2. /\ n \in Nat \ {0} /\ t \in Seq(S) /\ Len(t) = n - 1
      /\ \A i \in 1 .. n - 1 : t[i] = s[i]
      /\ top = s[n]
  <2>1. n \in Nat \ {0} /\ top = s[n]
    BY <1>1 DEF Last
  <2>2. t = SubSeq(s, 1, n - 1) /\ n - 1 \in Nat
    BY <2>1 DEF Front
  <2>3. t \in Seq(S) /\ Len(t) = n - 1 /\ \A i \in 1 .. n - 1 : t[i] = s[i]
    <3> HIDE DEF t, n, top
    <3>1. \A i \in 1 .. n - 1 : i \in 1 .. n
      BY <2>1
    <3>2. s \in Seq(S) /\ n = Len(s)
      BY <1>1 DEF n
    <3>3. /\ Len(SubSeq(s, 1, n - 1)) = n - 1
          /\ \A i \in 1 .. n - 1 : SubSeq(s, 1, n - 1)[i] = s[i]
      BY <2>1, <3>2
    <3>4. SubSeq(s, 1, n - 1) \in Seq(S)
      BY <2>1, <3>2
    <3> QED
      BY <2>2, <3>3, <3>4
  <2> QED
    BY <2>1, <2>3
<1> HIDE DEF t, n, top
<1>3. \A i \in 0 .. n - 1 : /\ ContextOf(t, i) = ContextOf(s, i)
                            /\ UnlockedBy(t, i) = UnlockedBy(s, i)
  <2>1. n - 1 \in Nat
    BY <1>2
  <2> QED
    BY <1>2, <2>1, SameFrames
<1>4. /\ n \in 1 .. n /\ n - 1 \in 0 .. n - 1
      /\ \A i \in 1 .. n - 1 : i \in 1 .. n /\ i - 1 \in 0 .. n - 1
      /\ \A i \in 1 .. n : i = n \/ i \in 1 .. n - 1
  BY <1>2
<1>5. IsStack(t)
  BY <1>2, <1>4 DEF IsStack, Balanced, n
<1>6. Restores(t)
  BY <1>2, <1>3, <1>4 DEF Restores, Balanced, n
<1>7. top.previous = ContextOf(t, n - 1)
  BY <1>2, <1>3, <1>4 DEF Restores, Balanced, n
<1>8. (IF top.baseIsRunning THEN unlocked ELSE unlocked \ {top.node}) = UnlockedBy(t, n - 1)
  <2>1. top.baseIsRunning = (top.node \in UnlockedBy(t, n - 1))
    BY <1>2, <1>3, <1>4 DEF Restores, Balanced, n
  <2>2. UnlockedBy(s, n) = UnlockedBy(s, n - 1) \cup {top.node}
    BY <1>2, <1>4 DEF UnlockedBy
  <2>3. unlocked = UnlockedBy(t, n - 1) \cup {top.node}
    BY <2>2, <1>3, <1>4 DEF Balanced, n
  <2> QED
    BY <2>1, <2>3
<1> QED
  BY <1>2, <1>5, <1>6, <1>7, <1>8 DEF Balanced, t, top

\* What the chain of middlewares changes in the top frame is not what it keeps.
LEMMA TopChanged ==
  ASSUME NEW s, NEW unlocked, NEW current, NEW f,
         Balanced(s, unlocked, current), s # <<>>,
         DOMAIN f = DOMAIN Last(s), \A k \in Kept : f[k] = Last(s)[k]
  PROVE  Balanced([s EXCEPT ![Len(s)] = f], unlocked, current)
<1> DEFINE n == Len(s)
           t == [s EXCEPT ![n] = f]
<1>1. PICK S : s \in Seq(S)
  BY DEF Balanced, IsStack
<1>2. s \in Seq(S \cup {f})
  BY <1>1
<1>3. /\ n \in Nat \ {0} /\ t \in Seq(S \cup {f}) /\ Len(t) = n
      /\ \A i \in 1 .. n : i # n => t[i] = s[i]
      /\ t[n] = f /\ Last(s) = s[n]
  BY <1>2 DEF Last
<1> HIDE DEF t, n
<1>4. \A i \in 1 .. n : DOMAIN t[i] = DOMAIN s[i] /\ \A k \in Kept : t[i][k] = s[i][k]
  BY <1>3
<1>5. \A i \in 1 .. n : /\ t[i].id = s[i].id /\ t[i].root = s[i].root
                        /\ t[i].node = s[i].node /\ t[i].previous = s[i].previous
                        /\ t[i].baseIsRunning = s[i].baseIsRunning
  BY <1>4 DEF Kept
<1>6. \A i \in 0 .. n : /\ ContextOf(t, i) = ContextOf(s, i)
                        /\ UnlockedBy(t, i) = UnlockedBy(s, i)
  <2>1. n \in Nat
    BY <1>3
  <2> QED
    BY <1>5, <2>1, SameFrames
<1>7. IsStack(t)
  BY <1>3, <1>4 DEF IsStack, Balanced, n
<1>8. Restores(t)
  <2>1. \A i \in 1 .. n : i - 1 \in 0 .. n
    BY <1>3
  <2> QED
    BY <1>3, <1>5, <1>6, <2>1 DEF Restores, Balanced, n
<1>9. unlocked = UnlockedBy(t, n) /\ current = ContextOf(t, n)
  BY <1>3, <1>6 DEF Balanced, n
<1> QED
  BY <1>3, <1>7, <1>8, <1>9 DEF Balanced, t, n

-----------------------------------------------------------------------------
(* The specification *)

LEMMA NotEmpty ==
  ASSUME LocksInv, ~Idle
  PROVE  Top = stack[Len(stack)] /\ Kept \subseteq DOMAIN Top
<1>1. PICK S : stack \in Seq(S)
  BY DEF LocksInv, Balanced, IsStack
<1>2. Top = stack[Len(stack)] /\ Len(stack) \in 1 .. Len(stack)
  BY <1>1 DEF Idle, Top, Last
<1> QED
  BY <1>2 DEF LocksInv, Balanced, IsStack

LEMMA Implied ==
  ASSUME LocksInv
  PROVE  UnlockedWhileRunning
<1>1. PICK S : stack \in Seq(S)
  BY DEF LocksInv, Balanced, IsStack
<1>2. /\ Len(stack) \in Nat /\ DOMAIN stack = 1 .. Len(stack)
      /\ stack = <<>> <=> Len(stack) = 0
  BY <1>1
<1>3. running = {stack[i].node : i \in DOMAIN stack}
  BY <1>2 DEF LocksInv, Balanced, UnlockedBy
<1>4. Top = stack[Len(stack)]
  BY <1>1 DEF Top, Last
<1>5. context = IF Idle THEN NoContext ELSE [id |-> Top.id, root |-> Top.root]
  BY <1>2, <1>4 DEF LocksInv, Balanced, ContextOf, Idle
<1> QED
  BY <1>3, <1>5 DEF UnlockedWhileRunning

LEMMA Started ==
  ASSUME Init
  PROVE  LocksInv
<1>1. stack = <<>> /\ running = {} /\ context = NoContext
  BY DEF Init
<1>2. stack \in Seq({}) /\ Len(stack) = 0 /\ 1 .. Len(stack) = {}
  BY <1>1
<1>3. IsStack(stack) /\ Restores(stack)
  BY <1>2 DEF IsStack, Restores
<1>4. running = UnlockedBy(stack, Len(stack)) /\ context = ContextOf(stack, Len(stack))
  BY <1>1, <1>2 DEF UnlockedBy, ContextOf
<1> QED
  BY <1>3, <1>4 DEF LocksInv, Balanced

LEMMA Enters ==
  ASSUME LocksInv, NEW id, NEW root, NEW type, NEW n, Enter(id, root, type, n)
  PROVE  LocksInv'
<1> DEFINE f == [id |-> id, root |-> root, type |-> type, node |-> n,
                 baseIsRunning |-> n \in running, previous |-> context,
                 arrays |-> Collected(n), arrayIndex |-> 0, inArrayIndex |-> 0,
                 due |-> Due(n), seen |-> <<>>, stage |-> "next", handler |-> Recorder]
<1>1. /\ stack' = Append(stack, f)
      /\ running' = running \cup {f.node}
      /\ context' = [id |-> f.id, root |-> f.root]
  BY DEF Enter
<1>2. f.previous = context /\ f.baseIsRunning = (f.node \in running)
  OBVIOUS
<1>3. Kept \subseteq DOMAIN f
  BY DEF Kept
<1> HIDE DEF f
<1>4. Balanced(Append(stack, f), running \cup {f.node}, [id |-> f.id, root |-> f.root])
  BY <1>2, <1>3, Entered DEF LocksInv
<1> QED
  BY <1>1, <1>4 DEF LocksInv

LEMMA Leaves ==
  ASSUME LocksInv, ~Idle, NEW threw, Leave(threw)
  PROVE  LocksInv'
<1>1. Balanced(Front(stack),
               IF Last(stack).baseIsRunning THEN running ELSE running \ {Last(stack).node},
               Last(stack).previous)
  BY Left DEF LocksInv, Idle
<1> QED
  BY <1>1 DEF LocksInv, Leave, Top

LEMMA Passes ==
  ASSUME LocksInv, ~Idle, NEW f, Becomes(f), UNCHANGED <<running, context>>,
         DOMAIN f = DOMAIN Top, \A k \in Kept : f[k] = Top[k]
  PROVE  LocksInv'
<1>1. Balanced([stack EXCEPT ![Len(stack)] = f], running, context)
  BY TopChanged DEF LocksInv, Idle, Top
<1> QED
  BY <1>1 DEF LocksInv, Becomes

LEMMA StepKeepsLocks ==
  ASSUME LocksInv, [Next]_vars
  PROVE  LocksInv'
<1>1. CASE UNCHANGED <<stack, running, context>>
  BY <1>1 DEF LocksInv
<1>2. ASSUME NEW n, NEW type, NEW arg, Call(n, type, arg)
      PROVE  LocksInv'
  BY <1>2, Enters DEF Call
<1>3. ASSUME NEW n, NEW root, Resume(n, root)
      PROVE  LocksInv'
  BY <1>3, Enters DEF Resume
<1>4. ASSUME NEW threw, End(threw)
      PROVE  LocksInv'
  BY <1>4, Leaves DEF End
<1>5. CASE RunNextMiddleware
  <2>1. ~Idle /\ UNCHANGED <<running, context>>
    BY <1>5 DEF RunNextMiddleware
  <2>2. Kept \subseteq DOMAIN Top
    BY <2>1, NotEmpty
  <2>3. CASE Becomes([Top EXCEPT !.stage = "code"])
    <3> DEFINE code == [Top EXCEPT !.stage = "code"]
    <3>1. DOMAIN code = DOMAIN Top /\ \A k \in Kept : code[k] = Top[k]
      BY <2>2 DEF Kept
    <3> HIDE DEF code
    <3> QED
      BY <2>1, <2>3, <3>1, Passes DEF code
  <2>4. ASSUME NEW s,
               LET f == [Top EXCEPT !.arrayIndex = s.array, !.inArrayIndex = s.index]
               IN Becomes(IF Skips(Top.type, s.middleware) THEN f
                          ELSE [f EXCEPT !.seen = Append(@, s), !.stage = "handler",
                                         !.handler = s.middleware])
        PROVE  LocksInv'
    <3> DEFINE f == [Top EXCEPT !.arrayIndex = s.array, !.inArrayIndex = s.index]
               handed == [f EXCEPT !.seen = Append(@, s), !.stage = "handler",
                                   !.handler = s.middleware]
    <3>1. Becomes(f) \/ Becomes(handed)
      BY <2>4
    <3>2. DOMAIN f = DOMAIN Top /\ \A k \in Kept : f[k] = Top[k]
      BY <2>2 DEF Kept
    <3> HIDE DEF f
    <3>3. DOMAIN handed = DOMAIN Top /\ \A k \in Kept : handed[k] = Top[k]
      BY <2>2, <3>2 DEF Kept
    <3> HIDE DEF handed
    <3> QED
      BY <2>1, <3>1, <3>2, <3>3, Passes
  <2> QED
    BY <1>5, <2>3, <2>4 DEF RunNextMiddleware
<1>6. CASE PassOn
  <2> DEFINE f == [Top EXCEPT !.stage = "next"]
  <2>1. ~Idle /\ UNCHANGED <<running, context>> /\ Becomes(f)
    BY <1>6 DEF PassOn
  <2>2. Kept \subseteq DOMAIN Top
    BY <2>1, NotEmpty
  <2>3. DOMAIN f = DOMAIN Top /\ \A k \in Kept : f[k] = Top[k]
    BY <2>2 DEF Kept
  <2> HIDE DEF f
  <2> QED
    BY <2>1, <2>3, Passes
<1>7. CASE Spawn \/ UNCHANGED vars
  BY <1>1, <1>7 DEF Spawn, vars
<1>8. ASSUME NEW n, NEW m, AddMiddleWare(n, m) \/ RemoveMiddleware(n, m)
      PROVE  LocksInv'
  BY <1>1, <1>8 DEF AddMiddleWare, RemoveMiddleware
<1> QED
  BY <1>2, <1>3, <1>4, <1>5, <1>6, <1>7, <1>8 DEF Next

\* A node is unlocked exactly while one of its actions is on the stack, and the
\* current context is the innermost call, whatever was thrown and caught on the
\* way: every call restores what it found (runWithActionContext).
THEOREM LocksAreRestored == Spec => []UnlockedWhileRunning
<1>1. Init => LocksInv
  BY Started
<1>2. LocksInv /\ [Next]_vars => LocksInv'
  BY StepKeepsLocks
<1>3. LocksInv => UnlockedWhileRunning
  BY Implied
<1> QED
  BY <1>1, <1>2, <1>3, PTL DEF Spec

-----------------------------------------------------------------------------
(* The middlewares and the recorder *)

\* s is a step that f is due to take and has been taken
IsTaken(f, s) ==
  /\ s.array \in DOMAIN f.due /\ s.index \in DOMAIN f.due[s.array]
  /\ s.middleware = f.due[s.array][s.index]
  /\ ~Skips(f.type, s.middleware)
  /\ ~Before(f.arrayIndex, f.inArrayIndex, s.array, s.index)

\* the place has been reached: its middleware has been handed the call, or skips it
IsReached(f, i, j) ==
  \/ Before(f.arrayIndex, f.inArrayIndex, i, j)
  \/ Skips(f.type, f.due[i][j])
  \/ \E k \in DOMAIN f.seen : f.seen[k] = [array |-> i, index |-> j, middleware |-> f.due[i][j]]

HeldIn(l, held) == IF l = 0 THEN <<>> ELSE held[l]

InOrder(seen) ==
  \A k, l \in DOMAIN seen : k < l =>
    Before(seen[k].array, seen[k].index, seen[l].array, seen[l].index)

\* A call goes through the lists it started with, which still hold what they
\* held, and has seen in their order what it has passed.
Walks(f, held) ==
  /\ DOMAIN f.arrays = DOMAIN f.due
  /\ \A i \in DOMAIN f.due : f.arrays[i] \in 0 .. Len(held) /\ f.due[i] = HeldIn(f.arrays[i], held)
  /\ \A k \in DOMAIN f.seen : IsTaken(f, f.seen[k])
  /\ InOrder(f.seen)
  /\ \A i \in DOMAIN f.due : \A j \in DOMAIN f.due[i] : IsReached(f, i, j)
  /\ f.stage = "code" =>
       \A i \in DOMAIN f.due : \A j \in DOMAIN f.due[i] :
         ~Before(f.arrayIndex, f.inArrayIndex, i, j)
  /\ f.stage = "handler" => Passed(f, f.handler)

\* The recorder is due once.
DueOnce(f) ==
  \A i, k \in DOMAIN f.due : \A j \in DOMAIN f.due[i], l \in DOMAIN f.due[k] :
    f.due[i][j] = Recorder /\ f.due[k][l] = Recorder => i = k /\ j = l

\* the k-th frame of n
FrameInv(f, k, n, held, called, given, on) ==
  /\ Walks(f, held) /\ DueOnce(f)
  /\ k < n => f.stage # "next"
  /\ f.id <= called /\ f.root <= f.id
  /\ Listened(f) => k = 1
  /\ Listened(f) <=> given[f.id] # NoArg
  /\ on /\ Subject \in Above(f.node) => DueTo(f, Recorder)

StackInv(s, held, called, given, on) ==
  \A k \in 1 .. Len(s) : FrameInv(s[k], k, Len(s), held, called, given, on)

\* The recorder is attached to its subject only, and once.
RecorderOnce ==
  \A n \in Node : \A i, j \in DOMAIN ListOf(n) :
    ListOf(n)[i] = Recorder => n = Subject /\ (ListOf(n)[j] = Recorder => i = j)

Attachment ==
  /\ RecorderOnce
  /\ listening /\ ~Idle => Recorder \in ToSet(ListOf(Subject))

Numbering ==
  /\ \A i \in 1 .. MaxCalls : i > calls => made[i] = NoArg
  /\ \A e \in flows : e[2] <= calls

\* the recorder has handed the call on
HandedOn(f) == Passed(f, Recorder) /\ ~(f.stage = "handler" /\ f.handler = Recorder)

IdsIn(recorded) == {recorded[i].id : i \in DOMAIN recorded}

\* What the recorder has are calls from outside of any call, in their order; it
\* has those whose code ran, and of the call that runs it knows.
RecordsOf(recorded, done, given, called, s) ==
  /\ IdsIn(recorded) \subseteq {i \in DOMAIN given : given[i] # NoArg}
  /\ done \subseteq IdsIn(recorded)
  /\ \A i, j \in DOMAIN recorded : i < j => recorded[i].id < recorded[j].id
  /\ \A i \in DOMAIN recorded :
       given[recorded[i].id] \in {"json", "date"} =>
         Deserialized(recorded[i].arg) = given[recorded[i].id]
  /\ \A i \in IdsIn(recorded) : i <= called /\ (s # <<>> => i <= s[1].id)
  /\ s # <<>> /\ Listened(s[1]) => (s[1].id \in IdsIn(recorded) <=> HandedOn(s[1]))

RecordsInv == RecordsOf(records, ran, made, calls, stack)

\* The way of the calls through the middlewares, and the recorder.
Sound ==
  /\ TypeOK
  /\ StackInv(stack, lists, calls, made, listening)
  /\ Attachment /\ Numbering /\ RecordsInv

CallsInv == LocksInv /\ Sound

-----------------------------------------------------------------------------
(* Frames and the stack *)

LEMMA PushOne ==
  ASSUME NEW S, NEW s \in Seq(S), NEW e \in S
  PROVE  /\ Append(s, e) \in Seq(S) /\ Len(Append(s, e)) = Len(s) + 1 /\ Len(s) \in Nat
         /\ \A k \in 1 .. Len(s) : Append(s, e)[k] = s[k]
         /\ Append(s, e)[Len(s) + 1] = e
OBVIOUS

LEMMA TakeOne ==
  ASSUME NEW S, NEW s \in Seq(S), s # <<>>
  PROVE  /\ Front(s) \in Seq(S) /\ Len(Front(s)) = Len(s) - 1
         /\ \A k \in 1 .. Len(s) - 1 : Front(s)[k] = s[k]
<1>1. Len(s) \in Nat \ {0}
  OBVIOUS
<1>2. \A k \in 1 .. Len(s) : s[k] \in S
  OBVIOUS
<1> DEFINE n == Len(s) - 1
<1>3. n \in Nat /\ 1 \in Int /\ \A k \in 1 .. n : s[k] \in S
  BY <1>1, <1>2
<1>4. Front(s) = SubSeq(s, 1, n)
  BY DEF Front
<1> HIDE DEF n
<1>5. /\ SubSeq(s, 1, n) \in Seq(S)
      /\ Len(SubSeq(s, 1, n)) = IF 1 <= n THEN n - 1 + 1 ELSE 0
      /\ \A k \in 1 .. n - 1 + 1 : SubSeq(s, 1, n)[k] = s[1 + k - 1]
  BY <1>3, SubSeqProperties
<1>6. /\ Front(s) \in Seq(S) /\ Len(Front(s)) = n
      /\ \A k \in 1 .. n : Front(s)[k] = s[k]
  BY <1>3, <1>4, <1>5
<1> QED BY <1>6 DEF n

LEMMA OnTop ==
  ASSUME TypeOK, ~Idle
  PROVE  /\ Len(stack) \in Nat \ {0} /\ DOMAIN stack = 1 .. Len(stack)
         /\ Top = stack[Len(stack)] /\ Top \in Frame
         /\ \A k \in 1 .. Len(stack) : stack[k] \in Frame
         /\ stack \in Seq(Frame)
<1>1. stack \in Seq(Frame) /\ stack # <<>>
  BY DEF TypeOK, Idle
<1>2. Len(stack) \in Nat \ {0} /\ DOMAIN stack = 1 .. Len(stack)
  BY <1>1
<1>3. Top = stack[Len(stack)]
  BY DEF Top, Last
<1> QED BY <1>1, <1>2, <1>3

\* A node is once on its own way up.
LEMMA UpOnce ==
  ASSUME NEW n \in Node
  PROVE  /\ Up[n] \in Seq(Node) /\ DOMAIN Up[n] = 1 .. Len(Up[n]) /\ Len(Up[n]) \in Nat
         /\ \A i \in DOMAIN Up[n] : Up[n][i] \in Node
         /\ \A i, j \in DOMAIN Up[n] : Up[n][i] = Up[n][j] => i = j
<1>1. /\ Up[n] \in Seq(Node) /\ DOMAIN Up[n] = 1 .. Len(Up[n]) /\ Len(Up[n]) \in Nat
      /\ \A i \in DOMAIN Up[n] : Up[n][i] \in Node
  BY ActionsAssumption
<1>2. ASSUME NEW i \in DOMAIN Up[n], NEW j \in DOMAIN Up[n], Up[n][i] = Up[n][j]
      PROVE  i = j
  <2>1. SubSeq(Up[n], i, Len(Up[n])) = SubSeq(Up[n], j, Len(Up[n]))
    BY <1>2, ActionsAssumption
  <2>2. \A k \in DOMAIN Up[n] : Len(SubSeq(Up[n], k, Len(Up[n]))) = Len(Up[n]) - k + 1
    BY <1>1
  <2>3. Len(Up[n]) - i + 1 = Len(Up[n]) - j + 1
    BY <2>1, <2>2
  <2> QED BY <2>3, <1>1
<1> QED BY <1>1, <1>2

\* Above an ancestor there is the rest of what is above.
LEMMA AboveAncestors ==
  ASSUME NEW n \in Node, NEW a \in Above(n), Subject \in Above(n)
  PROVE  a \in Node /\ Subject \in Above(a)
<1>1. PICK i \in DOMAIN Up[n] : Up[n][i] = a
  BY DEF Above, ToSet
<1>2. PICK k \in DOMAIN Up[n] : Up[n][k] = Subject
  BY DEF Above, ToSet
<1>3. /\ Up[n] \in Seq(Node) /\ DOMAIN Up[n] = 1 .. Len(Up[n]) /\ Len(Up[n]) \in Nat
      /\ \A j \in DOMAIN Up[n] : Up[n][j] \in Node
  BY UpOnce
<1>4. Up[a] = SubSeq(Up[n], i, Len(Up[n])) /\ Up[Subject] = SubSeq(Up[n], k, Len(Up[n]))
  BY <1>1, <1>2, ActionsAssumption
<1>5. k = Len(Up[n])
  <2>1. Len(Up[Subject]) = Len(Up[n]) - k + 1
    BY <1>3, <1>4
  <2>2. Up[Subject] = <<Subject>> /\ Len(<<Subject>>) = 1
    BY ActionsAssumption
  <2> QED BY <2>1, <2>2, <1>3
<1>6. i \in 1 .. k
  BY <1>3, <1>5
<1>7. k - i + 1 \in DOMAIN Up[a] /\ Up[a][k - i + 1] = Subject
  <2>1. Len(Up[a]) = k - i + 1
    BY <1>3, <1>4, <1>5
  <2>2. Up[a] \in Seq(Node)
    BY <1>1, <1>3, ActionsAssumption
  <2>3. k - i + 1 \in 1 .. (k - i + 1) /\ i + (k - i + 1) - 1 = k
    BY <1>3, <1>6
  <2>4. SubSeq(Up[n], i, Len(Up[n]))[k - i + 1] = Up[n][i + (k - i + 1) - 1]
    BY <1>3, <1>5, <1>6, <2>3
  <2>5. Up[a][k - i + 1] = Subject
    BY <2>3, <2>4, <1>2, <1>4
  <2>6. DOMAIN Up[a] = 1 .. (k - i + 1)
    BY <2>1, <2>2
  <2> QED BY <2>3, <2>5, <2>6
<1>8. Subject \in Above(a)
  BY <1>7 DEF Above, ToSet
<1> QED BY <1>1, <1>3, <1>8

LEMMA Pushed1 ==
  ASSUME NEW s \in Seq(Frame), NEW f \in Frame, NEW held, NEW called, NEW given, NEW on,
         StackInv(s, held, called, given, on), s # <<>> => s[Len(s)].stage # "next",
         FrameInv(f, Len(s) + 1, Len(s) + 1, held, called, given, on)
  PROVE  /\ Append(s, f) \in Seq(Frame) /\ StackInv(Append(s, f), held, called, given, on)
         /\ Append(s, f) # <<>> /\ Append(s, f)[1] = IF s = <<>> THEN f ELSE s[1]
<1> DEFINE t == Append(s, f)
<1>1. /\ t \in Seq(Frame) /\ Len(t) = Len(s) + 1 /\ Len(s) \in Nat /\ t # <<>>
      /\ \A k \in 1 .. Len(s) : t[k] = s[k]
      /\ t[Len(s) + 1] = f /\ (s = <<>> <=> Len(s) = 0)
  <2>1. s = <<>> <=> Len(s) = 0
    OBVIOUS
  <2>2. /\ t \in Seq(Frame) /\ Len(t) = Len(s) + 1 /\ Len(s) \in Nat
        /\ \A k \in 1 .. Len(s) : t[k] = s[k]
        /\ t[Len(s) + 1] = f
    BY PushOne
  <2> HIDE DEF t
  <2> QED BY <2>1, <2>2
<1> HIDE DEF t
<1>2. ASSUME NEW k \in 1 .. Len(t)
      PROVE  FrameInv(t[k], k, Len(t), held, called, given, on)
  <2>1. CASE k = Len(s) + 1
    BY <2>1, <1>1
  <2>2. CASE k # Len(s) + 1
    <3>1. k \in 1 .. Len(s) /\ t[k] = s[k]
      BY <2>2, <1>1
    <3>2. FrameInv(s[k], k, Len(s), held, called, given, on)
      BY <3>1 DEF StackInv
    <3>3. s[k].stage # "next"
      BY <3>1, <3>2, <1>1 DEF FrameInv
    <3> QED BY <3>1, <3>2, <3>3 DEF FrameInv
  <2> QED BY <2>1, <2>2
<1>3. t[1] = IF s = <<>> THEN f ELSE s[1]
  BY <1>1
<1> QED BY <1>1, <1>2, <1>3 DEF StackInv, t

LEMMA Popped ==
  ASSUME NEW s \in Seq(Frame), s # <<>>, NEW held, NEW called, NEW given, NEW on,
         StackInv(s, held, called, given, on)
  PROVE  /\ Front(s) \in Seq(Frame) /\ StackInv(Front(s), held, called, given, on)
         /\ Front(s) # <<>> => Front(s)[1] = s[1]
<1> DEFINE t == Front(s)
           n == Len(s)
<1>1. n \in Nat \ {0} /\ s \in Seq(Frame)
  OBVIOUS
<1>3. /\ t \in Seq(Frame) /\ Len(t) = n - 1
      /\ \A k \in 1 .. n - 1 : t[k] = s[k] /\ k \in 1 .. n
  <2>1. /\ t \in Seq(Frame) /\ Len(t) = n - 1
        /\ \A k \in 1 .. n - 1 : t[k] = s[k]
    BY TakeOne
  <2>2. \A k \in 1 .. n - 1 : k \in 1 .. n
    BY <1>1
  <2> QED BY <2>1, <2>2
<1> HIDE DEF t, n
<1>4. ASSUME NEW k \in 1 .. Len(t)
      PROVE  FrameInv(t[k], k, Len(t), held, called, given, on)
  <2>1. FrameInv(s[k], k, n, held, called, given, on) /\ t[k] = s[k] /\ k < n
    BY <1>1, <1>3 DEF StackInv, n
  <2> QED BY <2>1, <1>1, <1>3 DEF FrameInv
<1>5. t # <<>> => t[1] = s[1]
  BY <1>1, <1>3
<1> QED BY <1>3, <1>4, <1>5 DEF StackInv, t

LEMMA Changed ==
  ASSUME NEW s \in Seq(Frame), s # <<>>, NEW f \in Frame,
         NEW held, NEW called, NEW given, NEW on,
         StackInv(s, held, called, given, on), Walks(f, held),
         \A x \in {"id", "root", "type", "node", "due"} : f[x] = s[Len(s)][x]
  PROVE  /\ [s EXCEPT ![Len(s)] = f] \in Seq(Frame)
         /\ StackInv([s EXCEPT ![Len(s)] = f], held, called, given, on)
         /\ [s EXCEPT ![Len(s)] = f] # <<>>
         /\ [s EXCEPT ![Len(s)] = f][1] = IF Len(s) = 1 THEN f ELSE s[1]
<1> DEFINE n == Len(s)
           t == [s EXCEPT ![n] = f]
<1>1. /\ n \in Nat \ {0} /\ t \in Seq(Frame) /\ Len(t) = n
      /\ \A k \in 1 .. n : k # n => t[k] = s[k]
      /\ t[n] = f /\ n \in 1 .. n /\ t # <<>>
  OBVIOUS
<1> HIDE DEF t
<1>2. /\ f.id = s[n].id /\ f.root = s[n].root /\ f.type = s[n].type
      /\ f.node = s[n].node /\ f.due = s[n].due
  OBVIOUS
<1>3. FrameInv(s[n], n, n, held, called, given, on)
  BY <1>1 DEF StackInv
<1>4. FrameInv(f, n, n, held, called, given, on)
  <2>1. DueOnce(f) <=> DueOnce(s[n])
    BY <1>2 DEF DueOnce
  <2>2. (Listened(f) <=> Listened(s[n])) /\ (DueTo(f, Recorder) <=> DueTo(s[n], Recorder))
    BY <1>2 DEF Listened, DueTo
  <2>3. ~(n < n)
    BY <1>1
  <2> HIDE DEF n
  <2> QED BY <2>1, <2>2, <2>3, <1>2, <1>3 DEF FrameInv
<1>5. \A k \in 1 .. Len(t) : FrameInv(t[k], k, Len(t), held, called, given, on)
  BY <1>1, <1>4 DEF StackInv
<1>6. t[1] = IF n = 1 THEN f ELSE s[1]
  BY <1>1
<1> QED BY <1>1, <1>5, <1>6 DEF StackInv, t

-----------------------------------------------------------------------------
(* The way through the middlewares *)

LEMMA FrameParts ==
  ASSUME NEW f \in Frame
  PROVE  /\ f.arrayIndex \in Nat /\ f.inArrayIndex \in Nat
         /\ f.due \in Seq(Seq(Middleware)) /\ f.seen \in Seq(Step)
         /\ DOMAIN f.due \subseteq Nat \ {0} /\ DOMAIN f.seen = 1 .. Len(f.seen)
         /\ \A i \in DOMAIN f.due : /\ f.due[i] \in Seq(Middleware)
                                    /\ DOMAIN f.due[i] \subseteq Nat \ {0}
                                    /\ \A j \in DOMAIN f.due[i] : f.due[i][j] \in Middleware
         /\ \A k \in DOMAIN f.seen : f.seen[k] \in Step
<1>1. /\ f.arrayIndex \in Nat /\ f.inArrayIndex \in Nat
      /\ f.due \in Seq(Seq(Middleware)) /\ f.seen \in Seq(Step)
  BY DEF Frame
<1>2. DOMAIN f.due \subseteq Nat \ {0} /\ \A i \in DOMAIN f.due : f.due[i] \in Seq(Middleware)
  BY <1>1
<1>3. \A i \in DOMAIN f.due : /\ DOMAIN f.due[i] \subseteq Nat \ {0}
                              /\ \A j \in DOMAIN f.due[i] : f.due[i][j] \in Middleware
  BY <1>2
<1>4. DOMAIN f.seen = 1 .. Len(f.seen) /\ \A k \in DOMAIN f.seen : f.seen[k] \in Step
  BY <1>1
<1> QED BY <1>1, <1>2, <1>3, <1>4

\* Lists that are added change nothing for a call that is on its way.
LEMMA WalksOn ==
  ASSUME NEW f \in Frame, NEW held, NEW held2, Walks(f, held), Len(held) \in Nat, Len(held2) \in Nat,
         Len(held) <= Len(held2), \A l \in 1 .. Len(held) : held2[l] = held[l]
  PROVE  Walks(f, held2)
<1>1. \A i \in DOMAIN f.due : f.arrays[i] \in 0 .. Len(held2) /\ f.due[i] = HeldIn(f.arrays[i], held2)
  <2> SUFFICES ASSUME NEW i \in DOMAIN f.due
               PROVE  f.arrays[i] \in 0 .. Len(held2) /\ f.due[i] = HeldIn(f.arrays[i], held2)
    OBVIOUS
  <2>1. f.arrays[i] \in 0 .. Len(held) /\ f.due[i] = HeldIn(f.arrays[i], held)
    BY DEF Walks
  <2> QED BY <2>1 DEF HeldIn
<1> QED BY <1>1 DEF Walks

\* the step s is the next one of f
IsNext(f, s) ==
  /\ s.array \in DOMAIN f.due /\ s.index \in DOMAIN f.due[s.array]
  /\ s.middleware = f.due[s.array][s.index]
  /\ Before(f.arrayIndex, f.inArrayIndex, s.array, s.index)
  /\ \A i \in DOMAIN f.due : \A j \in DOMAIN f.due[i] :
       Before(f.arrayIndex, f.inArrayIndex, i, j) => ~Before(i, j, s.array, s.index)

LEMMA AheadIsDue ==
  ASSUME NEW f \in Frame, Walks(f, lists)
  PROVE  /\ \A s \in Ahead(f) :
              /\ s \in Step /\ s.array \in DOMAIN f.due /\ s.index \in DOMAIN f.due[s.array]
              /\ s.middleware = f.due[s.array][s.index]
              /\ Before(f.arrayIndex, f.inArrayIndex, s.array, s.index)
         /\ \A i \in DOMAIN f.due : \A j \in DOMAIN f.due[i] :
              Before(f.arrayIndex, f.inArrayIndex, i, j) =>
                [array |-> i, index |-> j, middleware |-> f.due[i][j]] \in Ahead(f)
<1>1. DOMAIN f.arrays = DOMAIN f.due /\ \A i \in DOMAIN f.due : f.due[i] = Held(f.arrays[i])
  BY DEF Walks, HeldIn, Held
<1>2. ASSUME NEW s \in Ahead(f)
      PROVE  /\ s \in Step /\ s.array \in DOMAIN f.due /\ s.index \in DOMAIN f.due[s.array]
             /\ s.middleware = f.due[s.array][s.index]
             /\ Before(f.arrayIndex, f.inArrayIndex, s.array, s.index)
  <2>1. PICK i \in DOMAIN f.arrays : \E j \in DOMAIN Held(f.arrays[i]) :
               s = [array |-> i, index |-> j, middleware |-> Held(f.arrays[i])[j]]
    BY DEF Ahead
  <2>2. PICK j \in DOMAIN f.due[i] : s = [array |-> i, index |-> j, middleware |-> f.due[i][j]]
    BY <2>1, <1>1
  <2>3. i \in DOMAIN f.due /\ i \in Nat /\ j \in Nat /\ f.due[i][j] \in Middleware
    BY <1>1, <2>1, FrameParts
  <2>4. Before(f.arrayIndex, f.inArrayIndex, s.array, s.index)
    BY DEF Ahead
  <2> QED BY <2>2, <2>3, <2>4 DEF Step
<1>3. ASSUME NEW i \in DOMAIN f.due, NEW j \in DOMAIN f.due[i],
             Before(f.arrayIndex, f.inArrayIndex, i, j)
      PROVE  [array |-> i, index |-> j, middleware |-> f.due[i][j]] \in Ahead(f)
  <2> DEFINE s == [array |-> i, index |-> j, middleware |-> f.due[i][j]]
  <2>1. i \in DOMAIN f.arrays /\ j \in DOMAIN Held(f.arrays[i]) /\ f.due[i] = Held(f.arrays[i])
    BY <1>1
  <2>2. s = [array |-> i, index |-> j, middleware |-> Held(f.arrays[i])[j]]
    BY <2>1
  <2>3. Before(f.arrayIndex, f.inArrayIndex, s.array, s.index)
    BY <1>3
  <2> HIDE DEF s
  <2> QED BY <2>1, <2>2, <2>3 DEF Ahead, s
<1> QED BY <1>2, <1>3

LEMMA NextIsDue ==
  ASSUME NEW f \in Frame, Walks(f, lists), NEW s \in Ahead(f),
         \A t \in Ahead(f) : ~Before(t.array, t.index, s.array, s.index)
  PROVE  s \in Step /\ IsNext(f, s)
<1>1. ASSUME NEW i \in DOMAIN f.due, NEW j \in DOMAIN f.due[i],
             Before(f.arrayIndex, f.inArrayIndex, i, j)
      PROVE  ~Before(i, j, s.array, s.index)
  <2>1. PICK t \in Ahead(f) : t = [array |-> i, index |-> j, middleware |-> f.due[i][j]]
    BY <1>1, AheadIsDue
  <2> QED BY <2>1
<1> QED BY <1>1, AheadIsDue DEF IsNext

\* g is f after it has read the step s
Reads(f, s, g) ==
  /\ g.due = f.due /\ g.arrays = f.arrays /\ g.type = f.type
  /\ g.arrayIndex = s.array /\ g.inArrayIndex = s.index
  /\ \/ Skips(f.type, s.middleware) /\ g.seen = f.seen /\ g.stage = "next"
     \/ /\ ~Skips(f.type, s.middleware) /\ g.seen = Append(f.seen, s)
        /\ g.stage = "handler" /\ g.handler = s.middleware

\* What has been taken comes before the step that is read next.
LEMMA TakenBefore ==
  ASSUME NEW f \in Frame, NEW s \in Step, IsNext(f, s), NEW t \in Step, IsTaken(f, t)
  PROVE  Before(t.array, t.index, s.array, s.index) /\ ~Before(s.array, s.index, t.array, t.index)
<1>1. f.arrayIndex \in Nat /\ f.inArrayIndex \in Nat
  BY FrameParts
<1>2. s.array \in Nat /\ s.index \in Nat /\ t.array \in Nat /\ t.index \in Nat
  BY DEF Step
<1>3. /\ Before(f.arrayIndex, f.inArrayIndex, s.array, s.index)
      /\ ~Before(f.arrayIndex, f.inArrayIndex, t.array, t.index)
  BY DEF IsNext, IsTaken
<1>4. Before(t.array, t.index, s.array, s.index)
  BY <1>1, <1>2, <1>3 DEF Before
<1>5. ~Before(s.array, s.index, t.array, t.index)
  BY <1>2, <1>4 DEF Before
<1> QED BY <1>4, <1>5

LEMMA ReadKeepsTheWay ==
  ASSUME NEW f \in Frame, NEW held, Walks(f, held), NEW s \in Step, IsNext(f, s),
         NEW g \in Frame, Reads(f, s, g)
  PROVE  Walks(g, held)
<1>1. /\ g.due = f.due /\ g.arrays = f.arrays /\ g.type = f.type
      /\ g.arrayIndex = s.array /\ g.inArrayIndex = s.index
  BY DEF Reads
<1>2. /\ f.arrayIndex \in Nat /\ f.inArrayIndex \in Nat /\ f.seen \in Seq(Step)
      /\ s.array \in Nat /\ s.index \in Nat
      /\ DOMAIN f.seen = 1 .. Len(f.seen) /\ Len(f.seen) \in Nat
      /\ \A k \in DOMAIN f.seen : f.seen[k] \in Step
  <2>1. s.array \in Nat /\ s.index \in Nat
    BY DEF Step
  <2>2. /\ f.arrayIndex \in Nat /\ f.inArrayIndex \in Nat /\ f.seen \in Seq(Step)
        /\ DOMAIN f.seen = 1 .. Len(f.seen) /\ \A k \in DOMAIN f.seen : f.seen[k] \in Step
    BY FrameParts
  <2>3. Len(f.seen) \in Nat
    BY <2>2
  <2> QED BY <2>1, <2>2, <2>3
<1>3. \A k \in DOMAIN f.seen : Before(f.seen[k].array, f.seen[k].index, s.array, s.index)
  BY <1>2, TakenBefore DEF Walks
<1>4. \A t \in Step : IsTaken(f, t) => IsTaken(g, t)
  BY <1>1, TakenBefore DEF IsTaken
<1>5. ~Before(s.array, s.index, s.array, s.index)
  BY <1>2 DEF Before
<1>6. g.seen = f.seen \/ (~Skips(f.type, s.middleware) /\ g.seen = Append(f.seen, s))
  BY DEF Reads
<1>7. Append(f.seen, s) \in Seq(Step) /\ DOMAIN Append(f.seen, s) = 1 .. Len(f.seen) + 1
      /\ (\A k \in 1 .. Len(f.seen) : Append(f.seen, s)[k] = f.seen[k])
      /\ Append(f.seen, s)[Len(f.seen) + 1] = s
  BY <1>2
<1>8. \A k \in DOMAIN g.seen : \/ k \in DOMAIN f.seen /\ g.seen[k] = f.seen[k]
                               \/ k = Len(f.seen) + 1 /\ g.seen[k] = s /\ ~Skips(f.type, s.middleware)
  BY <1>2, <1>6, <1>7
<1>9. \A k \in DOMAIN f.seen : k \in DOMAIN g.seen /\ g.seen[k] = f.seen[k]
  BY <1>2, <1>6, <1>7
<1>10. \A k \in DOMAIN g.seen : IsTaken(g, g.seen[k])
  <2>1. ~Skips(f.type, s.middleware) => IsTaken(g, s)
    BY <1>1, <1>5 DEF IsTaken, IsNext
  <2>2. \A k \in DOMAIN f.seen : IsTaken(f, f.seen[k])
    BY DEF Walks
  <2> QED BY <1>2, <1>4, <1>8, <2>1, <2>2
<1>11. InOrder(g.seen)
  <2> SUFFICES ASSUME NEW k \in DOMAIN g.seen, NEW l \in DOMAIN g.seen, k < l
               PROVE  Before(g.seen[k].array, g.seen[k].index, g.seen[l].array, g.seen[l].index)
    BY DEF InOrder
  <2>1. CASE l \in DOMAIN f.seen /\ g.seen[l] = f.seen[l]
    <3>1. k \in DOMAIN f.seen /\ g.seen[k] = f.seen[k]
      BY <2>1, <1>2, <1>8
    <3> QED BY <2>1, <3>1 DEF Walks, InOrder
  <2>2. CASE l = Len(f.seen) + 1 /\ g.seen[l] = s
    <3>1. k \in DOMAIN f.seen /\ g.seen[k] = f.seen[k]
      BY <2>2, <1>2, <1>8
    <3> QED BY <2>2, <3>1, <1>3
  <2> QED BY <2>1, <2>2, <1>8
<1>12. ASSUME NEW i \in DOMAIN g.due, NEW j \in DOMAIN g.due[i]
       PROVE  IsReached(g, i, j)
  <2>1. i \in DOMAIN f.due /\ j \in DOMAIN f.due[i] /\ i \in Nat /\ j \in Nat
    BY <1>1, FrameParts
  <2>2. IsReached(f, i, j)
    BY <2>1 DEF Walks
  <2>3. CASE Skips(f.type, f.due[i][j])
    BY <2>3, <1>1 DEF IsReached
  <2>4. CASE \E k \in DOMAIN f.seen : f.seen[k] = [array |-> i, index |-> j, middleware |-> f.due[i][j]]
    BY <2>4, <1>1, <1>9 DEF IsReached
  <2>5. CASE Before(f.arrayIndex, f.inArrayIndex, i, j)
    <3>1. ~Before(i, j, s.array, s.index)
      BY <2>1, <2>5 DEF IsNext
    <3>2. CASE Before(s.array, s.index, i, j)
      BY <3>2, <1>1 DEF IsReached
    <3>3. CASE ~Before(s.array, s.index, i, j)
      <4>1. s.array = i /\ s.index = j
        BY <3>1, <3>3, <2>1, <1>2 DEF Before
      <4>2. s.middleware = f.due[i][j]
        BY <4>1 DEF IsNext
      <4>3. s = [array |-> i, index |-> j, middleware |-> f.due[i][j]]
        BY <4>1, <4>2 DEF Step
      <4>4. CASE Skips(f.type, s.middleware)
        BY <4>2, <4>4, <1>1 DEF IsReached
      <4>5. CASE ~Skips(f.type, s.middleware)
        <5>1. g.seen = Append(f.seen, s)
          BY <4>5 DEF Reads
        <5>2. Len(f.seen) + 1 \in DOMAIN g.seen /\ g.seen[Len(f.seen) + 1] = s
          BY <5>1, <1>2, <1>7
        <5> QED BY <5>2, <4>3, <1>1 DEF IsReached
      <4> QED BY <4>4, <4>5
    <3> QED BY <3>2, <3>3
  <2> QED BY <2>2, <2>3, <2>4, <2>5 DEF IsReached
<1>13. g.stage # "code"
  BY DEF Reads
<1>14. g.stage = "handler" => Passed(g, g.handler)
  <2>1. SUFFICES ASSUME g.stage = "handler"
                 PROVE  Passed(g, g.handler)
    OBVIOUS
  <2>2. g.seen = Append(f.seen, s) /\ g.handler = s.middleware
    BY <2>1 DEF Reads
  <2>3. Len(f.seen) + 1 \in DOMAIN g.seen /\ g.seen[Len(f.seen) + 1] = s
    BY <2>2, <1>2, <1>7
  <2> QED BY <2>2, <2>3 DEF Passed
<1> QED BY <1>1, <1>10, <1>11, <1>12, <1>13, <1>14 DEF Walks

\* At the end everything has been reached.
LEMMA CodeIsReached ==
  ASSUME NEW f \in Frame, Walks(f, lists), Ahead(f) = {},
         NEW g \in Frame, g.stage = "code",
         \A x \in {"due", "arrays", "type", "seen", "arrayIndex", "inArrayIndex"} : g[x] = f[x]
  PROVE  Walks(g, lists)
<1>1. /\ g.due = f.due /\ g.arrays = f.arrays /\ g.type = f.type /\ g.seen = f.seen
      /\ g.arrayIndex = f.arrayIndex /\ g.inArrayIndex = f.inArrayIndex
  OBVIOUS
<1>2. \A i \in DOMAIN f.due : \A j \in DOMAIN f.due[i] : ~Before(f.arrayIndex, f.inArrayIndex, i, j)
  BY AheadIsDue
<1> QED BY <1>1, <1>2 DEF Walks, IsTaken, IsReached

LEMMA HandingOnKeepsTheWay ==
  ASSUME NEW f \in Frame, NEW held, Walks(f, held), NEW g \in Frame, g.stage = "next",
         \A x \in {"due", "arrays", "type", "seen", "arrayIndex", "inArrayIndex"} : g[x] = f[x]
  PROVE  Walks(g, held)
<1>1. /\ g.due = f.due /\ g.arrays = f.arrays /\ g.type = f.type /\ g.seen = f.seen
      /\ g.arrayIndex = f.arrayIndex /\ g.inArrayIndex = f.inArrayIndex
  OBVIOUS
<1> QED BY <1>1 DEF Walks, IsTaken, IsReached

\* A call that ran through its middlewares was handed to all that were due.
LEMMA PassedWhatIsDue ==
  ASSUME NEW f \in Frame, NEW held, Walks(f, held), f.stage = "code", DueTo(f, Recorder)
  PROVE  Passed(f, Recorder)
<1>1. PICK i \in DOMAIN f.due : \E j \in DOMAIN f.due[i] : f.due[i][j] = Recorder
  BY DEF DueTo, ToSet
<1>2. PICK j \in DOMAIN f.due[i] : f.due[i][j] = Recorder
  BY <1>1
<1>3. ~Skips(f.type, Recorder)
  BY ActionsAssumption DEF Skips
<1>4. \E k \in DOMAIN f.seen : f.seen[k] = [array |-> i, index |-> j, middleware |-> Recorder]
  BY <1>2, <1>3 DEF Walks, IsReached
<1> QED BY <1>4 DEF Passed

\* Lists that are added, calls that are made and a recorder that stops
\* listening leave what is said of the stack as it is.
LEMMA Onwards ==
  ASSUME NEW s \in Seq(Frame), NEW held, NEW held2, NEW called \in Nat, NEW called2 \in Nat,
         NEW given, NEW on, NEW on2, StackInv(s, held, called, given, on),
         Len(held) \in Nat, Len(held2) \in Nat, Len(held) <= Len(held2),
         \A l \in 1 .. Len(held) : held2[l] = held[l],
         called <= called2, on2 => on
  PROVE  StackInv(s, held2, called2, given, on2)
<1> SUFFICES ASSUME NEW k \in 1 .. Len(s)
             PROVE  FrameInv(s[k], k, Len(s), held2, called2, given, on2)
  BY DEF StackInv
<1>1. s[k] \in Frame
  OBVIOUS
<1>2. FrameInv(s[k], k, Len(s), held, called, given, on)
  BY DEF StackInv
<1>3. Walks(s[k], held2)
  BY <1>1, <1>2, WalksOn DEF FrameInv
<1>4. s[k].id \in Nat
  <2>1. s[k].id \in 1 .. MaxCalls
    BY <1>1 DEF Frame
  <2> QED BY <2>1
<1>5. s[k].id <= called2
  BY <1>2, <1>4 DEF FrameInv
<1> QED BY <1>2, <1>3, <1>5 DEF FrameInv

-----------------------------------------------------------------------------
(* A call begins *)

NewFrame(id, root, type, n) ==
  [id |-> id, root |-> root, type |-> type, node |-> n, baseIsRunning |-> n \in running,
   previous |-> context, arrays |-> Collected(n), arrayIndex |-> 0, inArrayIndex |-> 0,
   due |-> Due(n), seen |-> <<>>, stage |-> "next", handler |-> Recorder]

LEMMA ListTyped ==
  ASSUME TypeOK, NEW n \in Node
  PROVE  /\ middlewares[n] \in 0 .. Len(lists) /\ Len(lists) \in Nat
         /\ ListOf(n) = HeldIn(middlewares[n], lists) /\ ListOf(n) \in Seq(Middleware)
         /\ DOMAIN ListOf(n) = 1 .. Len(ListOf(n)) /\ Len(ListOf(n)) \in Nat
<1>1. lists \in Seq(Seq(Middleware)) /\ middlewares[n] \in 0 .. Len(lists)
  BY DEF TypeOK
<1>2. Len(lists) \in Nat /\ \A l \in 1 .. Len(lists) : lists[l] \in Seq(Middleware)
  BY <1>1
<1>3. ListOf(n) = HeldIn(middlewares[n], lists)
  BY DEF ListOf, Held, HeldIn
<1>4. ListOf(n) \in Seq(Middleware)
  <2>1. CASE middlewares[n] = 0
    BY <2>1, <1>3 DEF HeldIn
  <2>2. CASE middlewares[n] # 0
    <3>1. middlewares[n] \in 1 .. Len(lists)
      BY <2>2, <1>1, <1>2
    <3> QED BY <2>2, <3>1, <1>2, <1>3 DEF HeldIn
  <2> QED BY <2>1, <2>2
<1>5. DOMAIN ListOf(n) = 1 .. Len(ListOf(n)) /\ Len(ListOf(n)) \in Nat
  BY <1>4
<1> QED BY <1>1, <1>2, <1>3, <1>4, <1>5

LEMMA IsSequence ==
  ASSUME NEW S, NEW m \in Nat, NEW s \in [1 .. m -> S]
  PROVE  s \in Seq(S)
OBVIOUS

LEMMA Collecting ==
  ASSUME TypeOK, NEW n \in Node
  PROVE  /\ DOMAIN Collected(n) = DOMAIN Up[n] /\ DOMAIN Due(n) = DOMAIN Up[n]
         /\ Collected(n) \in Seq(0 .. MaxLists) /\ Due(n) \in Seq(Seq(Middleware))
         /\ \A i \in DOMAIN Up[n] : /\ Up[n][i] \in Node
                                    /\ Collected(n)[i] \in 0 .. Len(lists)
                                    /\ Due(n)[i] = HeldIn(Collected(n)[i], lists)
                                    /\ Due(n)[i] = ListOf(Up[n][i])
<1>1. /\ DOMAIN Up[n] = 1 .. Len(Up[n]) /\ Len(Up[n]) \in Nat
      /\ \A i \in DOMAIN Up[n] : Up[n][i] \in Node
  BY UpOnce
<1>2. DOMAIN Collected(n) = DOMAIN Up[n] /\ DOMAIN Due(n) = DOMAIN Up[n]
  BY DEF Collected, Due
<1>3. \A i \in DOMAIN Up[n] : Collected(n)[i] = middlewares[Up[n][i]] /\ Due(n)[i] = ListOf(Up[n][i])
  BY DEF Collected, Due
<1>4. \A i \in DOMAIN Up[n] : /\ Collected(n)[i] \in 0 .. Len(lists)
                              /\ Due(n)[i] = HeldIn(Collected(n)[i], lists)
                              /\ Due(n)[i] \in Seq(Middleware)
  BY <1>1, <1>3, ListTyped
<1>5. Len(lists) \in Nat /\ Len(lists) <= MaxLists /\ MaxLists \in Nat
  BY ActionsAssumption DEF TypeOK
<1>6. \A i \in DOMAIN Up[n] : Collected(n)[i] \in 0 .. MaxLists
  BY <1>4, <1>5
<1>7. Collected(n) \in [1 .. Len(Up[n]) -> 0 .. MaxLists]
  <2>1. Collected(n) = [i \in 1 .. Len(Up[n]) |-> middlewares[Up[n][i]]]
    BY <1>1 DEF Collected
  <2> QED BY <2>1, <1>1, <1>3, <1>6
<1>8. Due(n) \in [1 .. Len(Up[n]) -> Seq(Middleware)]
  <2>1. Due(n) = [i \in 1 .. Len(Up[n]) |-> ListOf(Up[n][i])]
    BY <1>1 DEF Due
  <2> QED BY <2>1, <1>1, <1>3, <1>4
<1>9. Collected(n) \in Seq(0 .. MaxLists) /\ Due(n) \in Seq(Seq(Middleware))
  <2>1. PICK m \in Nat : m = Len(Up[n])
    BY <1>1
  <2>2. Collected(n) \in [1 .. m -> 0 .. MaxLists] /\ Due(n) \in [1 .. m -> Seq(Middleware)]
    BY <2>1, <1>7, <1>8
  <2>3. Collected(n) \in Seq(0 .. MaxLists)
    BY <2>2, IsSequence
  <2>4. Due(n) \in Seq(Seq(Middleware))
    BY <2>2, IsSequence
  <2> QED BY <2>3, <2>4
<1> QED BY <1>1, <1>2, <1>3, <1>4, <1>9

\* A call that begins has the whole way before it.
LEMMA Begun ==
  ASSUME TypeOK, RecorderOnce, NEW n \in Node, NEW id \in 1 .. MaxCalls, NEW root \in 1 .. MaxCalls,
         NEW type \in {"action", "hook", "flow_resume", "extendInstance"}
  PROVE  /\ NewFrame(id, root, type, n) \in Frame
         /\ Walks(NewFrame(id, root, type, n), lists)
         /\ DueOnce(NewFrame(id, root, type, n))
         /\ ~Passed(NewFrame(id, root, type, n), Recorder)
         /\ Subject \in Above(n) /\ Recorder \in ToSet(ListOf(Subject))
              => DueTo(NewFrame(id, root, type, n), Recorder)
<1> DEFINE f == NewFrame(id, root, type, n)
<1>1. /\ f.id = id /\ f.root = root /\ f.type = type /\ f.node = n
      /\ f.arrays = Collected(n) /\ f.arrayIndex = 0 /\ f.inArrayIndex = 0
      /\ f.due = Due(n) /\ f.seen = <<>> /\ f.stage = "next"
  BY DEF NewFrame
<1>2. /\ DOMAIN Collected(n) = DOMAIN Up[n] /\ DOMAIN Due(n) = DOMAIN Up[n]
      /\ Collected(n) \in Seq(0 .. MaxLists) /\ Due(n) \in Seq(Seq(Middleware))
      /\ \A i \in DOMAIN Up[n] : /\ Up[n][i] \in Node
                                 /\ Collected(n)[i] \in 0 .. Len(lists)
                                 /\ Due(n)[i] = HeldIn(Collected(n)[i], lists)
                                 /\ Due(n)[i] = ListOf(Up[n][i])
  BY Collecting
<1>3. /\ DOMAIN Up[n] = 1 .. Len(Up[n]) /\ Len(Up[n]) \in Nat
      /\ \A i, j \in DOMAIN Up[n] : Up[n][i] = Up[n][j] => i = j
  BY UpOnce
<1>4. f \in Frame
  <2>1. context \in Context /\ Recorder \in Middleware
    BY ActionsAssumption DEF TypeOK
  <2>2. <<>> \in Seq(Step) /\ (n \in running) \in BOOLEAN
    OBVIOUS
  <2> QED BY <1>2, <2>1, <2>2 DEF Frame, NewFrame
<1> HIDE DEF f
<1>5. DOMAIN f.seen = {}
  BY <1>1
<1>6. Walks(f, lists)
  <2>1. \A i \in DOMAIN f.due : \A j \in DOMAIN f.due[i] : IsReached(f, i, j)
    <3>1. \A i \in DOMAIN f.due : i \in Nat /\ 0 < i
      BY <1>1, <1>2, <1>3
    <3> QED BY <1>1, <3>1 DEF IsReached, Before
  <2>2. DOMAIN f.arrays = DOMAIN f.due
    BY <1>1, <1>2
  <2>3. \A i \in DOMAIN f.due : f.arrays[i] \in 0 .. Len(lists) /\ f.due[i] = HeldIn(f.arrays[i], lists)
    BY <1>1, <1>2
  <2> QED BY <1>1, <1>5, <2>1, <2>2, <2>3 DEF Walks, InOrder
<1>7. DueOnce(f)
  <2> SUFFICES ASSUME NEW i \in DOMAIN f.due, NEW k \in DOMAIN f.due,
                      NEW j \in DOMAIN f.due[i], NEW l \in DOMAIN f.due[k],
                      f.due[i][j] = Recorder, f.due[k][l] = Recorder
               PROVE  i = k /\ j = l
    BY DEF DueOnce
  <2>1. /\ i \in DOMAIN Up[n] /\ k \in DOMAIN Up[n]
        /\ f.due[i] = ListOf(Up[n][i]) /\ f.due[k] = ListOf(Up[n][k])
        /\ Up[n][i] \in Node /\ Up[n][k] \in Node
    BY <1>1, <1>2
  <2>2. Up[n][i] = Subject /\ Up[n][k] = Subject
    BY <2>1 DEF RecorderOnce
  <2>3. i = k
    BY <2>1, <2>2, <1>3
  <2>4. j = l
    BY <2>1, <2>3 DEF RecorderOnce
  <2> QED BY <2>3, <2>4
<1>8. ~Passed(f, Recorder)
  BY <1>5 DEF Passed
<1>9. Subject \in Above(n) /\ Recorder \in ToSet(ListOf(Subject)) => DueTo(f, Recorder)
  <2> SUFFICES ASSUME Subject \in Above(n), Recorder \in ToSet(ListOf(Subject))
               PROVE  DueTo(f, Recorder)
    OBVIOUS
  <2>1. PICK i \in DOMAIN Up[n] : Up[n][i] = Subject
    BY DEF Above, ToSet
  <2>2. i \in DOMAIN f.due /\ f.due[i] = ListOf(Subject)
    BY <2>1, <1>1, <1>2
  <2> QED BY <2>2 DEF DueTo
<1> QED BY <1>4, <1>6, <1>7, <1>8, <1>9 DEF f

\* What is recorded stays true of the calls that follow.
LEMMA RecordsKept ==
  ASSUME NEW recorded, NEW done, NEW done2, NEW given, NEW given2,
         NEW called \in Nat, NEW called2 \in Nat, NEW s, NEW s2,
         RecordsOf(recorded, done, given, called, s),
         \A i \in IdsIn(recorded) : i \in Nat,
         done2 \subseteq IdsIn(recorded), called <= called2,
         DOMAIN given2 = DOMAIN given,
         \A i \in DOMAIN given : i <= called => given2[i] = given[i],
         \/ s2 = <<>>
         \/ /\ s2 # <<>> /\ s # <<>>
            /\ s2[1].id = s[1].id /\ (Listened(s2[1]) <=> Listened(s[1]))
            /\ Listened(s[1]) => (HandedOn(s2[1]) <=> HandedOn(s[1]))
         \/ s2 # <<>> /\ s2[1].id = called + 1 /\ ~HandedOn(s2[1])
  PROVE  RecordsOf(recorded, done2, given2, called2, s2)
<1>1. \A i \in IdsIn(recorded) : i \in Nat /\ i <= called /\ i \in DOMAIN given
  BY DEF RecordsOf
<1>2. \A i \in IdsIn(recorded) : given2[i] = given[i] /\ i <= called2 /\ given[i] # NoArg
  BY <1>1 DEF RecordsOf
<1>3. \A i \in DOMAIN recorded : recorded[i].id \in IdsIn(recorded)
  BY DEF IdsIn
<1>4. IdsIn(recorded) \subseteq {i \in DOMAIN given2 : given2[i] # NoArg}
  BY <1>1, <1>2
<1>5. \A i \in DOMAIN recorded :
        given2[recorded[i].id] \in {"json", "date"} =>
          Deserialized(recorded[i].arg) = given2[recorded[i].id]
  BY <1>2, <1>3 DEF RecordsOf
<1>6. \A i \in IdsIn(recorded) : s2 # <<>> => i <= s2[1].id
  BY <1>1 DEF RecordsOf
<1>7. s2 # <<>> /\ Listened(s2[1]) => (s2[1].id \in IdsIn(recorded) <=> HandedOn(s2[1]))
  <2>1. ~(called + 1 \in IdsIn(recorded))
    BY <1>1
  <2> QED BY <2>1 DEF RecordsOf
<1>8. \A i, j \in DOMAIN recorded : i < j => recorded[i].id < recorded[j].id
  BY DEF RecordsOf
<1> QED BY <1>2, <1>4, <1>5, <1>6, <1>7, <1>8 DEF RecordsOf

LEMMA IdsTyped ==
  ASSUME TypeOK
  PROVE  /\ \A i \in IdsIn(records) : i \in 1 .. MaxCalls /\ i \in Nat
         /\ DOMAIN made = 1 .. MaxCalls /\ calls \in Nat /\ MaxCalls \in Nat
         /\ records \in Seq(Record) /\ outermost = {i \in DOMAIN made : made[i] # NoArg}
<1>1. records \in Seq(Record) /\ DOMAIN made = 1 .. MaxCalls /\ calls \in 0 .. MaxCalls
  BY DEF TypeOK
<1>2. \A i \in DOMAIN records : records[i] \in Record
  BY <1>1
<1>3. \A i \in DOMAIN records : records[i].id \in 1 .. MaxCalls
  BY <1>2 DEF Record
<1>4. MaxCalls \in Nat
  BY ActionsAssumption
<1>5. \A i \in IdsIn(records) : i \in 1 .. MaxCalls
  BY <1>3 DEF IdsIn
<1>6. calls \in Nat /\ \A i \in 1 .. MaxCalls : i \in Nat
  BY <1>1, <1>4
<1> QED BY <1>1, <1>4, <1>5, <1>6 DEF outermost

LEMMA Entering ==
  ASSUME CallsInv, InUserCode, NEW n \in Node,
         NEW id \in 1 .. MaxCalls, NEW root \in 1 .. MaxCalls,
         NEW type \in {"action", "hook", "flow_resume", "extendInstance"}, Enter(id, root, type, n),
         id = calls + 1, calls' = id, root <= id, UNCHANGED <<middlewares, lists>>,
         type \notin {"flow_resume", "extendInstance"} /\ id = root => Idle,
         (type \notin {"flow_resume", "extendInstance"} /\ id = root) <=> made'[id] # NoArg,
         Idle \/ made' = made
  PROVE  /\ StackInv(stack', lists', calls', made', listening') /\ Attachment'
         /\ stack' \in Seq(Frame) /\ stack' # <<>> /\ listening' \in BOOLEAN
         /\ Idle => stack'[1] = NewFrame(id, root, type, n)
         /\ ~Idle => stack'[1] = stack[1]
<1> DEFINE f == NewFrame(id, root, type, n)
<1>1. /\ TypeOK /\ Attachment /\ RecorderOnce
      /\ StackInv(stack, lists, calls, made, listening)
  BY DEF CallsInv, Sound, Attachment
<1>2. /\ stack' = Append(stack, f)
      /\ listening' = IF Idle THEN Attached(Recorder) ELSE listening
  BY DEF Enter, NewFrame
<1>3. /\ f \in Frame /\ Walks(f, lists) /\ DueOnce(f)
      /\ Subject \in Above(n) /\ Recorder \in ToSet(ListOf(Subject)) => DueTo(f, Recorder)
  BY <1>1, Begun
<1>4. f.id = id /\ f.root = root /\ f.type = type /\ f.node = n
  BY DEF NewFrame
<1> HIDE DEF f
<1>5. listening' => Recorder \in ToSet(ListOf(Subject))
  <2>1. CASE ~Idle
    BY <2>1, <1>1, <1>2 DEF Attachment
  <2>2. CASE Idle /\ Attached(Recorder)
    <3>1. PICK m \in Node : \E i \in DOMAIN ListOf(m) : ListOf(m)[i] = Recorder
      BY <2>2 DEF Attached, ToSet
    <3>2. m = Subject
      BY <3>1, <1>1 DEF RecorderOnce
    <3> QED BY <3>1, <3>2 DEF ToSet
  <2> QED BY <2>1, <2>2, <1>2
<1>6. stack \in Seq(Frame) /\ Len(stack) \in Nat /\ (Idle <=> Len(stack) = 0) /\ (Idle <=> stack = <<>>)
  BY <1>1 DEF TypeOK, Idle
<1>7. calls \in Nat /\ Len(lists) \in Nat /\ id \in Nat /\ listening \in BOOLEAN
  BY <1>1, ActionsAssumption DEF TypeOK
<1>8. FrameInv(f, Len(stack) + 1, Len(stack) + 1, lists, id, made', listening')
  <2>1. Listened(f) => Len(stack) + 1 = 1
    BY <1>4, <1>6 DEF Listened
  <2>2. Listened(f) <=> made'[f.id] # NoArg
    BY <1>4 DEF Listened
  <2>3. listening' /\ Subject \in Above(f.node) => DueTo(f, Recorder)
    BY <1>3, <1>4, <1>5
  <2>4. ~(Len(stack) + 1 < Len(stack) + 1) /\ f.id <= id /\ f.root <= f.id
    BY <1>4, <1>6, <1>7
  <2> QED BY <2>1, <2>2, <2>3, <2>4, <1>3 DEF FrameInv
<1>9. StackInv(stack, lists, id, made', listening')
  <2>1. CASE Idle
    <3>1. 1 .. Len(stack) = {}
      BY <2>1, <1>6
    <3> QED BY <3>1 DEF StackInv
  <2>2. CASE ~Idle
    <3>1. made' = made /\ listening' = listening
      BY <2>2, <1>2
    <3>2. calls <= id
      BY <1>7
    <3>3. Len(lists) <= Len(lists) /\ \A l \in 1 .. Len(lists) : lists[l] = lists[l]
      BY <1>7
    <3>4. StackInv(stack, lists, calls, made, listening) /\ stack \in Seq(Frame)
      BY <1>1, <1>6
    <3>5. calls \in Nat /\ id \in Nat /\ Len(lists) \in Nat
      BY <1>7
    <3>6. StackInv(stack, lists, id, made, listening)
      BY ONLY <3>2, <3>3, <3>4, <3>5, Onwards
    <3> QED BY <3>1, <3>6
  <2> QED BY <2>1, <2>2
<1>10. stack # <<>> => stack[Len(stack)].stage # "next"
  <2> SUFFICES ASSUME ~Idle
               PROVE  stack[Len(stack)].stage # "next"
    BY <1>6
  <2>1. Top = stack[Len(stack)]
    BY <1>1, OnTop
  <2> QED BY <2>1 DEF InUserCode
<1>11. /\ Append(stack, f) \in Seq(Frame)
       /\ StackInv(Append(stack, f), lists, id, made', listening')
       /\ Append(stack, f) # <<>> /\ Append(stack, f)[1] = IF stack = <<>> THEN f ELSE stack[1]
  BY <1>3, <1>6, <1>8, <1>9, <1>10, Pushed1
<1>12. RecorderOnce'
  <2>1. \A m : ListOf(m)' = ListOf(m)
    BY DEF ListOf, Held
  <2> QED BY <2>1, <1>1 DEF RecorderOnce
<1>13. ListOf(Subject)' = ListOf(Subject)
  BY DEF ListOf, Held
<1>14. Attachment'
  BY <1>5, <1>12, <1>13 DEF Attachment
<1>15. listening' \in BOOLEAN
  BY <1>2, <1>7 DEF Attached
<1> QED BY <1>2, <1>6, <1>11, <1>14, <1>15 DEF f

LEMMA EnteringKeeps ==
  ASSUME CallsInv, InUserCode, NEW n \in Node,
         NEW id \in 1 .. MaxCalls, NEW root \in 1 .. MaxCalls,
         NEW type \in {"action", "hook", "flow_resume", "extendInstance"}, Enter(id, root, type, n),
         id = calls + 1, calls' = id, root <= id, UNCHANGED <<middlewares, lists>>,
         type \notin {"flow_resume", "extendInstance"} /\ id = root => Idle,
         (type \notin {"flow_resume", "extendInstance"} /\ id = root) <=> made'[id] # NoArg,
         Idle \/ made' = made, made' \in [1 .. MaxCalls -> Arg \cup {NoArg}],
         \A i \in 1 .. MaxCalls : i # id => made'[i] = made[i],
         UNCHANGED <<records, ran>>, flows' \subseteq flows
  PROVE  Sound'
<1>1. TypeOK /\ RecorderOnce /\ Numbering /\ RecordsInv
  BY DEF CallsInv, Sound, Attachment
<1>2. /\ StackInv(stack', lists', calls', made', listening') /\ Attachment'
      /\ stack' \in Seq(Frame) /\ stack' # <<>> /\ listening' \in BOOLEAN
      /\ Idle => stack'[1] = NewFrame(id, root, type, n)
      /\ ~Idle => stack'[1] = stack[1]
  BY Entering
<1>3. /\ \A i \in IdsIn(records) : i \in Nat
      /\ DOMAIN made = 1 .. MaxCalls /\ calls \in Nat /\ MaxCalls \in Nat
      /\ outermost = {i \in DOMAIN made : made[i] # NoArg}
  BY <1>1, IdsTyped
<1>4. DOMAIN made' = DOMAIN made /\ \A i \in DOMAIN made : i <= calls => made'[i] = made[i]
  <2>1. DOMAIN made' = 1 .. MaxCalls
    OBVIOUS
  <2>2. \A i \in 1 .. MaxCalls : i <= calls => i # id
    BY <1>3
  <2> QED BY <2>1, <2>2, <1>3
<1>5. \/ /\ stack' # <<>> /\ stack # <<>>
         /\ stack'[1].id = stack[1].id /\ (Listened(stack'[1]) <=> Listened(stack[1]))
         /\ Listened(stack[1]) => (HandedOn(stack'[1]) <=> HandedOn(stack[1]))
      \/ stack' # <<>> /\ stack'[1].id = calls + 1 /\ ~HandedOn(stack'[1])
  <2>1. CASE ~Idle
    <3>1. stack'[1] = stack[1] /\ stack # <<>>
      BY <2>1, <1>2 DEF Idle
    <3> QED BY <3>1, <1>2
  <2>2. CASE Idle
    <3>1. ~Passed(NewFrame(id, root, type, n), Recorder)
      BY <1>1, Begun
    <3>2. NewFrame(id, root, type, n).id = id
      BY DEF NewFrame
    <3> QED BY <2>2, <3>1, <3>2, <1>2 DEF HandedOn
  <2> QED BY <2>1, <2>2
<1>6. RecordsOf(records, ran, made', calls', stack')
  <2>1. RecordsOf(records, ran, made, calls, stack) /\ ran \subseteq IdsIn(records)
    BY <1>1 DEF RecordsInv, RecordsOf
  <2>2. calls' \in Nat /\ calls <= calls'
    BY <1>3
  <2> QED BY <1>3, <1>4, <1>5, <2>1, <2>2, RecordsKept
<1>7. RecordsInv'
  BY <1>6 DEF RecordsInv
<1>8. Numbering'
  <2>1. ASSUME NEW i \in 1 .. MaxCalls, i > calls'
        PROVE  made'[i] = NoArg
    <3>1. i > calls /\ i # id
      BY <2>1, <1>3
    <3> QED BY <3>1, <1>1 DEF Numbering
  <2>2. ASSUME NEW e \in flows'
        PROVE  e[2] <= calls'
    <3>1. e \in Node \X (1 .. MaxCalls) /\ e[2] <= calls
      BY <2>2, <1>1 DEF TypeOK, Numbering
    <3>2. e[2] \in 1 .. MaxCalls
      BY <3>1
    <3> QED BY <3>1, <3>2, <1>3
  <2> QED BY <2>1, <2>2 DEF Numbering
<1>9. TypeOK'
  <2>1. running' \subseteq Node /\ context' \in Context
    BY <1>1 DEF Enter, TypeOK, Context
  <2>2. calls' \in 0 .. MaxCalls
    BY <1>3
  <2>3. ran' \subseteq outermost'
    <3>1. ran \subseteq IdsIn(records) /\ IdsIn(records) \subseteq {i \in DOMAIN made' : made'[i] # NoArg}
      BY <1>6 DEF RecordsOf
    <3> QED BY <3>1 DEF outermost
  <2>4. /\ middlewares' \in [Node -> 0 .. Len(lists')]
        /\ lists' \in Seq(Seq(Middleware)) /\ Len(lists') <= MaxLists
        /\ flows' \subseteq Node \X (1 .. MaxCalls) /\ records' \in Seq(Record)
    BY <1>1 DEF TypeOK
  <2> QED BY <2>1, <2>2, <2>3, <2>4, <1>2 DEF TypeOK
<1> QED BY <1>2, <1>7, <1>8, <1>9 DEF Sound

LEMMA ContextOfTop ==
  ASSUME LocksInv
  PROVE  /\ Idle => context = NoContext
         /\ ~Idle => context = [id |-> Top.id, root |-> Top.root]
BY Implied DEF UnlockedWhileRunning

LEMMA CallKeeps ==
  ASSUME CallsInv, NEW n \in Node, NEW type \in {"action", "hook", "extendInstance"}, NEW arg \in Arg,
         Call(n, type, arg)
  PROVE  Sound'
<1>1. TypeOK /\ LocksInv /\ Numbering /\ StackInv(stack, lists, calls, made, listening)
  BY DEF CallsInv, Sound
<1>2. DOMAIN made = 1 .. MaxCalls /\ calls \in Nat /\ MaxCalls \in Nat
  BY <1>1, IdsTyped
<1>3. InUserCode /\ calls < MaxCalls /\ UNCHANGED <<middlewares, lists, flows, records, ran>>
  BY DEF Call
<1>4. PICK id \in 1 .. MaxCalls : id = calls + 1
  BY <1>2, <1>3
<1>5. CASE Idle
  <2>1. Enter(id, id, type, n)
    BY <1>1, <1>4, <1>5, ContextOfTop DEF Call
  <2>2. /\ made' = IF type # "extendInstance" THEN [made EXCEPT ![id] = arg] ELSE made
        /\ calls' = id
    BY <1>4, <1>5 DEF Call
  <2>3. arg # NoArg
    BY ActionsAssumption
  <2>4. \A i \in 1 .. MaxCalls : i # id => made'[i] = made[i]
    BY <2>2, <1>2
  <2>5. made' \in [1 .. MaxCalls -> Arg \cup {NoArg}]
    BY <2>2, <1>1 DEF TypeOK
  <2>6. id <= id /\ type \in {"action", "hook", "flow_resume", "extendInstance"}
    BY <1>2
  <2>7. type \notin {"flow_resume", "extendInstance"} <=> made'[id] # NoArg
    <3>1. CASE type = "extendInstance"
      <4>1. made'[id] = NoArg
        BY <3>1, <2>2, <1>1, <1>2, <1>4 DEF Numbering
      <4> QED BY <3>1, <4>1
    <3>2. CASE type # "extendInstance"
      BY <3>2, <2>2, <2>3, <1>2
    <3> QED BY <3>1, <3>2
  <2> QED BY <1>3, <1>4, <1>5, <2>1, <2>2, <2>4, <2>5, <2>6, <2>7, EnteringKeeps
<1>6. CASE ~Idle
  <2>1. /\ Top = stack[Len(stack)] /\ Top \in Frame /\ Len(stack) \in 1 .. Len(stack)
    BY <1>1, <1>6, OnTop
  <2>2. Top.id \in 1 .. MaxCalls /\ Top.root \in 1 .. MaxCalls
    BY <2>1 DEF Frame
  <2>3. Top.root <= Top.id /\ Top.id <= calls
    BY <2>1, <1>1 DEF StackInv, FrameInv
  <2>4. context = [id |-> Top.id, root |-> Top.root] /\ context # NoContext
    <3>1. context = [id |-> Top.id, root |-> Top.root]
      BY <1>1, <1>6, ContextOfTop
    <3>2. Top.id # 0
      BY <2>2
    <3>3. context.id = Top.id /\ NoContext.id = 0
      BY <3>1 DEF NoContext
    <3> QED BY <3>1, <3>2, <3>3
  <2>5. PICK root \in 1 .. MaxCalls : root = Top.root
    BY <2>2
  <2>6. Enter(id, root, type, n)
    BY <2>4, <2>5, <1>4 DEF Call
  <2>7. made' = made /\ calls' = id
    BY <1>4, <1>6 DEF Call
  <2>8. root <= id /\ id # root /\ id > calls
    BY <2>2, <2>3, <2>5, <1>2, <1>4
  <2>9. made'[id] = NoArg
    BY <2>7, <2>8, <1>1 DEF Numbering
  <2>10. made' \in [1 .. MaxCalls -> Arg \cup {NoArg}]
    BY <2>7, <1>1 DEF TypeOK
  <2>11. type \in {"action", "hook", "flow_resume", "extendInstance"}
    OBVIOUS
  <2> QED BY <1>3, <1>4, <2>6, <2>7, <2>8, <2>9, <2>10, <2>11, EnteringKeeps
<1> QED BY <1>5, <1>6

LEMMA ResumeKeeps ==
  ASSUME CallsInv, NEW n \in Node, NEW root, Resume(n, root)
  PROVE  Sound'
<1>1. TypeOK /\ Numbering
  BY DEF CallsInv, Sound
<1>2. DOMAIN made = 1 .. MaxCalls /\ calls \in Nat /\ MaxCalls \in Nat
  BY <1>1, IdsTyped
<1>3. /\ InUserCode /\ Idle /\ calls < MaxCalls /\ <<n, root>> \in flows
      /\ UNCHANGED <<middlewares, lists, records, made, ran>> /\ flows' \subseteq flows
  BY DEF Resume, InUserCode
<1>4. PICK id \in 1 .. MaxCalls : id = calls + 1
  BY <1>2, <1>3
<1>5. root \in 1 .. MaxCalls /\ root <= calls
  <2>1. <<n, root>> \in Node \X (1 .. MaxCalls) /\ <<n, root>>[2] <= calls
    BY <1>1, <1>3 DEF TypeOK, Numbering
  <2> QED BY <2>1
<1>6. Enter(id, root, "flow_resume", n) /\ calls' = id
  BY <1>4 DEF Resume
<1>7. root <= id /\ id > calls
  BY <1>2, <1>4, <1>5
<1>8. made'[id] = NoArg
  BY <1>1, <1>3, <1>7 DEF Numbering
<1>9. made' \in [1 .. MaxCalls -> Arg \cup {NoArg}]
  BY <1>1, <1>3 DEF TypeOK
<1> QED BY <1>3, <1>4, <1>5, <1>6, <1>7, <1>8, <1>9, EnteringKeeps

-----------------------------------------------------------------------------
(* A call goes on and ends *)

\* What touches the stack and the records only.
LEMMA StackKeeps ==
  ASSUME Sound, ~Idle,
         UNCHANGED <<middlewares, lists, calls, flows, made, listening>>,
         stack' \in Seq(Frame), running' \subseteq Node, context' \in Context,
         records' \in Seq(Record),
         StackInv(stack', lists, calls, made, listening),
         RecordsOf(records', ran', made, calls, stack')
  PROVE  Sound'
<1>1. TypeOK /\ Attachment /\ Numbering
  BY DEF Sound
<1>2. TypeOK'
  <2>1. ran' \subseteq outermost'
    <3>1. ran' \subseteq {i \in DOMAIN made : made[i] # NoArg}
      BY DEF RecordsOf
    <3> QED BY <3>1 DEF outermost
  <2> QED BY <2>1, <1>1 DEF TypeOK
<1>3. Attachment'
  <2>1. \A m : ListOf(m)' = ListOf(m)
    BY DEF ListOf, Held
  <2>2. RecorderOnce'
    BY <2>1, <1>1 DEF RecorderOnce, Attachment
  <2>3. ListOf(Subject)' = ListOf(Subject)
    BY DEF ListOf, Held
  <2> QED BY <2>2, <2>3, <1>1 DEF Attachment
<1>4. Numbering'
  BY <1>1 DEF Numbering
<1>5. StackInv(stack, lists, calls, made, listening)'
  OBVIOUS
<1>6. RecordsInv'
  BY DEF RecordsInv
<1> QED BY <1>2, <1>3, <1>4, <1>5, <1>6 DEF Sound

LEMMA EndKeeps ==
  ASSUME Sound, NEW threw, End(threw)
  PROVE  Sound'
<1>1. /\ TypeOK /\ StackInv(stack, lists, calls, made, listening)
      /\ RecordsOf(records, ran, made, calls, stack)
  BY DEF Sound, RecordsInv
<1>2. /\ ~Idle /\ stack' = Front(stack) /\ context' = Top.previous
      /\ running' = IF Top.baseIsRunning THEN running ELSE running \ {Top.node}
      /\ UNCHANGED <<middlewares, lists, calls, flows, records, made, ran, listening>>
  BY DEF End, Leave
<1>3. /\ Front(stack) \in Seq(Frame)
      /\ StackInv(Front(stack), lists, calls, made, listening)
      /\ Front(stack) # <<>> => Front(stack)[1] = stack[1]
  BY <1>1, <1>2, OnTop, Popped DEF Idle
<1>4. RecordsOf(records, ran, made, calls, Front(stack))
  <2>1. ran \subseteq IdsIn(records)
    BY <1>1 DEF RecordsOf
  <2>2. (\A i \in IdsIn(records) : i \in Nat) /\ calls \in Nat
    BY <1>1, IdsTyped
  <2>3. calls <= calls
    BY <2>2
  <2>4. \/ Front(stack) = <<>>
        \/ /\ Front(stack) # <<>> /\ stack # <<>>
           /\ Front(stack)[1].id = stack[1].id
           /\ Listened(Front(stack)[1]) <=> Listened(stack[1])
           /\ Listened(stack[1]) => (HandedOn(Front(stack)[1]) <=> HandedOn(stack[1]))
    BY <1>2, <1>3 DEF Idle
  <2> QED BY <1>1, <2>1, <2>2, <2>3, <2>4, RecordsKept
<1>5. Top \in Frame
  BY <1>1, <1>2, OnTop
<1>6. context' \in Context
  BY <1>2, <1>5 DEF Frame
<1>7. running' \subseteq Node /\ records' \in Seq(Record)
  BY <1>1, <1>2 DEF TypeOK
<1> QED BY <1>2, <1>3, <1>4, <1>6, <1>7, StackKeeps

LEMMA SpawnKeeps ==
  ASSUME Sound, Spawn
  PROVE  Sound'
<1>1. TypeOK /\ Attachment /\ Numbering /\ StackInv(stack, lists, calls, made, listening)
  BY DEF Sound
<1>2. /\ ~Idle /\ flows' = {<<Top.node, Top.root>>}
      /\ UNCHANGED <<middlewares, lists, stack, running, context, calls, records, made, ran, listening>>
  BY DEF Spawn, InCode
<1>3. /\ Top = stack[Len(stack)] /\ Top \in Frame /\ Len(stack) \in 1 .. Len(stack)
  BY <1>1, <1>2, OnTop
<1>4. Top.node \in Node /\ Top.id \in 1 .. MaxCalls /\ Top.root \in 1 .. MaxCalls
  BY <1>3 DEF Frame
<1>5. Top.root <= Top.id /\ Top.id <= calls
  BY <1>3, <1>1 DEF StackInv, FrameInv
<1>6. Top.root <= calls
  <2>1. calls \in Nat /\ MaxCalls \in Nat
    BY <1>1, IdsTyped
  <2> QED BY <2>1, <1>4, <1>5
<1>7. Numbering'
  <2>1. \A e \in flows' : e[2] <= calls
    BY <1>2, <1>6
  <2> QED BY <2>1, <1>1, <1>2 DEF Numbering
<1>8. TypeOK'
  BY <1>1, <1>2, <1>4 DEF TypeOK, outermost
<1>9. Attachment'
  <2>1. \A m : ListOf(m)' = ListOf(m)
    BY <1>2 DEF ListOf, Held
  <2>2. RecorderOnce'
    BY <2>1, <1>1 DEF RecorderOnce, Attachment
  <2>3. ListOf(Subject)' = ListOf(Subject)
    BY <1>2 DEF ListOf, Held
  <2> QED BY <2>2, <2>3, <1>1, <1>2 DEF Attachment, Idle
<1>10. StackInv(stack, lists, calls, made, listening)' /\ RecordsInv'
  BY <1>2 DEF Sound, RecordsInv
<1> QED BY <1>7, <1>8, <1>9, <1>10 DEF Sound

\* The top frame goes on and nothing is recorded.
LEMMA TopKeeps ==
  ASSUME Sound, ~Idle, NEW g \in Frame, Becomes(g), Walks(g, lists),
         \A x \in {"id", "root", "type", "node", "due"} : g[x] = Top[x],
         Listened(Top) => (HandedOn(g) <=> HandedOn(Top)),
         UNCHANGED <<middlewares, lists, running, context, calls, flows, records, made, listening>>,
         ran' \subseteq IdsIn(records)
  PROVE  Sound'
<1>1. /\ TypeOK /\ StackInv(stack, lists, calls, made, listening)
      /\ RecordsOf(records, ran, made, calls, stack)
  BY DEF Sound, RecordsInv
<1>2. /\ Top = stack[Len(stack)] /\ Top \in Frame /\ stack \in Seq(Frame) /\ stack # <<>>
      /\ Len(stack) \in Nat \ {0}
  BY <1>1, OnTop DEF Idle
<1>3. /\ stack' \in Seq(Frame) /\ StackInv(stack', lists, calls, made, listening)
      /\ stack' # <<>> /\ stack'[1] = IF Len(stack) = 1 THEN g ELSE stack[1]
  <2>1. stack' = [stack EXCEPT ![Len(stack)] = g]
    BY DEF Becomes
  <2>2. \A x \in {"id", "root", "type", "node", "due"} : g[x] = stack[Len(stack)][x]
    BY <1>2
  <2> QED BY <1>1, <1>2, <2>1, <2>2, Changed
<1>4. /\ stack'[1].id = stack[1].id /\ (Listened(stack'[1]) <=> Listened(stack[1]))
      /\ Listened(stack[1]) => (HandedOn(stack'[1]) <=> HandedOn(stack[1]))
  <2>1. g.id = Top.id /\ (Listened(g) <=> Listened(Top))
    BY DEF Listened
  <2>2. CASE Len(stack) = 1
    BY <2>1, <2>2, <1>2, <1>3
  <2>3. CASE Len(stack) # 1
    BY <2>3, <1>3
  <2> QED BY <2>2, <2>3
<1>5. RecordsOf(records, ran', made, calls, stack')
  <2>1. (\A i \in IdsIn(records) : i \in Nat) /\ calls \in Nat
    BY <1>1, IdsTyped
  <2>2. calls <= calls
    BY <2>1
  <2> QED BY <1>1, <1>2, <1>3, <1>4, <2>1, <2>2, RecordsKept
<1>6. running' \subseteq Node /\ context' \in Context /\ records' \in Seq(Record)
  BY <1>1 DEF TypeOK
<1>7. RecordsOf(records', ran', made, calls, stack')
  BY <1>5
<1> QED BY <1>3, <1>6, <1>7, StackKeeps

\* The recorder has not been handed a call whose next middleware it is.
LEMMA NotTakenYet ==
  ASSUME NEW f \in Frame, NEW held, Walks(f, held), DueOnce(f), NEW s \in Step, IsNext(f, s),
         s.middleware = Recorder
  PROVE  ~Passed(f, Recorder)
<1> SUFFICES ASSUME NEW k \in DOMAIN f.seen, f.seen[k].middleware = Recorder
             PROVE  FALSE
  BY DEF Passed
<1>1. f.seen[k] \in Step
  BY FrameParts
<1>2. PICK t \in Step : t = f.seen[k]
  BY <1>1
<1>3. IsTaken(f, t) /\ t.middleware = Recorder
  BY <1>2 DEF Walks
<1>4. Before(t.array, t.index, s.array, s.index)
  BY <1>3, TakenBefore
<1>5. /\ t.array \in DOMAIN f.due /\ t.index \in DOMAIN f.due[t.array]
      /\ f.due[t.array][t.index] = Recorder
  BY <1>3 DEF IsTaken
<1>6. /\ s.array \in DOMAIN f.due /\ s.index \in DOMAIN f.due[s.array]
      /\ f.due[s.array][s.index] = Recorder
  BY DEF IsNext
<1>7. t.array = s.array /\ t.index = s.index
  BY <1>5, <1>6 DEF DueOnce
<1>8. s.array \in Nat /\ s.index \in Nat
  BY DEF Step
<1> QED BY <1>4, <1>7, <1>8 DEF Before

LEMMA RunNextMiddlewareKeeps ==
  ASSUME Sound, RunNextMiddleware
  PROVE  Sound'
<1>1. /\ TypeOK /\ StackInv(stack, lists, calls, made, listening)
      /\ RecordsOf(records, ran, made, calls, stack)
  BY DEF Sound, RecordsInv
<1>2. /\ ~Idle /\ Top.stage = "next"
      /\ UNCHANGED <<middlewares, lists, running, context, calls, flows, records, made, listening>>
  BY DEF RunNextMiddleware
<1>3. /\ Top = stack[Len(stack)] /\ Top \in Frame /\ Len(stack) \in Nat \ {0}
      /\ Len(stack) \in 1 .. Len(stack)
  BY <1>1, <1>2, OnTop
<1>4. PICK f \in Frame : f = Top
  BY <1>3
<1>5. FrameInv(f, Len(stack), Len(stack), lists, calls, made, listening)
  BY <1>1, <1>3, <1>4 DEF StackInv
<1>6. Walks(f, lists) /\ DueOnce(f) /\ f.stage = "next"
  BY <1>2, <1>4, <1>5 DEF FrameInv
<1>7. ran \subseteq IdsIn(records)
  BY <1>1 DEF RecordsOf
<1>8. CASE /\ Ahead(Top) = {}
           /\ Becomes([Top EXCEPT !.stage = "code"])
           /\ ran' = IF Top.id \in outermost /\ DueTo(Top, Recorder) THEN ran \cup {Top.id} ELSE ran
  <2>1. PICK g : g = [f EXCEPT !.stage = "code"]
    OBVIOUS
  <2>2. g \in Frame /\ g.stage = "code"
    BY <2>1 DEF Frame
  <2>3. \A x \in {"due", "arrays", "type", "seen", "arrayIndex", "inArrayIndex", "id", "root", "node"} :
          g[x] = f[x]
    BY <2>1 DEF Frame
  <2>4. Walks(g, lists)
    BY <1>4, <1>6, <1>8, <2>2, <2>3, CodeIsReached
  <2>5. HandedOn(g) <=> HandedOn(f)
    <3>1. g.seen = f.seen
      BY <2>3
    <3> QED BY <1>6, <2>2, <3>1 DEF HandedOn, Passed
  <2>6. ASSUME f.id \in outermost, DueTo(f, Recorder)
        PROVE  f.id \in IdsIn(records)
    <3>1. Listened(f) /\ Len(stack) = 1
      BY <2>6, <1>5 DEF outermost, FrameInv
    <3>2. Listened(stack[1]) /\ stack # <<>> /\ stack[1] = f
      BY <3>1, <1>2, <1>3, <1>4 DEF Idle
    <3>3. DueTo(g, Recorder)
      <4>1. g.due = f.due
        BY <2>3
      <4> QED BY <2>6, <4>1 DEF DueTo
    <3>4. Passed(g, Recorder)
      BY <2>2, <2>4, <3>3, PassedWhatIsDue
    <3>5. HandedOn(f)
      BY <2>2, <2>5, <3>4 DEF HandedOn
    <3> QED BY <3>2, <3>5, <1>1 DEF RecordsOf
  <2>7. ran' \subseteq IdsIn(records)
    BY <2>6, <1>4, <1>7, <1>8
  <2>8. Becomes(g)
    BY <2>1, <1>4, <1>8
  <2>9. \A x \in {"id", "root", "type", "node", "due"} : g[x] = Top[x]
    BY <2>3, <1>4
  <2>10. Listened(Top) => (HandedOn(g) <=> HandedOn(Top))
    BY <2>5, <1>4
  <2> QED BY <1>2, <2>2, <2>4, <2>7, <2>8, <2>9, <2>10, TopKeeps
<1>9. ASSUME NEW s \in Ahead(Top),
             \A t \in Ahead(Top) : ~Before(t.array, t.index, s.array, s.index),
             LET h == [Top EXCEPT !.arrayIndex = s.array, !.inArrayIndex = s.index]
             IN Becomes(IF Skips(Top.type, s.middleware) THEN h
                        ELSE [h EXCEPT !.seen = Append(@, s), !.stage = "handler",
                                       !.handler = s.middleware]),
             UNCHANGED ran
      PROVE  Sound'
  <2>1. s \in Step /\ IsNext(f, s)
    BY <1>4, <1>6, <1>9, NextIsDue
  <2>2. s.array \in Nat /\ s.index \in Nat /\ s.middleware \in Middleware
    BY <2>1 DEF Step
  <2>3. PICK h : h = [f EXCEPT !.arrayIndex = s.array, !.inArrayIndex = s.index]
    OBVIOUS
  <2>4. /\ h \in Frame /\ h.arrayIndex = s.array /\ h.inArrayIndex = s.index
    BY <2>2, <2>3 DEF Frame
  <2>5. \A x \in {"id", "root", "type", "node", "due", "arrays", "seen", "stage"} : h[x] = f[x]
    BY <2>3 DEF Frame
  <2>6. f.seen \in Seq(Step) /\ Append(f.seen, s) \in Seq(Step)
    BY <2>1, FrameParts
  <2>7. PICK g : g = IF Skips(f.type, s.middleware) THEN h
                     ELSE [h EXCEPT !.seen = Append(f.seen, s), !.stage = "handler",
                                    !.handler = s.middleware]
    OBVIOUS
  <2>8. Becomes(g)
    <3>1. h.seen = f.seen
      BY <2>5
    <3> QED BY <3>1, <2>3, <2>7, <1>4, <1>9
  <2>9. g \in Frame
    BY <2>2, <2>4, <2>6, <2>7 DEF Frame
  <2>10. /\ g.arrayIndex = s.array /\ g.inArrayIndex = s.index
         /\ \A x \in {"id", "root", "type", "node", "due", "arrays"} : g[x] = f[x]
    BY <2>4, <2>5, <2>7 DEF Frame
  <2>11. \/ Skips(f.type, s.middleware) /\ g.seen = f.seen /\ g.stage = "next"
         \/ /\ ~Skips(f.type, s.middleware) /\ g.seen = Append(f.seen, s)
            /\ g.stage = "handler" /\ g.handler = s.middleware
    BY <1>6, <2>4, <2>5, <2>7 DEF Frame
  <2>12. Reads(f, s, g)
    <3>1. g.due = f.due /\ g.arrays = f.arrays /\ g.type = f.type
      BY <2>10
    <3> QED BY <3>1, <2>10, <2>11 DEF Reads
  <2>13. Walks(g, lists)
    BY <1>6, <2>1, <2>9, <2>12, ReadKeepsTheWay
  <2>14. HandedOn(g) <=> HandedOn(f)
    <3>1. CASE Skips(f.type, s.middleware)
      BY <3>1, <2>11, <1>6 DEF HandedOn, Passed
    <3>2. CASE ~Skips(f.type, s.middleware) /\ s.middleware = Recorder
      <4>1. ~Passed(f, Recorder)
        BY <3>2, <1>6, <2>1, NotTakenYet
      <4> QED BY <3>2, <4>1, <2>11 DEF HandedOn
    <3>3. CASE ~Skips(f.type, s.middleware) /\ s.middleware # Recorder
      <4>1. g.seen = Append(f.seen, s) /\ g.handler # Recorder
        BY <3>3, <2>11
      <4>2. /\ DOMAIN f.seen = 1 .. Len(f.seen) /\ Len(f.seen) \in Nat
            /\ DOMAIN Append(f.seen, s) = 1 .. Len(f.seen) + 1
            /\ \A k \in 1 .. Len(f.seen) : Append(f.seen, s)[k] = f.seen[k]
            /\ Append(f.seen, s)[Len(f.seen) + 1] = s
        BY <2>1, <2>6
      <4>3. Passed(f, Recorder) => Passed(g, Recorder)
        <5> SUFFICES ASSUME NEW k \in DOMAIN f.seen, f.seen[k].middleware = Recorder
                     PROVE  Passed(g, Recorder)
          BY DEF Passed
        <5>1. k \in DOMAIN g.seen /\ g.seen[k] = f.seen[k]
          BY <4>1, <4>2
        <5> QED BY <5>1 DEF Passed
      <4>4. Passed(g, Recorder) => Passed(f, Recorder)
        <5> SUFFICES ASSUME NEW k \in DOMAIN g.seen, g.seen[k].middleware = Recorder
                     PROVE  Passed(f, Recorder)
          BY DEF Passed
        <5>1. k # Len(f.seen) + 1
          BY <3>3, <4>1, <4>2
        <5>2. k \in DOMAIN f.seen /\ g.seen[k] = f.seen[k]
          BY <4>1, <4>2, <5>1
        <5> QED BY <5>2 DEF Passed
      <4> QED BY <4>1, <4>3, <4>4, <1>6 DEF HandedOn
    <3> QED BY <3>1, <3>2, <3>3
  <2>15. \A x \in {"id", "root", "type", "node", "due"} : g[x] = Top[x]
    BY <2>10, <1>4
  <2>16. Listened(Top) => (HandedOn(g) <=> HandedOn(Top))
    BY <2>14, <1>4
  <2>17. ran' \subseteq IdsIn(records)
    BY <1>7, <1>9
  <2> QED BY <1>2, <2>8, <2>9, <2>13, <2>15, <2>16, <2>17, TopKeeps
<1> QED BY <1>8, <1>9 DEF RunNextMiddleware

\* A record that comes last.
LEMMA RecordAdded ==
  ASSUME NEW recorded \in Seq(Record), NEW done, NEW given, NEW called, NEW s, NEW s2,
         RecordsOf(recorded, done, given, called, s), NEW r \in Record,
         \A i \in IdsIn(recorded) : i \in Nat, r.id \in Nat,
         s # <<>>, s2 # <<>>, r.id = s[1].id, s2[1].id = s[1].id,
         Listened(s[1]), ~HandedOn(s[1]), HandedOn(s2[1]),
         r.id \in DOMAIN given, given[r.id] # NoArg, r.id <= called,
         given[r.id] \in {"json", "date"} => Deserialized(r.arg) = given[r.id]
  PROVE  RecordsOf(Append(recorded, r), done, given, called, s2)
<1>1. PICK t : t = Append(recorded, r)
  OBVIOUS
<1>2. /\ DOMAIN recorded = 1 .. Len(recorded) /\ Len(recorded) \in Nat
      /\ DOMAIN t = 1 .. Len(recorded) + 1
      /\ \A k \in 1 .. Len(recorded) : t[k] = recorded[k]
      /\ t[Len(recorded) + 1] = r
  BY <1>1
<1>3. \A k \in DOMAIN t : \/ k \in DOMAIN recorded /\ t[k] = recorded[k]
                          \/ k = Len(recorded) + 1 /\ t[k] = r
  BY <1>2
<1>4. \A k \in DOMAIN recorded : k \in DOMAIN t /\ t[k] = recorded[k]
  BY <1>2
<1>5. \A x : x \in IdsIn(t) <=> x \in IdsIn(recorded) \/ x = r.id
  <2>1. r.id \in IdsIn(t)
    BY <1>2 DEF IdsIn
  <2>2. IdsIn(recorded) \subseteq IdsIn(t)
    BY <1>4 DEF IdsIn
  <2>3. \A x \in IdsIn(t) : x \in IdsIn(recorded) \/ x = r.id
    BY <1>3 DEF IdsIn
  <2> QED BY <2>1, <2>2, <2>3
<1>6. r.id \notin IdsIn(recorded) /\ \A i \in IdsIn(recorded) : i <= called /\ i <= s[1].id
  BY DEF RecordsOf
<1>7. \A i \in IdsIn(recorded) : i < r.id
  BY <1>6
<1>8. \A i, j \in DOMAIN t : i < j => t[i].id < t[j].id
  <2> SUFFICES ASSUME NEW i \in DOMAIN t, NEW j \in DOMAIN t, i < j
               PROVE  t[i].id < t[j].id
    OBVIOUS
  <2>1. i \in DOMAIN recorded /\ t[i] = recorded[i]
    BY <1>2
  <2>2. CASE j \in DOMAIN recorded /\ t[j] = recorded[j]
    BY <2>1, <2>2 DEF RecordsOf
  <2>3. CASE j = Len(recorded) + 1 /\ t[j] = r
    <3>1. t[i].id \in IdsIn(recorded)
      BY <2>1 DEF IdsIn
    <3> QED BY <2>3, <3>1, <1>7
  <2> QED BY <2>2, <2>3, <1>3
<1>9. \A i \in DOMAIN t : given[t[i].id] \in {"json", "date"} => Deserialized(t[i].arg) = given[t[i].id]
  BY <1>3 DEF RecordsOf
<1>10. IdsIn(t) \subseteq {i \in DOMAIN given : given[i] # NoArg} /\ done \subseteq IdsIn(t)
  BY <1>5 DEF RecordsOf
<1>11. \A i \in IdsIn(t) : i <= called /\ i <= s2[1].id
  BY <1>5, <1>6
<1>12. s2[1].id \in IdsIn(t)
  BY <1>5
<1> HIDE DEF IdsIn
<1> QED BY <1>1, <1>8, <1>9, <1>10, <1>11, <1>12 DEF RecordsOf

LEMMA PassOnKeeps ==
  ASSUME Sound, PassOn
  PROVE  Sound'
<1>1. /\ TypeOK /\ StackInv(stack, lists, calls, made, listening)
      /\ RecordsOf(records, ran, made, calls, stack)
  BY DEF Sound, RecordsInv
<1>2. /\ ~Idle /\ Top.stage = "handler" /\ Becomes([Top EXCEPT !.stage = "next"])
      /\ UNCHANGED <<middlewares, lists, running, context, calls, flows, made, ran, listening>>
  BY DEF PassOn
<1>3. /\ Top = stack[Len(stack)] /\ Top \in Frame /\ Len(stack) \in Nat \ {0}
      /\ Len(stack) \in 1 .. Len(stack) /\ stack \in Seq(Frame) /\ stack # <<>>
  BY <1>1, <1>2, OnTop DEF Idle
<1>4. PICK f \in Frame : f = Top
  BY <1>3
<1>5. FrameInv(f, Len(stack), Len(stack), lists, calls, made, listening)
  BY <1>1, <1>3, <1>4 DEF StackInv
<1>6. Walks(f, lists) /\ f.stage = "handler" /\ Passed(f, f.handler)
  BY <1>2, <1>4, <1>5 DEF FrameInv, Walks
<1>7. PICK g : g = [f EXCEPT !.stage = "next"]
  OBVIOUS
<1>8. g \in Frame /\ g.stage = "next"
  BY <1>7 DEF Frame
<1>9. \A x \in {"due", "arrays", "type", "seen", "arrayIndex", "inArrayIndex", "id", "root", "node"} :
        g[x] = f[x]
  BY <1>7 DEF Frame
<1>10. Walks(g, lists)
  BY <1>6, <1>8, <1>9, HandingOnKeepsTheWay
<1>11. Passed(g, Recorder) <=> Passed(f, Recorder)
  <2>1. g.seen = f.seen
    BY <1>9
  <2> QED BY <2>1 DEF Passed
<1>12. Becomes(g) /\ \A x \in {"id", "root", "type", "node", "due"} : g[x] = Top[x]
  BY <1>2, <1>4, <1>7, <1>9
<1>13. (\A i \in IdsIn(records) : i \in Nat) /\ calls \in Nat /\ records \in Seq(Record) /\ DOMAIN made = 1 .. MaxCalls
  BY <1>1, IdsTyped
<1>14. CASE ~(Top.handler = Recorder /\ Listened(Top))
  <2>1. UNCHANGED records
    BY <1>14 DEF PassOn
  <2>2. Listened(Top) => (HandedOn(g) <=> HandedOn(Top))
    BY <1>4, <1>8, <1>11, <1>14 DEF HandedOn
  <2>3. ran' \subseteq IdsIn(records)
    BY <1>1, <1>2 DEF RecordsOf
  <2> QED BY <1>2, <1>8, <1>10, <1>12, <2>1, <2>2, <2>3, TopKeeps
<1>15. CASE Top.handler = Recorder /\ Listened(Top)
  <2>1. f.handler = Recorder /\ Listened(f) /\ Len(stack) = 1 /\ made[f.id] # NoArg /\ f.id <= calls
    BY <1>4, <1>5, <1>15 DEF FrameInv
  <2>2. stack[1] = f
    BY <1>3, <1>4, <2>1
  <2>3. stack' = [stack EXCEPT ![Len(stack)] = g]
    BY <1>12 DEF Becomes
  <2>4. \A x \in {"id", "root", "type", "node", "due"} : g[x] = stack[Len(stack)][x]
    BY <1>3, <1>12
  <2>5. /\ stack' \in Seq(Frame) /\ StackInv(stack', lists, calls, made, listening)
        /\ stack' # <<>> /\ stack'[1] = g
    BY <1>1, <1>3, <1>8, <1>10, <2>1, <2>3, <2>4, Changed
  <2>6. HandedOn(g) /\ ~HandedOn(f)
    BY <1>6, <1>8, <1>11, <2>1 DEF HandedOn
  <2>7. f.id \in 1 .. MaxCalls /\ f.node \in Node
    BY DEF Frame
  <2>8. made[f.id] \in Arg
    BY <1>1, <2>1, <2>7 DEF TypeOK
  <2>9. PICK r : r = [id |-> f.id, node |-> f.node, arg |-> Serialized(made[f.id])]
    OBVIOUS
  <2>10. r \in Record
    BY <2>7, <2>9 DEF Record, Serialized
  <2>11. made[f.id] \in {"json", "date"} => Deserialized(r.arg) = made[f.id]
    BY <2>9 DEF Deserialized, Serialized
  <2>12. records' = Append(records, r)
    BY <1>4, <1>15, <2>9 DEF PassOn
  <2>13. r.id = f.id /\ g.id = f.id /\ f.id \in Nat
    BY <1>9, <2>7, <2>9
  <2>14. made[r.id] \in {"json", "date"} => Deserialized(r.arg) = made[r.id]
    BY <2>11, <2>13
  <2>15. RecordsOf(Append(records, r), ran, made, calls, stack')
    BY <1>1, <1>3, <1>13, <2>1, <2>2, <2>5, <2>6, <2>7, <2>10, <2>13, <2>14, RecordAdded
  <2>16. Append(records, r) \in Seq(Record)
    BY <1>13, <2>10
  <2>17. running' \subseteq Node /\ context' \in Context
    BY <1>1, <1>2 DEF TypeOK
  <2>18. RecordsOf(records', ran', made, calls, stack') /\ records' \in Seq(Record)
    BY <1>2, <2>12, <2>15, <2>16
  <2> QED BY <1>2, <2>5, <2>17, <2>18, StackKeeps
<1> QED BY <1>14, <1>15

-----------------------------------------------------------------------------
(* Middleware comes and goes *)

OnceIn(list) ==
  \A i, j \in DOMAIN list : list[i] = Recorder /\ list[j] = Recorder => i = j

LEMMA RecorderOnceIn ==
  ASSUME RecorderOnce, NEW n \in Node
  PROVE  OnceIn(ListOf(n)) /\ (Recorder \in ToSet(ListOf(n)) => n = Subject)
BY DEF RecorderOnce, OnceIn, ToSet

LEMMA Lengthened ==
  ASSUME NEW list \in Seq(Middleware), OnceIn(list), NEW m \in Middleware,
         m = Recorder => Recorder \notin ToSet(list)
  PROVE  /\ Append(list, m) \in Seq(Middleware) /\ OnceIn(Append(list, m))
         /\ \A x : x \in ToSet(Append(list, m)) <=> x \in ToSet(list) \/ x = m
<1>1. PICK t : t = Append(list, m)
  OBVIOUS
<1>2. /\ DOMAIN list = 1 .. Len(list) /\ Len(list) \in Nat /\ t \in Seq(Middleware)
      /\ DOMAIN t = 1 .. Len(list) + 1
      /\ \A k \in 1 .. Len(list) : t[k] = list[k]
      /\ t[Len(list) + 1] = m
  BY <1>1
<1>3. \A k \in DOMAIN t : \/ k \in DOMAIN list /\ t[k] = list[k]
                          \/ k = Len(list) + 1 /\ t[k] = m
  BY <1>2
<1>4. OnceIn(t)
  <2> SUFFICES ASSUME NEW i \in DOMAIN t, NEW j \in DOMAIN t, t[i] = Recorder, t[j] = Recorder
               PROVE  i = j
    BY DEF OnceIn
  <2>1. CASE m = Recorder
    <3>1. \A k \in DOMAIN list : list[k] # Recorder
      BY <2>1 DEF ToSet
    <3> QED BY <1>3, <3>1
  <2>2. CASE m # Recorder
    BY <1>3, <2>2 DEF OnceIn
  <2> QED BY <2>1, <2>2
<1>5. \A x : x \in ToSet(t) <=> x \in ToSet(list) \/ x = m
  <2>1. \A x : x \in ToSet(t) <=> \E k \in DOMAIN t : t[k] = x
    BY DEF ToSet
  <2>2. \A x : x \in ToSet(list) <=> \E k \in DOMAIN list : list[k] = x
    BY DEF ToSet
  <2> QED BY <1>2, <2>1, <2>2
<1> QED BY <1>1, <1>2, <1>4, <1>5

LEMMA Part ==
  ASSUME NEW S, NEW s \in Seq(S), NEW p \in Nat \ {0}, NEW q \in Nat, q <= Len(s), p <= q + 1
  PROVE  /\ SubSeq(s, p, q) \in Seq(S) /\ Len(SubSeq(s, p, q)) = q - p + 1
         /\ \A k \in 1 .. q - p + 1 : SubSeq(s, p, q)[k] = s[p + k - 1]
<1>1. \A k \in p .. q : s[k] \in S
  OBVIOUS
<1>2. /\ SubSeq(s, p, q) \in Seq(S)
      /\ Len(SubSeq(s, p, q)) = IF p <= q THEN q - p + 1 ELSE 0
      /\ \A k \in 1 .. q - p + 1 : SubSeq(s, p, q)[k] = s[p + k - 1]
  BY <1>1, SubSeqProperties
<1> QED BY <1>2

LEMMA Shortened ==
  ASSUME NEW list \in Seq(Middleware), OnceIn(list), NEW i \in DOMAIN list
  PROVE  /\ RemoveAt(list, i) \in Seq(Middleware) /\ OnceIn(RemoveAt(list, i))
         /\ ToSet(RemoveAt(list, i)) \subseteq ToSet(list)
         /\ \A x \in ToSet(list) : x # list[i] => x \in ToSet(RemoveAt(list, i))
<1>1. /\ DOMAIN list = 1 .. Len(list) /\ Len(list) \in Nat
      /\ \A k \in 1 .. Len(list) : list[k] \in Middleware
  OBVIOUS
<1>2. PICK n \in Nat : n = Len(list)
  BY <1>1
<1>3. i \in 1 .. n /\ 1 \in Nat \ {0} /\ i - 1 \in Nat /\ i + 1 \in Nat \ {0} /\ n <= Len(list)
  BY <1>1, <1>2
<1>4. PICK a, b : a = SubSeq(list, 1, i - 1) /\ b = SubSeq(list, i + 1, n)
  OBVIOUS
<1>5. a \in Seq(Middleware) /\ Len(a) = i - 1 /\ \A k \in 1 .. i - 1 : a[k] = list[k]
  <2>1. PICK q \in Nat : q = i - 1
    BY <1>3
  <2>2. q <= Len(list) /\ 1 <= q + 1 /\ q - 1 + 1 = q /\ \A k \in 1 .. q : 1 + k - 1 = k
    BY <1>2, <1>3, <2>1
  <2>3. /\ SubSeq(list, 1, q) \in Seq(Middleware) /\ Len(SubSeq(list, 1, q)) = q - 1 + 1
        /\ \A k \in 1 .. q - 1 + 1 : SubSeq(list, 1, q)[k] = list[1 + k - 1]
    BY <1>3, <2>2, Part
  <2> QED BY <1>4, <2>1, <2>2, <2>3
<1>6. b \in Seq(Middleware) /\ Len(b) = n - i /\ \A k \in 1 .. n - i : b[k] = list[k + i]
  <2>1. PICK p \in Nat \ {0} : p = i + 1
    BY <1>3
  <2>2. n <= Len(list) /\ p <= n + 1 /\ n - p + 1 = n - i /\ \A k \in 1 .. n - i : p + k - 1 = k + i
    BY <1>2, <1>3, <2>1
  <2>3. /\ SubSeq(list, p, n) \in Seq(Middleware) /\ Len(SubSeq(list, p, n)) = n - p + 1
        /\ \A k \in 1 .. n - p + 1 : SubSeq(list, p, n)[k] = list[p + k - 1]
    BY <1>3, <2>2, Part
  <2> QED BY <1>4, <2>1, <2>2, <2>3
<1>7. PICK t : t = a \o b
  OBVIOUS
<1>8. /\ t \in Seq(Middleware) /\ DOMAIN t = 1 .. n - 1
      /\ \A k \in 1 .. n - 1 : t[k] = IF k < i THEN list[k] ELSE list[k + 1]
  <2>1. /\ t \in Seq(Middleware) /\ Len(t) = Len(a) + Len(b)
        /\ \A k \in 1 .. Len(a) + Len(b) : t[k] = IF k <= Len(a) THEN a[k] ELSE b[k - Len(a)]
    BY <1>5, <1>6, <1>7, ConcatProperties
  <2>2. Len(a) + Len(b) = n - 1
    BY <1>3, <1>5, <1>6
  <2>3. DOMAIN t = 1 .. n - 1
    BY <2>1, <2>2
  <2>4. ASSUME NEW k \in 1 .. n - 1
        PROVE  t[k] = IF k < i THEN list[k] ELSE list[k + 1]
    <3>1. t[k] = IF k <= i - 1 THEN a[k] ELSE b[k - (i - 1)]
      BY <2>1, <2>2, <1>5
    <3>2. CASE k < i
      <4>1. k <= i - 1 /\ k \in 1 .. i - 1
        BY <3>2, <1>3
      <4> QED BY <3>1, <3>2, <4>1, <1>5
    <3>3. CASE ~(k < i)
      <4>1. ~(k <= i - 1) /\ k - (i - 1) \in 1 .. n - i /\ k - (i - 1) + i = k + 1
        BY <3>3, <1>3
      <4> QED BY <3>1, <3>3, <4>1, <1>6
    <3> QED BY <3>2, <3>3
  <2> QED BY <2>1, <2>3, <2>4
<1>9. RemoveAt(list, i) = t
  BY <1>2, <1>4, <1>7 DEF RemoveAt
<1>10. OnceIn(t)
  <2> SUFFICES ASSUME NEW k \in 1 .. n - 1, NEW l \in 1 .. n - 1, t[k] = Recorder, t[l] = Recorder
               PROVE  k = l
    BY <1>8 DEF OnceIn
  <2>1. PICK k2 \in 1 .. n : k2 = IF k < i THEN k ELSE k + 1
    BY <1>3
  <2>2. PICK l2 \in 1 .. n : l2 = IF l < i THEN l ELSE l + 1
    BY <1>3
  <2>3. list[k2] = Recorder /\ list[l2] = Recorder
    BY <1>8, <2>1, <2>2
  <2>4. k2 = l2
    BY <2>3, <1>1, <1>2 DEF OnceIn
  <2> QED BY <2>1, <2>2, <2>4, <1>3
<1>11. ToSet(t) \subseteq ToSet(list)
  <2> SUFFICES ASSUME NEW k \in 1 .. n - 1
               PROVE  \E l \in DOMAIN list : list[l] = t[k]
    BY <1>8 DEF ToSet
  <2>1. CASE k < i
    <3>1. k \in 1 .. n /\ DOMAIN list = 1 .. n
      BY <1>1, <1>2, <1>3
    <3>2. t[k] = list[k]
      BY <2>1, <1>8
    <3> QED BY <3>1, <3>2
  <2>2. CASE ~(k < i)
    <3>1. k + 1 \in DOMAIN list /\ t[k] = list[k + 1]
      BY <2>2, <1>1, <1>2, <1>3, <1>8
    <3> QED BY <3>1
  <2> QED BY <2>1, <2>2
<1>12. \A x \in ToSet(list) : x # list[i] => x \in ToSet(t)
  <2> SUFFICES ASSUME NEW l \in 1 .. n, list[l] # list[i]
               PROVE  \E k \in DOMAIN t : t[k] = list[l]
    BY <1>1, <1>2 DEF ToSet
  <2>1. CASE l < i
    <3>1. l \in 1 .. n - 1
      BY <2>1, <1>3
    <3> QED BY <2>1, <3>1, <1>8
  <2>2. CASE l > i
    <3>1. l - 1 \in 1 .. n - 1 /\ ~(l - 1 < i) /\ l - 1 + 1 = l
      BY <2>2, <1>3
    <3> QED BY <3>1, <1>8
  <2>3. l # i
    OBVIOUS
  <2> QED BY <2>1, <2>2, <2>3, <1>3
<1> QED BY <1>8, <1>9, <1>10, <1>11, <1>12

LEMMA Replacing ==
  ASSUME TypeOK, NEW n \in Node, NEW list \in Seq(Middleware), Replaced(n, list)
  PROVE  /\ lists' \in Seq(Seq(Middleware)) /\ Len(lists') <= MaxLists
         /\ Len(lists) \in Nat /\ Len(lists') \in Nat /\ Len(lists) <= Len(lists')
         /\ \A l \in 1 .. Len(lists) : lists'[l] = lists[l]
         /\ middlewares' \in [Node -> 0 .. Len(lists')]
         /\ \A k \in Node : ListOf(k)' = IF k = n THEN list ELSE ListOf(k)
<1>1. /\ lists \in Seq(Seq(Middleware)) /\ Len(lists) <= MaxLists /\ Len(lists) \in Nat
      /\ middlewares \in [Node -> 0 .. Len(lists)] /\ MaxLists \in Nat
  <2>1. /\ lists \in Seq(Seq(Middleware)) /\ Len(lists) <= MaxLists
        /\ middlewares \in [Node -> 0 .. Len(lists)]
    BY DEF TypeOK
  <2>2. Len(lists) \in Nat
    BY <2>1
  <2>3. MaxLists \in Nat
    BY ActionsAssumption
  <2> QED BY <2>1, <2>2, <2>3
<1>2. CASE list = <<>>
  <2>1. middlewares' = [middlewares EXCEPT ![n] = 0] /\ lists' = lists
    BY <1>2 DEF Replaced
  <2>2. middlewares' \in [Node -> 0 .. Len(lists')]
    BY <1>1, <2>1
  <2>3. ASSUME NEW k \in Node
        PROVE  ListOf(k)' = IF k = n THEN list ELSE ListOf(k)
    <3>1. middlewares'[k] = IF k = n THEN 0 ELSE middlewares[k]
      BY <1>1, <2>1
    <3> QED BY <3>1, <2>1, <1>2 DEF ListOf, Held
  <2> QED BY <1>1, <2>1, <2>2, <2>3
<1>3. CASE list # <<>>
  <2>1. /\ Len(lists) < MaxLists /\ lists' = Append(lists, list)
        /\ middlewares' = [middlewares EXCEPT ![n] = Len(lists) + 1]
    BY <1>3 DEF Replaced
  <2>2. /\ lists' \in Seq(Seq(Middleware)) /\ Len(lists') = Len(lists) + 1
        /\ \A l \in 1 .. Len(lists) : lists'[l] = lists[l]
        /\ lists'[Len(lists) + 1] = list
    BY <1>1, <2>1
  <2>3. middlewares' \in [Node -> 0 .. Len(lists')]
    <3>1. \A k \in Node : middlewares'[k] = IF k = n THEN Len(lists) + 1 ELSE middlewares[k]
      BY <1>1, <2>1
    <3>2. \A k \in Node : middlewares'[k] \in 0 .. Len(lists) + 1
      BY <3>1, <1>1
    <3>3. middlewares' \in [Node -> 0 .. Len(lists) + 1]
      BY <3>2, <2>1, <1>1
    <3> QED BY <3>3, <2>2
  <2>4. ASSUME NEW k \in Node
        PROVE  ListOf(k)' = IF k = n THEN list ELSE ListOf(k)
    <3>1. middlewares'[k] = IF k = n THEN Len(lists) + 1 ELSE middlewares[k]
      BY <1>1, <2>1
    <3>2. middlewares[k] \in 0 .. Len(lists)
      BY <1>1
    <3>3. CASE k = n
      BY <3>1, <3>3, <2>2, <1>1 DEF ListOf, Held
    <3>4. CASE k # n
      <4>1. middlewares'[k] = middlewares[k]
        BY <3>1, <3>4
      <4>2. middlewares[k] = 0 \/ lists'[middlewares[k]] = lists[middlewares[k]]
        BY <3>2, <2>2, <1>1
      <4> QED BY <3>4, <4>1, <4>2 DEF ListOf, Held
    <3> QED BY <3>3, <3>4
  <2>5. Len(lists') \in Nat /\ Len(lists') <= MaxLists /\ Len(lists) <= Len(lists')
    BY <1>1, <2>1, <2>2
  <2> QED BY <1>1, <2>2, <2>3, <2>4, <2>5
<1> QED BY <1>2, <1>3

\* What changes the lists only.
LEMMA ListsKeep ==
  ASSUME Sound, NEW n \in Node, NEW list \in Seq(Middleware), Replaced(n, list),
         OnceIn(list), Recorder \in ToSet(list) => n = Subject,
         UNCHANGED <<stack, running, context, calls, flows, records, made, ran>>,
         listening' \in BOOLEAN, listening' => listening,
         listening' /\ n = Subject /\ Recorder \in ToSet(ListOf(n)) => Recorder \in ToSet(list)
  PROVE  Sound'
<1>1. /\ TypeOK /\ StackInv(stack, lists, calls, made, listening)
      /\ Attachment /\ RecorderOnce /\ Numbering /\ RecordsInv
  BY DEF Sound, Attachment
<1>2. /\ lists' \in Seq(Seq(Middleware)) /\ Len(lists') <= MaxLists
      /\ Len(lists) \in Nat /\ Len(lists') \in Nat /\ Len(lists) <= Len(lists')
      /\ \A l \in 1 .. Len(lists) : lists'[l] = lists[l]
      /\ middlewares' \in [Node -> 0 .. Len(lists')]
      /\ \A k \in Node : ListOf(k)' = IF k = n THEN list ELSE ListOf(k)
  BY <1>1, Replacing
<1>3. TypeOK'
  BY <1>1, <1>2 DEF TypeOK, outermost
<1>4. StackInv(stack, lists, calls, made, listening)'
  <2>1. stack \in Seq(Frame) /\ calls \in Nat
    BY <1>1, ActionsAssumption DEF TypeOK
  <2>2. calls <= calls
    BY <2>1
  <2>3. StackInv(stack, lists', calls, made, listening')
    BY <1>1, <1>2, <2>1, <2>2, Onwards
  <2> QED BY <2>3
<1>5. RecorderOnce'
  <2>1. ASSUME NEW k \in Node
        PROVE  OnceIn(ListOf(k)') /\ (Recorder \in ToSet(ListOf(k)') => k = Subject)
    <3>1. CASE k = n
      BY <3>1, <1>2
    <3>2. CASE k # n
      BY <3>2, <1>1, <1>2, RecorderOnceIn
    <3> QED BY <3>1, <3>2
  <2> QED BY <2>1 DEF RecorderOnce, OnceIn, ToSet
<1>6. Attachment'
  <2>1. ASSUME listening', ~Idle
        PROVE  Recorder \in ToSet(ListOf(Subject)')
    <3>1. Recorder \in ToSet(ListOf(Subject)) /\ Subject \in Node
      BY <2>1, <1>1, ActionsAssumption DEF Attachment
    <3>2. ListOf(Subject)' = IF Subject = n THEN list ELSE ListOf(Subject)
      BY <3>1, <1>2
    <3> QED BY <2>1, <3>1, <3>2
  <2>2. (~Idle)' <=> ~Idle
    BY DEF Idle
  <2>3. listening' /\ (~Idle)' => (Recorder \in ToSet(ListOf(Subject)))'
    BY <2>1, <2>2
  <2> QED BY <1>5, <2>3 DEF Attachment
<1>7. Numbering' /\ RecordsInv'
  BY <1>1 DEF Numbering, RecordsInv
<1> QED BY <1>3, <1>4, <1>6, <1>7 DEF Sound

LEMMA AddMiddleWareKeeps ==
  ASSUME Sound, NEW n \in Node, NEW m \in Middleware, AddMiddleWare(n, m)
  PROVE  Sound'
<1>1. TypeOK /\ RecorderOnce
  BY DEF Sound, Attachment
<1>2. /\ ~Attached(m) /\ (m = Recorder => n = Subject)
      /\ Replaced(n, Append(ListOf(n), m))
      /\ UNCHANGED <<stack, running, context, calls, flows, records, made, ran, listening>>
  BY DEF AddMiddleWare
<1>3. ListOf(n) \in Seq(Middleware) /\ OnceIn(ListOf(n)) /\ (Recorder \in ToSet(ListOf(n)) => n = Subject)
  BY <1>1, ListTyped, RecorderOnceIn
<1>4. m = Recorder => Recorder \notin ToSet(ListOf(n))
  BY <1>2 DEF Attached
<1>5. PICK list : list = Append(ListOf(n), m)
  OBVIOUS
<1>6. /\ list \in Seq(Middleware) /\ OnceIn(list)
      /\ \A x : x \in ToSet(list) <=> x \in ToSet(ListOf(n)) \/ x = m
  BY <1>3, <1>4, <1>5, Lengthened
<1>7. /\ Recorder \in ToSet(list) => n = Subject
      /\ Recorder \in ToSet(ListOf(n)) => Recorder \in ToSet(list)
  BY <1>2, <1>3, <1>6
<1>8. Replaced(n, list)
  BY <1>2, <1>5
<1>9. listening' \in BOOLEAN /\ (listening' => listening)
  BY <1>1, <1>2 DEF TypeOK
<1> QED BY <1>2, <1>6, <1>7, <1>8, <1>9, ListsKeep

LEMMA RemoveMiddlewareKeeps ==
  ASSUME Sound, NEW n \in Node, NEW m \in Middleware, RemoveMiddleware(n, m)
  PROVE  Sound'
<1>1. TypeOK /\ RecorderOnce
  BY DEF Sound, Attachment
<1>2. /\ listening' = (listening /\ m # Recorder)
      /\ UNCHANGED <<stack, running, context, calls, flows, records, made, ran>>
  BY DEF RemoveMiddleware
<1>3. PICK i \in DOMAIN ListOf(n) : ListOf(n)[i] = m /\ Replaced(n, RemoveAt(ListOf(n), i))
  BY DEF RemoveMiddleware
<1>4. ListOf(n) \in Seq(Middleware) /\ OnceIn(ListOf(n)) /\ (Recorder \in ToSet(ListOf(n)) => n = Subject)
  BY <1>1, ListTyped, RecorderOnceIn
<1>5. PICK list : list = RemoveAt(ListOf(n), i)
  OBVIOUS
<1>6. /\ list \in Seq(Middleware) /\ OnceIn(list) /\ ToSet(list) \subseteq ToSet(ListOf(n))
      /\ \A x \in ToSet(ListOf(n)) : x # m => x \in ToSet(list)
  BY <1>3, <1>4, <1>5, Shortened
<1>7. /\ Recorder \in ToSet(list) => n = Subject
      /\ listening' /\ n = Subject /\ Recorder \in ToSet(ListOf(n)) => Recorder \in ToSet(list)
  BY <1>2, <1>4, <1>6
<1>8. Replaced(n, list)
  BY <1>3, <1>5
<1>9. listening' \in BOOLEAN /\ (listening' => listening)
  BY <1>1, <1>2 DEF TypeOK
<1> QED BY <1>2, <1>6, <1>7, <1>8, <1>9, ListsKeep

-----------------------------------------------------------------------------
(* The invariant *)

LEMMA SoundAtFirst ==
  ASSUME Init
  PROVE  Sound
<1>1. /\ middlewares = [n \in Node |-> IF n = Subject THEN 1 ELSE 0]
      /\ lists = <<<<Recorder>>>> /\ stack = <<>> /\ running = {} /\ context = NoContext
      /\ calls = 0 /\ flows = {} /\ records = <<>>
      /\ made = [i \in 1 .. MaxCalls |-> NoArg] /\ ran = {} /\ listening = TRUE
  BY DEF Init
<1>2. Recorder \in Middleware /\ MaxCalls \in Nat /\ MaxLists \in Nat \ {0}
  BY ActionsAssumption
<1>3. /\ <<Recorder>> \in Seq(Middleware) /\ DOMAIN <<Recorder>> = 1 .. 1
      /\ <<Recorder>>[1] = Recorder
  BY <1>2
<1>4. lists \in Seq(Seq(Middleware)) /\ Len(lists) = 1 /\ lists[1] = <<Recorder>>
  BY <1>1, <1>3
<1>5. TypeOK
  <2>1. middlewares \in [Node -> 0 .. Len(lists)]
    BY <1>1, <1>4
  <2>2. stack \in Seq(Frame) /\ records \in Seq(Record)
    BY <1>1
  <2>3. context \in Context /\ calls \in 0 .. MaxCalls /\ Len(lists) <= MaxLists
    BY <1>1, <1>2, <1>4 DEF Context
  <2>4. made \in [1 .. MaxCalls -> Arg \cup {NoArg}]
    BY <1>1
  <2> QED BY <1>1, <1>4, <2>1, <2>2, <2>3, <2>4 DEF TypeOK
<1>6. StackInv(stack, lists, calls, made, listening)
  <2>1. 1 .. Len(stack) = {}
    BY <1>1
  <2> QED BY <2>1 DEF StackInv
<1>7. \A n \in Node : ListOf(n) = IF n = Subject THEN <<Recorder>> ELSE <<>>
  BY <1>1, <1>4 DEF ListOf, Held
<1>8. Attachment
  <2>1. RecorderOnce
    <3> SUFFICES ASSUME NEW n \in Node, NEW i \in DOMAIN ListOf(n), NEW j \in DOMAIN ListOf(n)
                 PROVE  n = Subject /\ i = j
      BY DEF RecorderOnce
    <3>1. n = Subject
      BY <1>7
    <3>2. i \in 1 .. 1 /\ j \in 1 .. 1
      BY <1>3, <1>7, <3>1
    <3> QED BY <3>1, <3>2
  <2> QED BY <1>1, <2>1 DEF Attachment, Idle
<1>9. Numbering
  BY <1>1 DEF Numbering
<1>10. RecordsInv
  <2>1. DOMAIN records = {} /\ IdsIn(records) = {}
    BY <1>1 DEF IdsIn
  <2> QED BY <1>1, <2>1 DEF RecordsInv, RecordsOf
<1> QED BY <1>5, <1>6, <1>8, <1>9, <1>10 DEF Sound

LEMMA StepKeepsCalls ==
  ASSUME CallsInv, [Next]_vars
  PROVE  CallsInv'
<1>1. LocksInv /\ Sound
  BY DEF CallsInv
<1>2. LocksInv'
  BY <1>1, StepKeepsLocks
<1> SUFFICES Sound'
  BY <1>2 DEF CallsInv
<1>3. ASSUME NEW n \in Node, NEW arg \in Arg, Call(n, "action", arg)
      PROVE  Sound'
  <2>1. "action" \in {"action", "hook", "extendInstance"}
    OBVIOUS
  <2> QED BY <1>3, <2>1, CallKeeps
<1>4. ASSUME NEW n \in Node, NEW type \in {"hook", "extendInstance"}, Call(n, type, "json")
      PROVE  Sound'
  <2>1. type \in {"action", "hook", "extendInstance"} /\ "json" \in Arg
    BY ActionsAssumption
  <2> QED BY <1>4, <2>1, CallKeeps
<1>5. ASSUME NEW n \in Node, NEW m \in Middleware, AddMiddleWare(n, m) \/ RemoveMiddleware(n, m)
      PROVE  Sound'
  BY <1>1, <1>5, AddMiddleWareKeeps, RemoveMiddlewareKeeps
<1>6. ASSUME NEW f \in flows, Resume(f[1], f[2])
      PROVE  Sound'
  <2>1. f[1] \in Node
    BY <1>1 DEF Sound, TypeOK
  <2> QED BY <1>6, <2>1, ResumeKeeps
<1>7. ASSUME NEW threw \in BOOLEAN, End(threw)
      PROVE  Sound'
  BY <1>1, <1>7, EndKeeps
<1>8. CASE Spawn \/ RunNextMiddleware \/ PassOn
  <2>1. CASE Spawn
    BY <1>1, <2>1, SpawnKeeps
  <2>2. CASE RunNextMiddleware
    BY <1>1, <2>2, RunNextMiddlewareKeeps
  <2>3. CASE PassOn
    BY <1>1, <2>3, PassOnKeeps
  <2> QED BY <1>8, <2>1, <2>2, <2>3
<1>9. CASE UNCHANGED vars
  <2>1. TypeOK'
    BY <1>1, <1>9 DEF Sound, TypeOK, vars, outermost
  <2>2. StackInv(stack, lists, calls, made, listening)'
    BY <1>1, <1>9 DEF Sound, vars
  <2>4. RecordsInv' /\ Numbering'
    BY <1>1, <1>9 DEF Sound, vars, RecordsInv, Numbering
  <2>3. Attachment'
    <3>1. \A m : ListOf(m)' = ListOf(m)
      BY <1>9 DEF ListOf, Held, vars
    <3>2. RecorderOnce'
      BY <3>1, <1>1 DEF RecorderOnce, Attachment, Sound
    <3>3. ListOf(Subject)' = ListOf(Subject)
      BY <1>9 DEF ListOf, Held, vars
    <3> QED BY <3>2, <3>3, <1>1, <1>9 DEF Attachment, Sound, vars, Idle
  <2> QED BY <2>1, <2>2, <2>3, <2>4 DEF Sound
<1> QED BY <1>3, <1>4, <1>5, <1>6, <1>7, <1>8, <1>9 DEF Next

\* The locks, the calls on their way and what is recorded, of every state.
THEOREM Invariant == Spec => []CallsInv
<1>1. Init => CallsInv
  BY Started, SoundAtFirst DEF CallsInv
<1>2. CallsInv /\ [Next]_vars => CallsInv'
  BY StepKeepsCalls
<1> QED BY <1>1, <1>2, PTL DEF Spec

\* Stack, lists of middlewares, records and history always have their types.
THEOREM TypeCorrect == Spec => []TypeOK
<1>1. CallsInv => TypeOK
  BY DEF CallsInv, Sound
<1> QED BY <1>1, Invariant, PTL

LEMMA CodeCameAfterItsMiddlewares ==
  ASSUME CallsInv
  PROVE  PassesWhatItStartedWith
<1>1. TypeOK /\ StackInv(stack, lists, calls, made, listening)
  BY DEF CallsInv, Sound
<1>2. ASSUME NEW f \in ToSet(stack), f.stage = "code"
      PROVE  LET due == UNION {{[array |-> i, index |-> j, middleware |-> f.due[i][j]] :
                                  j \in DOMAIN f.due[i]} : i \in DOMAIN f.due}
             IN /\ ToSet(f.seen) = {s \in due : ~Skips(f.type, s.middleware)}
                /\ \A k, l \in DOMAIN f.seen : k < l =>
                     Before(f.seen[k].array, f.seen[k].index, f.seen[l].array, f.seen[l].index)
  <2> DEFINE due == UNION {{[array |-> i, index |-> j, middleware |-> f.due[i][j]] :
                              j \in DOMAIN f.due[i]} : i \in DOMAIN f.due}
  <2>1. f \in Frame /\ Walks(f, lists)
    <3>1. stack \in Seq(Frame)
      BY <1>1 DEF TypeOK
    <3>2. PICK k \in 1 .. Len(stack) : f = stack[k]
      BY <3>1 DEF ToSet
    <3> QED BY <3>1, <3>2, <1>1 DEF StackInv, FrameInv
  <2>2. ASSUME NEW s \in ToSet(f.seen)
        PROVE  s \in due /\ ~Skips(f.type, s.middleware)
    <3>1. PICK k \in DOMAIN f.seen : s = f.seen[k]
      BY DEF ToSet
    <3>2. s \in Step
      BY <2>1, <3>1, FrameParts
    <3>3. IsTaken(f, s)
      BY <2>1, <3>1 DEF Walks
    <3>4. /\ s.array \in DOMAIN f.due /\ s.index \in DOMAIN f.due[s.array]
          /\ s = [array |-> s.array, index |-> s.index, middleware |-> f.due[s.array][s.index]]
      BY <3>2, <3>3 DEF IsTaken, Step
    <3> QED BY <3>3, <3>4 DEF IsTaken
  <2>3. ASSUME NEW s \in due, ~Skips(f.type, s.middleware)
        PROVE  s \in ToSet(f.seen)
    <3>1. PICK i \in DOMAIN f.due : \E j \in DOMAIN f.due[i] :
                 s = [array |-> i, index |-> j, middleware |-> f.due[i][j]]
      OBVIOUS
    <3>2. PICK j \in DOMAIN f.due[i] : s = [array |-> i, index |-> j, middleware |-> f.due[i][j]]
      BY <3>1
    <3>3. ~Before(f.arrayIndex, f.inArrayIndex, i, j) /\ IsReached(f, i, j)
      BY <2>1, <1>2 DEF Walks
    <3>4. ~Skips(f.type, f.due[i][j])
      BY <2>3, <3>2
    <3> QED BY <3>2, <3>3, <3>4 DEF IsReached, ToSet
  <2>4. InOrder(f.seen)
    BY <2>1 DEF Walks
  <2> HIDE DEF due
  <2>5. ToSet(f.seen) = {s \in due : ~Skips(f.type, s.middleware)}
    BY <2>2, <2>3
  <2> QED BY <2>4, <2>5 DEF InOrder, due
<1> QED BY <1>2 DEF PassesWhatItStartedWith

\* Whatever attaches and disposes middlewares meanwhile, the code of a call runs
\* after exactly the ones that were attached when it was called, in their order
\* (CollectedMiddlewares, which holds on to lists that are replaced when they
\* change, and runMiddleWares).
THEOREM AlwaysPassesWhatItStartedWith == Spec => []PassesWhatItStartedWith
<1>1. CallsInv => PassesWhatItStartedWith
  BY CodeCameAfterItsMiddlewares
<1> QED BY <1>1, Invariant, PTL

\* A recorder has every outermost call whose code ran, once and in the order of
\* the calls, nothing else, and the arguments a replay needs (onAction and
\* recordActions).
THEOREM AlwaysOutermostRecorded == Spec => []OutermostRecorded
<1>1. CallsInv => OutermostRecorded
  BY DEF CallsInv, Sound, RecordsInv, RecordsOf, IdsIn, OutermostRecorded, outermost
<1> QED BY <1>1, Invariant, PTL

LEMMA UnlockedByWhatPassed ==
  ASSUME CallsInv
  PROVE  WritesPassThrough
<1>1. /\ LocksInv /\ TypeOK /\ StackInv(stack, lists, calls, made, listening)
  BY DEF CallsInv, Sound
<1> SUFFICES ASSUME listening, NEW n \in Node, Writable(n), Subject \in Above(n)
             PROVE  \E i \in DOMAIN stack :
                      \/ Passed(stack[i], Recorder)
                      \/ stack[i].stage = "handler" /\ Subject \in Above(stack[i].node)
  BY DEF WritesPassThrough
<1>2. ~Idle /\ Top.stage = "code" /\ Above(n) \cap running # {}
  BY DEF Writable, InCode, IsRunningAction
<1>3. running = {stack[i].node : i \in DOMAIN stack}
  BY <1>1, Implied DEF UnlockedWhileRunning
<1>4. PICK i \in DOMAIN stack : stack[i].node \in Above(n)
  BY <1>2, <1>3
<1>5. Subject \in Above(stack[i].node)
  BY <1>4, AboveAncestors
<1>6. /\ DOMAIN stack = 1 .. Len(stack) /\ Len(stack) \in Nat /\ Top = stack[Len(stack)]
      /\ stack[i] \in Frame
  BY <1>1, <1>2, OnTop
<1>7. FrameInv(stack[i], i, Len(stack), lists, calls, made, listening)
  BY <1>1, <1>6 DEF StackInv
<1>8. Walks(stack[i], lists) /\ DueTo(stack[i], Recorder)
  BY <1>5, <1>7 DEF FrameInv
<1>9. stack[i].stage # "next"
  <2>1. CASE i < Len(stack)
    BY <2>1, <1>7 DEF FrameInv
  <2>2. CASE i = Len(stack)
    BY <2>2, <1>2, <1>6
  <2> QED BY <2>1, <2>2, <1>6
<1>10. stack[i].stage \in {"next", "handler", "code"}
  BY <1>6 DEF Frame
<1>11. CASE stack[i].stage = "code"
  BY <1>6, <1>8, <1>11, PassedWhatIsDue
<1>12. CASE stack[i].stage = "handler"
  BY <1>5, <1>12
<1> QED BY <1>9, <1>10, <1>11, <1>12

\* While the recorder listens, nothing in its tree can be written but in a call
\* that was handed to it, or that the handler of another middleware of the tree
\* makes (isRunningAction looks at the node and its ancestors, and so do the
\* middlewares of a call).
THEOREM AlwaysWritesPassThrough == Spec => []WritesPassThrough
<1>1. CallsInv => WritesPassThrough
  BY UnlockedByWhatPassed
<1> QED BY <1>1, Invariant, PTL
=============================================================================
