# A TLA+ model of mobx-state-tree

This directory holds specifications of the runtime of `mobx-state-tree` (the
fork in `src/`): modules that model its core, TLC configurations that check
them on small instances, and proofs that TLAPS checks. File names without a
path are under `src/src/core/`, `src/src/core/node/`, `src/src/types/` or
`src/src/middlewares/`.

## The system

A *type* describes a shape; `Type.create(snapshot)` builds a tree of *nodes*
that holds observable *instances*. Everything is synchronous JavaScript except
`flow`, so what makes the code hard is not parallelism but re-entrancy (hooks,
middleware and reactions run in the middle of a write), writes that fail half
way, laziness (a child is built when it is first read), memos that outlive what
they were computed from, and several pieces of state that have to agree: the
stored children, the parent pointers, the life cycle, the identifier caches and
the references that read them.

| component | state | operations | what must hold | modelled in |
|---|---|---|---|---|
| Object nodes (`object-node.ts`, `BaseNode.ts`, `create-node.ts`, `type.ts`, `model.ts`) | life cycle, instance state, parent, subpath, children, environment | create, first read, assign an instance or a snapshot, clear, detach, destroy | children and parents agree; a tree is a tree; a node keeps its environment; a dead node never comes back | `StateTree`, `ObjectNodes` |
| Identifier caches (`identifier-cache.ts`) | nodes per identifier, a modification counter per identifier | add, merge, split, died, resolve | a cache registers exactly the nodes of its tree; an identified node is in one scope at a time; a memoized resolution is never stale | `StateTree`, `IdentifierCaches` |
| References (`reference.ts`) | stored identifier, memoized target, hooks on the target | resolve, assign, invalidate | a safe reference watches what it resolves to and clears itself when it goes, and only then | `SafeReferences`, `IdentifierCaches` |
| Arrays (`array.ts`) | item nodes with their index as subpath | splice, assign, replace through `reconcileArrayChildren`; detach | every item is at its own index, once; items that drop out die; named items keep their node; a refused insertion is rolled back | `ArrayWrites` |
| Maps (`map.ts`) | item nodes under their keys, the identifier mode of the type | set, put, delete, detach, applySnapshot | an item is under its own identifier; a refused write changes nothing; hooks may write meanwhile | `MapWrites` |
| Patches (`json-patch.ts`, `emitPatch`, `recordPatches`) | patch listeners, the recorder's two lists | onPatch, applyPatch, record, undo, replay | inverse patches undo, patches replay, for any listener | `Patches` |
| Paths (`json-patch.ts`, `node-utils.ts`) | escaped subpaths | getPath, getRelativePath, resolvePath | a path leads back to the node it was made for | `Paths` |
| Actions and middleware (`action.ts`, `on-action.ts`) | `_isRunningAction`, `currentActionContext`, middleware lists, recorded calls | call, next, throw, add and dispose middleware, record, apply | locks and context are restored; a call passes the middlewares it started with; a recorder has what a replay needs | `Actions` |
| Flows (`flow.ts`) and action tracking (`create-action-tracking-middleware.ts`, `createActionTrackingMiddleware2.ts`) | generators and promises; entries with counts of open flows | spawn, resume, return, throw; onStart ... onFinish | counts are exact; every tracked action is reported once, after its flows | `Flows`, `ActionTracking` |
| Unions (`union.ts`) over `late.ts`, `optional.ts`, `resilient.ts`, `snapshotProcessor.ts`, `frozen.ts`, `literal.ts` | three memos, late definitions, registries, type checking on or off | is, create, assign | scoping and memos change no verdict; what is accepted gets built; production dispatches like development | `TypeAlgebra`, `Unions` |
| Snapshots (`object-node.ts`, `model.ts`) | initial, memoized and frozen snapshot | getSnapshot | a reader sees the latest state; of a dead node, its last | `ObjectNodes` |
| User life-cycle hooks (`object-node.ts`, `BaseNode.ts`, `utils.ts`) | hooks that have run, disposers | afterCreate ... beforeDestroy, addDisposer | each hook in order and once; nothing dies unannounced; disposers run | `ObjectNodes`; partly in `MapWrites`, `Patches` |
| `lazy.ts` | list of pending nodes | instantiate, reconcile, load | every placeholder of a property is replaced, where it is, with the value it has | `Lazy` |
| Scalar nodes, primitives, TypeScript types, reflection, printing, build | none that changes | | | not modelled |

Components call each other synchronously: an assignment goes through a MobX
interceptor (`willChange` of model, map or array) to `reconcile` and
`instantiate` of a type, which move nodes (`setParent`, `die`), which move
identifiers between caches and fire hooks, on which references listen; then
`didChange` emits patches up the tree. Every action passes the middlewares of
the node and its ancestors.

## Modules

Each module begins with a comment that says what its state stands for.
`PROJECT.json` gives, for every definition, the lines it models.

| module | models | granularity |
|---|---|---|
| `Forest` | walks up the parents, as least closed sets; no state | |
| `IdentifierScope` | abstract: an identified node is in the scope of one tree, and moves only with its subtree or its whole tree | |
| `StateTree` | object nodes and their caches: `life` (NodeLifeCycle), `built` (`_observableInstanceState`), `parent`, `subpath`, `contents` (children), `env`, `rooted` and `cache` (`identifierCache`). One action per public operation | an operation, with all it calls |
| `ObjectNodes` | one tree of object nodes: `life`, `built`, `parent`, the hooks each node heard, its disposers, and its snapshots (`value`, `initial` for `_cachedInitialSnapshot`, `memo` for `_snapshotComputed`, `frozen` for `_snapshotUponDeath`); the call stack is an agenda of steps, and a step "user" makes any calls of the program before it returns | from one piece of user code to the next |
| `HookProtocol` | abstract: what a node may hear after what | |
| `IdentifierCaches` | cache objects, modification stamps, memos of references; a tree is its cache | a call on a cache |
| `SafeReferences` | `types.safeReference`: the stored identifier and the node its hooks are on | an operation on the tree |
| `ArrayWrites` | `reconcileArrayChildren`, one step for each value, with reuse, adoption, building, the catch block | a value of a write |
| `AtomicList` | abstract: a write to an array takes effect as a whole or not at all | |
| `MapWrites` | `types.map` of identified items: a stack of writes under way, since the hook of an item that dies may write in turn | up to the next hook |
| `Patches` | one store with an array, a map and a property; a write is a function from a document to a document and the patches it emits, in their order | a write |
| `Paths` | escaping, splitting and joining, relative paths, resolution; strings are sequences of characters | a resolution |
| `Lazy` | extends `Paths` by one lazy type, that of a property of the models in a map: what stands in the property of each model (placeholder, loaded, dead), `pendingNodeList`, how far the load and the walk are | a write; one turn of the `forEach` |
| `Actions` | the middlewares each running call passes, contexts, locks, the recorder. A tree is given by the way up from each node (`Up`), which actions do not change; a list of middlewares is a number, as `CollectedMiddlewares` holds the array and not a copy, and a frame has its two indices. What was attached when a call began (`due`) and what it passed (`seen`) are history | a `next`, a call, a return |
| `Flows` | numbers, contexts and generators | a step of a generator, an event |
| `ActionTracking` | the entries of both tracking middlewares over the events of `Flows` | an event |
| `Lifetimes` | abstract: what is started gets settled, once | |
| `TypeAlgebra` | what wrapped types validate, build and reconcile, as functions over a finite universe of types | |
| `Unions` | validation, dispatch and the three memos of one union, and a property that holds its value | an `is`, a create, an assignment |
| `ObjectNodesInvariant` | the inductive invariant of `ObjectNodes` and what its steps do, in the terms of that invariant; it models no code | |
| `ObjectNodesProofs`, `StateTreeProofs`, `SafeReferencesProofs`, `IdentifierCachesProofs`, `ArrayWritesProofs`, `MapWritesProofs`, `ActionsProofs`, `ActionTrackingProofs` | theorems and proofs, see Proofs | |
| `MC...` | constants, identifier assignments and symmetry for TLC | |

Composition: `StateTree`, `SafeReferences` and `ObjectNodes` extend `Forest`; `Lazy` extends `Paths`;
`ActionTracking` extends `Flows`; `Unions` extends `TypeAlgebra`. Refinement:
`StateTree` and `IdentifierCaches` both implement `IdentifierScope` (as
`ImplementsScope`), which is how the two views of the caches are tied together;
`ArrayWrites` implements `AtomicList`; `ObjectNodes` implements `HookProtocol`;
`ActionTracking` implements two copies of `Lifetimes`, one for each middleware.

A definition that begins with `mutant:` in its comment is not part of the
model: it is a wrong version of the definition behind it, kept to see that the
properties notice it.

## Runs

| run | module, cfg | bounds | what it shows |
|---|---|---|---|
| `tree` | `MCStateTree`, `TreeProperties.cfg` | 4 nodes (3 identified), a map entry, a required property, one environment besides none | `PathsAgree`, `RootedForest`, `CacheExact`, `DeadStaysOut`, `EnvironmentKept`, `ImplementsScope` |
| `object_nodes` | `MCObjectNodes`, `ObjectNodes.cfg` | a root, two nodes nothing has read and an instance, in 4 shapes; 3 programs of user code, 4 calls; production (see below) | `Announced`, `Released`, `SnapshotIsCurrent`, `HeardInOrder`, `LeavesFirst`, `DeathKeepsSnapshot` |
| `caches` | `MCIdentifierCaches`, `IdentifierCaches.cfg` | 4 nodes on 2 identifiers, 3 caches, 1 reference, stamps up to 2 | `SetsExact`, `MemoIsCurrent`, `ImplementsScope` |
| `array` | `MCArrayWrites`, `ArrayPromise.cfg` | 4 nodes (two share an identifier), length 3 | `Placed`, `IdentityKept`, `ImplementsList` |
| `array_double` | `MCArrayWrites`, `Double.cfg` | 3 nodes, length 3 | violation of `StoredOnce`, see Findings |
| `safe_references` | `MCSafeReferences`, `SafeReferences.cfg` | 1 host, 3 targets (two share an identifier), 1 container | `WatchesWhatItResolves`, `ClearedWithTarget`, `ClearedOnlyWithTarget` |
| `maps` | `MCMapWrites`, `MapWrites.cfg` | 2 keys, 3 and 2 nodes of their identifiers, 2 writes by hooks | `Placed`, `RefusedChangesNothing`, `AppliedInPlace` |
| `patches` | `MCPatches`, `Patches.cfg` | 3 identifiers, 2 values, 2 keys, 2 items, 2 writes and one undo or replay after another | `UndoRestores`, `ReplayReproduces` |
| `lazy` | `MCLazy`, `Lazy.cfg` | two keys out of fifteen over `/ ~ 0 1 .`, depth 2; two models under an ordinary, an empty or an escaped key, with a lazy property of an ordinary, an empty or a tilde name; 3 lazy values, 2 snapshots | `PathsLeadBack`, `LoadEnds` (with fairness), `LoadKeepsSnapshots` |
| `actions` | `MCActions`, `Actions.cfg` | 3 nodes in 2 trees, recorder and logger, 3 calls, nesting 2, 3 changes of a list | `UnlockedWhileRunning`, `PassesWhatItStartedWith`, `OutermostRecorded`, `WritesPassThrough` |
| `action_tracking` | `ActionTracking`, `ActionTracking.cfg` | 4 actions and flows, 1 yield each | `CountsAreExact`, `ReportsAsDocumented`, `ImplementsLifetimes` (with fairness) |
| `unions` | `MCUnions`, `Unions.cfg` | 14 types, 17 unions of 2 or 3 of them, eager or not, fixed or a registry | `ValidatesAsDefined`, `BuildsWhatItAccepts`, `QuickMatchAgrees`, `AssignsWhatItWouldBuild` |

Why these bounds are enough to meet the hard cases:

* `tree`: a write can involve a node, its parent, what it replaces and what is
  below it; with four nodes all of them differ, and a moved subtree has depth.
  Required and map slots differ only in what they refuse.
* `caches`: a stamp repeats, if it can, within a split and a merge, which takes
  three caches; ambiguity takes two acceptable nodes and one that is not.
* `array`: claiming the wrong old node takes two old nodes and two values, and
  one item behind them; four nodes leave one to build or adopt.
* `safe_references`: a second target with the same identifier is what a stale
  hook confuses with the first; a third is what an assignment moves to.
* `maps`: a hook may replace what the write around it is about to store, and the
  item it drops has a hook too, which takes three nodes of one identifier.
* `patches`: order matters between patches of one write and between two writes;
  three identifiers let one item be reused, one dropped and one added.
* `actions`: every pair of mechanisms (hook in action, resumed flow, middleware
  that is disposed while it runs) fits in three calls; deeper stacks repeat.
* `action_tracking`: a root action, an action under it and a flow of each, or one
  action with three flows, one of which awaits another.
* `unions`: the types are chosen as pairs that can be confused: two with one tag,
  a literal one and one that is open, wrapped and bare, late and resilient, and a
  late one that shares its tag with one that is defined from the beginning.
* `object_nodes`: a chain of three is the shortest in which a hook of one node acts
  on its parent and on its child, and a fourth node is what gets placed or moved;
  four calls let a hook within a hook act on what a third call prepared (five calls
  were checked once and show nothing else). The programs are the combinations of
  calls that touch the same state: moving, disposers, snapshots. Development differs
  in that it throws where a node is finalized that has died; the calls that lead
  there are doomed (`"cut short"`), so with `Doomed = {}` every behaviour of
  development is one of production, and `DevMode = FALSE` in the cfg covers both.
* `lazy`: three values let one be loaded, one die and one be added in one walk. What
  `LoadEnds` depends on is the name of the property, which the patch does not
  escape; the keys of the map are those that the path to the model has to escape.
  Paths: longer keys consist of pieces that are escaped independently, but for
  an escape that begins with the `~` of another, which two characters show.

Runs state `CHECK_DEADLOCK FALSE` where the bounded supply of nodes, calls or
writes can be used up; the cfg says which.

Each passing property comes with a mutant of the model that it refutes
(`PROJECT.json`, `mutants`), so none holds by the shape of the model alone.

`TypeOK` is stated in each module with variables. It is proved for `StateTree`,
`IdentifierCaches`, `Actions` and `ActionTracking`, and adding it to the `INVARIANT`
line of a cfg checks it there; the runs are kept for properties that say more.

## Fairness

`ActionTracking` and `Lazy` have liveness properties.

`Fairness` of `ActionTracking` is weak fairness of
`EndCode` (synchronous user code terminates: nothing else runs until it does),
and of `ResumeFlow(f)` and `EndFlow(f)` for each flow (the event loop runs every
microtask; the promise a flow awaits settles). Awaiting a promise that never
settles is a program that is meant to hang, and so is a generator that never
ends. No fairness is assumed of starting actions or flows. Under it
`Lifetimes1!Spec` and `Lifetimes2!Spec` say that whatever is started is
settled.

`LazySpec` has weak fairness of `Loader`: the promise of `loadType` settles, one way
or the other, and a walk that has begun goes on, since it is one synchronous
`forEach`. None is assumed of the writes of users, nor that the promise is kept:
`LoadEnds` says what follows if it is not rejected.

## Proofs

All that follows is proved for every value of the constants. Where it says
`Doomed = {}`, the hypothesis excludes the writes whose outcome is known to break
the promise (Findings); without them the code keeps it. Each proof module but
`ObjectNodesProofs` has one lemma for each action of `Next`, and the invariants were checked with TLC
before they were proved.

| theorem | says | hypothesis |
|---|---|---|
| `StateTreeProofs`: `TypeCorrect`, `PathsAlwaysAgree`, `AlwaysAForest`, `CachesAlwaysExact` | `TypeOK`, `PathsAgree`, `RootedForest`, `CacheExact` | `Doomed = {}` |
| `TheDeadStayOut`, `EnvironmentsAreKept` | `DeadStaysOut`, `EnvironmentKept` | `Doomed = {}` |
| `TreeImplementsScope` | `StateTree` implements `IdentifierScope` | `Doomed = {}` |
| `SafeReferencesProofs`: `Invariant`, `AlwaysWatchesWhatItResolves` | `WatchesWhatItResolves` | `Doomed = {}` |
| `AlwaysClearedWithTarget`, `AlwaysClearedOnlyWithTarget` | `ClearedWithTarget`, `ClearedOnlyWithTarget` | `Doomed = {}` |
| `ObjectNodesProofs`: `AgendaInvariant`, `EveryoneAnnounced`, `EveryoneReleased` | the invariant below, `Announced`, `Released` | `Doomed = {}` |
| `ChildrenLeaveFirst`, `HooksInOrder` | `LeavesFirst`, `HeardInOrder`: `ObjectNodes` implements `HookProtocol` | `Doomed = {}` |
| `SnapshotInvariant`, `SnapshotsCurrent`, `DeathKeeps` | the invariant of snapshots below, `SnapshotIsCurrent`, `DeathKeepsSnapshot` | `Doomed = {}` |
| `IdentifierCachesProofs`: `TypeCorrect`, `SetsStayExact`, `MemosStayCurrent`, `CachesImplementScope` | `TypeOK`, `SetsExact`, `MemoIsCurrent`, the refinement of `IdentifierScope` | |
| `ArrayWritesProofs`: `ItemsAndNodesAgree`, `NamedNodesAreKept`, `ArrayIsAtomic` | `Placed`, `IdentityKept`, the refinement of `AtomicList` | `Doomed = {}` |
| `MapWritesProofs`: `HeldUnderItsKey`, `RefusalsChangeNothing`, `SnapshotsApplyInPlace` | `Placed`, `RefusedChangesNothing`, `AppliedInPlace` | `Doomed = {}` |
| `ActionsProofs`: `LocksAreRestored`, `TypeCorrect` | `UnlockedWhileRunning`, `TypeOK` | |
| `AlwaysPassesWhatItStartedWith`, `AlwaysOutermostRecorded`, `AlwaysWritesPassThrough` | `PassesWhatItStartedWith`, `OutermostRecorded`, `WritesPassThrough` | |
| `ActionTrackingProofs`: `TypeCorrect`, `CountsAlwaysExact`, `AlwaysReportsAsDocumented` | `TypeOK`, `CountsAreExact`, `ReportsAsDocumented` | |
| `SettlesOnce` | `ImplementsLifetimes` without its liveness | |

### Trees and caches

None of the invariants of `StateTree` is inductive alone. `PathsAgree` speaks of
pairs, and a write kills a whole subtree, so one has to know that what is stored
below a live node is exactly what walks up to it. `IInv` conjoins `TypeOK`, `Rooted`
(every walk up ends at a root), `LiveLinks` (only live nodes are linked),
`Constructed` (what does not exist has no contents and no cache), `PathsAgree`, and
`CacheByRoot` (`CacheExact`, seen from below: the cache of a live root is the set of
identified nodes whose walk up ends there). The proof modules of trees begin with the
lemmas about walks that they need: a walk is a least closed set, so induction over a
rooted forest is a lemma on subsets of `Node` (`ForestInduction`); what a root is, and how
roots change when a subtree is grafted (`Graft`). `StateTreeProofs` adds what is stored
below a node, and roots after a subtree is cut, killed or transplanted.

`EnvironmentKept` relates the root of a node before a step to its root after it, when
the two may be different nodes: `EnvironmentsAreKept` takes for each action the nodes
whose root changes, and uses that what was adopted had no environment of its own or
that of the tree, and that what leaves takes it along.

For the refinement, `IdentifierScope` allows two steps: a write to one tree, in
which members die, new ones are built and other trees are adopted whole, and a
split. `Promised` says what each action does to the roots of all nodes, and that
this is one of the two, or no change, follows once.

`IdentifierCachesProofs`: the invariant adds to `SetsExact` that a memo is from the
past: its stamp is at most the counter of its cache, and while it is equal the
set it was looked up in is unchanged.

`SafeReferencesProofs`: the invariant conjoins `Rooted`, `LiveLinks`, that hosts that
were read live, `Unambiguous` (one living target for each identifier and tree,
which `identifier.ts:97` asks of users and additions have as guard) and
`WatchesWhatItResolves` itself. The difficulty is what a step does to the targets of
all hosts at once: a lemma says for death, detaching and attaching which roots
change, and from it which references resolve to something else.

### Hooks

`ObjectNodesProofs`, for any finite set of nodes, any rooted shapes (a snapshot is a
tree), any programs of user code and any number of calls, so for hooks that call
the library within hooks to any depth. Each step on the agenda was planned when
something was true that has to be true still when its turn comes, although user
code ran in between: this is what an interleaving can break here, and what the
invariant `IInv` says, step by step. The agenda is read as a stack, from its last
step up, since what an action does to it is then to keep it up to a height, to pop
at most one step above, and to push (`Moves`). `ObjectNodesInvariant` defines `IInv`, the
invariant of snapshots and these effects. The parts of `IInv` are:

* `NothingTaken`, `NotRevived`, `OfTheLiving`: no step that is done earlier removes or
  kills a node of a later one, except its own farewell. In development this includes
  the nodes that are to be finalized (`Finishing`), so that `Finalize` never throws;
  in production those may die before, and are then passed by. The theorems hold for
  both values of `DevMode`.
* `Storing`, `Leaving`, `LeavingEarly`, `MovedOnce`, `Detaching`, `Attaching`, `Creating`,
  `Finalizing`, `Disposing`, `DisposedOnce`, `DyingPlaced`: what each kind of step relies
  on. A node that is to be stored still has the parent it was given; one that leaves
  is finalized and has heard `beforeDetach`; one that is to be finalized is created,
  and its parent is finalized.
* `LifeOfNodes`, `CreatedOnce`, `HeardNothing`, `HeardLast`: what a node has heard last
  says, with the steps planned for it, whether it is finalized and placed.
* `NotTooEarly`, `Awaited`: every node that is created is finalized by a step that is
  planned, or waits for a parent that is not finalized; and nothing finalizes it
  before its `afterCreate`. From this follows `Announced`.
* `DiesSoon`, `DiesUnchanged`, `ToldFromAbove`, `ToldBy`, `OnceSaid`, `ChildrenCovered`,
  `ChildrenDone`, `NothingBelow`, `NothingFound`, `WillSay`, `ParentBuilt`: how far the walk of
  `aboutToDie` is. `Past` says of a node that it dies with a certain step and that
  nothing on the stack will come to it before; what has said farewell is past, a
  child is told before its parent says farewell, and below a node without instance
  that the walk is past nothing has one. From this follow `LeavesFirst` and, with
  `Disposed` (what a node owes its disposers), `Released`.

`NextMoves` reduces each action to its effect (`Effect`), after which there is one
lemma for each part of `IInv` (`...Stays`) instead of one for each action and part.
`Climb`, a recursion up the parents, is the walk of `Forest` (`ClimbReaches`), and
`DyingDone` is the induction down a tree that dies: all its instances have said
farewell and all disposers have run. That the hooks implement `HookProtocol`
needs of each hook on top of the stack what its node heard last, which is
`Detaching`, `Attaching`, `Creating` and `Finalizing`.

The proofs showed three calls that the model had to tell apart and bounded runs had
not met: a child that is attached to a node without instance, while the walk is
about to look for children it did not have, is told (`FoundLate`); a subtree with a
node in the middle of its finalization, attached to what dies, is revived; and a
snapshot that is read above a node without instance, below which something is being
stored or removed, keeps what was there (both are doomed calls, see Findings).

### Snapshots

The snapshot of a node may come from five places: from its own memo, from the memos
of its children, from the snapshot a node without instance was asked for before, from
what a node died with, and from what the nodes store. `Snapshots` says of each when it can
be used, and `Changing` of the changes that are planned:

* `MemosCurrent`, `InitialsCurrent`: what is kept is `Current`, the latest state of a live
  node and the last one of a dead node.
* `MemosTracked`: a memo of a live instance is tracked, and so is what it was made of:
  no child is without memo. This is why a change that drops a memo drops all above
  it (`OutdatedAll`), although MobX goes no further up than the first node without one.
* `MemosOfUnbuilt`, `InitialsBelow`: below a memo, every node without instance has been
  asked for its snapshot (`MemoBelow`), and keeps it. So no node whose instance is made later
  was left out, and what `refreshMemoizedSnapshot` recomputes is enough.
* `Changing`: no node is stored, given up or dies below a node that keeps the snapshot it
  was asked for. The guards of `Attach`, `Detach`, `Destroy` and `ReadSnapshot` establish it,
  and it has to hold until the step is done, whatever is read in between.

`Value` recurses down the tree, which `ValueIs` follows by induction over a finite
forest (`ChildInduction`: of the nodes without the property, one has the smallest
subtree). It says that `getSnapshot` shows `Current`, whether it reads memos or not. After it
the steps are of three kinds, with a lemma for each: what a live node stores changes
(`Touches`), memos are dropped and nodes die (`Drops`), or memos are made (`Memoizes`).
`Die` freezes what `getSnapshot` shows before the parent lets go, hence `DeathKeepsSnapshot`.
What the proof adds to the assumptions on constants is that `Unread` is neither a
snapshot nor a memo: in the code it is `undefined`.

### Arrays and maps

`ArrayWritesProofs`: while a write is under way the array is what it was, and the
nodes are not. The invariant (`UnderWay`) says that the array agreed with its nodes
when the write began (`PlacedIn`), that what is replaced is a slice of it (`Slice`),
that each value so far has become a node of its own, which came in or was claimed
(`Results`), and that no other node has changed (`Moved`). From what a write may be
given (`Sane`) it follows that only an insertion throws (`OnlyInsertionsThrow`), which
is why letting go of adopted and built nodes is enough, and that an item named in
a write that replaces it is still unclaimed (`HereIsReused`). The three ways to
take a value share one lemma (`TakeStep`).

`MapWritesProofs`, for any depth of hooks that write inside of writes: a hook runs
between the moment a write takes note of two nodes and the moment it uses them, so
the invariant (`Claims`) says of each frame that waits that its note is still true:
what is replaced is in the map under that key (`ReplaceClaims`), what replaces it is
in no tree and has the key for identifier, what is removed is out of the map and
alive (`RemoveClaims`), no two frames claim the same (`OneEach`), and nothing is
stored before the type knows that its items have identifiers (`NothingYet`).
`Accounted` covers the nodes that have left the map and wait for their death.
There is a lemma for each thing a write does to the map (`Added`, `ReplaceBegins`,
`ReplaceEnds`, ...) and one for what frames a write returns to (`Weaker`).

`SnapshotsApplyInPlace` needs to know how far an `applySnapshot` is (`Progress`): what
is stored is in the snapshot or will be deleted, what is in the snapshot is
stored or will be set, and what was to be kept is still there. This holds as long
as no hook has written since it began (`Undisturbed`), when the only frame above it
can be one of its own writes, which replaces nothing that was to be kept: the item
under a key has the key for identifier (`Claims`), and so has a snapshot that
shows one, hence `tryToReconcileNode` keeps the item.

### Calls

`ActionsProofs`, for any forest of nodes, any middlewares and any depth of calls.
What a call restores when it ends was read when it began, so the invariant
(`LocksInv`) says of every frame of the stack that it remembers the context and the
lock that the frames below it make. The other half (`Sound`) follows the walk of a
call through its middlewares: the lists it holds are never changed, only replaced
(`HeldIn`), what it has passed are members of these lists in their order and without
a gap (`Walks`), and the recorder is in at most one place of them (`DueOnce`), since it
is in one list once (`RecorderOnce`). `Numbering` says that what has no number yet is
in no history; `RecordsOf` that the records are the outermost calls that were handed
to the recorder and on (`HandedOn`), in the order of their numbers.

`ActionTrackingProofs`, for any number of actions and flows: the part about `Flows`
(`EngineInv`) says that numbers not given out are unused (`Unnumbered`), that parent,
root and action of a call were numbered before and are what they are for
(`Family`), and that a frame of the stack is a running call, a `flow_spawn` right
below the `flow_resume` of the same flow, all under one root (`IsStack`). Each event
changes the open flows below an action by at most one (`FlowAdded`, `FlowRemoved`), so
the counts follow (`FirstInv`, `SecondInv`). `ReportInv` relates what the first
middleware keeps (`failure1`) to the history: it is the first failed flow among
those that have ended, and everything that ended had its root off the stack.

### What stays with TLC

* Liveness: `LoadEnds`, and that what is started gets settled (`ImplementsLifetimes`);
  its safety part is `SettlesOnce`.
* What recursive functions and folds compute, which would take induction over
  data: `Paths` (`PathsLeadBack`), `Patches` (`UndoRestores`, `ReplayReproduces`: a list of
  patches is folded into a document), `TypeAlgebra` and with it the invariants of
  `Unions`.
* `LoadKeepsSnapshots` of `Lazy`, which extends `Paths`.

## Findings

One run shows a disagreement between the code and what the repository says:

* `array_double`: an overwrite (`items[1] = items[0]`, `replace([a, a])`) finds no
  old node for the second mention and `valueAsNode` takes any node whose parent
  is the array (`array.ts:703`), so the array holds it twice, although
  `array.test.ts:365` expects it "should not be allowed to add the same item
  twice".

The passing runs leave out further writes whose outcome is known to break a
property; each is a member of `Doomed`, which the cfgs set to `{}`, so that the
rest can be checked and proved. To see one, put it into `Doomed` and check the
property named here (in `StateTree`, with `SPECIFICATION DoomedSpec`):

| module | kind | what happens | source | property |
|---|---|---|---|---|
| `StateTree` | `"required"` | `detach` of a required property throws after the identifiers left the cache; the new cache is dropped and they resolve nowhere (`failed-writes.test.ts:15`: "A write that throws must leave the tree as it found it: no node killed, re-parented or registered under an identifier by the attempt.") | `object-node.ts:390-394` | `RefusedLeavesTree` |
| | `"unread"` | the same, for a node whose parent nothing has read | `object-node.ts:394` | `RefusedLeavesTree` |
| | `"halfBuilt"` | a snapshot that fails at a later property leaves what was built for the earlier ones registered, and the instances it adopted attached to a node nobody stores; over an occupied slot the stored node has died by then | `model.ts:859`, `type.ts:585-591` | `RefusedLeavesTree` |
| | `"placed"` | a snapshot with an instance in it that `setParent` or `createObjectNode` refuses (it has a parent, is the root of this tree, or has another environment): the node stored in the slot is dead when the instance is looked at (`failed-writes.test.ts:15`; `behavior-changes.md:5`: "A refused write leaves the tree as it found it") | `type.ts:585-591`, `create-node.ts:26-36`, `object-node.ts:460-474` | `RefusedLeavesTree` |
| | `"ancestor"`, `"environment"` | `setParent` refuses an instance after the current node died, in a property and in a map | `type.ts:585`, `object-node.ts:460-474` | `RefusedLeavesTree` |
| | `"sibling"` | an instance assigned to a second property of its own parent is stored twice | `type.ts:574` | `PathsAgree` |
| | `"dead"` | a destroyed root keeps its cache, so it is attachable (`behavior-changes.md:9` says a dead node is refused) | `object-node.ts:424-427` | `DeadStaysOut` |
| `ArrayWrites` | `"double"` | above | `array.ts:703` | `StoredOnce` |
| | `"refused overwrite"` | the catch block lets go of adopted and built nodes but leaves reused nodes under the subpath the write meant for them: two items have one path, and a later `detach` splices out the other one | `array.ts:468` | `RefusedWriteUndone` |
| `ObjectNodes` | `"placed"` | an instance is placed in the snapshot of a node that nothing reads: the node caches the snapshot it was created with, and `getSnapshot` above it keeps showing what the instance was then; a snapshot read while an instance below such a node is being stored or removed keeps the state before (`mst-operations.ts:353`: "The snapshot will always reflect the latest state") | `object-node.ts:542-551` | `SnapshotIsCurrent` |
| | `"unfinalized"` | a child that is read in its parent's `afterCreate`, and detached before the parent is finalized, is never finalized: it never hears `afterAttach` again | `BaseNode.ts:200-210` | `HeardInOrder` |
| | `"twice"` | a root that is attached from its own `afterCreate` hears `afterAttach` from `setParent` and again when it is finalized | `object-node.ts:481`, `BaseNode.ts:206` | `HeardInOrder` |
| | `"revived"` | a node that dies in its own `afterAttach`, by itself or with a dying tree that the hook attaches it to, is set to finalized, hence alive, when the hook returns | `BaseNode.ts:209` | `DeathKeepsSnapshot` |
| | `"cut short"` (with `DevMode = TRUE`) | in development, finalizing a node that is dead throws, and a node may be dead by then: its own `afterCreate` destroyed it, or the `afterAttach` of a sibling did. The nodes of the chain above it never hear `afterCreate`, and the other children are not finalized | `BaseNode.ts:190-197`, from `object-node.ts:337-345` and `671-673` | `Announced`, `HeardInOrder` |
| | `"again"` | the parent's `beforeDestroy` destroys a child that has been told already: it hears `beforeDestroy` twice | `object-node.ts:740` | `HeardInOrder` |
| | `"rescued"` | a node is detached by a hook of the walk that announces its death: it hears `beforeDestroy` and lives | `object-node.ts:740` | `HeardInOrder` |
| | `"late build"` | a node that nothing had read is read behind the walk: it dies without `beforeDestroy`, and its disposers are dropped | `object-node.ts:781` | `Released` |
| | `"late child"` | a child that is attached behind the walk dies without `beforeDestroy` | `object-node.ts:740` | `Released` |
| | `"late disposer"` | a disposer added by a disposer of the node, or after them, is dropped (`object-node.ts:762-763` avoids this for `beforeDestroy` only) | `object-node.ts:767` | `Released` |
| `Lazy` | `"escape"` | the path that replaces a placeholder holds the name of its property unescaped: with a `/` in it the patch throws, with a `~0` or `~1` it goes to another property | `lazy.ts:78` | `LoadEnds` |
| | `"refused"` | a snapshot the loaded type refuses throws out of the `forEach`: the placeholders behind it stay for good | `lazy.ts:67` | `LoadEnds` |
| `SafeReferences` | `"moved"` | hooks are placed once, by the `afterAttach` of the scalar node that holds the reference. A reference whose host or target joins the tree later is not cleared when the target leaves (`reference.ts:357`: "start watching once the node is attached somewhere / parent changes") | `reference.ts:358` | `ClearedWithTarget` |
| | `"late"` | a target created after its reference was built is not watched | `reference.ts:321` | `ClearedWithTarget` |
| `MapWrites` | `"created"` | creation never compares keys with identifiers (`map.ts:581`: "it is mandatory to store the child under that identifier in the map") | `map.ts:306` | `Placed` |
| | `"late"` | the mode is unknown until a map of the type is instantiated again | `map.ts:275` | `Placed` |
| | `"mismatch"` | a snapshot whose identifier shows only when it is built is refused after the old item died | `map.ts:376-381` | `Placed` |
| | `"own key"` | a `beforeDestroy` hook sets the key that is being replaced | `map.ts:376` | `Placed` |
| `Patches` | `Farewell = "first"` | a dying item's hook writes to an item the same write moved: its patch has a path the array does not have yet | `array.ts:264`, `array.ts:499` | `UndoRestores` |
| `Unions` | `Unions <- CatchAll` | a snapshot that resembles a tagged member is tried against such members only, so `union(types.model({type: literal A, x: number}), frozen())` refuses `{type: "A", x: "bad"}` (`union.ts:500`: "a catch-all could still accept the value, so fall through to full validation") | `union.ts:525` | `ScopingKeepsVerdict` |
| | no constant: in the run as it is | a discriminator that was looked up while a late member with the same literal was not defined is remembered as that of the other member. With A `{type: "A", x: number}` and a late A2 `{type: "A", x: string}`: after `is({type: "A", x: 1})` and then the definition of A2, `{type: "A", x: "s"}` is refused, which a union that was not asked before accepts (`union.ts:238`: "Union membership is fixed at construction, so the result for a given `type` string never changes"). `ValidatesAsDefined` holds for all other snapshots (`Outrun`) | `union.ts:238-255`, `507-512` | `MembershipIsFixed` |

Met while modelling, described by the models but not checked as properties:

* `object_nodes`: nodes that nothing has read hear nothing, also where
  `README.md:41` and `behavior-changes.md:13` promise `beforeDestroy` to them
  (`object-node.ts:745`). `destroy` of a node from a hook that runs in the middle of
  its own removal, or of an ancestor's, throws half way, and one from
  `beforeDetach` leaves the node in the state of detaching; such calls are not made
  (`Underway`).
* `lazy`: a lazy value that is itself an entry of a map or an item of an array is never
  loaded. The patch sets the frozen value the placeholder holds, which is what the
  map or the array reads at that place, so `willChange` takes it for no change
  (`map.ts:368-372`, `array.ts:192`, `scalar-node.ts:81-87`), and the placeholder
  stays. The `when` that should take dead placeholders off the list reads
  `node.isAlive`, which MobX does not observe (`lazy.ts:118`), so they stay on it;
  a rejected `loadType` is never called again (`lazy.ts:64`), and a lazy value that
  is a root is passed by (`lazy.ts:68`).
* `actions`: the node is unlocked before its middlewares run (`action.ts:100-108`),
  so what a handler calls before `next` can write unseen by the later ones
  (`WritesPassThrough` says so). Hooks that fire lazily outside any action are
  outermost and are recorded (`on-action.ts:264`), and a replay runs them again.
  The recorder leaves out calls of `extendInstance` (`on-action.ts:267`,
  `extend-instance.test.ts:175`), so what the initializers of an extension write or
  call in it is in no record; `OutermostRecorded` says so. The middlewares of a
  decorated action (`fn.$mst_middleware`, `action.ts:255-258`, pushed in place at 228)
  run before those of the nodes and are not part of `Collected`. A
  throwing action stops a replay midway (`on-action.ts:104-105`). Arguments are
  recorded by reference (`on-action.ts:68`), and a plain argument with a
  `$MST_DATE` field comes back as a date (`on-action.ts:75`).
* `action_tracking`: the second middleware gives `onFinish` the outcome of the flow
  that ended last, so an earlier failure is lost
  (`createActionTrackingMiddleware2.ts:140-154`), and an action nested in one with
  an unawaited flow may finish after it, against the order its comment shows
  (lines 60-71). In the first one a nested action settles when it returns, since
  events of flows are looked up by root id.
* `patches`: with `Farewell = "first"` the item that a hook writes to has been moved by
  the same write, which refutes `UndoRestores`; it holds with hooks that write
  elsewhere. `undo` "stops the recorder if not already stopped"
  (`mst-operations.ts:177`) but does not (265-267).
* `unions`: a `resilient` type accepts in `is` what `isValidSnapshot` refuses
  inside a union, where its fallback does not recover; a preprocessor that
  rewrites `type` breaks the scoping. With a resilient member production and
  development differ: of C in a resilient type with fallback F, and F itself,
  `{type: "F"}` goes to F in production (`union.ts:402-408`) and to the resilient type
  in development, whose `is` takes what its fallback takes (`resilient.ts:187-198`).
  `QuickMatchAgrees` is about snapshots that members take themselves (`Proper`), and
  `BuildsWhatItAccepts` does not say that the member that builds is one that accepts.
  A resilient member is no catch-all for the scoping either, so `ValidatesAsDefined`
  leaves unions with one out (`Recognizable`).
* `maps`: a refusal by `setParent` for an environment or an ancestor, after the item
  under the key died, is not in `MapWrites`; it is `"environment"` and `"ancestor"` of
  `StateTree`, whose optional slots stand for map entries.

## What the models leave out

* In all of them: type names, error texts, MobX itself (a write is seen by
  interceptor and observer in order, reactions run after the outermost action),
  `liveliness` levels, `unprotect`. Development mode is assumed unless a constant or
  variable says otherwise (`DevMode` of `ObjectNodes`, `checking` of `Unions`).
* `StateTree`: no user code runs within an operation; snapshots of two levels;
  reconciliation of a snapshot into a kept node, which changes no link.
* `ObjectNodes`: identifiers, environments and refused writes (see `StateTree`);
  snapshots with more than a value and the children; post-processors, `onSnapshot`,
  initializers that write; hooks that throw; the order of the disposers of a node;
  `removeDisposer`. It starts with a tree that `create` is about to return.
* `Lazy`: lazy entries of maps and items of arrays (never loaded, see Findings);
  models with several lazy properties; instances of the type before it is loaded; a
  second lazy type.
* `IdentifierCaches`: a call that moves several nodes of one identifier advances
  its counter once (stamps are compared for equality only).
* `SafeReferences`: one target per identifier and tree, which `identifier.ts:97`
  asks of users; custom references, `onInvalidated`, references in arrays and
  maps. A host nothing has read keeps a dangling identifier until it is read.
* `ArrayWrites`: hooks that write to the array meanwhile; items without
  identifiers. It stops after a doomed write.
* `MapWrites`: items without identifiers, identifiers that a preprocessor changes
  after they were compared, writes of hooks that are not caught by them.
* `Patches`: index `-`, patch lists of users that fail, filters, a subject that is
  detached. Positions count from 1, identifiers in the array are distinct, the
  order of keys in a map is any.
* `Paths`: keys `.` and `..`, which no path can tell from a step
  (`node-utils.ts:141` has a TODO), and steps through references.
* `Actions`: abort and results of middlewares, `attachAfter`, unprotected trees,
  the composed hook that loses a decorated middleware (`model.ts:677-688`).
* `Flows`: a middleware that aborts a resume, which makes the flow hang
  (`flow.ts:156-167`); yielding something other than a promise is no step.
* `Unions`: dispatcher functions, instances as values, refinements, unions in
  unions, preprocessors and fallbacks that throw.

## Plan

What a next step would take up:

1. `ObjectNodes`: post-processors and `onSnapshot`, hooks that throw;
   `StateTree`'s `Die` as its abstraction.
2. `Patches` with lists that fail midway.
