# Expression propagation in Polly: a TLA+ development

This directory models the *expression propagation* of this repository, a Polly
transformation that trades memory traffic for recomputation
(`llvm/tools/polly/lib/Transform/ExpressionPropagation.cpp`,
`llvm/tools/polly/include/polly/ExpressionPropagation.h`), the two analyses it
rests on (`llvm/tools/polly/lib/Analysis/DependenceInfo.cpp`,
`llvm/tools/polly/lib/Support/LiveOutAnalyser.cpp`) and what becomes of its
result: the new schedule, the dead code elimination, and the memory the code
leaves behind. File names below are relative to `src/llvm/tools/polly/`.

The pass runs once per Scop, in one thread. What makes it hard is not
concurrency but a mutable dependence graph: every operation edits edges, every
edit notifies the nodes at both ends, and every notification patches or frees
caches and adds further edges, in an order that depends on hash maps keyed by
pointers. None of this is visible to the tests, which look at the transformed
program.

## 1. Inventory

| Component | State | Operations |
|---|---|---|
| Access-wise dependences (`DependenceInfo.cpp`) | RAW, WAR, WAW, computed once per Scop | `collectInfo`, `buildFlow`, `buildWAR`, `calculateDependences` |
| Dependence graph (`ExpressionPropagation.h`) | `DefNode`s (a write: domain, operands, three caches), `UseNode`s (a read), edges between them, registered at both ends | `addEdge`, `addDep`, `intersectDomain/Range`, `setDep`, `notifyEdgeLess/More`, `getUsedDomain`, `getOverwrittenSet`, `getBarrier` |
| Dead iteration elimination | `MustDeleteNodes` | `restrictStmt`, `setDomain`, `deleteDeadIterations` |
| Propagation driver | worklist of `DefNodeGroup`s, `WorklistSet` | `propagateExpressions`, `propagateEdges`, `propagateEdge`, `splitUsingDefNode`, `addReloadAccesses`, `getRecomputeDomain` |
| Heuristics | stream and register counts | `isWorthRecomputing` |
| Rescheduling | the schedule tree, the dependences of the Scop, the copy domains of split statements | `adjustSchedule`, `addDependences`, `schedule`, `setNewDependences`, `clear` |
| DefNodeGroup merging | memory order dependences | `mergeDefNodeGroups`, `setMemOrderDeps` |
| Dead code elimination | - | `DeadCodeElim::eliminateDeadCode` |
| Recompute values | recompute trees | `ScopStmt::addRecomputeValue`, `copyStmt`, `BlockGenerator` |
| Live-out analysis | two worklists of pointers, the visited blocks | `isLiveOut`, `isLiveOutPointer` |
| Upstream Polly | - | detection, construction, other transformations, code generation |

**How they interact.** The dependence analysis is asked once, at access level.
`createDependenceGraph` turns its three maps into edges between the write of
each statement and the reads that feed it. Dead iteration elimination and the
driver then edit that graph; the driver calls `restrictStmt` after each
propagation. A deletion is told to the `ScopStmt` as a smaller domain. At the
end `addDependences` hands what is left of the edges to the isl scheduler: the
edges are the only thing that keeps the new schedule correct.
`mergeDefNodeGroups` adds an order of its own for arrays without any
dependence. `setNewDependences` then makes the edges the dependences of the
Scop, which every later pass believes. Before all this the live-out analysis
has said which arrays are read after the Scop; of the others dead writes are
deleted. `MustDeleteNodes` outlives the Scop: `clear` does not empty it, and a
node of the next Scop may be allocated where one of the last one was. There are
no messages and no threads; components interact by calls on the shared graph, and
the callbacks are the notifications of an edge that grows or shrinks.

**What is hard in it.**

* *Caches.* A `DefNode` caches the instances that are read (`UsedDomain`),
  the instances that are overwritten (`OverwrittenSet`) and the writes it must
  not be moved behind (`Barrier`). Each is patched or freed by the
  notifications of three kinds of edges. A stale answer deletes live instances.
* *Order of edits.* `setDomain` cuts five kinds of edges one after the other.
  The order lost in one kind is restored through another kind, which must not
  have been cut before.
* *Order of visits.* Edges of one kind are visited in `DenseMap` order over a
  copy, while the visits add edges.
* *Long sequences.* Each deletion is justified by the edges of that moment. A
  long sequence of deletions must still leave each read its source, each
  live-out cell its last write, and writes to one cell their order.

**What makes each part correct.**

* Dependences: every read depends on the write whose value it reads.
* Graph: a filled cache equals what the edges say, after any sequence of edits.
* Elimination: an instance whose value is still needed is never deleted; the
  order that the remaining instances need survives in the remaining edges;
  edges mention only instances that exist.
* Driver: a recomputed operand is never moved behind a write that overwrites
  it; an operand has one source before it is replaced.
* Rescheduling: there is an order to run the statements in, and the schedule in
  force respects the dependences in force.
* Live-out: memory that is said not to be live is not read after the Scop; the
  search ends, with an answer that does not depend on where pointers lie.
* All together: the code leaves every live cell as the program was written.

## 2. Modules

| Module | Models |
|---|---|
| `DependenceInfo` | a Scop (accesses with the cells each instance touches, the order of the instances) and RAW, WAR, WAW computed from it |
| `DependenceGraph` | the graph as a record `g`, the three caches, and one operator per way an edge grows or shrinks, notifications included; `createDependenceGraph` |
| `Restriction` | the state machine: `createDependenceGraph`, then any sequence of barrier queries and `restrictStmt`, each `setDomain` one visited edge per step |
| `DeadIterations` | what elimination promises the program: properties that relate the edited graph to the Scop as it was |
| `MCRestriction` | the instance for TLC: accesses, programs, schedules |
| `GraphRewrite` | what a propagation does to the graph: `getRecomputeDomain`, the split of a node, the removal of an operand, the edges of a reload |
| `Propagation` | the state machine of the whole pass: `runOnScop` from `createDependenceGraph` to `deleteDeadIterations` |
| `Recomputation` | what the pass promises the program and its own graph |
| `MCPropagation` | the instances for TLC: two families of programs and single programs |
| `Rescheduling` | the end of `runOnScop`: `adjustSchedule`, `mergeDefNodeGroups`, `schedule`, `setNewDependences`, `clear` |
| `Execution` | the composition: the pass, dead code elimination, and the code run in any order the schedule allows, on a memory |
| `Promise` | the abstract specification: one answer, the memory the program as written leaves, unless an excuse was used |
| `MCExecution` | the instance for TLC: programs of four statements |
| `LiveOut` | the live-out search, one worklist element per step, and what it has to answer |
| `MCLiveOut` | the instance for TLC: functions with five blocks and four users of a pointer |
| `GraphProofs` | one lemma per graph operation: what it returns, leaves alone and keeps coherent; a split keeps the dependences and the used domains: two theorems |
| `RestrictionProofs` | the caches of the graph: an inductive invariant and four theorems |
| `ReadProofs` | the edges of reads and their sources: two theorems on top of it |
| `WriteProofs` | the order of writes, of reads and later writes, and the last write to a live cell: three theorems on top of it |
| `PropagationProofs` | the pass as a whole: its inductive invariants and six theorems |
| `LoadProofs` | when the operands are loaded, and what the barriers say of it: two theorems on top of it |
| `SourceProofs` | where the values of the operands come from, and that no edge runs backwards: four theorems on top of it |
| `LiveOutProofs` | the search: three theorems |

`DependenceGraph` EXTENDS `DependenceInfo`; `Restriction` EXTENDS
`DependenceGraph`; `DeadIterations` EXTENDS `Restriction`; `GraphRewrite`
EXTENDS `DependenceGraph`; `Propagation` EXTENDS `Restriction` and
`GraphRewrite`, and takes the steps of a `setDomain` from the former;
`Recomputation` EXTENDS `Propagation` and `DeadIterations`; `Rescheduling`
EXTENDS `Recomputation` and `Execution` EXTENDS `Rescheduling`, which takes the
steps of the pass as they are and adds its own; `Execution` is shown to
implement `Promise` by `INSTANCE ... WITH`. `LiveOut` stands alone: its answer
is the input `liveOut` of a Scop, and the other modules take any set of arrays
for it.

### State and the code

* isl sets and maps are sets of instances and sets of pairs of instances.
  An instance of a statement is an element of `Inst`; a statement is named by
  its write (`Def`), as `DefNode` does, and its reads are in `Use`.
* `g.raw`, `g.war`, `g.waw` map a pair of nodes to the map of the edge between
  them. The code deletes an edge whose map is empty, so a missing edge and an
  empty one are the same thing.
* `g.used`, `g.over`, `g.barrier` are the caches; `Miss` is the null isl
  pointer.
* `must` is `MustDeleteNodes`. `Stale(s)` is the constant that says what it may
  hold when the pass comes to the Scop `s`: the sets of nodes that happen to be
  where nodes of an earlier Scop were. `WorklistSet`, which `clear` does
  not empty either, is empty by then: every group leaves it when it is taken.
* `op` is the `setDomain` in progress: the statement, which of its five loops
  is running, and the copy of the edges that loop has still to visit.

### Actions and the code

* `CheckBarrier(d)`: the head of `getRecomputeDomain`. It fills `Barrier`, and
  for a write that overwrites what it reads also `OverwrittenSet`, and may put
  `d` in `MustDeleteNodes`. The driver asks it only of groups of affine writes.
* `RestrictStmt(d)`: `restrictStmt` with its early returns, and the head of
  `setDomain` (`DefNode::setDomain`, which also cuts two caches).
* `VisitEdge`: one iteration of one of the five loops of `setDomain`, with the
  notification and all it calls. Which edge is next is a free choice.
* `NextPhase`: the end of a loop; the next one copies its edges now.

`restrictStmt` is called on any statement at any time: the model allows more
sequences than `deleteDeadIterations`, which calls it for each statement in
turn, and than the driver, which calls it for the source
of a propagation.

### The driver

`Propagation` adds three variables.

* `run` is where the pass is: the stage, the nodes its current loop has yet to
  visit, the groups on `Worklist`, the `TargetDomains` it has yet to cut along,
  `SplitsMap`, `NonPropTrgs`, the source being propagated with the edges
  captured for it, and the edge being propagated with the operands that are
  still to be reloaded. Three flags record history
  that properties need: something was propagated (`Changed` in the code), some
  edge was propagated without `FullProp`, some edge with a blocked use (or one
  that was no edge to propagate when the barriers were asked).
* `made` is the set of `DefNode`s that exist. `Orig` names the statement each
  node is a copy of; a copy has the schedule and the accesses of its original.
* `stands` says, for each operand and instance, which reads of the original
  program it loads the value for. The code has no such variable: it is what the
  recompute trees of `addRecomputeValue` mean.

| Action | Code |
|---|---|
| `RestrictNode`, `EndLoop` | the loops over `DefNodeMap` at the end of `createDependenceGraph` and in `deleteDeadIterations` |
| `PropagateEdges(a)` | `propagateExpressions` takes a group; `propagateEdges` up to the splits: targets, refusals, `getRecomputeDomain` of every edge, `NonPropSrcs` |
| `CutTarget` | the loop over `TargetDomains`: the splits of one target are cut along one more domain |
| `GiveUp`, `StartSplits` | the early returns behind that loop (a target that is not affine, a middle fix), or none of them |
| `Split(t)` | `splitUsingDefNode`: one copy, the edges distributed (`splitEdge`), and the `setDomain` that follows |
| `StartPropagation`, `PickSource(d)` | the loop over the nodes of the group; the edges of a source are captured |
| `PropagateEdge(k)` | `propagateEdge` up to `removeOperand` |
| `ReloadOperand(o)` | one iteration of `addReloadAccesses`, with `propagateEdgesToReloadOp` |
| `FinishEdge` | `clear` on the edge that was propagated |
| `Abort` | one of the two assertions on the way fails |
| `FinishSource` | `restrictStmt` on the source |
| `FinishGroup`, `EndWorklist` | the end of a group, of the worklist |
| `VisitEdge`, `NextPhase` | the `setDomain` in progress, as in `Restriction` |

Free choices: the order of the worklist (a heap over heuristics), whether a
group or the targets in an array are worth it (`isWorthRecomputing`, the
vectorisation tests), the order of target domains, sources and edges (hash maps
keyed by pointers), and whether isl notices that two accesses are equal
(`isl_map_plain_is_equal` may say no).

### From the graph to the memory

`Rescheduling` adds one variable, `code`: what the code generator is given. It
is written once, by `Reschedule` or `KeepOriginal`, and holds the domains, the
statements with a `CopyDomain`, an order of the instances, the new dependences,
and what each instance loads with the value it needs to find there.

| Action | Code |
|---|---|
| `Reschedule` | the end of `runOnScop` after something was propagated; the new order is any that respects the edges and the order of `mergeDefNodeGroups`, or the old one if isl finds none |
| `KeepOriginal` | nothing was propagated, or the result is not profitable and the Scop is left as it was |
| `Compile` | either of them, and code is generated for all instances that have a domain; only if no access is non-affine, see below |
| `EliminateDeadCode` | `eliminateDeadCode` on the new dependences |
| `Execute(p)` | an instance runs that nothing before it in the order is waiting for |

`Clear`, part of both `Reschedule` and `KeepOriginal`, is `clear`: everything
but `MustDeleteNodes`.

A value is named after the write instance of the original program that computes
it, and `Wrong` is a value the program would not have computed. An instance
writes its own value if every cell it loads holds the value that the original
program read there, and `Wrong` otherwise: what a copy of an expression computes
is a function of what it loads, so no expression has to be modelled.

The record also names the *excuses* that were used, the ways in which the pass
is known to go wrong (section 3): a *blocked* edge was propagated, the old order
is used although it breaks the edges (*unscheduled*, cpp:2869), or an order was
lost with a deleted dead store (*deadStore*).

### The live-out search

`LiveOut` has one action per iteration of the two loops of `isLiveOutPointer`
(`VisitBlock`, `VisitUser`), one for the early answers (`Ask`) and one for the
end of each loop. A program is a base pointer, its users and theirs, their kinds
as the search tells them apart, and the blocks. `LiveUse` and `SkippedUse` are
the `if`s of the second loop. Both worklists are sets, and which element is next
is free, as the order of a `SmallPtrSet` is.

## 3. What the runs check

**`restriction`** (`MCRestriction.cfg`) checks every program of three
statements built from the accesses of `MCRestriction`, in the schedules given
there. `MustDeleteNodes` starts with pointers left by another Scop in the loops
(`StaleLoops`): all statements if all accesses are affine, else `S0`, whose group
may have a may-write, or none.

* `TypeOK` is the type invariant.
* `UsedCoherent`, `OverCoherent`: a filled cache equals what the edges say, at
  every step, in the middle of a `setDomain` too. `OverCoherent` is modulo the
  domain: `DefNode::setDomain` cuts the cache, the edges only follow later.
* `BarrierCovers`: a filled barrier lists at least the writes that have to stay
  behind an operand. It is only an over-approximation:
  `notifyEdgeLess<WAREdge>` keeps the barrier when the domain of an edge
  shrinks.
* `ReadEdgesInDomains`: the assertions of `DefNode::verify` and
  `UseNode::verify` for RAW and WAR edges.
* `SourcesKept`: a read that still exists still has the write whose value it
  read in the original program, and an edge to it.
* `LiveOutKeptUnlessStale`: what is deleted of a cell that is live after the Scop
  is overwritten by a write that is still executed. That write is a must-write,
  unless the deleted one was in `MustDeleteNodes` since an earlier Scop.
  `propagateExpressions` skips a group with a may-write, so that no statement of
  it is forced to lose what is overwritten; but `clear` leaves `MustDeleteNodes`
  as it is, and a node at the address of an earlier one is forced all the same.
  The run has such programs, and the property is false of them without the
  exception: a live write is deleted because of one that may not happen.
* `WritesOrderedIfTwice`: two writes to the same cell that both still exist are
  ordered by a chain of edges, if no affine statement writes a cell more than
  twice. The loops of `MCRestriction` write a cell twice; `dead_loop` shows what
  a third write does.
* `ReadsBeforeOverwriteUnlessDeleted`: under the same hypothesis, a read is kept
  before each later write to its cell by a chain of edges, unless the first
  write that follows the read was deleted. So `dead_store` is the only way this
  order is lost: the deletion of a write further behind, of the reads between,
  or of anything else does not take it away.

Three runs show a disagreement between the code and its own comments or
assertions; each is a finding in `PROJECT.json`.

* **`dead_store`**: `ReadsBeforeOverwrite` fails. A deleted dead store between
  a read and a later write to the same cell leaves the two unordered. The
  comment in `notifyEdgeLess<WAREdge>` says that the WAW edge takes care of it;
  by the time it is visited the WAR edge has been cut.
* **`dead_loop`**: `WritesOrdered` fails. A loop of three iterations that write
  one cell is deleted as a whole. The edge of the loop to itself is cut at its
  source and at its target, and the chain through the second iteration is lost
  if that edge is visited before the edge that enters the loop: the writes
  before and after the loop are left unordered. The comment in
  `notifyEdgeLess<WAWEdge>` promises a new edge between them. In the other order
  pairs of deleted instances stay in the graph instead.
* **`may_write`**: `MaySourcesKept` fails. `collectInfo` counts a non-affine
  write as a must-write, against the comment of `buildWAR`.

**`propagation`** (`MCPropagation.cfg`) runs the whole pass on 1296 programs of
three statements, and on two more in which a read has two blocked sources, so
that `Abort` can happen. **`long`** (`MCExecution.cfg`) runs programs of four
statements chosen for what three cannot show: chains inside a group, values
moved twice, statements that overwrite what they read, non-affine writes and
reads, both sources blocked, shared reloads, merged groups, cells that are read
again after a dead store was deleted; and it goes on to the schedule, the dead code elimination and the memory the code leaves.

* `RunTypeOK`: the type invariant; it bounds the splits of a target by the
  number of its instances.
* `SplitKeepsDependences`: a split neither adds nor loses a dependence, if the
  copies are taken for the statement they are copies of. Of an edge between
  writes only the pairs of instances that exist count: such an edge may keep a
  pair that ends in a deleted instance, and `splitEdge` drops it.
* `ReadersAttached`: the edges of reads end in operands of statements that
  exist, at instances that exist, through splits, reloads and deletions.
* `BarrierSeesOverwrites`: when the barriers decide, between the question
  (`getRecomputeDomain`) and the split, each names the write that overwrites
  first what an operand of the source stands for, if it is still executed, by
  its time. The operand may have been moved by any number of groups before, the
  write may be one of a copy, and the barrier may be one that `addToBarrier`
  did not extend. That function tests `UsedDomain` where `Barrier` is meant, so a
  cached barrier goes stale when a reload adds a WAR edge to its statement. In
  `StaleBarrierScops` a group is asked, given up, and then another is propagated
  to one of its statements. The property holds because a group is asked once; if
  `GiveUp` put it back on the worklist (`GiveUpRetry`) the stale barrier would
  decide, and with the right test in `addToBarrier` it would not matter.
* `PropagatedEdgesCover`: a read is only replaced where each instance has a
  source instance. It need not be the only one, see `OneSourceUnlessDivided`.
* `LoadedWritesKept`, `LastWritesKept`: no deletion, at any point of the pass,
  takes away the write whose value an operand loads, or the last write to a
  live cell.
* `LoadsSameValueUnlessBlocked`: between two groups, an operand is loaded
  before the write that overwrites the value it stands for. With
  `LoadedWritesKept`: it loads the value the original program read. The order
  is that of the old schedule, which `schedule` falls back to. Inside a group
  this does not hold: for a source that overwrites what it reads,
  `getRecomputeDomain` takes the write of the source itself out of the barrier
  and has it deleted with the group (`MustDeleteNodes`). If the overwriting
  write was deleted as a dead store the property asks nothing of the read. And
  if nothing overwrites the write of such a source, it is taken out of the
  barrier although it will stay: the old order is then wrong, and only a new
  schedule can load the operand first (`OwnLastWrite`; this happens only to
  values the program does not write itself, `Unsourced`). A source may overwrite what it reads because a
  read of it was replaced: from `C[i] = A[i]; A[i] = C[i]; b = A[i]` the first
  group makes `A[i] = A[i]` of the second statement (`MovedUpdateScops`). The
  property therefore asks whether the write depends on what was read
  (`FlowsTo`), not whether it is a write of the statement that read it: that
  narrower form is false, by this program.
* `EdgesForwardUnlessBlocked`: whatever was split, reloaded and deleted, every
  edge runs forward in the old schedule, the one `schedule` falls back to, but
  for an operand the update overwrites that it was taken from
  (`OwnLastWrite`). One would like to say that there is an order for `schedule`
  to find, that the edges contain no cycle. That is false, and not only of
  blocked edges: in `for (i) { A[i] = f(A[i], b); .. b = A[i]; }` with both live
  (`CrossScops`), the first statement must follow the new `b = f(A[i], b)`,
  which is the last to load the old `A[i]`, and must precede it, because it
  reads `b`. Nothing is blocked and every edge is complete; no schedule exists,
  and the old one loads what was overwritten.
* `ConflictsOrderedUnlessBlocked`: any order that respects the edges will do.
  They force every two accesses that conflict in the program as it was to stay
  in order, with an operand in the place of the read it stands for, through all
  splits, reloads and deletions. The one exception is the order that a deleted
  dead store took with it, see `dead_store`; if the WAW edges are visited
  first (`PhasesWawFirst`) the exception is not needed either.
* `OneSourceUnlessDivided`: the assertions of `UseNode::verify` and
  `propagateEdge`: the value of an affine operand comes from one instance of one
  write, if it is loaded from one cell.
* `OneCellUnlessDivided`: it is, whatever it was composed of, so that the access
  `addReloadAccesses` gives it has one address per instance. Both have an
  exception that is a finding of its own (`Divided`): when a dead store between
  two reads of a cell was deleted, a reload of the earlier one may be taken for
  the later one, which then has two sources, of one write or of two; if it is
  propagated in its turn, its operands are loaded from either's cells.
  `DeadStoreScops`, `DeadLoopScops` and `ReusedScops` are such programs. No
  blocked edge is needed for it.
* `Terminates`: the pass ends, done or by an assertion.
* `ExecTypeOK`: the record is well typed, and the code only runs instances that
  its domains still have.
* `KeepsPromise`: `Execution` implements `Promise`. Whatever the heuristics, the
  hash maps, isl and dead code elimination choose, and in whatever order the
  instances run, the live cells end with the values of the program as written,
  unless an excuse was used. It relates all the parts: a lost edge, a needed
  instance deleted, an operand attached to the wrong source, or a dependence
  missing from `setNewDependences` shows as a wrong cell. Each of the three
  excuses is reached, and needed: without any one of them TLC finds a program
  that breaks the promise. Merging groups (`MemoryOrder`) adds an order without
  a look at the other edges, and in some of the programs the two contradict each
  other; isl then finds no schedule and the old one is used.

Three runs show where the code disagrees with what it says of itself. The first
and the third share a cause: an edge with blocked uses is propagated all the
same. `run.blocked` in the passing properties excludes exactly these cases. A
third case of it is in the passing runs (`BlockedScops`): with both sources of a
read blocked there is nothing to split along, the assertion of `propagateEdge`
that it has one source fails, and the pass stops (`Abort`).

* **`full_prop`**: `SchedulableIfFull` fails. `getRecomputeDomain` works on
  pairs of a source and a use, but returns source instances: one free use is
  enough, the blocked ones come back, and the edge still counts as complete.
  The edges are cyclic then: there is no order that keeps the values, and the
  old one, which `schedule` falls back to, does not. (`CrossScops` is a cycle
  without any blocked use.)
* **`chain`**: `RefusedTargetsKept`, an assertion of `propagateEdges`, fails: a
  target inside the group is split after the sources were selected.
* **`shared`**: `SourcesDisjoint`, an assertion of `UseNode::verify`, fails: a
  blocked reload is merged with an operand that reads the cell earlier.

**`live_out`** (`MCLiveOut.cfg`) asks the live-out search about every kind of
base pointer and user, in a Scop that is run once or in a loop.

* `AnswerDetermined`: the answer is a function of the program. It does not
  depend on the order of the two pointer sets, nor on the user at which the
  search happens to return.
* `LocalNotLiveUnread`: memory that is said not to be live is not read after
  the Scop. `Local` is needed: the search does not follow a pointer through
  memory, a `return` or a `realloc`, nor does it know who else reads a static
  array; see `escapes`.
* `ReturnsUnlessCyclic`: the search ends if no address is computed from itself.

**`pointer_loop`**: `Returns` fails without that restriction. A pointer that is
incremented in a loop is a phi node and an address computation that use each
other, and the users have no visited set.

**`escapes`**: `NotLiveUnread` fails without `Local`. Each of the four ways out of
the function that `Escaping` has, `StaticArray`, `Returned`, `Reallocated` and
`Stored`, is enough for it.

**Bounds, and why they are enough.** Three writes are the least that a chain
"source, between, target" needs, which is what each notification is about, and
the end of the chain is the node whose later deletion shows what was lost. Two
instances per statement tell an edge inside an iteration from one across
iterations, and let an edge shrink without vanishing. Two arrays with one of
them live-out separate the two branches of `restrictStmt`. The programs include
statements that overwrite what they read, loops that overwrite their own cell,
and non-affine accesses. Every action fires, and every property is broken by
some plausible error in the code it is about (`mutants` in `PROJECT.json`).

In the runs of the driver each statement can be split once, which is all that
two instances allow, and there are as many spare operands as any propagation
needs: deadlock is checked, so a run that lacked a spare would be reported.
Three arrays are what a value that is moved twice needs. `MergedScops` give an
array two more cells, since groups are only merged if they write disjoint
cells; the merged statements are the only ones that touch them. Programs with a
non-affine access are not compiled (`Runnable`): what such an access touches is
not known to the model, which takes all it may touch. Everything up to the end
of the pass is checked of them all the same.

The users of `live_out` are two addresses and two other instructions: two
addresses are the least that can be computed from each other, and two
instructions tell what the first user says from what the second does. The
blocks lie before, inside, at the exit of and behind the Scop and in another
function, which is all the search distinguishes.

`restriction`, `dead_store`, `dead_loop`, `may_write`, `live_out`,
`pointer_loop` and `escapes` say `CHECK_DEADLOCK FALSE`: `Restriction` really stops, when no
statement has anything left to delete, and so does the search once it has an
answer. In the runs of the driver the end of the pass is a step of its own
(`Finished`), so that every other stop is reported.

**Fairness.** `Terminates` assumes `WF_runVars(RunNext)`: the pass is one thread
that goes on as long as it has something to do. `Returns` and `ReturnsUnlessCyclic` assume
`WF_vars(Next)` of a search that is one loop after the other. No fairness among
the choices of a step is assumed anywhere.

## 4. What is proved

For every set of statements, reads, instances, cells and arrays, for every Scop
and for every order of visits:

| Module | Theorem | Says |
|---|---|---|
| `RestrictionProofs` | `TypeCorrect` | `Spec => []TypeOK` |
| | `UsedCorrect` | `Spec => []UsedCoherent` |
| | `OverCorrect` | `Spec => []OverCoherent` |
| | `BarrierCorrect` | `Spec => []BarrierCovers` |
| `ReadProofs` | `ReadEdgesCorrect` | `Spec => []ReadEdgesInDomains` |
| | `SourcesCorrect` | `Spec => []SourcesKept` |
| `WriteProofs` | `WritesCorrect` | `Spec => []WritesOrderedIfTwice` |
| | `ReadOrderCorrect` | `Spec => []ReadsBeforeOverwriteUnlessDeleted` |
| | `LiveOutCorrect` | `Spec => []LiveOutKeptUnlessStale` |
| `GraphProofs` | `SplitPartition` | a split puts every pair of dependent instances that exist in exactly one part of its edge, and adds none |
| | `SplitUsed` | a split leaves no used domain stale, if the dependences of reads relate instances that exist |
| `PropagationProofs` | `RunTypeCorrect` | `RunSpec => []RunTypeOK` |
| | `ReadersCorrect` | `RunSpec => []ReadersAttached` |
| | `LoadedCorrect` | `RunSpec => []LoadedWritesKept` |
| | `RunUsedCorrect` | `RunSpec => []UsedCoherent` |
| | `SplitCorrect` | `RunSpec => SplitKeepsDependences` |
| | `LastCorrect` | `RunSpec => []LastWritesKept` |
| `LoadProofs` | `LoadsSameCorrect` | `RunSpec => []LoadsSameValueUnlessBlocked` |
| | `BarrierSeesCorrect` | `RunSpec => []BarrierSeesOverwrites` |
| `SourceProofs` | `OneSourceCorrect` | `RunSpec => []OneSourceUnlessDivided` |
| | `OneCellCorrect` | `RunSpec => []OneCellUnlessDivided` |
| | `CoverCorrect` | `RunSpec => []PropagatedEdgesCover` |
| | `EdgesForwardCorrect` | `RunSpec => []EdgesForwardUnlessBlocked` |

and for every program that `isLiveOut` is asked about (`LiveOutProofs`):

| Theorem | Says |
|---|---|
| `SearchTypeCorrect` | `Spec => []TypeOK` |
| `AnswerCorrect` | `Spec => []AnswerDetermined` |
| `LocalCorrect` | `Spec => []LocalNotLiveUnread` |

Assumptions on the constants: a `NoDef` that is no write (`NoDefAssumption`),
finitely many statements and instances (`FiniteAssumption`), no access that is
both a write and a read (`NodesAssumption`); each member of `Scops` is a Scop
(`IsScop`) whose order runs its instances in sequence and whose affine accesses
touch one cell per instance, which is in one array (`OneCell`); what `Stale`
yields are sets of nodes (`StaleAssumption`); `Orig` takes a node to its
statement, a copy writes the array of its statement, and a node that is not a
statement of the Scop has no instances and no reads at first (`OrigAssumption`,
`CopiesAssumption`); the base pointer is not a user of
itself (`BasePtrAssumption`), and `Programs` are programs
(`ProgramsAssumption`).

No theorem assumes anything else of `MustDeleteNodes`: whatever an earlier Scop
left there, `Stale` may yield it.

**The argument.** `UsedCoherent` is not inductive: the visit of a RAW edge at
its source (`ShrinkRawDomain`) both adds pairs and cuts the cache, and in
general it leaves the two apart. It never has anything to cut, because
`restrictStmt` keeps every instance a RAW edge starts from: that is
`RawStarts`. That a visit adds to no WAR edge needs `WarEnds`: once the first loop of
`setDomain` has visited a WAR edge that ends in the statement, the edge ends
in instances that still exist, so the third loop finds nothing to continue.
`WarEnds` needs to know which edges are still to be visited, and `TodoOK` says
that each loop visits its own kind of edges. Together

    IInv == TypeOK /\ UsedCoherent /\ RawStarts /\ WarEnds /\ TodoOK

is inductive, and so is `IInv /\ OverCoherent`. The two are kept apart because
the proof about the driver needs only the former, and `OverCoherent` is not
known to be kept by a split: an edge between writes may hold a pair whose later
instance was deleted (see `dead_loop`), `splitEdge` drops such a pair and
notifies nobody, and the overwritten set of the other end would keep the
instance. The runs of the driver, with two instances per statement, reach no
such state. `GraphProofs` has one lemma per graph operation, proved without
reference to the state machine; `RestrictionProofs` has one lemma per action.
`BarrierCovers` is preserved on top of `IInv`, because no step adds to a WAR
edge: that is also why the wrong test in `addToBarrier` (it asks for
`UsedDomain` instead of `Barrier`) does no harm here.

**Reads** (`ReadProofs`). `RInv` adds to `IInv` where the edges of reads may
still dangle: a WAR edge that ends in a deleted instance is one the first loop
has yet to visit, one that starts there is left to the second, a RAW edge that
ends there to the fifth (`WarStops`, `WarStarts`, `RawStops`). And it says that
of the dependences the analysis found none is lost whose reader exists
(`RawKept`). `SourcesKept` follows: the source is in the domain because
`RawStarts` says so, and there is an edge because nothing was lost.

**Writes** (`WriteProofs`). `SInv` says that every pair of a WAW edge is a real
overwrite: both ends touch a common cell, the second later (`WawSound`). The
chain through a deleted write is an overwrite of the same cell because the
deleted write was affine and touches one cell only. A pair added through a RAW
and a WAR edge (`ShrinkRawRange`) would not be, but the operands' WAR edges have
been cut by then, so there is none: lemma `ShrinkRawRangeWaw`. `OrderKept` says
what carries the order of two writes in the middle of a `setDomain`: the edges
between instances that exist (`Direct`), and the way over one deleted instance
(`PastOne`) or two of the same cell (`PastTwo`) as long as one edge, or all
three, are still to be visited (`Pending`). A visit turns the second and third
kind of way into the first. It is stated with sets closed under these ways
rather than with chains, which would need an induction over their length.
There is no way over three deleted instances because of lemma `NoThirdWrite`,
which is where the hypothesis of the theorem is used.

`ReadOrderCorrect` joins this with `WarKept`: a WAR dependence of the program is
still an edge if the reader and the write still exist. The first write that
follows the read has such an edge, if it was not deleted, and every later write
to the cell follows this one by `WritesOrdered`. If it was deleted nothing can be
said, since the edge is cut before the WAW edges it should be continued by.

**Live cells** (`WriteProofs`, at its end). What is deleted of a live cell is
overwritten by a later write to it, by `SInv` (`Superseded`). Of finitely many
writes one is the latest (`Latest`, by the well-founded order on finite sets), and
nothing that is deleted in the same step is later: it is still there afterwards
(`LiveWritten`). That it must happen is said of the group: only a node in
`MustDeleteNodes` loses instances of a live array (`LiveFromMust`), and it is
there because its group has affine writes only, or since an earlier Scop
(`MustFrom`).

**Splits** (`GraphProofs`, at its end). Each node of the graph after a split was part
of one node before it, and has some of its instances (`WasDef`, `HasDef`, and
the same for uses). Every instance is in some part (`DefPart`, `UsePart`) and in
one only (`DefOnce`, `UseOnce`). `IsSplit`, and the assumption on the edges in
`SplitUsed`, hold at every split of the run `propagation`.

**The pass** (`PropagationProofs`). `DInv` says of the graph what `RInv` says
(`GInv`), but for the dependences of the analysis: after the first propagation
the edges are no longer those. What takes their place is `StandsKept`. If an
operand stands, at an instance that exists, for a read of the program, then for
every write that read depends on there is a node, its statement or a copy of
it, with an edge to the operand between the same instances. A RAW edge starts at
an instance that exists (`RawStarts`), so that write has not been deleted:
`LoadedCorrect`. Each action has to keep it. A split sends a pair to the node
that got its instances, and the operands of the copy stand for what their twins
stand for (`SplitKept`). A reload composes the edge of the source's operand with
the edge propagated, which is the way the value takes (`ReloadKept`); if it is
merged with an operand that is there already, that operand keeps its own edges.
A `setDomain` keeps the edges of reads that exist, which is `ReadsStep` of
`ReadProofs`. And a cleared edge takes its read out of the program.

In the middle of `propagateEdge` the graph is not what it is at other times:
the read that is replaced is no operand any more but still has its edge. That
is `Detached`, which also says that it has no other source (the assertion at
the head of `propagateEdge`, without which `clear` would leave edges of a read
that is gone) and precedes no write (`removeOperand`). At all other times the
operands of a node are the reads in it (`OpsOK`). `NodesOK` says that a node
that was not made yet has no instances, hence no edges, when a split takes it.
`SplitsOK` says that the splits of a target are disjoint, not empty and within
its domain: the pieces of one domain are no more than its instances
(`PiecesBounded`), and each split cuts the domain by one piece (`PiecesLeft`).
TLC checked `DInv` as an invariant of the runs `propagation` and `long` before
it was proved.

`LastCorrect` rests on a second invariant, `KInv`, kept by every step from a
state of `DInv`. What restrictStmt may delete of a live array is what it takes
for overwritten: the starts of the WAW edges, or the cached set, which may be
stale. So `OverReal` says of both, for every statement and every copy, that
such an instance is overwritten in the program as it was analysed; a visit
chains an edge to a later write but makes no new start (`VisitWrites`), and a
split gives a copy only pairs of its statement (`SplitOver`). `LastKept` says
that an instance of a live array exists in some copy or is overwritten in the
program. The theorem does not need that `OverCoherent` survives a split: it
promises the write nothing overwrites, not that what overwrites another one is
still there.

`SplitCorrect` takes `SplitFacts`, which says of each pair of the new graph
where it came from, to the dependences of the program. It needs of `DInv` that
the edges of reads relate instances that exist (`Tied`): `splitEdge` cuts an edge
to the two halves of the domain, and loses what is in neither. For the edges
between writes there is no such invariant, which is why the property counts
pairs of existing instances only. A form of it that counted all of them held on
the instances TLC checked, and could not be proved: nothing excludes a split of
a statement with three instances of which the first propagation deleted one.

`BarriersUnasked`, at its end, is for the theorems about barriers: no barrier of
a group that is still to be considered has been computed. `Ask` computes those
of one group and removes it from the list, and no other step, `addToBarrier`
included, fills a barrier that is empty.

**The barriers** (`LoadProofs`). `LoadsSameCorrect` is the theorem about what
`getRecomputeDomain` is for. It cannot be about one group alone: an operand
that was moved by one group is moved on by the next, and its place in the order
is that of a statement which reads, and overwrites, other things by then.

* `LoadInv` is what every step keeps, blocked or not. The value an operand stands for
  flows, along the dependences of the program, to the instance that has the
  operand now (`Flows`), and each pair of a RAW edge is a dependence of a read
  the operand stands for (`Sourced`). To the first write that overwrites what it
  stands for there is a WAR edge from the operand, in whichever copy of its
  statement the write is (`Waits`): this is the edge a barrier is computed
  from. Conversely, a WAR edge leads only to writes that overwrite something the
  operand stands for (`Behind`). The copies of a statement share no instance (`Apart`), what an operand
  stands for is affine throughout or never (`Alike`), and a filled overwritten
  set holds what the WAW edges say of instances that exist (`Covers`).
* `SourceOK` and `BarriersUnasked` say where the driver is: the edges on its
  list are those of one source, none of the targets it cuts was refused, and no
  barrier of a group still to come was computed.
* `GroupOK` follows a group. When it is taken up, each node with an edge to
  propagate gets its barrier, and is in `MustDeleteNodes` if it is a barrier to
  itself (`Asked`). A target that belongs to the group itself gives only to
  targets that were refused (`Chained`, `Refusing`: `hasInGroupDef`), so no value is moved twice by one
  group, and a node that is split or loads something is no source.
  `StartSplits` looks at what is blocked. If nothing is, every operand of a
  source is `Punctual` at the place it is to be moved to: for each read it
  stands for, `Timely` with regard to the first writes that overwrite it, and
  `Timely` with regard to all writes its WAR edges lead to (`Awaited`). That is,
  this place is before the write in question, or that write is one of the source itself at the same
  instance, hence depends on what was read, and dies with the group if anything
  overwrites it (`StartSplitsLoadable`). `Loadable` carries that through the
  splits and reloads to the moment the operand is added; then it is part of
  `Timed`, which is said of every operand at all times.
* `Dying` are the nodes that have to be deleted when their turn comes.
  `restrictStmt` at the end of a source deletes all that is overwritten of it,
  because nothing reads it any more (`Linked`, `DeadRestricted`). Between two
  groups the set is empty, and `Timed` is the property.

`LoadInv`, `SourceOK`, `BarriersUnasked` and `GroupInv` are inductive together
with `DInv`. Only the hypothesis that no blocked use was propagated is needed,
not that an edge was propagated completely: a pair that is left out is one no
operand is loaded for. A first form of the property was found to be false
during this proof, see `MovedUpdateScops` in section 3.

`BarrierSeesCorrect` says what the barriers themselves answer. By `Waits` there is
a WAR edge from each operand to the write that first overwrites what it stands
for, in whatever copy that is, and such an edge puts the time of the write into
the barrier if it is computed. It is computed after the last change of the
graph: it was not cached before (`BarriersUnasked`), and from the question to the
split no step changes the graph (`CutAsked`).

**Sources** (`SourceProofs`). `OneSourceCorrect` needs no further invariant.
Two source instances of an operand are sources of two reads of the program
(`Sourced`), both of the cell it is loaded from. Of two writes to a cell the
later one overwrites what the read of the earlier one has read, so there is a
first write that does. Either it was deleted, which is the exception, or the
operand is loaded before it by `Timed`, hence before the later source, although
a value flows forward in time only (`FlowTime`), a contradiction; that the read
has a source is what rules out the case `OwnLastWrite` (`Unsourced`).
`OneCellCorrect` is an induction over the reloads on top (`CellInv`): what a new
operand is loaded for is what one operand of one source instance stands for, by
the first theorem, and a merged operand is equal by the test of
`addReloadAccesses`. The exception must not go away again once it has happened
(`StaysDivided`): instances that were deleted do not come back.

`EdgesForwardCorrect` is about the three kinds of edges. A WAW edge runs forward
because each edge that is lost is replaced by chains of two others, and a copy
has the order of its statement (`WawLater`, inductive by itself); no
propagation is involved. A RAW edge is a dependence of a read of the program on
an earlier write, and from that read the value flows forward to the operand
(`Sourced`, `FlowTime`). A WAR edge is the second half of `Punctual`: between two
groups the operand is in time for every write it precedes, or the write is the
update that is last in its cell. Two different instances never have the same
place, since the copies of a statement share none (`OneFirst`).

`CoverCorrect` follows the splits of a target. No instance of it is in no piece
(`Exhausted`, `CutDivides`). Each edge that will be propagated has its target
cut along its target domain, or this domain is on the list of those to cut along
(`Targeted`): then each piece is inside of it or outside of it. After the
splits, each edge reaches all instances of a piece or none (`Covered`); the node
a piece is in becomes the whole target, and what its domain loses later, its
edges lose too. A piece that was reached by none has no edge left. `CoverInv` is
these three, each at the stage it belongs to, and is kept by every step from a
state of the invariants above. A target domain does not change when barriers are
asked for (`AskedTarget`), which is where `BarriersUnasked` comes in. The form of
the property that asks for exactly one source instance is false, by
`ReusedScops` and `DeadLoopScops`.

Nothing is assumed of the heuristics, of the order of nodes and edges, or,
except in the theorems of `LoadProofs` and `SourceProofs`, of what is blocked.

**The search** (`LiveOutProofs`). `SearchInv` says that the users on the list
are in the least set that contains the users of the base pointer and with each
user those the search asks in its turn, and that for some set of users the
search is done with, all that they lead to is on the list or in that set
(`SearchedAll`). Once the list is empty that set is closed, hence the least one.
The blocks are dealt with in the same way.

**Only model-checked:** of the driver, what is said of the final order,
`ConflictsOrderedUnlessBlocked`: it is about the closure of the edges, a fold,
and what a fold computes needs an induction the provers cannot do. Of the schedule and the execution, `ExecTypeOK`
and `KeepsPromise`, which rest on that order (`Reschedule` asks whether the
closure has a cycle); and `Terminates`, `Returns`: liveness and ENABLED are out of the prover's reach.
`WritesOrdered` is refuted by `dead_loop`; `WritesOrderedIfTwice` is what is
true and proved.

## 5. Not modelled

* The recompute trees and the code generated from them. An operand knows which
  reads it stands for, not by which expression; what a copied expression
  computes is taken to be a function of what it loads.
* The isl scheduler: it answers with any order that respects its constraints.
  Proximity, which only tells it what to prefer, the marks for unrolling and
  separation, and a schedule per loop nest (`polly-prop-schedule-all=false`) are
  left out.
* The affine hull that `eliminateDeadCode` takes of the live iterations: it only
  adds instances.
* `NumArrayLoweringPotential`, `reheapify` and the other weights of the
  worklist, since any order is allowed.
* The isl assumed context and complexity limits (`getUsedDomain` giving up on
  more than four basic sets): isl sets are finite sets here.
* The heuristics: they choose among transformations that must all be correct.
* Non-affine accesses in code that is run, see `Runnable`.
* Statement- and reference-level dependences, reductions, privatisation and the
  computeout of the dependence analysis: the propagation does not use them.
* `ScopStmt::restrictDomain`, a copy of the domain, and the debugging cutoffs.
* Upstream Polly, isl, pet, ppcg, the benchmarks.

## 6. Plan

1. **Core** (done): `DependenceInfo`, `DependenceGraph`, `Restriction`,
   `DeadIterations`, their runs and proofs.
2. **Driver** (done): `GraphRewrite`, `Propagation`, `Recomputation`, their
   runs.
3. **The result** (done): `Rescheduling`, `Execution`, and `Promise`, which it
   implements.
4. **Two Scops in sequence** (done): `Stale`.
5. **Live-out search** (done): `LiveOut`, its runs and proofs.
6. **Proofs** (done): the caches, the reads, the writes, the live cells,
   splits, the search, the reads of the whole pass, the barriers, the sources
   and cells of operands, the cover of the splits, the direction of the edges.
7. **Left**: the middle-fix of the split domains and the recompute trees as
   pure operators; the step simulation of `Promise`.
