# A TLA+ model of causasv

causasv computes *asymmetric Shapley values* over a causal graph: the average,
over all topological orders of a DAG, of what a node adds to the value of the
nodes before it. It is a Rust crate (`src/src`) with a Python binding
(`src/src/python.rs`) and Python helpers (`src/py/causasv`). The arithmetic is
simple; what is delicate is the control around it: samplers that update their
working set in place, estimators that rescale running sums and cache a costly
value function, dynamic programmes that read a table while it is being filled,
a dispatcher that turns refusals into other attempts, and Rayon workers that
need the Python interpreter lock for every callback.

These modules model that control and check it with TLC on small instances. For
every value of their constants TLAPS proves that a graph's two lists of edges
agree however it was built, copied or read back, and what its validation and its
layers find; the frontier sampler and the packed coalition correct and the uniform
samplers uniform; the sums and the calls of all twelve estimators right; the
parallel sum complete and in order under every schedule; the four exact methods
exact, sparing with calls and right to refuse; the peeling of a
CPDAG sound and complete; both hulls least, and the same in every extension of a
CPDAG; and what the dispatch promises.

Contents: [the system](#the-system) - [modules](#modules) -
[runs](#runs) - [bounds](#bounds-and-why-they-are-enough) -
[fairness](#fairness) - [proofs](#proofs) -
[where code and documents differ](#where-the-code-and-its-documents-differ) -
[what is left out](#what-is-left-out) - [plan](#plan)

Running it: `tlc -config MCX.cfg MCX.tla` for a run, `tlapm XProofs.tla`
for the proofs. `PROJECT.json` lists the runs with their properties, for every
property a faulty variant of a definition that breaks it, and for every
definition the source lines it models.

## The system

| Component | Source | State | Operations | Hard part |
|---|---|---|---|---|
| Graph | `graph.rs`, `topo.rs`, `python.rs` (`CausalDAG`) | names, child lists, parent lists | `add_node`, `add_edge` (by id, by name), `induced_subgraph`, `from_edges`, `from_json`, `validate`, `topo_sort`, `topological_layers` | two lists that must mirror each other; ids that are bare indices; calls that fail half-way; a walk that does not notice a cycle |
| Frontier sampler | `sampler.rs` | a scratch area (in-degrees, frontier, ordering) used again for every sample | `sample_one_into` | `swap_remove` on the frontier; weight taken before the removal |
| Uniform samplers | `sampler.rs` | table or memo of counts of orders | `sample_uniform_into`, `sample_uniform_sparse_into` | shares of a cumulated count; overflow of `u64` |
| Estimators over frontier draws | `approx.rs`, `approx_large.rs`, `cache.rs` | cache of values, sums relative to the largest weight, previous estimates | `approximate_asv`, `_batched`, `_adaptive`, `_adaptive_batched`, and a large copy of each | rescaling; last round; bounded cache; chunked batches; failures in the middle; convergence with NaN |
| Estimators over uniform draws | `approx.rs` | the same, plus a memo with a memory limit | `approximate_asv_uniform`, `_sparse`, `_sparse_adaptive`, `_sparse_adaptive_batched` | when the guard runs relative to draws and calls |
| Parallel sampling | `approx.rs`, `approx_large.rs`, `sampler.rs`, `python.rs` | per worker: random stream, cache, sums; the interpreter lock | slices, workers, `try_reduce`, `py.detach`, `Python::attach` | interleavings, deadlock, order of summation, a raising callback |
| Exact methods | `asv.rs` + `topo.rs`; `dag_dp.rs`; `dag_dp_sparse.rs`; `tree.rs` | tables of counts, queue, stack, cache of values | `exact`, `exact_dag`, `exact_dag_sparse`, `exact_tree` | tables read while filled; backtracking in place; guards and preflights; NaN as sentinel |
| Dispatch | `asv.rs` | method, fallback cause | `auto`, `auto_quality` | retries after refusals; preflight against guard; kinds of errors |
| CPDAG | `cpdag.rs` | names, directed and undirected edges; the peeling's working sets | `add_*`, `induced_subgraph`, `consistent_extension`, `strong_d_convex_hull` | greedy peeling that never backtracks; a hull taken in one of many extensions |
| d-convex hulls | `d_convex.rs` | two nested fixed points | `d_convex_hull`, `strong_d_convex_hull` | minimality, bound on rounds, one shortest path of several |
| Coalition bitset | `coalition.rs`, used by `approx_large.rs` | packed words, one vector for all samples of a worker | clear, insert, list | what the sample before left; word boundaries |
| Numerics | `numerics.rs` | - | Kahan sums, normal quantile | floating point |
| Python helpers | `py/causasv/helpers.py` | - | `explain_safe`, `explain_stability`, tabular value functions | several runs compared |
| Instability analysis, plots | `py/causasv/instability`, `plot.py` | - | data preparation, statistics, drawing | - |

How they interact:

- `AsvExplainer` validates nothing itself; it holds a `Dag` and its parent masks
  and hands both to one of the methods. Every method starts by validating.
- Every estimator draws orders from one of the three samplers and asks a *value
  function* of the caller for the coalitions along them: by one call per
  coalition, or by one call per batch. The function may be a Python callback,
  may be slow, may return NaN and may raise.
- `exact_dag`, `exact_dag_sparse` and the uniform samplers count topological
  orders with the same two functions (`compute_dp_ind`, `dp_ind_lazy`).
- `auto` and `auto_quality` run the methods one after the other until one does
  not refuse; the preflights of two methods are meant to foresee refusals.
- `Cpdag::strong_d_convex_hull` builds one consistent extension and hands it to
  `Dag::strong_d_convex_hull`.
- From Python the interpreter lock is released for a whole call and taken again
  for each callback, by whichever Rayon worker needs a value.

What makes a component correct is stated with it under [modules](#modules); the
places where each can go wrong are listed, with their lines, as `hazards` in
`PROJECT.json`.

## Modules

Names in the modules are the source's names where the language allows. An
operator introduced as a *faulty variant* is never used by a specification: it
is the mistake a property must be able to notice.

**Foundations.**
`CausalGraph`: a frozen graph is the function from nodes to their parents;
order ideals (the coalitions a topological order passes through), readiness,
acyclicity, topological orders. `LinearExtension`: the abstract specification of
every sampler - an order starts empty and grows by any ready node.
`SortedNumbers`: the members of a set in ascending order, as the code lists the
bits of a mask, and the elements of a list that are in a set, in their order.
`OrderCounts`: the counts of orders of `dag_dp.rs` and `dag_dp_sparse.rs`.
`ShapleyValue`: the definition the exact methods are held to, an average over
all topological orders written without division. `RootedTrees`: the lists,
weights and counts of `tree.rs` for a rooted tree.

**DagBuild** (`graph.rs`, `topo.rs`, `CausalDAG`). `dag` is the struct with its
three vectors; `AddNode`, `AddEdge`, `AddEdgeByName`, `Induce` are the calls,
`answer` the error or success. `ReadBack` goes on with what `from_edges` or
`from_json` make of the graph's own `edges()` or `to_json()`. `validate` and
`topo_sort` share a walk (`StartWalk`, `Visit`, `EndWalk`) over in-degrees, one
with a queue, the other with a heap; `topological_layers` and `inspect` walk by
layers (`StartLayers`, `TakeLayer`, `EndLayers`).

- `ListsMirror`: the two lists of edges describe the same edges, whatever calls
  were made or refused.
- `VerdictIsRight`: a walk ends in "ok" exactly on acyclic graphs, and
  `topo_sort` then has an order of the whole graph.
- `LayersAreDepths`: a node's layer is the length of the longest path to it; on a
  graph with a cycle, what is silently missing is what lies on or behind one.
- `CopiesKeepEdges`: a subgraph has exactly the inner edges, by name, and the
  order of the original; a copy by edge list loses only nodes without edges; a
  copy by JSON keeps ids and the order of the child lists.

`MCStaleHandle` adds a caller who keeps ids across `induced_subgraph`.

**TopoSampler** (`sample_one_into`). One action for the reset of the scratch
area, one per draw (`Pick`), one per child relaxed, one for the end of a turn
and of the order. `weight` is 1/q, the product of the frontier lengths, of which
the code keeps the logarithm. `FrontierExact`: at each draw the frontier lists
every ready node once. `WeightStep`: a placed node multiplies the weight by the
number of ready nodes. `ImplementsLinearExtension`: refinement of the abstract
sampler under the identity mapping on `pa` and `ordering`. `SampleEnds`.

**LargeCoalition, LargeWalk** (`coalition.rs`, the loop of
`approximate_asv_large`). `LargeWalk` is `TopoSampler` with the loop around it:
an order is drawn into the scratch area, then walked with a coalition whose
words survive from sample to sample. A word is the set of its bits.
`CoalitionIsPrefix`: at each look-up the words list exactly the nodes walked, in
ascending order, and answer `HasNode` so.

**UniformSampler** (`sample_uniform_into`, `sample_uniform_sparse_into`).
`chance` is a history of how probable the order so far was, counted over the
random numbers that lead to the same choice. `Uniform`: every order comes out
with probability 1/L(G). `OverflowAtOnce`: a count overflows on the first turn
of the first draw or never.

**ImportanceSampling, UniformSampling, Estimators** (`approx.rs`,
`approx_large.rs`, `cache.rs`). The twelve estimators share one shape: rounds of
draws, the values of the coalitions passed through, sums relative to the largest
weight, a convergence test. A function of the code is a disjunct
(`ApproximateAsvAdaptiveBatched` and so on) made of the steps it really has.
Values are looked up on the way (`AbsorbCalling`), or for a round at once
(`ResolveChunk` / `AbsorbResolved`, the latter with the `unwrap` as its guard).
Sums are exact: `w / maxW` is held as a multiple of `1/Scale`. `drawn` and
`calls` are histories. `UniformSampling` replaces the drawing by uniform draws
with a memo; `Estimators` is the call of any of the twelve.

- `SumsAreCommensurate`: between rounds every running sum equals the sum over
  all draws so far relative to the largest weight among them.
- `EvaluatedOnce`: a coalition is evaluated again only if a full bounded cache
  could not take its value, and success means exactly the coalitions passed
  through were evaluated. `UnwrapNeverFails`: the batched copies find every value.
- `ReportsDraws`: the reported number of samples is the number behind the sums.
- `ConvergedComparesTwoTests`: convergence needs two real tests.
- `OverflowCostsNoCalls`: a memo that overflows has cost no value call.
- `Terminates`, for every batch size and limit, zero included.

**ParallelSampling** (the parallel branches, `worker_seed`, the GIL). A sum is
the sequence of draws it is made of, so that their order is visible, though not
how the additions are bracketed. Rayon is modelled by the schedules it may
produce: workers start as pool threads become free, sums of neighbours are
combined when both are complete, queued workers may be skipped after a failure.
Properties: `StreamsDiffer`, `ResultIsComplete` (all draws, once, in slice
order), `Returns` (no deadlock on the interpreter lock).

**ExactMethods** composes `Enumeration`, `DenseDp`, `SparseDp` and `TreeExact`:
one call of one of the four per behaviour, all held to the same promises.
`Enumeration` keeps the open calls of `backtrack` as a stack over one shared
array of in-degrees. `DenseDp` walks the masks in numerical order, twice to fill
tables and once to add up. `SparseDp` is the breadth-first search with its queue
and guards. `TreeExact` builds the lists of sets before each node and, first,
the saturating preflight that predicts their lengths (both in `RootedTrees`).

- `ExactValues`: what is returned is the average over all topological orders,
  hence any two methods that return agree.
- `EvaluatedOnce`: every order ideal is evaluated once (by `exact_dag`, a NaN as
  often as it is looked up). `NaNIsContained`: a NaN spoils the nodes it touches
  and no other.
- `EveryOrderOnce`: the backtracking lists each order once, ascending.
- `CountsAreFinal`: a table entry is read only when all that belongs to it has
  been added.
- `RefusalsAreRight`: a method refuses exactly when it is over its limit (for
  `exact` the 64 bits of a coalition, for the others their nodes, counts, memory
  or budgets), and before it has called the value function.

**AutoDispatch** (`auto`, `auto_quality`). A graph is the facts the dispatch
tells apart; a method is the set of its possible outcomes on such a graph. The
value function may return any kind of error at any time, those included that the
methods refuse with: the dispatch cannot tell the two apart. `refused` is the
history of the methods that did refuse or were found out of reach, `raised` that
of the errors of the value function; `fallback_reason` is the set of claims that
the text makes.

- `AlwaysAnswers`: with a valid configuration a call fails only with the error
  that the value function returned to the method it ended with. This is a safety
  property: it says how a call ends, not that the methods do.
- `SampledIffOverBudget`: unless an error was mistaken, an answer is approximate
  exactly for the graphs over the budgets of the dispatch (`OverBudget`).
  Among them are trees of 19 and 20 nodes, see
  [below](#where-the-code-and-its-documents-differ).
- `PreflightMatchesGuard`: `exact_dag_sparse` is not started to be stopped by its
  own guard.
- `FallbackIsTrue`: the method named was given up, and each claim about the cause
  is true of the graph, or of an error that was mistaken.
- `PropagatesUnlessMistaken`: which errors of the value function end the call
  unchanged, and which are taken for a refusal and lost. A Python callable's are
  never lost: the binding makes a `ValueFunctionError` of each.

**Cpdag** (`cpdag.rs`). Construction, subgraphs, the refusal of directed cycles
and the peeling of `consistent_extension`. The calls that refuse and change
nothing are not steps of this module. `ExtensionIsConsistent`: the closing
`add_edge` and `validate` never fail, and what they build is a consistent
extension. `RefusalIsRight`: the greedy peeling refuses only graphs without any.

**DConvexHull** (`d_convex.rs`). `ClosureRound` is a turn of `d_convex_closure`,
`AbsorbParents` the rest of a turn of `strong_d_convex_hull`, both with their
bound on rounds. The helpers are operators on a graph. Where the breadth-first
search returns one shortest path, which one being decided by the order of edges
and arguments, the model takes any, for each pair and each round anew.
**CpdagHull** composes the two: the hull of a Dag of the caller's, or of the
extension that `Cpdag` has just built.

- `HullIsLeast`: the hull is (strongly) d-convex and inside every other such
  superset of the argument. d-convexity is stated by inducing paths, which the
  code never enumerates.
- `FixedPointIsReached`: the error for too many rounds is never returned.
- `TieBreakIsImmaterial`: every shortest path for a pair of the argument ends up
  in the hull, though one is collected.
- `SameHullInEveryExtension`: the hull of a CPDAG is also the hull in each of its
  other consistent extensions.

## Runs

| Run | Module, config | Shows |
|---|---|---|
| topo_sampler | MCTopoSampler | two samples in one scratch area and one coalition on each DAG with four nodes: frontier, weight, packed words, refinement, termination |
| uniform_sampler | MCUniformSampler | both uniform samplers on each DAG with four nodes, counts overflowing above 8: uniformity, overflow at once, refinement |
| dag_build | MCDagBuild | every sequence of calls over four names and up to four edges, cycles, copies and refused calls included; deadlock is checked |
| estimators | MCEstimators | the twelve estimators with every choice of draws, failures, NaN values, batch sizes and limits |
| parallel_sampling | MCParallelSampling | every interleaving of workers, callbacks and reductions |
| exact_methods | MCExactMethods | the four exact methods over small DAGs and budgets |
| auto_dispatch | MCAutoDispatch | the dispatch on both sides of each of its thresholds, with value functions that fail with each kind of error |
| cpdag_hull | MCCpdagHull | each CPDAG on up to four names, its extension and the hulls of that; both hulls of every argument on each DAG with five nodes |
| stale_handle | MCStaleHandle | *violated*: a stale `NodeId` is accepted |
| converged_nan | MCConvergedNaN | *violated*: `converged` with a NaN estimate |
| no_threads | MCNoThreads | *violated*: `num_threads = Some(0)` returns Ok and has used no sample |
| sparse_memory | MCSparseMemory | *violated*: both tables together exceed `memory_limit_bytes` |

Deadlock is checked in the two runs of `DagBuild`, which a caller may go on with
for ever. All other specifications are of calls that end: there
`CHECK_DEADLOCK FALSE`, and liveness is stated where loops make it a question
(`SampleEnds`, `Terminates`, `Returns`).

### Bounds and why they are enough

- *Graphs.* Four nodes (`TopoSampler`, `UniformSampler`, `Cpdag`, most of
  `ExactMethods`) have all the shapes a step distinguishes: diamonds, forks,
  colliders, chains beside free nodes, a child whose last parent comes third.
  Trees go up to five nodes, so that a node can have ancestors with subtrees at
  two levels. Hulls are taken on the DAGs with five nodes (`DagNodes`): two
  shortest paths between a pair compete on four of them, which makes a second
  round necessary, and one more node may have to stay outside.
- *`Bits = 3`*: four nodes take two words, so that the last node has a word, and
  bit 0, of its own.
- *`MaxSamples = 2`*: what one sample leaves behind meets the next.
- *`MaxEdges = 4`* in `DagBuild` bounds the edges a graph has when one is added;
  with four names that leaves room for a cycle behind a node, in front of one, or
  through all four, and for a diamond. Names are interchangeable (symmetry; all
  properties checked there are safety). In `MCStaleHandle` three names and 2
  edges are enough to show the mistake.
- *Widths.* `MaxCount` stands for 2^64 - 1 and `MaxNodes` for 20, 63 or 64; they
  are chosen so that the limit on the nodes protects the counts as in the code
  (24 = 4! for `exact_dag`, which has at most 4 nodes) or so that it does not
  (`exact_dag_sparse`: 7, with graphs of up to 12 orders; `exact_tree`: 31, which
  is also tried as a budget, with trees whose lists have 33 sets; the estimators: 5, with
  a graph of 6; the uniform samplers: 8, with graphs of up to 24).
  In `ParallelSampling` a seed has 6 bits and seed 63, which wraps around.
- *Estimators.* On the chain of three beside a free node the frontier weights of
  the orders are 2, 4, 8 and 8, so the maximum can rise twice within a call;
  `Scale = 48` is a multiple of all of them. Up to four draws in rounds of one
  or two; the large copies have a cache of four for eight coalitions and batches
  of two. `memory_limit_bytes` of 560 is just enough for the memo, 559 is not.
- *`ParallelSampling`*: one or three samples; no, two or four workers or one per
  pool thread; pools of one to three threads: empty slices, more workers than
  threads, workers left queued at a failure.
- *`AutoDispatch`*: sizes and numbers of ideals on both sides of each threshold.
  `MemoryLimitBytes` is 2^31 - 1 instead of 2^31, because TLC's integers are 32
  bits wide; the quotient by 80 is the same.

### Fairness

- `LargeWalk!WalkSpec` and `Estimators!Spec` assume weak fairness of the whole
  next-state relation: one thread of straight-line code that goes on while it
  can. A value function is assumed to return or raise.
- `ParallelSampling` assumes weak fairness of the caller, of every worker and of
  the reduction: Rayon runs what it was given. That a worker waiting for the
  interpreter lock gets it in the end follows because every holder lets it go
  after one call and there are finitely many of them: no strong fairness.
- All other specifications are safety only.

## Proofs

No proof bounds the number of nodes. The assumptions are those on the constants
stated, by name, in the modules themselves; TLC evaluates each on the instances.
Two say more than what type a constant has or how nodes are numbered.
`SplitmixAssumption` of `ParallelSampling`: `splitmix` is injective, which
`sampler.rs:54` says of the function on 64 bits and TLC evaluates on words of 6.
And `ExactAssumption` of `ExactMethods` says that the orders of up to `MaxNodes`
nodes without an edge can be counted, for `exact_dag`: 20! < 2^64.

`GraphLemmas` holds what several of the proofs need: that a recursion over
0..n has a solution and only one (`RecursionExists`, `RecursionIsUnique`, and
`SubsetRecursionIsUnique` for one over subsets), which stands in for induction;
sums over finite sets (`SumOnSet`, `NaturalSumStep`, `SumOfParts`,
`SumOfConstantPart`); least and greatest members; ascending lists; the order of
bit masks (`MasksAscend`); sinks of finite DAGs; sequences without repetition; and
the counts of orders, which have a section below.

### Graphs: construction, copies and walks

`BuildAndDispatchProofs`, about what happens before a method runs: here for every
set of names and any number of edges, and for the dispatch [below](#the-dispatch).

| Theorem | Says |
|---|---|
| `ListsAlwaysMirror` | `ListsMirror` |
| `CopiesAlwaysKeepEdges` | `CopiesKeepEdges` |
| `VerdictIsAlwaysRight` | `VerdictIsRight` |
| `LayersAreAlwaysDepths` | `LayersAreDepths` |

*Construction.* `IsSound` says that the graph is a `Dag`: three lists of one
length, names without repetition, children and parents that mirror each other. One
operation at a time, what it leaves as it was matters as much as what it adds
(`HasNodeToo`, `HasEdgeToo`, `IsCutTo`).

*Reading back.* `edges()` writes the child lists one after another. The places at
which one node's children begin (`IsLaidOut`) make the list a bijection with the
edges (`PlacesInEdges`, `EachEdgeOnce`), so that every `add_edge` of the reader
meets an edge it has not seen and two different ends (`EdgesAreAddable`), which is
why `from_edges` and `from_json` cannot fail on what `edges()` and `to_json()` wrote. The
graph read up to the k-th edge is described by `HasFirstEdges`, and for JSON by
`HasReadUpTo`: every child list is then the beginning of the list it is read from.
Ids are kept by JSON because `nodes` comes first (`Bare`, `NodesAreAdded`).

*The in-degree walk.* `IsWalk`: an in-degree counts the parents not yet popped, the
queue lists without repetition exactly the nodes not popped whose parents all have
been, and what is popped is ordered. When the queue is empty and nodes are left,
these form a set in which every node has a parent: a cycle (`WalkEnds`). Which
node of the queue is taken plays no part, so the proof serves `validate` and
`topo_sort` at once (`NextPoppedIsQueued`).

*The walk by layers.* `IsPeeled`: the k-th layer taken off is what ends a path of k
edges less what ends one of k + 1, and an in-degree counts the parents in no layer. The
sets of `Deep` shrink (`DeeperIsLess`) and, once two are equal, stay: so when no
layer is left the rest is what ends paths of any length (`PeelEnds`).

Both invariants hold while a walk runs because nothing else does (`WalkInv`).

### The frontier sampler

`TopoSamplerProofs`, for every finite node set, every DAG on it and every number
of samples (`NodeAssumption`, `SamplesAssumption`):

| Theorem | Says |
|---|---|
| `TypeCorrect` | `TypeOK`; in particular the `usize` decrement never goes below zero |
| `FrontierIsExact` | `FrontierExact` |
| `PrefixIsOrdered` | the order drawn so far has no repetition and lists each node after its parents |
| `NoEmptyDraw` | `random_range` never sees an empty range |
| `ReturnedOrderIsTopological` | what is returned is a topological order of the whole graph |
| `WeightIsFrontierProduct` | `WeightStep`, the importance weight |
| `SamplerImplementsLinearExtension` | refinement of `LinearExtension` |
| `WalkDrawsSamples` | the loop of `LargeWalk` draws as `TopoSampler` alone does |
| `CoalitionIsExact` | `CoalitionIsPrefix`, for words of any width |

The inductive invariant `IInv` is the conjunction of `TypeOK`, `Acyclic(pa)`,
`OrderedPrefix`, `RelaxInv` (the nodes still to be relaxed are children of the
node placed last) and, while a sample is being drawn, `SamplingInv`.
`FrontierExact` alone is not inductive: between a pick and the end of its
relaxations the frontier lags behind the order. `SamplingInv` says what
holds in the middle of a turn: the in-degree of a node is the number of its
parents not yet *counted* (a parent placed last is counted only when the child
has left `pending`), and the frontier lists without repetition the unplaced
nodes whose in-degree is zero. Each action has a lemma that preserves `IInv`
(`BeginInv`, `PickInv`, `RelaxChildInv`, `EndTurnInv`; `Return` within
`NextInv`). They rest on lemmas about vectors: `AppendElems`, `SwapRemoveElems`,
`ListingElems`, `InjectiveSeqCardinality`. That a draw never finds the frontier
empty needs acyclicity: a nonempty set of unplaced nodes has a member without
parents in it, which is then ready.

`WalkDrawsSamples` carries all of this over to the loop that walks the orders.
`CoalitionIsExact` adds to it (`WalkInv`) that during a walk a bit of a word is
set exactly if its node has been walked. A node has one place among the words
(`PlaceOfNode`) and there are words enough (`WordsSuffice`), and listing the words
from the first to the last lists the nodes in ascending order (`WordsAreListed`),
because each word is listed after all nodes below its base.

### Counts of orders

`GraphLemmas`, for every finite graph: `OrdersOfCounts`, that the
recurrence of `dag_dp.rs` and `dag_dp_sparse.rs` counts the topological orders of
what a set of nodes induces. The orders of T that begin with i are in bijection
with those of T without i if i has no parent in T, and there are none otherwise
(`OrdersBeginningWith`). So the numbers of orders satisfy the recurrence, and two
functions that satisfy it cannot differ on a smallest set. Three more facts
follow. `MostOrdersAtFirst`: no remainder of a graph has more orders than the
graph. `LastNodeRecurrence`: the orders of an ideal can also be counted by the
node they *end* with, since an order read backwards is one of the reversed graph.
`OrdersThrough`: the orders that pass through an ideal U are as many as orders of
U times orders of the rest.

### The uniform samplers

`UniformSamplerProofs`, for every finite set of numbered nodes and every bound on
the counts (`UniformAssumption`):

| Theorem | Says |
|---|---|
| `OrdersAreEquallyLikely` | `Uniform` |
| `OverflowComesAtOnce` | `OverflowAtOnce` |
| `UniformImplementsLinearExtension` | refinement of `LinearExtension` |

`IInv`: the order so far is an initial part of a topological order (`OrderInv`);
what is known is what `OrdersOf` says, the sparse sampler knowing nothing before
its first turn and everything it will ever need after it (`KnownInv`); a failure
belongs to the first turn (`OverflowInv`); and the chance of the order so far is
its share of all the orders (`ChanceInv`), which at the end is 1/L(G). The step
that carries `ChanceInv` over is `Shares`: of the random numbers below the count
exactly as many stop at a node as there are orders beginning with it, because
the cumulated counts are the numbers of orders beginning with a node up to it.
That an overflow comes at once is monotony: no remainder of the graph has more
orders than the graph (`MostOrdersAtFirst`).

### The estimators

`EstimatorsProofs`, for every set of inputs and configurations
(`InputsAssumption`, `UniformConfigsAssumption`, `FrontierGraphsAssumption`):

| Theorem | Says |
|---|---|
| `DrawsAreReported` | `ReportsDraws` |
| `ConvergenceIsTested` | `ConvergedComparesTwoTests` |
| `LookupsSucceed` | `UnwrapNeverFails` |
| `CallsAreRationed` | `EvaluatedOnce` |
| `SumsAreRight` | `SumsAreCommensurate` |
| `OverflowComesFirst` | `OverflowCostsNoCalls` |

The first four and the last follow from `IInv`. `RoundsOK` relates draws made,
draws added up and the number asked for in the middle of a round. `TestsOK` says
when a first test can have happened. `CallsOK` relates the cache, the calls and
the coalitions walked: what was asked for is what the draws passed through, and
a value is missing from the cache only if the cache is full, which it then stays.
`LookupsOK` is about a batch; it rests on `FirstOfCount`, that the chunks exhaust
the pending masks in the order of `sort_unstable`. `MemoOK` says that the memo
holds nothing or all it will ever hold. `SumsInv` adds, in the middle of a round
too, that each running sum times the largest weight is `Scale` times the exact
sum over the draws added so far (`EquationsOK`), for which the largest weight must
be that of the draws weighed so far, one round ahead of those added up (`TopOK`).
Rescaling keeps the equations because every weight divides `Scale`
(`RescaleKeepsSums`, `DivisorOfScale`): the linear sums are multiplied once by the
ratio of the maxima, the squared ones twice.

### Parallel sampling

`ParallelSamplingProofs`, for all numbers of samples, workers and threads, every
seed and every schedule (`SizesAssumption`, `SplitmixAssumption`):

| Theorem | Says |
|---|---|
| `WorkersHaveOwnStreams` | `StreamsDiffer` |
| `ResultIsAllDraws` | `ResultIsComplete` |

That the streams differ needs that there are fewer workers than seeds, so that
seed + worker wraps around onto no earlier one. `IInv` says of a
worker that is still at work that its sum holds the first of its own draws and
nobody else's (`OwnInv`), and of one that has ended that its sum holds all draws
from its own first to the next live worker's first (`JoinedInv`). Two neighbours
combined keep that, whichever pair comes first, because appending is associative;
with one live worker left the sum is everything (`ResultInv`).

### The exact methods

`ExactMethodsProofs`, for every set of finite graphs with numbered nodes, all
value functions, all sets of NaN values and all limits
(`ExactAssumption`). The last three hold of all four methods:

| Theorem | Says |
|---|---|
| `OrdersAreListedOnce` | `EveryOrderOnce` |
| `CountsAreFinalWhenRead` | `CountsAreFinal` |
| `NaNStaysContained` | `NaNIsContained` |
| `ValuesAreExact` | `ExactValues` |
| `IdealsAreEvaluatedOnce` | `EvaluatedOnce` |
| `RefusalsAreJustified` | `RefusalsAreRight` |

*Enumeration* (`EnumInv`). The stack of open calls is described by what is still
to come: an order is `Pending` if it agrees with the current one up to some level
and goes on with a node of the frontier kept for that level. The invariant says
that the shared in-degrees count the parents not yet placed, undone exactly on the
way back, that each frontier holds ready nodes of its level in ascending order,
all greater than the one being tried, and that an order is listed if and only if it
is not pending.
Listed orders come before pending ones, which makes the list ascending.

*The dense programme* (`DenseInv`). The masks ascend, so every proper subset of a
set comes before it (`MasksAscend`, `Seen`). On the forward pass `fwd[U]` is the sum
of what the ideals seen so far have handed on to U; when the walk comes to U that
is all of its one-smaller ideals, and `LastNodeRecurrence` makes the sum the number
of orders. That number is positive exactly for ideals (`OrdersArePositive`), so
zero does mean "not an ideal".

*The sparse programme* (`SparseInv`). The queue is in layers (`InLayers`): no ideal
is taken before a smaller one, so whatever adds to `fwd[U]` has been taken before U
is (`SmallerIdealsPopped`), and `fwd[U]` is then final (`AllHandedOn`).

*Exactness.* Along every order a node i is placed right after exactly one ideal
(`PrefixIsIdeal`), and `OrdersThrough` counts the orders that place it after U:
the weight both programmes give to U (`OrdersAtIdeal`). So what a programme has
added for i after a family F of ideals is the sum of i's gains over all orders
that place it after an ideal in F (`GainOver`, `ShareIsAdded`); F grows to all
ideals, and the sum to that over all orders (`GainOverAll`). The enumeration sums
along the orders walked so far (`GainAlong`).

*Calls.* What has been asked is at every moment what the ideals treated so far
ask for (`Askers`, `LookedUp`). Every ideal is one of these in the end: the empty
one, or one that extends another by its last node (`EveryIdealLookedUp`).

*Refusals.* `exact_dag` cannot overflow: a set of nodes has no more orders than
equally many nodes without an edge (`FewerThanPermutations`, by an injection), and
no sum on the way to a count is larger than the count (`PartialCount`). In
`exact_dag_sparse` both an ideal and its remainder have no more orders than the
graph (`IdealHasFewerOrders`, by `MostOrdersAtFirst` on the graph and on the
reversed graph), so an intermediate overflow is one of the total
(`OverflowOfTotal`). Its guard looks at the number of ideals found so far, which
ends as the number of ideals (`PreflightIsGuard`, `IdealsAreCounted`). And no
method calls the value function before both are settled (`DenseFits`,
`SparseFits`, `EnumFits`, `TreeInv`).

*Rooted trees* (`TreeInv`). Below a node the tree is a forest of the subtrees of its
children, and no edge connects two of them (`Subtrees`, `ClosedPicks`); an
induction from the leaves shows that `tree_ideals` lists the ideals of every
subtree, each once (`TreeIdealsLists`). An ideal that may be complete right before
i holds the path to i, nothing below i, and any closed part of the subtrees beside
the path: these are what the levels combine, so `PreSets` lists them, each once
(`PrecedingSets`, `PreSetsLists`). `HookLengths` is the formula the weights come
from: in a set of nodes without gaps (`Convex`), the orders times the sizes of
the parts below the nodes are as many as the permutations. The induction takes
away a source (`WithoutSource`); the parts below the sources share out the set
(`PartsBelowSources`), so their sizes add up to its own. The ideal before i, what
is left after i, and the whole tree are such sets (`ConvexParts`). That turns the
weight in the code into n! times the share of the orders with this ideal before i
(`WeightIs`), and the sum over the list into an average over all orders
(`TreeSumIsAverage`). The preflight multiplies and adds the lengths of these lists
(`CountsOfIdeals`, `CountsOfPreSets`, `SaturatingSums`), and saturation changes no
comparison with a budget below 2^64 - 1 (`PreflightIsExact`). A budget of 2^64 - 1
is no limit, in the code and in the property (`FullBudgetIsNone`).

### The peeling of a CPDAG

`CpdagHullProofs`, for every set `Name`: `PeelingIsConsistent`
(`ExtensionIsConsistent`) and `RefusalIsJustified` (`RefusalIsRight`). Neither
property is inductive: both speak of the end only. `IInv` adds `GraphInv` (at
most one edge between two nodes, undirected ones entered at both ends) and,
during the peeling, `PeelInv`:

- `OrientedInv`: an undirected edge has one direction as soon as an end of it is
  peeled off, and none before; `remaining` is the edges between active nodes;
- `Layered`: no oriented edge leads from a node that is off to one that is not;
- `PeeledAcyclic`: what is off is acyclic. With `Layered`, each peeled node being
  a sink among the active ones, this carries over to the whole at the end;
- `NoNewCollider`: whoever has a new edge to a node is adjacent to all its other
  parents. This is what `MakesNoCollider` is for (`PeelStepInv`).

`ExtensionHasCandidate` is the completeness: if any consistent extension exists,
it has a sink among the active nodes (`SinkExists`, by the well-foundedness of
strict inclusion, in `GraphLemmas`), and that sink is a candidate. The peeling keeps
no memory that could spoil this: the extension need not agree with what is
oriented so far. So a greedy search that gets stuck proves that there is none.

### The hulls

`CpdagHullProofs`, for every set `Graphs` of finite DAGs with numbered nodes
(`GraphsAssumption`), and for the composition with `Cpdag` for every set `Name`:

| Theorem | Says |
|---|---|
| `FixedPointAlwaysReached`, `HullOfCpdagIsReached` | `FixedPointIsReached` |
| `HullIsAlwaysLeast`, `HullOfCpdagIsLeast` | `HullIsLeast` |
| `AnyShortestPathWillDo` | `TieBreakIsImmaterial` |
| `HullOfEveryExtension` | `SameHullInEveryExtension` |
| `DConvexIsWalkConvex` | d-convexity by inducing paths is d-convexity by walks |
| `EquivalentIsConvex` | equivalent DAGs have the same convex sets |
| `ExtensionsStayConsistent` | the peeling keeps its promises as one stage of a hull |

*Fixed points.* `HullInv` says that `h` is a set of vertices and that
`rounds` and `passes` are at most its cardinality (`GrowthInv`): every round that
counts adds a vertex (`GrowsByOne`), so neither counter gets to n + 1. It needs
that a round collects vertices only (`AbsorbedAreVertices`) and that a violation
has a parent outside the set (`ViolationsAreNew`).

*Walks.* The specification speaks of inducing paths of the graph, the code of
shortest paths of moralized graphs. In between the proof puts walks that meet
every member of the set with two arrowheads, within the ancestors of the two ends. A
path has to be simple and may be long; a walk may repeat itself, so walks can be
joined and cut (`WalksJoin`, `Shortcut`). `DConvexIsWalkConvex` shows that the two
notions give the same convex sets: a shortest walk between two members that are
not adjacent is an inducing path.

*Least.* A convex set contains all that the closure adds to a subset of it
(`BelowConvex` of `LeastInv`). Suppose a shortest moral path between members of a
convex set T leaves T and comes back. Both ends of the stretch outside fall, by
directed paths, on members of T, and each step along it keeps the start joined
to whatever the current vertex falls on (`FallingTogether`), so in the end its two
ends are moral neighbours (`StretchIsBridged`). The path was then not the shortest
(`MoralShortcut`); so it stays inside (`PathsStayInside`), whichever shortest path was
found, which also gives `TieBreakIsImmaterial`. In the other direction a
set at which the closure stops is convex (`FixedPointIsConvex`): an inducing path
between two members leaves a moral path outside the set, and a shortest one
would have been collected. For the strong hull `ParentsStayInside` and
`NoViolation` do the same for the parents that the second loop adds.

*In every extension.* Two extensions have the same adjacent pairs and the same
unshielded colliders (`ExtensionsAreEquivalent`). Of two different such
DAGs one has an edge, turned the other way in the other DAG, whose ends have the
same parents but for the edge itself (`CoveredArrow`). Turning it gives an
equivalent DAG that differs in one edge less and has the same convex sets
(`TurnedKeepsConvex`, `TurnedKeepsOrder`): a walk that used it is led around, and
a shortest one needs no detour. A DAG with other convex sets and as few
differences as possible therefore does not exist (`EquivalentIsConvex`). Least
sets that are equal as families are equal (`EquivalentHulls`).

All of it carries over to the composition. A step of it is a step of
`Cpdag` or leaves its variables alone (`StepsOfCpdag`), and the graph given to
the hull is a DAG because `ExtensionIsConsistent` says so (`OnExtension`).

### The dispatch

`BuildAndDispatchProofs`, for every set of graphs, of any size, and value functions
that may return every kind of error (`GraphsAssumption`, `RaisesAssumption`):

| Theorem | Says |
|---|---|
| `DispatchAnswers` | `AlwaysAnswers` |
| `SamplingIsOverBudget` | `SampledIffOverBudget` |
| `PreflightIsSound` | `PreflightMatchesGuard` |
| `FallbackIsReportedTruly` | `FallbackIsTrue` |
| `RaisedErrorsAreReturnedOrMistaken` | `PropagatesUnlessMistaken` |

`DispatchInv` records, for the method that is running, what its having been
reached says of the graph, unless an error was mistaken (`MethodInv`); that the
methods that refused or whose errors were mistaken are among those tried before
(`Before`) and that every other error has ended the call (`RaisedInv`); what the
reported claims say of the graph and of the methods given up (`ReasonInv`); and
that an error is a raised one unless the configuration is bad (`ResultInv`). A
method never comes before itself (`NeverAgain`), so a mistaken error is not the
result of the method it came from. What all three fallbacks have in common is
one lemma, `GivenUp`. The steps compare budgets such as
2^(n-1), which the solvers do not order by themselves: `PowersGrow` counts the
subsets of one set and of a larger one.

### Only model-checked

Liveness (`SampleEnds`, `Terminates`, `Returns`), which the prover does not treat.
Every other property of the passing runs is a theorem.

## Where the code and its documents differ

Shown by a run that TLC finds violated:

1. `graph.rs:176` checks the index of a `NodeId` and nothing else; `graph.rs:8`
   promises an error for an id of another or a stale graph. (*stale_handle*)
2. `approx.rs:501` folds changes with `f64::max`, which drops NaN, so a call can
   report `converged = true` with a NaN estimate; `docs/correctness.md:61` ties
   `converged` to the relative change having been met. (*converged_nan*)
3. `approx.rs:103`: `num_threads = Some(0)` makes no worker, and the call returns
   Ok with NaN values and the full `n_samples`, which `asv.rs:75` calls the
   samples used. (*no_threads*)
4. `dag_dp_sparse.rs:84` compares one table with a limit that
   `dag_dp_sparse.rs:12` states for two. (*sparse_memory*)

Met while reading; not kept as runs:

- `sampler.rs:15` speaks of results independent of the number of threads; the
  slices, and with them the streams, depend on it (`approx.rs:103`).
- `sampler.rs:58` hashes seed + worker, so calls with neighbouring seeds share
  all but one stream; `helpers.py:292` compares runs with consecutive seeds as if
  they were independent.
- `exact_dag` reports `n_samples` = number of masks (`dag_dp.rs:151`), where
  `asv.rs:75` says number of topological orders.
- "Every code path returns `stderr` and `converged`" is said of `auto_quality`
  (`asv.rs:602`); the exact methods it may choose report neither.
- `auto` uses a preflight of 2^(n-1) ideals for 9 to 20 nodes (`asv.rs:498`), where
  its table of rules (`asv.rs:402`) names the memory guard's own budget.
- `recommended_method` of the binding (`python.rs:318`) can name another method
  than `auto` chooses.
- "InvalidConfig here can only be exact_tree's own n>64 bitmask limit"
  (`asv.rs:443`): it can also come from a Rust value function, which may return
  any `CausasvError`. Such an error, and one of the kinds caught at `asv.rs:441`,
  478, 517, 552 and 735, is taken for a refusal: another method runs, and a call
  that then succeeds may report a cause that there was not. `AutoDispatch` has
  these steps; `PropagatesUnlessMistaken` says which errors are lost.
- "`auto()` uses an exact method when feasible" (`README.md:77`), and "`n <= 20`:
  sparse or dense exact DP" (`docs/correctness.md:105`): a tree is never given to
  `exact_dag`. One that costs `exact_tree` too much and has over 250,000 order
  ideals is sampled (`asv.rs:464`-494, 646-680), as a wide tree of 19 or 20 nodes
  does, within the limit of 20 nodes that `exact_dag` has. `OverBudget` describes it.
- After `exact_dag_sparse` and the uniform sampler have both overflowed,
  `auto_quality` names the first in `fallback_from` and quotes the second in
  `fallback_reason` (`asv.rs:735`-740).
- "`seed=42, parallel=true` always produces the same aggregate result"
  (`sampler.rs:57`): Rayon's `try_reduce` (`approx.rs:148`) brackets the additions
  as the schedule has it, so the result is the same up to rounding.
  `ResultIsComplete` shows that the summands and their order are.
- The by-name `add_edge` of the binding adds both nodes before the edge can be
  refused (`python.rs:177`), so a refused call may leave new nodes behind.
  `DagBuild` has the step, and its properties hold after it; none forbids it.
- `d_convex.rs:84` explains why a round may return vertices that are all in `h`
  already, by two vertices that moralization makes adjacent. Within the
  ancestors of the two that cannot happen: their common child would be an
  ancestor of one of its parents.
- `helpers.py:117` says that further arguments are forwarded to
  `explain_stability`; `helpers.py:155` says that some are not; none is.

## What is left out

- *Floating point.* Sums are exact integers, in `ParallelSampling` sequences of
  draws without brackets: in which order the workers' sums are added is modelled,
  how the additions are grouped is not. Kahan compensation, rounding, the
  logarithms and the overflow of unnormalised weights in the parallel branches
  have no counterpart. NaN is a value of its own where the control depends on it.
- *Standard errors* and their quantiles; estimates matter only for convergence.
- *`coalition.rs`*: packed words are modelled where they survive from sample to
  sample (`LargeWalk`); elsewhere coalitions are sets.
- *Random numbers*: every draw that has a positive probability is a possible
  step. Probabilities are modelled in `UniformSampler` and as weights.
- *Accessors and conversions* of the binding, and error messages.
- *Cpdag*: the comparison of skeletons in `validate_cpdag`.
- *`recommended_method`* of the binding: it repeats some of the tests of `auto`
  and changes nothing.
- *`helpers.py`*: it calls the binding several times in sequence and compares
  numbers; it keeps no state from one call to the next.
- *`instability/`, `plot.py`*: transformations of tables and drawing, without
  state or concurrency.

## Plan

The order follows what results depend on: samplers, estimators, exact methods,
dispatch, then the graph algorithms beside them.

1. Done: foundations, `DagBuild`, `TopoSampler` with its proofs, `UniformSampler`,
   the estimators, `ParallelSampling`, `ExactMethods`, `AutoDispatch`, `Cpdag`.
2. Done: `DConvexHull` and its composition with `Cpdag`; `LargeCoalition` and its
   composition with `TopoSampler`; the copies and the layers in `DagBuild`; the
   proofs about `Cpdag`, the hulls and `AutoDispatch`.
3. Done: the proofs about the uniform samplers and the counts behind them, the
   estimators and parallel sampling.
4. Done: the proofs about the packed coalition and the exact methods for any
   graph.
5. Done: the proofs about `DagBuild`; that the hulls are least, and the same in
   every extension.
6. Done: the proofs about `exact_tree`. Nothing is left but what
   [is left out](#what-is-left-out).
