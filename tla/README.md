# Verification of graphStructureBench

This directory holds TLA+ specifications of the core of the benchmark, the TLC
configurations that check them on small instances, and TLAPS proofs of their
main properties for every instance. Paths are relative to the repository; every
definition that models code is listed with its lines in `PROJECT.json` (`map`).

The program compares nine index structures for directed graphs. All of them
must answer the same thing, or the throughputs that are reported compare
nothing. What can go wrong without a crash, and what the specifications are
about, is an answer that depends on the schedule of goroutines, on a buffer an
earlier query left dirty, or on the representation of the graph; a measure that
the tables show in the wrong place; and a campaign of measures that stops half way.

## 1. Inventory

| component | state | operations | hard behaviour | what makes it correct |
|---|---|---|---|---|
| graph contract (`graph/graph.go`) | a list of edges; `Dedup` sorts it and removes copies | `Degree`, `ForEachNeighbor`, `AppendNeighbors`, `HasEdge` | structures disagree on lists with duplicates | answers are a function of the list of edges |
| `csr`, `csr-slices` (`graph/csr.go`) | `offsets`, `targets`; or an arena and a slice header per vertex | counting sort in four loops; binary search | cursors that move inside blocks; append through a returned slice | blocks partition the targets and are sorted |
| `hybrid` (`graph/hybrid.go`) | CSR of the rest, bitset of hubs, rows of bits | promotion under a budget, split of the edges | rounding of words, budget, two descriptions of who is a hub | each edge in exactly one representation; rows bounded |
| `edgelist` (`graph/edgelist.go`) | sorted keys `from<<32 \| to` | lower bound, scan | last vertex, last key | scan covers exactly the keys of a vertex |
| `varint-csr` (`graph/varintcsr.go`) | bytes and offsets | LEB128 encoding of gaps, decoding from a given place | one byte too few shifts all that follows | decode(encode) is the list |
| `adjlist`, `adjlist-exact`, `adjmap` | a slice per vertex | append, sort | spare capacity | as the contract |
| `bitmatrix` (`graph/bitmatrix.go`) | rows of words | set and scan bits | word boundary, size limit | as the contract |
| traversals (`traverse/traverse.go`) | one `Scratch` per goroutine: bitset, list, stack, block buffer, accumulator | `BFS`, `BFSBatch`, `DFS`, `Neighbors`, `NeighborsBatch` | buffers survive from a query to the next one; the queue grows while it is walked over | replies depend on the graph only |
| runner (`bench/runner.go`) | arguments, GOMAXPROCS, an atomic counter, a WaitGroup, one result slot per goroutine | `Run`: claim a chunk, answer, publish, merge | every interleaving of the goroutines and the caller | each query once, whatever the schedule |
| workloads (`bench/workload.go`) | none | query generation, dispatch | sources without neighbours, graphs without edges | queries name vertices of the graph, and lead somewhere |
| sweep (`cmd/gsbench/main.go`) | results, query sets, reference checksums | the loop over all measure points, the verdict, the files | structures left out; only the best pass is compared; errors of the device | a divergence of what is recorded is reported |
| report (`bench/report.go`) | none after the results | tables, scaling column, CSV | measures found by key; axes merged from workloads with different volumes | each cell shows its measure |
| generator (`gen/gen.go`) | none | `er`, `rmat`, `grid`, symmetrisation | rounding of sizes, ends of rows | edges stay below n, both directions, planar grid |
| campaign report (`scripts/make_results.py`) | rows of one or two campaigns | tie threshold, sentences | sentences that need both campaigns | - (see section 5) |
| table extraction (`scripts/report.py`) | the CSV files of a directory | load, select | files of several campaigns | it reads one campaign |
| campaign script (`scripts/run-bench.sh`) | a directory of files | four runs of the command | stopped anywhere, a device that fails | old and new measures are not mixed unnoticed |

How they interact: the sweep generates a graph and the query sets, builds one
index after the other with `Build`, and calls `Run` once to warm up and several
times to measure. `Run` starts goroutines that share the read-only index and the
counter, and each one serves its chunks with its own `Scratch` through the
workload's closure, which calls one traversal. A traversal calls the index, which
calls the closure of the `Scratch` back for each neighbour. The merged checksums
are compared between structures by the sweep. At its end the program writes a text, a
CSV and a markdown file. The campaign script calls it four times in one directory, where
the files of the campaign before may still be, and `report.py` reads every CSV it
finds there. The files are the only thing that outlives a process: a campaign may be
interrupted, a call may fail and a write may be refused, and `Campaign` models this. There is no
network, and nothing is retried.

## 2. Modules and how they correspond to the code

| module | models | against |
|---|---|---|
| `BatchRun` | the promise of `bench.Run` | - |
| `Runner` | `bench.Run` and its goroutines | implements `BatchRun` |
| `GraphQuery` | the promise of the traversals | - |
| `Traverse` | the traversals on one `Scratch` | implements `GraphQuery` |
| `Slices` | sorting and binary search of slices, as the library's package `slices` does them | - |
| `GraphContract` | the reference answers of `graph.Graph` | - |
| `CSRBuild` | `buildCSRArrays` and the readers of `CSR` | `GraphContract` |
| `HybridBuild` | `NewHybrid` and the readers of `Hybrid`; contains `CSRBuild` for the rest | `GraphContract` |
| `Iteration` | the promise of `ForEachNeighbor` | - |
| `EdgeKeys` | packed edges and `Dedup` | - |
| `EdgeList`, `VarintCSR`, `BitMatrix`, `AdjLists` | the constructors and the readers of the other structures, `ForEachNeighbor` step by step | by `Indexes` |
| `SharedSlices` | the slices that `adjlist`, `adjlist-exact`, `csr` and `csr-slices` hand out, and callers that append to them | - |
| `Indexes` | the interface `Graph` and the table of builders; composes the five modules above | `GraphContract`, implements `Iteration` |
| `Generate` | `gen.Generate`, `randomSources`, `edgeProbes` | - |
| `ParallelTraverse` | a generated graph, and goroutines of `Run` that traverse it, each on its `Scratch`; extends `Generate` | - |
| `Report` | the tables and the verdict, as functions of the measures | - |
| `Sweep` | the loops of `main`; extends `Report` | - |
| `Campaign` | `run-bench.sh`, the files at the end of `main`, `WriteCSV`, `load` of `report.py` | - |
| `MCRunner`, `MCTraverse`, `MCCSRBuild`, `MCHybridBuild`, `MCIndexes`, `MCParallelTraverse`, `MCSweep`, `MCCampaign` | instances for TLC | |
| `RunnerProofs`, `TraverseProofs`, `CSRProofs`, `HybridProofs`, `IndexProofs`, `ParallelProofs`, `SweepProofs` (with `Campaign`) | theorems | |
| `NaturalFacts` | lemmas on natural numbers and finite sets that these proofs share | |

Definitions whose comment begins with "Mutant of" are wrong variants of the
definition they name, which follows them. They are not part of any specification; each one
is paired in `PROJECT.json` with the property that rejects it, to show that the
property can fail.

**Runner.** `main` is the program counter of the caller, `pc[w]` that of goroutine
`w`; the other variables have the names of the code's. The caller does
`Enter` (normalise, set GOMAXPROCS), `Spawn` once per goroutine (so that the first
goroutines run while others are not started), `Wait`, `Collect` once per slot, and
`Return`. A goroutine does `Claim` (one atomic `next.Add`, then the test of the
loop), `Answer` per query, `EndChunk`, `Publish` and `Done`. Between two claims a
goroutine only touches its own variables, so finer steps would add nothing. The
answer of a query is not interpreted: a checksum is a formal sum that says how
often each query was added, of which the code's sum modulo 2^64 is an image. A
duration is represented by the chunk it measures. `wall`, the throughput, and the
sort of the durations are left out. The counter is an unbounded integer; it is an
`int64` in the code, which `CounterOvershoot` keeps far from its limit.

**Traverse.** A behaviour is any sequence of the five queries, from any vertex,
on one `Scratch`. A step is the start of a query, one iteration of a loop, or one
call of `visitFn`, `pushFn` or `sumFn`. `visited` is the set of vertices whose bit
is set; `list`, `stack`, `buf` are the slices; `acc` is `Scratch.sum`. The graph
is any function from vertices to sequences of neighbours, in any order and with
repetitions, so that the result covers all nine structures. `reset` is a loop
in the code, and one step here, with the start of the query: nothing else runs
on the same `Scratch`.

**CSRBuild and HybridBuild.** One step is one iteration of a loop, and arrays are
functions from indices counted from 0. `slices.Sort` of a block chooses the
ascending arrangement of its elements, which is unique. A machine word is the
set of its bits. `WordBits` is 64 in the code; the threshold `n/32` is `n` divided by
half of it, since a target takes half a word. `BuildRest` of `HybridBuild` is a step
of `CSRBuild` on the edges that leave no hub. The values are integers without
width: `uint32` offsets would overflow from 2^32 edges on, 32 GiB of edges.

**EdgeKeys, EdgeList, VarintCSR, BitMatrix, AdjLists.** Each has the arguments of its
constructor (`n`, `edges`), its own arrays, and the variables of one iteration: `asked`
is the vertex, `sent` what the callback received, `more` its last answer, chosen
freely. The loops of a constructor that no reader can observe are one step where
their order does not matter (`NewBitMatrix`, `NewSortedEdgeList`) and one step per
iteration where state builds up (`Encode`, `AppendEdge`, `SortList`; the order of a map
is any order, and the capacity after a growth is any up to `Slack` above what is
needed). Keys keep their width: half a word holds `Radix` values, 2^32 in the code, and a key is
cut to the square of it.
LEB128 is modelled digit by digit with bytes of base `Base`, so that small gaps
already take several bytes. A word is the set of its bits.

**SharedSlices.** A slice is a block, a start, a length and a capacity; `Extend` is the
`append` of Go, in place when the capacity allows, in a new block otherwise.

**Indexes.** `name` is the structure that is built; each step is a step of the module of
that structure. `Init` starts from a list with repetitions and gives the constructor
what `Dedup` makes of it, or the list itself, in any order, when it has none: the
constructors promise to sort.

**Generate and ParallelTraverse.** A random draw is any of its outcomes, one draw per
step. `edges` is the set of edges, since `Dedup` follows (it is checked in `Indexes`).
In `ParallelTraverse` `visited[k]` and `list[k]` are the `Scratch` of goroutine `k`, `head` and
`sum` the local variables of `BFS`; a claim is one query, as the chunk of `bfs` is.
Steps of different goroutines interleave between any two vertices of a queue.

**Sweep and Report.** `Setups` are the command lines: graphs, structures, points, passes. One
step is a graph, a structure, a pass or a recorded point; `bench.Run` is one step, with
any duration out of `walls` and the right checksum, or, for a structure in `faulty`, the right
or a wrong one, afresh at each pass. A checksum is the number of the set of queries that was
answered, so that other queries are told apart from the same ones. `timed` is a
history variable: the durations of the timed passes of each point. The tables are functions
of the sequence of measures, with the lookup key, the order of the axes and the
choice of the batch of the scaling column as they are in the code; a group of measures keeps their
positions in the whole sequence, of which only the order matters. A throughput is the quotient rounded
down, and 0 for a pass of no duration, as in `Run`; a size may be 0, as `bench.Build` gives it when the heap did
not grow. `SweepAssumption` and `ProductAssumption` say what `main` makes of its flags: distinct graphs,
structures with distinct names, and points that are the product of the loops, the threads in the innermost.

**Campaign.** A file is the campaign that created it and the number of `Blocks` of the
writer's buffer that the system has accepted; the last one is written by the deferred `Flush`. `Kill` is an
interrupt from the terminal, which reaches the script and `gsbench` together, and may occur at any step. Two stops are
left out, and the properties of the campaign do not hold under them: a signal to the script alone, after which `gsbench` goes on
and still creates its files, and a power cut, which may take away blocks that were accepted, since the code never calls `fsync`. An
error of the sweep (`SweepFails`), `CreateFails` and `WriteFails` where the code checks an error, and
`Flush` and the text and markdown reports may lose what they write without an error, because
nobody reads it. The markdown is created and written in one step: no property reads what it holds.

## 3. Runs, bounds, and what they show

| run | instance | states | shows |
|---|---|---|---|
| `runner_safety` | threads 0, 2, 3; chunk 0, 2, 3; 0, 1, 5, 6 queries | 230,900 | all properties of `Runner`, its inductive invariant, and that it implements `BatchRun` |
| `runner_live` | threads 0, 1, 2; chunk 0, 2; 0 or 3 queries | 620 | every call answers its batch and returns |
| `traverse_safety` | all graphs of two vertices, all loop-free graphs of three, four graphs of four | 154,266 | all properties of `Traverse`, and that it implements `GraphQuery` |
| `traverse_live` | two cyclic graphs, one with repeated edges | 3,810 | every query is answered |
| `csr_build` | all lists of up to 4 edges over 2 vertices and 3 over 3, in any order, with repetitions | 20,550 | the offsets and cursors count the edges, the loops keep to their blocks, and the index honours the contract |
| `hybrid_build` | words of 4 bits; all sets of edges over 2 vertices, from two of 3 and two of 5 vertices; three hubs of 5 | 41,281 | the rows and the rest split the edges, within the budget |
| `hybrid_cost` | words of 64 bits, 65 vertices | violated | see section 6 |
| `indexes` | every list of up to 3 edges over selected vertices of graphs of 0 to 5 vertices; two vertices of a graph of 16, the most that `Radix = 16` can name; two sources of a graph of 12 with gaps up to 11; two callers, `MaxLen = 3`, `MaxNew = 1` | 319,096 | six structures answer alike, iterate as promised, and have the sizes they should; appends spoil nothing |
| `parallel_traverse` | ten specifications of graphs, one to nine vertices; 0, 1 or 2 queries, two goroutines | 262,980 | the graphs, the queries on them, and the replies of goroutines that share an index |
| `sweep` | six setups: up to two graphs, three structures, six points, three timed passes | 177,158 | from the passes to the tables and the verdict |
| `campaign` | four sweeps, three blocks, `MaxCampaigns = 2`, a device that may fail | 534,827 | what a directory holds after a campaign, whole or stopped |
| `campaign_flush` | two sweeps, one campaign | violated | see section 6 |

Why the bounds are enough. In `Runner`, three goroutines give one that is ahead,
one that is behind and one that has not started; with 5 or 6 queries and chunks
of 2 or 3 there are both exact and short last chunks and more goroutines than
chunks; zero exercises the normalisation. The proofs remove the bounds. In
`Traverse` three vertices give cycles, unreachable vertices, and vertices pushed
twice; the graphs of four vertices add a diamond and a vertex that must be popped
late. A behaviour serves any number of queries, so each one starts from every
buffer the others can leave. In `CSRBuild` three vertices give a block with a
neighbour on each side, and empty blocks. In `HybridBuild` five vertices make rows of
two words, and with three sources the budget denies a row to the last one.

In `Indexes` the graph of 16 vertices has the last vertex that a key can name, whose next
key does not exist; words of two bits give rows of one, two and three words, full and not;
`MaxWords = 12` accepts four vertices and refuses five, although the bits of five would fit
without the rounding; base 3 gives gaps and degrees of one to three digits. `Slack = 1`
gives an append that fits and one that moves. In `SharedSlices` a slice may grow by one beyond
the longest list, and one new block may be allocated: a caller that holds memory of the index,
one that has moved away, and a buffer that is reused all occur. `Traversed` bounds the
kinds of graphs that are traversed to `er` and `grid`; `rmat` graphs are only generated. With two
queries and two goroutines one goroutine may answer both, with the `Scratch` of the first.
In `Sweep` each setup is there for a case: structures left out between others, no timed pass
asked for, wrong answers in the warm-up or in a slower pass, an unknown kind, batches of their own
for each workload, a pass without duration and an index without size, threads in descending order. Two campaigns (`MaxCampaigns`) give files older than
those of the campaign under way, and three blocks a CSV that is empty, cut in the middle, or without
its last block.

Properties. The `IInv` of `Runner` and of `Traverse`, and `RowsConsistent`, contain the type invariants;
that of `CSRBuild` is proved, in `CSRProofs`, and so is that of `Campaign`, in `SweepProofs`.

- `ClaimsDisjoint`, `EveryQueryOnce`, `ChunksTimedOnce`: the racing claims cut the
  batch into chunks, each taken once; hence the checksum and the number of
  durations depend on neither the schedule nor the number of threads.
- `MergeAfterPublish`: the caller reads a slot only after its goroutine wrote it.
- `CounterOvershoot`: the counter passes the end of the batch by at most one chunk
  per goroutine.
- `ProcsRestored`: goroutines answer under the GOMAXPROCS of the thread axis, and the
  caller gets its own back.
- `VisitedIsList`: the set bits are those of the listed vertices; this is why a
  reset that only visits `list` is complete.
- `StackBounded`: the DFS stack is bounded by the edges seen so far, not by the
  vertices: vertices are marked when popped.
- `BreadthFirst`, `DepthFirst`: the visiting orders deserve their names. The set of
  visited vertices is right in any order, so the checksums would not show it.
- `ScatterInBlock`, `BlocksPartition`, `ContractHolds`: the counting sort and the
  index that it gives.
- `RowsConsistent`, `EdgesSplit`, `BitmapOverhead`: hubs have distinct rows within the
  budget; each edge is in one representation; a row costs at most one target more
  than it replaces.
- `ContractHolds` of `Indexes`: whatever the structure, degrees, listings and `HasEdge` are those
  of the list before `Dedup`, each edge once.
- `SizesExact`: what the benchmark compares is the size it says: the blocks of `varint-csr`
  leave no byte, `bitmatrix` refuses exactly what is above its limit and counts each edge once, and no
  list of `adjlist-exact` ever moves.
- `SlicesSafe`: whatever callers append to, the index still lists its neighbours. The
  plain `csr` is the exception that the property names: its windows must only be read.
- `GraphWellFormed`, `QueriesFit`: nothing in the program checks these, and all structures would
  agree on a wrong graph or on queries that go nowhere.
- `RepliesDetermined`, `AllAnswered`: a traversal of a goroutine is not disturbed by the others.
- `SilenceMeansEqual`, `NoFalseAlarm`: no message means that all the measures of a set of
  queries have one checksum; right structures never cause a message.
- `EveryMeasureShown`: each cell shows the fastest timed pass of its point, and a structure is
  missing only where it had to be.
- `ScalingRight`: the scaling of a row compares throughputs at one batch, and is a dash in every row of a workload that does
  not go up to the largest batch of all; setups with equal and with different batches are both in the run.
- `ComparisonsRight`: the ratios and the verdict compare what they say.
- `SuccessIsOneCampaign`, `OnlyLastBufferLost`, `StoppedBetween`: after a script that succeeded the
  files are of one campaign and lack at most the last buffer; one that stopped spoils at most one CSV, and only
  when its sweep was measured to the end.

Refinements: `ImplementsBatch` and `ImplementsQuery` map the state of the detailed
specification to the abstract one: the queries answered so far are those in some
checksum; the pending request is the operation and its vertex. `ImplementsIteration` maps the six structures
of `Indexes` to `Iteration`: the phases before `ready` are its `build`, and steps inside a
structure, such as going to the next word, stutter.

Fairness. `Runner!FairSpec` assumes weak fairness of the caller and of each
goroutine: the Go scheduler is preemptive and eventually runs a goroutine that can
run; nothing in `Run` holds a lock. No fairness between the goroutines that race on
the counter is assumed, and one of them may answer everything. `Traverse!FairSpec`
assumes that a query that has started keeps running; new queries need not come. `Indexes` assumes the
same of an iteration that has begun, and `ParallelTraverse` of each goroutine.
Deadlock is checked in every run: where the program really ends (`Returned`, `Built`)
an explicit step stutters. `Sweep` and `Campaign` have no fairness: their
properties are of safety.

## 4. Proofs

`RunnerProofs` proves, for every number of threads, chunk size, and batch size
allowed by `RunnerAssumption` (integers, natural for the batch):

- `TypeCorrect`, `Invariant`: `Spec => []TypeOK` and `Spec => []IInv`;
- `DisjointClaims`, `AnsweredOnce`, `PublishedBeforeMerge`, `ProcsAreRestored`;
- `TimedOnce`: `Spec => []ChunksTimedOnce`, and `OvershootBounded`: `Spec => []CounterOvershoot`;
- `RunRefinesBatch`: `Spec => ImplementsBatch`.

None of the properties is inductive. `IInv` says who holds what: the queries below
the counter are exactly those held by some goroutine (`ClaimedBelowNext`), by one only
(`ClaimsDisjoint`), either in its checksum or in the rest of its chunk (`ChunkInRange`,
`AtMostOnce`); a goroutine leaves its loop only when the counter is past the end
(`LeftWhenExhausted`); and the WaitGroup counts the goroutines that are started and
not finished (`WaitGroupCounts`). When `Wait` passes, no goroutine is alive, so all
have published, the counter is past the end, and every query is in one checksum.

The two properties about chunks need more. `TimesInv` says which chunk each duration stands for: the
counter is a multiple of the chunk, a chunk that was claimed is in the samples of exactly one
goroutine or is the one it works on, and `MergedTimes` carries this over to the durations that
the caller has appended, slot by slot. `OvershootInv` counts the goroutines that can still claim
(`Left`): the counter passes the end by at most a chunk for each one that has stopped, because a
goroutine that finds the batch exhausted claims no more.

`TraverseProofs` proves, for every finite graph:

- `TypeCorrect`, `Invariant`, and `ResetIsComplete`, which is `Spec => []VisitedIsList`;
- `TraverseRefinesQuery`: `Spec => ImplementsQuery`, the functional correctness of the
  five queries on a reused `Scratch`;
- `StackIsBounded`, `VisitsDepthFirst`, `VisitsBreadthFirst`: `Spec => []StackBounded`, `[]DepthFirst`
  and `[]BreadthFirst`.

Reachability is stated without recursion: a vertex is reachable when it belongs to
every closed set that contains the source. `OnlyReachable` says that marked and
pushed vertices lie in each of these sets; `QueueClosed` and `StackClosed` say what is
missing for the marked vertices to be closed themselves. At the end nothing is
missing, so the marked vertices are exactly the reachable ones. `Summed` and
`LookedUpSoFar` give the sums, and `VisitedIsList` the count, since a list without
repetitions is as long as its set of elements.

The orders have invariants of their own. `StackRoom` counts the edges that have not pushed yet.
For depth-first order, `StackOrder` says that each vertex on the stack was pushed by a listed one (`PushedBy`)
and that those pushed by a later vertex lie above (`Nested`); the vertex that is popped is then a
neighbour of the latest listed one that still has a neighbour to visit. For breadth-first order,
`QueueOrder` says that the list ascends by distance (`ByDistance`) and that what the head appends is
not farther than one edge more (`NotFarther`); `Layered` ties the recursive function `Within` to the closed
sets of the other proofs.

`CSRProofs` proves, for every number of vertices and every list of edges:

- `TypeCorrect`: `Spec => []TypeOK`, which is inductive by itself;
- `Counts`: `Spec => []OffsetsCount`, what each slot of `offsets` and `cursor` means in
  the middle of each loop, by induction over `TypeOK`; the step of the prefix sum is
  `NextBound`, that the edges below `u + 1` are those below `u` and those of `u`;
- `BlocksCorrect`: `Spec => []BlocksPartition`, a consequence of `OffsetsCount`;
- `ScatterCorrect`: `Spec => []ScatterInBlock`. `SlotIsFree` says that the slot of the
  next edge is in the block of its source, unused, and in no other block, because the
  bounds do not decrease; `SlotsStep` then counts one slot more for one edge more.

- `ContractCorrect`: `Spec => []ContractHolds`. `BlocksSorted` says that the blocks up to the index are
  ascending and that every block has each target as often as the list of edges has; what scatter
  leaves gives the second part (`ScatterFills`), the sort of one block keeps the others because blocks are
  apart (`BlocksApart`). `BinarySearchFinds` is about the search on any ascending slice: the place of a value
  between two bounds exists, is unique (`OnePlace`) and stays between the bounds of the half that is
  kept (`HalfKeepsPlace`). The search is a recursive function in the model; that it is
  defined on all pairs of bounds is part of the proof (`LowestIsPlace`).

`HybridProofs` proves, for every number of vertices, every list of edges without repetitions, and
every even word size:

- `RowsCorrect`: `Spec => []RowsConsistent`; `SplitCorrect`: `Spec => []EdgesSplit`;
- `OverheadBounded`: `Spec => []BitmapOverhead`;
- `ContractCorrect`: `Spec => []ContractHolds`.

Its `IInv` adds to `RowsConsistent` what each loop has done: the degrees counted so far
(`DegreesCounted`), the vertices decided (`HubsMarked`), the bits that are set, one for each edge of a
hub that was read and no other (`BitsSet`), and what `rest` has of the other edges, with the number of edges in both
(`RestKept`). `BitsSet` needs that two bits never share a place: `RowPlaces` for the rows, and for the bits in a word the uniqueness
of quotient and remainder. `RoomPaid` is the accounting behind `BitmapOverhead`: a vertex above the threshold has as many edges
as its row has room, but for one (`PromotionPays`). `ArraysBuilt` says that the arrays are in a
state that `CSRProofs` allows for `rest`: each step of the call is a step of the instance `Rest` of
`CSRProofs` (`SameStep`), whose invariant and contract are used as lemmas. The neighbours of a hub are an enumeration
of its bits (`Enumerated`): each target is as far in it as there are targets below.

`ParallelProofs` is about `Generate` and `ParallelTraverse`, for every set of specifications of graphs, every batch size,
any number of goroutines, and every schedule:

- `GraphsAreWellFormed`: `Spec => []GraphWellFormed`; `QueriesAreFit`: `Spec => []QueriesFit`;
- `RepliesAreDetermined`: `Spec => []RepliesDetermined`.

The invariant of the first two is `GraphIInv`: the size is that of the topology (`Sized`), each draw adds edges
below it (`EdgesInRange`), and the grid has the links of exactly the cells that were drawn (`Planar`). A vertex of `rmat` is a
sum of distinct bits below the size (`PlacedBelow`), and a vertex of the grid is a row and a column, unique as quotient and remainder (`PlaceOf`);
a link to the next cell exists only where the row does not end (`CellFacts`).
The invariant of the third is `RunIInv`. `WorkerIInv` says that each `Scratch` is
consistent also between two queries, so that `Reset` clears all of it, and `Walking` what a traversal
has done: it has listed each vertex once, all the neighbours of those taken off the queue (`Expanded`) and nothing outside
a closed set that holds the source, and its sum is that of the vertices taken off. At the end nothing is left to take off, so
the list is the least closed set, which is what the fold of `Reach` computes in `n` rounds (`ReachFacts`: the
set grows in each round or is closed). The other goroutines appear only in
`WorkerSame`: a step changes the `Scratch` of one.
The sums are folds over sets; `SumsExist` gives the function that such a fold chooses, and `TotalAdd` its equation. The
neighbours are listed by rank (`InOrder`) and not with the library's sort, whose definition the prover cannot expand.

`NaturalFacts` has what several of these proofs need: induction and definition by recursion on natural numbers in a form that
the provers can instantiate (with a set or a function in the place of a formula), least elements, quotients, remainders and multiples,
induction, recursion and sums on the subsets of a finite set, binary search on an ascending slice, and the enumeration of a finite set in
ascending order.

`IndexProofs` is about the six structures of `Indexes` and the slices that an index hands out. It holds for every set of lists of edges,
in any order and with repetitions, every number of vertices up to `Radix`, every base from 2 on, every size of a word, and any limit of the
matrix, and for any callers and lists of neighbours (`IndexesAssumption`):

- `ContractCorrect`: `Spec => []ContractHolds`; `SizesCorrect`: `Spec => []SizesExact`;
- `SlicesCorrect`: `Spec => []SlicesSafe`;
- `IteratesSafely`: `Spec => Iter!Init /\ [][Iter!Next]_Iter!vars`, the part of `ImplementsIteration` without fairness.

`IndexIInv` is what each constructor has done so far. It starts from `Built`: whatever reaches a constructor holds each edge of the list
once (`ArgumentsFacts`), because packed edges are different (`PackInjective`), sorting keeps the values of a slice (`SortFacts`), and `Compact` keeps the
first of equal ones (`CompactFacts`). `ListsIInv` says that a list has the targets of the edges read so far, each once, and, for
`adjlist-exact`, that its block has the size that was counted and is as full as the loop has come, so that no append moves
it. `KeysIInv` says what `keys` holds; the block of a vertex lies between the two lower bounds because the keys of
`u` are exactly those from `u * Radix` to below `(u + 1) * Radix` (`BlockFacts`), and for the last vertex of all the second bound is the
end of the keys. `MatrixIInv` says which bits are set; that the degrees of a row add up to the number
of edges is a sum over words of bits (`PartsSum`, `DegreeSum`). `BytesIInv` says that the block of each vertex encoded so far is
the encoding of its sorted targets. `RoundTrip` is the codec: the digits of a number, whatever follows them, are read
back as that number, with the bytes that follow left over. The digits are written by a recursive function, and that it is
defined everywhere is part of the proof (`DigitsExist`), since dividing by the base makes a number smaller. `DecodeFacts` follows the gaps of a whole
block, and ends on its last byte.

`SliceIInv` says where the memory of each slice is: that of the index is a block of its own per vertex or a window of the
arena (`IndexSlice`, `ArenaFacts`), that of a caller a slice of the index (`Borrowed`) or a block it allocated, which no other caller
has (`Owned`). With exact capacities an append to a slice of the index always moves; with spare capacity it writes behind what the index lists.
`ExtendStep` is `append` with both of its outcomes.

The refinement has an invariant of its own, `WalkIInv`: while an iteration runs, what the callback received is the beginning of
what `AppendNeighbors` would list (`Received`), and the loop stands where that beginning ends (`Stands`): at the next item of a list, at the next key of the
block (`KeysAt`), before the bytes of the next gap (`BytesAt`), or with the bits of the word that are left (`WordsAt`). What is left of
the neighbours is then empty, or its smallest element is the next item (`NextLeft`), so that each step is a `Deliver` of `Iteration`, or an
`Exhausted` at the end; to go to the next word is a stutter. `WalkIInv` was checked with TLC on the instance of `MCIndexes` before it was proved; no run repeats this.

`SweepProofs` proves, for every product of graphs, structures and points, and any number of passes:

- `Silence`: `Spec => []SilenceMeansEqual`. The invariant `Compared` says that each measure of the
  graph under way has the checksum recorded for its key, or the key was reported; measures
  of other graphs are compared among themselves only, because the graphs are numbered.
- `FalseAlarm`: `Spec => []NoFalseAlarm`. `AllRight` says that recorded checksums, and that of
  the best pass from the first timed one on, are those of the queries of their key, which are drawn
  once for the graph.
- `MeasuresShown`: `Spec => []EveryMeasureShown`; `Comparisons`: `Spec => []ComparisonsRight`; `Scaling`:
  `Spec => []ScalingRight`.

The last three are consequences at the end of one invariant of the loops, `TablesIInv`. A point that is left
behind (`Over`) has as many timed passes as it should, or its structure has none at all, and was left out for a
reason (`TimedSoFar`); the best pass is the shortest of those since the warm-up (`BestSoFar`); the measures are those of the
points that were timed and left behind, no more and no fewer (`Recorded`); and all those of an index have one size
(`OneSize`). `OnePoint` then says that a measure shows one point, because structures have distinct names and graphs and
points are not repeated: the lookup by key finds it (`CellShown`), whichever of two measures of a key
the table keeps. `Whole` says that a structure with one measure on a graph has one of every point. With the product of the loops
it gives `LargestFacts`: every column of the row has a cell at the largest batch of its workload, although
the columns are those of other workloads and structures too. The batch that the table reads is the largest one of all
(`BatchFacts`); where it is larger than that of the workload, no column has a cell (`DashFacts`). The verdict and the first of equals need that finite sets
have least and greatest elements (`FiniteExtremes`).

`SweepProofs` also proves about `Campaign`, for every number of sweeps, blocks and campaigns (the initial states, the
steps and the behaviours of the script are `ScriptInit`, `ScriptNext` and `ScriptSpec`):

- `OneCampaign`, `LastBuffer`, `Stopped`: the three properties of the run `campaign`;
- `SweptReplaces`: the measures of a campaign are replaced only by a sweep that was measured to its
  end (`Spec => []OnlySweptReplaces`).

The invariant says what holds of the files behind the sweep under way (`Behind`: of this
campaign, whole up to the last block), ahead of it (`Ahead`: older), of the one under way at
each place of the code (`UnderWay`), and at the end (`Ended`).

Only model-checked, because fairness and `ENABLED` are out of the prover's reach: `AllAnswered`, `ImplementsFairBatch`,
`ImplementsFairQuery`, and the fairness in `ImplementsIteration`. Every other property of a passing run is a theorem. That a
recursive definition computes the right thing is proved where it matters by writing it as a recursive function, and by
induction over a set of numbers.

## 5. Not modelled, and the plan

Left out, with the reason:

- `make_results.py`: sentences and tables made of measured numbers; it keeps no state, and its
  thresholds are quantiles of measured ratios. Which files it reads and when they are whole is in
  `Campaign`.
- `bench.Build`, which measures the heap around a constructor and depends on the garbage collector;
  `percentile` and the spread of the passes, arithmetic on durations; `MemoryBytes`, an estimate from lengths.
- the flags, the catalogue, formatting and layout, in `gsbench` and in `report.py`.
- `NeighborsSlice`, `Scratch.Bytes` and the dispatch of the workloads, which change no state.
- an empty graph (`-nodes 0`), for which the draw of a query panics; no document speaks of it.
- sweeps whose graphs have the same kind, n and m: `-nodes` given twice, or values that `rmat` rounds to
  one size. The report groups by these three (`report.go:151-167`), so that the later measures replace the
  earlier ones. `SweepAssumption` says that the graphs are distinct, as they are in the campaign script.

Each part is in `PROJECT.json` (`components`) with its status, and each hazard of the code with the
property that covers it or the reason why none does.

- a structure, a batch or a number of threads given twice on the command line: the second measures replace
  the first ones in the tables (`main.go:98-113`, `report.go:263`).

The plan is complete: what is not proved is liveness. A further step would be to lift the assumption that the graphs of a sweep are
distinct, once the program says what its tables should show when they are not.

## 6. Disagreements with the code's own comments and documents

**Bitmaps.** `hybrid.go:46-47` and `hybrid_test.go:100-103` say that bitmaps never take more room than
the targets they replace, and that this follows from the threshold. The threshold is
rounded down (`n/32`), the row is rounded up (`(n+63)/64` words), and the budget compares
the rows with all the edges, not with those of the hubs. With 65 vertices and three edges
from vertex 0, the run `hybrid_cost` finds a row of two words (16 bytes) that replaces three
targets (12 bytes). `BitmapOverhead` is what does hold: the excess is at most one target
per hub.

**The last buffer of a CSV.** `report.go:322` says that `WriteCSV` writes every measure. It defers
`Flush` and does not read the error that the writer keeps, and `main.go:166` drops that of `Close`: when
the device refuses the last buffer, which for a small campaign is the whole file, the program
names the file and exits with 0 (run `campaign_flush`). `OnlyLastBufferLost` is what does hold: an error
of any earlier write stops the script.

Met while reading, and stated by no run:

- `DECISIONS.md:141-142` says that every divergence between structures is reported. Only the
  checksum of the fastest pass is compared (`main.go:133`); `SilenceMeansEqual` is about what is recorded.
- `DECISIONS.md:157-159` presents the scaling column. It is read at the largest batch of all the
  workloads (`report.go:256`, `287`), so that with the default volumes, which differ by workload, the
  traversals have none; `ScalingRight` says that they then have a dash, never a number.
- The docstring of `make_results.py` (11-13) says that with a second campaign an effect is stated only if
  it is found in both; the default choice (line 268) is computed from the current one only.
- `README` and `SPEC` give three passes as the default; it is five (`main.go:31`). `SPEC` gives chunks of 64
  and 256 queries where the code has 512 and 2048.
- `workload.go:80` speaks of a half of probes that are absent; that half is drawn at random, so that
  some are edges by chance.
