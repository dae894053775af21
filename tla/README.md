# A TLA+ model of Scalable Vector Search

Scalable Vector Search (SVS) is a C++ library for similarity search. It is
templates around arithmetic on vectors; what can go wrong silently lies in what
drives the arithmetic: hand-written threads and a thread pool, a graph built by many
threads at once, a mutable index whose data, graph, slot metadata and id translation
have to stay in step, a search buffer whose two cursors move under insertions, codes
packed into bits, batches and partitions with remainders, and directories
written one after the other. This project models those, from the single atomic access
up to the operations of an index.

Paths below are relative to `src/include/svs/` unless they start with `tests/` or
`bindings/`.

1. [Inventory](#inventory)
2. [Plan](#plan)
3. [Modules and the code](#modules-and-the-code)
4. [Runs, bounds and fairness](#runs-bounds-and-fairness)
5. [Disagreements with comments and tests](#disagreements-with-comments-and-tests)
6. [Proofs](#proofs)
7. [What is not modelled](#what-is-not-modelled)
8. [Running it](#running-it)

## Inventory

| component | state | operations | correct means |
|---|---|---|---|
| worker thread, `lib/threads/thread.h` | atomic state (6 values), job slot, mutex and condition variable, promise/future | `assign`, `wait`, `shutdown`, `unsafe_get_exception`, `request_shutdown`; the worker's loop `unsafe_run` with `spin_wait` and `try_sleep` | no lost wakeup; an accepted job is run once and in order, a refused one never; an exception is reported once; every call returns |
| thread pool, `lib/threads/threadpool.h`, `thunks.h` | vector of threads, `use_mutex_` | `run`, `resize`, restarting crashed threads | a call that returns has run every index once; an exception becomes one of the caller's; nothing still runs the function of a call that is over |
| partitions, `lib/threads/types.h`, `thunks.h` | none, or an atomic counter | `balance`, static and dynamic thunks | the pieces cover the index space without overlap |
| id translation, `core/translation.h` | two hash maps | insert, delete, remap, checks | the maps are inverse to each other and know only valid slots |
| dynamic Vamana index, `index/vamana/dynamic_index.h` | data, graph, slot metadata, translator, entry point | add, delete, consolidate, compact, search, save | a dictionary of points for the user; graph and entry point never lead to an empty slot |
| delete consolidation, `index/vamana/consolidate.h` | scratch lists per thread, batch of updates | relinks neighbors of deleted nodes | no valid node links to a deleted one afterwards; a node's list is its own |
| graph construction, `index/vamana/vamana_build.h`, `prune.h` | graph, back-edge buffer, vertex locks | search, prune, add back edges in batches | lists within their maximum degree, no self loops |
| greedy search and buffers, `index/vamana/greedy_search.h`, `search_buffer.h`, `dynamic_search_buffer.h`, `filter.h` | sorted bounded buffer, visited filter | insert, next, sort | best candidates kept, every one expanded once, deleted ones not returned |
| graph storage, `core/graph/graph.h` | adjacency lists in fixed rows | `add_edge`, `replace_node`, resize | no self loop, no duplicate, bounded degree |
| compaction, `core/compact.h`, `core/data/simple.h` | data, one batch buffer | `compact_data` | the permutation is applied without overwriting what is still needed |
| static Vamana index, `index/vamana/index.h` | data, graph, entry point, search parameters | build, search, calibrate, save | as its builder and its search; its parameters are those that were set |
| flat index, `index/flat/` | data | search in batches of data and of queries | the exact nearest, whatever the batches |
| inverted index, `index/inverted/` | centroids, clusters with copies of points | cluster, pack, search | no point is lost; a search that visits all clusters is exact |
| calibration, `index/vamana/calibrate.h` | search parameters | search over parameters by recall and measured time | terminates with parameters that reach the target |
| medioids, `core/medioid.h` | none | mean and nearest to it, on several threads | independent of threads and batches |
| dispatcher, `lib/dispatcher.h` | list of methods | register, match, call | the best match that fits |
| save and load, `lib/saveload/`, `lib/file.h`, `core/io/` | directories, tables, binary files | save, find, load, check | what is loaded is what was saved, also after a crash in between |
| quantization, `quantization/lvq/` | packed codes, scales, biases, means | compress, pack, unpack, change the layout, compute distances, insert, resize | a code is read as it was written, is the nearest there is, and distances are those of the vectors it stands for |
| dimensionality reduction, `leanvec/` | two datasets of the same points, two matrices, means | reduce, insert, transform queries | both describe the same points, and distances between reduced ones are those the matrices preserve |
| distances, `core/distance/`, `lib/float16.h` | none | three distances for every pair of element types and instruction set | the kernel that is chosen computes the sum, whatever the length |
| file formats, `core/io/` | files | write, read, deduce sizes | what is read is what was written |
| memory, `core/allocator.h`, `lib/array.h` | a table from addresses to sizes under a mutex, owning arrays, mapped files | allocate, copy, move, assign, destroy, map, unmap | every block has one owner and is released once, with its own size; contents are those last stored |
| shared parameters, `lib/concurrency/readwrite_protected.h` | a value and a shared mutex | `get`, `set`, assignment | values are read whole; no two locks at a time |
| index parameters, `index/vamana/build_params.h`, `search_params.h`, `index.h`, `orchestrators/` | parameters of construction and search | defaults, setters, save, load old versions | what is in effect is in effect again after saving and loading |
| recall and k-means, `core/recall.h`, `core/data/view.h`, `core/kmeans.h` | none; centroids | recall of results, minibatch training | a recall counts what is there; a centroid is the mean of its data |
| benchmarks, `misc/dynamic_helper.h`, `benchmark/include/svs-benchmark/build.h` | buckets of ids in two lists, a queue of pending operations | generate, add, delete, consolidate, measure | the groundtruth the index is measured with is that of the points it has |
| support library, Python bindings, examples | | forward to the above | |

**Interactions.** An index owns a pool; `threads::run(pool, partition, f)` reads
the pool's size, builds a thunk and calls `pool.run`, which assigns one job per
thread and executes the share of thread 0 itself. Pools can be shared by
clients: `use_mutex_` serializes `run` and `resize`. A pool drives its threads
through `ThreadImpl`, which shares an atomic and a condition variable with the
worker. The dynamic index calls the builder for new points, the consolidator for
deleted ones, the data set and the graph for moving rows, and the translator for
all changes of ids.

**Hard behaviours.** The controller's compare-and-swap against a worker that goes
to sleep, crashes or exits; the job slot, which is a plain pointer; an exception in
one thread while the others work; a resize between partitioning and execution; a
pool some of whose threads crashed earlier; slots that are reused; operations
that fail half-way, after the data but before the translator have been changed;
scratch lists shared by the nodes of one consolidation; arithmetic that wraps around at zero.
Then the arithmetic that depends on the machine: kernels with unrolled parts and
masked tails, codes that straddle bytes, rounding to half precision on the way;
tables of nested objects that are matched against the types they are loaded into.
`PROJECT.json` lists each at its line with the properties aimed at it. Nothing is
persisted while an index runs, so crashes of the process matter only while saving.

## Plan

Done, in this order:

1. `JobServer` (abstract) and `ThreadControl`: everything parallel rests on it.
   `ThreadControlProofs`: its inductive invariant and what follows.
2. `Partition`: how work is split. `PartitionProofs`: that the pieces are exact.
3. `ThreadPool`: clients, the pool and its threads. It uses `Partition` for the
   shares, and takes a thread for what `JobServer` says it is, which
   `ThreadControl` is shown to implement. `ThreadPoolProofs`: its safety.
4. `PointStore` (abstract), `IDTranslator`, `DynamicIndex`: the mutable index,
   which uses the translator. `DynamicIndexProofs`: its safety and the refinement.
5. `SearchBuffer`, `MutableBuffer`, `BestFirst` (abstract) and `GreedySearch`: the search that
   every graph index rests on. `GreedySearchProofs`: its safety and the refinement.
6. `VamanaBuilder`: the graph built by several threads. `VamanaBuilderProofs`: its safety.
7. `Dataset`: stored vectors, their compaction and their two levels. `PartsProofs`: that no
   vector is lost, and the safety of four smaller machines (see 9).
8. `SaveLoad`: three directories, crashes and failing writes (`SaveLoadProofs`: what can be
   read back); `Serialization`: the tables of nested objects and their old versions;
   `FileFormats`, `IndexParameters`, `ClusterStorage`: files of vectors, parameters and
   clusterings. They are put together by `MCStorage`.
9. `Calibration`, `Flat`, `Packing`, `Dispatch`, `Prune`, `Medioid`: algorithms, one module
   each; `Allocation`, `MemoryMap`, `SharedParameters`, `ReferenceDataset`: small state
   machines. All are put together by `MCAlgorithms`, with those of `MCStorage`. `PartsProofs`
   proves about `Calibration`, `Dataset`, `Allocation`, `MemoryMap` and `SharedParameters`.
10. `Clustering`, `InvertedIndex`: the inverted index, built by several threads.
11. `Kernels`, `Quantization`, `LeanVec`, `Extensions`: what happens to numbers, put together
    by `MCNumerics`.

What could still be proved, most important first:

- `Clustering`: `PointsKept`, an argument like that for `VamanaBuilder`, for leaves and clusters.
- `InvertedIndex`: `SearchFindsNearest`, with the lemmas of `GreedySearchProofs` about
  insertions into a buffer.

## Modules and the code

### ThreadControl

One `ThreadImpl` (the controller, a sequential owner) and the worker its
constructor starts. The grain is one atomic access of shared state per action.

| model | code |
|---|---|
| `threadstate` | the `std::atomic<ThreadState>` of `ThreadControlBlock` |
| `fn` | the job slot, a plain `FunctionRef`; `Run` reads it |
| `cv_mutex` | `cv_mutex_`; the controller's `lock_guard` is empty, so it holds it for no step |
| `result`, `future_valid` | promise and future, and whether `get` was called |
| `cpc`, `op`, `current`, `outcome` | where the controller is, in which call, the `expected` value of its compare-and-swap, and how the last call ended |
| `wpc`, `request` | where the worker is in `unsafe_run`, `spin_wait` or `try_sleep`, and the state it read |
| `accepted`, `executed`, `refused` | history, no counterpart in the code |

`notify_thread` is the actions `CasClaim` (success from an idle state), `CasRetry`
(failure, the refreshed state is idle), `CasRefuse` (failure, it is a dead end),
`CasOvershoot` and `Rollback` (success from a state it should not have taken),
`LockGuard` and `UnsafeWakeThread` (waking a sleeper); shutdown's `switch` is in
the same actions with `op = "shutdown"`, and its `on_error` default is
`CasTerminate`. The condition variable is modelled with spurious wakeups, and its
`wait` gives up the mutex and blocks in one step, as the standard demands. The
assertion in `unsafe_run` is compiled out of release builds, so `Dispatch` takes
everything for work that is not a request to shut down.

`Spec` has the calls the pool and the destructor make. `request_shutdown` is
public as well; `EagerSpec` adds it, and with it `CasRefuse`, which nothing
else can bring about: an idle worker stays idle until its controller claims it.

### Partition

`balance`, `UnitRange`, `div_round_up` and the pieces of a dynamic partition as
operators over intervals. Flat search, medioids, clustering, kernels and datasets use
them where the code does.

### ThreadPool

`threads::run` and `NativeThreadPoolBase`. `CallRun` is the part of `threads::run`
before the lock (it reads the size), `Lock` to `Return` are `run`, `Manage...`
are `manage_exception_during_run`, one action per iteration of each loop, and
`Shrink`, `Grow`, `Resized` are `resize`. A pool thread is `ready`, `working` or
`crashed`; `ThreadControl` justifies that abstraction. `calls` records per call what
was run and how it ended; it is history apart from `count` (the dynamic
partition's counter) and `served` (which static shares are done). `terminated` is
a destructor that throws.

### IDTranslator, DynamicIndex

`IDTranslator` has the two maps and one operator per method. `DynamicIndex` keeps
`status`, `data`, `graph` and `translator` like the class, with slots numbered
from 1. Distances are left out: where the code ranks candidates, the model admits
every result the graph allows (`Pruned`, `Linked`), subject to what the
algorithms guarantee (the nearest candidate is always kept, lists respect their maximum).
`AddPoints` chooses slots as the code does, resizes, inserts the ids, clears the
lists and links the new nodes one after the other. `Updates` has the effect of the
reused scratch list of a consolidation. `Compact` has its four endings: success, a dangling
link (`CompactFails`), a lost entry point, and none at all. The public operations
are not synchronized with each other (the class documents no concurrent
mutation), so each is one step.

`Next` is the calls the index is meant for; `AnyNext` is all a caller can do,
up to the first call that leaves the index inconsistent.

### GreedySearch and its buffers

One thread of a search with its scratch space, which is used for query after query.
`SearchBuffer` and `MutableBuffer` are the buffers of a static and of a dynamic index
as operators on a record, one per method, with the vector of the code as a sequence;
the 16-bit counters of the second wrap at `CounterLimit`. `GreedySearch`
reads a list neighbor by neighbor; its `VisitedFilter` is a table of `Slots` entries that
keep `Uppers` values of a key's upper bits, with its sentinel. A static index may enable
the filter; a dynamic one never does (`dynamic_index.h:436`). `index` is chosen once, and
with it the buffer's size, which grows when more neighbors are asked for than it holds.
The nodes are 0 to n - 1, as many at most as the filter can tell apart without its sentinel
(`SearchAssumption`).

`BestFirst` is the same search with a set for a buffer and a perfect memory: what was seen is
ordered by distance (`Nearer`), `NearestOf(n)` are the n nearest that are not deleted with the
deleted ones between them, and the search goes on while one of `Region` is not expanded. The
refinement (`KeepsPromise`) drops every candidate that the buffer or the filter
drop, and so says that none of it matters for the result; of nodes as near as one
another the one seen first counts as nearer.

### VamanaBuilder

`construct`: for each batch, a search and a pruning per node, barriers between
phases, edges back, and the pruning of lists that are too long. The grain is a load
or store of an adjacency list: `add_edge` is the insertion of an element and the
store of the length, so that `add_reverse_edges`, which reads the list of its own node
without a lock, could see a list half-written. Spin locks guard nodes; edges that
do not fit go into the overflow buffer, whose own locks are held for one insertion
and are taken under that of a node; the model makes it one step.
The search and the pruning may give any list they may return; `SpanStable` is about
a reader and everything else that moves. `Passes` are the calls of `construct` of an
index (with alpha 1 and with the given one); distances are left out.

### Dataset

`SimpleData` in one piece and in blocks, each level a function from slots to
contents, where fresh memory holds `Unset`. `compact` moves a buffer of `BufferSize`
vectors at a time, one action per batch, and takes one level after the other.
`datum` is what the user stored, index by index. `Kept(n)` are the vectors `new_to_old` of n
indices that the code asserts to be sorted.

### SaveLoad and Serialization

`SaveLoad` is the dynamic index's `save` into directories for parameters, data and
graph, over what earlier saves left, step by step: the file, its header last, and then
the table. A crash may follow any step, and any write may fail unnoticed, for no stream's state is
tested. A record of a file is its slot and the index it comes from, an index a generation
and a size; a table has the UUID of its save. Loading is `auto_dynamic_assemble`.
`Whole` says of data or graph that were read that they are everything of one index.

`Serialization` is the form of those tables for everything else: simple and blocked
data, one- and two-level quantized datasets with codes in either packing, LeanVec
datasets and their matrices. An object is a record in canonical form; a table
is a schema, a version (by its patch number) and keys, of which some are tables.
`save` writes its parts into files named by `generate_name` and a UUID in their
header; `load` gives the set of objects that load, of one element or none. A thrown
exception and an `Unexpected` are both none. UUIDs are taken to be fresh. The last part of
the module is `lib/saveload`'s upgrade of tables that have no schemas: which tables the
schema list knows, what it refuses, the backup, the rewritten file, and an upgrade cut off
between these steps.

### FileFormats, IndexParameters, ClusterStorage

`MCStorage` calls these and `Serialization` with bounded inputs.
`FileFormats` has a file as a function from positions to bytes, with integers of 4 bytes as
their value and three zeros (lengths are small), and computes what `vecs`, `bin` and
`svs` writers write, what the readers find, and which element size is deduced when none
is given. `IndexParameters` has an index as a record of its parameters: what it
is built with, the setters of the orchestrators, the tables of three earlier versions,
and what a static, a dynamic and a debugging load make of them.

`ClusterStorage` has the file of a clustering as units of 4 bytes, both integer types and
their padding, written in the order of a hash map; the translation of leaves into the sparse
strategy's dataset, the dense strategy, prefetching as the number of elements fetched before
a leaf is used; the random choice of centroids as a sequence of draws; the index that is
built and the one that is assembled; and the parameters, whose 64-bit integers are
scaled to 4 bits so that the largest signed number is within reach.

### Calibration, Flat, Packing, Dispatch, Prune, Medioid

`Calibration` is a state machine, for the answers of the index (recall and time of a
configuration) are chosen on the way and have to stay the same. The others are
functions: `Flat` with both batchings, dynamic pieces and the heap; `Packing` with the
bits of a vector as a function, so that straddling and permutation are computed and not
assumed, and with the layout of arrays and of datasets in one piece or in blocks, by the
places in memory their elements have; `Dispatch` with scores as sequences, and with what
each kind of argument (a value or reference, a variant, an extent, a data type) is matched
against and converted to; `Prune` with both strategies over
matrices of distances; `Medioid` with the tree of pairwise sums, thread-local minima
and the final comparison. `MCAlgorithms` lets a behaviour call one of them once, with
any input of its set, and the state machines run by themselves.
`Flat` also has the recall, which counts with the sorted intersection of the code, over views
whose indices are checked, and `QuerySet`, which splits queries into training and test.
`Medioid` also has minibatch k-means, with centroids as fractions, so that the means are
exact, and with the initial ids as an input.

### Allocation, MemoryMap, SharedParameters, ReferenceDataset

`Allocation` is `DenseArray` on the `HugepageAllocator`: threads create, fill, copy, move,
assign, swap and destroy arrays; an allocation tries huge pages and falls back page size by page
size, the system may refuse each of them, and the table of sizes is changed under its mutex.
Addresses are pages of a small memory, so that an unmapped page is mapped again
and a stale entry would meet another array. A page is one element long. `MemoryMap` is `MMapPtr` and `MemoryMapper`: a file
that may exist, be too small or fail to grow, and pointers that are moved.
`SharedParameters` is `ReadWriteProtected` with values of two words that are copied word
by word, one lock action before and the release with the last word. Objects, threads and the
number of calls are constants; a call of `set` gives a value no other call gives.
`ReferenceDataset` is the workload of the dynamic benchmark: buckets of ids that move between
the resident and the reserve list, additions and deletions, the index's ids as
`valid`, and the groundtruth merged from the buckets.

### Clustering, InvertedIndex

`Clustering` lets each thread take its share of a batch leaf by leaf and append to a
cluster under its lock; then clusters are sorted and reduced. `InvertedIndex` packs
the result and searches it: the primary search over the centroids, the cutoff, the
clusters one after the other.

### Kernels, Quantization, LeanVec, Extensions

`Kernels` has for each distance, pair of types and instruction set the kernel that is
chosen, and computes as it does: unrolled part, full steps, masked tail, at their real
widths. Sums of floats are exact; integer sums wrap at `AccumulatorBits`. It also has the bit
manipulation of `float16.h`, on sign, exponent and mantissa.
`Quantization` has numbers in units of 2^-20, and rounds to 11 bits where the code
stores half precision; its second part has means, centroids and both levels over
whole datasets, with means cut to whole units. `LeanVec` has whole numbers, for which orthogonal
matrices exist when they may be scaled; the decomposition that provides them is external.
`Extensions` is what an index does for each kind of data: which representation it
searches with, builds with, reranks with and reconstructs from, for a batch of
queries that several threads share. What the graph search sees is any set of ids.

### JobServer, PointStore, BestFirst

What a thread promises its owner, an index its user, and a search its caller. `PointStore` has the
three things a call may do to a dictionary; `DynamicIndex!CallsDoTheirPart` says which call does which.
`ThreadControl!ImplementsJobServer`, `DynamicIndex!ImplementsPointStore` and
`GreedySearch!KeepsPromise` state the refinements.

## Runs, bounds and fairness

| run | bounds | distinct states | shows |
|---|---|---|---|
| `thread` | 3 assign calls | 1,227 | how assign hands a job over, what a shutdown drains and who reports a crash, termination of every call and the refinement of `JobServer` |
| `pool_shared` | 2 clients, 2 calls, pool of 2 that may grow to 3, 3 indices, std exceptions | 448,615 | calls complete or throw, are over when they return and leave the pool intact |
| `pool_faults` | 1 client, 2 calls, sizes 0 and 3, 2 indices, any exception, failing thread starts | 73,587 | nothing is lost or run twice, calls return |
| `index` | 3 ids, 2 points, 3 slots, 2 ids per request | 5,730 | translation and metadata in step, refinement of `PointStore` in which each call does its own part |
| `index_graph` | 4 ids, 4 slots, lists of 2 pruned to 1 | 239,591 | no link, search or entry point leads to an empty slot |
| `search` | 5 nodes in 2 graphs, buffers of 1 to 3, 2 queries, filter of 2 slots and 4 values, 16 counter values | 116,048 | order and cursors of the buffers, refinement of `BestFirst`, termination |
| `build` | 4 nodes, 2 threads, lists of 2 pruned to 1, buckets of 2, 2 batches, 2 passes | 353,848 | rows stay well formed, no edge back is lost, no deadlock |
| `save` | 3 points, 3 generations, 3 saves, failing writes | 5,238,276 | an undisturbed save loads as what was saved; every part that loads is whole |
| `inverted` | 5 points, 2 centroids, 2 threads, batches of 3 | 898,584 | no point is lost, a search is exact in the clusters it may look at |
| `algorithms` | partitions to 17 and teams to 8, 4 candidates, 4 vectors in blocks of 2, 3 pages, 2 shared objects with 2 threads and 3 calls, 3 methods, 14 objects and 15 clusterings to save | 992,742 | calibration, stored vectors, memory, shared parameters, the benchmark's workload and the pure algorithms against what they are for |
| `numerics` | lengths 0 to 130, accumulators of 24 bits, datasets of 3 vectors, batches of 3 queries | 265,168 | kernels, rounding, codes, reduction and what an index does with each kind of data |

One run, `index_compact_deleted`, shows a violation: see the next section.

**Why these bounds.** Three assigns are one job that runs, one that meets the
worker asleep or spinning, and one that meets a crash or the shutdown; the worker
keeps no memory from job to job, and the theorems hold for every number. Two calls
are the least in which one call meets what another left behind, and a third index lets every
thread of the larger pool crash in its share. Three slots and requests of two
reach reuse of a slot, a refused add after a resize, and a compaction that moves
a point into a slot just left. Four slots with a degree of 2 are needed for a full
list that is pruned again, and for a node all of whose neighbors are deleted.
`index_graph` uses the symmetry of ids and points, which is sound since it
checks only invariants and no definition tells ids apart.

Five nodes and buffers of 1 to 3 overflow the buffer, meet collisions in a filter of 2
slots, and split the buffer into window and capacity; 16 counter values are more than the
nodes there are, as 2^16 is meant to be. Two queries are one that finds what another
left. Four nodes with lists of 2 are the least in which two threads add an edge back to
one full list while a third node's list is read; the second pass meets lists of the
first. Three saves are an undisturbed one, one that is cut off, and one over both; three
points are needed for a torn translation that passes for a shorter one.
Five points with two centroids and batches of 3 leave an unequal last batch and let two
threads append to one cluster, and a limit of 2 makes both clusters be reduced.

Up to 17 indices with teams of up to 8 include fewer indices than threads, equal
shares, both unequal team sizes and a single index left over. Lengths of 0 to 130 meet
every residue of a 64-element step and of a 16-lane tail twice. The accumulator's 24
bits bring its limit into the reach of 130 elements, where 32 bits need 33,025.
Every width of a code from 1 to 8 bits is taken in both packings. The objects to save are
one or two of each class, over every other one, with a crash after any number of
writes and a fault at any of 8 places.

Files have elements of 1, 2, 4 and 8 bytes, 1 to 4 dimensions and up to 11 vectors, so that the
nine vectors that the deduction looks at are there, with elements that look like
lengths, and up to 20 bytes missing at the end. Upgrades are cut off after 0 to 3
steps and run again. Parameters are changed up to twice, which is enough for one setter to
undo another. Clusterings of 3 ids are all there are, over one another and cut after any unit;
one of 4 ids has a file of the size of another's. Clusters to be packed are all
clusterings of 4 ids, and centroids all sequences of 4 draws.

Memory has 3 pages, with huge pages of 2, for 3 arrays of up to 2 elements and 2 threads: two
arrays compete for the place of a third. Mapped files have 2 pointers and up to 2 units.
Shared parameters have 2 objects, 2 threads and 3 calls: an assignment in each direction
and a reader. The workload has 5 points in buckets of 1 to 3 (the last one may be
short), 2 neighbors and 2 iterations, with one query, for the rows of a result are
independent. Rows for the recall have up to 3 results, and k-means 3 points, up to 2
clusters and 2 epochs.

**Fairness.** `ThreadControl`: both threads are scheduled (weak fairness of
`ControllerStep` and `WorkerStep`), which includes that jobs end and that spinning
times out. Strong fairness of `LockGuard` says that the mutex does not starve the
controller while spurious wakeups make the worker take it again and again. The
owner's calls and spurious wakeups are not forced. `ThreadPool`: weak
fairness of each client's current call and of each thread; since calls are bounded
and liveness is checked for one client, no mutex can be taken away forever.
`GreedySearch`: the search goes on (weak fairness of its step), queries are not
forced. `VamanaBuilder`: every thread is scheduled, and strong fairness of
taking a lock: a spin lock does not let one thread wait forever while the others take it
in turn, each of them finitely often in a batch. `Clustering`: the caller and every thread
are scheduled, and weak fairness is enough for the locks of the clusters, since each thread
takes them finitely often and never holds one while it waits for another. The other modules have
safety properties only: nothing in them waits.

`thread` checks for deadlock: its owner can always make a call. The other runs do
not, since their clients stop at the bound on calls, their index may be full, or
their function has returned.

## Disagreements with comments and tests

`index_compact_deleted` is a regular run: `compact` before `consolidate` throws
after the data have moved; ids are then bound to other points, while the comment calls
the operation a mere cleanup.

The following are kept for reading. Where a property is named, it is defined in the module and
TLC finds it violated when it is put into the configuration named, with the changes
given.

Threads (`ThreadControl.cfg`, `PoolFaults.cfg`, `PoolShared.cfg`):

- `ClaimedFullyAsleep` (PROPERTY, `MaxAssigns = 2`): the state diagram wants a thread to be
  completely asleep before it is claimed; in fact it is claimed first, and the
  mutex is taken before the notification, which is as good.
- `NeverTerminates` (SPECIFICATION `EagerSpec`, `MaxAssigns = 2`, no deadlock check):
  `shutdown` "is safe to call multiple times", but after `request_shutdown` it can reach
  `std::terminate`. `RefusedNeverRun` under `EagerSpec`: a refused job can be run in the
  window before the rollback.
- `QuiescentOnReturn`, `PoolIsRestored` (`PoolFaults.cfg` with `Resizers = {}`, `Sizes = {}`,
  `InitialSize = 3`, `MaxIndex = 3`, `BuilderFails = FALSE`): `run` catches only
  `std::exception`. If thread 0 throws anything else, `run` leaves while other threads
  execute a function on the stack that is being unwound, although "Wait until all threads are
  done" is its rule, and crashed threads are not restarted.
- `CallsEndTruthfully` (`PoolShared.cfg` with `InitialSize = 3`, `Sizes = {1}`): when another client
  shrinks the pool between partitioning and execution, indices are left out.

Dynamic index (`DynamicIndex.cfg`):

- `NewEntryPointIsValid` (PROPERTY, `AnySpec`): after all points are deleted, `consolidate`
  finds no new entry point and violates its assertion.
- `NoSelfLoops` (4 ids, `Points = {p}`, `MaxSlots = 4`): `heuristic_prune_neighbors` returns on an
  empty pool before it clears its result, and the consolidator then gives a node the list
  computed for another one, which may hold the node itself. `add_edge` and an assertion
  of the builder exclude self loops.
- `TranslatorTracksValid` (`AnySpec`, `MaxRequest = 3`): a delete with a repeated id marks all its
  slots, then throws in the translator, which keeps the ids after the repetition.
- `RefusedAddKeepsSlots` (PROPERTY, `AnySpec`, `MaxRequest = 1`): adding zero points to an index
  whose first slot is empty shrinks the index by its number of empty slots, for
  `num_points - slots.size()` wraps around (`dynamic_index.h:567`).

Search (`GreedySearch.cfg`):

- `RegionReachesEnd`, `SearchEnds` (`Kinds = {"dynamic"}`, `Indexes <- AllDeleted`, `CounterLimit = 4`): with
  more deleted candidates than a 16-bit counter can count, the cursors of the dynamic buffer
  wrap around and a search does not end.
- `ResultsTranslate`: `extensions.h:522` copies as many candidates as neighbors are asked
  for, also when the buffer holds fewer; what is copied is what an earlier search left.

Saving (`SaveLoad.cfg` with `WritesFail = FALSE`): `AssembledIsOneIndex`: a crash between the
directories leaves parameters, data and graph of two saves, which load without a
complaint when their sizes agree. A translation has no UUID: pairs that are
missing at its end are read as id 0 in slot 0, so that three pairs of which two were lost can pass
for two, and fit the data of an earlier save of two points (with `WritesFail = TRUE`).

Algorithms (`Algorithms.cfg`, `InvertedIndex.cfg`):

- `ReturnsFastest` (`MaxTime = 3`): the prefetch tuning does not update the time to beat when the largest
  lookahead wins (`calibrate.h:399`), and may return a slower setting.
- `PruneFollowsRule`: a second round of the iterative strategy takes up pruned candidates
  again, and the kept neighbors do not follow the rule the comment gives.
- `FailsOnlyWithoutCopies` (`MaxClusterSize = 1`): a reduction fails although every point has
  copies enough.
- `SearchFindsNearest` (`PickerSorts = FALSE`, or `QueryDistances = {0, 1}`): the cutoff takes the
  first of the primary search for the best, and is a multiple of its distance, so with 0 no
  other cluster is looked at.

Numbers (`Numerics.cfg`):

- `SlowIsFast`: the conversion to half precision by bit manipulation (`float16.h:52`) differs from the
  processor's for ties, subnormal numbers and from 65,536 on.
- `ErrorIsHalfAStep`: rounding scale and bias to half precision lets the error of the first
  level exceed the half step that the second level is scaled for (`codec.h:138`).
- `EncodingIsNearest` with `SelectorBits = 1`: a selector of a centroid is a byte; with more than
  256 centroids it wraps around.

Found while reading, without a run of their own:

- Numbers: the header comment of `euclidean.h` lists other kernels than the dispatch chooses;
  a `ScaledBiasedDataset` built with an alignment of 0 divides by zero
  (`datasets.h:595`); `LVQDataset(size, dims)` of one level leaves its centroids null; bulk
  compression of half-precision data rounds the vector without its mean, while `set_datum`
  computes in double; searching a LeanVec dataset through a scratch space or a flat
  index uses queries that are not reduced; the principal component analysis for inner products
  builds with another distance than it searches with.
- Files: the element size of a `vecs` file is deduced too small when the contents look like
  lengths; a file of one 1-dimensional vector of a type wider than a byte is refused
  (`vecs.h:56`); 0 vectors give an empty file that `open_read` refuses; a torn
  native file loads with repeated contents; `get_dims` of a `.bin` file of 0 vectors divides by
  zero; `core/data/io.h:127` calls `dimensionsions()`, which nothing instantiates.
- Tables: an upgraded two-level LVQ table does not load, for the schema list has v0.0.2 and
  the loader demands v0.0.3; a dataset of two levels would be taken for one of one level by
  LeanVec's `detect_data`; `parse_int` of `version.h` ignores what follows the digits;
  `uuid.h` draws from `(0, 256)` with a seed of 32 bits; `BinaryBlobLoader` does not
  look at the size of its file, and swaps the arguments of its error.
- Inverted index: a clustering that is saved again has the name of the earlier file, and a crash
  before the table goes unnoticed when both have the same size; the message about the size swaps
  expected and actual; an empty clustering cannot be loaded; the dense strategy ignores
  `set_prefetch_offset`; `InvertedIndex::size` is 0; the default of
  `refinement_epsilon_` is 10 in the index and 1 in its parameters.
- Dynamic index: the constructors from parts (`dynamic_index.h:152`) leave
  `max_candidates_` and `prune_to_` uninitialized and read the degree of a graph that was moved
  from; `set_alpha` of the orchestrator takes a `size_t` (`dynamic_vamana.h:159`); the static
  `auto_assemble` does not compare sizes.
- Parameters: a setter gets, changes and sets, so one of two at a time is lost;
  copy assignment of `ReadWriteProtected` lacks its `return`.
- Memory: a copy assignment whose allocation throws leaves a null pointer with new
  dimensions; a move assignment to itself loses the data, and of an `MMapPtr` unmaps it; copying
  an array that was moved from reads null; 0 elements throw with huge pages. A failed creation leaves an empty file,
  which `MayCreate` then refuses as too small and `MustCreate` as existing; between
  the test for the file and `open` another process may create it; a size of 0
  leaks the file descriptor.
- Algorithms: the k-means initialization draws from `uniform_int_distribution(0, size)`, which
  includes `size`, and never ends with more clusters than there are data; a `QuerySet` with 0
  training queries throws.
- Benchmarks: a short last bucket pads its groundtruth with the ids of other buckets, at infinite
  distance; a search finds less than full recall when fewer points are valid than
  neighbors are asked for; `delete_points` reports what was asked for; a
  cycle count of 0 divides by zero; `utils/characterization/mutable.cpp` calls a
  constructor that does not exist.

## Proofs

Every theorem holds for all values of the constants that satisfy the assumptions named in the
modules (`ASSUME`), which say of what kind a constant is and no more. Where a theorem needs
more, the condition is an assumption of that theorem and is named below. Each component's
proofs are in a module of their own, and no property is inductive as it stands: each proof
strengthens it first.

### ThreadControlProofs

For every number of calls of `assign`: `HandsOverSafely` (`HandOverIsSafe`), which is
`NoLostWakeup`, `NoRaceOnWork` and `RefusedNeverRun` (theorems `WakeupsArePreserved`,
`WorkIsRaceFree`, `RefusedJobsNeverRun`), the action properties
`ShutdownDrains` (`ShutdownNeverCutsWorkOff`) and `ExceptionReportedOnce`
(`CrashesAreReported`), and the safety part of the refinement of
`JobServer` (`SafelyServesJobs`). The invariant `IInv`:

- `WorkerInv` says where the worker can be, given the state of the thread. The
  state is that which a pending rollback will restore (`State`): the trick of
  `notify_thread` is to overwrite first and look afterwards, and it is sound only
  because every state it may wrongly overwrite belongs to a worker that never looks
  again (`ControlInv`: while the controller rolls back, the worker is past its loop).
- `ControlInv` says which call the controller is in and that between
  `wait_while_busy` and the compare-and-swap nobody but the controller can make
  the thread busy.
- `WakeInv` is what the empty `lock_guard` is for: the worker holds the mutex from its
  last look at the predicate until it blocks, so a controller that is past the lock meets
  it before the look or blocked.
- `JobInv` relates slot and history: between a claim and the end of the job there is
  exactly one job accepted and not executed, and it is in the slot.
- `FreshInv`: job numbers are not reused, so that refused and accepted are disjoint.

`CrashesAreReported` needs one fact more, `ExceptionInv`: outside of shutdown the future is read
only after a crash, and nothing follows a crash, so the future has the exception.

`InvStep` has one step per action, and under it one per conjunct the action can
disturb. The refinement is `ServerStep`: `CasClaim` of an assign maps to
`Accept`, `Run` to `Complete` or `Crash`, `SetValueAtThreadExit` to `Close`, and
everything else to a stutter.

### PartitionProofs

For all numbers of indices and threads, the shares of `balance` are disjoint
(`SharesAreDisjoint`) and have every index (`SharesCover`), and the pieces of a dynamic
partition are disjoint, have every index and end where the thunk stops (`PiecesAreExact`).
`First(n, T, t)`, which is the smaller size for each of the t shares before and one more for
each of them that is larger, is where a share starts and where the one before it ends. The
pool's proofs use all three.

### ThreadPoolProofs

For all numbers of clients, threads, calls and indices. `BaseInv` holds whatever jobs throw and
whatever fails: types; the holder of `use_mutex_` is the one client that is inside
(`MutexInv`); a client that runs has a call of its own that is not over (`CallInv`); loops stay
in the pool (`LoopInv`); a thread that works is awaited by the client whose call it works
for, or was abandoned by a call that threw (`BusyInv`); and no failure is forgotten before its call has thrown
(`FailInv`). From it:

- `NothingIsSwallowed` (`NothingSwallowed`): `CoverInv` says that an index given to a thread has
  run once, unless its call failed, and that no other has run. Disjoint shares come from
  `PartitionProofs`. It assumes `StaysAlone`: one client, or no resizing, or a pool that
  always has a second thread. Without that, a call made when the pool had one thread may find
  more of them, and the function is run by all.
- `Quiescence` (`QuiescentOnReturn`) and `Restoration` (`PoolIsRestored`) assume `Recoverable`:
  jobs throw nothing but `std::exception`, and threads can be started. The section on
  disagreements shows what happens otherwise. `SettledInv` says that a thread which is not
  ready is awaited and has crashed only if its call failed.
- `CallsAreTruthful` (`CallsEndTruthfully`) assumes both `Recoverable` and `StaysLarge`: one client, or no
  resizing, or one size to ask for, no smaller than the first. Otherwise another client may shrink the pool
  between partitioning and execution. `FitInv` (the pool has the threads a call was
  partitioned for), `DoneInv` (threads that are not waited for any more have nothing left to
  run) and `AllDueInv` lead to the end of a call, where `SharesCover` and `PiecesAreExact` say
  that every index has been given out.

### DynamicIndexProofs

For all numbers of slots, ids and points, and all parameters. `IndexInv` is: types; the translator knows
the valid slots and no others, and its maps are inverse to each other
(`TranslatorTracksValid`); no list of a slot in use and not the entry point lead to an empty
slot (`NothingLeadsToEmpty`); each valid slot has data. It is inductive only as a whole: a
consolidation may clear the deleted slots since nothing valid links to them any more,
and a compaction may move slots since links, entry point, data and translator follow
the same order of the valid ones. The theorems: `IdsStayInStep` (`IdsInStep`, with the remapping in place of
`compact` equal to the simultaneous one), `NeverLedToEmpty`, `FoundIsKnown`
(`SearchFindsOnlyKnown`), and `StoresPoints`, the whole of `ImplementsPointStore`. That is the
refinement of `PointStore`, and what each call does in it (`CallsDoTheirPart`, lemma
`CallsAgree`): `AddPoints(ids, points)` adds just these points under these ids,
`DeleteEntries(ids)` deletes just these ids, and a consolidation, a compaction and a
refused add leave the store alone. A deletion that is refused is no step, for the ids are
tested before anything is written. The lemmas are about the operators: which slots are reused, what a
construction links, what `Sorted` and `Reachable` return, and what a loop of insertions and
deletions does to the maps. Loops are recursive functions over sets or numbers;
where a lemma needs induction, it is one on the set of numbers that satisfy a fixed statement.

### GreedySearchProofs

For graphs, distances, windows, capacities and filters of any size, any number of neighbors asked for,
and any number of queries on one buffer: the buffer holds exactly the nearest of the nodes met so
far, in order, with its counters right, and the filter hides no node that is new
(`BufferIsSound`, property `BufferSound`); and each step of the search is one of `BestFirst`
or a stutter (`SearchKeepsPromise`, property `KeepsPromise`), so that neither buffer nor filter
changes which nodes are expanded, in which order, or what is returned. Both follow from
`SearchInvariant`. Its invariant `SearchInv`:

- `Remembered` and `Phases`: what the search remembers are nodes of the graph, each once, and lists are
  read only by a search that began and has not returned.
- `FilterKnows`: a node that the filter knows was met. An entry is overwritten by
  any node with the same low bits, so the argument is that low and high bits together are
  the node (`BitsAre`), and that no node's high bits are the sentinel.
- `BufferReady`: between two searches the buffer has its size, whatever an earlier search left in it;
  during one it is `ReadyFor` it. That is the same for both buffers, on the sequence of
  candidates: `Holds` (they are in order, each describes its node, no more than the capacity are
  valid, and what was dropped is farther than the last of a full buffer), `EndsAt` (the end of the
  region of interest is behind as many valid candidates as the window has) and `CursorAt` (what is
  before the cursor is expanded, and the candidate at the cursor is not).

The buffer holds no history, so the difficulty is a node that is met again after it was dropped.
`Holds` gives it a place behind all candidates (`DroppedIsFar`); the insertion then cuts off
what it put there, and leaves the buffer as it was (`FlatInsertMet`, `DynInsertMet`). A node met again that is
still held is found by walking back over candidates as near as it, and no further (`HeldIsFound`).
For a new node `InsertReady` says, for any capacity and window, what has to be true of place, cut and
counters, and `FlatInsertNew` and `DynInsertNew` that the code computes these: for the dynamic buffer
that is the case distinction of `unsafe_insert` on the region (`RegionEnds`) and on the end
(`TrimCuts`). `NearestAre` connects what is held with `NearestOf`: the nodes with fewer than n
valid ones before them are those up to the n-th valid candidate.

All three theorems assume `SmallIndexes`: for a dynamic index, the capacity (or the number of neighbors asked
for), the deleted nodes and one more are fewer than `CounterLimit`. The code has no such check. It is
what is needed for the 16-bit counters not to wrap around, for the buffer keeps deleted
nodes without a limit; the section on disagreements has a search that does not end without
it. A static index needs nothing.

### VamanaBuilderProofs

For graphs of any size, any number of threads, batches and neighbors, and whatever searches
and pruning answer: `GraphIsSound` (`BuilderSound`) and `NoEdgeBackIsLost` (`BackedgesKept`),
both from `BuilderInvariant`. Its invariant `BuilderInv`, apart from types:

- `RowsProper` and `UpdatesProper`: a list, in the graph or in the updates of a thread, names no
  node twice and not its own.
- `SpanInv`: a thread reads the row of its node without the lock and walks over it while others
  append to it. What it has read is still there, since in this phase a row only grows
  (`Grows`) behind its length. Between the two stores of `add_edge` the thread has the
  lock of the row, its node is behind the list and not yet part of it.
- `SharesInv` and `CountInv`: no node is in the shares of two threads or twice in one, and what
  has been searched are the batches before and what of this one is not awaited
  any more. That batches and shares have every node rests on `SharesAreDisjoint` and
  `SharesCover` of `PartitionProofs`.
- `ReverseInv`: an edge that has no edge back, in the graph or in the buffer, belongs to a node
  that still awaits its thread, or is ahead of the thread that has it. At the end of the phase
  nothing is awaited or ahead, which is `BackedgesKept`. New edges are edges back themselves and
  have theirs from the start.
- `PhaseInv`: which threads are idle and which queues empty in each phase.

One lemma per action shows that it keeps `BuilderInv`. Steps while edges back are added have two
lemmas in common: what a thread that does not take the step sees of rows (`SpanStays`),
and what happens to an edge without an edge back (`ReverseStays`).

### PartsProofs

Five machines that other components take for granted, each with an invariant of its own.

*Calibration.* For all bounds and requests, and all answers of the index: what `calibrate` returns is admissible, has
reached the target if it was measured, and is not slower than without prefetching
(`CalibrationIsSound`, property `CalibrationDelivers`). `CalInv`: the
end of a binary search's range is where it began or has reached the target, so that
`lower_bound` returns a position that was tried even though the answers need not be monotonic; each
configuration that was tried is admissible; while tuning, nothing has been measured for a step
still to come, so no time is overwritten, and neither the time to beat nor the choice is worse than no
prefetching.

*Stored vectors.* `VectorsSurvive` (`DataSurvive`), for any number of vectors and levels and any
size of blocks and batches. During a compaction `DataSurvive` says nothing, so `DataInv` says
where each level has what an index is to stand for (`Where`): where it was, as long as its batch
is still to come, else in its place (`HeldInv`). A batch keeps this because `new_to_old`
increases: its k-th index is at least k (`MovesDown`), so a later batch fetches nothing from the
slots this one has written. That new memory has room for the new size and carries the old
contents is a lemma for dense memory and one for blocks (`DenseCarries`, `BlockedCarries`).

*Arrays and the allocator.* `MemoryStaysOwned` (`MemoryIsOwned`), for any number of pages,
threads and arrays, any sizes of huge pages, and whatever mappings the system refuses. The mapped pages
are divided among arrays and threads (`Divided`): a thread has the pages it has mapped and not
yet put into the table, or taken out and not yet unmapped. Each step moves pages between
two parties, maps or unmaps, with one lemma for each of these (`FromThread`, `ToThread`,
`ToArray`, `Exchanged`, `Returned`, `Granted`). That no entry of the table is stale (`TableInv`)
follows from the order of the code: the entry goes before the pages and comes after them.
`Relies` is what an operation that is under way counts on, and holds because no two
operations share an array; `FreshInv` that nobody writes to pages that are not yet an array's.

*Mapped files.* `MappingsStayHeld` (`MappingsAreHeld`), for any pointers and sizes: `MapInv` adds
to the property only types, since moving, unmapping and failed calls each keep it.

*Shared parameters.* `ParametersAreWhole` (`ValuesAreWhole`), for any objects, threads
and calls. `LocksInv`: the locks that are held are those of the threads that are reading or
writing, and a writer is alone. `HalfWayInv`: what a thread between two words has, or has
written, is half of one value; what it has got before it sets it is whole. `UnlockedInv`: an
object that nobody has for itself is whole.

### SaveLoadProofs

For indexes of any size and any number of saves, crashes and failed writes. `SaveInv`
(`DiskInvariant`): a file has a UUID only if its header was written last, and then all of its
records are there, of one index (`FilesWhole`); directories are replaced in one
order (`ReplacedInOrder`), so that what a save has not yet replaced is not newer than what it
has; and a save that has met no fault has written all it should have so far (`Undisturbed`,
`Delivered`). Since a table always has a UUID, it leads to a file that is whole or to none:
`NothingTornIsRead` (`PartsAreWhole`) and `SavedIsRead` (`RoundTrip`). `PartsAreWhole` does not say
that there are as many points as the table says: that is false from three points on (see the
disagreements), which the attempt to prove it showed.

### What is only model-checked

Liveness (`CallsReturn`, `SearchEnds`, `ConstructReturns`, `ClusteringEnds`, and the fairness of `JobServer`)
and `ENABLED` are out of the prover's reach. So is induction over data: what a recursive
definition computes for every input can be proved only where one fixed statement can be
inducted on, which leaves the algorithms (`Flat`, `Packing`, `Dispatch`, `Prune`, `Medioid`), the
numbers and the tables of nested objects to TLC. `PointsKept` and `SearchFindsNearest` could be
proved and are not.

## What is not modelled

- Thread: telemetry, the number of spins (a timeout may happen at any time; a count of 0
  wraps around to 2^64), `shutdown(wait = true)`, which nothing calls, memory orders (the model is
  sequentially consistent; the code stores and swaps with the default order and
  reads the one atomic with acquire, or relaxed while it spins).
- Pool: `SequentialThreadPool`, builders for NUMA nodes, a constructor called
  with 0 threads (it wraps around and starts threads without end).
- Dynamic index: accessors that only read, `get_distance`, exceptions from
  allocation. `compact` is modelled with
  sums that do not wrap around and a batch size above 0; in the code `start +
  batch_size` has 32 bits, and a batch size of 0 never ends.
- Builder and searches: prefetching, logging, exceptions from allocation (a thread that
  throws inside a phase ends the build through the pool, which `ThreadPool` has).
- Distances: rounding inside sums of floats. The bound on a rounding error is a matter of
  analysis, not of control. Quantization has its roundings.
- Datasets: views, casts; decompression in place. Memory: NUMA-local arrays, views and
  indexing of arrays.
- Inverted index: the extensions for compressed data.
- LeanVec: the singular value decomposition, which MKL provides.
- Saving: arrays of objects, paths and times. Numbers of 64 bits have 4 bits.
- Orchestrators: type erasure. Benchmarks: jobs, reports, the command line. Python
  bindings and examples: all of it. `PROJECT.json` lists what is left out component by component.

A large part of the implementation's lines has nothing a model could add: documentation
comments of templates, traits and concepts, type lists of the bindings and the
benchmarks, forwarding of the orchestrators, constructors that move their arguments.

## Running it

    tlc -workers 2 -config ThreadControl.cfg ThreadControl.tla
    tlapm ThreadControlProofs.tla

The modules with proofs are `ThreadControlProofs`, `PartitionProofs`, `ThreadPoolProofs`,
`DynamicIndexProofs`, `GreedySearchProofs`, `VamanaBuilderProofs`, `PartsProofs` and
`SaveLoadProofs`.

`PROJECT.json` lists module and configuration of every run, the code each
definition models, and for every property of a passing run a mutant of the code
(operators marked `Mutant:` in the modules) that violates it.
