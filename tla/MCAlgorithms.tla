---------------------------- MODULE MCAlgorithms ----------------------------
(***************************************************************************)
(* The parts that do not interact with the rest: calibration, the stored   *)
(* vectors, their memory, mapped files, the workload of a dynamic index    *)
(* and parameters that threads share as state machines, and partitions,    *)
(* flat search, pruning, medioids, k-means, recall, packed codes, dispatch *)
(* and what is stored on disk as functions over bounded inputs.  A         *)
(* behaviour runs one; the variables of the others stay as they are.       *)
(***************************************************************************)
EXTENDS Calibration, Dataset, Allocation, MemoryMap, SharedParameters, ReferenceDataset, Packing, Prune,
        Medioid, MCStorage

CONSTANTS MaxSize, MaxTeam,  \* partitions: indices; threads, or indices per piece
          MaxDistance,       \* flat search: distances are 1 .. MaxDistance
          MaxCandidates,     \* pruning: candidates
          MaxMethods         \* dispatch: registered methods

part_vars == <<vars, data_vars, memory_vars, map_vars, workload_vars, shared_vars>>

mc_vars == <<part_vars, call, answer>>

State(name) == call = [part |-> name] /\ answer = <<>>

-----------------------------------------------------------------------------
PartitionCalls == [part : {"partition"}, n : 0 .. MaxSize, team : 1 .. MaxTeam]

\* The shares of thread numbers within and beyond the team, and the pieces up to the
\* first that is past the end.  `team` plays the grain size of a dynamic partition.
Divide(c) ==
  [shares |-> [tid \in 0 .. c.team + MaxTeam |-> balance(c.n, c.team, tid)],
   pieces |-> LET last == CHOOSE i \in 0 .. c.n : /\ DynamicDone(c.n, c.team, i)
                                                 /\ \A j \in 0 .. i - 1 : ~DynamicDone(c.n, c.team, j)
              IN  [i \in 0 .. last - 1 |-> DynamicPiece(c.n, c.team, i)]]

FlatCalls ==
  UNION {[part : {"flat"}, size : {n}, distance : [0 .. n - 1 -> 1 .. MaxDistance],
          passes : SUBSET (0 .. n - 1), num_neighbors : 1 .. 3, data_batch : {0, 2, 5},
          queries : {1, 2, 4}, query_batch : {0, 3}, threads : {1, 3}] : n \in 0 .. 3}

Strategies(bits) ==
  {Sequential} \cup (IF bits = 8 THEN {Turbo(16, 4)} ELSE IF bits = 4 THEN {Turbo(16, 8)} ELSE {})

Lengths(s) == IF s = Sequential THEN {1, 8, 9, 16, 17, 23} ELSE {17, 130}

Signs(s) == IF s = Sequential THEN BOOLEAN ELSE {FALSE}

PackingCalls ==
  UNION {UNION {UNION {UNION {
    [part : {"packing"}, strategy : {s}, bits : {bits}, length : {length}, signed : {signed},
     index : {0, length \div 2, length - 1}, value : {smallest(signed, bits), largest(signed, bits)}]
    : signed \in Signs(s)} : length \in Lengths(s)} : s \in Strategies(bits)} : bits \in 1 .. 8}

\* Memory with some content.
Memory(s, bits, length) == [p \in 0 .. 8 * compute_bytes(s, bits, length) - 1 |-> ((p * p) \div 3) % 2]

\* A vector of 1 .. 4 elements for a dense dataset or one in blocks, whose elements of two
\* bytes have as many values as there are places; `planes` makes it an array of three
\* dimensions.
LayoutCalls ==
  UNION {[part : {"layout"}, size : {n}, dimensions : 1 .. 3, blocksize_bytes : {0, 8, 16},
          index : 0 .. n - 1, length : 1 .. 4, planes : {1, 2}] : n \in 1 .. 5}

Stored(c) == NewDataset(c.size, c.dimensions, c.blocksize_bytes, 2)

NewVector(c) == [j \in 1 .. c.length |-> -j]

Categories == {"Value", "Ref", "ConstRef"}

ExtentArgs == [kind : {"extent"}, value : {4, Dynamic}, force : BOOLEAN]

DispatchArgs ==
  [kind : {"variant"}, cat : Categories, types : {{"A", "B"}}, holds : {"A", "B"}]
  \cup [kind : {"type"}, cat : Categories, type : {"A"}]
  \cup [kind : {"datatype"}, name : {"float32"}] \cup ExtentArgs

Targets == [kind : {"type"}, cat : Categories, type : {"A", "B"}]
           \cup [kind : {"datatype"}, name : {"float32", "int8"}]
           \cup [kind : {"extent"}, extent : {4, 7, Dynamic}]

\* Two arguments, and methods that can be registered for them.
MethodCalls ==
  UNION {UNION {
    [part : {"dispatch"}, args : {<<a, e>>},
     methods : UNION {[1 .. n -> {<<s, t>> : s \in {s \in Targets : DispatchConvertible(a, s)},
                                             t \in {t \in Targets : DispatchConvertible(e, t)}}]
                        : n \in 0 .. 2}]
    : e \in ExtentArgs} : a \in DispatchArgs}

\* Specializations of LVQ, and a dataset of 4 dimensions to find one for.
LVQMethods == [primary : {4}, residual : {0}, extent : {4, 7, Dynamic}, turbo : BOOLEAN]

LVQCalls == [part : {"lvq"}, methods : UNION {[1 .. n -> LVQMethods] : n \in 0 .. MaxMethods},
             residual : {0, 8}, strategy : {"Auto", "Sequential", "Turbo"}]

Matches(c) == [i \in DOMAIN c.methods |->
                 <<overload_score(c.methods[i], [primary |-> 4, residual |-> c.residual, dims |-> 4],
                                  c.strategy)>>]

\* Candidates from near to far; with the factors for which there is a second round.
PruneCalls ==
  UNION {UNION {
    [part : {"prune"}, strategy : {"Legacy", IF g THEN "Iterative" ELSE "Progressive"},
     greater : {g}, alpha : {Scale, IF g THEN 5 ELSE 15}, max : 1 .. n, self : {0, n},
     distance : {f \in [1 .. n -> {2, 3, 6}] : \A i \in 2 .. n : ~Nearer([greater |-> g], f[i], f[i - 1])},
     between : [{p \in (1 .. n) \X (1 .. n) : p[1] < p[2]} -> {2, 5}]]
    : g \in BOOLEAN} : n \in 1 .. MaxCandidates}

MedioidCalls ==
  UNION {[part : {"medioid"}, data : [0 .. n - 1 -> {0, 1, 4}], satisfies : SUBSET (0 .. n - 1),
          threads : {1, 3}, linear_threshold : {1, 2}, thread_batchsize : {1, 3}] : n \in 1 .. 4}

\* Rows of results with 1 .. 3 neighbors, which a faulty search may repeat; two rows where
\* the sizes may differ.
ResultRows(n) == [1 .. n -> 0 .. 2]

RecallCalls ==
  [part : {"recall"}, groundtruth : {<<row>> : row \in UNION {ResultRows(n) : n \in 1 .. 3}},
   results : {<<row>> : row \in UNION {ResultRows(n) : n \in 1 .. 3}}, k : 0 .. 3, n : 0 .. 4]
  \cup [part : {"recall"}, groundtruth : {<<row, <<0, 1>>>> : row \in ResultRows(2)},
         results : {<<row>> : row \in ResultRows(2)} \cup {<<row, <<2, 1>>>> : row \in ResultRows(2)}, k : 0 .. 3, n : 0 .. 2]
  \cup [part : {"queries"}, queries : {[i \in 1 .. n |-> i] : n \in 1 .. 4}, training : 0 .. 5]

KMeansCalls ==
  UNION {[part : {"kmeans"}, data : [1 .. 3 -> {0, 1, 4}], batchsize : 1 .. 4, epochs : 0 .. 2,
          picks : {p \in [1 .. n -> 1 .. 3] : \A i, j \in 1 .. n : i # j => p[i] # p[j]}] : n \in 1 .. 2}

\* Data that a dynamic index is put through, and schedules.
Setups ==
  [size : {5}, bucket_size : {1, 2, 3}, num_neighbors : {2}, initial : 1 .. 5, modify : 1 .. 3, cycles : {1, 2},
   iterations : {2}, distance : {[i \in 0 .. 4 |-> d[i + 1]] : d \in {<<3, 1, 4, 2, 5>>, <<1, 1, 2, 2, 1>>, <<5, 4, 3, 2, 1>>}}]

-----------------------------------------------------------------------------
Still == UNCHANGED part_vars

OnCall(part) == Called(part) /\ Still

RunPartition == OnCall("partition") /\ Returns(Divide(call))

RunFlat == OnCall("flat") /\ Returns([q \in 0 .. call.queries - 1 |-> search(call, q)])

RunPrune == OnCall("prune") /\ Returns(heuristic_prune_neighbors(call))

RunRecall ==
  \/ OnCall("recall") /\ Returns(k_recall_at_n(call.groundtruth, call.results, call.k, call.n))
  \/ OnCall("queries") /\ Returns(QuerySet(call.queries, call.queries, call.training))

RunKMeans ==
  OnCall("kmeans") /\ Returns(train_impl(call.data, call.picks, call.batchsize, call.epochs))

RunMedioid == OnCall("medioid") /\ Returns(find_medioid(call))

RunSet ==
  /\ OnCall("packing")
  /\ Returns(set(call.strategy, call.signed, call.bits,
                 Memory(call.strategy, call.bits, call.length), call.value, call.index))

RunSetDatum == OnCall("layout") /\ Returns(set_datum(Stored(call), call.index, NewVector(call)))

RunDispatch ==
  \/ OnCall("dispatch") /\ Returns(invoke(call.methods, call.args))
  \/ OnCall("lvq") /\ Returns(BestOf(Matches(call)))

\* The state machine that a behaviour does not run.
NoCalibration == Begin([num_neighbors |-> 1, state |-> "All", reranking |-> FALSE, capacity |-> 1,
                        train |-> FALSE])

NoData == /\ blocked = FALSE /\ slots = [l \in level |-> <<>>] /\ size = [l \in level |-> 0]
          /\ moving = <<>> /\ datum = <<>>

NoWorkload == /\ setup = <<>> /\ reserve = <<>> /\ resident = <<>> /\ valid = {} /\ external = {}
              /\ report = <<>> /\ iteration = 0 /\ op = "none"

NoMap == MapInit /\ file = Absent

MCInit ==
  \/ State("calibration") /\ Init /\ NoData /\ AllocationInit /\ NoMap /\ NoWorkload /\ SharedInit
  \/ State("data") /\ NoCalibration /\ DataInit /\ AllocationInit /\ NoMap /\ NoWorkload /\ SharedInit
  \/ State("memory") /\ NoCalibration /\ NoData /\ AllocationInit /\ NoMap /\ NoWorkload /\ SharedInit
  \/ State("map") /\ NoCalibration /\ NoData /\ AllocationInit /\ MapInit /\ NoWorkload /\ SharedInit
  \/ State("workload") /\ NoCalibration /\ NoData /\ AllocationInit /\ NoMap /\ WorkloadInit(Setups) /\ SharedInit
  \/ State("shared") /\ NoCalibration /\ NoData /\ AllocationInit /\ NoMap /\ NoWorkload /\ SharedInit
  \/ /\ call \in PartitionCalls \cup FlatCalls \cup PruneCalls \cup MedioidCalls
             \cup PackingCalls \cup LayoutCalls \cup MethodCalls \cup LVQCalls \cup RecallCalls \cup KMeansCalls \cup StorageCalls
     /\ answer = <<>> /\ NoCalibration /\ NoData /\ AllocationInit /\ NoMap /\ NoWorkload /\ SharedInit

Runs(part) == call.part = part /\ UNCHANGED <<call, answer>>

MCNext ==
  \/ Runs("calibration") /\ Next /\ UNCHANGED <<data_vars, memory_vars, map_vars, workload_vars, shared_vars>>
  \/ Runs("data") /\ DataNext /\ UNCHANGED <<vars, memory_vars, map_vars, workload_vars, shared_vars>>
  \/ Runs("memory") /\ AllocationNext /\ UNCHANGED <<vars, data_vars, map_vars, workload_vars, shared_vars>>
  \/ Runs("map") /\ MapNext /\ UNCHANGED <<vars, data_vars, memory_vars, workload_vars, shared_vars>>
  \/ Runs("workload") /\ WorkloadNext /\ UNCHANGED <<vars, data_vars, memory_vars, map_vars, shared_vars>>
  \/ Runs("shared") /\ SharedNext /\ UNCHANGED <<vars, data_vars, memory_vars, map_vars, workload_vars>>
  \/ RunPartition \/ RunFlat \/ RunPrune \/ RunMedioid \/ RunSet \/ RunSetDatum \/ RunDispatch
  \/ RunRecall \/ RunKMeans
  \/ RunStorage /\ Still

MCSpec == MCInit /\ [][MCNext]_mc_vars

-----------------------------------------------------------------------------
\* A team divides the index space exactly (balance): every index has one taker, the
\* shares differ by one at most, and in a team of two or more a thread number beyond the
\* team gets nothing, so that a pool that grew since the team was counted does no work
\* twice.  The pieces of a dynamic partition cover the space without overlap.
DivisionIsExact ==
  Answered("partition") =>
    LET shares == answer.value.shares
        pieces == answer.value.pieces
        team   == 0 .. call.team - 1
    IN  /\ \A i \in 0 .. call.n - 1 : Cardinality({tid \in team : i \in shares[tid]}) = 1
        /\ \A t1, t2 \in team : Cardinality(shares[t1]) <= Cardinality(shares[t2]) + 1
        /\ call.team >= 2 /\ call.n > 0 => \A tid \in DOMAIN shares \ team : shares[tid] = {}
        /\ UNION {pieces[i] : i \in DOMAIN pieces} = 0 .. call.n - 1
        /\ \A i, j \in DOMAIN pieces : i # j => pieces[i] \cap pieces[j] = {}

\* Whatever the batch sizes, the number of threads and the order of the data: every query
\* of a flat index gets the nearest of the data that pass the predicate, from near to far,
\* no datum twice, and sentinels only when there are too few (FlatIndex::search); and the
\* medioid is the first of the vectors nearest to the mean of those that satisfy its
\* predicate, and none iff none satisfies it (find_medioid).
ExactSearches ==
  /\ Answered("flat") =>
       \A q \in DOMAIN answer.value :
         LET row   == answer.value[q]
             found == {row[i].id : i \in DOMAIN row} \ {Sentinel}
             real  == Cardinality(found)
         IN  /\ real = MinOf(call.num_neighbors, Cardinality(call.passes)) /\ found \subseteq call.passes
             /\ \A i \in 1 .. real : row[i].id \in found /\ row[i].distance = call.distance[row[i].id]
             /\ \A i, j \in DOMAIN row : i < j => ~Farther(row[i], row[j])
             /\ \A x \in call.passes \ found, i \in 1 .. real : call.distance[x] >= row[i].distance
  /\ Answered("medioid") =>
       LET satisfying == call.satisfies
           n     == Cardinality(satisfying)
           sum[S \in SUBSET satisfying] == IF S = {} THEN 0
                                      ELSE LET x == CHOOSE x \in S : TRUE IN call.data[x] + sum[S \ {x}]
           Far(i) == Distance(n * call.data[i], sum[satisfying])
       IN  IF satisfying = {} THEN answer.value = NoIndex
           ELSE /\ answer.value \in satisfying
                /\ \A i \in satisfying :
                     Far(answer.value) < Far(i) \/ (Far(answer.value) = Far(i) /\ answer.value <= i)

\* Nobody reads beyond a row, and a recall is full iff each of the first k of every query is
\* among its n results and none is there twice; more results never lower it.  The queries
\* for tuning and those for the test are all queries, and neither set is empty.
RecallIsFair ==
  /\ Answered("recall") /\ answer.value # Refused =>
       LET columns == Len(call.results[1])
           k == IF call.k = 0 THEN columns ELSE call.k
           n == IF call.n = 0 THEN columns ELSE call.n
           Full(i) == /\ Cardinality(FirstOf(call.groundtruth[i], k)) = k
                      /\ FirstOf(call.groundtruth[i], k) \subseteq FirstOf(call.results[i], n)
       IN  /\ Len(call.groundtruth) = Len(call.results) /\ answer.value.of = k * Len(call.results)
           /\ answer.value.count <= answer.value.of
           /\ answer.value.count = answer.value.of <=> \A i \in DOMAIN call.results : Full(i)
           /\ n < columns =>
                answer.value.count <= k_recall_at_n(call.groundtruth, call.results, k, n + 1).count
  /\ Answered("queries") =>
       IF call.training \in 1 .. Len(call.queries) - 1
       THEN LET value == answer.value
            IN  /\ value.training.queries \o value.test.queries = call.queries
                /\ \A part \in {value.training, value.test} : part.queries = part.groundtruth /\ Len(part.queries) > 0
       ELSE answer.value = Refused

\* However the data is cut into batches, every datum counts once in an epoch, no centroid
\* leaves the range of the data, and after the first epoch the centroids, as often as they
\* were chosen, add up to the data: each is a mean of its own data, and where it began is
\* forgotten.  With the whole data as one batch no epoch makes the error larger.
CentroidsAreMeans ==
  Answered("kmeans") =>
    LET data == call.data
        states == answer.value
        Total(f) == f[1] + IF Len(f) = 1 THEN 0 ELSE f[2]
        Mass(s) == LET c == s.centroids
                   IN  IF Len(c) = 1 THEN [num |-> s.counts[1] * c[1].num, den |-> c[1].den]
                       ELSE [num |-> s.counts[1] * c[1].num * c[2].den + s.counts[2] * c[2].num * c[1].den,
                             den |-> c[1].den * c[2].den]
    IN  \A e \in 1 .. call.epochs :
          LET s == states[e]
              before == SquaredErrors(data, states[e - 1].centroids)
              now == SquaredErrors(data, s.centroids)
          IN  /\ Total(s.counts) = Len(data)
              /\ \A c \in DOMAIN s.centroids :
                   \E i, j \in DOMAIN data : /\ data[i] * s.centroids[c].den <= s.centroids[c].num
                                             /\ s.centroids[c].num <= data[j] * s.centroids[c].den
              /\ e = 1 => Mass(s).num = (data[1] + data[2] + data[3]) * Mass(s).den
              /\ call.batchsize >= Len(data) => now.num * before.den <= before.num * now.den

\* What exact searches give, and what is measured with them: in a flat index, for the medioid,
\* for the centroids of k-means, and for the groundtruth of a dynamic index.
NearestAreFound ==
  /\ ExactSearches /\ CentroidsAreMeans /\ RecallIsFair
  /\ call.part = "workload" => ReferenceAgrees

\* For every strategy: no node twice and never the node itself, at most max of them, the
\* nearest candidate first; and a candidate is only left out of a list with room if
\* a kept one in front of it shadows it at alpha (heuristic_prune_neighbors).  So pruning
\* never cuts a region off.
PruneKeepsReach ==
  Answered("prune") =>
    LET kept == {answer.value[i] : i \in DOMAIN answer.value}
        eligible == DOMAIN call.distance \ {call.self}
    IN  /\ Cardinality(kept) = Len(answer.value) /\ Len(answer.value) <= call.max
        /\ kept \subseteq eligible
        /\ eligible # {} => 1 \in {call.self, answer.value[1]}
        /\ Len(answer.value) < call.max =>
             \A t \in eligible \ kept : \E a \in kept : a < t /\ Shadows(call, call.alpha, a, t)

\* prune.h:87: "the MRNG rule (extended with alpha as in Vamana)", in the words of
\* docs/advanced/graph_search.rst:60: once a candidate is added, "remove all points from C
\* that are closer to x* than x by a factor alpha".  The second rounds do not keep it.
PruneFollowsRule ==
  Answered("prune") =>
    \A i, j \in DOMAIN answer.value :
      i < j /\ answer.value[i] < answer.value[j]
        => ~Shadows(call, call.alpha, answer.value[i], answer.value[j])

\* The places of an array are its indices in their order, without gaps; every vector of a
\* dataset has places of its own, so that one is written and no other changes, or none if
\* its length is wrong; and a blocked dataset equals a dense one iff the vectors do.
VectorsAreApart ==
  Answered("layout") =>
    LET before == Stored(call)
        after == answer.value
        fits == call.length = call.dimensions
        all == 0 .. call.size - 1
        dense == NewDataset(call.size, call.dimensions, 0, 2)
        copied[i \in 0 .. call.size] ==
          IF i = 0 THEN dense ELSE set_datum(copied[i - 1], i - 1, Datum(before, i - 1))
        dims == <<call.planes, call.size, call.dimensions>>
        RowMajor(a, i, j) == (a * call.size + i) * call.dimensions + j
    IN  /\ \A i \in all, j \in 1 .. call.dimensions : get_datum(before, i)[j] \in DOMAIN before.memory
        /\ \A i \in all : Datum(after, i) = IF fits /\ i = call.index THEN NewVector(call) ELSE Datum(before, i)
        /\ SameData(copied[call.size], before) /\ (SameData(copied[call.size], after) <=> ~fits)
        /\ \A a \in 0 .. call.planes - 1, i \in all, j \in 0 .. call.dimensions - 1 :
             /\ array_offset(dims, <<a, i, j>>) = RowMajor(a, i, j) /\ RowMajor(a, i, j) < array_size(dims)
             /\ slice(dims, <<a, i>>)[j + 1] = RowMajor(a, i, j)

\* One code is written and nothing else changes, also where a code straddles two bytes;
\* the SIMD unpacking gives what get gives, in its full groups and in its tails; and
\* the canonical form of a Turbo vector has the same codes and leads back to them.
CodesAreExact ==
  Answered("packing") =>
    LET s == call.strategy
        all == 0 .. call.length - 1
        before == Memory(s, call.bits, call.length)
        after == answer.value
        canonical == Repacked(s, Sequential, call.bits, call.length, after, 1)
        Unpacked(e) == IF s = Sequential THEN UnpackSequential(call.signed, call.bits, call.length, after, e)
                       ELSE UnpackTurbo(s, call.bits, after, e)
        Get(t, vector, e) == get(t, call.signed, call.bits, vector, e)
    IN  /\ \A e \in all : Loaded(s, call.bits, e) \subseteq DOMAIN after
        /\ Get(s, after, call.index) = call.value
        /\ \A e \in all \ {call.index} : Get(s, after, e) = Get(s, before, e)
        /\ \A e \in all : Unpacked(e) = Get(s, after, e)
        /\ s # Sequential => \A e \in all : Get(Sequential, canonical, e) = Get(s, after, e)
        /\ s # Sequential => LET back == Repacked(Sequential, s, call.bits, call.length, canonical, 0)
                             IN  \A e \in all : Get(s, back, e) = Get(s, after, e)

\* What is written is read again, and nothing else changes: codes in a vector, and vectors
\* in memory.
PackingIsExact == CodesAreExact /\ VectorsAreApart

\* The method that is called fits, no method that fits has a better match, and of those
\* with an equal match it is the one registered first; none is called iff none fits.  It
\* gets what the variant holds.  Of LVQ's specializations a matching extent comes before
\* a better strategy.
DispatchPicksBest ==
  /\ Answered("dispatch") =>
       LET Binds(cat, to) == to = "ConstRef" \/ to = cat
           Held(a) == IF a.kind = "variant" THEN a.holds ELSE a.type
           Fits(a, t) == CASE t.kind = "type" -> Held(a) = t.type /\ Binds(a.cat, t.cat)
                           [] t.kind = "datatype" -> a.name = t.name
                           [] t.kind = "extent" -> t.extent = a.value \/ (t.extent = Dynamic /\ ~a.force)
           Cost(a, t) == IF t.kind = "extent" /\ t.extent # a.value THEN 1 ELSE 0
           a == call.args
           m == call.methods
           fits == {i \in DOMAIN m : Fits(a[1], m[i][1]) /\ Fits(a[2], m[i][2])}
           Rank(i) == 100 * Cost(a[1], m[i][1]) + 10 * Cost(a[2], m[i][2]) + i
           winner == answer.value.method
       IN  IF fits = {} THEN winner = 0
           ELSE /\ winner \in fits /\ \A i \in fits : Rank(winner) <= Rank(i)
                /\ answer.value.args[2] = a[2]
                /\ answer.value.args[1] =
                     IF a[1].kind = "variant" THEN [kind |-> "type", cat |-> a[1].cat, type |-> a[1].holds]
                     ELSE a[1]
  /\ Answered("lvq") =>
       LET Fits(m) == /\ call.residual = m.residual /\ m.extent \in {4, Dynamic}
                      /\ call.strategy # IF m.turbo THEN "Sequential" ELSE "Turbo"
           fits == {i \in DOMAIN call.methods : Fits(call.methods[i])}
           Rank(i) == LET m == call.methods[i]
                      IN  100 * (IF m.extent = 4 THEN 0 ELSE 1) + 10 * (IF m.turbo THEN 0 ELSE 1) + i
       IN  IF fits = {} THEN answer.value = 0
           ELSE answer.value \in fits /\ \A i \in fits : Rank(answer.value) <= Rank(i)
=============================================================================
