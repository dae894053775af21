----------------------------- MODULE MCNumerics -----------------------------
(***************************************************************************)
(* The numeric parts as functions over bounded inputs: distance kernels,   *)
(* half precision, quantization and reduction, and what an index does with *)
(* datasets of several precisions.  A behaviour calls one of them once.    *)
(***************************************************************************)
EXTENDS LeanVec, Extensions, TLC

VARIABLES call,   \* the input: a record with the name of its part
          answer  \* what is returned; <<>> before

mc_vars == <<call, answer>>

-----------------------------------------------------------------------------
Lowest(type) == CASE type = "int8" -> -128 [] type = "uint8" -> 0 [] OTHER -> -300

Largest(type) == CASE type = "int8" -> 127 [] type = "uint8" -> 255 [] OTHER -> 300

\* A vector of mixed values, or of one extreme value.
Vector(type, pattern, n) ==
  [i \in 0 .. n - 1 |->
     CASE pattern = "low" -> Lowest(type)
       [] pattern = "high" -> Largest(type)
       [] pattern = "up" -> Lowest(type) + ((i * i + 7 * i) % (Largest(type) - Lowest(type) + 1))
       [] pattern = "down" -> Largest(type) - ((i * i + 5 * i) % (Largest(type) - Lowest(type) + 1))]

ElementTypes == FloatPairs("L2") \cup SmallPairs \cup {<<"int8", "float">>}

KernelCalls ==
  [part : {"kernel"}, distance : {"L2", "IP", "Cosine"}, types : ElementTypes,
   level : {"VNNI", "AVX512", "AVX2", "None"}, patterns : {<<"up", "down">>, <<"high", "low">>},
   n : {0, 1, 7, 8, 9, 15, 16, 17, 31, 32, 33, 64, 65, 128, 129, 130}]

Left(c) == Vector(c.types[1], c.patterns[1], c.n)

Right(c) == Vector(c.types[2], c.patterns[2], c.n)

\* Floats up to the largest that rounds to a half: around the limits of normal and
\* subnormal halves, and with every case of what is cut off.
HalfCalls ==
  [part : {"half"}, sign : {0, 1}, e : {0, 60} \cup 100 .. 115 \cup 126 .. 128 \cup {142},
   m : {2 ^ 13 * k + left : k \in {0, 1, 2, 511, 1022}, left \in {0, 1, 4095, 4096, 4097, 8191}}]

\* Vectors with a given least value and a range of `step` steps, in units of 1 / One.
EncodeCalls ==
  {c \in [part : {"encode"}, bits : {4, 8}, residual : {0, 4, 8}, step : {0, 1, 74, 100, 2049},
          min : {0, -5, 2049, -6001, 70003, 10 * One + 3000}, a : 0 .. 5, b : {0, 3, 7}] :
     c.residual = 0 \/ c.min < One}

\* The least value, two others and the largest.
Data(c) ==
  LET range == c.step * max_s(c.bits)
  IN  [i \in 0 .. 3 |->
         c.min + CASE i = 0 -> 0
                   [] i = 1 -> (range * c.a + c.a) \div 6
                   [] i = 2 -> MinOf(range, c.step * c.b + c.step \div 2)
                   [] i = 3 -> range]

Encoded(c) ==
  LET v == MinRange(c.bits, Data(c), 4, 0)
  IN  [primary |-> v,
       residual |-> IF c.residual = 0 THEN <<>> ELSE ResidualEncoder(c.residual, v, Data(c), 4)]

\* Datasets whose means are whole, and a vector that is added to them.
Pairs == {[j \in 0 .. 1 |-> p[j + 1]] : p \in {<<0, 0>>, <<21420, 0>>, <<-12000, 12480>>, <<60, 3120>>}}

DatasetCalls ==
  UNION {[part : {"lvq"}, bits : {4, 8}, residual : {0, 4}, type : {"float", "Float16"},
          data : [0 .. size - 1 -> Pairs], added : Pairs] : size \in 1 .. 3}

\* Orthogonal matrices, up to a factor, and a pair of which one undoes the other.
Matrix(a, b, c, d) == [j \in 0 .. 1 |-> [i \in 0 .. 1 |-> IF j = 0 THEN (IF i = 0 THEN a ELSE b)
                                                         ELSE (IF i = 0 THEN c ELSE d)]]

Orthogonal == {Matrix(1, 0, 0, 1), Matrix(0, -1, 1, 0), Matrix(3, 4, -4, 3)}

Undoing == [data |-> Matrix(1, 1, 0, 1), query |-> Matrix(1, 0, -1, 1)]

\* Data whose means are whole, by PCA or with given matrices; one is replaced by `added`.
Vectors == {[j \in 0 .. 1 |-> p[j + 1]] : p \in {<<0, 0>>, <<12, 0>>, <<-24, 36>>, <<0, -12>>}}

LeanVecCalls ==
  UNION {{c \in [part : {"leanvec"}, distance : {"L2", "IP"}, data : [0 .. size - 1 -> Vectors],
                 added : Vectors, query : {[j \in 0 .. 1 |-> 5 - 2 * j], [j \in 0 .. 1 |-> -j]},
                 matrices : {<<>>, Undoing} \cup {[data |-> o, query |-> o] : o \in Orthogonal},
                 pca : Orthogonal, k : {1, 2}, threads : {1, 2}] :
            /\ c.matrices # <<>> => c.pca = Matrix(1, 0, 0, 1) /\ c.k = 2
            /\ c.matrices = Undoing => c.distance = "IP"}
         : size \in {2, 3}}

\* Codes at one or two levels, against a query or against another vector.
CompressedCalls ==
  [part : {"compressed"}, distance : {"L2", "IP"}, turbo : BOOLEAN, residual : {0, 2, 8},
   n : {1, 15, 16, 17, 33, 64, 65, 130}, selector : {0, 1}, other : BOOLEAN, bias : {0, -11}]

Codes(c, k) == [selector |-> IF k = 1 THEN c.selector ELSE 1 - c.selector, turbo |-> c.turbo,
                scale |-> IF c.residual = 0 THEN 5 + k ELSE 2 * k * max_s(c.residual), bias |-> c.bias + k,
                codes |-> [i \in 0 .. c.n - 1 |-> (i + k) % 3]]

Residual(c, k) == IF c.residual = 0 THEN <<>>
                  ELSE [i \in 0 .. c.n - 1 |-> (5 * i + k) % (max_s(c.residual) + 1)]

Query(c) == [i \in 0 .. c.n - 1 |-> ((i * i + 3) % 17) - 8]

Centroids(c) == [k \in 0 .. 1 |-> [i \in 0 .. c.n - 1 |-> ((k + 2) * i) % 5]]

\* A vector as its elements say, one by one.
Decoded(c, k) ==
  LET v == Codes(c, k)
      Element(i) == IF c.residual = 0 THEN get_primary(v, i)
                    ELSE get_combined(c.residual, v, Residual(c, k), i) \div (2 * max_s(c.residual))
  IN  [i \in 0 .. c.n - 1 |-> Centroids(c)[v.selector][i] + Element(i)]

CompressedDistance(c) ==
  IF c.other THEN between(c.distance, Codes(c, 2), Codes(c, 1), c.residual,
                          <<Residual(c, 2), Residual(c, 1)>>, Centroids(c), c.n)
  ELSE biased(c.distance, Query(c), Centroids(c), Codes(c, 1), c.residual, Residual(c, 1), c.n)

\* Datasets of three vectors and batches of three queries, of which the graph search sees
\* some vectors each.
Coarse(kind, x) == CASE kind \in {"plain", "one_level"} -> x [] kind = "two_level" -> 4 * (x \div 4)
                      [] kind = "leanvec" -> x % 4

Datasets ==
  {[kind |-> kind, full |-> x, primary |-> [i \in DOMAIN x |-> Coarse(kind, x[i])]] :
     kind \in {"plain", "one_level", "two_level", "leanvec"},
     x \in {[i \in 0 .. 2 |-> v[i + 1]] : v \in {<<0, 3, 5>>, <<5, 0, 3>>, <<3, 3, 1>>, <<7, 5, 2>>}}}

SearchCalls ==
  {[part |-> "search", dataset |-> d, num_neighbors |-> k, window |-> w, threads |-> t, seen |-> seen,
    queries |-> [i \in 0 .. 2 |-> [full |-> q[i], reduced |-> Coarse(d.kind, q[i])]]] :
     d \in Datasets, k \in {1, 2}, w \in {1, 2, 3}, t \in {1, 2, 4},
     seen \in [0 .. 2 -> {{0, 1, 2}, {1, 2}, {0}}], q \in [0 .. 2 -> {1, 6}]}

PoolCalls ==
  [part : {"pool"}, dataset : Datasets, node : 0 .. 2, window : {1, 2, 3}, max : {1, 2, 3},
   seen : SUBSET (0 .. 2) \ {{}}, edges : SUBSET (0 .. 2)]

ReconstructCalls ==
  UNION {[part : {"reconstruct"}, dataset : Datasets, dst_size : {2, 3}, dims : {1, 2}, threads : {1, 2},
          ids : [0 .. n - 1 -> 0 .. 3]] : n \in 1 .. 3}

-----------------------------------------------------------------------------
OnCall(part) == call.part = part /\ answer = <<>> /\ UNCHANGED call

Returns(x) == answer' = [value |-> x]

RunKernel ==
  /\ OnCall("kernel")
  /\ Returns(compute(call.distance, call.types[1], call.types[2], call.level, Left(call), Right(call), call.n))

RunHalf == OnCall("half") /\ Returns(to_half([sign |-> call.sign, e |-> call.e, m |-> call.m]))

RunEncode == OnCall("encode") /\ Returns(Encoded(call))

\* The dataset compressed, grown by one vector, and encoded again around two centroids.
RunLVQ ==
  /\ OnCall("lvq")
  /\ LET c == call
         all == DOMAIN c.data
         bulk == compress(c.bits, c.residual, c.type, c.data, 2)
         grown == set_datum(c.bits, c.residual, resize(bulk, Size(c.data) + 1, bulk.primary[0]),
                            Size(c.data), c.added, 2)
         several == set_centroids(bulk, 0 :> c.added @@ 1 :> bulk.centroids[0])
         again[k \in 0 .. Size(c.data)] ==
           IF k = 0 THEN several
           ELSE set_datum(c.bits, c.residual, again[k - 1], k - 1, c.data[k - 1], 2)
     IN  Returns([bulk |-> bulk, grown |-> grown, again |-> again[Size(c.data)]])

\* The dataset reduced, and its first vector replaced.
RunLeanVec ==
  /\ OnCall("leanvec")
  /\ LET c == call
         reduced == reduce_dataset(c.data, c.matrices, c.pca, 2, c.k, c.threads)
     IN  Returns([reduced |-> reduced, changed |-> set_leanvec(reduced, 0, c.added, 2, c.k)])

RunCompressed == OnCall("compressed") /\ Returns(CompressedDistance(call))

Unwritten == [i \in 0 .. 2 |-> [j \in 0 .. 1 |-> Blank]]

RunSearch == OnCall("search") /\ Returns(batch_search(call, Unwritten))

RunPool ==
  /\ OnCall("pool")
  /\ Returns(candidate_pool(call.dataset, call.node, call.window, call.seen, call.edges \ {call.node}, call.max))

RunReconstruct ==
  /\ OnCall("reconstruct")
  /\ Returns(reconstruct_at(call.dataset, [i \in 0 .. call.dst_size - 1 |-> -1], call.dims, 1, call.ids,
                            call.threads))

MCInit ==
  /\ call \in KernelCalls \cup HalfCalls \cup EncodeCalls \cup DatasetCalls \cup LeanVecCalls \cup CompressedCalls
             \cup SearchCalls \cup PoolCalls \cup ReconstructCalls
  /\ answer = <<>>

MCNext == \/ RunKernel \/ RunHalf \/ RunEncode \/ RunLVQ \/ RunLeanVec \/ RunCompressed
          \/ RunSearch \/ RunPool \/ RunReconstruct

MCSpec == MCInit /\ [][MCNext]_mc_vars

-----------------------------------------------------------------------------
Answered(part) == call.part = part /\ answer # <<>>

\* The kernel that an instruction set gets gives the sums of the definition, for every
\* length: each element is counted once in the unrolled part, the steps or the tail, and
\* none beyond the end is read.  Sums of small integers are exact as long as the result
\* fits the accumulator (generic_simd_op, L2Impl, IPImpl, CosineSimilarityImpl).  A distance
\* from codes is the distance to the vector they stand for, with its centroid: at one level
\* and at two, for both packing strategies, for every tail and whatever the padding holds,
\* from a query or from another compressed vector (compute_quantized, EuclideanBiased,
\* InnerProductBiased, DecompressionAdaptor).
DistancesAreExact ==
  /\ Answered("kernel") =>
       \A t \in Terms(call.distance) :
         LET exact == generic(t, Left(call), Right(call), call.n)
             limit == 2 ^ (AccumulatorBits - 1)
         IN  -limit <= exact /\ exact < limit => answer.value[t] = exact
  /\ Answered("compressed") =>
       LET left == IF call.other THEN Decoded(call, 2) ELSE Query(call)
       IN  answer.value = generic(IF call.distance = "L2" THEN "difference" ELSE "product",
                                  left, Decoded(call, 1), call.n)

\* float16.h:52: "round-to-nearest-even".  What the bits give is what the processor gives,
\* for a number of the normal range.  A tie goes up instead.
SlowIsFast ==
  Answered("half") =>
    (call.e > 112 => answer.value = hardware_half([sign |-> call.sign, e |-> call.e, m |-> call.m]))

\* The half nearest to a float, also where it is subnormal or the next power of two; a
\* normal half read back is itself.
NearestHalf(c, h) ==
  LET error == Magnitude(InBinade(h, c.e) - (2 ^ 23 + c.m))
  IN  /\ h.sign = c.sign
      /\ c.e < 102 => h.e = 0 /\ h.m = 0
      /\ c.e >= 102 => error <= IF c.e > 112 THEN 2 ^ 12 ELSE 2 ^ (125 - c.e)
      /\ h.e \in 1 .. 30 => to_half(to_float(h)) = h

\* At each level the code whose value is nearest, of all that there are.
Nearest(bits, residual, data, n, v, r) ==
  LET m == max_s(residual)
      Off(i) == Magnitude(data[i] - get_primary(v, i))
      OffBoth(s, i) == Magnitude(2 * m * data[i] - get_combined(residual, v, s, i))
  IN  \A i \in 0 .. n - 1 :
        /\ v.codes[i] \in 0 .. max_s(bits)
        /\ \A code \in 0 .. max_s(bits) : Off(i) <= Magnitude(data[i] - code * v.scale - v.bias)
        /\ v.bias <= data[i] /\ data[i] <= v.bias + max_s(bits) * v.scale => 2 * Off(i) <= v.scale
        /\ residual > 0 =>
             /\ r[i] \in 0 .. m
             /\ \A code \in 0 .. m : OffBoth(r, i) <= OffBoth([j \in {i} |-> code], i)
             /\ 2 * Off(i) <= v.scale => OffBoth(r, i) <= v.scale

\* Of all codes the one whose value is nearest is stored, at each level, although the
\* scale and the bias are rounded to half precision after they are measured, and also for
\* vectors that are almost constant; so no value is further away than the rounding of the
\* bias moves it, and half a step at most if it is within the levels (MinRange,
\* ResidualEncoder).  In a dataset, what is nearest is the vector without the centroid it
\* names, which is the one nearest to it; and a vector that is added is encoded like one
\* that was compressed with the others (compress, set_datum).  Half precision itself is
\* nearest, too (float_to_float16_untyped_slow).
EncodingIsNearest ==
  /\ Answered("half") => NearestHalf(call, answer.value)
  /\ Answered("encode") =>
       Nearest(call.bits, call.residual, Data(call), 4, answer.value.primary, answer.value.residual)
  /\ Answered("lvq") =>
       LET value == answer.value
           data == call.data
           Stored(dataset, i, datum) ==
             LET v == dataset.primary[i]
                 centroid == dataset.centroids[v.selector]
             IN  /\ v.selector = find_nearest(datum, dataset.centroids, 2)
                 /\ Nearest(call.bits, call.residual, [j \in 0 .. 1 |-> datum[j] - centroid[j]], 2, v,
                            dataset.residual[i])
       IN  /\ call.type = "float" => \A i \in DOMAIN data : Stored(value.bulk, i, data[i])
           /\ call.type = "float" =>
                \A i \in DOMAIN data :
                  set_datum_at(call.bits, call.residual, value.bulk, i, data[i], 2, 0) = value.bulk
           /\ \A i \in DOMAIN data :
                /\ value.grown.primary[i] = value.bulk.primary[i]
                /\ value.grown.residual[i] = value.bulk.residual[i]
                /\ Stored(value.again, i, data[i])
           /\ Stored(value.grown, Size(data), call.added)

\* codec.h:138: "we expect the maximum error between a quantized value and the original
\* data points to be `primary.get_scale() / 2`", which is the range that the second level
\* covers.  A bias that is rounded to half precision can move further than that.
ErrorIsHalfAStep ==
  Answered("encode") =>
    \A i \in 0 .. 3 : LET v == answer.value.primary
                      IN  2 * Magnitude(Data(call)[i] - get_primary(v, i)) <= v.scale

\* If no dimension is given up, the reduced vectors are in the same order of distance from
\* a reduced query as the vectors from the query: for both distances, with means or
\* without, and whether a vector was reduced in a batch or inserted.  The reranking has
\* the vectors themselves (reduce, set_datum, preprocess_queries).
LeanVecKeepsOrder ==
  Answered("leanvec") =>
    \A dataset \in {answer.value.reduced, answer.value.changed} :
      LET truth == IF dataset = answer.value.reduced THEN call.data ELSE [call.data EXCEPT ![0] = call.added]
          Primary(i) == primary_distance(dataset, call.distance, call.query, i, 2, call.k)
          Secondary(i) == secondary_distance(dataset, call.distance, call.query, i, 2)
      IN  /\ dataset.secondary = truth
          /\ \A i, j \in DOMAIN truth :
               /\ call.k = 2 => (Primary(i) < Primary(j) <=> Secondary(i) < Secondary(j))
               /\ truth[i] = truth[j] => dataset.primary[i] = dataset.primary[j]

\* S has n elements of T, or all, and none that is left out is nearer.
AreNearest(S, T, n, distance) ==
  /\ S \subseteq T /\ Cardinality(S) = MinOf(n, Cardinality(T))
  /\ \A x \in S, y \in T \ S : distance[x] <= distance[y]

\* Each query gets its own row: as far as its own graph search has found anything, the
\* nearest, by the vectors themselves, of what the buffer of that search can hold, in
\* order, with their distances, and none twice.  These entries are those of a query that has a thread and a scratch space to
\* itself, although the scratch space serves one query after the other, the distance
\* functors remember a query, and the queries of a share are reduced together.  Nothing is
\* said of the entries behind them, if more neighbors are asked for than were found: there
\* the code copies what an earlier query left (GreedySearch!ResultsTranslate).  A node that
\* is built chooses from the nearest that its search found and the neighbors it has, and
\* keeps the nearest of these, with distances that can be compared; nothing is dropped for
\* something farther.  And reconstruct_at writes all vectors, or none
\* (per_thread_batch_search, generate_neighbors, reconstruct_at).
ResultsAreTheirOwn ==
  /\ Answered("search") =>
       LET d == call.dataset
           alone == batch_search([call EXCEPT !.threads = Cardinality(DOMAIN call.queries)], Unwritten)
       IN  \A q \in DOMAIN call.queries :
             LET row == answer.value[q]
                 found == MinOf(call.num_neighbors, Cardinality(call.seen[q]))
                 ids == {row[j].id : j \in 0 .. found - 1}
                 query == IF d.kind = "leanvec" THEN call.queries[q].reduced ELSE call.queries[q].full
                 Near == [i \in DOMAIN d.primary |-> Magnitude(d.primary[i] - query)]
                 Far == [i \in DOMAIN d.full |-> Magnitude(d.full[i] - call.queries[q].full)]
                 capacity == MaxOf(call.window, call.num_neighbors)
             IN  /\ \E held \in SUBSET call.seen[q] :
                      AreNearest(held, call.seen[q], capacity, Near) /\ AreNearest(ids, held, found, Far)
                 /\ \A j \in 0 .. found - 1 : row[j].dist = Far[row[j].id]
                 /\ \A j \in 1 .. found - 1 : row[j - 1].dist <= row[j].dist
                 /\ \A j \in 0 .. found - 1 : row[j] = alone[q][j]
  /\ Answered("pool") =>
       LET d == call.dataset
           pool == answer.value
           ids == {x.id : x \in pool}
           Value(i) == IF d.kind = "leanvec" THEN d.primary[i] ELSE d.full[i]
           Near == [i \in DOMAIN d.primary |-> Magnitude(d.primary[i] - Value(call.node))]
           Far == [i \in DOMAIN d.full |-> Magnitude(Value(i) - Value(call.node))]
       IN  /\ Cardinality(pool) = Cardinality(ids)
           /\ \A x \in pool : x.dist = Far[x.id]
           /\ \E found \in SUBSET call.seen :
                /\ AreNearest(found, call.seen, call.window, Near)
                /\ AreNearest(ids, found \cup (call.edges \ {call.node}), call.max, Far)
  /\ Answered("reconstruct") =>
       LET fits == Cardinality(DOMAIN call.ids) = call.dst_size /\ call.dims = 1
                   /\ \A i \in DOMAIN call.ids : call.ids[i] < 3
       IN  /\ answer.value.throws <=> ~fits
           /\ \A i \in 0 .. call.dst_size - 1 :
                answer.value.dst[i] = IF fits THEN call.dataset.full[call.ids[i]] ELSE -1
=============================================================================
