---------------------------- MODULE Quantization ----------------------------
(***************************************************************************)
(* Locally adaptive vector quantization (include/svs/quantization/lvq/:    *)
(* codec.h, vectors.h, ops.h): how a vector becomes codes with a scale and *)
(* a bias, at one level or at two, and the distances that are computed     *)
(* from the codes.  A real number is an integer, in units of 1 / One where *)
(* the constants of the code matter; arithmetic of floats is exact, except *)
(* that the scale and the bias go through a Float16 as in the code.        *)
(***************************************************************************)
EXTENDS Kernels

CONSTANT SelectorBits  \* of the centroid that a vector names: 8

One == 2 ^ 20

max_s(bits) == 2 ^ bits - 1

Magnitude(x) == IF x < 0 THEN -x ELSE x

\* The nearest integer to n / d, for d > 0: halves go away from zero (std::round).
Round(n, d) == LET q == (2 * Magnitude(n) + d) \div (2 * d) IN IF n < 0 THEN -q ELSE q

Clamp(x, low, high) == MaxOf(low, MinOf(x, high))

\* A Float16 keeps 11 significant bits, ties to even.
through_scaling_type(x) ==
  LET a == Magnitude(x)
      cut == 2 ^ (CHOOSE k \in 0 .. 20 : /\ a < 2 ^ (k + 11)
                                         /\ \A j \in 0 .. k - 1 : a >= 2 ^ (j + 11))
      left == a % cut
      up == 2 * left > cut \/ (2 * left = cut /\ (a \div cut) % 2 = 1)
      y == a - left + (IF up THEN cut ELSE 0)
  IN  IF x < 0 THEN -y ELSE y

\* Mutant: it is not clamped.
Unclamped(n, d, max) == Round(n, d)

\* crunch, with the scale as 1 / d.
crunch(n, d, max) == Clamp(Round(n, d), 0, max)

\* extrema: the least and the largest element.
extrema(f, n) ==
  [min |-> f[CHOOSE i \in 0 .. n - 1 : \A j \in 0 .. n - 1 : f[i] <= f[j]],
   max |-> f[CHOOSE i \in 0 .. n - 1 : \A j \in 0 .. n - 1 : f[i] >= f[j]]]

\* MinRange: a vector that is almost constant has the scale 1.
Scale(bits, range) ==
  IF 10 * range > 734 * max_s(bits) THEN through_scaling_type(range \div max_s(bits)) ELSE One

MinRange(bits, data, n, selector) ==
  LET range == extrema(data, n)
      bias == through_scaling_type(range.min)
      decompressor == Scale(bits, range.max - range.min)
  IN  [scale |-> decompressor, bias |-> bias, selector |-> selector,
       codes |-> [i \in 0 .. n - 1 |-> crunch(data[i] - bias, decompressor, max_s(bits))]]

\* ScaledBiasedVector::get
get_primary(v, i) == v.scale * v.codes[i] + v.bias

\* ResidualEncoder: the difference to the first level, from half a step below on, in
\* steps of scale / max_s(bits); d is twice the step times max_s(bits).
ResidualEncoder(bits, v, data, n) ==
  [i \in 0 .. n - 1 |->
     crunch((2 * (data[i] - get_primary(v, i)) + v.scale) * max_s(bits), 2 * v.scale, max_s(bits))]

\* ScaledBiasedWithResidual::get, times 2 * max_s(bits).
get_combined(bits, v, residual, i) ==
  2 * max_s(bits) * get_primary(v, i) + 2 * residual[i] * v.scale - max_s(bits) * v.scale

-----------------------------------------------------------------------------
\* The code that the SIMD unpacking gives element e of a vector of n; beyond the end it
\* is zero in a Sequential vector and what the padding holds in a Turbo one.
Padding == 7

\* prepare_aux and vector of one level, and of two levels, where the code is
\* (primary << bits) - primary + residual.  `residual` is <<>> for one level.
Levels(v, bits) ==
  IF bits = 0 THEN [scale |-> v.scale, bias |-> v.bias]
  ELSE [scale |-> v.scale \div max_s(bits), bias |-> v.bias - v.scale \div 2]

unpack_as(v, bits, residual, e, n) ==
  LET primary == IF e < n THEN v.codes[e] ELSE IF v.turbo THEN Padding ELSE 0
  IN  IF bits = 0 THEN primary
      ELSE primary * 2 ^ bits - primary + (IF e < n THEN residual[e] ELSE 0)

\* apply_step: a lane of the accumulator after a step.  For L2 the converted value of a
\* masked lane is zero, as x is; for the products it need not be.
apply_step(distance, sum, x, y, aux, kept) ==
  CASE distance = "L2" -> LET converted == IF kept THEN aux.scale * y + aux.bias ELSE 0
                          IN  sum + (x - converted) * (x - converted)
    [] distance = "IP" -> sum + x * (aux.scale * y + aux.bias)
    [] distance = "FastIP" -> sum + x * y

\* finish_step, with the sum of the query where it is needed.
finish_step(distance, sum, aux, query_sum) ==
  IF distance = "FastIP" THEN aux.scale * sum + aux.bias * query_sum ELSE sum

\* A step on slice i of 16 elements, of which `kept` are read.
StepOn(distance, x, v, bits, residual, n, sum, i, kept) ==
  [l \in 0 .. 15 |->
     LET e == 16 * i + l
     IN  apply_step(distance, sum[l], IF l < kept THEN x[e] ELSE 0,
                    IF v.turbo \/ l < kept THEN unpack_as(v, bits, residual, e, n) ELSE 0,
                    Levels(v, bits), l < kept)]

\* for_each_slice: the slices go in turn to four sums of 16 lanes, which are added before
\* the tail.
for_each_slice(distance, x, v, bits, residual, n) ==
  LET Op(sum, i, kept) == StepOn(distance, x, v, bits, residual, n, sum, i, kept)
      slices == n \div 16
      sum[k \in 0 .. 3, i \in 0 .. slices] ==
        IF i = 0 THEN [l \in 0 .. 15 |-> 0]
        ELSE IF (i - 1) % 4 = k THEN Op(sum[k, i - 1], i - 1, 16) ELSE sum[k, i - 1]
      all == [l \in 0 .. 15 |-> SumOf([k \in 0 .. 3 |-> sum[k, slices][l]], 4)]
  IN  IF n % 16 = 0 THEN all ELSE Op(all, slices, n % 16)

\* compute_quantized, for both packing strategies.
compute_quantized(distance, x, v, bits, residual, n, query_sum) ==
  finish_step(distance, SumOf(for_each_slice(distance, x, v, bits, residual, n), 16),
              Levels(v, bits), query_sum)

\* decompress, with the centroid of the vector added to each element.
decompress(v, bits, residual, n, centroid) ==
  LET aux == Levels(v, bits)
  IN  [e \in 0 .. n - 1 |-> centroid[e] + aux.scale * unpack_as(v, bits, residual, e, n) + aux.bias]

-----------------------------------------------------------------------------
\* EuclideanBiased::fix_argument: the query moved by each centroid.
processed_query(query, centroids, n) ==
  [c \in DOMAIN centroids |-> [i \in 0 .. n - 1 |-> query[i] - centroids[c][i]]]

\* EuclideanBiased::compute: against the query of the vector's centroid.
euclidean_biased(query, centroids, v, bits, residual, n) ==
  compute_quantized("L2", processed_query(query, centroids, n)[v.selector], v, bits, residual, n, 0)

\* InnerProductBiased: the product with the vector's centroid is added.
inner_product_biased(query, centroids, v, bits, residual, n) ==
  compute_quantized("FastIP", query, v, bits, residual, n, SumOf(query, n))
    + generic("product", query, centroids[v.selector], n)

biased(distance, query, centroids, v, bits, residual, n) ==
  IF distance = "L2" THEN euclidean_biased(query, centroids, v, bits, residual, n)
  ELSE inner_product_biased(query, centroids, v, bits, residual, n)

\* DecompressionAdaptor: the left argument is decompressed and takes the query's place.
between(distance, left, right, bits, residuals, centroids, n) ==
  biased(distance, decompress(left, bits, residuals[1], n, centroids[left.selector]),
         centroids, right, bits, residuals[2], n)

-----------------------------------------------------------------------------
(***************************************************************************)
(* Datasets of compressed vectors (include/svs/quantization/lvq/lvq.h and  *)
(* ops.h, include/svs/core/kmeans.h): compressing a whole dataset around   *)
(* its mean, inserting a vector around the nearest of several centroids,   *)
(* and resizing.  A dataset of vectors is a function on 0 .. size - 1; a   *)
(* compressed one is a record of its two levels and its centroids.  The    *)
(* residual of a dataset of one level is the empty tuple.                  *)
(***************************************************************************)

Size(data) == Cardinality(DOMAIN data)

\* utils::compute_medioid: the mean of each component.
means(data, n) == [j \in 0 .. n - 1 |-> SumOf([i \in DOMAIN data |-> data[i][j]], Size(data)) \div Size(data)]

\* static_cast to the element type of the dataset that is compressed.
as_element(type, x) == IF type = "Float16" THEN through_scaling_type(x) ELSE x

\* ScaleShift, with the scale 1 and the negative means of VectorBias.
ScaleShift(type, datum, shift) == [j \in DOMAIN datum |-> as_element(type, datum[j] + shift[j])]

\* find_nearest: the first of the nearest.
find_nearest(datum, centroids, n) ==
  LET Far(k) == generic("difference", datum, centroids[k], n)
  IN  CHOOSE k \in DOMAIN centroids :
        \A j \in DOMAIN centroids : Far(k) < Far(j) \/ (Far(k) = Far(j) /\ k <= j)

-----------------------------------------------------------------------------
\* generic_compress: each datum through the map, and through the codec.
generic_compress(bits, map, n) == [i \in DOMAIN map |-> MinRange(bits, map[i], n, 0)]

\* generic_compress_residual: the same map again, and what the first level leaves of it.
generic_compress_residual(residual, primary, map, n) ==
  [i \in DOMAIN map |-> ResidualEncoder(residual, primary[i], map[i], n)]

\* VectorBias: the vectors without their mean.
VectorBias(type, data, n) ==
  [i \in DOMAIN data |-> ScaleShift(type, data[i], [j \in 0 .. n - 1 |-> -means(data, n)[j]])]

\* LVQDataset::compress with one level, and one centroid.
compress_one(bits, type, data, n) ==
  [primary |-> generic_compress(bits, VectorBias(type, data, n), n),
   residual |-> [i \in DOMAIN data |-> <<>>],
   centroids |-> [k \in {0} |-> means(data, n)]]

\* With two levels.
compress(bits, residual, type, data, n) ==
  LET dataset == compress_one(bits, type, data, n)
  IN  IF residual = 0 THEN dataset
      ELSE [dataset EXCEPT !.residual =
              generic_compress_residual(residual, dataset.primary, VectorBias(type, data, n), n)]

\* The datum without a centroid.
WithoutCentroid(dataset, datum, centroid_selector) ==
  [j \in DOMAIN datum |-> datum[j] - dataset.centroids[centroid_selector][j]]

\* set_datum with a centroid, one level.
set_datum_one(bits, dataset, i, datum, n, centroid_selector) ==
  [dataset EXCEPT !.primary[i] = MinRange(bits, WithoutCentroid(dataset, datum, centroid_selector), n,
                                          centroid_selector % 2 ^ SelectorBits)]

\* Two levels.  Both encode what is left of the datum.
set_datum_at(bits, residual, dataset, i, datum, n, centroid_selector) ==
  LET set == set_datum_one(bits, dataset, i, datum, n, centroid_selector)
      left == WithoutCentroid(dataset, datum, centroid_selector)
  IN  [set EXCEPT !.residual[i] =
         IF residual = 0 THEN <<>> ELSE ResidualEncoder(residual, set.primary[i], left, n)]

\* set_datum
set_datum(bits, residual, dataset, i, datum, n) ==
  set_datum_at(bits, residual, dataset, i, datum, n, find_nearest(datum, dataset.centroids, n))

\* reproducibility_set_centroids: what is stored is not encoded again.
set_centroids(dataset, centroids) == [dataset EXCEPT !.centroids = centroids]

\* resize: both levels; new vectors are as they are allocated.
resize(dataset, size, fresh) ==
  LET Resized(level, x) == [i \in 0 .. size - 1 |-> IF i \in DOMAIN level THEN level[i] ELSE x]
  IN  [dataset EXCEPT !.primary = Resized(@, fresh), !.residual = Resized(@, <<>>)]
=============================================================================
