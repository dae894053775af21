------------------------------ MODULE LeanVec ------------------------------
(***************************************************************************)
(* Datasets of reduced dimensionality (include/svs/leanvec/leanvec.h): the *)
(* vectors are multiplied by a matrix for the search and kept as they are  *)
(* for the reranking.  The matrix is given, one for data and one for       *)
(* queries, or comes from a principal component analysis, in which case    *)
(* the means are removed first.  Numbers are whole, so that an orthogonal  *)
(* matrix may be scaled; `n` and `k` are the dimensions before and after.  *)
(***************************************************************************)
EXTENDS Quantization

CONSTANT TransformBatch  \* vectors that are transformed at a time: 1,000,000

\* transform_leanvec for one vector: a row times the matrix.
transform(x, matrix, n, k) ==
  [c \in 0 .. k - 1 |-> SumOf([j \in 0 .. n - 1 |-> x[j] * matrix[j][c]], n)]

Minus(x, y) == [j \in DOMAIN x |-> x[j] - y[j]]

\* transform_queries: the means count for L2 only.  All products with x - m differ from
\* those with x by the same number.
transform_queries(distance, query, matrix, shift, n, k) ==
  transform(IF distance = "L2" THEN Minus(query, shift) ELSE query, matrix, n, k)

\* compute_leanvec_matrix: the first k columns of the matrix `v` that the decomposition of
\* the data without their means has given.
compute_leanvec_matrix(v, n, k) == [j \in 0 .. n - 1 |-> [c \in 0 .. k - 1 |-> v[j][c]]]

\* transform_batch.  The rows of the batch are used again for the next; the means are
\* removed from all of them, also from those that a last, smaller batch leaves as they
\* were.  The threads multiply their shares of the batch.
transform_batch(data, matrix, shift, is_pca, n, k, threads) ==
  LET size == Size(data)
      batch_size == MinOf(size, TransformBatch)
      Rows(batch, i, current) ==
        [r \in 0 .. batch_size - 1 |->
           LET row == IF r < current THEN data[i + r] ELSE batch[r]
           IN  IF is_pca THEN Minus(row, shift) ELSE row]
      Multiplied(batch, current, old) ==
        [r \in 0 .. batch_size - 1 |->
           IF \E tid \in 0 .. threads - 1 : r \in balance(current, threads, tid)
           THEN transform(batch[r], matrix, n, k) ELSE old[r]]
      zero == [r \in 0 .. batch_size - 1 |-> [j \in 0 .. n - 1 |-> 0]]
      after[b \in 0 .. div_round_up(size, batch_size)] ==
        IF b = 0 THEN [batch |-> zero, product |-> zero, leanvec |-> data]
        ELSE LET i == batch_size * (b - 1)
                 current == MinOf(i + batch_size, size) - i
                 rows == Rows(after[b - 1].batch, i, current)
                 product == Multiplied(rows, current, after[b - 1].product)
             IN  [batch |-> rows, product |-> product,
                  leanvec |-> [x \in DOMAIN data |->
                                 IF i <= x /\ x < i + current THEN product[x - i]
                                 ELSE after[b - 1].leanvec[x]]]
  IN  after[div_round_up(size, batch_size)].leanvec

\* LeanDataset::reduce.  `matrices` is <<>> for the analysis, whose matrix is `v`.
reduce_dataset(data, matrices, v, n, k, threads) ==
  LET is_pca == matrices = <<>>
      pca == compute_leanvec_matrix(v, n, k)
      used == IF is_pca THEN [data |-> pca, query |-> pca] ELSE matrices
  IN  [primary |-> transform_batch(data, used.data, means(data, n), is_pca, n, k, threads),
       secondary |-> data, matrices |-> used, means |-> means(data, n), is_pca |-> is_pca]

\* Mutant: the means stay in a vector that is inserted.
SetWithMeans(dataset, i, datum, n, k) ==
  [dataset EXCEPT !.primary[i] = transform(datum, dataset.matrices.data, n, k), !.secondary[i] = datum]

\* LeanDataset::set_datum
set_leanvec(dataset, i, datum, n, k) ==
  LET without == IF dataset.is_pca THEN Minus(datum, dataset.means) ELSE datum
  IN  [dataset EXCEPT !.primary[i] = transform(without, dataset.matrices.data, n, k),
                      !.secondary[i] = datum]

\* LeanDataset::preprocess_queries
preprocess_query(dataset, distance, query, n, k) ==
  IF dataset.is_pca
  THEN transform_queries(distance, query, dataset.matrices.query, dataset.means, n, k)
  ELSE transform(query, dataset.matrices.query, n, k)

\* The distances to vector i that the search and the reranking see.
primary_distance(dataset, distance, query, i, n, k) ==
  generic(IF distance = "L2" THEN "difference" ELSE "product",
          preprocess_query(dataset, distance, query, n, k), dataset.primary[i], k)

secondary_distance(dataset, distance, query, i, n) ==
  generic(IF distance = "L2" THEN "difference" ELSE "product", query, dataset.secondary[i], n)
=============================================================================
