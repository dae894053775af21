------------------------------- MODULE Medioid -------------------------------
(***************************************************************************)
(* find_medioid (include/svs/core/medioid.h): the vector nearest to the    *)
(* mean of those that satisfy the predicate, with a pool of threads.  The  *)
(* entry point of every graph index is found so.  Vectors are integers,    *)
(* and a mean is a sum and a count.  A call is                             *)
(* [data, satisfies, threads, linear_threshold, thread_batchsize].         *)
(***************************************************************************)
EXTENDS Partition, Sequences, FiniteSets

CONSTANT NoIndex  \* the sentinel's id

DataSize(call) == Cardinality(DOMAIN call.data)

Zero == [count |-> 0, sum |-> 0]

Plus(x, y) == [count |-> x.count + y.count, sum |-> x.sum + y.sum]

\* The end of the recursion: one after the other.
Linear(call, start, stop) ==
  LET upto[i \in start .. stop] ==
        IF i = start THEN Zero
        ELSE IF i - 1 \in call.satisfies
             THEN Plus(upto[i - 1], [count |-> 1, sum |-> call.data[i - 1]])
             ELSE upto[i - 1]
  IN  upto[stop]

\* The two ranges that op_pairwise recurses to.
Halves(start, stop) ==
  LET mid == (start + stop) \div 2 IN <<<<start, mid>>, <<mid, stop>>>>

\* op_pairwise of a range
Pairwise(call, first, last) ==
  LET n == DataSize(call)
      sum[r \in (0 .. n) \X (0 .. n)] ==
        IF r[2] - r[1] > call.linear_threshold
        THEN Plus(sum[Halves(r[1], r[2])[1]], sum[Halves(r[1], r[2])[2]])
        ELSE Linear(call, r[1], r[2])
  IN  sum[<<first, last>>]

\* op_pairwise with a pool: whoever takes a piece, the sums of the threads are added up.
PairwiseParallel(call) ==
  LET n == DataSize(call)
      upto[i \in 0 .. n] ==
        IF i = 0 THEN Zero
        ELSE IF DynamicDone(n, call.thread_batchsize, i - 1) THEN upto[i - 1]
        ELSE Plus(upto[i - 1], Pairwise(call, call.thread_batchsize * (i - 1),
                                        MinOf(call.thread_batchsize * i, n)))
  IN  upto[n]

Distance(x, y) == IF x < y THEN y - x ELSE x - y

\* The distance of a vector to the mean, times the count.  With a count of 0 the mean is no
\* number, and nothing is nearer than anything.
ToMean(call, mean, i) == Distance(mean.count * call.data[i], mean.sum)

\* A thread's nearest: the first of them in its share.
Closest(call, mean, ids) ==
  LET valid == ids \cap call.satisfies
  IN  IF valid = {} \/ mean.count = 0 THEN NoIndex
      ELSE CHOOSE i \in valid : \A j \in valid : \/ ToMean(call, mean, i) < ToMean(call, mean, j)
                                                 \/ ToMean(call, mean, i) = ToMean(call, mean, j) /\ i <= j

\* The nearest of the threads' nearest, the first thread's among equals.
find_medioid(call) ==
  LET mean == PairwiseParallel(call)
      Local(t) == Closest(call, mean, balance(DataSize(call), call.threads, t))
      best[t \in 0 .. call.threads] ==
        IF t = 0 THEN NoIndex
        ELSE LET b == best[t - 1]
                 x == Local(t - 1)
             IN  IF x # NoIndex /\ (b = NoIndex \/ ToMean(call, mean, x) < ToMean(call, mean, b))
                 THEN x ELSE b
  IN  best[call.threads]

-----------------------------------------------------------------------------
(***************************************************************************)
(* Minibatch k-means (include/svs/core/kmeans.h).  Vectors are points on a *)
(* line; a centroid is a fraction, as it is a weighted mean of data.  The  *)
(* pool that finds the assignments of a batch writes each of them once,    *)
(* whatever the pieces, so that a batch is one step.                       *)
(***************************************************************************)

\* |x - y| * den for a datum and a centroid: L2 is the square of it.
Off(x, c) == LET gap == x * c.den - c.num IN IF gap < 0 THEN -gap ELSE gap

\* Of equals the first: std::min keeps what it has.
find_nearest(x, centroids) ==
  CHOOSE c \in DOMAIN centroids :
    \A d \in DOMAIN centroids :
      LET here  == Off(x, centroids[c]) * centroids[d].den
          there == Off(x, centroids[d]) * centroids[c].den
      IN  here < there \/ (here = there /\ c <= d)

\* A datum moves the centroid by 1 / count of the way.
Adjusted(c, x, count) == [num |-> (count - 1) * c.num + x * c.den, den |-> count * c.den]

\* What an epoch keeps: the centroids, their counts, and the counts of this epoch.
Initial(data, picks) ==
  [centroids |-> [c \in DOMAIN picks |-> [num |-> data[picks[c]], den |-> 1]],
   counts |-> [c \in DOMAIN picks |-> 0], old_counts |-> [c \in DOMAIN picks |-> 0]]

\* The data first .. last are all assigned before any of them moves a centroid.
process_batch(data, first, last, s) ==
  LET assignment == [i \in first .. last |-> find_nearest(data[i], s.centroids)]
      after[i \in (first - 1) .. last] ==
        IF i = first - 1 THEN s
        ELSE LET before == after[i - 1]
                 c == assignment[i]
                 count == before.counts[c] + 1
             IN  [before EXCEPT !.counts[c] = count, !.old_counts[c] = @ + 1,
                                !.centroids[c] = Adjusted(@, data[i], count)]
  IN  after[last]

\* One epoch.  It ends with the counts of this epoch as the weight of its centroids.
Epoch(data, batchsize, s) ==
  LET n == Len(data)
      after[b \in 0 .. n] ==  \* batches; those beyond the last have no data
        IF b = 0 THEN s
        ELSE IF (b - 1) * batchsize >= n THEN after[b - 1]
             ELSE process_batch(data, (b - 1) * batchsize + 1,
                                IF b * batchsize < n THEN b * batchsize ELSE n, after[b - 1])
      s2 == after[n]
  IN  [s2 EXCEPT !.counts = s2.old_counts, !.old_counts = [c \in DOMAIN s2.old_counts |-> 0]]

\* train_impl: what there is after every epoch.
train_impl(data, picks, batchsize, epochs) ==
  LET after[e \in 0 .. epochs] == IF e = 0 THEN Initial(data, picks) ELSE Epoch(data, batchsize, after[e - 1])
  IN  after

\* mean_squared_error, of which only the order matters: the sum of the squares, with the
\* product of all denominators as its own.
SquaredErrors(data, centroids) ==
  LET of(i) == centroids[find_nearest(data[i], centroids)]
      Square(i) == LET c == of(i) IN [num |-> Off(data[i], c) * Off(data[i], c), den |-> c.den * c.den]
      sum[i \in 0 .. Len(data)] ==
        IF i = 0 THEN [num |-> 0, den |-> 1]
        ELSE LET a == sum[i - 1] b == Square(i)
             IN  IF a.den = b.den THEN [num |-> a.num + b.num, den |-> a.den]
                 ELSE [num |-> a.num * b.den + b.num * a.den, den |-> a.den * b.den]
  IN  sum[Len(data)]
=============================================================================
