-------------------------------- MODULE Flat --------------------------------
(***************************************************************************)
(* FlatIndex::search (include/svs/index/flat/flat.h): exhaustive search.   *)
(* The data is taken in batches; within a batch the pool takes pieces of   *)
(* the queries from a DynamicPartition; every datum of the batch that      *)
(* passes the predicate is inserted for every query of the piece.  A row   *)
(* of the BulkInserter (inserters.h) is the sequence of the k best so far, *)
(* from near to far, which is what its heap is sorted to by cleanup.       *)
(***************************************************************************)
EXTENDS Partition, Sequences, FiniteSets

CONSTANT Refused  \* the result of a call that throws

\* The sentinel is farther than every datum.
CONSTANT Sentinel

Farther(x, y) == x.distance > y.distance

\* HeapInserter::insert.  Of equals that are worst any may go: here the last.
Position(row, x) == CHOOSE i \in 1 .. Len(row) :
                      /\ Farther(row[i], x) \/ i = Len(row)
                      /\ \A j \in 1 .. i - 1 : ~Farther(row[j], x)

InsertNeighbor(row, x) ==
  IF Farther(x, row[Len(row)]) THEN row
  ELSE LET at == Position(row, x)
       IN  [i \in DOMAIN row |-> IF i < at THEN row[i] ELSE IF i = at THEN x ELSE row[i - 1]]

\* BulkInserter::prepare
prepare(k) == [i \in 1 .. k |-> [id |-> Sentinel, distance |-> Sentinel]]

DefaultDataBatch == 100000

\* A batch size of zero asks for the default.
compute_data_batch_size(size, n) == IF size = 0 THEN DefaultDataBatch ELSE MinOf(size, n)

\* Mutant: the share of a thread is rounded down.
BatchRoundedDown(size, num_queries, threads) ==
  IF size = 0 THEN num_queries \div threads ELSE MinOf(size, num_queries)

\* A batch size of zero divides the queries evenly over the threads.
compute_query_batch_size(size, num_queries, threads) ==
  IF size = 0 THEN div_round_up(num_queries, threads) ELSE MinOf(size, num_queries)

\* The pieces that search_subset hands out and that have query q in them.
Visits(call, q) ==
  LET size == compute_query_batch_size(call.query_batch, call.queries, call.threads)
  IN  {j \in 0 .. call.queries :
         /\ \A i \in 0 .. j : ~DynamicDone(call.queries, size, i)
         /\ q \in DynamicPiece(call.queries, size, j)}

\* search_patch: the data of a batch, in their order, for one query.
search_patch(call, batch, row) ==
  LET after[i \in Nat] ==
        IF i = 0 THEN row
        ELSE IF i - 1 \in batch /\ i - 1 \in call.passes
             THEN InsertNeighbor(after[i - 1], [id |-> i - 1, distance |-> call.distance[i - 1]])
             ELSE after[i - 1]
  IN  after[call.size]

\* The row of query q when all batches are done.  A query no piece contains keeps
\* the row it has.
search(call, q) ==
  LET size == compute_data_batch_size(call.data_batch, call.size)
      after[b \in Nat] ==
        IF b = 0 THEN prepare(call.num_neighbors)
        ELSE IF DynamicDone(call.size, size, b - 1) \/ Visits(call, q) = {} THEN after[b - 1]
             ELSE search_patch(call, DynamicPiece(call.size, size, b - 1), after[b - 1])
  IN  after[call.size]

-----------------------------------------------------------------------------
(***************************************************************************)
(* How results are measured: k_recall_at_n (include/svs/core/recall.h),    *)
(* views of some of the data (core/data/view.h), and the benchmark's       *)
(* queries, which are split into a set to tune with and a set to test with *)
(* (benchmark/include/svs-benchmark/search.h).  Rows of ids are sequences. *)
(***************************************************************************)

FirstOf(row, k) == {row[j] : j \in 1 .. k}

\* Each value counts once, as often as it may be there.
count_intersect(left, right) == Cardinality(left \cap right)

\* The share of the first k of the groundtruth that is among the first n results, over all
\* queries.  Zero asks for as many as there are results, for k too.
k_recall_at_n(groundtruth, results, neighbors, taken) ==
  LET columns == Len(results[1])
      k == IF neighbors = 0 THEN columns ELSE neighbors
      n == IF taken = 0 THEN columns ELSE taken
      common[i \in 0 .. Len(groundtruth)] ==
        IF i = 0 THEN 0 ELSE common[i - 1] + count_intersect(FirstOf(groundtruth[i], k), FirstOf(results[i], n))
  IN  IF Len(groundtruth) # Len(results) \/ k > n \/ k > Len(groundtruth[1]) \/ n > columns THEN Refused
      ELSE [count |-> common[Len(groundtruth)], of |-> k * Len(groundtruth)]

-----------------------------------------------------------------------------
\* check_indices for the range start .. stop - 1: the last index is stop - 1 as a size_t,
\* so that a range that ends at 0 is refused.
InRange(start, stop, size) == stop # 0 /\ stop - 1 < size

\* The data that a view over a range has, in their order.
make_view(data, start, stop) == IF InRange(start, stop, Len(data)) THEN SubSeq(data, start + 1, stop) ELSE Refused

\* QuerySet: the first queries are for training, the others for the test.
QuerySet(queries, groundtruth, training) ==
  LET first(data) == make_view(data, 0, training)
      rest(data)  == make_view(data, training, Len(queries))
  IN  IF training >= Len(queries) \/ first(queries) = Refused THEN Refused
      ELSE [training |-> [queries |-> first(queries), groundtruth |-> first(groundtruth)],
            test |-> [queries |-> rest(queries), groundtruth |-> rest(groundtruth)]]
=============================================================================
