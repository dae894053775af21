----------------------------- MODULE Extensions -----------------------------
(***************************************************************************)
(* What a graph index does differently for each kind of dataset: searching *)
(* a batch of queries on several threads with reranking, the candidates of *)
(* a node that is built, and reconstructing vectors                        *)
(* (include/svs/index/vamana/extensions.h and index.h,                     *)
(* include/svs/extensions/vamana/lvq.h and leanvec.h).  Vectors are        *)
(* integers.  A dataset is [kind, primary, full], its kind "plain",        *)
(* "one_level", "two_level" or "leanvec"; a query is [full, reduced].      *)
(* What a graph search sees is given: a set of ids for each query.         *)
(***************************************************************************)
EXTENDS SearchBuffer, Partition

\* What an accessor gives for vector i.
Access(dataset, accessor, i) ==
  IF \/ accessor = "secondary"
     \/ accessor = "get_datum" /\ dataset.kind # "leanvec"
  THEN dataset.full[i] ELSE dataset.primary[i]

\* A distance functor.  Those adapted to compressed data compute with the query that
\* was fixed last, whatever query they are called with.
Adapted(kind) == [fixes |-> kind # "plain", fixed |-> 0]

maybe_fix_argument(distance, query) ==
  IF distance.fixes THEN [distance EXCEPT !.fixed = query] ELSE distance

compute_distance(distance, query, x) ==
  LET left == IF distance.fixes THEN distance.fixed ELSE query
  IN  IF left < x THEN x - left ELSE left - x

NeighborAt(i, d) == [id |-> i, dist |-> d, visited |-> FALSE, valid |-> TRUE]

\* A scratch space: single_search_setup, or the tuple of LeanVec's.
Scratch(kind, window) ==
  [buffer |-> SearchBuffer(window, window), distance |-> Adapted(kind), secondary |-> Adapted(kind)]

\* greedy_search_closure: the argument is fixed, the buffer is cleared, and the distance of
\* each vector that is seen is offered to it.
graph_search(dataset, accessor, s, query, seen) ==
  LET distance == maybe_fix_argument(s.distance, query)
      offered[i \in 0 .. Cardinality(DOMAIN dataset.full)] ==
        IF i = 0 THEN clear(s.buffer)
        ELSE IF i - 1 \in seen
             THEN insert(offered[i - 1],
                         NeighborAt(i - 1, compute_distance(distance, query, Access(dataset, accessor, i - 1))))
             ELSE offered[i - 1]
  IN  [s EXCEPT !.distance = distance, !.buffer = offered[Cardinality(DOMAIN dataset.full)]]

\* The distances of the candidates are computed again, with all there is of the vectors,
\* and the buffer is sorted.
reranked(dataset, accessor, buffer, distance, query) ==
  sort([buffer EXCEPT !.cand =
          [j \in DOMAIN @ |->
             IF j >= buffer.size THEN @[j]
             ELSE NeighborAt(@[j].id, compute_distance(distance, query, Access(dataset, accessor, @[j].id)))]])

\* single_search
single_search(dataset, s, query, seen) ==
  IF dataset.kind = "two_level"
  THEN LET t == graph_search(dataset, "primary", s, query, seen)
       IN  [t EXCEPT !.buffer = reranked(dataset, "get_datum", @, t.distance, query)]
  ELSE graph_search(dataset, "get_datum", s, query, seen)

\* Mutant: the second distance keeps the query of the search before.
SecondaryUnfixed(dataset, s, query, processed_query, seen) ==
  LET t == graph_search(dataset, "get_datum", s, processed_query, seen)
  IN  [t EXCEPT !.buffer = reranked(dataset, "secondary", @, t.secondary, query),
                !.secondary = maybe_fix_argument(@, query)]

\* One query of LeanVec's per_thread_batch_search: the reduced query for the graph search
\* and the query itself, with a functor of its own, for the reranking.
leanvec_search(dataset, s, query, processed_query, seen) ==
  LET t == graph_search(dataset, "get_datum", s, processed_query, seen)
      secondary == maybe_fix_argument(t.secondary, query)
  IN  [t EXCEPT !.secondary = secondary,
                !.buffer = reranked(dataset, "secondary", @, secondary, query)]

\* preprocess_queries of a thread's share: queries first .. last are 0 .. last - first.
preprocessed(queries, first, last) == [r \in 0 .. last - first |-> queries[first + r].reduced]

\* per_thread_batch_search: the share first .. last, one after the other on one scratch
\* space.  The rows of the result that are not of the share stay as they are.
per_thread_batch_search(call, s, first, last, result) ==
  LET dataset == call.dataset
      processed == preprocessed(call.queries, first, last)
      after[i \in first - 1 .. last] ==
        IF i < first THEN [s |-> s, result |-> result]
        ELSE LET before == after[i - 1]
                 query == call.queries[i].full
                 t == IF dataset.kind = "leanvec"
                      THEN leanvec_search(dataset, before.s, query, processed[i - first], call.seen[i])
                      ELSE single_search(dataset, before.s, query, call.seen[i])
             IN  [s |-> t,
                  result |-> [before.result EXCEPT
                                ![i] = [j \in 0 .. call.num_neighbors - 1 |-> t.buffer.cand[j]]]]
  IN  after[last].result

\* VamanaIndex::search: a share and a scratch space for each thread.  The capacity grows if
\* it is below the number of neighbors.
batch_search(call, result) ==
  LET size == Cardinality(DOMAIN call.queries)
      Share(t) == balance(size, call.threads, t)
      Least(S) == CHOOSE i \in S : \A j \in S : i <= j
      s == Scratch(call.dataset.kind, call.window)
      legal == IF s.buffer.capacity < call.num_neighbors
               THEN [s EXCEPT !.buffer = change_maxsize(@, call.num_neighbors, call.num_neighbors)]
               ELSE s
      after[t \in 0 .. call.threads] ==
        IF t = 0 THEN result
        ELSE IF Share(t - 1) = {} THEN after[t - 1]
        ELSE LET first == Least(Share(t - 1))
             IN  per_thread_batch_search(call, legal, first, first + Cardinality(Share(t - 1)) - 1, after[t - 1])
  IN  after[call.threads]

-----------------------------------------------------------------------------
\* The adaptor of a build: with two levels the search goes by the primary vectors, and what
\* it finds is given its distance anew.
graph_search_accessor(kind) == IF kind = "two_level" THEN "primary" ELSE "get_datum"

post_search_modify(dataset, distance, query, n) ==
  [id |-> n.id,
   dist |-> IF dataset.kind = "two_level"
            THEN compute_distance(distance, query, Access(dataset, "get_datum", n.id)) ELSE n.dist]

\* The candidates of a node in generate_neighbors: what a search for it finds, as a set, and
\* the neighbors it already has.
candidate_pool(dataset, node, window, seen, edges, max_candidate_pool_size) ==
  LET accessor == graph_search_accessor(dataset.kind)
      query == Access(dataset, "get_datum", node)
      s == graph_search(dataset, accessor, Scratch(dataset.kind, window), query, seen)
      found == {s.buffer.cand[j] : j \in 0 .. s.buffer.size - 1}
      pool == {post_search_modify(dataset, s.distance, query, n) : n \in found}
              \cup {[id |-> i, dist |-> compute_distance(s.distance, query, Access(dataset, "get_datum", i))]
                    : i \in edges \ {n.id : n \in found}}
      Before(x, y) == x.dist < y.dist \/ (x.dist = y.dist /\ x.id < y.id)
  IN  {x \in pool : Cardinality({y \in pool : Before(y, x)}) < max_candidate_pool_size}

\* VamanaIndex::reconstruct_at: what is wrong is refused before anything is written.
reconstruct_at(dataset, dst, dst_dims, dims, ids, threads) ==
  LET size == Cardinality(DOMAIN ids)
      accessor == IF dataset.kind = "leanvec" THEN "secondary" ELSE "get_datum"
  IN  IF \/ size # Cardinality(DOMAIN dst)
         \/ dst_dims # dims
         \/ \E i \in DOMAIN ids : ids[i] \notin DOMAIN dataset.full
      THEN [throws |-> TRUE, dst |-> dst]
      ELSE [throws |-> FALSE,
            dst |-> [i \in DOMAIN dst |->
                       IF \E t \in 0 .. threads - 1 : i \in balance(size, threads, t)
                       THEN Access(dataset, accessor, ids[i]) ELSE dst[i]]]
=============================================================================
