----------------------------- MODULE GreedySearch -----------------------------
(***************************************************************************)
(* One thread of a search: it answers its share of a batch of queries, one *)
(* after the other, with one search buffer                                 *)
(* (include/svs/index/vamana/greedy_search.h, extensions.h, index.h and    *)
(* dynamic_index.h).  The graph, the deleted slots and the parameters do   *)
(* not change while a batch is searched; `index` holds them.  A query is   *)
(* the distance of every node to it.                                       *)
(***************************************************************************)
EXTENDS Integers, Sequences, FiniteSets

CONSTANTS Indexes,         \* what may be searched, and how: the values of `index`
          Queries,         \* the distances the first query of a thread may have
          LaterQueries,    \* the distances a later query may have
          MaxQueries,      \* bound on the queries of a thread
          Slots,           \* number of slots of the visited filter, 2^N
          Uppers,          \* number of values of the high bits, sentinel included
          CounterLimit,    \* 2^16
          Entry,           \* the entry point
          Missing          \* stands for what lies past the end of a vector

ASSUME SizesAssumption == {Slots, Uppers, CounterLimit} \subseteq Nat \ {0} /\ MaxQueries \in Nat

ASSUME SearchAssumption ==
  \A x \in Indexes :
    /\ x.kind \in {"static", "dynamic"} /\ x.filtered \in BOOLEAN
    /\ \E n \in 1 .. Slots * (Uppers - 1) : DOMAIN x.graph = 0 .. n - 1
    /\ \A n \in DOMAIN x.graph : x.graph[n] \in Seq(DOMAIN x.graph)
    /\ Entry \in DOMAIN x.graph /\ x.deleted \subseteq DOMAIN x.graph
    /\ x.capacity \in Nat /\ x.window \in 1 .. x.capacity /\ x.k \in Nat \ {0}
    /\ x.kind = "static" => x.deleted = {}
    /\ x.kind = "dynamic" => ~x.filtered
    /\ Queries \cup LaterQueries \subseteq [DOMAIN x.graph -> Nat]

VARIABLES index,     \* [kind, graph, deleted, window, capacity, k, filtered]
          dist,      \* distance of every node to the query
          buffer,    \* the thread's search buffer
          filter,    \* the buffer's visited filter
          seen,      \* history: the nodes met by this search, in order
          pending,   \* the neighbors still to be visited in this round
          expanded,  \* history: the nodes whose lists were read
          results,   \* the row of the result, once it is copied
          asked      \* number of queries so far

vars == <<index, dist, buffer, filter, seen, pending, expanded, results, asked>>

\* A neighbor as the vector's constructor leaves it.
Blank == [id |-> 0, dist |-> 0, visited |-> FALSE, valid |-> TRUE]

Flat == INSTANCE SearchBuffer
Dyn == INSTANCE MutableBuffer

Static == index.kind = "static"

\* The direct-mapped filter of visited ids (filter.h): the low bits of an id choose a slot,
\* the slot remembers the high bits of the last id put there.
sentinel == Uppers - 1

hash(id) == id % Slots

value(id) == id \div Slots

VisitedFilter == [slot \in 0 .. Slots - 1 |-> sentinel]

check(id) == filter[hash(id)] = value(id)

\* The filter after emplace(id); emplace returns check(id).
emplace(id) == [filter EXCEPT ![hash(id)] = value(id)]

\* The window of the search, after an enlargement.
Window == IF Static THEN buffer.window ELSE buffer.target

Capacity == buffer.capacity

Promise == INSTANCE BestFirst
             WITH index <- [graph |-> index.graph, deleted |-> index.deleted,
                            window |-> Window, k |-> index.k]

\* NeighborBuilder and ValidBuilder.
Neighbor(id, d) ==
  [id |-> id, dist |-> d[id], visited |-> FALSE, valid |-> id \notin index.deleted]

\* A buffer of the search parameters, enlarged when more neighbors are asked for.
NewBuffer(x) ==
  IF x.kind = "static"
  THEN LET b == Flat!SearchBuffer(x.window, x.capacity)
       IN  IF b.capacity < x.k THEN Flat!change_maxsize(b, x.k, x.k) ELSE b
  ELSE LET b == Dyn!MutableBuffer(x.window, x.capacity)
       IN  IF b.capacity < x.k THEN Dyn!change_maxsize(b, x.k, x.k) ELSE b

\* clear, the entry points, sort.
Prepare ==
  /\ buffer' = IF Static THEN Flat!sort(Flat!push_back(Flat!clear(buffer), Neighbor(Entry, dist')))
               ELSE Dyn!sort(Dyn!push_back(Dyn!clear(buffer), Neighbor(Entry, dist')))
  /\ filter' = VisitedFilter

\* The next query of the batch.
Ask ==
  /\ results # <<>> \/ seen = <<>>
  /\ asked < MaxQueries
  /\ dist' \in IF asked = 0 THEN Queries ELSE LaterQueries
  /\ Prepare
  /\ seen' = <<Entry>> /\ pending' = <<>> /\ expanded' = {} /\ results' = <<>>
  /\ asked' = asked + 1
  /\ UNCHANGED index

Done == IF Static THEN Flat!done(buffer) ELSE Dyn!done(buffer)

\* The node next() returns.
Best == IF Static THEN buffer.cand[buffer.best].id ELSE Dyn!At(buffer.cand, buffer.best).id

\* next() and get_node: the beginning of a round.
Expand ==
  /\ seen # <<>> /\ results = <<>> /\ pending = <<>> /\ ~Done
  /\ pending' = index.graph[Best]
  /\ buffer' = IF Static THEN Flat!next(buffer) ELSE Dyn!next(buffer)
  /\ expanded' = expanded \cup {Best}
  /\ UNCHANGED <<index, dist, filter, seen, results, asked>>

Emplaced(id) == index.filtered /\ check(id)

\* The next neighbor of the node: skipped when the filter knows it, else inserted.
Visit ==
  /\ pending # <<>>
  /\ LET id == Head(pending)
     IN  /\ filter' = IF index.filtered THEN emplace(id) ELSE filter
         /\ buffer' = CASE Emplaced(id) -> buffer
                        [] Static /\ ~Emplaced(id) -> Flat!insert(buffer, Neighbor(id, dist))
                        [] OTHER -> Dyn!insert(buffer, Neighbor(id, dist))
         /\ seen' = IF id \in Promise!Seen THEN seen ELSE Append(seen, id)
  /\ pending' = Tail(pending)
  /\ UNCHANGED <<index, dist, expanded, results, asked>>

\* Mutant: the results are copied before the deleted neighbors are removed.
CopyFirst(b) == b

\* cleanup() of a dynamic search.
Cleaned(b) == IF Static THEN b ELSE Dyn!cleanup(b)

\* The row: search_buffer[j] for every j below the number of neighbors asked for.
Copied(b) ==
  [j \in 1 .. index.k |->
     IF Static THEN b.cand[j - 1].id
     ELSE IF j <= Len(b.cand) THEN b.cand[j].id ELSE Missing]

Return ==
  /\ seen # <<>> /\ results = <<>> /\ pending = <<>> /\ Done
  /\ buffer' = Cleaned(buffer)
  /\ results' = Copied(buffer')
  /\ UNCHANGED <<index, dist, filter, seen, pending, expanded, asked>>

Init ==
  /\ index \in Indexes
  /\ dist = [x \in DOMAIN index.graph |-> 0]
  /\ buffer = NewBuffer(index)
  /\ filter = VisitedFilter
  /\ seen = <<>> /\ pending = <<>> /\ expanded = {} /\ results = <<>> /\ asked = 0

Next == Ask \/ Expand \/ Visit \/ Return

Spec == Init /\ [][Next]_vars /\ WF_vars(Expand \/ Visit \/ Return)

-----------------------------------------------------------------------------
Searching == seen # <<>> /\ results = <<>>

Held == IF Static THEN [i \in 1 .. buffer.size |-> buffer.cand[i - 1]] ELSE buffer.cand

Ids == {Held[i].id : i \in DOMAIN Held}

TypeOK ==
  /\ dist \in [DOMAIN index.graph -> Nat]
  /\ Promise!Seen \subseteq DOMAIN index.graph /\ expanded \subseteq Promise!Seen
  /\ Len(Held) <= IF Static THEN Capacity ELSE CounterLimit
  /\ filter \in [0 .. Slots - 1 -> 0 .. Uppers - 1]
  /\ asked \in 0 .. MaxQueries

\* The buffer holds the nearest of all nodes met so far, in their order, with nothing
\* missing and nothing twice, however often a node was met, dropped and met again, and
\* whether or not the visited filter is used: "Visited set use does not affect
\* accuracy" (search_buffer.h).  It marks exactly the expanded ones.
BufferHoldsNearest ==
  Searching =>
    /\ Ids = Promise!NearestOf(Capacity)
    /\ \A i, j \in DOMAIN Held : i < j => Promise!Nearer(Held[i].id, Held[j].id)
    /\ \A i \in DOMAIN Held :
         LET n == Held[i] IN n.dist = dist[n.id] /\ (n.visited <=> n.id \in expanded)

\* The invariants 2 to 7 of dynamic_search_buffer.h: the counters of the dynamic
\* buffer, which are patched insertion by insertion, agree with its contents,
\* and the search goes on with the nearest node that is not yet expanded.
CountersAgree ==
  Searching =>
    /\ Static \/ buffer.valid = Cardinality(Ids \ index.deleted)
    /\ LET ends == Cardinality(Promise!Region)
       IN  /\ Static \/ buffer.roi = ends
           /\ buffer.best <= ends
           /\ \A i \in 1 .. buffer.best : Held[i].visited
           /\ buffer.best < ends => ~Held[buffer.best + 1].visited

\* The filter skips only nodes that were met in this search: it is "allowed to
\* spuriously return false", never true.
FilterIsSafe ==
  Searching => \A x \in DOMAIN index.graph : check(x) => x \in Promise!Seen

\* The buffer's contents and its counters, which say where the search goes on, are those
\* of the nearest candidates seen, and the filter hides none that is new.
BufferSound == TypeOK /\ BufferHoldsNearest /\ CountersAgree /\ FilterIsSafe

\* A search with buffer and filter expands the same nodes in the same order as
\* the search that remembers everything, and returns the same neighbors.
KeepsPromise == Promise!Init /\ [][Promise!Next]_(Promise!vars)

\* Every search comes to an end.
SearchEnds == Searching ~> results # <<>>

\* "WHEN valid_ < target_valid_ THEN roi_end_ == size()", invariant 5A of
\* dynamic_search_buffer.h.
RegionReachesEnd ==
  Searching /\ ~Static /\ buffer.valid < buffer.target => buffer.roi = Len(buffer.cand)

\* "All entries in ids should have valid translations" (dynamic_index.h): the
\* rows handed to translate_to_external name only nodes that are not deleted.
ResultsTranslate ==
  results # <<>> =>
    \A j \in DOMAIN results : results[j] \in DOMAIN index.graph \ index.deleted
=============================================================================
