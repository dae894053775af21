-------------------------- MODULE ReferenceDataset --------------------------
(***************************************************************************)
(* ReferenceDataset (include/svs/misc/dynamic_helper.h), and the benchmark *)
(* and the tests that put a dynamic index through additions and deletions  *)
(* with it (benchmark/include/svs-benchmark/build.h).  The data is divided *)
(* into buckets of consecutive ids, each with the nearest of its ids for   *)
(* every query; buckets go into the index and come back, and what a search *)
(* should find is merged from the rows of the buckets that are in it.      *)
(* There is one query: rows of different queries have nothing in common.   *)
(***************************************************************************)
EXTENDS Flat
LOCAL INSTANCE TLC

VARIABLES setup,     \* the data, the parameters and the schedule
          reserve,   \* reserve_buckets_
          resident,  \* buckets_in_dataset_
          valid,     \* valid_
          external,  \* external_ids of the index
          op,        \* what the loop does next; "failed" and "done" are its ends
          iteration, \* of the loop
          report     \* of the last measurement

workload_vars == <<setup, reserve, resident, valid, external, op, iteration, report>>

Closer(x, y) == x.distance < y.distance

\* lib::bounded_merge: the first n of two ordered rows; of equals that of the second.
bounded_merge(first, second, n) ==
  LET used[d \in 0 .. n] ==  \* of the first row, in d places
        IF d = 0 THEN 0
        ELSE LET i == used[d - 1] + 1
                 j == d - used[d - 1]
             IN  IF i <= Len(first) /\ (j > Len(second) \/ Closer(first[i], second[j])) THEN i ELSE i - 1
  IN  [d \in 1 .. n |-> IF used[d] > used[d - 1] THEN first[used[d]] ELSE second[d - used[d]]]

\* parent_id of a view that begins at start.  The sentinel is the largest size_t, so that
\* it wraps around.
parent_id(start, i) == IF i = Sentinel THEN (IF start = 0 THEN Sentinel ELSE start - 1) ELSE start + i

\* The row of a bucket: a flat search in a view of its data, with the ids of the data.
BucketRow(s, start, stop) ==
  LET row == search([size |-> stop - start, distance |-> [i \in 0 .. stop - start - 1 |-> s.distance[start + i]],
                     passes |-> 0 .. stop - start - 1, num_neighbors |-> s.num_neighbors, data_batch |-> 0,
                     queries |-> 1, query_batch |-> 0, threads |-> 1], 0)
  IN  [j \in DOMAIN row |-> [id |-> parent_id(start, row[j].id), distance |-> row[j].distance]]

\* The constructor
Buckets(s) ==
  [b \in 1 .. div_round_up(s.size, s.bucket_size) |->
     LET start == (b - 1) * s.bucket_size
         stop  == MinOf(start + s.bucket_size, s.size)
     IN  [ids |-> UnitRange(start, stop), groundtruth |-> BucketRow(s, start, stop)]]

IdsOf(buckets) == UNION {buckets[b].ids : b \in DOMAIN buckets}

\* All orders of a sequence, for a random one.
Shuffled(s) == {[i \in DOMAIN s |-> s[p[i]]] : p \in Permutations(DOMAIN s)}

\* The points of the last n buckets
PointsOf(buckets, n) == Cardinality(IdsOf(SubSeq(buckets, Len(buckets) - n + 1, Len(buckets))))

\* get_num_points: of as many buckets, from the back, as have no more than max_points.
get_num_points(buckets, max_points) ==
  PointsOf(buckets, CHOOSE n \in 0 .. Len(buckets) :
                      /\ PointsOf(buckets, n) <= max_points
                      /\ n = Len(buckets) \/ PointsOf(buckets, n + 1) > max_points)

\* groundtruth: the row of sentinels, merged with that of one bucket after the other.
groundtruth(buckets) ==
  LET k == setup.num_neighbors
      merged[b \in 0 .. Len(buckets)] ==
        IF b = 0 THEN prepare(k) ELSE bounded_merge(merged[b - 1], buckets[b].groundtruth, k)
  IN  merged[Len(buckets)]

-----------------------------------------------------------------------------
\* The nearest of what a search of the index has seen, and sentinels.
Found(seen) ==
  LET nearest == search([size |-> setup.size, distance |-> setup.distance, passes |-> seen,
                         num_neighbors |-> setup.num_neighbors, data_batch |-> 0, queries |-> 1,
                         query_batch |-> 0, threads |-> 1], 0)
  IN  [j \in DOMAIN nearest |-> nearest[j].id]

\* measure_state after an operation: what should be found, and the recall of what a search
\* of the index finds, which may miss a point.  check_ids and check_equal_ids throw if the
\* index has other points than it should.
Measure(kind, buckets, should, has) ==
  LET truth == groundtruth(buckets)
      Ids(row) == <<[j \in DOMAIN row |-> row[j].id]>>
  IN  \E missed \in {{}} \cup {{x} : x \in has} :
        LET results == Found(has \ missed)
        IN  report' = [kind |-> kind, groundtruth |-> truth, missed |-> missed,
                       unknown |-> {results[j] : j \in DOMAIN results} \ (should \cup {Sentinel}),
                       equal |-> has = should,
                       recall |-> k_recall_at_n(Ids(truth), <<results>>, setup.num_neighbors, setup.num_neighbors)]

\* An exception: of the helper, or of the index.
Stop(how) == op' = how /\ UNCHANGED <<setup, reserve, resident, valid, external, iteration, report>>

\* The last n buckets in the order they are moved in.
Moved(from, n) == [i \in 1 .. n |-> from[Len(from) - i + 1]]

\* generate, which takes buckets as long as they fit, and add_points of the index, which
\* refuses ids it has.
Generate(max_points, kind, then) ==
  \E order \in Shuffled(reserve) :
    LET num_points == get_num_points(order, MinOf(max_points, setup.size - Cardinality(valid)))
        n == CHOOSE n \in 0 .. Len(order) : /\ PointsOf(order, n) <= num_points
                                            /\ n = Len(order) \/ PointsOf(order, n + 1) > num_points
        moved == Moved(order, n)
        new == IdsOf(moved)
    IN  IF num_points = 0 THEN Stop("failed")
        ELSE IF PointsOf(order, n) # num_points \/ new \cap external # {} THEN Stop("refused")
        ELSE /\ reserve' = SubSeq(order, 1, Len(order) - n)
             /\ resident' = resident \o moved
             /\ valid' = valid \cup new
             /\ external' = external \cup new
             /\ op' = then
             /\ Measure(kind, resident', valid', external')
             /\ UNCHANGED <<setup, iteration>>

Cleanup == (iteration + 1) % setup.cycles = 0

\* get_delete_points, which takes buckets until it has the points, and delete_entries of
\* the index, which refuses ids it does not have.
GetDelete(max_points) ==
  \E order \in Shuffled(resident) :
    LET num_points == get_num_points(order, MinOf(max_points, Cardinality(valid)))
        n == CHOOSE n \in 0 .. Len(order) : /\ n = Len(order) \/ PointsOf(order, n) >= num_points
                                            /\ n = 0 \/ PointsOf(order, n - 1) < num_points
        moved == Moved(order, n)
        old == IdsOf(moved)
    IN  IF num_points = 0 THEN Stop("failed")
        ELSE IF PointsOf(order, n) # num_points \/ ~(old \subseteq external) THEN Stop("refused")
        ELSE /\ resident' = SubSeq(order, 1, Len(order) - n)
             /\ reserve' = reserve \o moved
             /\ valid' = valid \ old
             /\ external' = external \ old
             /\ op' = IF Cleanup THEN "consolidate" ELSE "add"
             /\ iteration' = IF Cleanup THEN iteration ELSE iteration + 1
             /\ Measure("delete", resident', valid', external')
             /\ UNCHANGED setup

-----------------------------------------------------------------------------
WorkloadInit(setups) ==
  /\ setup \in setups
  /\ reserve = IF setup.bucket_size < setup.num_neighbors THEN <<>> ELSE Buckets(setup)
  /\ resident = <<>> /\ valid = {} /\ external = {} /\ report = <<>> /\ iteration = 0
  /\ op = IF setup.bucket_size < setup.num_neighbors THEN "failed" ELSE "initial"

\* initialize_dynamic
InitializeDynamic == op = "initial" /\ Generate(setup.initial, "initial", "add")

AddPoints == op = "add" /\ iteration < setup.iterations /\ Generate(setup.modify, "add", "delete")

DeletePoints == op = "delete" /\ GetDelete(setup.modify)

\* consolidate and compact of the index: its points are the same.
Consolidate ==
  /\ op = "consolidate" /\ op' = "add" /\ iteration' = iteration + 1
  /\ Measure("consolidate", resident, valid, external)
  /\ UNCHANGED <<setup, reserve, resident, valid, external>>

WorkloadDone == /\ op = "add" /\ iteration = setup.iterations /\ op' = "done"
                /\ UNCHANGED <<setup, reserve, resident, valid, external, iteration, report>>

WorkloadNext == InitializeDynamic \/ AddPoints \/ DeletePoints \/ Consolidate \/ WorkloadDone
-----------------------------------------------------------------------------
\* The helper's books agree with the index at every measurement: buckets are never lost,
\* split or in both places, the points of the resident ones are those of the index, and
\* what it says should be found are the nearest of them, in order, whatever the order
\* in which buckets came, and although a short bucket pads its row with ids of others.
\* Then a search that misses none of them has full recall.  The helper only gives up when
\* a bucket has more points than may be moved, or there is none (generate,
\* get_delete_points, groundtruth, check_equal_ids).
ReferenceAgrees ==
  /\ op # "refused"
  /\ report # <<>> =>
       LET all == reserve \o resident
           truth == report.groundtruth
           real == MinOf(setup.num_neighbors, Cardinality(valid))
           found == {truth[j].id : j \in 1 .. real}
       IN  /\ IdsOf(all) = 0 .. setup.size - 1 /\ IdsOf(resident) = valid /\ report.equal
           /\ \A a, b \in DOMAIN all : a # b => all[a].ids \cap all[b].ids = {}
           /\ report.unknown = {}
           /\ found \subseteq valid /\ Cardinality(found) = real
           /\ \A j \in 1 .. real : truth[j].distance = setup.distance[truth[j].id]
           /\ \A j \in 1 .. Len(truth) - 1 : truth[j].distance <= truth[j + 1].distance
           /\ \A j \in 1 .. Len(truth) : j > real => truth[j].distance = Sentinel
           /\ \A x \in valid \ found, y \in found : setup.distance[x] >= setup.distance[y]
           /\ report.missed \cap found = {} /\ real = setup.num_neighbors
                /\ (\A x, y \in valid : x # y => setup.distance[x] # setup.distance[y])
                => report.recall.count = report.recall.of
  /\ op = "failed" =>
       \/ setup.bucket_size < setup.num_neighbors \/ Len(reserve) = 0
       \/ \E b \in DOMAIN (reserve \o resident) :
            Cardinality((reserve \o resident)[b].ids) > (IF report = <<>> THEN setup.initial ELSE setup.modify)
=============================================================================
