---------------------------- MODULE InvertedIndex ----------------------------
(***************************************************************************)
(* InvertedIndex with sparse clusters                                      *)
(* (include/svs/index/inverted/memory_based.h): a graph index over the     *)
(* centroids, and the leaves of each cluster as places in one dataset.  A  *)
(* search takes the centroids that the primary index finds, from near to   *)
(* far, until one is beyond the cutoff, and all leaves of their clusters.  *)
(* Distances are those of L2 and greater than 0.                           *)
(***************************************************************************)
EXTENDS Clustering

CONSTANTS QueryDistances,     \* of a datum to the query
          RefinementEpsilon,  \* refinement_epsilon
          Window,             \* centroids that the primary search returns
          NumNeighbors,       \* asked for
          Missing             \* a neighbor nobody has written

Buffer == INSTANCE SearchBuffer WITH Blank <- Missing

VARIABLES data,    \* data_: local place -> the id whose vector is there
          ids,     \* ids_: number of a cluster -> its leaves as [local, global]
          query,   \* id -> distance to the query
          scratch, \* what is left of the centroids that the primary search found
          cutoff,  \* cutoff_distance
          buffer,  \* of the search
          visited, \* history: the clusters that were searched
          rows     \* the result: place -> neighbor

index_vars == <<data, ids, query, scratch, cutoff, buffer, visited, rows>>

vars == <<clustering_vars, index_vars>>

-----------------------------------------------------------------------------
\* sorted_centroids: the clusters are numbered in the order of their centroids' ids.
ClusterAt(n) == CHOOSE c \in Local : centroids[c] = Nth(Centroids, n)

\* The leaves of the clusters before number n, one after the other.
AllLeaves ==
  LET upto[n \in 0 .. NumCentroids] == IF n = 0 THEN <<>> ELSE upto[n - 1] \o clusters[ClusterAt(n - 1)]
  IN  upto[NumCentroids]

\* packed_leaf_translation: a leaf's place is the number of leaves met before it.
packed_leaf_translation ==
  LET all == AllLeaves
      First(l) == CHOOSE i \in DOMAIN all : all[i] = l /\ \A j \in 1 .. i - 1 : all[j] # l
  IN  [l \in {all[i] : i \in DOMAIN all} |-> Cardinality({all[j] : j \in 1 .. First(l) - 1})]

\* SparseClusteredDataset
Pack ==
  /\ phase = "clustered" /\ phase' = "packed"
  /\ LET local == packed_leaf_translation
         places == 0 .. Cardinality(DOMAIN local) - 1
     IN  /\ data' = [p \in places |-> CHOOSE l \in DOMAIN local : local[l] = p]
         /\ ids' = [n \in Local |->
                      LET leaves == clusters[ClusterAt(n)]
                      IN  [i \in DOMAIN leaves |-> [local |-> local[leaves[i]], global |-> leaves[i]]]]
  /\ UNCHANGED <<centroids, distance, start, share, work, locks, clusters, histogram, reduced, assigned,
                 query, scratch, cutoff, buffer, visited, rows>>

-----------------------------------------------------------------------------
Neighbor(id, d) == [id |-> id, dist |-> d, visited |-> FALSE, valid |-> TRUE]

\* The primary search finds centroids by their local ids.
Search ==
  /\ phase = "packed" /\ query = <<>>
  /\ query' \in [Ids -> QueryDistances]
  /\ \E found \in {S \in SUBSET Local : Cardinality(S) = Window} :
       /\ scratch' = found
       /\ cutoff' = bound_with(Least({query'[centroids[c]] : c \in found}), RefinementEpsilon)
  /\ buffer' = Buffer!SearchBuffer(NumNeighbors, NumNeighbors)
  /\ UNCHANGED <<clustering_vars, data, ids, visited, rows>>

CentroidDistance(c) == query[centroids[c]]

\* The leaves of a cluster are inserted, each with its global id.
Inserted(b, leaves) ==
  LET after[i \in 0 .. Len(leaves)] ==
        IF i = 0 THEN b
        ELSE Buffer!insert(after[i - 1], Neighbor(leaves[i].global, query[data[leaves[i].local]]))
  IN  after[Len(leaves)]

\* The nearest centroid left: its cluster, which has its number, and then the centroid.
VisitCluster(c) ==
  /\ query # <<>> /\ c \in scratch
  /\ \A d \in scratch : CentroidDistance(c) <= CentroidDistance(d)
  /\ CentroidDistance(c) < cutoff
  /\ buffer' = Buffer!insert(Inserted(buffer, ids[c]), Neighbor(centroids[c], CentroidDistance(c)))
  /\ scratch' = scratch \ {c} /\ visited' = visited \cup {c}
  /\ UNCHANGED <<clustering_vars, data, ids, query, cutoff, rows>>

\* No centroid is left, or the nearest is at the cutoff or beyond: the results are
\* copied, as many as were asked for.
Finish ==
  /\ query # <<>> /\ rows = <<>>
  /\ \A c \in scratch : ~(CentroidDistance(c) < cutoff)
  /\ rows' = [j \in 0 .. NumNeighbors - 1 |-> buffer.cand[j]]
  /\ UNCHANGED <<clustering_vars, data, ids, query, scratch, cutoff, buffer, visited>>

Init ==
  /\ ClusteringInit
  /\ data = <<>> /\ ids = <<>> /\ query = <<>> /\ scratch = {} /\ cutoff = 0
  /\ buffer = <<>> /\ visited = {} /\ rows = <<>>

Next ==
  \/ ClusteringNext /\ UNCHANGED index_vars
  \/ Pack
  \/ Search \/ Finish
  \/ \E c \in Local : VisitCluster(c)

Spec == Init /\ [][Next]_vars /\ ClusteringFairness
-----------------------------------------------------------------------------
\* The rows are the nearest of all data in the searched clusters: from near to far, with
\* the ids and the distances that they have in the dataset, nothing twice although leaves
\* are in several clusters.  The nearest centroid's cluster is always searched, and when
\* all are, the result is exact.
SearchFindsNearest ==
  rows # <<>> =>
    LET reach == UNION {Members(c) \cup {centroids[c]} : c \in visited}
        real  == MinOf(NumNeighbors, Cardinality(reach))
        found == {rows[j].id : j \in 0 .. real - 1}
    IN  /\ visited # {} /\ (visited = Local => reach = Ids)
        /\ found \subseteq reach /\ Cardinality(found) = real
        /\ \A j \in 0 .. real - 1 : rows[j].dist = query[rows[j].id]
        /\ \A j \in 1 .. real - 1 : rows[j - 1].dist <= rows[j].dist
        /\ \A x \in reach \ found, y \in found : query[x] >= query[y]
=============================================================================
