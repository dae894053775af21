----------------------------- MODULE Clustering -----------------------------
(***************************************************************************)
(* cluster_with (include/svs/index/inverted/clustering.h): every datum     *)
(* that is no centroid is put into the clusters of some of the centroids   *)
(* that a search finds for it.  The data are taken in batches; in a batch  *)
(* each thread has its share of the leaves, and a cluster is written under *)
(* the lock of its centroid.  Then clusters that are too large are         *)
(* reduced.  A search may miss centroids, but finds as many as are asked   *)
(* for: there are enough of them, and they can be reached.                 *)
(***************************************************************************)
EXTENDS Partition, Sequences, FiniteSets
LOCAL INSTANCE TLC

CONSTANTS Size,            \* of the data: ids are 0 .. Size - 1
          NumCentroids,    \* get_number_of_centroids
          PickerSorts,     \* whether the picker returns its ids in order
          Threads, BatchSize,
          Intermediate,    \* num_intermediate_results_
          MaxReplicas, Epsilon,
          MaxClusterSize,  \* 0: clusters are not reduced
          Distances        \* of a leaf to a centroid

ASSUME ClusteringAssumption ==
  /\ NumCentroids \in 1 .. Size /\ Intermediate \in 1 .. NumCentroids
  /\ {Threads, BatchSize} \subseteq Nat \ {0}
  /\ {MaxReplicas, Epsilon, MaxClusterSize} \subseteq Nat

VARIABLES centroids,  \* the picker's order: local id -> id
          distance,   \* leaf -> local id of a centroid -> distance
          phase,      \* "assign", "reduce", "clustered", "failed", then those of the index
          start,      \* of the next batch
          share,      \* thread -> the leaves it has still to assign
          work,       \* thread -> what it is doing
          locks,      \* local id -> the thread that has the lock
          clusters,   \* local id -> the leaves, in the order of the vector
          histogram,  \* leaf -> number of clusters it is in
          reduced,    \* the clusters that have been reduced
          assigned    \* history: leaf -> the centroids it was given to

clustering_vars ==
  <<centroids, distance, phase, start, share, work, locks, clusters, histogram, reduced, assigned>>

Ids == 0 .. Size - 1

Local == 0 .. NumCentroids - 1

Team == 0 .. Threads - 1

Nobody == -1

Idle == <<>>

Centroids == {centroids[c] : c \in Local}

Leaves == Ids \ Centroids

\* The element of S with i elements before it.
Nth(S, i) == CHOOSE x \in S : Cardinality({y \in S : y < x}) = i

Least(S) == Nth(S, 0)

\* PickRandomly sorts; another picker need not.
ClusteringInit ==
  /\ centroids \in [Local -> Ids]
  /\ \A c, d \in Local : c < d => centroids[c] # centroids[d] /\ (PickerSorts => centroids[c] < centroids[d])
  /\ distance \in [Leaves -> [Local -> Distances]]
  /\ phase = "assign" /\ start = 0
  /\ share = [t \in Team |-> {}] /\ work = [t \in Team |-> Idle]
  /\ locks = [c \in Local |-> Nobody]
  /\ clusters = [c \in Local |-> <<>>]
  /\ histogram = <<>> /\ reduced = {}
  /\ assigned = [l \in Leaves |-> {}]

Over == \A t \in Team : share[t] = {} /\ work[t] = Idle

\* The next batch: its leaves, and who takes which.
StartBatch ==
  /\ phase = "assign" /\ Over /\ start < Size
  /\ LET stop == MinOf(start + BatchSize, Size)
         complement == Leaves \cap UnitRange(start, stop)
         n == Cardinality(complement)
     IN  /\ share' = [t \in Team |-> {Nth(complement, i) : i \in balance(n, Threads, t)}]
         /\ start' = stop
  /\ UNCHANGED <<centroids, distance, phase, work, locks, clusters, histogram, reduced, assigned>>

\* inverted::bound_with for L2
bound_with(nearest, epsilon) == nearest * (1 + epsilon)

\* What pruning may leave of the centroids within the bound: some, the nearest among them.
Kept(leaf, row) ==
  LET nearest == Least({distance[leaf][c] : c \in row})
      within  == {c \in row : ~(bound_with(nearest, Epsilon) < distance[leaf][c])}
  IN  {S \in SUBSET within : /\ Cardinality(S) <= MaxReplicas + 1
                             /\ \E c \in S : distance[leaf][c] = nearest}

\* post_process_neighbors, one leaf: which centroids it goes to.
Assign(t) ==
  /\ phase = "assign" /\ work[t] = Idle /\ share[t] # {}
  /\ LET leaf == Least(share[t])
     IN  \E row \in {R \in SUBSET Local : Cardinality(R) = Intermediate} :
           \E S \in Kept(leaf, row) :
             /\ assigned' = [assigned EXCEPT ![leaf] = S]
             /\ work' = [work EXCEPT ![t] = [leaf |-> leaf, targets |-> S, read |-> <<>>]]
             /\ share' = [share EXCEPT ![t] = @ \ {leaf}]
  /\ UNCHANGED <<centroids, distance, phase, start, locks, clusters, histogram, reduced>>

NextTarget(t, c) ==
  /\ work[t] # Idle /\ c \in work[t].targets
  /\ \A d \in work[t].targets : distance[work[t].leaf][c] <= distance[work[t].leaf][d]

\* Mutant: the lock is not taken.
LockNothing(t, c) ==
  /\ phase = "assign" /\ NextTarget(t, c) /\ work[t].read = <<>>
  /\ work' = [work EXCEPT ![t].read = <<c, clusters[c]>>]
  /\ UNCHANGED <<centroids, distance, phase, start, share, locks, clusters, histogram, reduced, assigned>>

\* The lock is taken, and push_back reads the vector.
Lock(t, c) ==
  /\ phase = "assign" /\ NextTarget(t, c) /\ work[t].read = <<>> /\ locks[c] = Nobody
  /\ locks' = [locks EXCEPT ![c] = t]
  /\ work' = [work EXCEPT ![t].read = <<c, clusters[c]>>]
  /\ UNCHANGED <<centroids, distance, phase, start, share, clusters, histogram, reduced, assigned>>

Written(t) == LET c == work[t].read[1]
              IN  /\ clusters' = [clusters EXCEPT ![c] = Append(work[t].read[2], work[t].leaf)]
                  /\ work' = [work EXCEPT ![t] = IF @.targets = {c} THEN Idle
                                                 ELSE [@ EXCEPT !.targets = @ \ {c}, !.read = <<>>]]

\* Mutant: the lock is kept.
PushAndHold(t) ==
  /\ phase = "assign" /\ work[t] # Idle /\ work[t].read # <<>> /\ Written(t)
  /\ UNCHANGED <<centroids, distance, phase, start, share, locks, histogram, reduced, assigned>>

\* The vector is written and the lock is given up.
PushBack(t) ==
  /\ phase = "assign" /\ work[t] # Idle /\ work[t].read # <<>> /\ Written(t)
  /\ locks' = [locks EXCEPT ![work[t].read[1]] = Nobody]
  /\ UNCHANGED <<centroids, distance, phase, start, share, histogram, reduced, assigned>>

-----------------------------------------------------------------------------
\* TotalOrder: by distance, then by id.
Before(c, l, m) ==
  \/ distance[l][c] < distance[m][c]
  \/ distance[l][c] = distance[m][c] /\ l < m

Occurrences(l) == {<<c, i>> \in Local \X (1 .. Size) : i <= Len(clusters[c]) /\ clusters[c][i] = l}

\* sort_clusters and leaf_histogram, when all batches are done.
SortClusters ==
  /\ phase = "assign" /\ Over /\ start >= Size
  /\ clusters' = [c \in Local |-> SortSeq(clusters[c], LAMBDA l, m : Before(c, l, m))]
  /\ histogram' = [l \in Leaves |-> Cardinality(Occurrences(l))]
  /\ phase' = IF MaxClusterSize = 0 THEN "clustered" ELSE "reduce"
  /\ UNCHANGED <<centroids, distance, start, share, work, locks, reduced, assigned>>

\* The positions to delete: from the far end, and never the last copy of a leaf.
DeleteList(elements, wanted) ==
  LET n == Len(elements)
      marked[j \in 0 .. n] ==
        IF j = 0 THEN {}
        ELSE LET i == n - j + 1
                 copies == histogram[elements[i]]
                           - Cardinality({k \in marked[j - 1] : elements[k] = elements[i]})
             IN  IF Cardinality(marked[j - 1]) = wanted \/ copies = 1 THEN marked[j - 1]
                 ELSE marked[j - 1] \cup {i}
  IN  marked[n]

\* reduce_maxsize_sorted, one cluster; the map has them in any order.
Reduce(c) ==
  /\ phase = "reduce" /\ c \notin reduced
  /\ LET elements == clusters[c]
         wanted   == MaxOf(Len(elements) - MaxClusterSize, 0)
         deleted  == DeleteList(elements, wanted)
         left     == DOMAIN elements \ deleted
     IN  IF Cardinality(deleted) # wanted THEN phase' = "failed" /\ UNCHANGED <<clusters, histogram>>
         ELSE /\ clusters' = [clusters EXCEPT ![c] = [i \in 1 .. Cardinality(left) |-> elements[Nth(left, i - 1)]]]
              /\ histogram' = [l \in Leaves |-> histogram[l] - Cardinality({i \in deleted : elements[i] = l})]
              /\ phase' = phase
  /\ reduced' = reduced \cup {c}
  /\ UNCHANGED <<centroids, distance, start, share, work, locks, assigned>>

\* The last sort finds the clusters sorted.
AllReduced ==
  /\ phase = "reduce" /\ reduced = Local
  /\ phase' = "clustered"
  /\ UNCHANGED <<centroids, distance, start, share, work, locks, clusters, histogram, reduced, assigned>>

ThreadStep(t) == Assign(t) \/ PushBack(t) \/ \E c \in Local : Lock(t, c)

CallerStep == StartBatch \/ SortClusters \/ AllReduced \/ \E c \in Local : Reduce(c)

ClusteringNext == CallerStep \/ \E t \in Team : ThreadStep(t)

ClusteringFairness == WF_clustering_vars(CallerStep) /\ \A t \in Team : WF_clustering_vars(ThreadStep(t))
-----------------------------------------------------------------------------
Members(c) == {clusters[c][i] : i \in DOMAIN clusters[c]}

\* However the threads interleave, all leaves they assigned to a centroid are in its
\* cluster when they are done, each of them once, and every leaf was assigned.
AssignmentsKept ==
  phase = "reduce" =>
    /\ \A l \in Leaves : assigned[l] # {}
    /\ \A c \in Local \ reduced :
         /\ Members(c) = {l \in Leaves : c \in assigned[l]}
         /\ Len(clusters[c]) = Cardinality(Members(c))

\* clustering.h: "we can be ensured that we won't drop any database items by accident".
\* Clusters are within their maximum and no leaf is lost.  What was taken out of a
\* cluster is no nearer to it than what is left and has copies elsewhere.
NoLeafDropped ==
  phase \in {"clustered", "packed"} =>
    /\ \A c \in Local : MaxClusterSize = 0 \/ Len(clusters[c]) <= MaxClusterSize
    /\ \A l \in Leaves : \E c \in Local : l \in Members(c)
    /\ \A c \in Local : \A i, j \in DOMAIN clusters[c] : i < j => Before(c, clusters[c][i], clusters[c][j])
    /\ \A c \in Local, l \in Leaves :
         c \in assigned[l] /\ l \notin Members(c) => Len(clusters[c]) = MaxClusterSize

\* From the assignment to the reduced clusters no point is lost.
PointsKept == AssignmentsKept /\ NoLeafDropped

\* clustering.h:54: clustering fails where "all elements in a cluster are the only copies
\* of those element in the entire database and the size of that cluster exceeds the
\* maximum size".  Not so: it is enough that too few of them have copies.
FailsOnlyWithoutCopies ==
  phase = "failed" =>
    \E c \in Local : Len(clusters[c]) > MaxClusterSize /\ \A l \in Members(c) : histogram[l] = 1

\* Building ends: with clusters for the index, or because one cannot be reduced.
ClusteringEnds == <>(phase \in {"clustered", "failed"})
=============================================================================
