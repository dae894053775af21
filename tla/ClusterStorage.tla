---------------------------- MODULE ClusterStorage ----------------------------
(***************************************************************************)
(* What an inverted index keeps and how it comes back: the clustering in   *)
(* its file, the clusters packed for search, the index put together from   *)
(* them, and its parameters (index/inverted/clustering.h, memory_based.h,  *)
(* memory_build_params.h, memory_search_params.h, lib/saveload/            *)
(* bootstrap.h).  A clustering is a function from centroids to sequences   *)
(* of leaves [id, distance].  A file is a sequence of units of 4 bytes; an *)
(* id is 1 or 2 of them, by its integer type.  Numbers of 64 bits have 4   *)
(* bits in the parameters.  What loads is a set of at most one.            *)
(***************************************************************************)
EXTENDS IndexParameters

Smallest(a, b) == IF a < b THEN a ELSE b

\* std::sort of distinct ids
Ascending(S) == [n \in 1 .. Cardinality(S) |-> CHOOSE x \in S : Cardinality({y \in S : y < x}) = n - 1]

Concatenated(sequences) ==
  LET upto[n \in 0 .. Len(sequences)] == IF n = 0 THEN <<>> ELSE upto[n - 1] \o sequences[n]
  IN  upto[Len(sequences)]

SumOf(numbers) ==
  LET upto[n \in 0 .. Len(numbers)] == IF n = 0 THEN 0 ELSE upto[n - 1] + numbers[n]
  IN  upto[Len(numbers)]

-----------------------------------------------------------------------------
sorted_centroids(clustering) == Ascending(DOMAIN clustering)

\* detail::for_each_cluster, with what the callable gets
for_each_cluster(clustering) ==
  [n \in 1 .. Cardinality(DOMAIN clustering) |-> clustering[sorted_centroids(clustering)[n]]]

\* insert(Cluster&&): nothing if it throws.
insert_cluster(clustering, centroid, elements) ==
  IF centroid \in DOMAIN clustering THEN {} ELSE {(centroid :> elements) @@ clustering}

total_size(clustering) == SumOf([n \in DOMAIN for_each_cluster(clustering) |-> 1 + Len(for_each_cluster(clustering)[n])])

complement(clustering, max_size) == Ascending((0 .. max_size - 1) \ DOMAIN clustering)

\* ClusteringStats.  The squares are those of the deviations from the mean, times the
\* square of the number of clusters.
statistics(clustering) ==
  LET lists == for_each_cluster(clustering)
      n == Len(lists)
      leaves == SumOf([i \in 1 .. n |-> Len(lists[i])])
      lengths == {Len(lists[i]) : i \in 1 .. n}
  IN  [min_size |-> CHOOSE s \in lengths : \A t \in lengths : s <= t,
       max_size |-> CHOOSE s \in lengths : \A t \in lengths : t <= s,
       empty_clusters |-> Cardinality({i \in 1 .. n : lists[i] = <<>>}), num_clusters |-> n, num_leaves |-> leaves,
       squares |-> SumOf([i \in 1 .. n |-> (n * Len(lists[i]) - leaves) * (n * Len(lists[i]) - leaves)])]

-----------------------------------------------------------------------------
\* lib::write_binary of an integer, low unit first, and of a neighbor, with its padding
Units(width, n) == IF width = 1 THEN <<n>> ELSE <<n, 0>>

NeighborUnits(width, e) == IF width = 1 THEN <<e.id, e.distance>> ELSE <<e.id, 0, e.distance, 0>>

\* Cluster::serialize; a size is 2 units.
serialize(width, centroid, elements) ==
  Units(width, centroid) \o Units(2, Len(elements))
    \o Concatenated([i \in DOMAIN elements |-> NeighborUnits(width, elements[i])])

\* A read past the end gives 0.
UnitAt(file, p) == IF p \in DOMAIN file THEN file[p] ELSE 0

\* Cluster::deserialize from position p on, with the position after it
deserialize(width, file, p) ==
  LET size == UnitAt(file, p + width)
      step == 2 * width
      first == p + width + 2
  IN  [centroid |-> UnitAt(file, p), next |-> first + step * size,
       elements |-> [i \in 1 .. size |-> [id |-> UnitAt(file, first + step * (i - 1)),
                                          distance |-> UnitAt(file, first + step * (i - 1) + width)]]]

\* Clustering::save, with the clusters in the order of the map; whether every write has
\* reached the disk is not looked at.
save_clustering(clustering, width, order) ==
  LET name == generate_name([written |-> <<>>], "clustering")
      file == Concatenated([n \in DOMAIN order |-> serialize(width, order[n], clustering[order[n]])])
  IN  [name |-> name, file |-> file,
       table |-> SaveTable("clustering", [filepath |-> name, filesize |-> Len(file), integer_type |-> width,
                                          num_clusters |-> Len(order)])]

\* The directory after the first units of the file are written over an earlier one of that
\* name, and maybe the table.
SaveClustering(directory, saved, units, with_table) ==
  [table |-> IF with_table THEN {saved.table} ELSE directory.table,
   files |-> (saved.name :> SubSeq(saved.file, 1, Smallest(units, Len(saved.file)))) @@ directory.files]

ReadClusters(width, file, num_clusters) ==
  LET upto[n \in 0 .. num_clusters] ==
        IF n = 0 THEN [clusterings |-> {<<>>}, next |-> 1]
        ELSE LET cluster == deserialize(width, file, upto[n - 1].next)
             IN  [next |-> cluster.next,
                  clusterings |-> UNION {insert_cluster(c, cluster.centroid, cluster.elements) : c \in upto[n - 1].clusterings}]
  IN  upto[num_clusters].clusterings

\* Clustering::load; open_read refuses an empty file.
load_clustering(width, directory) ==
  UNION {ReadClusters(width, directory.files[t.at.filepath], t.at.num_clusters) :
           t \in {t \in directory.table :
                    /\ check_compatibility(t, "clustering")
                    /\ t.at.integer_type = width
                    /\ t.at.filepath \in DOMAIN directory.files
                    /\ Len(directory.files[t.at.filepath]) = t.at.filesize
                    /\ directory.files[t.at.filepath] # <<>>}}

-----------------------------------------------------------------------------
\* BinaryBlob: a vector in a file of its own.  The number of elements in the file is not
\* looked at, those that it lacks are 0.  The type "undef" is that of every structure.
save_blob(vector, type, element_size) ==
  [file |-> vector, table |-> SaveTable("binary_blob", [element_size |-> element_size, element_type |-> type,
                                                        num_elements |-> Len(vector)])]

load_blob(blob, type, element_size) ==
  {[i \in 1 .. t.at.num_elements |-> UnitAt(blob.file, i)] :
     t \in {t \in {blob.table} :
              /\ check_compatibility(t, "binary_blob")
              /\ t.at.element_type = type
              /\ type = "undef" => t.at.element_size = element_size
              /\ blob.file # <<>>}}

-----------------------------------------------------------------------------
MaxInt64 == 7

MaxUInt64 == 15

\* The members that are size_t.  They are saved by narrow<int64_t>, which throws, and the
\* seed by a bit_cast.
Counts == {"max_replicas", "max_cluster_size", "batchsize", "search_window_size", "num_intermediate_results"}

ClusteringMembers == Counts \cup {"percent_centroids", "epsilon", "seed", "refinement_alpha"}

AsSigned(n) == IF n > MaxInt64 THEN n - (MaxUInt64 + 1) ELSE n

AsUnsigned(n) == IF n < 0 THEN n + (MaxUInt64 + 1) ELSE n

save_clustering_parameters(p) ==
  {SaveTable("clustering_parameters", q) :
     q \in {q \in {[p EXCEPT !.seed = AsSigned(@)]} : \A m \in Counts \cup {"seed"} : q[m] <= MaxInt64}}

load_clustering_parameters(node) ==
  IF ~check_compatibility(node, "clustering_parameters") \/ ~(ClusteringMembers \subseteq DOMAIN node.at)
     \/ \E m \in Counts : node.at[m] < 0
  THEN {} ELSE {[[m \in ClusteringMembers |-> node.at[m]] EXCEPT !.seed = AsUnsigned(@)]}

\* [clustering, primary]
save_inverted_build(p) ==
  {SaveTable("inverted_build_parameters", [clustering_parameters |-> c, primary_parameters |-> save_build(p.primary)]) :
     c \in save_clustering_parameters(p.clustering)}

load_inverted_build(node) ==
  {[clustering |-> c, primary |-> b] :
     c \in UNION {load_clustering_parameters(n) :
                    n \in {n \in at(node, "clustering_parameters") : check_compatibility(node, "inverted_build_parameters")}},
     b \in UNION {load_build(n) : n \in at(node, "primary_parameters")}}

\* [primary, refinement_epsilon]
save_inverted_search(p) ==
  SaveTable("inverted_search_parameters", [primary_parameters |-> save_search(p.primary),
                                           refinement_epsilon |-> p.refinement_epsilon])

load_inverted_search(node) ==
  {[primary |-> s, refinement_epsilon |-> e] :
     s \in UNION {load_search(n) :
                    n \in {n \in at(node, "primary_parameters") : check_compatibility(node, "inverted_search_parameters")}},
     e \in at(node, "refinement_epsilon")}

-----------------------------------------------------------------------------
\* The place of each leaf among those that are different, in the order of their clusters
packed_leaf_translation(clustering) ==
  LET leaves == Concatenated(for_each_cluster(clustering))
      First(id) == CHOOSE k \in DOMAIN leaves : leaves[k].id = id /\ \A j \in 1 .. k - 1 : leaves[j].id # id
  IN  [id \in {leaves[k].id : k \in DOMAIN leaves} |-> Cardinality({leaves[j].id : j \in 1 .. First(id) - 1})]

\* The clusters of the sparse strategy point into one dataset.
SparseClusteredDataset(original, clustering) ==
  LET local == packed_leaf_translation(clustering)
      clusters == for_each_cluster(clustering)
  IN  [data |-> [l \in {local[g] : g \in DOMAIN local} |-> original[CHOOSE g \in DOMAIN local : local[g] = l]],
       ids |-> [n \in DOMAIN clusters |->
                  [i \in DOMAIN clusters[n] |-> [local |-> local[clusters[n][i].id], global |-> clusters[n][i].id]]]]

\* Those of the dense strategy have their own.
DenseClusteredDataset(original, clustering) ==
  LET clusters == for_each_cluster(clustering)
  IN  [n \in DOMAIN clusters |->
         [data |-> [i \in DOMAIN clusters[n] |-> original[clusters[n][i].id]],
          ids |-> [i \in DOMAIN clusters[n] |-> clusters[n][i].id]]]

\* How many elements of a cluster have been prefetched when its i-th leaf is used: the first
\* ones before, one more with each leaf.
Prefetched(offset, size_, i) == Smallest(Smallest(offset, size_) + i, size_)

\* on_leaves, with what the callable gets for each leaf.
on_leaves_sparse(sparse, n, offset) ==
  LET ids == sparse.ids[n]
  IN  [i \in DOMAIN ids |-> [datum |-> sparse.data[ids[i].local], id |-> ids[i].global,
                             prefetched |-> IF offset = 0 THEN 0 ELSE Prefetched(offset, Len(ids), i)]]

\* The offset that was set is not passed on.
on_leaves_dense(dense, n) ==
  LET cluster == dense[n]
  IN  [i \in DOMAIN cluster.ids |-> [datum |-> cluster.data[i], id |-> cluster.ids[i],
                                     prefetched |-> Prefetched(2, Len(cluster.ids), i)]]

Pack(strategy, original, clustering) ==
  [n \in 1 .. Cardinality(DOMAIN clustering) |->
     IF strategy = "sparse" THEN on_leaves_sparse(SparseClusteredDataset(original, clustering), n, 2)
     ELSE on_leaves_dense(DenseClusteredDataset(original, clustering), n)]

-----------------------------------------------------------------------------
\* Of percent_centroids in hundredths
get_number_of_centroids(datasize, percent) == (datasize * percent) \div 100

\* Mutant: the ids as they were drawn.
IdsAsDrawn(draws, num_centroids) ==
  LET first == {k \in DOMAIN draws : \A j \in 1 .. k - 1 : draws[j] # draws[k]}
  IN  IF Cardinality(first) < num_centroids THEN {}
      ELSE {[i \in 1 .. num_centroids |-> draws[CHOOSE k \in first : Cardinality({j \in first : j < k}) = i - 1]]}

\* Of a sequence of random ids: nothing if it needs more of them.
randomly_select_centroids(draws, num_centroids) ==
  LET Drawn(k) == {draws[j] : j \in 1 .. k}
      enough == {k \in 0 .. Len(draws) : Cardinality(Drawn(k)) = num_centroids}
  IN  {Ascending(Drawn(k)) : k \in enough}

\* InvertedIndex, of the primary index [data, search], the clusters and the centroids
NewInvertedIndex(primary, clusters, index_local_to_global) ==
  [primary |-> primary, clusters |-> clusters, index_local_to_global |-> index_local_to_global, refinement_epsilon |-> 10]

Primary(original, ids, search_) == [data |-> [n \in DOMAIN ids |-> original[ids[n]]], search |-> search_]

\* The primary index has its default parameters, or those that it was saved with.
auto_build_inverted(original, centroids, clustering, strategy, search_) ==
  NewInvertedIndex(Primary(original, centroids, search_), Pack(strategy, original, clustering), centroids)

assemble_from_clustering(width, directory, original, strategy, search_) ==
  {NewInvertedIndex(Primary(original, sorted_centroids(c), search_), Pack(strategy, original, c), sorted_centroids(c)) :
     c \in load_clustering(width, directory)}

get_search_parameters(index) == [primary |-> index.primary.search, refinement_epsilon |-> index.refinement_epsilon]

set_search_parameters(index, p) == [index EXCEPT !.primary.search = p.primary, !.refinement_epsilon = p.refinement_epsilon]
=============================================================================
