------------------------------ MODULE MCStorage ------------------------------
(***************************************************************************)
(* What is written to disk and read again, as functions over bounded       *)
(* inputs: saved objects, their upgrade, files of vectors, the parameters  *)
(* of indices.  MCAlgorithms runs them.                                    *)
(***************************************************************************)
EXTENDS FileFormats, IndexParameters, ClusterStorage

VARIABLES call,   \* the input of a function: a record with the name of its part
          answer  \* what it returns; <<>> before

Called(part) == call.part = part /\ answer = <<>> /\ UNCHANGED call

Returns(x) == answer' = [value |-> x]

Answered(part) == call.part = part /\ answer # <<>>

-----------------------------------------------------------------------------
\* Objects with two vectors of 4 dimensions, reduced to 2.
Uncompressed(eltype, dims, rows) ==
  [class |-> "uncompressed_data", eltype |-> eltype, dims |-> dims, rows |-> rows]

Scaled(bits, dims) == [class |-> "lvq_with_scaling_constants", bits |-> bits, dims |-> dims, rows |-> <<"s1", "s2">>]

Centroid(dims) == Uncompressed("float32", dims, <<"c">>)

OneLevel(bits, dims) == [class |-> "one_level_lvq_dataset", primary |-> Scaled(bits, dims), centroids |-> Centroid(dims)]

TwoLevels(bits, residual) ==
  [class |-> "two_level_lvq_dataset", primary |-> Scaled(bits, 4), centroids |-> Centroid(4),
   residual |-> [class |-> "lvq_compressed_dataset", sign |-> "unsigned", bits |-> residual, dims |-> 4,
                 rows |-> <<"r1", "r2">>]]

Container(kind, dims) ==
  CASE kind = "lvq4" -> OneLevel(4, dims) [] kind = "lvq8" -> OneLevel(8, dims)
    [] OTHER -> Uncompressed(kind, dims, <<"x1", "x2">>)

Kinds == {"float32", "float16", "lvq4", "lvq8"}

Reduced(primary, secondary) ==
  [class |-> "leanvec_dataset", primary |-> Container(primary, 2), secondary |-> Container(secondary, 4),
   matrices |-> [class |-> "leanvec_matrices", data_matrix |-> Uncompressed("float32", 2, <<"d1", "d2", "d3", "d4">>),
                 query_matrix |-> Uncompressed("float32", 2, <<"q1", "q2", "q3", "q4">>)],
   means |-> "means", is_pca |-> TRUE]

Saved == {Uncompressed("float16", 4, <<"x1", "x2">>), TwoLevels(4, 8).residual, OneLevel(4, 4), OneLevel(8, 4)}
         \cup {TwoLevels(4, b) : b \in {4, 8}} \cup {Reduced(p, s) : p \in Kinds, s \in {"float32", "lvq8"}}

Extents == {2, 4, Dynamic}

Classes == {"uncompressed_data", "lvq_compressed_dataset", "lvq_dataset", "leanvec_dataset"}

Types(class) ==
  CASE class = "uncompressed_data" -> [class : {class}, eltype : {"float32", "float16"}, extent : Extents]
    [] class = "lvq_compressed_dataset" ->
         [class : {class}, sign : {"signed", "unsigned"}, bits : {4, 8}, extent : Extents]
    [] class = "lvq_dataset" ->
         [class : {class}, primary : {4, 8}, residual : {0, 4, 8}, extent : Extents, turbo : BOOLEAN]
    [] class = "leanvec_dataset" ->
         [class : {class}, primary : Kinds, secondary : Kinds, leanvec_dims : {2, Dynamic}, extent : Extents]

\* Where a table is, and what is wrong with it.
Places == {<<>>, <<"primary">>, <<"residual">>, <<"centroids">>, <<"matrices">>, <<"residual", "inner">>,
           <<"secondary", "primary">>, <<"matrices", "query_matrix">>}

Faults == {[kind |-> k, place |-> p] : k \in {"version", "schema", "uuid"}, p \in Places}
          \cup {[kind |-> "global", version |-> v] : v \in {1, 3}} \cup {[kind |-> "config"], [kind |-> "none"]}

At(table, place) ==
  LET Below(nodes, key) == UNION {at(node, key) : node \in nodes}
  IN  CASE place = <<>> -> {table} [] Len(place) = 1 -> Below({table}, place[1])
        [] OTHER -> Below(Below({table}, place[1]), place[2])

\* With the fault, if there is a table at its place.
Faulty(node, kind) ==
  CASE kind = "version" -> [node EXCEPT !.version = @ + 1]
    [] kind = "schema" -> [node EXCEPT !.schema = "another"]
    [] kind = "uuid" -> [node EXCEPT !.at = [k \in DOMAIN @ \ {"uuid", "file_uuid"} |-> @[k]]]

Applied(fault, directory) ==
  LET c == CHOOSE c \in directory.config : TRUE
      At0 == c.object
      place == fault.place
      object == CASE place = <<>> -> Faulty(At0, fault.kind)
                  [] Len(place) = 1 -> [At0 EXCEPT !.at[place[1]] = Faulty(@, fault.kind)]
                  [] OTHER -> [At0 EXCEPT !.at[place[1]].at[place[2]] = Faulty(@, fault.kind)]
  IN  CASE fault.kind = "none" -> directory
        [] fault.kind = "config" -> [directory EXCEPT !.config = {}]
        [] fault.kind = "global" -> [directory EXCEPT !.config = {[c EXCEPT !.version = fault.version]}]
        [] OTHER -> IF At(At0, place) = {} THEN directory ELSE [directory EXCEPT !.config = {[c EXCEPT !.object = object]}]

\* A save into a directory with an earlier one that may not come to its end, or whose
\* result has a fault.
SerializeCalls ==
  [part : {"serialize"}, earlier : Saved, object : Saved, steps : 0 .. 6 \cup {20}, fault : {[kind |-> "none"]}]
  \cup [part : {"serialize"}, earlier : {<<>>}, object : Saved, steps : {20}, fault : Faults]

Empty == [config |-> {}, files |-> <<>>]

Directory(c) ==
  Applied(c.fault, save_to_disk(c.object, 2, IF c.earlier = <<>> THEN Empty ELSE save_to_disk(c.earlier, 1, Empty, 20),
                                c.steps))

\* One specialization that fits any object of two levels, and several of one level.
Methods == <<[primary |-> 4, residual |-> 8, extent |-> Dynamic, turbo |-> FALSE],
             [primary |-> 4, residual |-> 0, extent |-> 7, turbo |-> TRUE],
             [primary |-> 4, residual |-> 0, extent |-> Dynamic, turbo |-> TRUE],
             [primary |-> 4, residual |-> 0, extent |-> 4, turbo |-> FALSE]>>

LeanVecMethods == <<[primary |-> "lvq4", secondary |-> "lvq8", leanvec_dims |-> 2, extent |-> 7],
                    [primary |-> "lvq4", secondary |-> "lvq8", leanvec_dims |-> Dynamic, extent |-> 4],
                    [primary |-> "float16", secondary |-> "float32", leanvec_dims |-> 2, extent |-> Dynamic]>>

RunSerialize ==
  /\ Called("serialize")
  /\ LET directory == Directory(call)
     IN  Returns([loaded |-> [c \in Classes |-> [type \in Types(c) |-> load_from_disk(type, directory)]],
                  lvq |-> [s \in {"Auto", "Sequential", "Turbo"} |-> reload_lvq(directory, Methods, s)],
                  leanvec |-> reload_leanvec(directory, LeanVecMethods)])

-----------------------------------------------------------------------------
\* Elements that look like the length of a vector, and others.
Content(pattern, dims, i, j) ==
  CASE pattern = "dims" \/ (pattern = "first" /\ i = 1) -> dims
    [] pattern = "zero" -> 0
    [] OTHER -> 5 + ((7 * i + 3 * j) % 11)

Rows(pattern, n, dims) == [i \in 1 .. n |-> [j \in 1 .. dims |-> Content(pattern, dims, i, j)]]

\* A file of which the last bytes may be missing, or whose magic number is another.
FileCalls ==
  [part : {"file"}, format : {"vecs", "bin", "svs"}, width : ALLOWED_ELEMENT_SIZES, dims : 1 .. 4,
   count : {0, 1, 2, 3, 11}, pattern : {"dims", "first", "zero", "mixed"}, max_lines : {2, Unlimited},
   cut : {0, 1, 4, 8, 20}, magic : {"v1"}]
  \cup [part : {"file"}, format : {"svs"}, width : {4}, dims : {2}, count : {2}, pattern : {"mixed"},
        max_lines : {Unlimited}, cut : {0}, magic : {"vtest", "database", "other"}]

CallRows(c) == Rows(c.pattern, c.count, c.dims)

File(c) ==
  LET file == write(c.format, CallRows(c), c.dims, "uuid", c.width)
      Cut(bytes) == [k \in 0 .. FileSize(bytes) - 1 - c.cut |-> bytes[k]]
  IN  IF c.format = "svs" THEN [file EXCEPT !.body = Cut(@), !.magic = c.magic] ELSE Cut(file)

RunFile ==
  /\ Called("file")
  /\ LET file == File(call)
     IN  Returns([read |-> reader(call.format, file, call.width, call.max_lines),
                  loaded |-> auto_load(call.format, file, call.width),
                  refused |-> auto_load("txt", file, call.width)])

-----------------------------------------------------------------------------
\* An object that an earlier version has saved; that of two levels then had another one.
UpgradeCalls ==
  [part : {"upgrade"}, object : Saved, two_level_version : {2, 3}, fault : {"none"}, place : {<<>>},
   backup : BOOLEAN, steps : 0 .. 3]
  \cup [part : {"upgrade"}, object : Saved, two_level_version : {2}, fault : {"version", "extra"}, place : Places,
        backup : {TRUE}, steps : {3}]

Old(c) ==
  LET WithoutSchema(table, members) ==
        [version |-> IF table.schema = "two_level_lvq_dataset" THEN c.two_level_version ELSE table.version,
         at |-> members]
      Struck(t) == CASE c.fault = "version" -> [t EXCEPT !.version = @ + 1]
                     [] c.fault = "extra" -> [t EXCEPT !.at = @ @@ ("another" :> 1)]
                     [] OTHER -> t
      table == Reformed(save(c.object, [generation |-> 1, written |-> <<>>]).table, WithoutSchema)
  IN  CASE At(table, c.place) = {} -> table
        [] c.place = <<>> -> Struck(table)
        [] Len(c.place) = 1 -> [table EXCEPT !.at[c.place[1]] = Struck(@)]
        [] OTHER -> [table EXCEPT !.at[c.place[1]].at[c.place[2]] = Struck(@)]

Original(c) == [version |-> 1, object |-> Old(c)]

\* An upgrade that may be cut off, and another one after it.
RunUpgrade ==
  /\ Called("upgrade")
  /\ LET first == upgrade([file |-> {Original(call)}, backup |-> {}], call.backup, call.steps)
         second == upgrade(first, call.backup, 3)
         files == save_to_disk(call.object, 1, Empty, 20).files
     IN  Returns([disk |-> second,
                  loaded |-> [c \in Classes |-> [type \in Types(c) |->
                                load_from_disk(type, [config |-> second.file, files |-> files])]]])

-----------------------------------------------------------------------------
\* Indices that are built, changed, saved by this version or an earlier one, and assembled
\* with some graph and data, as static, dynamic, or dynamic from static.
Built == VamanaBuildParameters(12, 8, 20, 30, 6, FALSE)

Data(kind, bits, bytes, turbo) == [kind |-> kind, bits |-> bits, bytes |-> bytes, turbo |-> turbo]

DataKinds == {Data("simple", 32, b, FALSE) : b \in {128, 132, 256, 1024, 4096}}
             \cup {Data("lvq", b, 64, t) : b \in {4, 8}, t \in BOOLEAN} \cup {Data("leanvec", 8, 64, FALSE)}

Calibrated == VamanaSearchParameters([search_window_size |-> 5, total_capacity |-> 9], TRUE, 7, 3)

Changes == {"search_window_size", "search_parameters", "visited_set", "alpha", "construction_window_size",
            "max_candidates", "full_search_history", "reset"}

\* The value that a parameter is set to
Value(what) ==
  CASE what = "search_window_size" -> 6 [] what = "search_parameters" -> Calibrated [] what = "alpha" -> 10
    [] what = "construction_window_size" -> 25 [] what = "max_candidates" -> 40 [] OTHER -> TRUE

UpToTwo(S) == {<<>>} \cup {<<c>> : c \in S} \cup {<<c, d>> : c, d \in S}

Versions == {"current", "inner", "v0.0.0", "v0.0.1", "v0.0.2", "next", "name", "window"}

ParameterCalls ==
  [part : {"parameters"}, kind : {"static", "dynamic"}, data : {Data("simple", 32, 256, FALSE)},
   changes : UpToTwo(Changes), version : Versions, as : {"static", "dynamic", "debug"}, sizes : {<<2, 2>>}]
  \cup [part : {"parameters"}, kind : {"static", "dynamic"}, data : DataKinds, changes : {<<"reset">>, <<>>},
        version : {"current"}, as : {"static", "dynamic", "debug"}, sizes : {2, 3} \X {2, 3}]

Apply(index, changes) ==
  LET Step(i, c) == IF c = "reset" THEN reset_performance_parameters(i) ELSE Changed(i, c, Value(c))
      upto[n \in 0 .. Len(changes)] == IF n = 0 THEN index ELSE Step(upto[n - 1], changes[n])
  IN  upto[Len(changes)]

ChangedIndex(c) ==
  LET index == IF c.kind = "static" THEN auto_build(Built, c.data, 1)
               ELSE MutableVamanaIndex(Built, c.data, 1, <<70, 50>>)
  IN  Apply(index, c.changes)

\* The table of the parameters as an earlier version wrote it.
LegacyTable(index, patch) ==
  [schema |-> "vamana_index_parameters", version |-> patch,
   at |-> [name |-> "vamana config parameters", entry_point |-> index.entry_point, alpha |-> index.build.alpha,
           max_out_degree |-> index.build.graph_max_degree, construction_window_size |-> index.build.window_size,
           max_candidates |-> index.build.max_candidate_pool_size,
           default_search_window_size |-> index.search.buffer_config.search_window_size,
           visited_set |-> index.search.search_buffer_visited_set]
          @@ (IF patch > 0 THEN "use_full_search_history" :> index.build.use_full_search_history ELSE <<>>)
          @@ (IF patch > 1 THEN "prune_to" :> index.build.prune_to ELSE <<>>)]

Without(table, keys) == [table EXCEPT !.version = 0, !.at = [k \in DOMAIN @ \ keys |-> @[k]]]

OfVersion(index, table, version) ==
  CASE version = "v0.0.0" -> LegacyTable(index, 0) [] version = "v0.0.1" -> LegacyTable(index, 1)
    [] version = "v0.0.2" -> LegacyTable(index, 2) [] version = "current" -> table
    [] version = "next" -> [table EXCEPT !.version = @ + 1]
    [] version = "name" -> [table EXCEPT !.at.name = "vamana config parameters"]
    [] version = "window" -> [table EXCEPT !.at.search_parameters.at.search_window_size = 99]
    [] version = "inner" ->
         [table EXCEPT !.at.build_parameters = Without(@, {"prune_to"}),
                       !.at.search_parameters = Without(@, {"prefetch_lookahead", "prefetch_step"})]

RunParameters ==
  /\ Called("parameters")
  /\ LET index == ChangedIndex(call)
         saved == save_index(index)
         table == IF index.kind = "static" THEN OfVersion(index, saved, call.version)
                  ELSE [saved EXCEPT !.at.parameters = OfVersion(index, @, call.version)]
         graph == [size |-> call.sizes[1], max_degree |-> 8]
         data == [size |-> call.sizes[2], data |-> call.data]
     IN  Returns([index |-> index,
                  loaded |-> IF call.as = "static" THEN auto_assemble(table, graph, data)
                             ELSE auto_dynamic_assemble(table, graph, data, call.as = "debug")])

-----------------------------------------------------------------------------
\* Clusterings of the ids 0 .. 2, with every leaf in some clusters, and two of four ids
\* whose files have the same size.
Leaf(c, id) == [id |-> id, distance |-> IF id > c THEN id - c ELSE c - id + 3]

Spread(n, centroids, in) ==
  [c \in centroids |-> LET ids == Ascending({id \in (0 .. n - 1) \ centroids : c \in in[id]})
                       IN  [i \in DOMAIN ids |-> Leaf(c, ids[i])]]

ClusteringsOf(n) ==
  UNION {{Spread(n, S, in) : in \in [(0 .. n - 1) \ S -> SUBSET S \ {{}}]} : S \in SUBSET (0 .. n - 1) \ {{}}}

FewClusterings ==
  ClusteringsOf(3) \cup {Spread(4, 0 .. 3, <<>>)}
  \cup {(0 :> <<Leaf(0, 1), Leaf(0, 2)>>) @@ (3 :> <<Leaf(3, 1)>>), <<>>}

\* A save over an earlier one, or over none, of which only the first units of the file reach
\* the disk, and maybe the table.
ClusteringCalls ==
  [part : {"clustering"}, earlier : FewClusterings, width : {1, 2}, clustering : FewClusterings, reversed : BOOLEAN,
   units : 0 .. 11 \cup {99}, with_table : BOOLEAN]

NothingSaved == [table |-> {}, files |-> <<>>]

Order(clustering, reversed) ==
  LET ids == sorted_centroids(clustering) IN [i \in DOMAIN ids |-> ids[IF reversed THEN Len(ids) + 1 - i ELSE i]]

SavedClustering(c) == save_clustering(c.clustering, c.width, Order(c.clustering, c.reversed))

EarlierClustering(c) == save_clustering(c.earlier, c.width, sorted_centroids(c.earlier))

RunClustering ==
  /\ Called("clustering")
  /\ LET before == IF call.earlier = <<>> THEN NothingSaved
                   ELSE SaveClustering(NothingSaved, EarlierClustering(call), 99, TRUE)
         directory == SaveClustering(before, SavedClustering(call), call.units, call.with_table)
     IN  Returns([loaded |-> [w \in {1, 2} |-> load_clustering(w, directory)]])

\* Clusterings of four ids, some of them chosen at random, with their rows.
ClustersCalls == [part : {"clusters"}, clustering : ClusteringsOf(4), strategy : {"sparse", "dense"}, draws : {<<>>}, percent : {0}]
                \cup [part : {"clusters"}, clustering : {<<>>}, strategy : {"sparse"}, draws : [1 .. 4 -> 0 .. 3],
                      percent : {0, 24, 25, 50, 75, 100}]

Original4 == [id \in 0 .. 3 |-> 10 + id]

RunClusters ==
  /\ Called("clusters")
  /\ LET picked == randomly_select_centroids(call.draws, get_number_of_centroids(4, call.percent))
         Clustered(ids) == Spread(4, {ids[n] : n \in DOMAIN ids}, [id \in 0 .. 3 |-> {ids[n] : n \in DOMAIN ids}])
         saved(c) == save_clustering(c, 1, Order(c, TRUE))
         directory(c) == SaveClustering(NothingSaved, saved(c), 99, TRUE)
         Indices(c, ids, strategy) ==
           [built |-> auto_build_inverted(Original4, ids, c, strategy, Calibrated),
            assembled |-> assemble_from_clustering(1, directory(c), Original4, strategy, Calibrated)]
     IN  Returns(IF call.clustering # <<>>
                 THEN [sparse |-> SparseClusteredDataset(Original4, call.clustering),
                       statistics |-> statistics(call.clustering),
                       indices |-> {Indices(call.clustering, sorted_centroids(call.clustering), call.strategy)}]
                 ELSE [picked |-> picked, indices |-> {Indices(Clustered(ids), ids, s) : ids \in picked \ {<<>>}, s \in {"sparse", "dense"}}])

\* Parameters of an inverted index, with numbers up to the largest of 64 bits, and a vector in
\* a file of its own that may be cut off.
InvertedCalls ==
  [part : {"inverted"}, seed : 0 .. MaxUInt64, member : Counts, value : {0, 7, 8, 15},
   fault : {[kind |-> "none", place |-> <<>>]}]
  \cup [part : {"inverted"}, seed : {9}, member : {"batchsize"}, value : {7},
        fault : [kind : {"version", "schema"}, place : {<<>>, <<"clustering_parameters">>, <<"primary_parameters">>}]]

BlobTypes == {[type |-> "float32", size |-> 4], [type |-> "undef", size |-> 4], [type |-> "undef", size |-> 8]}

BlobCalls == [part : {"blob"}, saved : BlobTypes, as : BlobTypes, vector : {<<1>>, <<1, 2>>, <<3, 1, 2>>}, cut : 0 .. 3]

InvertedParameters(c) ==
  [clustering |-> [[m \in ClusteringMembers |-> 5] EXCEPT !.seed = c.seed, ![c.member] = c.value], primary |-> Built]

InvertedSearch(c) == [primary |-> Calibrated, refinement_epsilon |-> c.value]

RunInverted ==
  /\ Called("inverted")
  /\ LET Struck(t) == IF call.fault.kind = "none" \/ At(t, call.fault.place) = {} THEN t
                      ELSE IF call.fault.place = <<>> THEN Faulty(t, call.fault.kind)
                      ELSE [t EXCEPT !.at[call.fault.place[1]] = Faulty(@, call.fault.kind)]
         build == {Struck(t) : t \in save_inverted_build(InvertedParameters(call))}
         index == NewInvertedIndex(Primary(<<>>, <<>>, VamanaSearchParameters(Window(0), FALSE, 0, 0)), <<>>, <<>>)
     IN  Returns([build |-> UNION {load_inverted_build(t) : t \in build},
                  search |-> {get_search_parameters(set_search_parameters(index, p)) :
                                p \in load_inverted_search(Struck(save_inverted_search(InvertedSearch(call))))}])

RunBlob ==
  /\ Called("blob")
  /\ LET saved == save_blob(call.vector, call.saved.type, call.saved.size)
         left == SubSeq(saved.file, 1, Len(saved.file) - call.cut)
     IN  Returns([loaded |-> load_blob([saved EXCEPT !.file = left], call.as.type, call.as.size)])

StorageCalls ==
  SerializeCalls \cup FileCalls \cup UpgradeCalls \cup ParameterCalls \cup ClusteringCalls \cup ClustersCalls
  \cup InvertedCalls \cup BlobCalls

RunStorage ==
  RunSerialize \/ RunFile \/ RunUpgrade \/ RunParameters \/ RunClustering \/ RunClusters \/ RunInverted \/ RunBlob

-----------------------------------------------------------------------------
\* Whether an object is one of a type.
IsOf(type, x) ==
  LET Kind(c) == CASE c.class = "uncompressed_data" -> c.eltype
                   [] OTHER -> IF c.primary.bits = 4 THEN "lvq4" ELSE "lvq8"
  IN  CASE type.class = "uncompressed_data" ->
             x.class = type.class /\ x.eltype = type.eltype /\ Holds(type.extent, x.dims)
        [] type.class = "lvq_compressed_dataset" ->
             x.class = type.class /\ x.sign = type.sign /\ x.bits = type.bits /\ Holds(type.extent, x.dims)
        [] type.class = "lvq_dataset" ->
             /\ x.class = IF type.residual = 0 THEN "one_level_lvq_dataset" ELSE "two_level_lvq_dataset"
             /\ x.primary.bits = type.primary /\ Holds(type.extent, x.primary.dims)
             /\ type.residual = 0 \/ x.residual.bits = type.residual
        [] type.class = "leanvec_dataset" ->
             /\ x.class = type.class /\ Kind(x.primary) = type.primary /\ Kind(x.secondary) = type.secondary
             /\ Holds(type.leanvec_dims, 2) /\ Holds(type.extent, 4)

\* A save loads as what was saved, into every specialization it fits and into no other,
\* also where an earlier save was in the directory; without a specialization it loads iff
\* one of those that are registered fits.  A save that did not come to its end, or a table
\* of another version, another schema or without a key, is refused, unless the earlier
\* object is still whole; nothing ever loads as a mixture (save_to_disk, load_from_disk,
\* Loader::check_compatibility, find_uuid).
ObjectsLoadAsSaved ==
  Answered("serialize") =>
    LET x == call.object
        value == answer.value
        done == call.steps > Len(save(x, [generation |-> 2, written |-> <<>>]).ctx.written)
        OfType(type) == IF IsOf(type, x) THEN {x} ELSE {}
        struck == CASE call.fault.kind \in {"none"} -> FALSE [] call.fault.kind \in {"global", "config"} -> TRUE
                    [] OTHER -> At(save(x, [generation |-> 2, written |-> <<>>]).table, call.fault.place) # {}
        WithMethod(methods, class, Allowed(_)) ==
          \E i \in DOMAIN methods : IsOf([class |-> class] @@ methods[i], x) /\ Allowed(methods[i])
        Loads(Within(_)) ==
          \A c \in Classes : \A type \in Types(c) : value.loaded[c][type] \subseteq Within(type)
        Earlier(type) == IF IsOf(type, call.earlier) THEN {call.earlier} ELSE {}
        Nothing(type) == {}
    IN  CASE ~done -> IF call.earlier = <<>> THEN Loads(Nothing) ELSE Loads(Earlier)
          [] done /\ ~struck ->
               /\ \A c \in Classes : \A type \in Types(c) : value.loaded[c][type] = OfType(type)
               /\ \A s \in DOMAIN value.lvq :
                    LET Allowed(m) == s # IF m.turbo THEN "Sequential" ELSE "Turbo"
                    IN  value.lvq[s] = IF WithMethod(Methods, "lvq_dataset", Allowed) THEN {x} ELSE {}
               /\ LET Allowed(m) == TRUE
                  IN  value.leanvec = IF WithMethod(LeanVecMethods, "leanvec_dataset", Allowed) THEN {x} ELSE {}
          [] done /\ struck /\ call.fault.kind # "uuid" -> Loads(Nothing)
          [] OTHER -> Loads(OfType)

\* What is left of a file of vectors, and the rows that are whole in it.
Remaining(c) ==
  LET line == c.width * c.dims + 4
  IN  CASE c.format = "vecs" /\ (c.cut % line # 0 \/ c.cut >= c.count * line) -> {}
        [] c.format = "vecs" -> {SubSeq(CallRows(c), 1, c.count - (c.cut \div line))}
        [] c.format = "bin" -> IF c.cut = 0 /\ c.count > 0 THEN {CallRows(c)} ELSE {}
        [] c.format = "svs" -> IF c.magic \in {"v1", "vtest"} THEN {CallRows(c)} ELSE {}

\* No smaller element size could be taken for that of a vecs file: of the nine vectors
\* that would follow the first, one has another length.
Unambiguous(c) ==
  c.format = "vecs" => \A size \in ALLOWED_ELEMENT_SIZES : size < c.width =>
                         LET file == File(c)
                             next == {n * (4 + size * c.dims) : n \in 1 .. 9}
                         IN  \E offset \in next : ~is_last_vec(file, offset) /\ ~SameDims(file, c.dims, offset)

\* A file of vectors is read as it was written, in every format, up to the number of lines
\* asked for; a dataset is loaded from it if its element size shows, and a file whose
\* end is missing is refused: a binary file always, a vecs file unless whole vectors are
\* missing (VecsReader, BinaryReader, NativeFile, load_dataset).
FilesLoadAsSaved ==
  Answered("file") =>
    LET c == call
        value == answer.value
    IN  /\ c.format # "svs" \/ c.cut = 0 \/ c.count = 0 =>
              /\ value.read = {SubSeq(rows, 1, MinOf(c.max_lines, Len(rows))) : rows \in Remaining(c)}
              /\ Unambiguous(c) => value.loaded = Remaining(c)
        /\ value.refused = {}

\* An upgraded object loads as what was saved; one whose tables have other versions or keys
\* than the schemas say, or a class whose version has changed since, is not loaded, but its file
\* is kept; and with a backup the original is never lost, wherever the upgrade is cut off
\* and however often it is called (upgrade, SchemaList.transform).
UpgradesLoadAsSaved ==
  Answered("upgrade") =>
    LET c == call
        disk == answer.value.disk
        struck == c.fault # "none" /\ At(Old(c), c.place) # {}
        known == \A t \in Nested(Old(c)) : "residual" \notin DOMAIN t.at
        done == c.steps \in IF c.backup THEN {0, 3} ELSE {0, 1, 3}
    IN  /\ c.backup => Original(c) \in disk.file \cup disk.backup
        /\ struck => disk.file = {Original(c)}
        /\ \A class \in Classes : \A type \in Types(class) :
             answer.value.loaded[class][type] = IF done /\ known /\ ~struck /\ IsOf(type, c.object) THEN {c.object} ELSE {}

\* The parameters in effect are in effect again after the index is saved and assembled, and
\* those that an earlier version did not save get its defaults; the ids of the dynamic index
\* are kept.  Parameters of the other kind of index are refused, unless a static index
\* is read as a dynamic one on purpose, which then has the identity as its ids; so are a
\* newer version, and parts of a dynamic index that do not have the same size.  Resetting
\* the performance never changes the accuracy (VamanaIndexParameters::load,
\* VamanaStateLoader::load, auto_dynamic_assemble, reset_performance_parameters).
ParametersLoadAsSaved ==
  Answered("parameters") =>
    LET c == call
        index == answer.value.index
        legacy == c.version \in {"v0.0.0", "v0.0.1", "v0.0.2"}
        prune_to == IF c.version \in {"v0.0.0", "v0.0.1", "inner"} THEN 8 ELSE index.build.prune_to
        history == c.version = "v0.0.0" \/ index.build.use_full_search_history
        window == index.search.buffer_config.search_window_size
        config == IF legacy THEN Window(window) ELSE index.search.buffer_config
        prefetch == IF legacy \/ c.version = "inner" THEN <<4, 1>>
                    ELSE <<index.search.prefetch_lookahead, index.search.prefetch_step>>
        fits == /\ c.as = "static" => c.kind = "static"
                /\ c.as = "debug" => c.kind = "static" /\ c.sizes[1] = c.sizes[2]
                /\ c.as = "dynamic" => c.kind = "dynamic" /\ c.sizes = <<2, 2>>
        expected == [index EXCEPT !.kind = IF c.as = "debug" THEN "dynamic" ELSE @,
                                  !.translator = IF c.as = "debug" THEN [i \in 1 .. c.sizes[2] |-> i - 1] ELSE @,
                                  !.build.prune_to = prune_to, !.build.use_full_search_history = history,
                                  !.search.buffer_config = config, !.search.prefetch_lookahead = prefetch[1],
                                  !.search.prefetch_step = prefetch[2]]
        Accuracy(i) == [build |-> i.build, config |-> i.search.buffer_config, set |-> i.search.search_buffer_visited_set]
        IsChange(x) == x # "reset"
        without == [c EXCEPT !.changes = IF Len(@) = 2 /\ ~IsChange(@[1]) THEN <<@[2]>>
                                         ELSE IF @ # <<>> /\ ~IsChange(@[Len(@)]) THEN SubSeq(@, 1, Len(@) - 1) ELSE @]
    IN  /\ answer.value.loaded = IF fits /\ c.version \notin {"next", "name", "window"} THEN {expected} ELSE {}
        /\ Accuracy(index) = Accuracy(ChangedIndex(without))
        /\ window <= index.search.buffer_config.total_capacity

\* A clustering loads as it was saved, with the integers it was saved with and no others, in
\* whichever order the map gave its clusters; an empty one does not load.  When less than its
\* file has reached the disk it is refused, or the earlier one loads that was not touched:
\* unless the file that is there has by chance the size of the earlier one
\* (Clustering::save, load).
ClusteringsLoadAsSaved ==
  Answered("clustering") =>
    LET c == call
        loaded == answer.value.loaded
        whole == c.units >= Len(SavedClustering(c).file)
        left == Smallest(c.units, Len(SavedClustering(c).file))
        unchanged == c.earlier # <<>> /\ left = Len(EarlierClustering(c).file)
    IN  /\ loaded[3 - c.width] = {}
        /\ c.with_table => loaded[c.width] = IF whole /\ c.clustering # <<>> THEN {c.clustering} ELSE {}
        /\ ~c.with_table /\ ~unchanged => loaded[c.width] = {}

\* Cluster n of either strategy has the leaves of the n-th centroid, in order and with their
\* own vectors, and n is the id of that centroid in the primary index; the index assembled
\* from the saved clustering is the one that was built.  The sparse strategy has each leaf
\* once.  Every leaf is prefetched before it is used, and nothing behind the cluster's end
\* (for_each_cluster, packed_leaf_translation, on_leaves, assemble_from_clustering).
ClustersBelongToCentroids ==
  Answered("clusters") =>
    \A indices \in answer.value.indices :
      LET built == indices.built
          Leaves(n) == UNION {{e} : e \in {built.clusters[n][i] : i \in DOMAIN built.clusters[n]}}
      IN  /\ indices.assembled = {built}
          /\ \A n \in DOMAIN built.index_local_to_global :
               /\ built.primary.data[n] = Original4[built.index_local_to_global[n]]
               /\ \A e \in Leaves(n) : e.datum = Original4[e.id]
               /\ \A i \in DOMAIN built.clusters[n] : built.clusters[n][i].prefetched \in i .. Len(built.clusters[n])
               /\ call.clustering # <<>> =>
                    LET elements == call.clustering[built.index_local_to_global[n]]
                    IN  [i \in DOMAIN elements |-> elements[i].id]
                          = [i \in DOMAIN built.clusters[n] |-> built.clusters[n][i].id]
          /\ call.clustering = <<>> =>
               \A n \in DOMAIN built.index_local_to_global : {e.id : e \in Leaves(n)}
                 = (0 .. 3) \ {built.index_local_to_global[m] : m \in DOMAIN built.index_local_to_global}

\* The sparse dataset and the statistics count every leaf as often as they should
\* (SparseClusteredDataset, ClusteringStats, complement).
ClustersAreCounted ==
  Answered("clusters") /\ call.clustering # <<>> =>
    LET c == call.clustering
        sparse == answer.value.sparse
        stats == answer.value.statistics
        Elements == {<<k, i>> \in (DOMAIN c) \X (1 .. 3) : i <= Len(c[k])}
        n == Cardinality(DOMAIN c)
        leaves == Cardinality(Elements)
        SquaresSum == SumOf([i \in 1 .. n |-> Len(for_each_cluster(c)[i]) * Len(for_each_cluster(c)[i])])
    IN  /\ DOMAIN sparse.data = 0 .. Len(complement(c, 4)) - 1
        /\ {sparse.data[l] : l \in DOMAIN sparse.data} = {Original4[complement(c, 4)[i]] : i \in DOMAIN complement(c, 4)}
        /\ stats.num_leaves = leaves /\ total_size(c) = n + leaves
        /\ stats.min_size * n <= leaves /\ leaves <= stats.max_size * n
        /\ stats.squares = n * n * SquaresSum - n * leaves * leaves
        /\ stats.empty_clusters > 0 <=> stats.min_size = 0

\* Centroids that are chosen at random are as many as asked for, different, and in order,
\* unless the random ids run out first (randomly_select_centroids).
CentroidsAreChosen ==
  Answered("clusters") /\ call.clustering = <<>> =>
    LET n == (4 * call.percent) \div 100
        drawn == {call.draws[k] : k \in DOMAIN call.draws}
    IN  /\ answer.value.picked # {} <=> Cardinality(drawn) >= n
        /\ \A ids \in answer.value.picked :
             /\ Len(ids) = n /\ {ids[i] : i \in DOMAIN ids} \subseteq drawn
             /\ \A i, j \in DOMAIN ids : i < j => ids[i] < ids[j]

\* The parameters of an inverted index load as they were saved, with a seed of any value; a
\* count above the largest of a signed integer is refused before anything is written.  A
\* vector in a file of its own loads as elements of its own type and no other; the elements
\* that are missing at its end are zeros (FullUnsigned, BinaryBlobLoader::load).
InvertedLoadsAsSaved ==
  /\ Answered("inverted") =>
       LET c == call
           sound == c.fault.kind = "none"
           touched == ~sound /\ c.fault.place # <<"clustering_parameters">>
       IN  /\ answer.value.build = IF sound /\ c.value <= MaxInt64 THEN {InvertedParameters(c)} ELSE {}
           /\ answer.value.search = IF touched THEN {} ELSE {InvertedSearch(c)}
  /\ Answered("blob") =>
       LET kept == Len(call.vector) - call.cut
       IN  answer.value.loaded = IF kept <= 0 \/ call.as # call.saved THEN {}
                                 ELSE {[i \in DOMAIN call.vector |-> IF i <= kept THEN call.vector[i] ELSE 0]}

\* Everything that is written to disk is loaded as it was, or is refused: saved objects of
\* every class, also when they have to be upgraded, files of vectors in every format, the
\* parameters of indices, and the clustering from which an inverted index is assembled.
LoadsAsSaved ==
  /\ ObjectsLoadAsSaved /\ UpgradesLoadAsSaved /\ FilesLoadAsSaved /\ ParametersLoadAsSaved
  /\ ClusteringsLoadAsSaved /\ ClustersBelongToCentroids /\ ClustersAreCounted /\ CentroidsAreChosen
  /\ InvertedLoadsAsSaved
=============================================================================
