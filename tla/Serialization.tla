---------------------------- MODULE Serialization ----------------------------
(***************************************************************************)
(* Saving an object with its parts into a directory and loading it again   *)
(* as some specialization (include/svs/lib/saveload, core/data/simple.h,   *)
(* quantization/lvq, leanvec/leanvec.h).  An object is a record with its   *)
(* class; its rows are given in canonical form, so that neither strategy   *)
(* nor alignment of LVQ show.  A directory is [config, files]: config is   *)
(* a set of at most one [version, object]; files is a function from names  *)
(* to [uuid, dims, rows].  What loads is a set of at most one object: it   *)
(* is empty when the code throws, or returns an Unexpected.                *)
(***************************************************************************)
EXTENDS Dispatch, FiniteSets, TLC

\* All versions are v0.0.<patch>.
CURRENT_SAVE_VERSION == 2

save_version(schema) ==
  CASE schema \in {"lvq_with_scaling_constants", "two_level_lvq_dataset"} -> 3
    [] schema = "one_level_lvq_dataset" -> 2
    [] OTHER -> 0

SaveTable(schema, at) == [schema |-> schema, version |-> save_version(schema), at |-> at]

-----------------------------------------------------------------------------
\* A context is [generation, written]: which save this is, and the files it has written.
\* Its counter is the number of these.

\* Mutant: names without the counter.
NameOfPrefix(ctx, prefix) == <<prefix>>

generate_name(ctx, prefix) == <<prefix, Len(ctx.written)>>

\* lib::UUID(): one that no other file has.
NewUUID(ctx) == <<ctx.generation, Len(ctx.written)>>

\* io::save, with the header that the writer's destructor writes.
Written(ctx, prefix, dims, rows) ==
  [ctx EXCEPT !.written = Append(@, [name |-> generate_name(ctx, prefix),
                                     file |-> [uuid |-> NewUUID(ctx), dims |-> dims, rows |-> rows]])]

\* Each save returns the table and the context after it.
save_simple(x, ctx) ==
  [ctx |-> Written(ctx, "data", x.dims, x.rows),
   table |-> SaveTable(x.class, [binary_file |-> generate_name(ctx, "data"), dims |-> x.dims, uuid |-> NewUUID(ctx),
                                 num_vectors |-> Len(x.rows), eltype |-> x.eltype])]

\* CompressedVector::compute_bytes, of the sequential packing
total_bytes(bits, dims) == (bits * dims + 7) \div 8

save_compressed(x, ctx) ==
  LET bytes == total_bytes(x.bits, x.dims)
      inner == save_simple([class |-> "uncompressed_data", eltype |-> "byte", dims |-> bytes, rows |-> x.rows], ctx)
  IN  [ctx |-> inner.ctx,
       table |-> SaveTable(x.class, [inner |-> inner.table, kind |-> "compressed dataset", sign |-> x.sign,
                                     bits |-> x.bits, ndims |-> x.dims, data_dims |-> bytes,
                                     num_points |-> Len(x.rows)])]

\* Scale, bias and selector are 5 bytes more.
save_scaled(x, ctx) ==
  [ctx |-> Written(ctx, "lvq_data", 5 + total_bytes(x.bits, x.dims), x.rows),
   table |-> SaveTable(x.class, [kind |-> x.class, binary_file |-> generate_name(ctx, "lvq_data"),
                                 file_uuid |-> NewUUID(ctx), num_vectors |-> Len(x.rows),
                                 logical_dimensions |-> x.dims, bits |-> x.bits])]

SaveLeaf(x, ctx) ==
  CASE x.class = "uncompressed_data" -> save_simple(x, ctx)
    [] x.class = "lvq_compressed_dataset" -> save_compressed(x, ctx)
    [] x.class = "lvq_with_scaling_constants" -> save_scaled(x, ctx)

\* The parts are saved in their order in the table; the other members are values.
SaveParts(x, parts, members, ctx, SavePart(_, _)) ==
  LET upto[i \in 0 .. Len(parts)] ==
        IF i = 0 THEN [ctx |-> ctx, at |-> members]
        ELSE LET saved == SavePart(x[parts[i]], upto[i - 1].ctx)
             IN  [ctx |-> saved.ctx, at |-> upto[i - 1].at @@ (parts[i] :> saved.table)]
      all == upto[Len(parts)]
  IN  [ctx |-> all.ctx, table |-> SaveTable(x.class, all.at)]

save_one_level(x, ctx) == SaveParts(x, <<"primary", "centroids">>, <<>>, ctx, SaveLeaf)

save_two_level(x, ctx) == SaveParts(x, <<"primary", "residual", "centroids">>, <<>>, ctx, SaveLeaf)

save_matrices(x, ctx) == SaveParts(x, <<"data_matrix", "query_matrix">>, <<>>, ctx, SaveLeaf)

SavePart(x, ctx) ==
  CASE x.class = "one_level_lvq_dataset" -> save_one_level(x, ctx)
    [] x.class = "two_level_lvq_dataset" -> save_two_level(x, ctx)
    [] x.class = "leanvec_matrices" -> save_matrices(x, ctx)
    [] OTHER -> SaveLeaf(x, ctx)

save_leanvec(x, ctx) ==
  SaveParts(x, <<"primary", "secondary", "matrices">>, [means |-> x.means, is_pca |-> x.is_pca], ctx, SavePart)

save(x, ctx) == IF x.class = "leanvec_dataset" THEN save_leanvec(x, ctx) ELSE SavePart(x, ctx)

\* What is in the directory after `steps` steps of the save: the files are written one by
\* one, over those of that name, and the table at last.
save_to_disk(x, generation, directory, steps) ==
  LET saved == save(x, [generation |-> generation, written |-> <<>>])
      files == saved.ctx.written
      done == {i \in DOMAIN files : i <= steps}
      Last(name) == files[CHOOSE i \in done : files[i].name = name /\ \A j \in done : files[j].name = name => j <= i]
  IN  [config |-> IF steps > Len(files) THEN {[version |-> CURRENT_SAVE_VERSION, object |-> saved.table]}
                  ELSE directory.config,
       files |-> [name \in {files[i].name : i \in done} |-> Last(name).file] @@ directory.files]

-----------------------------------------------------------------------------
\* ContextFreeNodeView::at: nothing for a missing key.
at(node, key) == {node.at[k] : k \in {key} \cap DOMAIN node.at}

check_compatibility(node, schema) == node.schema = schema /\ node.version = save_version(schema)

find_uuid(directory, uuid) ==
  {directory.files[name] : name \in {name \in DOMAIN directory.files : directory.files[name].uuid = uuid}}

\* MaybeStatic, forward_extent
Holds(extent, dims) == extent \in {Dynamic, dims}

\* GenericSerializer::load, for a type [eltype, extent]
load_simple(type, node, directory) ==
  {[class |-> "uncompressed_data", eltype |-> type.eltype, dims |-> f.dims, rows |-> f.rows] :
     f \in {f \in UNION {find_uuid(directory, u) : u \in at(node, "uuid")} :
              /\ check_compatibility(node, "uncompressed_data")
              /\ at(node, "eltype") = {type.eltype}
              /\ Holds(type.extent, f.dims)}}

\* [sign, bits, extent]
load_compressed(type, node, directory) ==
  LET Inner(t) == load_simple([eltype |-> "byte", extent |-> Dynamic], t, directory)
      dims == {d \in at(node, "ndims") :
                 /\ check_compatibility(node, "lvq_compressed_dataset")
                 /\ at(node, "kind") = {"compressed dataset"}
                 /\ at(node, "sign") = {type.sign} /\ at(node, "bits") = {type.bits}
                 /\ Holds(type.extent, d)}
  IN  UNION {{[class |-> "lvq_compressed_dataset", sign |-> type.sign, bits |-> type.bits, dims |-> d, rows |-> inner.rows]
              : d \in {d \in dims : inner.dims >= total_bytes(type.bits, d)}}
             : inner \in UNION {Inner(t) : t \in at(node, "inner")}}

\* [bits, extent].  The dimensions in the file's header are ignored.
load_scaled(type, node, directory) ==
  LET schema == "lvq_with_scaling_constants"
      dims == {d \in at(node, "logical_dimensions") :
                 /\ check_compatibility(node, schema)
                 /\ at(node, "kind") = {schema} /\ at(node, "bits") = {type.bits}
                 /\ Holds(type.extent, d)}
      files == {f \in UNION {find_uuid(directory, u) : u \in at(node, "file_uuid")} :
                  at(node, "num_vectors") = {Len(f.rows)}}
  IN  {[class |-> schema, bits |-> type.bits, dims |-> d, rows |-> f.rows] : d \in dims, f \in files}

\* load_at of a part
Part(type, node, key, directory, Load(_, _, _)) == UNION {Load(type, t, directory) : t \in at(node, key)}

AnyFloats == [eltype |-> "float32", extent |-> Dynamic]

\* [primary, extent]
load_one_level(type, node, directory) ==
  {[class |-> "one_level_lvq_dataset", primary |-> p, centroids |-> c] :
     p \in {p \in Part([bits |-> type.primary, extent |-> type.extent], node, "primary", directory, load_scaled) :
              check_compatibility(node, "one_level_lvq_dataset")},
     c \in Part(AnyFloats, node, "centroids", directory, load_simple)}

\* What the constructor compares
PartsMatch(primary, residual, centroids) ==
  /\ Len(primary.rows) = Len(residual.rows)
  /\ primary.dims = residual.dims /\ primary.dims = centroids.dims

\* [primary, residual, extent]
load_two_level(type, node, directory) ==
  LET second == [sign |-> "unsigned", bits |-> type.residual, extent |-> type.extent]
      candidates ==
        {[class |-> "two_level_lvq_dataset", primary |-> p, residual |-> r, centroids |-> c] :
           p \in Part([bits |-> type.primary, extent |-> type.extent], node, "primary", directory, load_scaled),
           r \in Part(second, node, "residual", directory, load_compressed),
           c \in Part(AnyFloats, node, "centroids", directory, load_simple)}
  IN  {x \in candidates : /\ check_compatibility(node, "two_level_lvq_dataset")
                          /\ PartsMatch(x.primary, x.residual, x.centroids)}

load_lvq(type, node, directory) ==
  IF type.residual = 0 THEN load_one_level(type, node, directory) ELSE load_two_level(type, node, directory)

MatricesMatch(data, query) == Len(data.rows) = Len(query.rows) /\ data.dims = query.dims

load_matrices(extent, node, directory) ==
  LET type == [eltype |-> "float32", extent |-> extent]
      candidates == {[class |-> "leanvec_matrices", data_matrix |-> d, query_matrix |-> q] :
                       d \in Part(type, node, "data_matrix", directory, load_simple),
                       q \in Part(type, node, "query_matrix", directory, load_simple)}
  IN  {x \in candidates : /\ check_compatibility(node, "leanvec_matrices")
                          /\ MatricesMatch(x.data_matrix, x.query_matrix)}

\* LVQ of one level, or uncompressed
PickContainer(kind, extent) ==
  CASE kind = "lvq8" -> [primary |-> 8, extent |-> extent]
    [] kind = "lvq4" -> [primary |-> 4, extent |-> extent]
    [] OTHER -> [eltype |-> kind, extent |-> extent]

load_container(type, node, directory) ==
  IF "primary" \in DOMAIN type THEN load_one_level(type, node, directory) ELSE load_simple(type, node, directory)

Dims(x) == IF x.class = "uncompressed_data" THEN x.dims ELSE x.primary.dims

\* What the constructor compares
DimsMatch(primary, secondary, matrices) ==
  Dims(primary) = matrices.data_matrix.dims /\ Dims(secondary) = Len(matrices.data_matrix.rows)

\* [primary, secondary, leanvec_dims, extent]
load_leanvec(type, node, directory) ==
  LET candidates ==
        {[class |-> "leanvec_dataset", primary |-> p, secondary |-> s, matrices |-> m, means |-> mean, is_pca |-> pca] :
           p \in Part(PickContainer(type.primary, type.leanvec_dims), node, "primary", directory, load_container),
           s \in Part(PickContainer(type.secondary, type.extent), node, "secondary", directory, load_container),
           m \in Part(type.leanvec_dims, node, "matrices", directory, load_matrices),
           mean \in at(node, "means"), pca \in at(node, "is_pca")}
  IN  {x \in candidates : /\ check_compatibility(node, "leanvec_dataset")
                          /\ DimsMatch(x.primary, x.secondary, x.matrices)}

\* begin_deserialization with check_global_version
Objects(directory) == {c.object : c \in {c \in directory.config : c.version = CURRENT_SAVE_VERSION}}

load_from_disk(type, directory) ==
  UNION {CASE type.class = "uncompressed_data" -> load_simple(type, node, directory)
           [] type.class = "lvq_compressed_dataset" -> load_compressed(type, node, directory)
           [] type.class = "lvq_dataset" -> load_lvq(type, node, directory)
           [] type.class = "leanvec_dataset" -> load_leanvec(type, node, directory)
         : node \in Objects(directory)}

-----------------------------------------------------------------------------
\* What a directory holds, when no specialization is given.

\* data::Matcher
match_simple(node) ==
  {[eltype |-> t, dims |-> d] : t \in {t \in at(node, "eltype") : check_compatibility(node, "uncompressed_data")},
                                d \in at(node, "dims")}

\* lvq::DatasetSummary
summarize(node) ==
  {[bits |-> b, dims |-> d] :
     b \in at(node, "bits"),
     d \in (IF check_compatibility(node, "lvq_compressed_dataset") /\ at(node, "sign") # {} THEN at(node, "ndims")
            ELSE IF check_compatibility(node, "lvq_with_scaling_constants") THEN at(node, "logical_dimensions")
            ELSE {})}

\* lvq::Matcher
match_lvq(node) ==
  LET Summaries(key) == UNION {summarize(t) : t \in at(node, key)}
  IN  CASE check_compatibility(node, "one_level_lvq_dataset") ->
             {[primary |-> p.bits, residual |-> 0, dims |-> p.dims] : p \in Summaries("primary")}
        [] check_compatibility(node, "two_level_lvq_dataset") ->
             {[primary |-> p.bits, residual |-> r.bits, dims |-> p.dims] :
                p \in Summaries("primary"), r \in Summaries("residual")}
        [] OTHER -> {}

\* leanvec::Matcher::detect_data: the bits of the first level say which LVQ it is.
detect_data(node) ==
  {[kind |-> m.eltype, dims |-> m.dims] : m \in {m \in match_simple(node) : m.eltype \in {"float16", "float32"}}}
  \cup {[kind |-> IF m.primary = 4 THEN "lvq4" ELSE "lvq8", dims |-> m.dims] :
          m \in {m \in match_lvq(node) : m.primary \in {4, 8}}}

\* leanvec::Matcher
match_leanvec(node) ==
  LET Detected(key) == UNION {detect_data(t) : t \in at(node, key)}
  IN  {[primary |-> p.kind, leanvec_dims |-> p.dims, secondary |-> s.kind, dims |-> s.dims] :
         p \in {p \in Detected("primary") : check_compatibility(node, "leanvec_dataset")},
         s \in Detected("secondary")}

\* leanvec::overload_score
overload_score_leanvec(method, data) ==
  LET outer == MatchExtent(method.extent, data.dims, FALSE)
      inner == MatchExtent(method.leanvec_dims, data.leanvec_dims, FALSE)
  IN  IF \/ method.primary # data.primary \/ method.secondary # data.secondary
         \/ outer < 0 \/ inner < 0
      THEN invalid_match
      ELSE outer + inner

\* detail::is_compatible
is_compatible(turbo, strategy) ==
  CASE strategy = "Auto" -> TRUE
    [] strategy = "Sequential" -> ~turbo
    [] strategy = "Turbo" -> turbo

\* ProtoLVQLoader::refine: what remains when it does not throw
refine_lvq(method, data, strategy) ==
  {[class |-> "lvq_dataset"] @@ m :
     m \in {m \in {method} : /\ Holds(m.extent, data.dims)
                             /\ m.primary = data.primary /\ m.residual = data.residual
                             /\ is_compatible(m.turbo, strategy)}}

refine_leanvec(method, data) ==
  {[class |-> "leanvec_dataset"] @@ m :
     m \in {m \in {method} : /\ Holds(m.extent, data.dims) /\ Holds(m.leanvec_dims, data.leanvec_dims)
                             /\ m.primary = data.primary /\ m.secondary = data.secondary}}

\* ProtoLVQLoader(Reload): what it takes from the directory
proto_lvq(directory) == UNION {match_lvq(node) : node \in Objects(directory)}

\* The dispatch of a ProtoLVQLoader to an LVQLoader
convert_lvq(data, methods, strategy) ==
  LET best == BestOf([i \in DOMAIN methods |-> <<overload_score(methods[i], data, strategy)>>])
  IN  IF best = 0 THEN {} ELSE refine_lvq(methods[best], data, strategy)

\* LVQLoader::load of the loader that is dispatched to
reload_lvq(directory, methods, strategy) ==
  UNION {load_from_disk(type, directory) :
           type \in UNION {convert_lvq(data, methods, strategy) : data \in proto_lvq(directory)}}

\* ProtoLeanVecLoader(Reload)
proto_leanvec(directory) == UNION {match_leanvec(node) : node \in Objects(directory)}

convert_leanvec(data, methods) ==
  LET best == BestOf([i \in DOMAIN methods |-> <<overload_score_leanvec(methods[i], data)>>])
  IN  IF best = 0 THEN {} ELSE refine_leanvec(methods[best], data)

\* LeanVecLoader::load
reload_leanvec(directory, methods) ==
  UNION {load_from_disk(type, directory) :
           type \in UNION {convert_leanvec(data, methods) : data \in proto_leanvec(directory)}}

-----------------------------------------------------------------------------
(***************************************************************************)
(* Upgrading saved objects (bindings/python/src/svs/upgrader.py): tables   *)
(* of global version v0.0.1 have no schemas.  Each is given the one that   *)
(* its version and its keys tell (data/serialization.toml), the inner      *)
(* tables first.  A key has one type in all schemas of that key.  What is  *)
(* on disk is [file, backup], each a set of at most one [version, object]; *)
(* a file that was cut off is none.                                        *)
(***************************************************************************)

Schema(name, version, keys) == [name |-> name, version |-> version, leaves |-> keys, optional |-> {}]

\* The schemas of the objects of Serialization, and two that differ from them in little.
Schemas ==
  {Schema("uncompressed_data", 0, {"binary_file", "dims", "num_vectors", "uuid", "eltype"}),
   Schema("lvq_compressed_dataset", 0, {"inner", "kind", "sign", "bits", "ndims", "data_dims", "num_points"}),
   Schema("lvq_with_scaling_constants", 3,
          {"kind", "binary_file", "file_uuid", "num_vectors", "logical_dimensions", "bits"}),
   Schema("one_level_lvq_dataset", 2, {"primary", "centroids"}),
   Schema("two_level_lvq_dataset", 2, {"primary", "residual", "centroids"}),
   Schema("leanvec_matrices", 0, {"data_matrix", "query_matrix"}),
   Schema("leanvec_dataset", 0, {"primary", "secondary", "matrices", "means", "is_pca"}),
   Schema("benchmark_dataset_lvq", 0, {"primary", "residual", "strategy"}),
   [Schema("benchmark_expected_result", 0, {"dataset", "distance", "config_and_recall", "build_parameters"})
      EXCEPT !.optional = {"build_parameters"}]}

required_keys(schema) == schema.leaves \ schema.optional

\* Schema.is_match
is_match(schema, target) ==
  /\ target.version = schema.version
  /\ DOMAIN target.at \subseteq schema.leaves
  /\ required_keys(schema) \subseteq DOMAIN target.at

\* SchemaList.match: exactly one, or it raises.
match(target) ==
  LET matches == {schema.name : schema \in {s \in Schemas : is_match(s, target)}}
  IN  IF Cardinality(matches) = 1 THEN matches ELSE {}

TableKeys == {"primary", "secondary", "residual", "centroids", "matrices", "data_matrix", "query_matrix", "inner"}

Inner(table) == {table.at[key] : key \in DOMAIN table.at \cap TableKeys}

\* A table with all that are in it; they are nested four deep at most.
Nested(table) ==
  LET second == Inner(table)
      third == UNION {Inner(t) : t \in second}
  IN  {table} \cup second \cup third \cup UNION {Inner(t) : t \in third}

\* A table with another form and all inner ones with it.
Reformed(table, Form(_, _)) ==
  LET WithInner(t, New(_)) ==
        Form(t, [key \in DOMAIN t.at |-> IF key \in TableKeys THEN New(t.at[key]) ELSE t.at[key]])
      Leaf(t) == Form(t, t.at)
      Third(t) == WithInner(t, Leaf)
      Second(t) == WithInner(t, Third)
  IN  WithInner(table, Second)

Named(table, members) ==
  [schema |-> CHOOSE name \in match(table) : TRUE, version |-> table.version, at |-> members]

\* SchemaList.transform: {} if it raises anywhere.
transform(object) ==
  IF \A t \in Nested(object) : match(t) # {} THEN {Reformed(object, Named)} ELSE {}

\* upgrade, up to the given step: the copy, emptying the file, writing it.
upgrade(disk, backup, steps) ==
  LET old == {f \in disk.file : f.version = 1}
      new == {[version |-> 2, object |-> o] : o \in UNION {transform(f.object) : f \in old}}
      refused == new = {} \/ (backup /\ disk.backup # {})
      Copied == IF backup /\ steps > 0 THEN old ELSE disk.backup
  IN  IF refused THEN disk
      ELSE [file |-> IF steps < 2 THEN disk.file ELSE IF steps = 2 THEN {} ELSE new, backup |-> Copied]
=============================================================================
