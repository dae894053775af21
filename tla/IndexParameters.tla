---------------------------- MODULE IndexParameters ----------------------------
(***************************************************************************)
(* The parameters of a Vamana index: their defaults, how they are set, and *)
(* how they are saved and loaded, also from tables of earlier versions     *)
(* (index/vamana/build_parameters.h, search_params.h, index.h,             *)
(* dynamic_index.h, orchestrators/vamana.h).  Static and dynamic indices   *)
(* are records [kind, entry_point, build, search, max_degree, data,        *)
(* translator]; a static index has no translator, and a dynamic one takes  *)
(* its maximum degree from the graph.  alpha is in tenths.  What loads is  *)
(* a set of at most one, empty when the code throws.                       *)
(***************************************************************************)
EXTENDS Serialization

\* All versions are v0.0.<patch>; these tables are written with another than save_version.
Versioned(schema, version, members) == [SaveTable(schema, members) EXCEPT !.version = version]

\* check_load_compatibility: the current version and all before it
CanLoad(node, schema, current_version) == node.schema = schema /\ node.version <= current_version

-----------------------------------------------------------------------------
\* SearchBufferConfig of one argument, and of two: nothing if it throws.
Window(size) == [search_window_size |-> size, total_capacity |-> size]

SearchBufferConfig(size, capacity_) ==
  {c \in {[search_window_size |-> size, total_capacity |-> capacity_]} : size <= capacity_}

VamanaSearchParameters(config, visited, lookahead, step) ==
  [buffer_config |-> config, search_buffer_visited_set |-> visited,
   prefetch_lookahead |-> lookahead, prefetch_step |-> step]

save_search(p) ==
  Versioned("vamana_search_parameters", 1,
            [search_window_size |-> p.buffer_config.search_window_size,
             search_buffer_capacity |-> p.buffer_config.total_capacity,
             search_buffer_visited_set |-> p.search_buffer_visited_set,
             prefetch_lookahead |-> p.prefetch_lookahead, prefetch_step |-> p.prefetch_step])

ConfigAt(node) ==
  UNION {SearchBufferConfig(w, c) : w \in at(node, "search_window_size"), c \in at(node, "search_buffer_capacity")}

load_search_legacy(node) ==
  {VamanaSearchParameters(c, v, 4, 1) : c \in ConfigAt(node), v \in at(node, "search_buffer_visited_set")}

load_search(node) ==
  IF ~CanLoad(node, "vamana_search_parameters", 1) THEN {}
  ELSE IF node.version < 1 THEN load_search_legacy(node)
  ELSE {VamanaSearchParameters(c, v, l, s) :
          c \in ConfigAt(node), v \in at(node, "search_buffer_visited_set"),
          l \in at(node, "prefetch_lookahead"), s \in at(node, "prefetch_step")}

-----------------------------------------------------------------------------
VamanaBuildParameters(alpha, degree, window, candidates, prune_to, history) ==
  [alpha |-> alpha, graph_max_degree |-> degree, window_size |-> window, max_candidate_pool_size |-> candidates,
   prune_to |-> prune_to, use_full_search_history |-> history]

save_build(p) == Versioned("vamana_build_parameters", 1, [name |-> "vamana build parameters"] @@ p)

\* A table of v0.0.0 has no prune_to.
PruneTo(node) == IF node.version > 0 THEN at(node, "prune_to") ELSE at(node, "graph_max_degree")

load_build(node) ==
  {VamanaBuildParameters(a, d, w, c, p, h) :
     a \in {a \in at(node, "alpha") : CanLoad(node, "vamana_build_parameters", 1)},
     d \in at(node, "graph_max_degree"), w \in at(node, "window_size"), c \in at(node, "max_candidate_pool_size"),
     p \in PruneTo(node), h \in at(node, "use_full_search_history")}

-----------------------------------------------------------------------------
save_parameters(p) ==
  Versioned("vamana_index_parameters", 3,
            [name |-> "vamana index parameters", entry_point |-> p.entry_point,
             build_parameters |-> save_build(p.build), search_parameters |-> save_search(p.search)])

\* What a table may lack is replaced.
AtOr(node, key, default) == IF at(node, key) = {} THEN {default} ELSE at(node, key)

\* VamanaIndexParameters::load_legacy
load_parameters_legacy(node) ==
  {[entry_point |-> e, search |-> VamanaSearchParameters(Window(s), v, 4, 1),
    build |-> VamanaBuildParameters(a, d, w, c, p, h)] :
     e \in {e \in at(node, "entry_point") : at(node, "name") = {"vamana config parameters"}},
     a \in at(node, "alpha"), d \in at(node, "max_out_degree"), w \in at(node, "construction_window_size"),
     c \in at(node, "max_candidates"),
     p \in UNION {AtOr(node, "prune_to", d) : d \in at(node, "max_out_degree")},
     h \in AtOr(node, "use_full_search_history", TRUE),
     s \in at(node, "default_search_window_size"), v \in at(node, "visited_set")}

load_parameters(node) ==
  IF ~CanLoad(node, "vamana_index_parameters", 3) THEN {}
  ELSE IF node.version <= 2 THEN load_parameters_legacy(node)
  ELSE {[entry_point |-> e, build |-> b, search |-> s] :
          e \in {e \in at(node, "entry_point") : at(node, "name") = {"vamana index parameters"}},
          b \in UNION {load_build(t) : t \in at(node, "build_parameters")},
          s \in UNION {load_search(t) : t \in at(node, "search_parameters")}}

-----------------------------------------------------------------------------
Prefetch(lookahead, step) == [lookahead |-> lookahead, step |-> step]

\* The default of the extension, by the bytes of a vector.
EstimateOfBytes(bytes) ==
  CASE bytes >= 4096 -> Prefetch(0, 0)
    [] bytes \in 1024 .. 4095 -> Prefetch(1, 1)
    [] bytes \in 256 .. 1023 -> Prefetch(4, 2)
    [] bytes \in 129 .. 255 -> Prefetch(8, 1)
    [] OTHER -> Prefetch(16, 1)

EstimateOfLVQ(data) ==
  IF data.bits # 4 THEN Prefetch(1, 1) ELSE IF data.turbo THEN Prefetch(3, 1) ELSE Prefetch(2, 1)

estimate_prefetch_parameters(data) ==
  CASE data.kind = "simple" -> EstimateOfBytes(data.bytes)
    [] data.kind = "lvq" -> EstimateOfLVQ(data)
    [] data.kind = "leanvec" -> Prefetch(1, 1)

construct_default_search_parameters(data) ==
  LET default == estimate_prefetch_parameters(data)
  IN  VamanaSearchParameters(Window(0), FALSE, default.lookahead, default.step)

\* The constructor from parts: the construction parameters are zero.
VamanaIndex(data, degree, entry_point) ==
  [kind |-> "static", entry_point |-> entry_point, build |-> VamanaBuildParameters(0, 0, 0, 0, 0, TRUE),
   search |-> construct_default_search_parameters(data), max_degree |-> degree, data |-> data, translator |-> <<>>]

auto_build(parameters, data, entry_point) ==
  [VamanaIndex(data, parameters.graph_max_degree, entry_point) EXCEPT !.build = parameters]

\* A dynamic index built from scratch
MutableVamanaIndex(parameters, data, entry_point, translator) ==
  [auto_build(parameters, data, entry_point) EXCEPT !.kind = "dynamic", !.translator = translator]

apply_parameters(index, p) == [index EXCEPT !.entry_point = p.entry_point, !.build = p.build, !.search = p.search]

\* The setters of search parameters: get, change and set (Vamana, DynamicVamana).
ChangedSearch(search, what, value) ==
  CASE what = "search_window_size" -> [search EXCEPT !.buffer_config = Window(value)]
    [] what = "visited_set" -> [search EXCEPT !.search_buffer_visited_set = value]
    [] what = "search_parameters" -> value

\* The member of the construction parameters that a setter sets
Member(what) ==
  CASE what = "alpha" -> "alpha" [] what = "construction_window_size" -> "window_size"
    [] what = "max_candidates" -> "max_candidate_pool_size"
    [] what = "full_search_history" -> "use_full_search_history"

Changed(index, what, value) ==
  IF what \in {"search_window_size", "visited_set", "search_parameters"}
  THEN [index EXCEPT !.search = ChangedSearch(@, what, value)]
  ELSE [index EXCEPT !.build[Member(what)] = value]

reset_performance_parameters(index) ==
  LET default == estimate_prefetch_parameters(index.data)
  IN  [index EXCEPT !.search.prefetch_lookahead = default.lookahead, !.search.prefetch_step = default.step]

-----------------------------------------------------------------------------
save_static(index) == save_parameters([entry_point |-> index.entry_point, build |-> index.build, search |-> index.search])

\* IDTranslator::save; the file is part of the table here.
save_translator(translator) ==
  SaveTable("external_to_internal_translation",
            [kind |-> "external to internal id translation", num_points |-> Len(translator),
             external_id_type |-> "uint64", internal_id_type |-> "uint32", filename |-> translator])

\* The rest of the save consolidates and compacts first, so that the internal ids are dense.
save_dynamic(index) ==
  LET build == [index.build EXCEPT !.graph_max_degree = index.max_degree]
      parameters == [entry_point |-> index.entry_point, build |-> build, search |-> index.search]
  IN  SaveTable("vamana_dynamic_auxiliary_parameters",
                [name |-> "dynamic vamana index", parameters |-> save_parameters(parameters),
                 translation |-> save_translator(index.translator)])

save_index(index) == IF index.kind = "static" THEN save_static(index) ELSE save_dynamic(index)

-----------------------------------------------------------------------------
\* The data and the graph are [size, data] and [size, max_degree].
auto_assemble(table, graph, data) ==
  {apply_parameters(VamanaIndex(data.data, graph.max_degree, 0), p) : p \in load_parameters(table)}

\* IDTranslator::load reads num_points of the file.
load_translator(node) ==
  {[i \in 1 .. n |-> t[i]] :
     t \in {t \in at(node, "filename") :
              /\ CanLoad(node, "external_to_internal_translation", 0)
              /\ at(node, "kind") = {"external to internal id translation"}
              /\ at(node, "external_id_type") = {"uint64"} /\ at(node, "internal_id_type") = {"uint32"}},
     n \in at(node, "num_points")}

Identity(size_) == [i \in 1 .. size_ |-> i - 1]

\* VamanaStateLoader::load.  Without the flag a static index's table has no "parameters".
load_state(table, debug_load_from_static, size_) ==
  IF ~(CanLoad(table, "vamana_index_parameters", 3) \/ CanLoad(table, "vamana_dynamic_auxiliary_parameters", 0)) THEN {}
  ELSE IF debug_load_from_static
  THEN {[parameters |-> p, translator |-> Identity(size_)] : p \in load_parameters(table)}
  ELSE {[parameters |-> p, translator |-> t] :
          p \in UNION {load_parameters(q) : q \in at(table, "parameters")},
          t \in UNION {load_translator(q) : q \in at(table, "translation")}}

\* The constructor that follows a reload
Assembled(parameters, graph, data, translator) ==
  [kind |-> "dynamic", entry_point |-> parameters.entry_point, search |-> parameters.search,
   build |-> parameters.build, max_degree |-> graph.max_degree, data |-> data.data, translator |-> translator]

\* A translator that is a sequence has the internal ids below its length.
auto_dynamic_assemble(table, graph, data, debug_load_from_static) ==
  {Assembled(s.parameters, graph, data, s.translator) :
     s \in {s \in load_state(table, debug_load_from_static, data.size) :
              data.size = graph.size /\ Len(s.translator) = data.size}}
=============================================================================
