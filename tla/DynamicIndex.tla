---------------------------- MODULE DynamicIndex ----------------------------
(***************************************************************************)
(* The mutable graph index: MutableVamanaIndex of                          *)
(* include/svs/index/vamana/dynamic_index.h.                               *)
(*                                                                         *)
(* Points live in slots.  A slot has a status, a datum and a row of the    *)
(* proximity graph; a translator maps the user's ids to slots and back.    *)
(* Slot k of this module is slot k - 1 of the code.  Distances are not     *)
(* modelled: wherever the code searches or prunes, any result that the     *)
(* graph allows is a behaviour.  An operation is one step, with one action *)
(* for each way it can end.                                                *)
(* Bounds: MaxSlots slots, requests of at most MaxRequest ids.             *)
(***************************************************************************)
EXTENDS Naturals, Sequences, FiniteSets, IDTranslator

LOCAL INSTANCE TLC

CONSTANTS
  ExternalIds,  \* the ids the user may choose
  Points,       \* the points the user may store
  InitialSize,  \* size of the dataset the index is built from
  MaxSlots, MaxRequest,
  MaxDegree,    \* graph_max_degree
  PruneTo,      \* prune_to
  BatchSize,    \* batch_size of compact
  NoPoint, NoEntry

ASSUME DynamicIndexAssumption ==
  /\ InitialSize \in Nat \ {0}
  /\ MaxSlots \in Nat /\ InitialSize <= MaxSlots
  /\ MaxRequest \in Nat
  /\ MaxDegree \in Nat \ {0}
  /\ PruneTo \in 1 .. MaxDegree
  /\ BatchSize \in Nat \ {0}
  /\ NoPoint \notin Points
  /\ NoEntry \notin Nat

VARIABLES
  status,      \* SlotMetadata of every slot
  data,        \* the datum in every slot
  graph,       \* the adjacency list of every slot, as a set of slots
  translator,
  entry_point

vars == <<status, data, graph, translator, entry_point>>

Slots == DOMAIN status

With(s) == {i \in Slots : status[i] = s}

Valid == With("Valid")

is_deleted(i) == status[i] # "Valid"

-----------------------------------------------------------------------------
(* The graph.                                                              *)

\* Sets of at most n elements.
AtMost(S, n) == {T \in SUBSET S : Cardinality(T) <= n}

\* The lists heuristic_prune_neighbors can return for a node and a pool: the nearest
\* candidate that is not the node itself always gets in.
Pruned(pool, node, n) ==
  {T \in AtMost(pool \ {node}, n) : T = {} => pool \subseteq {node}}

\* What a search over graph g that starts at slot ep can come across.
Reachable(g, ep) ==
  LET Step(S) == S \cup UNION {g[i] : i \in S}
      reach[k \in 0 .. Len(g)] == IF k = 0 THEN {ep} ELSE Step(reach[k - 1])
  IN  reach[Len(g)]

\* The graphs after the builder has linked `node` into g: the node gets a pruned
\* list of what the search found and of its old neighbors, then every member of that
\* list an edge back.  A list that is full is pruned again.
Linked(g, ep, node) ==
  LET back(o) == IF Cardinality(g[o] \cup {node}) <= MaxDegree
                 THEN {g[o] \cup {node}}
                 ELSE Pruned(g[o] \cup {node}, o, PruneTo)
  IN  UNION {
        {[i \in DOMAIN g |-> IF i = node THEN list ELSE IF i \in list THEN f[i] ELSE g[i]] :
           f \in {f \in [list -> UNION {back(o) : o \in list}] :
                    \A o \in list : f[o] \in back(o)}} :
        list \in Pruned(Reachable(g, ep) \cup g[node], node, MaxDegree)}

\* construct, on the slots in the given order: requests this small are built in
\* batches of one node.
Constructed(g, ep, slots) ==
  LET after[k \in 0 .. Len(slots)] ==
        IF k = 0 THEN {g} ELSE UNION {Linked(h, ep, slots[k]) : h \in after[k - 1]}
  IN  after[Len(slots)]

-----------------------------------------------------------------------------
Requests == UNION {[1 .. n -> ExternalIds] : n \in 1 .. MaxRequest}

\* The points that may come with a request.
PointsFor(ids) == [1 .. Len(ids) -> Points]

Ascending(s) == \A j, k \in DOMAIN s : j < k => s[j] < s[k]

\* The set S in ascending order.
Sorted(S) == CHOOSE s \in [1 .. Cardinality(S) -> S] : Elements(s) = S /\ Ascending(s)

\* The graphs the builder makes of n points, in its two passes over all of them.
Built(n, ep) ==
  LET all == [i \in 1 .. n |-> i]
  IN  UNION {Constructed(g, ep, all) : g \in Constructed([i \in 1 .. n |-> {}], ep, all)}

\* The index is built from data with the ids in `ids`.
Init ==
  /\ status = [i \in 1 .. InitialSize |-> "Valid"]
  /\ data \in [1 .. InitialSize -> Points]
  /\ entry_point \in 1 .. InitialSize
  /\ graph \in Built(InitialSize, entry_point)
  /\ \E ids \in [1 .. InitialSize -> ExternalIds] :
       /\ all_unique(ids)
       /\ translator = insert(EmptyTranslator, ids, [i \in 1 .. InitialSize |-> i])

-----------------------------------------------------------------------------
(* add_points                                                              *)

\* The empty slots found for n new points.  The search for them looks at n only after
\* it has looked at a slot: asked for none, it stops at a first slot that is in use,
\* and else goes on to the end.
EmptySlots(n) ==
  LET empty == Sorted(With("Empty"))
  IN  IF n >= Len(empty) \/ (n = 0 /\ 1 \in With("Empty")) THEN empty
      ELSE SubSeq(empty, 1, n)

\* The slots for n new points: empty ones, then new ones at the end.
SlotsFor(n) ==
  LET empty == EmptySlots(n)
  IN  empty \o [k \in 1 .. n - Len(empty) |-> Len(status) + k]

\* The number of slots after the resize for n new points.
SizeFor(n) == Len(status) + n - Len(EmptySlots(n))

\* A vector of slots, resized.
Resized(vector, n, value) ==
  [i \in 1 .. n |-> IF i <= Len(vector) THEN vector[i] ELSE value]

AddPoints(ids, points) ==
  LET slots == SlotsFor(Len(ids))
      n     == SizeFor(Len(ids))
  IN  /\ n <= MaxSlots
      /\ entry_point # NoEntry
      /\ InsertOK(translator, ids, slots)
      /\ translator' = insert(translator, ids, slots)
      /\ data' = [i \in 1 .. n |->
                    IF i \in Elements(slots) THEN PartnerOf(i, slots, points) ELSE data[i]]
      /\ graph' \in Constructed(
                      [i \in 1 .. n |-> IF i \in Elements(slots) THEN {} ELSE graph[i]],
                      entry_point, slots)
      /\ status' = [i \in 1 .. n |-> IF i \in Elements(slots) THEN "Valid" ELSE status[i]]
      /\ UNCHANGED entry_point

\* The translator refuses the ids, and the resize before it is not undone.
AddPointsRefused(ids) ==
  LET n == SizeFor(Len(ids))
  IN  /\ n <= MaxSlots
      /\ ~InsertOK(translator, ids, SlotsFor(Len(ids)))
      /\ status' = Resized(status, n, "Empty")
      /\ data' = Resized(data, n, NoPoint)
      /\ graph' = Resized(graph, n, {})
      /\ UNCHANGED <<translator, entry_point>>

-----------------------------------------------------------------------------
(* delete_entries: ids that do not exist are refused before anything happens. *)

\* Mutant: the slots are free at once.
DeleteHard(ids) ==
  /\ check_external_exist(translator, ids)
  /\ status' = [i \in Slots |->
                  IF \E k \in DOMAIN ids : translator.e2i[ids[k]] = i THEN "Empty"
                  ELSE status[i]]
  /\ translator' = delete_external(translator, ids)
  /\ UNCHANGED <<data, graph, entry_point>>

DeleteEntries(ids) ==
  /\ check_external_exist(translator, ids)
  /\ status' = [i \in Slots |->
                  IF \E k \in DOMAIN ids : translator.e2i[ids[k]] = i THEN "Deleted"
                  ELSE status[i]]
  /\ translator' = delete_external(translator, ids)
  /\ UNCHANGED <<data, graph, entry_point>>

-----------------------------------------------------------------------------
(* consolidate                                                             *)

\* compute_entry_point over the valid slots; it finds none if there is none.
NewEntryPoints == IF Valid = {} THEN {NoEntry} ELSE Valid

\* populate_candidates and filter_candidates
Candidates(i) ==
  {j \in graph[i] \cup UNION {graph[d] : d \in {d \in graph[i] : is_deleted(d)}} :
     ~is_deleted(j)}

\* Mutant: all_of for any_of.
NeedsUpdateIfCutOff == {i \in Valid : graph[i] # {} /\ \A j \in graph[i] : is_deleted(j)}

NeedsUpdate == {i \in Valid : \E j \in graph[i] : is_deleted(j)}

\* The updates of the whole graph.  heuristic_prune_neighbors returns before it
\* clears its result if the pool is empty: the node then gets the list that its
\* thread computed last for another node, if it did one.  A thread goes through its
\* nodes in ascending order; which ones it gets depends on the timing.
Updates ==
  {u \in [NeedsUpdate -> AtMost(Valid, PruneTo)] :
     \A i \in NeedsUpdate :
       IF Candidates(i) # {}
       THEN u[i] \in Pruned(Candidates(i), i, PruneTo)
       ELSE \/ u[i] = {}
            \/ \E j \in NeedsUpdate : j < i /\ Candidates(j) # {} /\ u[i] = u[j]}

Consolidate ==
  /\ entry_point # NoEntry
  /\ IF status[entry_point] = "Deleted"
     THEN entry_point' \in NewEntryPoints
     ELSE UNCHANGED entry_point
  /\ \E u \in Updates :
       graph' = [i \in Slots |-> IF i \in NeedsUpdate THEN u[i] ELSE graph[i]]
  /\ status' = [i \in Slots |-> IF status[i] = "Deleted" THEN "Empty" ELSE status[i]]
  /\ UNCHANGED <<data, translator>>

-----------------------------------------------------------------------------
(* compact                                                                 *)

new_to_old_id_map == Sorted(Valid)

OldToNew(i) == CHOOSE k \in DOMAIN new_to_old_id_map : new_to_old_id_map[k] = i

\* Slot i links to a slot that old_to_new_id_map does not have.
Dangling(i) == \E j \in graph[i] : is_deleted(j)

\* The row that goes to new slot k.
CompactedRow(k) == {OldToNew(j) : j \in graph[new_to_old_id_map[k]]}

\* What remap_internal_id, called for one slot after the other, makes of the translator.
CompactedTranslator ==
  [e2i |-> [e \in DOMAIN translator.e2i |-> OldToNew(translator.e2i[e])],
   i2e |-> [k \in DOMAIN new_to_old_id_map |-> translator.i2e[new_to_old_id_map[k]]]]

\* Mutant: the data stay where they are.
CompactedAllButData ==
  LET n == Len(new_to_old_id_map)
  IN  /\ \A i \in Valid : ~Dangling(i)
      /\ data' = [k \in 1 .. n |-> data[k]]
      /\ graph' = [k \in 1 .. n |-> CompactedRow(k)]
      /\ status' = [k \in 1 .. n |-> "Valid"]
      /\ translator' = CompactedTranslator

\* All of compact but its last statement, which looks up the entry point.
Compacted ==
  LET n == Len(new_to_old_id_map)
  IN  /\ \A i \in Valid : ~Dangling(i)
      /\ data' = [k \in 1 .. n |-> data[new_to_old_id_map[k]]]
      /\ graph' = [k \in 1 .. n |-> CompactedRow(k)]
      /\ status' = [k \in 1 .. n |-> "Valid"]
      /\ translator' = CompactedTranslator

Compact ==
  /\ Compacted
  /\ entry_point \in Valid
  /\ entry_point' = OldToNew(entry_point)

\* old_to_new_id_map does not have the entry point: too late.
CompactLosesEntryPoint ==
  /\ Compacted
  /\ entry_point \notin Valid
  /\ UNCHANGED entry_point

\* old_to_new_id_map.at throws for a list that links to a slot that goes away.  The
\* data have been moved by then, and the graph up to the batch with that list.
CompactFails ==
  LET n    == Len(new_to_old_id_map)
      bad  == {k \in 1 .. n : Dangling(new_to_old_id_map[k])}
      done == {k \in 1 .. n : \A b \in bad : (k - 1) \div BatchSize < (b - 1) \div BatchSize}
  IN  /\ bad # {}
      /\ data' = [k \in Slots |-> IF k <= n THEN data[new_to_old_id_map[k]] ELSE data[k]]
      /\ graph' = [k \in Slots |-> IF k \in done THEN CompactedRow(k) ELSE graph[k]]
      /\ UNCHANGED <<status, translator, entry_point>>

-----------------------------------------------------------------------------
\* The calls the index is made for: no request is empty, the ids of a delete are
\* unique and leave something in the index, and compact follows consolidate.
Next ==
  \/ \E ids \in Requests :
       \/ \E points \in PointsFor(ids) : AddPoints(ids, points)
       \/ AddPointsRefused(ids)
       \/ /\ all_unique(ids)
          /\ Len(ids) < Cardinality(Valid)
          /\ DeleteEntries(ids)
  \/ Consolidate
  \/ With("Deleted") = {} /\ Compact

Spec == Init /\ [][Next]_vars

\* The slots in use are those the translator knows.
InSync == DOMAIN translator.i2e = Valid

\* Everything a caller can do, up to the first call that breaks the index.
AnyNext ==
  /\ InSync
  /\ \/ \E ids \in Requests : DeleteEntries(ids)
     \/ Consolidate
     \/ \E ids \in Requests \cup {<<>>} :
          (\E points \in PointsFor(ids) : AddPoints(ids, points)) \/ AddPointsRefused(ids)
     \/ Compact
     \/ CompactLosesEntryPoint
     \/ CompactFails

AnySpec == Init /\ [][AnyNext]_vars

-----------------------------------------------------------------------------
(* Properties.                                                             *)

\* The ranges of the variables; data, graph and status have the same size, which
\* is what debug_check_size tests.
TypeOK ==
  /\ status \in Seq({"Valid", "Deleted", "Empty"})
  /\ data \in [Slots -> Points \cup {NoPoint}]
  /\ graph \in [Slots -> SUBSET Slots]
  /\ DOMAIN translator = {"e2i", "i2e"}
  /\ translator.e2i \in [DOMAIN translator.e2i -> Slots]
  /\ DOMAIN translator.e2i \subseteq ExternalIds
  /\ translator.i2e \in [DOMAIN translator.i2e -> ExternalIds]
  /\ DOMAIN translator.i2e \subseteq Slots
  /\ entry_point \in Slots \cup {NoEntry}

\* The comment on the index's members: "The ID translator should track only valid
\* IDs".  Its two maps are inverse to each other and cover exactly the valid slots,
\* so that size() counts the points and a slot is never given away twice.
TranslatorTracksValid ==
  /\ InSync
  /\ \A i \in Valid : has_external(translator, translator.i2e[i])
                        /\ translator.e2i[translator.i2e[i]] = i
  /\ \A e \in DOMAIN translator.e2i :
       translator.e2i[e] \in Valid /\ translator.i2e[translator.e2i[e]] = e

\* debug_check_graph_consistency: no slot in use links to an empty one.  After a
\* consolidation there are no deleted slots, so then the lists are all valid.
GraphConsistent ==
  \A i \in Slots \ With("Empty") : graph[i] \cap With("Empty") = {}

\* add_edge never assigns a node as its own neighbor, and no other list does: the
\* builder asserts it when it goes through the neighbors of a node.
NoSelfLoops == \A i \in Slots : i \notin graph[i]

\* A search never leaves the slots in use, whatever way it takes through the graph:
\* everything it can find and does not skip as deleted has an id to be returned.
SearchFindsOnlyKnown ==
  entry_point # NoEntry =>
    \A i \in Reachable(graph, entry_point) :
      status[i] # "Deleted" => has_internal(translator, i)

\* The entry point stays usable: it is never an empty slot.
EntryPointUsable == entry_point # NoEntry => status[entry_point] # "Empty"

\* Neither a list in use nor the entry point leads a search to an empty slot.
NothingLeadsToEmpty == GraphConsistent /\ EntryPointUsable

\* What the user stored, as the index would return it.
Store == [e \in DOMAIN translator.e2i |-> data[translator.e2i[e]]]

PS == INSTANCE PointStore WITH Ids <- ExternalIds, store <- Store

\* What each call does to the store.  An add that succeeds stores the given points under
\* the given ids, and all of them; a delete removes the given ids, and nothing else; an add
\* that is refused, consolidate and compact leave it alone, however they move and relink
\* what is in the slots.  (A delete that is refused is no step: it has changed nothing.)
CallsDoTheirPart ==
  /\ \A ids \in Requests :
       /\ \A points \in PointsFor(ids) :
            AddPoints(ids, points) =>
              PS!Add([e \in Elements(ids) |-> PartnerOf(e, ids, points)])
       /\ AddPointsRefused(ids) => PS!Keep
       /\ all_unique(ids) /\ DeleteEntries(ids) => PS!Delete(Elements(ids))
  /\ Consolidate => PS!Keep
  /\ With("Deleted") = {} /\ Compact => PS!Keep

\* The index is a dictionary, and each call does to it what that call is for: no sequence
\* of add_points, delete_entries, consolidate and compact loses a point, gives it to
\* another id, or brings it back after its slot was used again (dynamic_index.h).
ImplementsPointStore == PS!Spec /\ [][CallsDoTheirPart]_vars

\* compact moves the entries of the translator one after the other, and none gets in
\* the way of another: the result is the old translator with every slot replaced by
\* the place compact moves it to.
RemapsDoNotCollide ==
  LET remapped[k \in 0 .. Len(new_to_old_id_map)] ==
        IF k = 0 THEN translator
        ELSE IF new_to_old_id_map[k] = k THEN remapped[k - 1]
        ELSE remap_internal_id(remapped[k - 1], new_to_old_id_map[k], k)
  IN  remapped[Len(new_to_old_id_map)] = CompactedTranslator

\* Ids and slots stay in step: through every operation, and while compact remaps in place.
IdsInStep == TypeOK /\ TranslatorTracksValid /\ RemapsDoNotCollide

\* "If this fails, we still haven't mutated the index data structure": add_points says
\* so of the translator's refusal.  The slots in use stay what they are.
RefusedAddKeepsSlots ==
  [][(\E ids \in Requests \cup {<<>>} : AddPointsRefused(ids)) =>
       \A i \in Slots \ With("Empty") :
         /\ i \in DOMAIN status'
         /\ status'[i] = status[i] /\ data'[i] = data[i] /\ graph'[i] = graph[i]]_vars

\* compact rearranges the points and changes none of them.
CompactKeepsPoints ==
  [][Compact \/ CompactFails => Store' = Store]_vars

\* The assertion in consolidate: the entry point it leaves behind is not deleted.
NewEntryPointIsValid ==
  [][Consolidate => entry_point' \in {i \in DOMAIN status' : status'[i] = "Valid"}]_vars

\* For runs that check invariants only: the ids the user chooses and the points may be
\* exchanged.
Interchangeable == Permutations(ExternalIds) \cup Permutations(Points)
=============================================================================
