------------------------------ MODULE SaveLoad ------------------------------
(***************************************************************************)
(* MutableVamanaIndex::save and auto_dynamic_assemble                      *)
(* (include/svs/index/vamana/dynamic_index.h) over the files they write:   *)
(* three directories, each with a binary file and a table svs_config.toml  *)
(* (lib/saveload, core/io/native.h, core/translation.h).                   *)
(*                                                                         *)
(* A step is what reaches the disk, in the order the streams write it.     *)
(* The program may crash between any two steps, and a write may fail,      *)
(* which the streams keep to themselves.  A record is its position and the *)
(* index it comes from: points, lists and ids with one generation are      *)
(* those of one state of the index.                                        *)
(***************************************************************************)
EXTENDS Integers, Sequences, FiniteSets

CONSTANTS MaxSize,       \* most points of the index
          MaxGeneration, \* bound on the changes of the index
          MaxSaves,      \* bound on the calls of save
          WritesFail     \* whether the disk may fill up

ASSUME SaveAssumption == {MaxSize, MaxGeneration, MaxSaves} \subseteq Nat /\ WritesFail \in BOOLEAN

VARIABLES index,   \* [gen, size]: the index in memory
          disk,    \* directory -> [file, table]: sets with at most one element
          dir,     \* the directory save is at, or "none"
          stage,   \* what it does there: "open", "body", "table" or "write"
          bad,     \* whether the open stream has failed
          order,   \* the order in which the translator enumerates its ids
          saves,   \* calls of save; also the UUID drawn for the files of the call
          faulty,  \* history: a write of this save has failed
          latest   \* history: the index of a save that returned without a fault
                   \* and was the last to touch the disk; {} if there is none

vars == <<index, disk, dir, stage, bad, order, saves, faulty, latest>>

Directories == {"config", "data", "graph"}

ZeroUUID == 0

Enumerations(n) == {s \in [1 .. n -> 0 .. n - 1] : \A i, j \in 1 .. n : i # j => s[i] # s[j]}

\* The k-th record of a file: an id with its slot, or a vector, or a list.
Record(k) == [slot |-> IF dir = "config" THEN order[k] ELSE k - 1, from |-> index]

Put(kind, value) == disk' = [disk EXCEPT ![dir][kind] = value]

\* The file save has just written to, and its body with one more record.
Current == CHOOSE f \in disk[dir].file : TRUE

-----------------------------------------------------------------------------
\* Points are added and deleted; save consolidates and compacts before it writes.
Change ==
  /\ dir = "none" /\ index.gen < MaxGeneration
  /\ \E size \in 1 .. MaxSize : index' = [gen |-> index.gen + 1, size |-> size]
  /\ UNCHANGED <<disk, dir, stage, bad, order, saves, faulty, latest>>

save ==
  /\ dir = "none" /\ saves < MaxSaves
  /\ dir' = "config" /\ stage' = "open" /\ saves' = saves + 1
  /\ order' \in Enumerations(index.size)
  /\ faulty' = FALSE /\ latest' = {}
  /\ UNCHANGED <<index, disk, bad>>

\* Mutant: the writer puts the final header in front at once.
OpenFinal ==
  /\ dir # "none" /\ stage = "open"
  /\ Put("file", {[uuid |-> saves, count |-> index.size, body |-> <<>>]})
  /\ stage' = "body" /\ bad' = FALSE
  /\ UNCHANGED <<index, dir, order, saves, faulty, latest>>

\* Mutant: an existing file is kept and written to at its end.
OpenKept ==
  /\ dir # "none" /\ stage = "open"
  /\ Put("file", {[uuid |-> ZeroUUID, count |-> 0, body |-> IF disk[dir].file = {} THEN <<>> ELSE Current.body]})
  /\ stage' = "body" /\ bad' = FALSE
  /\ UNCHANGED <<index, dir, order, saves, faulty, latest>>

\* open_write truncates, and the writer puts a header without UUID in front.
Open ==
  /\ dir # "none" /\ stage = "open"
  /\ Put("file", {[uuid |-> ZeroUUID, count |-> 0, body |-> <<>>]})
  /\ stage' = "body" /\ bad' = FALSE
  /\ UNCHANGED <<index, dir, order, saves, faulty, latest>>

WriteRecord ==
  /\ stage = "body" /\ ~bad /\ Len(Current.body) < index.size
  /\ Put("file", {[Current EXCEPT !.body = Append(@, Record(Len(@) + 1))]})
  /\ UNCHANGED <<index, dir, stage, bad, order, saves, faulty, latest>>

\* A full disk: whatever is written to this stream from now on is lost.
WriteFails ==
  /\ WritesFail /\ stage \in {"body", "write"} /\ ~bad
  /\ bad' = TRUE /\ faulty' = TRUE
  /\ UNCHANGED <<index, disk, dir, stage, order, saves, latest>>

\* ~Writer: the header with UUID and count, after the body has been flushed by the
\* seek.  The file of the translation has no header.
CloseFile ==
  /\ stage = "body" /\ (bad \/ Len(Current.body) = index.size)
  /\ IF bad \/ dir = "config" THEN UNCHANGED disk
     ELSE Put("file", {[uuid |-> saves, count |-> index.size, body |-> Current.body]})
  /\ stage' = "table" /\ bad' = FALSE
  /\ UNCHANGED <<index, dir, order, saves, faulty, latest>>

\* save_node_to_file truncates svs_config.toml.
OpenTable ==
  /\ stage = "table"
  /\ Put("table", {})
  /\ stage' = "write"
  /\ UNCHANGED <<index, dir, bad, order, saves, faulty, latest>>

NextDirectory == CASE dir = "config" -> "data" [] dir = "data" -> "graph" [] dir = "graph" -> "none"

\* The table is written; an incomplete one does not parse.
WriteTable ==
  /\ stage = "write"
  /\ IF bad THEN UNCHANGED disk
     ELSE Put("table", {[uuid |-> saves, num_points |-> index.size, gen |-> index.gen]})
  /\ dir' = NextDirectory
  /\ stage' = IF dir' = "none" THEN "idle" ELSE "open"
  /\ bad' = FALSE
  /\ latest' = IF dir' = "none" /\ ~faulty /\ ~bad THEN {index} ELSE {}
  /\ UNCHANGED <<index, order, saves, faulty>>

\* The process dies inside save; another one continues with an index of its own.
Crash ==
  /\ dir # "none" /\ index.gen < MaxGeneration
  /\ \E size \in 1 .. MaxSize : index' = [gen |-> index.gen + 1, size |-> size]
  /\ dir' = "none" /\ stage' = "idle" /\ bad' = FALSE
  /\ UNCHANGED <<disk, order, saves, faulty, latest>>

-----------------------------------------------------------------------------
\* find_uuid: the file of the directory with the UUID of the table.
find_uuid(d) == {f \in disk[d].file : \E t \in disk[d].table : f.uuid = t.uuid}

\* The number of vectors comes from the header; a read past the end fails silently.
Nothing == [gen |-> 0, size |-> 0]

Unread == [slot |-> -1, from |-> Nothing]

load_dataset(f) == [k \in 1 .. f.count |-> IF k <= Len(f.body) THEN f.body[k] ELSE Unread]

\* IDTranslator::load: as many pairs as the table says.  A read past the end gives
\* id 0 and slot 0, from no index; the id 0 is taken to be nobody's.
ZeroPair == [slot |-> 0, from |-> Nothing]

insert_translation(f, n) == {IF k <= Len(f.body) THEN f.body[k] ELSE ZeroPair : k \in 1 .. n}

\* data, graph and translator have the same size, and every slot has its id.
Validated(data, graph, translation) ==
  /\ Len(data) = Len(graph)
  /\ Cardinality(translation) = Len(data)
  /\ {p.slot : p \in translation} = 0 .. Len(data) - 1

\* What auto_dynamic_assemble makes of the disk: {} if it throws.
Assembled ==
  {[data |-> load_dataset(d), graph |-> load_dataset(g), table |-> t,
    translation |-> insert_translation(f, t.num_points)] :
     d \in find_uuid("data"), g \in find_uuid("graph"),
     t \in disk["config"].table, f \in {x \in disk["config"].file : x.body # <<>>}}

auto_dynamic_assemble == {a \in Assembled : Validated(a.data, a.graph, a.translation)}

\* The indexes the records of a part come from.
Sources(part) == {part[k].from : k \in DOMAIN part}
-----------------------------------------------------------------------------
Init ==
  /\ \E size \in 1 .. MaxSize : index = [gen |-> 1, size |-> size]
  /\ disk = [d \in Directories |-> [file |-> {}, table |-> {}]]
  /\ dir = "none" /\ stage = "idle" /\ bad = FALSE /\ order = <<>>
  /\ saves = 0 /\ faulty = FALSE /\ latest = {}

Next ==
  \/ Change \/ save \/ Open \/ WriteRecord \/ WriteFails \/ CloseFile \/ OpenTable \/ WriteTable \/ Crash

Spec == Init /\ [][Next]_vars
-----------------------------------------------------------------------------
\* A save that met no fault and returned can be read back, and gives the index that
\* was saved, whatever crashes and failed writes of earlier saves left on the disk.
RoundTrip ==
  \A i \in latest :
    \E a \in auto_dynamic_assemble :
      /\ Len(a.data) = i.size /\ a.table.gen = i.gen
      /\ Sources(a.data) \cup Sources(a.graph) \cup {p.from : p \in a.translation} = {i}

\* A part is whole if it is all of one index, each record in its place.
Whole(part) ==
  \A i \in Sources(part) : part = [k \in 1 .. i.size |-> [slot |-> k - 1, from |-> i]]

\* At whatever point a save was cut off, or a write of it was lost: data and graph
\* that assemble are each of a single save, and complete.  Nothing torn is read.  The
\* three directories are not replaced at once, and generations mix; but they are
\* replaced in one order, so that the parameters that are read are never older than
\* the data, nor the data older than the graph.
PartsAreWhole ==
  \A a \in auto_dynamic_assemble :
    /\ Whole(a.data) /\ Whole(a.graph)
    /\ \A i \in Sources(a.data), j \in Sources(a.graph) : a.table.gen >= i.gen /\ i.gen >= j.gen

\* dynamic_index.h:1205, "At this point, we should be completely validated": what is
\* assembled is one index, so that every id leads to its own point.
AssembledIsOneIndex ==
  \A a \in auto_dynamic_assemble :
    \A i \in Sources(a.data), j \in Sources(a.graph), p \in a.translation :
      a.table.gen = i.gen /\ i = j /\ p.from = i
=============================================================================
