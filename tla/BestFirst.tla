------------------------------ MODULE BestFirst ------------------------------
(***************************************************************************)
(* What a greedy search promises, with no buffer and no filter: everything *)
(* seen is remembered, the nearest node not yet expanded is expanded as    *)
(* long as it is among the nearest, and the nearest nodes seen are         *)
(* returned.  Of nodes as near as one another the one seen first counts    *)
(* as nearer.  Deleted nodes are expanded but neither counted nor          *)
(* returned.                                                               *)
(***************************************************************************)
EXTENDS Integers, Sequences, FiniteSets

CONSTANTS Entry,   \* the node every search starts from
          Missing  \* a result that is not there

VARIABLES index,     \* what is searched: [graph, deleted, window, k]
          dist,      \* distance of every node to the query
          seen,      \* the nodes met by this search, in the order they were met
          pending,   \* what is left of the list being read
          expanded,  \* the nodes whose lists were read
          results    \* the k nearest nodes, once the search is over

vars == <<index, dist, seen, pending, expanded, results>>

Seen == {seen[i] : i \in DOMAIN seen}

Earlier(x, y) == \E i, j \in DOMAIN seen : i < j /\ seen[i] = x /\ seen[j] = y

Nearer(x, y) == dist[x] < dist[y] \/ (dist[x] = dist[y] /\ Earlier(x, y))

\* The nodes before x among those that may be returned.
Before(x) == {y \in Seen \ index.deleted : Nearer(y, x)}

\* The n nearest nodes that are not deleted, and the deleted ones between them.
NearestOf(n) == {x \in Seen : Cardinality(Before(x)) < n}

\* The nodes near enough to be expanded.
Region == NearestOf(index.window)

Open == Region \ expanded

\* Take the nearest open node and read its list.
Expand ==
  /\ results = <<>> /\ pending = <<>>
  /\ \E x \in Open :
       /\ \A y \in Open : ~Nearer(y, x)
       /\ expanded' = expanded \cup {x}
       /\ pending' = index.graph[x]
  /\ UNCHANGED <<index, dist, seen, results>>

\* Meet the next node of the list.
Meet ==
  /\ pending # <<>>
  /\ seen' = IF Head(pending) \in Seen THEN seen ELSE Append(seen, Head(pending))
  /\ pending' = Tail(pending)
  /\ UNCHANGED <<index, dist, expanded, results>>

\* The k nearest; a search that met fewer promises nothing about the rest.
Return ==
  /\ results = <<>> /\ seen # <<>> /\ pending = <<>> /\ Open = {}
  /\ results' \in [1 .. index.k -> DOMAIN index.graph \cup {Missing}]
  /\ \A x \in NearestOf(index.k) \ index.deleted : results'[Cardinality(Before(x)) + 1] = x
  /\ UNCHANGED <<index, dist, seen, pending, expanded>>

\* A new query.
Ask ==
  /\ results # <<>> \/ seen = <<>>
  /\ dist' \in [DOMAIN index.graph -> Nat]
  /\ seen' = <<Entry>> /\ pending' = <<>> /\ expanded' = {} /\ results' = <<>>
  /\ UNCHANGED index

Init ==
  /\ seen = <<>> /\ pending = <<>> /\ expanded = {} /\ results = <<>>
  /\ Entry \in DOMAIN index.graph

Next == Ask \/ Expand \/ Meet \/ Return

Spec == Init /\ [][Next]_vars /\ WF_vars(Expand \/ Meet \/ Return)
=============================================================================
