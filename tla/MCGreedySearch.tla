---------------------------- MODULE MCGreedySearch ----------------------------
(* GreedySearch over a few graphs of five nodes and all distances of a query. *)
EXTENDS GreedySearch

CONSTANT Kinds  \* which buffers are tried

Nodes == 0 .. 4

\* A graph whose nodes lead back and forth, and a complete one.
Graphs == {
  << <<4, 3, 2, 1>>, <<0, 2>>, <<1, 3, 4>>, <<4, 0, 2>>, <<0, 1, 3>> >>,
  << <<1, 2, 3, 4>>, <<0, 2, 3, 4>>, <<0, 1, 3, 4>>, <<0, 1, 2, 4>>, <<0, 1, 2, 3>> >>}

Deletions == {{}, {0}, {3}, {1, 2}, {0, 2, 4}, {1, 3, 4}, Nodes}

\* Window, capacity and number of neighbors; the last asks for more than it holds.
Sizes == {<<1, 1, 1>>, <<1, 2, 1>>, <<2, 2, 1>>, <<2, 3, 1>>, <<1, 1, 2>>}

MCIndexes ==
  {x \in
    {[kind |-> kd, graph |-> [n \in Nodes |-> g[n + 1]], deleted |-> del,
      window |-> sz[1], capacity |-> sz[2], k |-> sz[3], filtered |-> f] :
       kd \in Kinds, g \in Graphs, del \in Deletions, sz \in Sizes, f \in BOOLEAN} :
    /\ x.kind = "static" => x.deleted = {}
    /\ x.kind = "dynamic" => ~x.filtered}

\* All points were deleted and not consolidated, and the buffer is split.
AllDeleted == {x \in MCIndexes : x.deleted = Nodes /\ x.window < x.capacity}

\* The entry point is neither the nearest nor the farthest node.
MCQueries == {d \in [Nodes -> 0 .. 2] : d[0] = 1}

MCLaterQueries == {[n \in Nodes |-> 4 - n], [n \in Nodes |-> n % 2]}
=============================================================================
