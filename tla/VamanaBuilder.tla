---------------------------- MODULE VamanaBuilder ----------------------------
(***************************************************************************)
(* VamanaBuilder::construct with a team of threads                         *)
(* (include/svs/index/vamana/vamana_build.h, core/graph/graph.h): batch by *)
(* batch, every new node gets a list by search and pruning, then the lists *)
(* are put into the graph, then every neighbor gets an edge back, and the  *)
(* neighbors whose lists were full are pruned again.  Each of the four     *)
(* phases is a threads::run, so it begins when all threads are through     *)
(* with the one before.                                                    *)
(*                                                                         *)
(* While edges are added back, a thread reads the list of a node without   *)
(* the lock of that node, and others append to the list.  A row of the     *)
(* graph is therefore memory: a length and MaxDegree places, and an edge   *)
(* takes two stores, which are seen in the order they are made (x86).      *)
(***************************************************************************)
EXTENDS Partition, Sequences, FiniteSets

CONSTANTS NumNodes,    \* nodes of the graph, 0 .. NumNodes - 1
          NumThreads,  \* size of the pool
          MaxDegree,   \* places of a row, and params.graph_max_degree
          PruneTo,     \* params.prune_to
          BucketSize,  \* nodes per bucket of the backedge buffer, 1000
          MinBatches,  \* least number of batches, 40
          MaxBatch,    \* most nodes of a batch, 64 * 64
          Passes,      \* calls of construct; the index makes two
          EntryPoint

Nodes == 0 .. NumNodes - 1
Threads == 0 .. NumThreads - 1

ASSUME BuilderAssumption ==
  /\ NumNodes \in Nat \ {0} /\ NumThreads \in Nat \ {0} /\ EntryPoint \in Nodes
  /\ PruneTo \in Nat \ {0} /\ MaxDegree \in Nat /\ PruneTo <= MaxDegree
  /\ {BucketSize, MinBatches, MaxBatch, Passes} \subseteq Nat \ {0}

VARIABLES graph,       \* node -> [len, slot]: the rows
          updates,     \* thread -> the lists it found, as pairs <<node, list>>
          buffer,      \* node -> the edges back that found no place
          lock,        \* node -> the thread that holds its vertex lock, or NoThread
          pass, batch, \* progress of construct
          phase,       \* "search", "apply", "reverse", "prune" or "done"
          todo,        \* thread -> nodes it still has to handle in this phase
          pc,          \* thread -> where it is in add_reverse_edges
          span,        \* thread -> [node, list, next]: the list it iterates over
          bucket,      \* next bucket of the dynamic partition
          searched     \* history: node -> number of searches made for it

vars == <<graph, updates, buffer, lock, pass, batch, phase, todo, pc, span, bucket, searched>>

progress == <<pass, batch, phase>>

NoThread == -1

\* get_node: the places up to the length.
get_node(n) == SubSeq(graph[n].slot, 1, graph[n].len)

Neighbors(n) == {graph[n].slot[i] : i \in 1 .. graph[n].len}

Ascending(S) == CHOOSE s \in [1 .. Cardinality(S) -> S] : \A i, j \in DOMAIN s : i < j => s[i] < s[j]

\* replace_node: the list, cut off at the places there are, then the length.
Replaced(g, n, list) ==
  LET count == MinOf(MaxDegree, Len(list))
  IN  [g EXCEPT ![n] = [len |-> count,
                        slot |-> [i \in 1 .. MaxDegree |-> IF i <= count THEN list[i] ELSE @.slot[i]]]]

\* heuristic_prune_neighbors: up to n of the pool, but never the node itself, and
\* at least one if there is one.  Which, the distances tell.
Pruned(pool, node, n) ==
  {T \in SUBSET (pool \ {node}) : Cardinality(T) <= n /\ (T = {} => pool \subseteq {node})}

\* What a search can come across: the nodes in every set that has the entry point and
\* the neighbors of its members.
Reachable ==
  {m \in Nodes : \A S \in SUBSET Nodes : EntryPoint \in S /\ (\A n \in S : Neighbors(n) \subseteq S) => m \in S}

-----------------------------------------------------------------------------
num_batches == MaxOf(MinBatches, div_round_up(NumNodes, MaxBatch))
batchsize == div_round_up(NumNodes, num_batches)

Batch(b) == UnitRange(MinOf(NumNodes, batchsize * b), MinOf(NumNodes, batchsize * (b + 1)))

\* The share of a thread in the static partition of a batch.
Share(b, t) ==
  LET first == MinOf(NumNodes, batchsize * b)
      mine  == balance(Cardinality(Batch(b)), NumThreads, t)
  IN  Ascending({first + i : i \in mine})

num_buckets == div_round_up(NumNodes, BucketSize)

\* The nodes of a bucket whose edges back found no place.
Overflowed(b) ==
  Ascending({n \in UnitRange(b * BucketSize, (b + 1) * BucketSize) \cap Nodes : buffer[n] # {}})

-----------------------------------------------------------------------------
\* One node of generate_neighbors: search, add the old neighbors, prune.
Search(t) ==
  /\ phase = "search" /\ todo[t] # <<>>
  /\ LET node == Head(todo[t])
     IN  /\ \E list \in Pruned(Reachable \cup Neighbors(node), node, MaxDegree) :
              updates' = [updates EXCEPT ![t] = Append(@, <<node, Ascending(list)>>)]
         /\ searched' = [searched EXCEPT ![node] = @ + 1]
  /\ todo' = [todo EXCEPT ![t] = Tail(@)]
  /\ UNCHANGED <<graph, buffer, lock, pc, span, bucket, progress>>

\* One update goes into the graph.
Apply(t) ==
  /\ phase = "apply" /\ updates[t] # <<>>
  /\ graph' = Replaced(graph, Head(updates[t])[1], Head(updates[t])[2])
  /\ updates' = [updates EXCEPT ![t] = Tail(@)]
  /\ UNCHANGED <<buffer, lock, todo, pc, span, bucket, searched, progress>>

\* The loop of add_reverse_edges takes a node: get_node without its lock.
GetNode(t) ==
  /\ phase = "reverse" /\ pc[t] = "idle" /\ todo[t] # <<>>
  /\ span' = [span EXCEPT ![t] = [node |-> Head(todo[t]), list |-> get_node(Head(todo[t])), next |-> 1]]
  /\ todo' = [todo EXCEPT ![t] = Tail(@)]
  /\ pc' = [pc EXCEPT ![t] = "scan"]
  /\ UNCHANGED <<graph, updates, buffer, lock, bucket, searched, progress>>

EndOfList(t) ==
  /\ pc[t] = "scan" /\ span[t].next > Len(span[t].list)
  /\ pc' = [pc EXCEPT ![t] = "idle"]
  /\ UNCHANGED <<graph, updates, buffer, lock, todo, span, bucket, searched, progress>>

\* The neighbor a thread is at, read from the row.
Other(t) == graph[span[t].node].slot[span[t].next]

\* Mutant: the thread's own node is locked first, then the neighbor.
LockBoth(t) ==
  /\ pc[t] = "scan" /\ span[t].next <= Len(span[t].list)
  /\ LET next == IF lock[span[t].node] = t THEN Other(t) ELSE span[t].node
     IN  /\ lock[next] = NoThread
         /\ lock' = [lock EXCEPT ![next] = t]
         /\ pc' = [pc EXCEPT ![t] = IF next = Other(t) THEN "held" ELSE @]
  /\ UNCHANGED <<graph, updates, buffer, todo, span, bucket, searched, progress>>

\* The vertex lock of the neighbor.
LockVertex(t) ==
  /\ pc[t] = "scan" /\ span[t].next <= Len(span[t].list) /\ lock[Other(t)] = NoThread
  /\ lock' = [lock EXCEPT ![Other(t)] = t]
  /\ pc' = [pc EXCEPT ![t] = "held"]
  /\ UNCHANGED <<graph, updates, buffer, todo, span, bucket, searched, progress>>

\* The lock guard ends and the loop goes on.
Unlock(t) ==
  /\ lock' = [n \in Nodes |-> IF lock[n] = t THEN NoThread ELSE lock[n]]
  /\ span' = [span EXCEPT ![t].next = @ + 1]
  /\ pc' = [pc EXCEPT ![t] = "scan"]

\* add_edge that finds the edge there, or would make a loop.
EdgeExists(t) ==
  /\ pc[t] = "held" /\ graph[Other(t)].len < MaxDegree
  /\ span[t].node \in Neighbors(Other(t)) \cup {Other(t)}
  /\ Unlock(t)
  /\ UNCHANGED <<graph, updates, buffer, todo, bucket, searched, progress>>

\* Mutant: the list is kept in order, as add_edge once meant to do.
StoreSorted(t) ==
  /\ pc[t] = "held" /\ graph[Other(t)].len < MaxDegree
  /\ span[t].node \notin Neighbors(Other(t)) \cup {Other(t)}
  /\ LET list == Ascending(Neighbors(Other(t)) \cup {span[t].node})
     IN  graph' = [graph EXCEPT ![Other(t)].slot =
                     [i \in 1 .. MaxDegree |-> IF i <= Len(list) THEN list[i] ELSE @[i]]]
  /\ pc' = [pc EXCEPT ![t] = "stored"]
  /\ UNCHANGED <<updates, buffer, lock, todo, span, bucket, searched, progress>>

\* add_edge: the place behind the list, found by find, takes the new neighbor.
StoreEdge(t) ==
  /\ pc[t] = "held" /\ graph[Other(t)].len < MaxDegree
  /\ span[t].node \notin Neighbors(Other(t)) \cup {Other(t)}
  /\ graph' = [graph EXCEPT ![Other(t)].slot[graph[Other(t)].len + 1] = span[t].node]
  /\ pc' = [pc EXCEPT ![t] = "stored"]
  /\ UNCHANGED <<updates, buffer, lock, todo, span, bucket, searched, progress>>

\* add_edge: the new length makes the edge visible.
StoreLength(t) ==
  /\ pc[t] = "stored"
  /\ graph' = [graph EXCEPT ![Other(t)].len = @ + 1]
  /\ Unlock(t)
  /\ UNCHANGED <<updates, buffer, todo, bucket, searched, progress>>

\* Mutant: a full list drops the edge.
DropEdge(t) ==
  /\ pc[t] = "held" /\ ~(graph[Other(t)].len < MaxDegree)
  /\ Unlock(t)
  /\ UNCHANGED <<graph, updates, buffer, todo, bucket, searched, progress>>

\* No place in the row: the backedge buffer, under the lock of its bucket.
BufferEdge(t) ==
  /\ pc[t] = "held" /\ ~(graph[Other(t)].len < MaxDegree)
  /\ buffer' = [buffer EXCEPT ![Other(t)] = @ \cup {span[t].node}]
  /\ Unlock(t)
  /\ UNCHANGED <<graph, updates, todo, bucket, searched, progress>>

\* A thread takes the next bucket.
TakeBucket(t) ==
  /\ phase = "prune" /\ todo[t] = <<>> /\ bucket < num_buckets
  /\ todo' = [todo EXCEPT ![t] = Overflowed(bucket)]
  /\ bucket' = bucket + 1
  /\ UNCHANGED <<graph, updates, buffer, lock, pc, span, searched, progress>>

\* One node of the bucket: its list and what is buffered are pruned together.
Prune(t) ==
  /\ phase = "prune" /\ todo[t] # <<>>
  /\ LET src == Head(todo[t])
     IN  \E list \in Pruned(buffer[src] \cup Neighbors(src), src, PruneTo) :
           graph' = Replaced(graph, src, Ascending(list))
  /\ todo' = [todo EXCEPT ![t] = Tail(@)]
  /\ UNCHANGED <<updates, buffer, lock, pc, span, bucket, searched, progress>>

-----------------------------------------------------------------------------
AllIdle == \A t \in Threads : todo[t] = <<>> /\ pc[t] = "idle"

SearchOver ==
  /\ phase = "search" /\ AllIdle
  /\ phase' = "apply"
  /\ UNCHANGED <<graph, updates, buffer, lock, pass, batch, todo, pc, span, bucket, searched>>

\* The updates are in; the buffer is reset and the batch partitioned again.
ApplyOver ==
  /\ phase = "apply" /\ \A t \in Threads : updates[t] = <<>>
  /\ phase' = "reverse"
  /\ buffer' = [n \in Nodes |-> {}]
  /\ todo' = [t \in Threads |-> Share(batch, t)]
  /\ UNCHANGED <<graph, updates, lock, pass, batch, pc, span, bucket, searched>>

ReverseOver ==
  /\ phase = "reverse" /\ AllIdle
  /\ phase' = "prune" /\ bucket' = 0
  /\ UNCHANGED <<graph, updates, buffer, lock, pass, batch, todo, pc, span, searched>>

\* The next batch, or the next call of construct, or the end.
BatchOver ==
  /\ phase = "prune" /\ bucket = num_buckets /\ AllIdle
  /\ \/ /\ batch + 1 < num_batches
        /\ batch' = batch + 1 /\ phase' = "search" /\ UNCHANGED pass
     \/ /\ batch + 1 = num_batches /\ pass < Passes
        /\ batch' = 0 /\ pass' = pass + 1 /\ phase' = "search"
     \/ /\ batch + 1 = num_batches /\ pass = Passes
        /\ phase' = "done" /\ UNCHANGED <<pass, batch>>
  /\ todo' = [t \in Threads |-> IF phase' = "search" THEN Share(batch', t) ELSE <<>>]
  /\ UNCHANGED <<graph, updates, buffer, lock, pc, span, bucket, searched>>

Init ==
  /\ graph = [n \in Nodes |-> [len |-> 0, slot |-> [i \in 1 .. MaxDegree |-> 0]]]
  /\ updates = [t \in Threads |-> <<>>]
  /\ buffer = [n \in Nodes |-> {}] /\ lock = [n \in Nodes |-> NoThread]
  /\ pass = 1 /\ batch = 0 /\ phase = "search"
  /\ todo = [t \in Threads |-> Share(0, t)]
  /\ pc = [t \in Threads |-> "idle"]
  /\ span = [t \in Threads |-> [node |-> 0, list |-> <<>>, next |-> 1]]
  /\ bucket = 0 /\ searched = [n \in Nodes |-> 0]

Step(t) ==
  \/ Search(t) \/ Apply(t) \/ GetNode(t) \/ EndOfList(t) \/ LockVertex(t) \/ EdgeExists(t)
  \/ StoreEdge(t) \/ StoreLength(t) \/ BufferEdge(t) \/ TakeBucket(t) \/ Prune(t)

Barrier == SearchOver \/ ApplyOver \/ ReverseOver \/ BatchOver

Next == Barrier \/ \E t \in Threads : Step(t)

\* Threads of the pool are scheduled, and a spin lock that is free again and again
\* is taken at last.
Fairness == WF_vars(Barrier) /\ \A t \in Threads : WF_vars(Step(t)) /\ SF_vars(LockVertex(t))

Spec == Init /\ [][Next]_vars /\ Fairness

-----------------------------------------------------------------------------
TypeOK ==
  /\ graph \in [Nodes -> [len : 0 .. MaxDegree, slot : [1 .. MaxDegree -> Nodes]]]
  /\ updates \in [Threads -> Seq(Nodes \X Seq(Nodes))]
  /\ buffer \in [Nodes -> SUBSET Nodes] /\ lock \in [Nodes -> Threads \cup {NoThread}]
  /\ pass \in 1 .. Passes /\ batch \in 0 .. num_batches - 1 /\ bucket \in 0 .. num_buckets
  /\ phase \in {"search", "apply", "reverse", "prune", "done"}
  /\ todo \in [Threads -> Seq(Nodes)]
  /\ pc \in [Threads -> {"idle", "scan", "held", "stored"}]
  /\ span \in [Threads -> [node : Nodes, list : Seq(Nodes), next : Nat \ {0}]]
  /\ searched \in [Nodes -> 0 .. Passes]

\* At every moment, in the middle of an insertion too, every list is one the search
\* and the saved index can use: no neighbor twice, and no node its own neighbor.
GraphWellFormed ==
  \A n \in Nodes : n \notin Neighbors(n) /\ Cardinality(Neighbors(n)) = graph[n].len

\* add_reverse_edges walks over a list it took without the lock, and other threads
\* append to that list meanwhile: what the thread walks over is never touched.
SpanStable ==
  \A t \in Threads :
    pc[t] # "idle" => LET s == span[t]
                      IN  SubSeq(graph[s.node].slot, 1, Len(s.list)) = s.list

\* When every thread is through with the batch, each edge of its nodes has an edge
\* back, in the graph or in the buffer that is pruned next: none is lost between
\* the two, whoever filled the list meanwhile.
BackedgesKept ==
  phase = "prune" /\ bucket = 0 =>
    \A n \in Batch(batch) : \A m \in Neighbors(n) : n \in Neighbors(m) \cup buffer[m]

\* The batches, and the shares of the threads in them, cover every node once per
\* pass: no node keeps its empty list, and none is searched for twice.
SearchedOncePerPass == phase = "done" => searched = [n \in Nodes |-> Passes]

\* The lists are well formed whoever writes them, what a thread reads without the lock
\* does not change under it, and no node is skipped or done twice.
BuilderSound == TypeOK /\ GraphWellFormed /\ SpanStable /\ SearchedOncePerPass

\* construct returns.
ConstructReturns == <>(phase = "done")
=============================================================================
