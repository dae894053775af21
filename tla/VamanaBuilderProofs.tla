------------------------ MODULE VamanaBuilderProofs ------------------------
(***************************************************************************)
(* The graph is well formed at every moment, no node is skipped, and no    *)
(* edge back is lost, for any number of nodes, threads and batches.        *)
(*                                                                         *)
(* The argument: whoever has a vertex lock is alone in the row behind it;  *)
(* rows only grow while edges back are added, so that what was read of     *)
(* them without the lock stays; and an edge that has no edge back is       *)
(* still ahead of the thread that has its node.                            *)
(***************************************************************************)
EXTENDS VamanaBuilder, PartitionProofs, FiniteSetTheorems, FunctionTheorems

\* Node n is in the share of a thread that has not come to it yet.
Awaits(t, n) == \E k \in DOMAIN todo[t] : todo[t][k] = n

Awaited(n) == \E t \in Threads : Awaits(t, n)

\* A thread has node n, and its neighbor m is still ahead.
Ahead(t, n, m) ==
  /\ pc[t] # "idle" /\ span[t].node = n
  /\ \E i \in span[t].next .. Len(span[t].list) : span[t].list[i] = m

\* The first len of a list are different nodes, and none of them is n.
Proper(n, list, len) ==
  /\ \A i, j \in 1 .. len : list[i] = list[j] => i = j
  /\ \A i \in 1 .. len : list[i] # n

-----------------------------------------------------------------------------
\* Who is idle, and which queues are empty.
PhaseInv ==
  /\ phase # "reverse" => \A t \in Threads : pc[t] = "idle"
  /\ phase \notin {"search", "apply"} => \A t \in Threads : updates[t] = <<>>
  /\ phase \in {"apply", "done"} => \A t \in Threads : todo[t] = <<>>
  /\ phase = "prune" /\ bucket = 0 => \A t \in Threads : todo[t] = <<>>
  /\ phase = "done" => pass = Passes /\ batch + 1 = num_batches

RowsProper == \A n \in Nodes : Proper(n, graph[n].slot, graph[n].len)

UpdatesProper ==
  \A t \in Threads : \A k \in DOMAIN updates[t] :
    Proper(updates[t][k][1], updates[t][k][2], Len(updates[t][k][2]))

\* What a thread has read is still in the row, and in the middle of an insertion it is
\* alone in the other row.
SpanOK(t) ==
  pc[t] # "idle" =>
    /\ Len(span[t].list) <= graph[span[t].node].len
    /\ \A i \in 1 .. Len(span[t].list) : span[t].list[i] = graph[span[t].node].slot[i]
    /\ pc[t] \in {"held", "stored"} => span[t].next <= Len(span[t].list) /\ lock[Other(t)] = t
    /\ pc[t] = "stored" =>
         /\ graph[Other(t)].len < MaxDegree
         /\ graph[Other(t)].slot[graph[Other(t)].len + 1] = span[t].node
         /\ span[t].node \notin Neighbors(Other(t)) \cup {Other(t)}

SpanInv == \A t \in Threads : SpanOK(t)

\* Shares are of the batch, and no node is in two places of them.
SharesInv ==
  phase = "search" =>
    /\ \A t \in Threads : \A k \in DOMAIN todo[t] : todo[t][k] \in Batch(batch)
    /\ \A t, u \in Threads : \A j \in DOMAIN todo[t], k \in DOMAIN todo[u] :
         todo[t][j] = todo[u][k] => t = u /\ j = k

\* What has been searched in this pass.
Visited(n) == n < batchsize * (batch + 1) /\ ~(phase = "search" /\ Awaited(n))

CountInv == \A n \in Nodes : searched[n] = pass - 1 + (IF Visited(n) THEN 1 ELSE 0)

HasBack(n, m) == n \in Neighbors(m) \cup buffer[m]

ReverseInv ==
  phase = "reverse" =>
    \A n \in Batch(batch) : \A m \in Neighbors(n) :
      HasBack(n, m) \/ Awaited(n) \/ \E t \in Threads : Ahead(t, n, m)

BuilderInv ==
  /\ TypeOK /\ PhaseInv /\ RowsProper /\ UpdatesProper /\ SpanInv
  /\ SharesInv /\ CountInv /\ ReverseInv /\ BackedgesKept
-----------------------------------------------------------------------------
(***************************************************************************)
(* Sets of nodes in ascending order.                                       *)
(***************************************************************************)
LEMMA RangeOfInjection ==
  ASSUME NEW S, IsFiniteSet(S), NEW m \in Nat, Cardinality(S) = m, NEW s \in [1 .. m -> S],
         \A i, j \in 1 .. m : s[i] = s[j] => i = j
  PROVE  \A x \in S : \E i \in 1 .. m : s[i] = x
<1> DEFINE R == {s[i] : i \in 1 .. m}
<1>1. IsFiniteSet(1 .. m) /\ Cardinality(1 .. m) = m
  BY FS_Interval
<1>2. s \in [1 .. m -> R]
  OBVIOUS
<1>3. \A x \in R : \E i \in 1 .. m : s[i] = x
  OBVIOUS
<1>4. R \in SUBSET S
  OBVIOUS
<1> HIDE DEF R
<1>5. s \in Bijection(1 .. m, R)
  BY <1>2, <1>3, Fun_IsBij
<1>6. Cardinality(R) = m
  BY <1>1, <1>5, FS_Bijection DEF ExistsBijection
<1>7. R = S
  BY <1>4, <1>6, FS_Subset
<1> QED
  BY <1>3, <1>7

InOrder(s) == \A i, j \in DOMAIN s : i < j => s[i] < s[j]

LEMMA OrderExists ==
  ASSUME NEW N \in Nat, NEW S \in SUBSET (0 .. N - 1)
  PROVE  /\ IsFiniteSet(S)
         /\ \E s \in [1 .. Cardinality(S) -> S] : InOrder(s)
<1> DEFINE Good(T) == \E s \in [1 .. Cardinality(T) -> T] : InOrder(s)
           P == {n \in Nat : \A T \in SUBSET (0 .. n - 1) : IsFiniteSet(T) /\ Good(T)}
<1>1. 0 \in P
  <2>1. IsFiniteSet({}) /\ Cardinality({}) = 0
    BY FS_EmptySet
  <2> DEFINE s == [k \in 1 .. 0 |-> 0]
  <2>2. s \in [1 .. 0 -> {}] /\ InOrder(s)
    BY DEF InOrder
  <2>3. Good({})
    BY <2>1, <2>2
  <2>4. \A T \in SUBSET (0 .. 0 - 1) : T = {}
    OBVIOUS
  <2> HIDE DEF Good
  <2> QED
    BY <2>1, <2>3, <2>4
<1>2. ASSUME NEW n \in P PROVE n + 1 \in P
  <2> SUFFICES ASSUME NEW T \in SUBSET (0 .. n) PROVE IsFiniteSet(T) /\ Good(T)
    OBVIOUS
  <2>1. CASE n \notin T
    <3>1. T \in SUBSET (0 .. n - 1)
      BY <2>1
    <3> QED
      BY <3>1
  <2>2. CASE n \in T
    <3> DEFINE U == T \ {n}
    <3>1. U \in SUBSET (0 .. n - 1) /\ n \in Nat
      OBVIOUS
    <3>2. IsFiniteSet(U) /\ Good(U)
      BY <3>1
    <3> DEFINE m == Cardinality(U)
    <3>3. m \in Nat /\ IsFiniteSet(T) /\ Cardinality(T) = m + 1
      <4>1. T = U \cup {n} /\ n \notin U
        BY <2>2
      <4> HIDE DEF U
      <4> QED
        BY <3>2, <4>1, FS_AddElement, FS_CardinalityType
    <3>4. PICK s \in [1 .. m -> U] : InOrder(s)
      BY <3>2
    <3> HIDE DEF m
    <3> DEFINE r == [k \in 1 .. m + 1 |-> IF k = m + 1 THEN n ELSE s[k]]
    <3>5. r \in [1 .. m + 1 -> T]
      BY <2>2, <3>3, <3>4
    <3>6. r[m + 1] = n /\ \A k \in 1 .. m : r[k] = s[k]
      BY <3>3
    <3>7. DOMAIN r = 1 .. m + 1 /\ DOMAIN s = 1 .. m
      BY <3>4
    <3> HIDE DEF r
    <3>8. InOrder(r)
      <4> SUFFICES ASSUME NEW j \in 1 .. m + 1, NEW k \in 1 .. m + 1, j < k PROVE r[j] < r[k]
        BY <3>7 DEF InOrder
      <4>1. j \in 1 .. m /\ r[j] = s[j] /\ s[j] \in U
        BY <3>3, <3>4, <3>6
      <4>2. CASE k = m + 1
        <5>1. s[j] \in 0 .. n - 1
          BY <3>1, <4>1
        <5> QED
          BY <3>1, <3>6, <4>1, <4>2, <5>1
      <4>3. CASE k # m + 1
        <5>1. k \in 1 .. m /\ r[k] = s[k]
          BY <3>3, <3>6, <4>3
        <5> QED
          BY <3>4, <3>7, <4>1, <5>1 DEF InOrder
      <4> QED
        BY <4>2, <4>3
    <3> QED
      BY <3>3, <3>5, <3>8
  <2> QED
    BY <2>1, <2>2
<1>3. N \in P
  <2> HIDE DEF P
  <2>1. 0 \in P /\ \A n \in P : n \in Nat => n + 1 \in P
    BY <1>1, <1>2
  <2> QED
    BY <2>1, SetInduction
<1> QED
  BY <1>3

\* Ascending enumerates a set of nodes, each of them once.
LEMMA AscendingIs ==
  ASSUME NEW S \in SUBSET Nodes
  PROVE  /\ IsFiniteSet(S) /\ Cardinality(S) \in Nat
         /\ Ascending(S) \in Seq(S) /\ Ascending(S) \in Seq(Nodes) /\ Len(Ascending(S)) = Cardinality(S)
         /\ \A i, j \in 1 .. Cardinality(S) : Ascending(S)[i] = Ascending(S)[j] => i = j
         /\ \A i \in 1 .. Cardinality(S) : Ascending(S)[i] \in S
         /\ \A x \in S : \E i \in 1 .. Cardinality(S) : Ascending(S)[i] = x
<1> DEFINE s == Ascending(S)
           m == Cardinality(S)
<1>1. S \in SUBSET (0 .. NumNodes - 1) /\ NumNodes \in Nat
  BY BuilderAssumption DEF Nodes
<1>2. IsFiniteSet(S) /\ m \in Nat
  BY <1>1, OrderExists, FS_CardinalityType
<1>3. s \in [1 .. m -> S] /\ InOrder(s)
  BY <1>1, OrderExists DEF Ascending, InOrder
<1> HIDE DEF s, m
<1>4. s \in Seq(S) /\ Len(s) = m
  BY <1>2, <1>3
<1>5. s \in Seq(Nodes)
  BY <1>2, <1>3
<1>6. ASSUME NEW i \in 1 .. m, NEW j \in 1 .. m, s[i] = s[j]
      PROVE  i = j
  <2>1. s[i] \in Nat /\ s[j] \in Nat
    <3>1. s[i] \in S /\ s[j] \in S
      BY <1>3
    <3>2. \A x \in S : x \in Nat
      BY <1>1
    <3> QED
      BY <3>1, <3>2
  <2>2. i < j => s[i] < s[j]
    BY <1>3 DEF InOrder
  <2>3. j < i => s[j] < s[i]
    BY <1>3 DEF InOrder
  <2> QED
    BY <1>2, <1>6, <2>1, <2>2, <2>3
<1>7. \A x \in S : \E i \in 1 .. m : s[i] = x
  BY <1>2, <1>3, <1>6, RangeOfInjection DEF m
<1> QED
  BY <1>2, <1>3, <1>4, <1>5, <1>6, <1>7 DEF s, m

-----------------------------------------------------------------------------
(***************************************************************************)
(* Batches and shares.                                                     *)
(***************************************************************************)
LEMMA RoundedUp ==
  ASSUME NEW n \in Nat \ {0}, NEW d \in Nat \ {0}
  PROVE  div_round_up(n, d) \in Nat \ {0} /\ div_round_up(n, d) * d >= n
<1>1. /\ Short(n, d) \in Nat /\ Long(n, d) \in 1 .. d /\ div_round_up(n, d) = Short(n, d) + 1
      /\ n = Short(n, d) * d + Long(n, d)
  BY TeamSizes
<1>2. \A q \in Nat : (q + 1) * d = q * d + d
  OBVIOUS
<1> QED
  BY <1>1, <1>2

LEMMA BatchesCover ==
  /\ num_batches \in Nat \ {0} /\ batchsize \in Nat \ {0} /\ num_buckets \in Nat \ {0}
  /\ batchsize * num_batches >= NumNodes
<1>1. div_round_up(NumNodes, MaxBatch) \in Nat \ {0}
  BY RoundedUp, BuilderAssumption
<1>2. num_batches \in Nat \ {0}
  BY <1>1, BuilderAssumption DEF num_batches, MaxOf
<1>3. batchsize \in Nat \ {0} /\ batchsize * num_batches >= NumNodes
  BY <1>2, RoundedUp, BuilderAssumption DEF batchsize
<1>4. num_buckets \in Nat \ {0}
  BY RoundedUp, BuilderAssumption DEF num_buckets
<1> QED
  BY <1>2, <1>3, <1>4

LEMMA BatchIs ==
  ASSUME NEW b \in Nat
  PROVE  /\ batchsize * b \in Nat /\ batchsize * (b + 1) = batchsize * b + batchsize
         /\ Batch(b) = {n \in Nodes : batchsize * b <= n /\ n < batchsize * (b + 1)}
<1>1. batchsize \in Nat \ {0} /\ NumNodes \in Nat
  BY BatchesCover, BuilderAssumption
<1> DEFINE p == batchsize * b
<1>2. p \in Nat /\ batchsize * (b + 1) = p + batchsize
  BY <1>1
<1> HIDE DEF p
<1>3. Batch(b) = MinOf(NumNodes, p) .. MinOf(NumNodes, p + batchsize) - 1
  BY <1>2 DEF Batch, UnitRange, p
<1>4. Batch(b) = {n \in Nodes : p <= n /\ n < p + batchsize}
  BY <1>1, <1>2, <1>3 DEF Nodes, MinOf
<1> QED
  BY <1>2, <1>4 DEF p

\* A share within a batch of n nodes, as balance gives it.
LEMMA WithinBatch ==
  ASSUME NEW n \in Nat, NEW t \in Threads
  PROVE  balance(n, NumThreads, t) \subseteq 0 .. n - 1
<1>1. NumThreads \in Nat \ {0} /\ t \in Nat /\ t < NumThreads
  BY BuilderAssumption DEF Threads
<1>2. CASE NumThreads = 1 \/ n = 0
  BY <1>1, <1>2 DEF balance, UnitRange
<1>3. CASE NumThreads # 1 /\ n # 0
  <2>1. balance(n, NumThreads, t) = First(n, NumThreads, t) .. First(n, NumThreads, t + 1) - 1
    BY <1>1, <1>3, ShareIs
  <2>2. /\ First(n, NumThreads, t) \in Nat /\ First(n, NumThreads, t + 1) \in Nat
        /\ First(n, NumThreads, t + 1) <= First(n, NumThreads, NumThreads)
        /\ First(n, NumThreads, NumThreads) = n
    <3>1. t + 1 \in Nat /\ t + 1 <= NumThreads /\ NumThreads \in Nat
      BY <1>1
    <3>2. /\ First(n, NumThreads, NumThreads) = n
          /\ \A v \in Nat : First(n, NumThreads, v) \in Nat
          /\ \A v, w \in Nat : v <= w => First(n, NumThreads, v) <= First(n, NumThreads, w)
      BY <1>1, <1>3, FirstGrows
    <3> QED
      BY <1>1, <3>1, <3>2
  <2> QED
    BY <2>1, <2>2
<1> QED
  BY <1>2, <1>3

\* The nodes of a share.
Members(b, t) ==
  {MinOf(NumNodes, batchsize * b) + i : i \in balance(Cardinality(Batch(b)), NumThreads, t)}

LEMMA MembersPartition ==
  ASSUME NEW b \in Nat
  PROVE  /\ \A t \in Threads : Members(b, t) \subseteq Batch(b)
         /\ \A n \in Batch(b) : \E t \in Threads : n \in Members(b, t)
         /\ \A t, u \in Threads : t # u => Members(b, t) \cap Members(b, u) = {}
<1> DEFINE start == MinOf(NumNodes, batchsize * b)
           stop == MinOf(NumNodes, batchsize * (b + 1))
           n == Cardinality(Batch(b))
<1>1. /\ batchsize \in Nat \ {0} /\ NumNodes \in Nat
      /\ NumThreads \in Nat \ {0} /\ Threads = 0 .. NumThreads - 1
  BY BatchesCover, BuilderAssumption DEF Threads
<1>2. /\ batchsize * b \in Nat /\ batchsize * (b + 1) = batchsize * b + batchsize
      /\ Batch(b) = start .. stop - 1
  BY BatchIs DEF Batch, UnitRange
<1>3. start \in Nat /\ stop \in Nat /\ start <= stop
  BY <1>1, <1>2 DEF MinOf
<1>4. n = stop - start
  <2> HIDE DEF start, stop, n
  <2> QED
    <3>1. Cardinality(start .. stop - 1) = IF start > stop - 1 THEN 0 ELSE (stop - 1) - start + 1
      BY <1>3, FS_Interval
    <3>2. n = Cardinality(start .. stop - 1)
      BY <1>2 DEF n
    <3> QED
      BY <1>3, <3>1, <3>2
<1>5. n \in Nat
  <2> HIDE DEF start, stop, n
  <2> QED
    BY <1>3, <1>4
<1> HIDE DEF start, stop, n
<1>6. \A t : Members(b, t) = {start + i : i \in balance(n, NumThreads, t)}
  BY DEF Members, start, n
<1>7. ASSUME NEW t \in Threads
      PROVE  Members(b, t) \subseteq Batch(b)
  <2>1. \A i \in balance(n, NumThreads, t) : i \in 0 .. n - 1
    BY <1>5, WithinBatch
  <2> QED
    BY <1>2, <1>3, <1>4, <1>6, <2>1
<1>8. ASSUME NEW x \in Batch(b)
      PROVE  \E t \in Threads : x \in Members(b, t)
  <2>1. x - start \in 0 .. n - 1 /\ start + (x - start) = x
    BY <1>2, <1>3, <1>4
  <2>2. PICK t \in 0 .. NumThreads - 1 : x - start \in balance(n, NumThreads, t)
    BY <1>1, <1>5, <2>1, SharesCover
  <2>3. x \in Members(b, t)
    BY <1>6, <2>1, <2>2
  <2> QED
    BY <1>1, <2>2, <2>3
<1>9. ASSUME NEW t \in Threads, NEW u \in Threads, t # u
      PROVE  Members(b, t) \cap Members(b, u) = {}
  <2>1. t \in Nat /\ u \in Nat /\ NumThreads > 1
    BY <1>1, <1>9
  <2>2. balance(n, NumThreads, t) \cap balance(n, NumThreads, u) = {}
    BY <1>1, <1>5, <1>9, <2>1, SharesAreDisjoint
  <2>3. \A i \in balance(n, NumThreads, t) : i \in Int
    BY <1>5, WithinBatch
  <2>4. \A i \in balance(n, NumThreads, u) : i \in Int
    BY <1>5, WithinBatch
  <2>5. ASSUME NEW x \in Members(b, t), x \in Members(b, u)
        PROVE  FALSE
    <3>1. PICK i \in balance(n, NumThreads, t) : x = start + i
      BY <1>6
    <3>2. PICK j \in balance(n, NumThreads, u) : x = start + j
      BY <1>6, <2>5
    <3>3. i = j
      BY <1>3, <2>3, <2>4, <3>1, <3>2
    <3> QED
      BY <2>2, <3>3
  <2> QED
    BY <2>5
<1> QED
  BY <1>7, <1>8, <1>9

LEMMA SharesOfBatch ==
  ASSUME NEW b \in Nat
  PROVE  /\ \A t \in Threads : Share(b, t) \in Seq(Nodes)
         /\ \A t \in Threads : \A k \in DOMAIN Share(b, t) : Share(b, t)[k] \in Batch(b)
         /\ \A n \in Batch(b) : \E t \in Threads : \E k \in DOMAIN Share(b, t) : Share(b, t)[k] = n
         /\ \A t, u \in Threads : \A j \in DOMAIN Share(b, t), k \in DOMAIN Share(b, u) :
              Share(b, t)[j] = Share(b, u)[k] => t = u /\ j = k
<1>1. Batch(b) \subseteq Nodes
  BY BatchIs
<1>2. ASSUME NEW t \in Threads
      PROVE  Members(b, t) \in SUBSET Nodes /\ Members(b, t) \subseteq Batch(b)
  BY <1>1, MembersPartition
<1>3. \A t \in Threads : Share(b, t) = Ascending(Members(b, t))
  BY DEF Share, Members
<1>4. ASSUME NEW t \in Threads
      PROVE  /\ Share(b, t) \in Seq(Nodes)
             /\ \A k \in DOMAIN Share(b, t) : Share(b, t)[k] \in Members(b, t)
             /\ \A n \in Members(b, t) : \E k \in DOMAIN Share(b, t) : Share(b, t)[k] = n
             /\ \A j, k \in DOMAIN Share(b, t) : Share(b, t)[j] = Share(b, t)[k] => j = k
  <2> DEFINE s == Share(b, t)
             m == Cardinality(Members(b, t))
  <2>1. /\ m \in Nat /\ s \in Seq(Nodes) /\ Len(s) = m
        /\ \A i, j \in 1 .. m : s[i] = s[j] => i = j
        /\ \A i \in 1 .. m : s[i] \in Members(b, t)
        /\ \A x \in Members(b, t) : \E i \in 1 .. m : s[i] = x
    <3>1. s = Ascending(Members(b, t))
      BY <1>3
    <3> HIDE DEF s
    <3> QED
      BY <1>2, <3>1, AscendingIs
  <2> HIDE DEF s, m
  <2>2. DOMAIN s = 1 .. m
    BY <2>1
  <2> QED
    BY <2>1, <2>2 DEF s
<1>5. ASSUME NEW n \in Batch(b)
      PROVE  \E t \in Threads : \E k \in DOMAIN Share(b, t) : Share(b, t)[k] = n
  <2>1. PICK t \in Threads : n \in Members(b, t)
    BY MembersPartition
  <2> QED
    BY <1>4, <2>1
<1>6. ASSUME NEW t \in Threads, NEW u \in Threads, NEW j \in DOMAIN Share(b, t), NEW k \in DOMAIN Share(b, u),
             Share(b, t)[j] = Share(b, u)[k]
      PROVE  t = u /\ j = k
  <2>1. t = u
    BY <1>4, <1>6, MembersPartition
  <2> QED
    BY <1>4, <1>6, <2>1
<1> QED
  BY <1>2, <1>4, <1>5, <1>6
-----------------------------------------------------------------------------
(***************************************************************************)
(* Rows of the graph.                                                      *)
(***************************************************************************)
Rows == [len : 0 .. MaxDegree, slot : [1 .. MaxDegree -> Nodes]]

\* A row whose list is replaced has the beginning of the new one.
LEMMA ReplacedIs ==
  ASSUME NEW g \in [Nodes -> Rows], NEW n \in Nodes, NEW list \in Seq(Nodes)
  PROVE  LET r == Replaced(g, n, list)
         IN  /\ r \in [Nodes -> Rows]
             /\ \A m \in Nodes : m # n => r[m] = g[m]
             /\ Proper(n, list, Len(list)) => Proper(n, r[n].slot, r[n].len)
<1> DEFINE count == MinOf(MaxDegree, Len(list))
           slot == [i \in 1 .. MaxDegree |-> IF i <= count THEN list[i] ELSE g[n].slot[i]]
           row == [len |-> count, slot |-> slot]
           r == Replaced(g, n, list)
<1>1. MaxDegree \in Nat /\ Len(list) \in Nat
  BY BuilderAssumption
<1>2. count \in 0 .. MaxDegree /\ count <= Len(list)
  BY <1>1 DEF MinOf
<1> HIDE DEF count
<1>3. slot \in [1 .. MaxDegree -> Nodes]
  <2> SUFFICES ASSUME NEW i \in 1 .. MaxDegree
               PROVE  (IF i <= count THEN list[i] ELSE g[n].slot[i]) \in Nodes
    OBVIOUS
  <2>1. i <= count => list[i] \in Nodes
    BY <1>1, <1>2
  <2>2. g[n].slot[i] \in Nodes
    BY DEF Rows
  <2> QED
    BY <2>1, <2>2
<1>4. \A i \in 1 .. count : slot[i] = list[i]
  BY <1>1, <1>2
<1>5. r = [g EXCEPT ![n] = row]
  BY DEF Replaced, count
<1> HIDE DEF slot
<1>6. row \in Rows /\ row.len = count /\ row.slot = slot
  BY <1>2, <1>3 DEF Rows
<1> HIDE DEF row
<1>7. r \in [Nodes -> Rows] /\ r[n] = row /\ \A m \in Nodes : m # n => r[m] = g[m]
  BY <1>5, <1>6
<1>8. Proper(n, list, Len(list)) => Proper(n, slot, count)
  BY <1>1, <1>2, <1>4 DEF Proper
<1> HIDE DEF r
<1> QED
  BY <1>6, <1>7, <1>8 DEF r

\* Pruning gives different nodes, and not the node itself.
LEMMA PrunedIsProper ==
  ASSUME NEW pool \in SUBSET Nodes, NEW n \in Nodes, NEW most, NEW list \in Pruned(pool, n, most)
  PROVE  Ascending(list) \in Seq(Nodes) /\ Proper(n, Ascending(list), Len(Ascending(list)))
<1>1. list \in SUBSET Nodes /\ n \notin list
  BY DEF Pruned
<1>2. /\ Ascending(list) \in Seq(Nodes) /\ Len(Ascending(list)) = Cardinality(list)
      /\ \A i, j \in 1 .. Cardinality(list) : Ascending(list)[i] = Ascending(list)[j] => i = j
      /\ \A i \in 1 .. Cardinality(list) : Ascending(list)[i] \in list
  BY <1>1, AscendingIs
<1> QED
  BY <1>1, <1>2 DEF Proper

LEMMA NeighborsAreNodes ==
  ASSUME graph \in [Nodes -> Rows], NEW n \in Nodes
  PROVE  Neighbors(n) \in SUBSET Nodes
<1>1. graph[n] \in Rows /\ MaxDegree \in Nat
  BY BuilderAssumption
<1> QED
  BY <1>1 DEF Rows, Neighbors

\* get_node reads the list of a row.
LEMMA get_nodeIs ==
  ASSUME graph \in [Nodes -> Rows], NEW n \in Nodes
  PROVE  /\ get_node(n) \in Seq(Nodes) /\ Len(get_node(n)) = graph[n].len
         /\ \A i \in 1 .. graph[n].len : get_node(n)[i] = graph[n].slot[i]
<1> DEFINE s == graph[n].slot
           k == graph[n].len
<1>1. s \in [1 .. MaxDegree -> Nodes] /\ k \in 0 .. MaxDegree /\ MaxDegree \in Nat
  BY BuilderAssumption DEF Rows
<1> HIDE DEF s, k
<1>2. s \in Seq(Nodes) /\ Len(s) = MaxDegree
  BY <1>1
<1>3. SubSeq(s, 1, k) \in Seq(Nodes) /\ Len(SubSeq(s, 1, k)) = k /\ \A i \in 1 .. k : SubSeq(s, 1, k)[i] = s[i]
  BY <1>1, <1>2
<1> QED
  BY <1>3 DEF get_node, s, k

\* The first element of a share and the others.
LEMMA ShareTail ==
  ASSUME NEW s \in Seq(Nodes), s # <<>>
  PROVE  /\ Head(s) = s[1] /\ Head(s) \in Nodes /\ 1 \in DOMAIN s
         /\ Tail(s) \in Seq(Nodes)
         /\ \A k \in DOMAIN Tail(s) : k + 1 \in DOMAIN s /\ Tail(s)[k] = s[k + 1]
         /\ \A k \in DOMAIN s : k # 1 => k - 1 \in DOMAIN Tail(s) /\ Tail(s)[k - 1] = s[k]
OBVIOUS
-----------------------------------------------------------------------------
(***************************************************************************)
(* The steps of the phases without locks.                                  *)
(***************************************************************************)
\* What of a share is left after its first node.
LEMMA AwaitedAfterTail ==
  ASSUME TypeOK, NEW t \in Threads, todo[t] # <<>>, todo' = [todo EXCEPT ![t] = Tail(@)]
  PROVE  /\ Head(todo[t]) \in Nodes
         /\ todo' \in [Threads -> Seq(Nodes)]
         /\ \A n : Awaited(n) => Awaited(n)' \/ n = Head(todo[t])
         /\ \A n : Awaited(n)' => Awaited(n)
<1>1. /\ todo \in [Threads -> Seq(Nodes)] /\ todo[t] \in Seq(Nodes)
      /\ todo'[t] = Tail(todo[t]) /\ \A u \in Threads : u # t => todo'[u] = todo[u]
  BY DEF TypeOK
<1>2. /\ Head(todo[t]) = todo[t][1] /\ Head(todo[t]) \in Nodes
      /\ Tail(todo[t]) \in Seq(Nodes)
      /\ \A k \in DOMAIN Tail(todo[t]) : k + 1 \in DOMAIN todo[t] /\ Tail(todo[t])[k] = todo[t][k + 1]
      /\ \A k \in DOMAIN todo[t] : k # 1 => k - 1 \in DOMAIN Tail(todo[t]) /\ Tail(todo[t])[k - 1] = todo[t][k]
  BY <1>1, ShareTail
<1>3. todo' \in [Threads -> Seq(Nodes)]
  BY <1>1, <1>2
<1>4. ASSUME NEW n, Awaited(n), n # Head(todo[t])
      PROVE  Awaited(n)'
  <2>1. PICK u \in Threads : Awaits(u, n)
    BY <1>4 DEF Awaited
  <2>2. CASE u = t
    <3>1. PICK k \in DOMAIN todo[t] : todo[t][k] = n
      BY <2>1, <2>2 DEF Awaits
    <3>2. k - 1 \in DOMAIN todo'[t] /\ todo'[t][k - 1] = n
      BY <1>1, <1>2, <1>4, <3>1
    <3> QED
      BY <3>2 DEF Awaited, Awaits
  <2>3. CASE u # t
    BY <1>1, <2>1, <2>3 DEF Awaited, Awaits
  <2> QED
    BY <2>2, <2>3
<1>5. ASSUME NEW n, Awaited(n)'
      PROVE  Awaited(n)
  <2>1. PICK u \in Threads : Awaits(u, n)'
    BY <1>5 DEF Awaited, Awaits
  <2>2. CASE u = t
    BY <1>1, <1>2, <2>1, <2>2 DEF Awaited, Awaits
  <2>3. CASE u # t
    BY <1>1, <2>1, <2>3 DEF Awaited, Awaits
  <2> QED
    BY <2>2, <2>3
<1> QED
  BY <1>2, <1>3, <1>4, <1>5

LEMMA SearchKeeps ==
  ASSUME BuilderInv, NEW t \in Threads, Search(t)
  PROVE  BuilderInv'
<1> USE DEF BuilderInv
<1>0. PICK node : node = Head(todo[t])
  OBVIOUS
<1>1. /\ phase = "search" /\ todo[t] # <<>>
      /\ searched' = [searched EXCEPT ![node] = @ + 1]
      /\ todo' = [todo EXCEPT ![t] = Tail(@)]
      /\ UNCHANGED <<graph, buffer, lock, pc, span, bucket, pass, batch, phase>>
  BY <1>0 DEF Search, progress
<1>2. PICK list \in Pruned(Reachable \cup Neighbors(node), node, MaxDegree) :
        updates' = [updates EXCEPT ![t] = Append(@, <<node, Ascending(list)>>)]
  BY <1>0 DEF Search
<1>3. /\ node \in Nodes /\ todo' \in [Threads -> Seq(Nodes)]
      /\ \A n : Awaited(n) => Awaited(n)' \/ n = node
      /\ \A n : Awaited(n)' => Awaited(n)
  BY <1>0, <1>1, AwaitedAfterTail
<1>4. /\ todo[t] \in Seq(Nodes) /\ todo'[t] = Tail(todo[t]) /\ \A u \in Threads : u # t => todo'[u] = todo[u]
      /\ node = todo[t][1] /\ 1 \in DOMAIN todo[t]
      /\ \A k \in DOMAIN Tail(todo[t]) : k + 1 \in DOMAIN todo[t] /\ Tail(todo[t])[k] = todo[t][k + 1]
  BY <1>0, <1>1, ShareTail DEF TypeOK
<1>5. /\ \A u \in Threads : \A k \in DOMAIN todo[u] : todo[u][k] \in Batch(batch)
      /\ \A u, v \in Threads : \A j \in DOMAIN todo[u], k \in DOMAIN todo[v] :
           todo[u][j] = todo[v][k] => u = v /\ j = k
  BY <1>1 DEF SharesInv
<1>6. Awaited(node) /\ ~Awaited(node)'
  <2>1. Awaited(node)
    BY <1>4 DEF Awaited, Awaits
  <2>2. ASSUME NEW u \in Threads, NEW k \in DOMAIN todo'[u], todo'[u][k] = node
        PROVE  FALSE
    <3>1. CASE u = t
      <4>1. k \in Nat \ {0} /\ k \in DOMAIN Tail(todo[t])
        BY <1>3, <1>4, <3>1
      <4>2. k + 1 \in DOMAIN todo[t] /\ todo[t][k + 1] = todo[t][1]
        BY <1>4, <2>2, <3>1, <4>1
      <4>3. k + 1 = 1
        BY <1>4, <1>5, <4>2
      <4> QED
        BY <4>1, <4>3
    <3>2. CASE u # t
      BY <1>4, <1>5, <2>2, <3>2
    <3> QED
      BY <3>1, <3>2
  <2> QED
    BY <2>1, <2>2 DEF Awaited, Awaits
<1>7. /\ Ascending(list) \in Seq(Nodes) /\ Proper(node, Ascending(list), Len(Ascending(list)))
  <2>1. Reachable \cup Neighbors(node) \in SUBSET Nodes
    BY <1>3, NeighborsAreNodes DEF Reachable, TypeOK, Rows
  <2> QED
    BY <1>3, <2>1, PrunedIsProper
<1>8. \A n \in Nodes : searched'[n] = IF n = node THEN searched[n] + 1 ELSE searched[n]
  BY <1>1, <1>3 DEF TypeOK
<1>9. batch \in Nat /\ pass \in Nat \ {0} /\ pass <= Passes /\ Passes \in Nat
  BY BatchesCover, BuilderAssumption DEF TypeOK
<1>10. CountInv'
  <2> SUFFICES ASSUME NEW n \in Nodes
               PROVE  searched'[n] = pass - 1 + (IF Visited(n)' THEN 1 ELSE 0)
    BY <1>1 DEF CountInv
  <2>1. CASE n = node
    <3>1. node < batchsize * (batch + 1)
      BY <1>4, <1>5, <1>9, BatchIs
    <3>2. ~Visited(node) /\ Visited(node)'
      BY <1>1, <1>6, <3>1 DEF Visited, batchsize, num_batches
    <3> QED
      BY <1>3, <1>8, <1>9, <2>1, <3>2 DEF CountInv
  <2>2. CASE n # node
    <3>1. Visited(n)' = Visited(n)
      BY <1>1, <1>3, <2>2 DEF Visited, batchsize, num_batches
    <3> QED
      BY <1>8, <2>2, <3>1 DEF CountInv
  <2> QED
    BY <2>1, <2>2
<1>11. TypeOK'
  <2>1. updates' \in [Threads -> Seq(Nodes \X Seq(Nodes))]
    <3> DEFINE new == <<node, Ascending(list)>>
               U == Nodes \X Seq(Nodes)
    <3>1. new \in U /\ updates \in [Threads -> Seq(U)] /\ updates' = [updates EXCEPT ![t] = Append(@, new)]
      BY <1>2, <1>3, <1>7 DEF TypeOK
    <3> HIDE DEF new, U
    <3>2. updates' \in [Threads -> Seq(U)]
      BY <3>1
    <3> QED
      BY <3>2 DEF U
  <2>2. ASSUME NEW n \in Nodes
        PROVE  searched'[n] \in 0 .. Passes
    BY <1>1, <1>9, <1>10 DEF CountInv
  <2>3. searched' \in [Nodes -> 0 .. Passes]
    BY <1>1, <2>2 DEF TypeOK
  <2> QED
    BY <1>1, <1>3, <2>1, <2>3 DEF TypeOK, num_batches, num_buckets
<1>12. PhaseInv'
  BY <1>1 DEF PhaseInv
<1>13. RowsProper'
  BY <1>1 DEF RowsProper, Proper
<1>14. UpdatesProper'
  <2> SUFFICES ASSUME NEW u \in Threads, NEW k \in DOMAIN updates'[u]
               PROVE  Proper(updates'[u][k][1], updates'[u][k][2], Len(updates'[u][k][2]))
    BY DEF UpdatesProper, Proper
  <2>1. updates \in [Threads -> Seq(Nodes \X Seq(Nodes))]
    BY DEF TypeOK
  <2>2. CASE u = t
    <3> DEFINE new == <<node, Ascending(list)>>
    <3>1. updates'[t] = Append(updates[t], new) /\ updates[t] \in Seq(Nodes \X Seq(Nodes)) /\ new \in Nodes \X Seq(Nodes)
      BY <1>2, <1>3, <1>7, <2>1
    <3>2. new[1] = node /\ new[2] = Ascending(list)
      OBVIOUS
    <3> HIDE DEF new
    <3>3. updates'[t][k] = new \/ (k \in DOMAIN updates[t] /\ updates'[t][k] = updates[t][k])
      BY <2>2, <3>1
    <3> QED
      BY <1>7, <2>2, <3>2, <3>3 DEF UpdatesProper
  <2>3. CASE u # t
    BY <1>2, <2>1, <2>3 DEF UpdatesProper
  <2> QED
    BY <2>2, <2>3
<1>15. SpanInv'
  BY <1>1 DEF PhaseInv, SpanInv, SpanOK
<1>16. SharesInv'
  <2>1. ASSUME NEW u \in Threads, NEW k \in DOMAIN todo'[u]
        PROVE  \E j \in DOMAIN todo[u] : todo'[u][k] = todo[u][j] /\ (u = t => j = k + 1) /\ (u # t => j = k)
    BY <1>4
  <2>2. ASSUME NEW u \in Threads, NEW k \in DOMAIN todo'[u]
        PROVE  todo'[u][k] \in Batch(batch)
    BY <1>5, <2>1
  <2>3. ASSUME NEW u \in Threads, NEW v \in Threads, NEW j \in DOMAIN todo'[u], NEW k \in DOMAIN todo'[v],
               todo'[u][j] = todo'[v][k]
        PROVE  u = v /\ j = k
    <3>1. j \in Nat /\ k \in Nat
      BY <1>3
    <3>2. PICK i1 \in DOMAIN todo[u] : todo'[u][j] = todo[u][i1] /\ (u = t => i1 = j + 1) /\ (u # t => i1 = j)
      BY <2>1
    <3>3. PICK i2 \in DOMAIN todo[v] : todo'[v][k] = todo[v][i2] /\ (v = t => i2 = k + 1) /\ (v # t => i2 = k)
      BY <2>1
    <3>4. todo[u][i1] = todo[v][i2]
      BY <2>3, <3>2, <3>3
    <3>5. u = v /\ i1 = i2
      BY <1>5, <3>4, Zenon
    <3> QED
      BY <3>1, <3>2, <3>3, <3>5
  <2>4. Batch(batch)' = Batch(batch)
    BY <1>1 DEF Batch, batchsize, num_batches
  <2> QED
    BY <2>2, <2>3, <2>4 DEF SharesInv
<1>17. ReverseInv' /\ BackedgesKept'
  BY <1>1 DEF ReverseInv, BackedgesKept
<1> QED
  BY <1>10, <1>11, <1>12, <1>13, <1>14, <1>15, <1>16, <1>17

\* What has been searched does not change but in the search, nor do the shares.
LEMMA CountStays ==
  ASSUME CountInv, SharesInv, UNCHANGED <<searched, pass, batch, phase>>, phase = "search" => UNCHANGED todo
  PROVE  CountInv' /\ SharesInv'
<1>1. \A n : Visited(n)' = Visited(n)
  BY DEF Visited, Awaited, Awaits, batchsize, num_batches
<1>2. CountInv'
  BY <1>1 DEF CountInv
<1>3. SharesInv'
  BY DEF SharesInv, Batch, batchsize, num_batches
<1> QED
  BY <1>2, <1>3

LEMMA ApplyKeeps ==
  ASSUME BuilderInv, NEW t \in Threads, Apply(t)
  PROVE  BuilderInv'
<1> USE DEF BuilderInv
<1> DEFINE U == Nodes \X Seq(Nodes)
<1>1. /\ phase = "apply" /\ updates[t] # <<>>
      /\ graph' = Replaced(graph, Head(updates[t])[1], Head(updates[t])[2])
      /\ updates' = [updates EXCEPT ![t] = Tail(@)]
      /\ UNCHANGED <<buffer, lock, todo, pc, span, bucket, searched, pass, batch, phase>>
  BY DEF Apply, progress
<1>2. updates \in [Threads -> Seq(U)] /\ graph \in [Nodes -> Rows]
  BY DEF TypeOK, Rows
<1>3. /\ Head(updates[t]) = updates[t][1] /\ 1 \in DOMAIN updates[t] /\ updates[t][1] \in U
      /\ Tail(updates[t]) \in Seq(U)
      /\ \A k \in DOMAIN Tail(updates[t]) : k + 1 \in DOMAIN updates[t] /\ Tail(updates[t])[k] = updates[t][k + 1]
  <2> HIDE DEF U
  <2>1. updates[t] \in Seq(U)
    BY <1>2
  <2> QED
    BY <1>1, <2>1
<1>4. PICK node \in Nodes, list \in Seq(Nodes) : updates[t][1][1] = node /\ updates[t][1][2] = list
  BY <1>3
<1>5. Proper(node, list, Len(list))
  BY <1>3, <1>4 DEF UpdatesProper
<1>6. /\ graph' \in [Nodes -> Rows] /\ \A m \in Nodes : m # node => graph'[m] = graph[m]
      /\ Proper(node, graph'[node].slot, graph'[node].len)
  <2>1. graph' = Replaced(graph, node, list)
    BY <1>1, <1>3, <1>4
  <2> QED
    BY <1>2, <1>5, <2>1, ReplacedIs
<1>7. TypeOK'
  <2>1. updates' \in [Threads -> Seq(U)]
    <3> HIDE DEF U
    <3> QED
      BY <1>1, <1>2, <1>3
  <2> QED
    BY <1>1, <1>6, <2>1 DEF TypeOK, Rows, num_batches, num_buckets
<1>8. PhaseInv'
  BY <1>1 DEF PhaseInv
<1>9. RowsProper'
  <2> SUFFICES ASSUME NEW n \in Nodes
               PROVE  Proper(n, graph'[n].slot, graph'[n].len)
    BY DEF RowsProper, Proper
  <2> QED
    BY <1>6 DEF RowsProper
<1>10. UpdatesProper'
  <2> SUFFICES ASSUME NEW u \in Threads, NEW k \in DOMAIN updates'[u]
               PROVE  Proper(updates'[u][k][1], updates'[u][k][2], Len(updates'[u][k][2]))
    BY DEF UpdatesProper, Proper
  <2>1. \E j \in DOMAIN updates[u] : updates'[u][k] = updates[u][j]
    <3>1. CASE u = t
      BY <1>1, <1>2, <1>3, <3>1
    <3>2. CASE u # t
      BY <1>1, <1>2, <3>2
    <3> QED
      BY <3>1, <3>2
  <2> QED
    BY <2>1 DEF UpdatesProper
<1>11. SpanInv'
  BY <1>1 DEF PhaseInv, SpanInv, SpanOK
<1>12. CountInv' /\ SharesInv'
  BY <1>1, CountStays
<1>13. ReverseInv' /\ BackedgesKept'
  BY <1>1 DEF ReverseInv, BackedgesKept
<1> QED
  BY <1>7, <1>8, <1>9, <1>10, <1>11, <1>12, <1>13

LEMMA TakeBucketKeeps ==
  ASSUME BuilderInv, NEW t \in Threads, TakeBucket(t)
  PROVE  BuilderInv'
<1> USE DEF BuilderInv
<1>1. /\ phase = "prune" /\ todo[t] = <<>> /\ bucket < num_buckets
      /\ todo' = [todo EXCEPT ![t] = Overflowed(bucket)]
      /\ bucket' = bucket + 1
      /\ UNCHANGED <<graph, updates, buffer, lock, pc, span, searched, pass, batch, phase>>
  BY DEF TakeBucket, progress
<1>2. Overflowed(bucket) \in Seq(Nodes)
  <2> DEFINE S == {n \in UnitRange(bucket * BucketSize, (bucket + 1) * BucketSize) \cap Nodes : buffer[n] # {}}
  <2>1. S \in SUBSET Nodes
    OBVIOUS
  <2>2. Overflowed(bucket) = Ascending(S)
    BY DEF Overflowed
  <2> HIDE DEF S
  <2> QED
    BY <2>1, <2>2, AscendingIs
<1>3. bucket \in Nat /\ num_buckets \in Nat /\ bucket' \in 1 .. num_buckets
  BY <1>1, BatchesCover DEF TypeOK
<1>4. TypeOK'
  <2>1. todo' \in [Threads -> Seq(Nodes)]
    BY <1>1, <1>2 DEF TypeOK
  <2>2. bucket' \in 0 .. num_buckets
    BY <1>3
  <2> QED
    BY <1>1, <2>1, <2>2 DEF TypeOK, num_batches, num_buckets
<1>5. PhaseInv'
  BY <1>1, <1>3 DEF PhaseInv
<1>6. RowsProper' /\ UpdatesProper'
  BY <1>1 DEF RowsProper, UpdatesProper, Proper
<1>7. SpanInv'
  BY <1>1 DEF PhaseInv, SpanInv, SpanOK
<1>8. CountInv' /\ SharesInv'
  BY <1>1, CountStays
<1>9. ReverseInv' /\ BackedgesKept'
  BY <1>1, <1>3 DEF ReverseInv, BackedgesKept
<1> QED
  BY <1>4, <1>5, <1>6, <1>7, <1>8, <1>9

LEMMA PruneKeeps ==
  ASSUME BuilderInv, NEW t \in Threads, Prune(t)
  PROVE  BuilderInv'
<1> USE DEF BuilderInv
<1>0. PICK src : src = Head(todo[t])
  OBVIOUS
<1>1. /\ phase = "prune" /\ todo[t] # <<>>
      /\ todo' = [todo EXCEPT ![t] = Tail(@)]
      /\ UNCHANGED <<updates, buffer, lock, pc, span, bucket, searched, pass, batch, phase>>
  BY DEF Prune, progress
<1>2. PICK list \in Pruned(buffer[src] \cup Neighbors(src), src, PruneTo) :
        graph' = Replaced(graph, src, Ascending(list))
  BY <1>0 DEF Prune
<1>3. src \in Nodes /\ todo' \in [Threads -> Seq(Nodes)] /\ graph \in [Nodes -> Rows] /\ buffer[src] \in SUBSET Nodes
  BY <1>0, <1>1, AwaitedAfterTail DEF TypeOK, Rows
<1>4. Ascending(list) \in Seq(Nodes) /\ Proper(src, Ascending(list), Len(Ascending(list)))
  <2>1. buffer[src] \cup Neighbors(src) \in SUBSET Nodes
    BY <1>3, NeighborsAreNodes
  <2> QED
    BY <1>3, <2>1, PrunedIsProper
<1>5. /\ graph' \in [Nodes -> Rows] /\ \A m \in Nodes : m # src => graph'[m] = graph[m]
      /\ Proper(src, graph'[src].slot, graph'[src].len)
  BY <1>2, <1>3, <1>4, ReplacedIs
<1>6. bucket # 0
  BY <1>1 DEF PhaseInv
<1>7. TypeOK'
  BY <1>1, <1>3, <1>5 DEF TypeOK, Rows, num_batches, num_buckets
<1>8. PhaseInv'
  BY <1>1, <1>6 DEF PhaseInv
<1>9. RowsProper'
  <2> SUFFICES ASSUME NEW n \in Nodes
               PROVE  Proper(n, graph'[n].slot, graph'[n].len)
    BY DEF RowsProper, Proper
  <2> QED
    BY <1>5 DEF RowsProper
<1>10. UpdatesProper'
  BY <1>1 DEF UpdatesProper, Proper
<1>11. SpanInv'
  BY <1>1 DEF PhaseInv, SpanInv, SpanOK
<1>12. CountInv' /\ SharesInv'
  BY <1>1, CountStays
<1>13. ReverseInv' /\ BackedgesKept'
  BY <1>1, <1>6 DEF ReverseInv, BackedgesKept
<1> QED
  BY <1>7, <1>8, <1>9, <1>10, <1>11, <1>12, <1>13
-----------------------------------------------------------------------------
(***************************************************************************)
(* The barriers between the phases.                                        *)
(***************************************************************************)
LEMMA SearchOverKeeps ==
  ASSUME BuilderInv, SearchOver
  PROVE  BuilderInv'
<1> USE DEF BuilderInv
<1>1. /\ phase = "search" /\ phase' = "apply" /\ \A t \in Threads : todo[t] = <<>>
      /\ UNCHANGED <<graph, updates, buffer, lock, pass, batch, todo, pc, span, bucket, searched>>
  BY DEF SearchOver, AllIdle
<1>2. TypeOK'
  BY <1>1 DEF TypeOK, num_batches, num_buckets
<1>3. PhaseInv'
  BY <1>1 DEF PhaseInv
<1>4. RowsProper' /\ UpdatesProper'
  BY <1>1 DEF RowsProper, UpdatesProper, Proper
<1>5. SpanInv'
  BY <1>1 DEF PhaseInv, SpanInv, SpanOK
<1>6. CountInv'
  <2>1. \A n : ~Awaited(n)
    BY <1>1 DEF Awaited, Awaits
  <2>2. \A n : Visited(n)' = Visited(n)
    BY <1>1, <2>1 DEF Visited, batchsize, num_batches
  <2> QED
    BY <1>1, <2>2 DEF CountInv
<1>7. SharesInv' /\ ReverseInv' /\ BackedgesKept'
  BY <1>1 DEF SharesInv, ReverseInv, BackedgesKept
<1> QED
  BY <1>2, <1>3, <1>4, <1>5, <1>6, <1>7

\* The nodes of the batch are divided again, so each of them is awaited.
LEMMA ApplyOverKeeps ==
  ASSUME BuilderInv, ApplyOver
  PROVE  BuilderInv'
<1> USE DEF BuilderInv
<1>1. /\ phase = "apply" /\ phase' = "reverse" /\ \A t \in Threads : updates[t] = <<>>
      /\ buffer' = [n \in Nodes |-> {}]
      /\ todo' = [t \in Threads |-> Share(batch, t)]
      /\ UNCHANGED <<graph, updates, lock, pass, batch, pc, span, bucket, searched>>
  BY DEF ApplyOver
<1>2. batch \in Nat
  BY BatchesCover DEF TypeOK
<1>3. TypeOK'
  <2>1. buffer' \in [Nodes -> SUBSET Nodes]
    BY <1>1
  <2>2. todo' \in [Threads -> Seq(Nodes)]
    BY <1>1, <1>2, SharesOfBatch
  <2> QED
    BY <1>1, <2>1, <2>2 DEF TypeOK, num_batches, num_buckets
<1>4. PhaseInv'
  BY <1>1 DEF PhaseInv
<1>5. RowsProper' /\ UpdatesProper'
  BY <1>1 DEF RowsProper, UpdatesProper, Proper
<1>6. SpanInv'
  BY <1>1 DEF PhaseInv, SpanInv, SpanOK
<1>7. CountInv'
  <2>1. \A n : Visited(n)' = Visited(n)
    BY <1>1 DEF Visited, batchsize, num_batches
  <2> QED
    BY <1>1, <2>1 DEF CountInv
<1>8. ReverseInv'
  <2>1. ASSUME NEW n \in Batch(batch)
        PROVE  Awaited(n)'
    <3>1. PICK t \in Threads : \E k \in DOMAIN Share(batch, t) : Share(batch, t)[k] = n
      BY <1>2, SharesOfBatch
    <3>2. todo'[t] = Share(batch, t)
      BY <1>1
    <3> QED
      BY <3>1, <3>2 DEF Awaited, Awaits
  <2>2. Batch(batch)' = Batch(batch)
    BY <1>1 DEF Batch, batchsize, num_batches
  <2> QED
    BY <2>1, <2>2 DEF ReverseInv
<1>9. SharesInv' /\ BackedgesKept'
  BY <1>1 DEF SharesInv, BackedgesKept
<1> QED
  BY <1>3, <1>4, <1>5, <1>6, <1>7, <1>8, <1>9

\* Nothing is awaited or ahead any more, so every edge has its edge back.
LEMMA ReverseOverKeeps ==
  ASSUME BuilderInv, ReverseOver
  PROVE  BuilderInv'
<1> USE DEF BuilderInv
<1>1. /\ phase = "reverse" /\ phase' = "prune" /\ bucket' = 0
      /\ \A t \in Threads : todo[t] = <<>> /\ pc[t] = "idle"
      /\ UNCHANGED <<graph, updates, buffer, lock, pass, batch, todo, pc, span, searched>>
  BY DEF ReverseOver, AllIdle
<1>2. TypeOK'
  <2>1. bucket' \in 0 .. num_buckets
    BY <1>1, BatchesCover
  <2> QED
    BY <1>1, <2>1 DEF TypeOK, num_batches, num_buckets
<1>3. PhaseInv'
  BY <1>1 DEF PhaseInv
<1>4. RowsProper' /\ UpdatesProper'
  BY <1>1 DEF RowsProper, UpdatesProper, Proper
<1>5. SpanInv'
  BY <1>1 DEF SpanInv, SpanOK
<1>6. CountInv'
  <2>1. \A n : Visited(n)' = Visited(n)
    BY <1>1 DEF Visited, batchsize, num_batches
  <2> QED
    BY <1>1, <2>1 DEF CountInv
<1>7. BackedgesKept'
  <2>1. \A n : ~Awaited(n)
    BY <1>1 DEF Awaited, Awaits
  <2>2. \A t \in Threads : \A n, m : ~Ahead(t, n, m)
    BY <1>1 DEF Ahead
  <2>3. \A n \in Batch(batch) : \A m \in Neighbors(n) : n \in Neighbors(m) \cup buffer[m]
    BY <1>1, <2>1, <2>2 DEF ReverseInv, HasBack
  <2> QED
    BY <1>1, <2>3 DEF BackedgesKept, Batch, batchsize, num_batches, Neighbors
<1>8. SharesInv' /\ ReverseInv'
  BY <1>1 DEF SharesInv, ReverseInv
<1> QED
  BY <1>2, <1>3, <1>4, <1>5, <1>6, <1>7, <1>8
\* The shares of batch b, when they are given out.
LEMMA Awarded ==
  ASSUME NEW b \in Nat, NEW queue, queue = [t \in Threads |-> Share(b, t)]
  PROVE  /\ queue \in [Threads -> Seq(Nodes)]
         /\ \A t \in Threads : \A k \in DOMAIN queue[t] : queue[t][k] \in Batch(b)
         /\ \A t, u \in Threads : \A j \in DOMAIN queue[t], k \in DOMAIN queue[u] :
              queue[t][j] = queue[u][k] => t = u /\ j = k
         /\ \A n : n \in Batch(b) <=> \E t \in Threads : \E k \in DOMAIN queue[t] : queue[t][k] = n
<1>1. \A t \in Threads : queue[t] = Share(b, t)
  OBVIOUS
<1>2. \A t \in Threads : \A k \in DOMAIN queue[t] : queue[t][k] \in Batch(b)
  BY <1>1, SharesOfBatch
<1>3. \A n \in Batch(b) : \E t \in Threads : \E k \in DOMAIN queue[t] : queue[t][k] = n
  BY <1>1, SharesOfBatch
<1>4. \A t, u \in Threads : \A j \in DOMAIN queue[t], k \in DOMAIN queue[u] :
        queue[t][j] = queue[u][k] => t = u /\ j = k
  BY <1>1, SharesOfBatch
<1>5. queue \in [Threads -> Seq(Nodes)]
  BY SharesOfBatch
<1> QED
  BY <1>2, <1>3, <1>4, <1>5

\* A batch begins: its nodes, and those of later batches, have not been visited.
LEMMA BatchBegins ==
  ASSUME phase' = "search", batch' \in Nat, todo' = [t \in Threads |-> Share(batch', t)]
  PROVE  /\ todo' \in [Threads -> Seq(Nodes)] /\ SharesInv'
         /\ \A n \in Nodes : Visited(n)' <=> n < batchsize * batch'
<1> DEFINE b == batch'
<1>1. /\ todo' \in [Threads -> Seq(Nodes)]
      /\ \A t \in Threads : \A k \in DOMAIN todo'[t] : todo'[t][k] \in Batch(b)
      /\ \A t, u \in Threads : \A j \in DOMAIN todo'[t], k \in DOMAIN todo'[u] :
           todo'[t][j] = todo'[u][k] => t = u /\ j = k
      /\ \A n : n \in Batch(b) <=> \E t \in Threads : \E k \in DOMAIN todo'[t] : todo'[t][k] = n
  BY Awarded
<1>2. SharesInv'
  BY <1>1 DEF SharesInv, Batch, batchsize, num_batches
<1>3. \A n : Awaited(n)' <=> n \in Batch(b)
  BY <1>1 DEF Awaited, Awaits
<1>4. /\ batchsize * b \in Nat /\ batchsize \in Nat \ {0} /\ batchsize * (b + 1) = batchsize * b + batchsize
      /\ Batch(b) = {n \in Nodes : batchsize * b <= n /\ n < batchsize * (b + 1)}
  BY BatchIs, BatchesCover
<1>5. \A n : Visited(n)' <=> n < batchsize * (b + 1) /\ n \notin Batch(b)
  BY <1>3 DEF Visited, batchsize, num_batches
<1>6. \A n \in Nodes : n \in Int
  BY BuilderAssumption DEF Nodes
<1> HIDE DEF b
<1>7. \A n \in Nodes : Visited(n)' <=> n < batchsize * b
  BY <1>4, <1>5, <1>6
<1> QED
  BY <1>1, <1>2, <1>7 DEF b

LEMMA BatchOverKeeps ==
  ASSUME BuilderInv, BatchOver
  PROVE  BuilderInv'
<1> USE DEF BuilderInv
<1>1. /\ phase = "prune" /\ bucket = num_buckets /\ bucket # 0
      /\ \A t \in Threads : todo[t] = <<>> /\ pc[t] = "idle"
      /\ todo' = [t \in Threads |-> IF phase' = "search" THEN Share(batch', t) ELSE <<>>]
      /\ UNCHANGED <<graph, updates, buffer, lock, pc, span, bucket, searched>>
  BY BatchesCover DEF BatchOver, AllIdle
<1>2. /\ batch \in Nat /\ num_batches \in Nat \ {0} /\ batch <= num_batches - 1
      /\ pass \in 1 .. Passes /\ Passes \in Nat \ {0}
      /\ batchsize * num_batches >= NumNodes /\ NumNodes \in Nat /\ batchsize \in Nat \ {0}
  BY BatchesCover, BuilderAssumption DEF TypeOK
<1>3. /\ phase' \in {"search", "done"} /\ batch' \in 0 .. num_batches - 1 /\ pass' \in 1 .. Passes
      /\ phase' = "done" => pass' = Passes /\ batch' + 1 = num_batches
  BY <1>2 DEF BatchOver
<1>4. \A n \in Nodes : searched[n] = pass - 1 + (IF n < batchsize * (batch + 1) THEN 1 ELSE 0)
  BY <1>1 DEF CountInv, Visited
<1>5. /\ todo' \in [Threads -> Seq(Nodes)] /\ SharesInv'
      /\ phase' = "search" => \A n \in Nodes : Visited(n)' <=> n < batchsize * batch'
  <2>1. CASE phase' = "search"
    <3>1. batch' \in Nat /\ todo' = [t \in Threads |-> Share(batch', t)]
      BY <1>1, <1>2, <1>3, <2>1
    <3> QED
      BY <2>1, <3>1, BatchBegins
  <2>2. CASE phase' = "done"
    BY <1>1, <2>2 DEF SharesInv
  <2> QED
    BY <1>3, <2>1, <2>2
<1>6. TypeOK'
  BY <1>1, <1>3, <1>5 DEF TypeOK, num_batches, num_buckets
<1>7. PhaseInv'
  <2>1. phase' = "done" => \A t \in Threads : todo'[t] = <<>>
    BY <1>1
  <2> QED
    BY <1>1, <1>3, <2>1 DEF PhaseInv, num_batches
<1>8. RowsProper' /\ UpdatesProper'
  BY <1>1 DEF RowsProper, UpdatesProper, Proper
<1>9. SpanInv'
  BY <1>1 DEF SpanInv, SpanOK
<1>10. CountInv'
  <2> SUFFICES ASSUME NEW n \in Nodes
               PROVE  searched[n] = pass' - 1 + (IF Visited(n)' THEN 1 ELSE 0)
    BY <1>1 DEF CountInv
  <2>0. n \in Nat /\ n < NumNodes
    BY <1>2 DEF Nodes
  <2>1. CASE batch' = batch + 1 /\ phase' = "search" /\ pass' = pass
    BY <1>4, <1>5, <2>1
  <2>2. CASE batch + 1 = num_batches /\ batch' = 0 /\ phase' = "search" /\ pass' = pass + 1
    <3>1. ~(n < batchsize * batch')
      BY <1>2, <2>0, <2>2
    <3>2. n < batchsize * (batch + 1)
      <4> DEFINE whole == batchsize * num_batches
      <4>1. whole >= NumNodes /\ whole \in Nat
        BY <1>2
      <4> HIDE DEF whole
      <4>2. n < whole
        BY <1>2, <2>0, <4>1
      <4> QED
        BY <2>2, <4>2 DEF whole
    <3>3. ~Visited(n)' /\ searched[n] = pass - 1 + 1
      BY <1>4, <1>5, <2>2, <3>1, <3>2
    <3> QED
      BY <1>2, <2>2, <3>3
  <2>3. CASE phase' = "done" /\ UNCHANGED <<pass, batch>>
    <3>1. Visited(n)' <=> n < batchsize * (batch + 1)
      BY <2>3 DEF Visited, batchsize, num_batches
    <3> QED
      BY <1>4, <2>3, <3>1
  <2> QED
    BY <2>1, <2>2, <2>3 DEF BatchOver
<1>11. ReverseInv' /\ BackedgesKept'
  BY <1>3 DEF ReverseInv, BackedgesKept
<1> QED
  BY <1>5, <1>6, <1>7, <1>8, <1>9, <1>10, <1>11

LEMMA BuilderStarts ==
  ASSUME Init
  PROVE  BuilderInv
<1>1. /\ graph = [n \in Nodes |-> [len |-> 0, slot |-> [i \in 1 .. MaxDegree |-> 0]]]
      /\ updates = [t \in Threads |-> <<>>]
      /\ buffer = [n \in Nodes |-> {}] /\ lock = [n \in Nodes |-> NoThread]
      /\ pass = 1 /\ batch = 0 /\ phase = "search"
      /\ todo = [t \in Threads |-> Share(0, t)]
      /\ pc = [t \in Threads |-> "idle"]
      /\ span = [t \in Threads |-> [node |-> 0, list |-> <<>>, next |-> 1]]
      /\ bucket = 0 /\ searched = [n \in Nodes |-> 0]
  BY DEF Init
<1>2. /\ 0 \in Nodes /\ MaxDegree \in Nat /\ Passes \in Nat \ {0}
      /\ num_batches \in Nat \ {0} /\ num_buckets \in Nat \ {0} /\ batchsize \in Nat \ {0}
  BY BuilderAssumption, BatchesCover DEF Nodes
<1>3. /\ todo \in [Threads -> Seq(Nodes)]
      /\ \A t \in Threads : \A k \in DOMAIN todo[t] : todo[t][k] \in Batch(0)
      /\ \A t, u \in Threads : \A j \in DOMAIN todo[t], k \in DOMAIN todo[u] :
           todo[t][j] = todo[u][k] => t = u /\ j = k
      /\ \A n : n \in Batch(0) <=> \E t \in Threads : \E k \in DOMAIN todo[t] : todo[t][k] = n
  <2>1. 0 \in Nat
    OBVIOUS
  <2> DEFINE queue == [t \in Threads |-> Share(0, t)]
  <2>2. todo = queue
    BY <1>1
  <2> HIDE DEF queue
  <2>3. queue = [t \in Threads |-> Share(0, t)]
    BY DEF queue
  <2> QED
    BY <2>1, <2>2, <2>3, Awarded
<1>4. TypeOK
  <2>1. graph \in [Nodes -> [len : 0 .. MaxDegree, slot : [1 .. MaxDegree -> Nodes]]]
    BY <1>1, <1>2
  <2>2. updates \in [Threads -> Seq(Nodes \X Seq(Nodes))]
    BY <1>1
  <2>3. span \in [Threads -> [node : Nodes, list : Seq(Nodes), next : Nat \ {0}]]
    BY <1>1, <1>2
  <2>4. searched \in [Nodes -> 0 .. Passes] /\ lock \in [Nodes -> Threads \cup {NoThread}]
    BY <1>1, <1>2
  <2>5. pass \in 1 .. Passes /\ batch \in 0 .. num_batches - 1 /\ bucket \in 0 .. num_buckets
    BY <1>1, <1>2
  <2> QED
    BY <1>1, <1>3, <2>1, <2>2, <2>3, <2>4, <2>5 DEF TypeOK
<1>5. PhaseInv
  BY <1>1 DEF PhaseInv
<1>6. RowsProper
  BY <1>1 DEF RowsProper, Proper
<1>7. UpdatesProper
  BY <1>1 DEF UpdatesProper
<1>8. SpanInv
  BY <1>1 DEF SpanInv, SpanOK
<1>9. SharesInv
  BY <1>1, <1>3 DEF SharesInv
<1>10. CountInv
  <2> SUFFICES ASSUME NEW n \in Nodes
               PROVE  ~Visited(n)
    BY <1>1 DEF CountInv
  <2>1. Batch(0) = {m \in Nodes : batchsize * 0 <= m /\ m < batchsize * (0 + 1)}
    BY BatchIs
  <2>2. n \in Int /\ n >= 0 /\ batchsize * 0 = 0
    BY <1>2, BuilderAssumption DEF Nodes
  <2>3. n < batchsize * (0 + 1) => n \in Batch(0)
    BY <2>1, <2>2
  <2>4. n \in Batch(0) => Awaited(n)
    BY <1>3 DEF Awaited, Awaits
  <2> QED
    BY <1>1, <2>3, <2>4 DEF Visited
<1>11. ReverseInv /\ BackedgesKept
  BY <1>1 DEF ReverseInv, BackedgesKept
<1> QED
  BY <1>4, <1>5, <1>6, <1>7, <1>8, <1>9, <1>10, <1>11 DEF BuilderInv
-----------------------------------------------------------------------------
(***************************************************************************)
(* Edges back.                                                             *)
(***************************************************************************)

\* Rows may get more neighbors, but keep those they have.
Grows ==
  \A n \in Nodes :
    /\ graph[n].len <= graph'[n].len
    /\ \A i \in 1 .. graph[n].len : graph'[n].slot[i] = graph[n].slot[i]

\* The neighbor a thread is at is one of the row it walks over.
LEMMA AtNeighbor ==
  ASSUME BuilderInv, NEW t \in Threads, pc[t] # "idle", span[t].next <= Len(span[t].list)
  PROVE  /\ phase = "reverse" /\ span[t].node \in Nodes /\ Other(t) \in Nodes
         /\ span[t].next \in 1 .. graph[span[t].node].len
         /\ span[t].list[span[t].next] = Other(t)
         /\ Other(t) \in Neighbors(span[t].node) /\ Other(t) # span[t].node
<1> USE DEF BuilderInv
<1>1. phase = "reverse"
  BY DEF PhaseInv
<1>2. span[t].node \in Nodes /\ span[t].list \in Seq(Nodes) /\ span[t].next \in Nat \ {0}
  BY DEF TypeOK
<1>3. graph[span[t].node].len \in 0 .. MaxDegree /\ graph[span[t].node].slot \in [1 .. MaxDegree -> Nodes]
  BY <1>2 DEF TypeOK
<1>4. /\ Len(span[t].list) <= graph[span[t].node].len
      /\ \A i \in 1 .. Len(span[t].list) : span[t].list[i] = graph[span[t].node].slot[i]
  BY DEF SpanInv, SpanOK
<1>5. span[t].next \in 1 .. Len(span[t].list) /\ MaxDegree \in Nat
  BY <1>2, BuilderAssumption
<1>6. span[t].next \in 1 .. graph[span[t].node].len /\ span[t].next \in 1 .. MaxDegree
  BY <1>2, <1>3, <1>4, <1>5
<1>7. Other(t) \in Nodes /\ span[t].list[span[t].next] = Other(t)
  BY <1>3, <1>4, <1>5, <1>6 DEF Other
<1>8. Other(t) \in Neighbors(span[t].node)
  BY <1>6 DEF Other, Neighbors
<1>9. Other(t) # span[t].node
  BY <1>2, <1>6 DEF RowsProper, Proper, Other
<1> QED
  BY <1>1, <1>2, <1>6, <1>7, <1>8, <1>9

\* A thread that a step of another thread leaves alone sees what it saw, as long as rows
\* only grow and the row it has locked is left alone.
LEMMA SpanStays ==
  ASSUME BuilderInv, NEW u \in Threads, pc'[u] = pc[u], span'[u] = span[u], Grows,
         pc[u] \in {"held", "stored"} => lock'[Other(u)] = u /\ graph'[Other(u)] = graph[Other(u)],
         graph' \in [Nodes -> Rows]
  PROVE  SpanOK(u)'
<1> SUFFICES ASSUME pc[u] # "idle" PROVE SpanOK(u)'
  BY DEF SpanOK
<1> USE DEF BuilderInv
<1> DEFINE n == span[u].node
           list == span[u].list
<1>1. n \in Nodes /\ list \in Seq(Nodes) /\ Len(list) \in Nat /\ span[u].next \in Nat \ {0}
  BY DEF TypeOK
<1>2. graph[n].len \in Nat /\ graph'[n].len \in Nat
  <2>1. graph[n] \in Rows /\ graph'[n] \in Rows
    BY <1>1 DEF TypeOK, Rows
  <2> QED
    BY <2>1 DEF Rows
<1>3. /\ Len(list) <= graph[n].len /\ \A i \in 1 .. Len(list) : list[i] = graph[n].slot[i]
      /\ pc[u] \in {"held", "stored"} => span[u].next <= Len(list) /\ lock[Other(u)] = u
      /\ pc[u] = "stored" =>
           /\ graph[Other(u)].len < MaxDegree
           /\ graph[Other(u)].slot[graph[Other(u)].len + 1] = n
           /\ n \notin Neighbors(Other(u)) \cup {Other(u)}
  BY DEF SpanInv, SpanOK
<1>4. graph[n].len <= graph'[n].len /\ \A i \in 1 .. graph[n].len : graph'[n].slot[i] = graph[n].slot[i]
  BY <1>1 DEF Grows
<1>5. Len(list) <= graph'[n].len
  BY <1>1, <1>2, <1>3, <1>4
<1>6. \A i \in 1 .. Len(list) : list[i] = graph'[n].slot[i]
  BY <1>1, <1>2, <1>3, <1>4
<1>7. pc[u] \in {"held", "stored"} =>
        /\ Other(u)' = Other(u) /\ span[u].next <= Len(list) /\ lock'[Other(u)] = u
        /\ graph'[Other(u)] = graph[Other(u)] /\ Neighbors(Other(u))' = Neighbors(Other(u))
  <2> SUFFICES ASSUME pc[u] \in {"held", "stored"}
               PROVE  /\ Other(u)' = Other(u) /\ span[u].next <= Len(list) /\ lock'[Other(u)] = u
                      /\ graph'[Other(u)] = graph[Other(u)] /\ Neighbors(Other(u))' = Neighbors(Other(u))
    OBVIOUS
  <2>1. span[u].next \in 1 .. graph[n].len
    BY <1>1, <1>2, <1>3
  <2>2. Other(u)' = Other(u)
    BY <1>4, <2>1 DEF Other
  <2>3. graph'[Other(u)] = graph[Other(u)]
    OBVIOUS
  <2>4. Neighbors(Other(u))' = Neighbors(Other(u))
    BY <2>2, <2>3 DEF Neighbors
  <2> QED
    BY <1>3, <2>2, <2>3, <2>4
<1> QED
  BY <1>3, <1>5, <1>6, <1>7 DEF SpanOK

\* The step of thread t in this phase.  An edge without an edge back stays awaited, or
\* goes to t; it stays ahead of its thread, or has its edge back now; and new edges have
\* theirs.
Progresses(t) ==
  /\ \A n \in Nodes : Awaited(n) => Awaited(n)' \/ \A m \in Neighbors(n) : Ahead(t, n, m)'
  /\ \A n, m \in Nodes : \A u \in Threads : Ahead(u, n, m) => Ahead(u, n, m)' \/ HasBack(n, m)'
  /\ \A n, m \in Nodes : HasBack(n, m) => HasBack(n, m)'
  /\ \A n \in Nodes : \A m \in Neighbors(n)' : m \in Neighbors(n) \/ HasBack(n, m)'

LEMMA ReverseStays ==
  ASSUME BuilderInv, phase = "reverse", UNCHANGED <<phase, batch>>, NEW t \in Threads, Progresses(t)
  PROVE  ReverseInv' /\ BackedgesKept'
<1>1. ASSUME NEW n \in Batch(batch), NEW m \in Neighbors(n)'
      PROVE  HasBack(n, m)' \/ Awaited(n)' \/ \E u \in Threads : Ahead(u, n, m)'
  <2>1. n \in Nodes
    BY BatchIs, BatchesCover DEF BuilderInv, TypeOK
  <2>2. CASE m \in Neighbors(n)
    <3>1. m \in Nodes
      BY <2>1, <2>2, NeighborsAreNodes DEF BuilderInv, TypeOK, Rows
    <3>2. HasBack(n, m) \/ Awaited(n) \/ \E u \in Threads : Ahead(u, n, m)
      BY <2>2 DEF BuilderInv, ReverseInv
    <3> QED
      BY <2>1, <2>2, <3>1, <3>2 DEF Progresses
  <2>3. CASE m \notin Neighbors(n)
    BY <2>1, <2>3 DEF Progresses
  <2> QED
    BY <2>2, <2>3
<1>2. Batch(batch)' = Batch(batch)
  BY DEF Batch, batchsize, num_batches
<1>3. ReverseInv'
  BY <1>1, <1>2 DEF ReverseInv
<1>4. BackedgesKept'
  BY DEF BackedgesKept
<1> QED
  BY <1>3, <1>4

\* What of Progresses holds while rows and the buffer stay.
LEMMA SameRows ==
  ASSUME graph \in [Nodes -> Rows], UNCHANGED <<graph, buffer>>
  PROVE  /\ Grows
         /\ \A n, m \in Nodes : HasBack(n, m)' = HasBack(n, m)
         /\ \A n \in Nodes : Neighbors(n)' = Neighbors(n)
<1>1. \A n \in Nodes : Neighbors(n)' = Neighbors(n)
  BY DEF Neighbors
<1>2. \A n, m \in Nodes : HasBack(n, m)' = HasBack(n, m)
  BY <1>1 DEF HasBack
<1>3. Grows
  <2> SUFFICES ASSUME NEW n \in Nodes PROVE graph[n].len <= graph'[n].len
    BY DEF Grows
  <2>1. graph[n] \in Rows
    OBVIOUS
  <2> QED
    BY <2>1 DEF Rows
<1> QED
  BY <1>1, <1>2, <1>3
\* What a step of thread t in this phase has to show.
LEMMA ReverseStep ==
  ASSUME BuilderInv, phase = "reverse", NEW t \in Threads,
         UNCHANGED <<updates, bucket, searched, pass, batch, phase>>,
         graph' \in [Nodes -> Rows],
         buffer' \in [Nodes -> SUBSET Nodes], lock' \in [Nodes -> Threads \cup {NoThread}],
         todo' \in [Threads -> Seq(Nodes)],
         pc' \in [Threads -> {"idle", "scan", "held", "stored"}],
         span' \in [Threads -> [node : Nodes, list : Seq(Nodes), next : Nat \ {0}]],
         RowsProper', SpanInv', Progresses(t)
  PROVE  BuilderInv'
<1> USE DEF BuilderInv
<1>1. TypeOK'
  BY DEF TypeOK, Rows, num_batches, num_buckets
<1>2. PhaseInv'
  BY DEF PhaseInv
<1>3. UpdatesProper'
  BY DEF UpdatesProper, Proper
<1>4. CountInv' /\ SharesInv'
  BY CountStays
<1>5. ReverseInv' /\ BackedgesKept'
  BY ReverseStays
<1> QED
  BY <1>1, <1>2, <1>3, <1>4, <1>5

\* Rows that a thread has locked are left alone by the others.
LEMMA OthersStay ==
  ASSUME BuilderInv, NEW t \in Threads, Grows, graph' \in [Nodes -> Rows],
         \A u \in Threads : u # t => pc'[u] = pc[u] /\ span'[u] = span[u],
         \A u \in Threads : u # t => \A x \in Nodes : lock[x] = u => lock'[x] = u /\ graph'[x] = graph[x],
         SpanOK(t)'
  PROVE  SpanInv'
<1> SUFFICES ASSUME NEW u \in Threads, u # t PROVE SpanOK(u)'
  BY DEF SpanInv
<1>1. ASSUME pc[u] \in {"held", "stored"}
      PROVE  lock'[Other(u)] = u /\ graph'[Other(u)] = graph[Other(u)]
  <2>1. pc[u] # "idle" /\ span[u].next <= Len(span[u].list) /\ lock[Other(u)] = u
    BY <1>1 DEF BuilderInv, SpanInv, SpanOK
  <2>2. Other(u) \in Nodes
    BY <2>1, AtNeighbor
  <2> QED
    BY <2>1, <2>2
<1>2. pc'[u] = pc[u] /\ span'[u] = span[u]
  OBVIOUS
<1> QED
  BY <1>1, <1>2, SpanStays

LEMMA GetNodeKeeps ==
  ASSUME BuilderInv, NEW t \in Threads, GetNode(t)
  PROVE  BuilderInv'
<1> USE DEF BuilderInv
<1>0. PICK node : node = Head(todo[t])
  OBVIOUS
<1>1. /\ phase = "reverse" /\ pc[t] = "idle" /\ todo[t] # <<>>
      /\ span' = [span EXCEPT ![t] = [node |-> node, list |-> get_node(node), next |-> 1]]
      /\ todo' = [todo EXCEPT ![t] = Tail(@)]
      /\ pc' = [pc EXCEPT ![t] = "scan"]
      /\ UNCHANGED <<graph, updates, buffer, lock, bucket, searched, pass, batch, phase>>
  BY <1>0 DEF GetNode, progress
<1>2. /\ node \in Nodes /\ todo' \in [Threads -> Seq(Nodes)]
      /\ \A n : Awaited(n) => Awaited(n)' \/ n = node
  BY <1>0, <1>1, AwaitedAfterTail
<1>3. graph \in [Nodes -> Rows] /\ graph[node].len \in Nat
  <2>1. graph \in [Nodes -> Rows]
    BY DEF TypeOK, Rows
  <2>2. graph[node] \in Rows
    BY <1>2, <2>1
  <2> QED
    BY <2>1, <2>2 DEF Rows
<1>4. /\ get_node(node) \in Seq(Nodes) /\ Len(get_node(node)) = graph[node].len
      /\ \A i \in 1 .. graph[node].len : get_node(node)[i] = graph[node].slot[i]
  BY <1>2, <1>3, get_nodeIs
<1> DEFINE new == [node |-> node, list |-> get_node(node), next |-> 1]
<1>5. /\ new \in [node : Nodes, list : Seq(Nodes), next : Nat \ {0}]
      /\ new.node = node /\ new.list = get_node(node) /\ new.next = 1
  BY <1>2, <1>4
<1> HIDE DEF new
<1>6. /\ span' \in [Threads -> [node : Nodes, list : Seq(Nodes), next : Nat \ {0}]]
      /\ pc' \in [Threads -> {"idle", "scan", "held", "stored"}]
      /\ span'[t] = new /\ pc'[t] = "scan"
      /\ \A u \in Threads : u # t => pc'[u] = pc[u] /\ span'[u] = span[u]
  <2>1. span' = [span EXCEPT ![t] = new]
    BY <1>1 DEF new
  <2> QED
    BY <1>1, <1>5, <2>1 DEF TypeOK
<1>7. /\ Grows /\ \A n, m \in Nodes : HasBack(n, m)' = HasBack(n, m)
      /\ \A n \in Nodes : Neighbors(n)' = Neighbors(n)
  BY <1>1, <1>3, SameRows
<1>8. SpanInv'
  <2>1. SpanOK(t)'
    BY <1>1, <1>3, <1>4, <1>5, <1>6 DEF SpanOK
  <2> QED
    BY <1>1, <1>3, <1>6, <1>7, <2>1, OthersStay
<1>9. Progresses(t)
  <2>1. ASSUME NEW m \in Neighbors(node)
        PROVE  Ahead(t, node, m)'
    <3>1. PICK i \in 1 .. graph[node].len : graph[node].slot[i] = m
      BY DEF Neighbors
    <3>2. i \in 1 .. Len(get_node(node)) /\ get_node(node)[i] = m
      BY <1>4, <3>1
    <3> QED
      BY <1>5, <1>6, <3>2 DEF Ahead
  <2>2. ASSUME NEW n, NEW m, NEW u \in Threads, Ahead(u, n, m)
        PROVE  Ahead(u, n, m)'
    <3>1. u # t
      BY <1>1, <2>2 DEF Ahead
    <3> QED
      BY <1>6, <2>2, <3>1 DEF Ahead
  <2>3. ASSUME NEW n \in Nodes, Awaited(n), ~Awaited(n)', NEW m \in Neighbors(n)
        PROVE  Ahead(t, n, m)'
    <3>1. n = node
      BY <1>2, <2>3
    <3> QED
      BY <2>1, <2>3, <3>1
  <2> QED
    BY <1>7, <2>2, <2>3 DEF Progresses
<1>10. RowsProper'
  BY <1>1 DEF RowsProper, Proper
<1>11. /\ buffer' \in [Nodes -> SUBSET Nodes] /\ lock' \in [Nodes -> Threads \cup {NoThread}]
       /\ graph' \in [Nodes -> Rows]
  BY <1>1, <1>3 DEF TypeOK
<1> QED
  BY <1>1, <1>2, <1>6, <1>8, <1>9, <1>10, <1>11, ReverseStep

LEMMA EndOfListKeeps ==
  ASSUME BuilderInv, NEW t \in Threads, EndOfList(t)
  PROVE  BuilderInv'
<1> USE DEF BuilderInv
<1>1. /\ pc[t] = "scan" /\ span[t].next > Len(span[t].list)
      /\ pc' = [pc EXCEPT ![t] = "idle"]
      /\ UNCHANGED <<graph, updates, buffer, lock, todo, span, bucket, searched, pass, batch, phase>>
  BY DEF EndOfList, progress
<1>2. phase = "reverse" /\ graph \in [Nodes -> Rows]
  BY <1>1 DEF PhaseInv, TypeOK, Rows
<1>3. /\ pc' \in [Threads -> {"idle", "scan", "held", "stored"}] /\ pc'[t] = "idle"
      /\ \A u \in Threads : u # t => pc'[u] = pc[u] /\ span'[u] = span[u]
  BY <1>1 DEF TypeOK
<1>4. /\ Grows /\ \A n, m \in Nodes : HasBack(n, m)' = HasBack(n, m)
      /\ \A n \in Nodes : Neighbors(n)' = Neighbors(n)
  BY <1>1, <1>2, SameRows
<1>5. SpanInv'
  <2>1. SpanOK(t)'
    BY <1>3 DEF SpanOK
  <2> QED
    BY <1>1, <1>2, <1>3, <1>4, <2>1, OthersStay
<1>6. Progresses(t)
  <2>1. ASSUME NEW n, NEW m, NEW u \in Threads, Ahead(u, n, m)
        PROVE  Ahead(u, n, m)'
    <3>1. u # t
      <4>1. span[t].next \in Nat /\ Len(span[t].list) \in Nat
        BY DEF TypeOK
      <4> QED
        BY <1>1, <2>1, <4>1 DEF Ahead
    <3> QED
      BY <1>1, <1>3, <2>1, <3>1 DEF Ahead
  <2>2. \A n : Awaited(n)' = Awaited(n)
    BY <1>1 DEF Awaited, Awaits
  <2> QED
    BY <1>4, <2>1, <2>2 DEF Progresses
<1>7. RowsProper'
  BY <1>1 DEF RowsProper, Proper
<1>8. /\ buffer' \in [Nodes -> SUBSET Nodes] /\ lock' \in [Nodes -> Threads \cup {NoThread}]
      /\ graph' \in [Nodes -> Rows] /\ todo' \in [Threads -> Seq(Nodes)]
      /\ span' \in [Threads -> [node : Nodes, list : Seq(Nodes), next : Nat \ {0}]]
  BY <1>1, <1>2 DEF TypeOK
<1> QED
  BY <1>1, <1>2, <1>3, <1>5, <1>6, <1>7, <1>8, ReverseStep

LEMMA LockVertexKeeps ==
  ASSUME BuilderInv, NEW t \in Threads, LockVertex(t)
  PROVE  BuilderInv'
<1> USE DEF BuilderInv
<1>0. PICK x : x = Other(t)
  OBVIOUS
<1>1. /\ pc[t] = "scan" /\ span[t].next <= Len(span[t].list) /\ lock[x] = NoThread
      /\ lock' = [lock EXCEPT ![x] = t]
      /\ pc' = [pc EXCEPT ![t] = "held"]
      /\ UNCHANGED <<graph, updates, buffer, todo, span, bucket, searched, pass, batch, phase>>
  BY <1>0 DEF LockVertex, progress
<1>2. phase = "reverse" /\ graph \in [Nodes -> Rows] /\ x \in Nodes /\ lock \in [Nodes -> Threads \cup {NoThread}]
  BY <1>0, <1>1, AtNeighbor DEF TypeOK, Rows
<1>3. /\ pc' \in [Threads -> {"idle", "scan", "held", "stored"}] /\ pc'[t] = "held"
      /\ \A u \in Threads : u # t => pc'[u] = pc[u] /\ span'[u] = span[u]
  BY <1>1 DEF TypeOK
<1>4. /\ Grows /\ \A n, m \in Nodes : HasBack(n, m)' = HasBack(n, m)
      /\ \A n \in Nodes : Neighbors(n)' = Neighbors(n)
  BY <1>1, <1>2, SameRows
<1>5. SpanInv'
  <2>1. SpanOK(t)'
    <3>1. SpanOK(t)
      BY DEF SpanInv
    <3>2. Other(t)' = x /\ lock'[x] = t
      BY <1>0, <1>1, <1>2 DEF Other
    <3> QED
      BY <1>1, <1>3, <3>1, <3>2 DEF SpanOK
  <2>2. NoThread \notin Threads
    BY BuilderAssumption DEF NoThread, Threads
  <2>3. \A u \in Threads : u # t => \A y \in Nodes : lock[y] = u => lock'[y] = u /\ graph'[y] = graph[y]
    BY <1>1, <1>2, <2>2
  <2> QED
    BY <1>1, <1>2, <1>3, <1>4, <2>1, <2>3, OthersStay
<1>6. Progresses(t)
  <2>1. ASSUME NEW n, NEW m, NEW u \in Threads, Ahead(u, n, m)
        PROVE  Ahead(u, n, m)'
    BY <1>1, <1>3, <2>1 DEF Ahead
  <2>2. \A n : Awaited(n)' = Awaited(n)
    BY <1>1 DEF Awaited, Awaits
  <2> QED
    BY <1>4, <2>1, <2>2 DEF Progresses
<1>7. RowsProper'
  BY <1>1 DEF RowsProper, Proper
<1>8. /\ buffer' \in [Nodes -> SUBSET Nodes] /\ lock' \in [Nodes -> Threads \cup {NoThread}]
      /\ graph' \in [Nodes -> Rows] /\ todo' \in [Threads -> Seq(Nodes)]
      /\ span' \in [Threads -> [node : Nodes, list : Seq(Nodes), next : Nat \ {0}]]
  BY <1>1, <1>2 DEF TypeOK
<1> QED
  BY <1>1, <1>2, <1>3, <1>5, <1>6, <1>7, <1>8, ReverseStep
\* The lock of a neighbor is given up, and the thread goes on to the next.
Unlocks(t) ==
  /\ lock' \in [Nodes -> Threads \cup {NoThread}]
  /\ span' \in [Threads -> [node : Nodes, list : Seq(Nodes), next : Nat \ {0}]]
  /\ pc' \in [Threads -> {"idle", "scan", "held", "stored"}]
  /\ \A u \in Threads : u # t => pc'[u] = pc[u] /\ span'[u] = span[u]
  /\ \A u \in Threads : u # t => \A x \in Nodes : lock[x] = u => lock'[x] = u
  /\ pc'[t] = "scan" /\ span'[t].node = span[t].node /\ span'[t].list = span[t].list

LEMMA UnlockIs ==
  ASSUME BuilderInv, NEW t \in Threads, pc[t] \in {"held", "stored"}, Unlock(t)
  PROVE  /\ Unlocks(t)
         /\ \A u \in Threads : \A n, m : Ahead(u, n, m) => Ahead(u, n, m)' \/ (n = span[t].node /\ m = Other(t))
<1> USE DEF BuilderInv
<1>1. /\ lock' = [n \in Nodes |-> IF lock[n] = t THEN NoThread ELSE lock[n]]
      /\ span' = [span EXCEPT ![t].next = @ + 1]
      /\ pc' = [pc EXCEPT ![t] = "scan"]
  BY DEF Unlock
<1> DEFINE new == [span[t] EXCEPT !.next = @ + 1]
           Spans == [node : Nodes, list : Seq(Nodes), next : Nat \ {0}]
<1>2. span[t] \in Spans
  BY DEF TypeOK
<1>3. new \in Spans /\ new.node = span[t].node /\ new.list = span[t].list /\ new.next = span[t].next + 1
  BY <1>2
<1>4. span' \in [Threads -> Spans] /\ span'[t] = new /\ \A u \in Threads : u # t => span'[u] = span[u]
  <2>1. span' = [span EXCEPT ![t] = new]
    BY <1>1
  <2> HIDE DEF new
  <2> QED
    BY <1>3, <2>1 DEF TypeOK
<1> HIDE DEF new
<1>5. /\ pc' \in [Threads -> {"idle", "scan", "held", "stored"}] /\ pc'[t] = "scan"
      /\ \A u \in Threads : u # t => pc'[u] = pc[u]
  BY <1>1 DEF TypeOK
<1>6. /\ lock' \in [Nodes -> Threads \cup {NoThread}]
      /\ \A u \in Threads : u # t => \A x \in Nodes : lock[x] = u => lock'[x] = u
  BY <1>1 DEF TypeOK
<1>7. Unlocks(t)
  BY <1>3, <1>4, <1>5, <1>6 DEF Unlocks
<1>8. ASSUME NEW u \in Threads, NEW n, NEW m, Ahead(u, n, m), ~(n = span[t].node /\ m = Other(t))
      PROVE  Ahead(u, n, m)'
  <2>1. CASE u # t
    BY <1>4, <1>5, <1>8, <2>1 DEF Ahead
  <2>2. CASE u = t
    <3>1. /\ n = span[t].node
          /\ \E i \in span[t].next .. Len(span[t].list) : span[t].list[i] = m
      BY <1>8, <2>2 DEF Ahead
    <3>2. PICK i \in span[t].next .. Len(span[t].list) : span[t].list[i] = m
      BY <3>1
    <3>3. span[t].list[span[t].next] = Other(t)
      <4>1. span[t].next <= Len(span[t].list) /\ pc[t] # "idle"
        BY DEF SpanInv, SpanOK
      <4> QED
        BY <4>1, AtNeighbor
    <3>4. i # span[t].next /\ span[t].next \in Nat /\ Len(span[t].list) \in Nat
      BY <1>2, <1>8, <3>1, <3>2, <3>3
    <3>5. i \in span[t].next + 1 .. Len(span[t].list)
      BY <3>2, <3>4
    <3> QED
      BY <1>3, <1>4, <1>5, <2>2, <3>1, <3>2, <3>5 DEF Ahead
  <2> QED
    BY <2>1, <2>2
<1> QED
  BY <1>7, <1>8

\* What a thread walks over is still there after it has unlocked a neighbor.
LEMMA OwnStays ==
  ASSUME BuilderInv, NEW t \in Threads, pc[t] # "idle", Unlocks(t), Grows, graph' \in [Nodes -> Rows]
  PROVE  SpanOK(t)'
<1> DEFINE n == span[t].node
           list == span[t].list
<1>1. /\ n \in Nodes /\ Len(list) \in Nat
      /\ Len(list) <= graph[n].len /\ \A i \in 1 .. Len(list) : list[i] = graph[n].slot[i]
      /\ graph[n] \in Rows /\ graph'[n] \in Rows
  BY DEF BuilderInv, TypeOK, SpanInv, SpanOK, Rows
<1>2. graph[n].len \in Nat /\ graph'[n].len \in Nat
  BY <1>1 DEF Rows
<1>3. graph[n].len <= graph'[n].len /\ \A i \in 1 .. graph[n].len : graph'[n].slot[i] = graph[n].slot[i]
  BY <1>1 DEF Grows
<1>4. Len(list) <= graph'[n].len /\ \A i \in 1 .. Len(list) : list[i] = graph'[n].slot[i]
  BY <1>1, <1>2, <1>3
<1> QED
  BY <1>4 DEF SpanOK, Unlocks

\* The thread has the neighbor x of its node n locked, and the edge back is there after
\* this step.
LEMMA EdgeDone ==
  ASSUME BuilderInv, NEW t \in Threads, pc[t] \in {"held", "stored"}, Unlock(t),
         NEW node, NEW other, node = span[t].node, other = Other(t),
         UNCHANGED <<updates, todo, bucket, searched, pass, batch, phase>>,
         graph' \in [Nodes -> Rows], buffer' \in [Nodes -> SUBSET Nodes], RowsProper', Grows,
         \A x \in Nodes : x # other => graph'[x] = graph[x],
         HasBack(node, other)',
         \A n, m \in Nodes : HasBack(n, m) => HasBack(n, m)',
         \A n \in Nodes : \A m \in Neighbors(n)' : m \in Neighbors(n) \/ HasBack(n, m)'
  PROVE  BuilderInv'
<1> USE DEF BuilderInv
<1>1. pc[t] # "idle" /\ span[t].next <= Len(span[t].list) /\ lock[Other(t)] = t
  BY DEF SpanInv, SpanOK
<1>2. phase = "reverse"
  BY <1>1, AtNeighbor
<1>3. /\ Unlocks(t)
      /\ \A u \in Threads : \A n, m : Ahead(u, n, m) => Ahead(u, n, m)' \/ (n = span[t].node /\ m = Other(t))
  BY UnlockIs
<1>4. SpanInv'
  <2>1. SpanOK(t)'
    BY <1>1, <1>3, OwnStays
  <2>2. \A u \in Threads : u # t => \A x \in Nodes : lock[x] = u => lock'[x] = u /\ graph'[x] = graph[x]
    BY <1>1, <1>3 DEF Unlocks
  <2>3. \A u \in Threads : u # t => pc'[u] = pc[u] /\ span'[u] = span[u]
    BY <1>3 DEF Unlocks
  <2> QED
    BY <2>1, <2>2, <2>3, OthersStay
<1>5. Progresses(t)
  <2>1. \A n : Awaited(n)' = Awaited(n)
    BY DEF Awaited, Awaits
  <2>2. \A n, m \in Nodes : \A u \in Threads : Ahead(u, n, m) => Ahead(u, n, m)' \/ HasBack(n, m)'
    <3> SUFFICES ASSUME NEW n \in Nodes, NEW m \in Nodes, NEW u \in Threads, Ahead(u, n, m), ~Ahead(u, n, m)'
                 PROVE  HasBack(n, m)'
      OBVIOUS
    <3>1. n = span[t].node /\ m = Other(t)
      BY <1>3
    <3> QED
      BY <3>1
  <2> QED
    BY <2>1, <2>2 DEF Progresses
<1>6. /\ todo' \in [Threads -> Seq(Nodes)]
      /\ lock' \in [Nodes -> Threads \cup {NoThread}]
      /\ span' \in [Threads -> [node : Nodes, list : Seq(Nodes), next : Nat \ {0}]]
      /\ pc' \in [Threads -> {"idle", "scan", "held", "stored"}]
  BY <1>3 DEF Unlocks, TypeOK
<1> QED
  BY <1>2, <1>4, <1>5, <1>6, ReverseStep
LEMMA EdgeExistsKeeps ==
  ASSUME BuilderInv, NEW t \in Threads, EdgeExists(t)
  PROVE  BuilderInv'
<1> USE DEF BuilderInv
<1>0. PICK node, other : node = span[t].node /\ other = Other(t)
  OBVIOUS
<1>1. /\ pc[t] = "held" /\ node \in Neighbors(other) \cup {other} /\ Unlock(t)
      /\ UNCHANGED <<graph, updates, buffer, todo, bucket, searched, pass, batch, phase>>
  BY <1>0 DEF EdgeExists, progress
<1>2. node # other /\ node \in Nodes /\ other \in Nodes
  <2>1. span[t].next <= Len(span[t].list)
    BY <1>1 DEF SpanInv, SpanOK
  <2> QED
    BY <1>0, <1>1, <2>1, AtNeighbor
<1>3. graph \in [Nodes -> Rows]
  BY DEF TypeOK, Rows
<1>4. /\ Grows /\ \A n, m \in Nodes : HasBack(n, m)' = HasBack(n, m)
      /\ \A n \in Nodes : Neighbors(n)' = Neighbors(n)
  BY <1>1, <1>3, SameRows
<1>5. HasBack(node, other)
  BY <1>1, <1>2 DEF HasBack
<1>6. HasBack(node, other)'
  BY <1>2, <1>4, <1>5
<1>7. RowsProper'
  BY <1>1 DEF RowsProper, Proper
<1>8. buffer' \in [Nodes -> SUBSET Nodes] /\ graph' \in [Nodes -> Rows]
  BY <1>1, <1>3 DEF TypeOK
<1>9. \A n \in Nodes : \A m \in Neighbors(n)' : m \in Neighbors(n)
  BY <1>4
<1> QED
  BY <1>0, <1>1, <1>4, <1>6, <1>7, <1>8, <1>9, EdgeDone

LEMMA BufferEdgeKeeps ==
  ASSUME BuilderInv, NEW t \in Threads, BufferEdge(t)
  PROVE  BuilderInv'
<1> USE DEF BuilderInv
<1>0. PICK node, other : node = span[t].node /\ other = Other(t)
  OBVIOUS
<1>1. /\ pc[t] = "held" /\ Unlock(t)
      /\ buffer' = [buffer EXCEPT ![other] = @ \cup {node}]
      /\ UNCHANGED <<graph, updates, todo, bucket, searched, pass, batch, phase>>
  BY <1>0 DEF BufferEdge, progress
<1>2. node \in Nodes /\ other \in Nodes
  <2>1. span[t].next <= Len(span[t].list)
    BY <1>1 DEF SpanInv, SpanOK
  <2> QED
    BY <1>0, <1>1, <2>1, AtNeighbor
<1>3. graph \in [Nodes -> Rows] /\ graph' \in [Nodes -> Rows]
  BY <1>1 DEF TypeOK, Rows
<1>4. Grows
  <2> SUFFICES ASSUME NEW n \in Nodes PROVE graph[n].len <= graph'[n].len
    BY <1>1 DEF Grows
  <2>1. graph[n] \in Rows
    BY <1>3
  <2> QED
    BY <1>1, <2>1 DEF Rows
<1>5. /\ buffer' \in [Nodes -> SUBSET Nodes] /\ node \in buffer'[other]
      /\ \A m \in Nodes : buffer[m] \subseteq buffer'[m]
  BY <1>1, <1>2 DEF TypeOK
<1>6. \A n \in Nodes : Neighbors(n)' = Neighbors(n)
  BY <1>1 DEF Neighbors
<1>7. HasBack(node, other)'
  BY <1>5 DEF HasBack
<1>8. \A n, m \in Nodes : HasBack(n, m) => HasBack(n, m)'
  BY <1>5, <1>6 DEF HasBack
<1>9. RowsProper'
  BY <1>1 DEF RowsProper, Proper
<1>10. \A n \in Nodes : \A m \in Neighbors(n)' : m \in Neighbors(n)
  BY <1>6
<1> QED
  BY <1>0, <1>1, <1>3, <1>4, <1>5, <1>7, <1>8, <1>9, <1>10, EdgeDone

\* The first store of add_edge is behind the list.
LEMMA StoredBehind ==
  ASSUME graph \in [Nodes -> Rows], NEW x \in Nodes, NEW n \in Nodes, graph[x].len < MaxDegree,
         graph' = [graph EXCEPT ![x].slot[graph[x].len + 1] = n]
  PROVE  /\ graph' \in [Nodes -> Rows] /\ \A y \in Nodes : y # x => graph'[y] = graph[y]
         /\ graph'[x].len = graph[x].len /\ graph'[x].slot[graph[x].len + 1] = n
         /\ Grows /\ \A y \in Nodes : Neighbors(y)' = Neighbors(y)
<1> DEFINE len == graph[x].len
           slot == graph[x].slot
           places == [slot EXCEPT ![len + 1] = n]
           row == [len |-> len, slot |-> places]
<1>1. graph[x] \in Rows /\ MaxDegree \in Nat /\ graph[x] = [len |-> len, slot |-> slot]
  BY BuilderAssumption DEF Rows
<1>2. len \in 0 .. MaxDegree /\ slot \in [1 .. MaxDegree -> Nodes] /\ len + 1 \in 1 .. MaxDegree
  BY <1>1 DEF Rows
<1>3. /\ places \in [1 .. MaxDegree -> Nodes] /\ places[len + 1] = n
      /\ \A i \in 1 .. len : places[i] = slot[i]
  BY <1>1, <1>2
<1>4. graph' = [graph EXCEPT ![x] = row]
  <2>1. graph' = [graph EXCEPT ![x] = [graph[x] EXCEPT !.slot = places]]
    OBVIOUS
  <2>2. [graph[x] EXCEPT !.slot = places] = row
    BY <1>1
  <2> QED
    BY <2>1, <2>2
<1> HIDE DEF len, slot, places
<1>5. row \in Rows /\ row.len = len /\ row.slot = places
  BY <1>2, <1>3 DEF Rows
<1> HIDE DEF row
<1>6. graph' \in [Nodes -> Rows] /\ graph'[x] = row /\ \A y \in Nodes : y # x => graph'[y] = graph[y]
  BY <1>4, <1>5
<1>7. Grows
  <2> SUFFICES ASSUME NEW y \in Nodes
               PROVE  /\ graph[y].len <= graph'[y].len
                      /\ \A i \in 1 .. graph[y].len : graph'[y].slot[i] = graph[y].slot[i]
    BY DEF Grows
  <2>1. CASE y = x
    BY <1>2, <1>3, <1>5, <1>6, <2>1 DEF len, slot
  <2>2. CASE y # x
    <3>1. graph[y] \in Rows /\ graph'[y] = graph[y]
      BY <1>6, <2>2
    <3> QED
      BY <3>1 DEF Rows
  <2> QED
    BY <2>1, <2>2
<1>8. ASSUME NEW y \in Nodes
      PROVE  Neighbors(y)' = Neighbors(y)
  <2>1. graph'[y].len = graph[y].len
    BY <1>5, <1>6 DEF len
  <2>2. \A i \in 1 .. graph[y].len : graph'[y].slot[i] = graph[y].slot[i]
    BY <1>7 DEF Grows
  <2> QED
    BY <2>1, <2>2 DEF Neighbors
<1> QED
  BY <1>3, <1>5, <1>6, <1>7, <1>8 DEF len

\* The second store shows it.
LEMMA StoreShows ==
  ASSUME graph \in [Nodes -> Rows], NEW x \in Nodes, graph[x].len < MaxDegree,
         graph' = [graph EXCEPT ![x].len = @ + 1]
  PROVE  /\ graph' \in [Nodes -> Rows] /\ \A y \in Nodes : y # x => graph'[y] = graph[y]
         /\ graph'[x].len = graph[x].len + 1 /\ graph'[x].slot = graph[x].slot
         /\ Grows
         /\ \A y \in Nodes : y # x => Neighbors(y)' = Neighbors(y)
         /\ \A m : m \in Neighbors(x)' <=> m \in Neighbors(x) \/ m = graph[x].slot[graph[x].len + 1]
<1> DEFINE len == graph[x].len
           slot == graph[x].slot
           row == [len |-> len + 1, slot |-> slot]
<1>1. graph[x] \in Rows /\ MaxDegree \in Nat /\ graph[x] = [len |-> len, slot |-> slot]
  BY BuilderAssumption DEF Rows
<1>2. len \in 0 .. MaxDegree /\ slot \in [1 .. MaxDegree -> Nodes] /\ len + 1 \in 1 .. MaxDegree
  BY <1>1 DEF Rows
<1>3. graph' = [graph EXCEPT ![x] = row]
  <2>1. graph' = [graph EXCEPT ![x] = [graph[x] EXCEPT !.len = len + 1]]
    OBVIOUS
  <2>2. [graph[x] EXCEPT !.len = len + 1] = row
    BY <1>1
  <2> QED
    BY <2>1, <2>2
<1> HIDE DEF len, slot
<1>4. row \in Rows /\ row.len = len + 1 /\ row.slot = slot
  BY <1>2 DEF Rows
<1> HIDE DEF row
<1>5. graph' \in [Nodes -> Rows] /\ graph'[x] = row /\ \A y \in Nodes : y # x => graph'[y] = graph[y]
  BY <1>3, <1>4
<1>6. Grows
  <2> SUFFICES ASSUME NEW y \in Nodes
               PROVE  /\ graph[y].len <= graph'[y].len
                      /\ \A i \in 1 .. graph[y].len : graph'[y].slot[i] = graph[y].slot[i]
    BY DEF Grows
  <2>1. CASE y = x
    BY <1>2, <1>4, <1>5, <2>1 DEF len, slot
  <2>2. CASE y # x
    <3>1. graph[y] \in Rows /\ graph'[y] = graph[y]
      BY <1>5, <2>2
    <3> QED
      BY <3>1 DEF Rows
  <2> QED
    BY <2>1, <2>2
<1>7. \A y \in Nodes : y # x => Neighbors(y)' = Neighbors(y)
  BY <1>5 DEF Neighbors
<1>8. ASSUME NEW m
      PROVE  m \in Neighbors(x)' <=> m \in Neighbors(x) \/ m = slot[len + 1]
  <2>1. m \in Neighbors(x)' <=> \E i \in 1 .. len + 1 : slot[i] = m
    BY <1>4, <1>5 DEF Neighbors
  <2>2. m \in Neighbors(x) <=> \E i \in 1 .. len : slot[i] = m
    BY DEF Neighbors, len, slot
  <2>3. \A i : i \in 1 .. len + 1 <=> i \in 1 .. len \/ i = len + 1
    BY <1>2
  <2> QED
    BY <2>1, <2>2, <2>3
<1> QED
  BY <1>4, <1>5, <1>6, <1>7, <1>8 DEF len, slot

LEMMA StoreEdgeKeeps ==
  ASSUME BuilderInv, NEW t \in Threads, StoreEdge(t)
  PROVE  BuilderInv'
<1> USE DEF BuilderInv
<1>0. PICK node, x : node = span[t].node /\ x = Other(t)
  OBVIOUS
<1>1. /\ pc[t] = "held" /\ graph[x].len < MaxDegree /\ node \notin Neighbors(x) \cup {x}
      /\ graph' = [graph EXCEPT ![x].slot[graph[x].len + 1] = node]
      /\ pc' = [pc EXCEPT ![t] = "stored"]
      /\ UNCHANGED <<updates, buffer, lock, todo, span, bucket, searched, pass, batch, phase>>
  BY <1>0 DEF StoreEdge, progress
<1>2. span[t].next <= Len(span[t].list) /\ lock[x] = t
  BY <1>0, <1>1 DEF SpanInv, SpanOK
<1>3. phase = "reverse" /\ node \in Nodes /\ x \in Nodes /\ span[t].next \in 1 .. graph[node].len
  BY <1>0, <1>1, <1>2, AtNeighbor
<1>4. graph \in [Nodes -> Rows]
  BY DEF TypeOK, Rows
<1>5. /\ graph' \in [Nodes -> Rows] /\ \A y \in Nodes : y # x => graph'[y] = graph[y]
      /\ graph'[x].len = graph[x].len /\ graph'[x].slot[graph[x].len + 1] = node
      /\ Grows /\ \A y \in Nodes : Neighbors(y)' = Neighbors(y)
  BY <1>1, <1>3, <1>4, StoredBehind
<1>6. /\ pc' \in [Threads -> {"idle", "scan", "held", "stored"}] /\ pc'[t] = "stored"
      /\ \A u \in Threads : u # t => pc'[u] = pc[u] /\ span'[u] = span[u]
  BY <1>1 DEF TypeOK
<1>7. \A i \in 1 .. graph[node].len : graph'[node].slot[i] = graph[node].slot[i]
  BY <1>3, <1>5 DEF Grows
<1>8. SpanOK(t)'
  <2>1. Other(t)' = x
    BY <1>0, <1>1, <1>3, <1>7 DEF Other
  <2>2. Neighbors(x)' = Neighbors(x)
    BY <1>3, <1>5
  <2>3. Len(span[t].list) <= graph[node].len /\ \A i \in 1 .. Len(span[t].list) : span[t].list[i] = graph[node].slot[i]
    BY <1>0, <1>1 DEF SpanInv, SpanOK
  <2>4. graph'[node].len = graph[node].len
    BY <1>3, <1>5
  <2>5. Len(span[t].list) \in Nat /\ graph[node].len \in Nat
    <3>1. graph[node] \in Rows
      BY <1>3, <1>4
    <3> QED
      BY <3>1 DEF TypeOK, Rows
  <2>6. \A i \in 1 .. Len(span[t].list) : span[t].list[i] = graph'[node].slot[i]
    BY <1>7, <2>3, <2>5
  <2>7. node \notin Neighbors(x)' \cup {x}
    BY <1>1, <2>2
  <2>8. graph'[x].len < MaxDegree /\ graph'[x].slot[graph'[x].len + 1] = node
    BY <1>1, <1>5
  <2>9. Neighbors(Other(t))' = Neighbors(x)'
    BY <2>1 DEF Neighbors
  <2> QED
    BY <1>0, <1>1, <1>2, <1>6, <2>1, <2>3, <2>4, <2>6, <2>7, <2>8, <2>9 DEF SpanOK
<1>9. SpanInv'
  <2>1. \A u \in Threads : u # t => \A y \in Nodes : lock[y] = u => lock'[y] = u /\ graph'[y] = graph[y]
    BY <1>1, <1>2, <1>5
  <2> QED
    BY <1>5, <1>6, <1>8, <2>1, OthersStay
<1>10. Progresses(t)
  <2>1. \A n : Awaited(n)' = Awaited(n)
    BY <1>1 DEF Awaited, Awaits
  <2>2. ASSUME NEW n, NEW m, NEW u \in Threads, Ahead(u, n, m)
        PROVE  Ahead(u, n, m)'
    BY <1>1, <1>6, <2>2 DEF Ahead
  <2>3. \A n, m \in Nodes : HasBack(n, m)' = HasBack(n, m)
    BY <1>1, <1>5 DEF HasBack
  <2> QED
    BY <1>5, <2>1, <2>2, <2>3 DEF Progresses
<1>11. RowsProper'
  <2> SUFFICES ASSUME NEW y \in Nodes
               PROVE  Proper(y, graph'[y].slot, graph'[y].len)
    BY DEF RowsProper, Proper
  <2>1. Proper(y, graph[y].slot, graph[y].len)
    BY DEF RowsProper
  <2>2. graph'[y].len = graph[y].len /\ \A i \in 1 .. graph[y].len : graph'[y].slot[i] = graph[y].slot[i]
    BY <1>5 DEF Grows
  <2> QED
    BY <2>1, <2>2 DEF Proper
<1>12. /\ buffer' \in [Nodes -> SUBSET Nodes] /\ lock' \in [Nodes -> Threads \cup {NoThread}]
       /\ todo' \in [Threads -> Seq(Nodes)]
       /\ span' \in [Threads -> [node : Nodes, list : Seq(Nodes), next : Nat \ {0}]]
  BY <1>1 DEF TypeOK
<1> QED
  BY <1>1, <1>3, <1>5, <1>6, <1>9, <1>10, <1>11, <1>12, ReverseStep

LEMMA StoreLengthKeeps ==
  ASSUME BuilderInv, NEW t \in Threads, StoreLength(t)
  PROVE  BuilderInv'
<1> USE DEF BuilderInv
<1>0. PICK node, x : node = span[t].node /\ x = Other(t)
  OBVIOUS
<1>1. /\ pc[t] = "stored" /\ Unlock(t)
      /\ graph' = [graph EXCEPT ![x].len = @ + 1]
      /\ UNCHANGED <<updates, buffer, todo, bucket, searched, pass, batch, phase>>
  BY <1>0 DEF StoreLength, progress
<1>2. /\ span[t].next <= Len(span[t].list) /\ lock[x] = t
      /\ graph[x].len < MaxDegree /\ graph[x].slot[graph[x].len + 1] = node
      /\ node \notin Neighbors(x) \cup {x}
  BY <1>0, <1>1 DEF SpanInv, SpanOK
<1>3. node \in Nodes /\ x \in Nodes /\ x \in Neighbors(node)
  BY <1>0, <1>1, <1>2, AtNeighbor
<1>4. graph \in [Nodes -> Rows]
  BY DEF TypeOK, Rows
<1>5. /\ graph' \in [Nodes -> Rows] /\ \A y \in Nodes : y # x => graph'[y] = graph[y]
      /\ graph'[x].len = graph[x].len + 1 /\ graph'[x].slot = graph[x].slot
      /\ Grows
      /\ \A y \in Nodes : y # x => Neighbors(y)' = Neighbors(y)
      /\ \A m : m \in Neighbors(x)' <=> m \in Neighbors(x) \/ m = node
  BY <1>1, <1>2, <1>3, <1>4, StoreShows
<1>6. HasBack(node, x)'
  BY <1>5 DEF HasBack
<1>7. \A n, m \in Nodes : HasBack(n, m) => HasBack(n, m)'
  <2> SUFFICES ASSUME NEW n \in Nodes, NEW m \in Nodes, n \in Neighbors(m) PROVE n \in Neighbors(m)'
    BY <1>1 DEF HasBack
  <2> QED
    BY <1>5
<1>8. \A n \in Nodes : \A m \in Neighbors(n)' : m \in Neighbors(n) \/ HasBack(n, m)'
  <2> SUFFICES ASSUME NEW n \in Nodes, NEW m \in Neighbors(n)', m \notin Neighbors(n) PROVE HasBack(n, m)'
    OBVIOUS
  <2>1. n = x /\ m = node
    BY <1>5
  <2>2. x \in Neighbors(node)'
    BY <1>2, <1>3, <1>5
  <2> QED
    BY <2>1, <2>2 DEF HasBack
<1>9. RowsProper'
  <2> SUFFICES ASSUME NEW y \in Nodes
               PROVE  Proper(y, graph'[y].slot, graph'[y].len)
    BY DEF RowsProper, Proper
  <2>1. Proper(y, graph[y].slot, graph[y].len)
    BY DEF RowsProper
  <2>2. CASE y = x
    <3> DEFINE len == graph[x].len
               slot == graph[x].slot
    <3>1. len \in Nat
      <4>1. graph[x] \in Rows
        BY <1>3, <1>4
      <4> QED
        BY <4>1 DEF Rows
    <3>2. \A i \in 1 .. len : slot[i] # node
      BY <1>2 DEF Neighbors
    <3>3. Proper(x, slot, len) /\ slot[len + 1] = node /\ node # x
      BY <1>2, <2>1, <2>2
    <3> HIDE DEF len, slot
    <3>4. Proper(x, slot, len + 1)
      BY <3>1, <3>2, <3>3 DEF Proper
    <3> QED
      BY <1>5, <2>2, <3>4 DEF len, slot
  <2>3. CASE y # x
    BY <1>5, <2>1, <2>3
  <2> QED
    BY <2>2, <2>3
<1>10. buffer' \in [Nodes -> SUBSET Nodes]
  BY <1>1 DEF TypeOK
<1> QED
  BY <1>0, <1>1, <1>5, <1>6, <1>7, <1>8, <1>9, <1>10, EdgeDone
-----------------------------------------------------------------------------
(***************************************************************************)
(* The invariant and what follows from it.                                 *)
(***************************************************************************)
LEMMA BuilderKeeps ==
  ASSUME BuilderInv, [Next]_vars
  PROVE  BuilderInv'
<1>1. CASE SearchOver BY <1>1, SearchOverKeeps
<1>2. CASE ApplyOver BY <1>2, ApplyOverKeeps
<1>3. CASE ReverseOver BY <1>3, ReverseOverKeeps
<1>4. CASE BatchOver BY <1>4, BatchOverKeeps
<1>5. ASSUME NEW t \in Threads, Step(t)
      PROVE  BuilderInv'
  <2>1. CASE Search(t) BY <2>1, SearchKeeps
  <2>2. CASE Apply(t) BY <2>2, ApplyKeeps
  <2>3. CASE GetNode(t) BY <2>3, GetNodeKeeps
  <2>4. CASE EndOfList(t) BY <2>4, EndOfListKeeps
  <2>5. CASE LockVertex(t) BY <2>5, LockVertexKeeps
  <2>6. CASE EdgeExists(t) BY <2>6, EdgeExistsKeeps
  <2>7. CASE StoreEdge(t) BY <2>7, StoreEdgeKeeps
  <2>8. CASE StoreLength(t) BY <2>8, StoreLengthKeeps
  <2>9. CASE BufferEdge(t) BY <2>9, BufferEdgeKeeps
  <2>10. CASE TakeBucket(t) BY <2>10, TakeBucketKeeps
  <2>11. CASE Prune(t) BY <2>11, PruneKeeps
  <2> QED
    BY <1>5, <2>1, <2>2, <2>3, <2>4, <2>5, <2>6, <2>7, <2>8, <2>9, <2>10, <2>11 DEF Step
<1>6. CASE UNCHANGED vars
  <2>1. TypeOK' /\ PhaseInv'
    BY <1>6 DEF BuilderInv, vars, TypeOK, PhaseInv, num_batches, num_buckets
  <2>2. RowsProper' /\ UpdatesProper'
    BY <1>6 DEF BuilderInv, vars, RowsProper, UpdatesProper, Proper
  <2>3. CountInv' /\ SharesInv'
    BY <1>6, CountStays DEF BuilderInv, vars
  <2>4. SpanInv'
    <3> SUFFICES ASSUME NEW t \in Threads PROVE SpanOK(t)'
      BY DEF SpanInv
    <3>1. Other(t)' = Other(t) /\ \A n : Neighbors(n)' = Neighbors(n)
      BY <1>6 DEF vars, Other, Neighbors
    <3>2. SpanOK(t)
      BY DEF BuilderInv, SpanInv
    <3>3. UNCHANGED <<graph, lock, pc, span>>
      BY <1>6 DEF vars
    <3> QED
      BY <3>1, <3>2, <3>3 DEF SpanOK
  <2>5. ReverseInv' /\ BackedgesKept'
    BY <1>6 DEF BuilderInv, vars, ReverseInv, BackedgesKept, Batch, batchsize, num_batches,
                HasBack, Neighbors, Awaited, Awaits, Ahead
  <2> QED
    BY <2>1, <2>2, <2>3, <2>4, <2>5 DEF BuilderInv
<1> QED
  BY <1>1, <1>2, <1>3, <1>4, <1>5, <1>6 DEF Next, Barrier

\* Different neighbors are as many as the row says.
LEMMA RowsAreWellFormed ==
  ASSUME BuilderInv
  PROVE  GraphWellFormed
<1> SUFFICES ASSUME NEW n \in Nodes
             PROVE  n \notin Neighbors(n) /\ Cardinality(Neighbors(n)) = graph[n].len
  BY DEF GraphWellFormed
<1> DEFINE slot == graph[n].slot
           len == graph[n].len
           f == [i \in 1 .. len |-> slot[i]]
<1>1. /\ len \in Nat /\ \A i \in 1 .. len : slot[i] # n
      /\ \A i, j \in 1 .. len : slot[i] = slot[j] => i = j
  <2>1. graph[n] \in Rows
    BY DEF BuilderInv, TypeOK, Rows
  <2> QED
    BY <2>1 DEF BuilderInv, RowsProper, Proper, Rows
<1>2. Neighbors(n) = {slot[i] : i \in 1 .. len}
  BY DEF Neighbors
<1> HIDE DEF slot, len
<1>3. f \in [1 .. len -> Neighbors(n)]
  BY <1>2
<1>4. \A i, j \in 1 .. len : f[i] = f[j] => i = j
  BY <1>1
<1>5. \A x \in Neighbors(n) : \E i \in 1 .. len : f[i] = x
  BY <1>2
<1> HIDE DEF f
<1>6. f \in Bijection(1 .. len, Neighbors(n))
  BY <1>3, <1>4, <1>5, Fun_IsBij
<1>7. IsFiniteSet(1 .. len) /\ Cardinality(1 .. len) = len
  BY <1>1, FS_Interval
<1>8. Cardinality(Neighbors(n)) = len
  BY <1>6, <1>7, FS_Bijection DEF ExistsBijection
<1> QED
  BY <1>1, <1>2, <1>8 DEF len

LEMMA SpansAreStable ==
  ASSUME BuilderInv
  PROVE  SpanStable
<1> SUFFICES ASSUME NEW t \in Threads, pc[t] # "idle"
             PROVE  SubSeq(graph[span[t].node].slot, 1, Len(span[t].list)) = span[t].list
  BY DEF SpanStable
<1> DEFINE slot == graph[span[t].node].slot
           list == span[t].list
<1>1. /\ span[t].node \in Nodes /\ list \in Seq(Nodes) /\ graph[span[t].node] \in Rows
      /\ Len(list) <= graph[span[t].node].len /\ \A i \in 1 .. Len(list) : list[i] = slot[i]
  BY DEF BuilderInv, TypeOK, SpanInv, SpanOK, Rows
<1>2. slot \in [1 .. MaxDegree -> Nodes] /\ MaxDegree \in Nat /\ Len(list) \in 0 .. MaxDegree
  BY <1>1, BuilderAssumption DEF Rows
<1> HIDE DEF slot, list
<1>3. slot \in Seq(Nodes) /\ Len(slot) = MaxDegree
  BY <1>2
<1>4. /\ SubSeq(slot, 1, Len(list)) \in Seq(Nodes) /\ Len(SubSeq(slot, 1, Len(list))) = Len(list)
      /\ \A i \in 1 .. Len(list) : SubSeq(slot, 1, Len(list))[i] = slot[i]
  BY <1>2, <1>3
<1>5. SubSeq(slot, 1, Len(list)) = list
  <2> DEFINE part == SubSeq(slot, 1, Len(list))
  <2>1. part \in Seq(Nodes) /\ Len(part) = Len(list) /\ \A i \in 1 .. Len(list) : part[i] = list[i]
    BY <1>1, <1>4 DEF slot, list
  <2>2. list \in Seq(Nodes)
    BY <1>1
  <2> HIDE DEF part
  <2>3. part = list
    BY <2>1, <2>2
  <2> QED
    BY <2>3 DEF part
<1> QED
  BY <1>5 DEF slot, list

LEMMA EveryNodeOnce ==
  ASSUME BuilderInv
  PROVE  SearchedOncePerPass
<1> SUFFICES ASSUME phase = "done" PROVE searched = [n \in Nodes |-> Passes]
  BY DEF SearchedOncePerPass
<1>1. pass = Passes /\ batch + 1 = num_batches /\ Passes \in Nat
  BY BuilderAssumption DEF BuilderInv, PhaseInv
<1>2. ASSUME NEW n \in Nodes
      PROVE  searched[n] = Passes
  <2> DEFINE whole == batchsize * num_batches
  <2>1. whole >= NumNodes /\ whole \in Nat /\ n \in Nat /\ n < NumNodes /\ NumNodes \in Nat
    BY BatchesCover, BuilderAssumption DEF Nodes
  <2> HIDE DEF whole
  <2>2. n < whole
    BY <2>1
  <2>3. Visited(n)
    BY <1>1, <2>2 DEF Visited, whole
  <2>4. searched[n] = pass - 1 + 1
    BY <2>3 DEF BuilderInv, CountInv
  <2> QED
    BY <1>1, <2>4
<1> QED
  BY <1>2 DEF BuilderInv, TypeOK

\* For every number of nodes, threads and batches: rows, shares and what threads see of
\* the rows of others are as BuilderInv says.
THEOREM BuilderInvariant == Spec => []BuilderInv
<1>1. Init => BuilderInv
  BY BuilderStarts
<1>2. BuilderInv /\ [Next]_vars => BuilderInv'
  BY BuilderKeeps
<1> QED
  BY <1>1, <1>2, PTL DEF Spec

\* At every moment, in the middle of add_edge too, no list of the graph has a node twice
\* or the node itself; a list that is read without its lock is not changed as far as it
\* was read; and construct has searched for every node once in each pass.
THEOREM GraphIsSound == Spec => []BuilderSound
<1>1. BuilderInv => BuilderSound
  BY RowsAreWellFormed, SpansAreStable, EveryNodeOnce DEF BuilderSound, BuilderInv
<1> QED
  BY <1>1, BuilderInvariant, PTL

\* When add_reverse_edges is through with a batch, each edge of its nodes has an edge
\* back in the graph or in the buffer.
THEOREM NoEdgeBackIsLost == Spec => []BackedgesKept
<1>1. BuilderInv => BackedgesKept
  BY DEF BuilderInv
<1> QED
  BY <1>1, BuilderInvariant, PTL
=============================================================================
