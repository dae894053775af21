------------------------- MODULE DynamicIndexProofs -------------------------
(***************************************************************************)
(* The mutable index keeps its ids, slots, data and graph consistent, for  *)
(* any number of slots, ids and points, and implements PointStore.         *)
(***************************************************************************)
EXTENDS DynamicIndex, PartitionProofs, FiniteSetTheorems, SequenceTheorems

-----------------------------------------------------------------------------
(* The slots in ascending order.                                          *)

\* A set of slots is finite and has an ascending enumeration.
LEMMA SortedExists ==
  ASSUME NEW N \in Nat, NEW S \in SUBSET (1 .. N)
  PROVE  /\ IsFiniteSet(S) /\ Cardinality(S) \in Nat
         /\ \E s \in [1 .. Cardinality(S) -> S] : Elements(s) = S /\ Ascending(s)
<1> DEFINE Good(T) == \E s \in [1 .. Cardinality(T) -> T] : Elements(s) = T /\ Ascending(s)
           P == {n \in Nat : \A T \in SUBSET (1 .. n) : IsFiniteSet(T) /\ Good(T)}
<1>1. 0 \in P
  <2>1. Cardinality({}) = 0 /\ IsFiniteSet({})
    BY FS_EmptySet
  <2> DEFINE s == [k \in 1 .. 0 |-> 0]
  <2>2. s \in [1 .. 0 -> {}] /\ Elements(s) = {} /\ Ascending(s)
    BY DEF Elements, Ascending
  <2>3. Good({})
    BY <2>1, <2>2
  <2>4. \A T \in SUBSET (1 .. 0) : T = {}
    OBVIOUS
  <2> HIDE DEF Good
  <2> QED
    BY <2>1, <2>3, <2>4
<1>2. ASSUME NEW n \in P PROVE n + 1 \in P
  <2> SUFFICES ASSUME NEW T \in SUBSET (1 .. n + 1) PROVE IsFiniteSet(T) /\ Good(T)
    OBVIOUS
  <2>1. CASE n + 1 \notin T
    <3>1. T \in SUBSET (1 .. n)
      BY <2>1
    <3> QED
      BY <3>1
  <2>2. CASE n + 1 \in T
    <3> DEFINE U == T \ {n + 1}
    <3>1. U \in SUBSET (1 .. n) /\ n \in Nat
      OBVIOUS
    <3>2. IsFiniteSet(U) /\ Good(U)
      BY <3>1
    <3> DEFINE m == Cardinality(U)
    <3>3. m \in Nat /\ IsFiniteSet(T) /\ Cardinality(T) = m + 1
      <4>1. T = U \cup {n + 1} /\ n + 1 \notin U
        BY <2>2
      <4> HIDE DEF U
      <4> QED
        BY <3>2, <4>1, FS_AddElement, FS_CardinalityType
    <3>4. PICK s \in [1 .. m -> U] : Elements(s) = U /\ Ascending(s)
      BY <3>2
    <3> HIDE DEF m
    <3> DEFINE r == [k \in 1 .. m + 1 |-> IF k = m + 1 THEN n + 1 ELSE s[k]]
    <3>5. r \in [1 .. m + 1 -> T]
      BY <2>2, <3>3, <3>4
    <3>a. r[m + 1] = n + 1 /\ \A k \in 1 .. m : r[k] = s[k]
      BY <3>3
    <3>b. DOMAIN r = 1 .. m + 1 /\ DOMAIN s = 1 .. m
      BY <3>4
    <3> HIDE DEF r
    <3>6. Elements(r) = T
      <4>1. T = U \cup {n + 1}
        BY <2>2
      <4>2. \A x \in U : \E k \in 1 .. m : x = s[k]
        BY <3>4, <3>b DEF Elements
      <4>3. \A x \in T : \E k \in 1 .. m + 1 : x = r[k]
        <5> SUFFICES ASSUME NEW x \in T PROVE \E k \in 1 .. m + 1 : x = r[k]
          OBVIOUS
        <5>1. CASE x = n + 1
          BY <3>3, <3>a, <5>1
        <5>2. CASE x # n + 1
          BY <3>3, <3>a, <4>2, <5>2
        <5> QED
          BY <5>1, <5>2
      <4>4. Elements(r) \subseteq T
        BY <3>5 DEF Elements
      <4>5. T \subseteq Elements(r)
        BY <3>b, <4>3 DEF Elements
      <4> QED
        BY <4>4, <4>5
    <3>7. Ascending(r)
      <4> SUFFICES ASSUME NEW j \in 1 .. m + 1, NEW k \in 1 .. m + 1, j < k PROVE r[j] < r[k]
        BY <3>b DEF Ascending
      <4>1. j \in 1 .. m /\ r[j] = s[j] /\ s[j] \in U
        BY <3>3, <3>4, <3>a
      <4>2. CASE k = m + 1
        <5>1. s[j] \in 1 .. n
          BY <3>1, <4>1
        <5> QED
          BY <3>1, <3>a, <4>1, <4>2, <5>1
      <4>3. CASE k # m + 1
        <5>1. k \in 1 .. m /\ r[k] = s[k]
          BY <3>3, <3>a, <4>3
        <5> QED
          BY <3>4, <3>b, <4>1, <5>1 DEF Ascending
      <4> QED
        BY <4>2, <4>3
    <3> QED
      BY <3>3, <3>5, <3>6, <3>7
  <2> QED
    BY <2>1, <2>2
<1>3. N \in P
  <2> HIDE DEF P
  <2>1. 0 \in P /\ \A n \in P : n \in Nat => n + 1 \in P
    BY <1>1, <1>2
  <2> QED
    BY <2>1, SetInduction
<1> QED
  BY <1>3, FS_CardinalityType

\* Sorted enumerates a set of slots in ascending order, each of them once.
LEMMA SortedIs ==
  ASSUME NEW N \in Nat, NEW S \in SUBSET (1 .. N)
  PROVE  /\ IsFiniteSet(S) /\ Cardinality(S) \in Nat
         /\ Sorted(S) \in [1 .. Cardinality(S) -> S] /\ Sorted(S) \in Seq(S)
         /\ Len(Sorted(S)) = Cardinality(S)
         /\ Elements(Sorted(S)) = S
         /\ \A j, k \in 1 .. Cardinality(S) : j < k => Sorted(S)[j] < Sorted(S)[k]
         /\ \A j, k \in 1 .. Cardinality(S) : Sorted(S)[j] = Sorted(S)[k] => j = k
<1>1. Sorted(S) \in [1 .. Cardinality(S) -> S] /\ Elements(Sorted(S)) = S /\ Ascending(Sorted(S))
  BY SortedExists DEF Sorted
<1>2. IsFiniteSet(S) /\ Cardinality(S) \in Nat
  BY SortedExists
<1> HIDE DEF Sorted
<1>3. Sorted(S) \in Seq(S) /\ Len(Sorted(S)) = Cardinality(S)
  BY <1>1, <1>2
<1>4. \A j, k \in 1 .. Cardinality(S) : j < k => Sorted(S)[j] < Sorted(S)[k]
  BY <1>1, <1>2 DEF Ascending
<1>5. \A j \in 1 .. Cardinality(S) : Sorted(S)[j] \in Nat
  <2>1. \A x \in S : x \in Nat
    OBVIOUS
  <2> QED
    BY <1>1, <2>1
<1>6. \A j, k \in 1 .. Cardinality(S) : Sorted(S)[j] = Sorted(S)[k] => j = k
  BY <1>2, <1>4, <1>5
<1> QED
  BY <1>1, <1>2, <1>3, <1>4, <1>6

-----------------------------------------------------------------------------
(* The graph.                                                              *)

\* A graph of n slots.
IsGraph(g, n) == g \in [1 .. n -> SUBSET (1 .. n)]

\* The links of the slots in C do not leave C.
Closed(g, C) == \A j \in C : g[j] \subseteq C

\* One step of Reachable, and the sequence of its steps.
Further(g, S) == S \cup UNION {g[j] : j \in S}

IsReach(f, N, g, ep) ==
  f = [k \in 0 .. N |-> IF k = 0 THEN {ep} ELSE Further(g, f[k - 1])]

\* The recursion of Reachable has a solution.
LEMMA ReachExists ==
  ASSUME NEW N \in Nat, NEW g, NEW ep
  PROVE  \E f : IsReach(f, N, g, ep)
<1> DEFINE Then(S) == Further(g, S)
           Is(f, m) == f = [k \in 0 .. m |-> IF k = 0 THEN {ep} ELSE Then(f[k - 1])]
           P == {m \in Nat : \E f : Is(f, m)}
<1>1. 0 \in P
  <2> DEFINE f == [k \in 0 .. 0 |-> {ep}]
  <2>1. Is(f, 0)
    OBVIOUS
  <2> QED
    BY <2>1
<1>2. ASSUME NEW m \in P PROVE m + 1 \in P
  <2>1. PICK f : Is(f, m)
    OBVIOUS
  <2> HIDE DEF Then
  <2> DEFINE h == [k \in 0 .. m + 1 |-> IF k = m + 1 THEN Then(f[m]) ELSE f[k]]
  <2>0. m \in Nat
    OBVIOUS
  <2>a. \A k \in 0 .. m : f[k] = IF k = 0 THEN {ep} ELSE Then(f[k - 1])
    BY <2>1
  <2>2. \A k \in 0 .. m : h[k] = f[k]
    BY <2>0
  <2>3. h[m + 1] = Then(h[m])
    BY <2>0, <2>2
  <2>4. \A k \in 0 .. m + 1 : h[k] = IF k = 0 THEN {ep} ELSE Then(h[k - 1])
    <3> SUFFICES ASSUME NEW k \in 0 .. m + 1 PROVE h[k] = IF k = 0 THEN {ep} ELSE Then(h[k - 1])
      OBVIOUS
    <3>1. CASE k = m + 1
      BY <2>3, <3>1
    <3>2. CASE k # m + 1
      <4>1. k \in 0 .. m /\ (k # 0 => k - 1 \in 0 .. m)
        BY <2>0, <3>2
      <4>2. h[k] = f[k] /\ (k # 0 => h[k - 1] = f[k - 1])
        BY <2>2, <4>1
      <4> HIDE DEF h, Is
      <4> QED
        BY <2>a, <4>1, <4>2
    <3> QED
      BY <3>1, <3>2
  <2>5. DOMAIN h = 0 .. m + 1 /\ h = [k \in 0 .. m + 1 |-> h[k]]
    OBVIOUS
  <2>6. Is(h, m + 1)
    <3> HIDE DEF h
    <3> QED
      BY <2>4, <2>5
  <2> HIDE DEF h, Is
  <2> QED
    BY <2>0, <2>6
<1> HIDE DEF P
<1>3. N \in P
  BY <1>1, <1>2, SetInduction
<1> QED
  BY <1>3 DEF P, IsReach

\* A search that starts in a set of slots that is closed under the links stays in it.
LEMMA ReachClosed ==
  ASSUME NEW g, Len(g) \in Nat, NEW C, NEW ep \in C, Closed(g, C)
  PROVE  Reachable(g, ep) \subseteq C
<1> DEFINE reach == CHOOSE f : IsReach(f, Len(g), g, ep)
           P == {m \in Nat : m <= Len(g) => reach[m] \subseteq C}
<1>1. IsReach(reach, Len(g), g, ep)
  BY ReachExists
<1>2. Reachable(g, ep) = reach[Len(g)]
  BY DEF Reachable, IsReach, Further
<1> HIDE DEF reach
<1>3. \A k \in 0 .. Len(g) : reach[k] = IF k = 0 THEN {ep} ELSE Further(g, reach[k - 1])
  BY <1>1 DEF IsReach
<1>4. 0 \in P
  BY <1>3
<1>5. ASSUME NEW m \in P PROVE m + 1 \in P
  <2> SUFFICES ASSUME m + 1 <= Len(g) PROVE reach[m + 1] \subseteq C
    OBVIOUS
  <2>1. m \in Nat /\ reach[m] \subseteq C
    OBVIOUS
  <2>2. reach[m + 1] = Further(g, reach[m])
    BY <1>3, <2>1
  <2> QED
    BY <2>1, <2>2 DEF Closed, Further
<1> HIDE DEF P
<1>6. Len(g) \in P
  BY <1>4, <1>5, SetInduction
<1> QED
  BY <1>2, <1>6 DEF P

\* Linking a node of a closed set into the graph (VamanaBuilder, vamana_build.h)
\* leaves a graph in which the set is closed.
LEMMA LinkedKeeps ==
  ASSUME NEW n \in Nat, NEW g, IsGraph(g, n), NEW C \in SUBSET (1 .. n), Closed(g, C),
         NEW ep \in C, NEW node \in C, NEW h \in Linked(g, ep, node)
  PROVE  IsGraph(h, n) /\ Closed(h, C)
<1>1. Reachable(g, ep) \subseteq C
  <2>1. Len(g) \in Nat
    BY DEF IsGraph
  <2> QED
    BY <2>1, ReachClosed
<1> DEFINE back(o) == IF Cardinality(g[o] \cup {node}) <= MaxDegree
                      THEN {g[o] \cup {node}}
                      ELSE Pruned(g[o] \cup {node}, o, PruneTo)
           Lists == Pruned(Reachable(g, ep) \cup g[node], node, MaxDegree)
           New(list, f) == [j \in DOMAIN g |-> IF j = node THEN list ELSE IF j \in list THEN f[j] ELSE g[j]]
<1>a. PICK list \in Lists :
        h \in {New(list, f) : f \in {f \in [list -> UNION {back(o) : o \in list}] :
                                     \A o \in list : f[o] \in back(o)}}
  BY DEF Linked
<1>2. PICK f : h = New(list, f) /\ \A o \in list : f[o] \in back(o)
  BY <1>a
<1>3. list \subseteq C
  BY <1>1 DEF Pruned, AtMost, Closed
<1>4. \A o \in list : f[o] \subseteq C
  <2> SUFFICES ASSUME NEW o \in list PROVE f[o] \subseteq C
    OBVIOUS
  <2>1. g[o] \cup {node} \subseteq C
    BY <1>3 DEF Closed
  <2>2. f[o] \in back(o)
    BY <1>2
  <2>3. f[o] \subseteq g[o] \cup {node}
    BY <2>2 DEF Pruned, AtMost
  <2> QED
    BY <2>1, <2>3
<1> HIDE DEF back, Lists
<1>5. DOMAIN h = 1 .. n /\ \A j \in 1 .. n : h[j] = IF j = node THEN list ELSE IF j \in list THEN f[j] ELSE g[j]
  BY <1>2 DEF IsGraph
<1>6. \A j \in 1 .. n : h[j] \subseteq 1 .. n
  BY <1>3, <1>4, <1>5 DEF IsGraph
<1>7. h = [j \in 1 .. n |-> h[j]]
  BY <1>2, <1>5
<1> QED
  BY <1>3, <1>4, <1>5, <1>6, <1>7 DEF IsGraph, Closed

\* One step of Constructed, and the sequence of its steps.
After(S, ep, node) == UNION {Linked(h, ep, node) : h \in S}

AreBuilt(f, N, g, ep, slots) ==
  f = [k \in 0 .. N |-> IF k = 0 THEN {g} ELSE After(f[k - 1], ep, slots[k])]

\* The recursion of Constructed has a solution.
LEMMA ConstructedExists ==
  ASSUME NEW g, NEW ep, NEW slots, NEW N \in Nat
  PROVE  \E f : AreBuilt(f, N, g, ep, slots)
<1> DEFINE Then(k, S) == After(S, ep, slots[k])
           Is(f, m) == f = [k \in 0 .. m |-> IF k = 0 THEN {g} ELSE Then(k, f[k - 1])]
           P == {m \in Nat : \E f : Is(f, m)}
<1>1. 0 \in P
  <2> DEFINE f == [k \in 0 .. 0 |-> {g}]
  <2>1. Is(f, 0)
    OBVIOUS
  <2> QED
    BY <2>1
<1>2. ASSUME NEW m \in P PROVE m + 1 \in P
  <2>1. PICK f : Is(f, m)
    OBVIOUS
  <2> HIDE DEF Then
  <2> DEFINE h == [k \in 0 .. m + 1 |-> IF k = m + 1 THEN Then(m + 1, f[m]) ELSE f[k]]
  <2>2. m \in Nat
    OBVIOUS
  <2>3. \A k \in 0 .. m : f[k] = IF k = 0 THEN {g} ELSE Then(k, f[k - 1])
    BY <2>1
  <2>4. \A k \in 0 .. m : h[k] = f[k]
    BY <2>2
  <2>5. h[m + 1] = Then(m + 1, h[m])
    BY <2>2, <2>4
  <2>6. \A k \in 0 .. m + 1 : h[k] = IF k = 0 THEN {g} ELSE Then(k, h[k - 1])
    <3> SUFFICES ASSUME NEW k \in 0 .. m + 1 PROVE h[k] = IF k = 0 THEN {g} ELSE Then(k, h[k - 1])
      OBVIOUS
    <3>1. CASE k = m + 1
      BY <2>2, <2>5, <3>1
    <3>2. CASE k # m + 1
      <4>1. k \in 0 .. m /\ (k # 0 => k - 1 \in 0 .. m)
        BY <2>2, <3>2
      <4>2. h[k] = f[k] /\ (k # 0 => h[k - 1] = f[k - 1])
        BY <2>4, <4>1
      <4> HIDE DEF h, Is
      <4> QED
        BY <2>3, <4>1, <4>2
    <3> QED
      BY <3>1, <3>2
  <2>7. DOMAIN h = 0 .. m + 1 /\ h = [k \in 0 .. m + 1 |-> h[k]]
    OBVIOUS
  <2>8. Is(h, m + 1)
    <3> HIDE DEF h
    <3> QED
      BY <2>6, <2>7
  <2> HIDE DEF h, Is
  <2> QED
    BY <2>2, <2>8
<1> HIDE DEF P
<1>3. N \in P
  BY <1>1, <1>2, SetInduction
<1> QED
  BY <1>3 DEF P, AreBuilt

\* So does the construction for any sequence of nodes of the closed set.
LEMMA ConstructedKeeps ==
  ASSUME NEW n \in Nat, NEW g, IsGraph(g, n), NEW C \in SUBSET (1 .. n), Closed(g, C), NEW ep \in C,
         NEW slots, Len(slots) \in Nat, \A k \in 1 .. Len(slots) : slots[k] \in C,
         NEW h \in Constructed(g, ep, slots)
  PROVE  IsGraph(h, n) /\ Closed(h, C)
<1> DEFINE after == CHOOSE f : AreBuilt(f, Len(slots), g, ep, slots)
           Keeps(x) == IsGraph(x, n) /\ Closed(x, C)
           P == {m \in Nat : m <= Len(slots) => \A x \in after[m] : Keeps(x)}
<1>1. AreBuilt(after, Len(slots), g, ep, slots)
  BY ConstructedExists
<1>2. Constructed(g, ep, slots) = after[Len(slots)]
  BY DEF Constructed, AreBuilt, After
<1> HIDE DEF after
<1>3. \A k \in 0 .. Len(slots) :
        after[k] = IF k = 0 THEN {g} ELSE After(after[k - 1], ep, slots[k])
  BY <1>1 DEF AreBuilt
<1>4. 0 \in P
  BY <1>3
<1>5. ASSUME NEW m \in P PROVE m + 1 \in P
  <2> SUFFICES ASSUME m + 1 <= Len(slots), NEW x \in after[m + 1] PROVE Keeps(x)
    OBVIOUS
  <2>1. m \in Nat /\ \A y \in after[m] : Keeps(y)
    OBVIOUS
  <2>2. PICK y \in after[m] : x \in Linked(y, ep, slots[m + 1])
    <3>1. after[m + 1] = After(after[m], ep, slots[m + 1])
      BY <1>3, <2>1
    <3> HIDE DEF after
    <3> QED
      BY <3>1 DEF After
  <2>3. slots[m + 1] \in C
    BY <2>1
  <2> QED
    BY <2>1, <2>2, <2>3, LinkedKeeps
<1> HIDE DEF P
<1>6. Len(slots) \in P
  BY <1>4, <1>5, SetInduction
<1> QED
  BY <1>2, <1>6 DEF P

-----------------------------------------------------------------------------
(* The translator.                                                         *)

\* A pair of maps between ids in E and slots in I.
IsTranslator(t, E, I) ==
  /\ t.e2i \in [DOMAIN t.e2i -> I] /\ DOMAIN t.e2i \subseteq E
  /\ t.i2e \in [DOMAIN t.i2e -> E] /\ DOMAIN t.i2e \subseteq I

\* The two maps are inverse to each other.
AreInverse(t) ==
  /\ \A x \in DOMAIN t.i2e : t.i2e[x] \in DOMAIN t.e2i /\ t.e2i[t.i2e[x]] = x
  /\ \A e \in DOMAIN t.e2i : t.e2i[e] \in DOMAIN t.i2e /\ t.i2e[t.e2i[e]] = e

\* The partner of an element of a sequence without duplicates is at the same place.
LEMMA PartnerIs ==
  ASSUME NEW from, NEW to, NEW k \in DOMAIN from, all_unique(from)
  PROVE  PartnerOf(from[k], from, to) = to[k]
BY DEF PartnerOf, all_unique

\* The n ids can be inserted with the n slots into t, whose slots are in J.
CanInsert(t, E, I, J, n, external, internal) ==
  /\ n \in Nat /\ J \in SUBSET I
  /\ IsTranslator(t, E, J) /\ AreInverse(t)
  /\ external \in [1 .. n -> E] /\ internal \in [1 .. n -> I]
  /\ InsertOK(t, external, internal)

\* What the translator r has then.
HasInserted(r, t, E, I, n, external, internal) ==
  /\ DOMAIN r = {"e2i", "i2e"} /\ IsTranslator(r, E, I) /\ AreInverse(r)
  /\ DOMAIN r.e2i = DOMAIN t.e2i \cup Elements(external)
  /\ DOMAIN r.i2e = DOMAIN t.i2e \cup Elements(internal)
  /\ \A e \in DOMAIN t.e2i : r.e2i[e] = t.e2i[e]
  /\ \A k \in 1 .. n : r.e2i[external[k]] = internal[k]

\* IDTranslator::insert (translation.h), when it does not throw, keeps the two maps
\* inverse to each other, keeps every entry and adds one for every given id.
LEMMA InsertKeeps ==
  ASSUME NEW t, NEW E, NEW I, NEW J, NEW n, NEW external, NEW internal,
         CanInsert(t, E, I, J, n, external, internal)
  PROVE  HasInserted(insert(t, external, internal), t, E, I, n, external, internal)
<1> USE DEF CanInsert
<1> DEFINE r == insert(t, external, internal)
<1>1. /\ all_unique(external) /\ all_unique(internal)
      /\ \A k \in 1 .. n : external[k] \notin DOMAIN t.e2i /\ internal[k] \notin DOMAIN t.i2e
  BY DEF InsertOK, check_external_free, check_internal_free, has_external, has_internal
<1>2. /\ DOMAIN r.e2i = DOMAIN t.e2i \cup Elements(external)
      /\ DOMAIN r.i2e = DOMAIN t.i2e \cup Elements(internal)
      /\ DOMAIN r = {"e2i", "i2e"}
  BY DEF insert
<1>3. /\ \A e \in Elements(external) : \E k \in 1 .. n : e = external[k]
      /\ \A k \in 1 .. n : external[k] \in Elements(external)
      /\ \A x \in Elements(internal) : \E k \in 1 .. n : x = internal[k]
      /\ \A k \in 1 .. n : internal[k] \in Elements(internal)
  BY DEF Elements
<1>4. \A k \in 1 .. n : r.e2i[external[k]] = internal[k] /\ r.i2e[internal[k]] = external[k]
  <2> SUFFICES ASSUME NEW k \in 1 .. n
               PROVE  r.e2i[external[k]] = internal[k] /\ r.i2e[internal[k]] = external[k]
    OBVIOUS
  <2>1. /\ PartnerOf(external[k], external, internal) = internal[k]
        /\ PartnerOf(internal[k], internal, external) = external[k]
    BY <1>1, PartnerIs
  <2> QED
    BY <1>3, <2>1 DEF insert
<1>5. /\ \A e \in DOMAIN t.e2i : r.e2i[e] = t.e2i[e]
      /\ \A x \in DOMAIN t.i2e : r.i2e[x] = t.i2e[x]
  <2>1. /\ \A e \in DOMAIN t.e2i : e \notin Elements(external)
        /\ \A x \in DOMAIN t.i2e : x \notin Elements(internal)
    BY <1>1, <1>3
  <2> QED
    BY <2>1 DEF insert
<1>6. r.e2i = [e \in DOMAIN r.e2i |-> r.e2i[e]] /\ r.i2e = [x \in DOMAIN r.i2e |-> r.i2e[x]]
  BY DEF insert
<1> HIDE DEF r
<1>7. IsTranslator(r, E, I)
  <2>1. \A e \in DOMAIN r.e2i : r.e2i[e] \in I /\ e \in E
    BY <1>2, <1>3, <1>4, <1>5 DEF IsTranslator
  <2>2. \A x \in DOMAIN r.i2e : r.i2e[x] \in E /\ x \in I
    BY <1>2, <1>3, <1>4, <1>5 DEF IsTranslator
  <2> QED
    BY <1>6, <2>1, <2>2 DEF IsTranslator
<1>8. \A x \in DOMAIN r.i2e : r.i2e[x] \in DOMAIN r.e2i /\ r.e2i[r.i2e[x]] = x
  BY <1>2, <1>3, <1>4, <1>5 DEF AreInverse
<1>9. \A e \in DOMAIN r.e2i : r.e2i[e] \in DOMAIN r.i2e /\ r.i2e[r.e2i[e]] = e
  BY <1>2, <1>3, <1>4, <1>5 DEF AreInverse
<1>10. HasInserted(r, t, E, I, n, external, internal)
  BY <1>2, <1>4, <1>5, <1>7, <1>8, <1>9 DEF AreInverse, HasInserted
<1> QED
  BY <1>10 DEF r

\* IDTranslator::delete_external (translation.h), for unique ids that exist, removes
\* their entries, keeps the others and keeps the maps inverse to each other.
LEMMA DeleteKeeps ==
  ASSUME NEW t, NEW E, NEW I, IsTranslator(t, E, I), AreInverse(t),
         NEW external \in Seq(E), all_unique(external), check_external_exist(t, external)
  PROVE  LET r == delete_external(t, external) IN
         /\ DOMAIN r = {"e2i", "i2e"} /\ IsTranslator(r, E, I) /\ AreInverse(r)
         /\ DOMAIN r.e2i = DOMAIN t.e2i \ Elements(external)
         /\ DOMAIN r.i2e = DOMAIN t.i2e \ {t.e2i[external[k]] : k \in DOMAIN external}
         /\ \A e \in DOMAIN r.e2i : r.e2i[e] = t.e2i[e]
<1> DEFINE r == delete_external(t, external)
           whole == {k \in DOMAIN external : all_unique(SubSeq(external, 1, k))}
<1>1. whole = DOMAIN external
  <2> SUFFICES ASSUME NEW k \in DOMAIN external PROVE all_unique(SubSeq(external, 1, k))
    OBVIOUS
  <2>1. k \in 1 .. Len(external) /\ Len(external) \in Nat
    OBVIOUS
  <2>2. DOMAIN SubSeq(external, 1, k) = 1 .. k /\ \A j \in 1 .. k : SubSeq(external, 1, k)[j] = external[j]
    BY <2>1
  <2> QED
    BY <2>1, <2>2 DEF all_unique
<1>2. {external[k] : k \in whole} = Elements(external)
  BY <1>1 DEF Elements
<1>3. Elements(external) \subseteq DOMAIN t.e2i
  BY DEF Elements, check_external_exist, has_external
<1>4. /\ r.e2i = [e \in DOMAIN t.e2i \ Elements(external) |-> t.e2i[e]]
      /\ r.i2e = [x \in DOMAIN t.i2e \ {t.e2i[e] : e \in Elements(external)} |-> t.i2e[x]]
      /\ DOMAIN r = {"e2i", "i2e"}
  <2> HIDE DEF whole
  <2>1. r = [e2i |-> [e \in DOMAIN t.e2i \ {external[k] : k \in whole} |-> t.e2i[e]],
             i2e |-> [x \in DOMAIN t.i2e \ {t.e2i[e] : e \in {external[k] : k \in whole}} |-> t.i2e[x]]]
    BY DEF delete_external, whole
  <2> QED
    BY <1>2, <2>1
<1>5. {t.e2i[e] : e \in Elements(external)} = {t.e2i[external[k]] : k \in DOMAIN external}
  BY DEF Elements
<1> HIDE DEF r
<1>6. /\ DOMAIN r.e2i = DOMAIN t.e2i \ Elements(external)
      /\ DOMAIN r.i2e = DOMAIN t.i2e \ {t.e2i[e] : e \in Elements(external)}
      /\ \A e \in DOMAIN r.e2i : r.e2i[e] = t.e2i[e]
      /\ \A x \in DOMAIN r.i2e : r.i2e[x] = t.i2e[x]
  BY <1>4
<1>7. IsTranslator(r, E, I)
  BY <1>4 DEF IsTranslator
<1>8. \A e \in DOMAIN r.e2i : r.e2i[e] \in DOMAIN r.i2e /\ r.i2e[r.e2i[e]] = e
  <2> SUFFICES ASSUME NEW e \in DOMAIN r.e2i PROVE r.e2i[e] \in DOMAIN r.i2e /\ r.i2e[r.e2i[e]] = e
    OBVIOUS
  <2>1. t.e2i[e] \in DOMAIN t.i2e /\ t.i2e[t.e2i[e]] = e
    BY <1>6 DEF AreInverse
  <2>2. \A f \in Elements(external) : t.e2i[f] # t.e2i[e]
    BY <1>3, <1>6, <2>1 DEF AreInverse
  <2> QED
    BY <1>6, <2>1, <2>2
<1>9. \A x \in DOMAIN r.i2e : r.i2e[x] \in DOMAIN r.e2i /\ r.e2i[r.i2e[x]] = x
  <2> SUFFICES ASSUME NEW x \in DOMAIN r.i2e PROVE r.i2e[x] \in DOMAIN r.e2i /\ r.e2i[r.i2e[x]] = x
    OBVIOUS
  <2>1. t.i2e[x] \in DOMAIN t.e2i /\ t.e2i[t.i2e[x]] = x
    BY <1>6 DEF AreInverse
  <2>2. t.i2e[x] \notin Elements(external)
    BY <1>6, <2>1
  <2> QED
    BY <1>6, <2>1, <2>2
<1> QED
  BY <1>4, <1>5, <1>6, <1>7, <1>8, <1>9 DEF AreInverse, r

-----------------------------------------------------------------------------
(* The invariant, and what each call does to it and to the store.          *)

\* The slots in use, the deleted ones included.
NonEmpty == Slots \ With("Empty")

\* The inductive invariant: it adds to the properties that the valid slots have data.
IndexInv ==
  /\ TypeOK /\ TranslatorTracksValid /\ NothingLeadsToEmpty
  /\ \A x \in Valid : data[x] \in Points
  /\ translator = [e2i |-> translator.e2i, i2e |-> translator.i2e]

\* What TypeOK says of the slots.
LEMMA Sizes ==
  ASSUME TypeOK
  PROVE  /\ Len(status) \in Nat /\ Slots = 1 .. Len(status) /\ DOMAIN status = Slots
         /\ \A x \in Slots : status[x] \in {"Valid", "Deleted", "Empty"}
         /\ Valid \subseteq Slots /\ With("Empty") \subseteq Slots
         /\ IsGraph(graph, Len(status)) /\ Len(graph) \in Nat
BY DEF TypeOK, Slots, Valid, With, IsGraph

\* In the invariant, the translator is a pair of inverse maps between ids and valid
\* slots.
LEMMA Tracks ==
  ASSUME IndexInv
  PROVE  /\ IsTranslator(translator, ExternalIds, Valid) /\ AreInverse(translator)
         /\ DOMAIN translator.i2e = Valid
BY DEF IndexInv, TypeOK, TranslatorTracksValid, InSync, IsTranslator, AreInverse, has_external

\* In the invariant, the store is one that PointStore knows.
LEMMA StoreIs ==
  ASSUME IndexInv
  PROVE  /\ DOMAIN Store = DOMAIN translator.e2i
         /\ \A e \in DOMAIN translator.e2i : Store[e] = data[translator.e2i[e]]
         /\ Store \in [DOMAIN translator.e2i -> Points] /\ Store \in PS!Stores
<1>1. \A e \in DOMAIN translator.e2i : data[translator.e2i[e]] \in Points
  BY Tracks DEF IndexInv, IsTranslator
<1>2. Store \in [DOMAIN translator.e2i -> Points]
  BY <1>1 DEF Store
<1>3. DOMAIN translator.e2i \in SUBSET ExternalIds
  BY DEF IndexInv, TypeOK
<1> QED
  BY <1>2, <1>3 DEF PS!Stores, Store

\* The slots add_points chooses (dynamic_index.h) are as many as asked for, each one
\* empty or new, and every slot of the resized index is one of them or an old one.
LEMMA SlotsForIs ==
  ASSUME TypeOK, NEW m \in Nat \ {0}
  PROVE  /\ SizeFor(m) \in Nat /\ Len(status) <= SizeFor(m)
         /\ SlotsFor(m) \in [1 .. m -> 1 .. SizeFor(m)] /\ Len(SlotsFor(m)) = m
         /\ \A k \in 1 .. m : SlotsFor(m)[k] \in With("Empty") \/ SlotsFor(m)[k] > Len(status)
         /\ \A x \in 1 .. SizeFor(m) : x \in Elements(SlotsFor(m)) \/ x \in Slots
<1> DEFINE empty == Sorted(With("Empty"))
           e == EmptySlots(m)
           l == Len(status)
<1>1. l \in Nat /\ Slots = 1 .. l /\ With("Empty") \in SUBSET (1 .. l)
  BY Sizes
<1>2. empty \in Seq(With("Empty")) /\ Len(empty) \in Nat
  BY <1>1, SortedIs
<1>3. e \in Seq(With("Empty")) /\ Len(e) \in 0 .. m
  <2> HIDE DEF empty
  <2>1. CASE m >= Len(empty)
    BY <1>2, <2>1 DEF EmptySlots, empty
  <2>2. CASE ~(m >= Len(empty))
    <3>1. e = SubSeq(empty, 1, m)
      BY <2>2 DEF EmptySlots, empty
    <3>2. m <= Len(empty) /\ m \in Nat /\ Len(empty) \in Nat
      BY <1>2, <2>2
    <3> QED
      BY <1>2, <3>1, <3>2
  <2> QED
    BY <2>1, <2>2
<1> HIDE DEF e, empty
<1> DEFINE c == Len(e)
           more == [k \in 1 .. m - c |-> l + k]
<1>4. SlotsFor(m) = e \o more /\ SizeFor(m) = l + m - c
  BY DEF SlotsFor, SizeFor, e
<1>5. c \in Nat /\ m - c \in Nat
  BY <1>3
<1>6. more \in Seq(Nat) /\ Len(more) = m - c
  BY <1>1, <1>5
<1>7. Len(SlotsFor(m)) = m /\ SlotsFor(m) \in Seq(Nat)
  <2>1. e \in Seq(Nat)
    <3>1. \A x \in With("Empty") : x \in Nat
      BY <1>1
    <3> QED
      BY <1>3, <3>1
  <2> HIDE DEF more
  <2> QED
    BY <1>4, <1>5, <1>6, <2>1
<1>8. \A k \in 1 .. m : SlotsFor(m)[k] = IF k <= c THEN e[k] ELSE l + (k - c)
  <2> SUFFICES ASSUME NEW k \in 1 .. m PROVE SlotsFor(m)[k] = IF k <= c THEN e[k] ELSE l + (k - c)
    OBVIOUS
  <2>1. (e \o more)[k] = IF k <= c THEN e[k] ELSE more[k - c]
    <3> HIDE DEF more
    <3> QED
      BY <1>3, <1>5, <1>6
  <2>2. k > c => k - c \in 1 .. m - c
    BY <1>5
  <2> QED
    BY <1>4, <1>5, <2>1, <2>2
<1>9. \A k \in 1 .. c : e[k] \in With("Empty")
  BY <1>3
<1>10. \A k \in 1 .. m : SlotsFor(m)[k] \in With("Empty") \/ SlotsFor(m)[k] > l
  BY <1>1, <1>5, <1>8, <1>9
<1>11. \A k \in 1 .. m : SlotsFor(m)[k] \in 1 .. l + m - c
  BY <1>1, <1>5, <1>8, <1>9
<1>12. \A x \in 1 .. l + m - c : x > l => \E k \in 1 .. m : x = SlotsFor(m)[k]
  <2> SUFFICES ASSUME NEW x \in 1 .. l + m - c, x > l PROVE \E k \in 1 .. m : x = SlotsFor(m)[k]
    OBVIOUS
  <2>1. x - l + c \in 1 .. m /\ ~(x - l + c <= c) /\ l + ((x - l + c) - c) = x
    BY <1>1, <1>5
  <2> QED
    BY <1>8, <2>1
<1>13. DOMAIN SlotsFor(m) = 1 .. m
  BY <1>7
<1>14. SlotsFor(m) \in [1 .. m -> 1 .. SizeFor(m)]
  <2> DEFINE s == SlotsFor(m)
             z == SizeFor(m)
  <2>1. \A k \in 1 .. m : s[k] \in 1 .. z
    BY <1>4, <1>11
  <2>2. s \in Seq(Nat) /\ Len(s) = m
    BY <1>7
  <2> HIDE DEF s, z
  <2>3. s \in [1 .. m -> Nat]
    BY <2>2
  <2>4. s \in [1 .. m -> 1 .. z]
    BY <2>1, <2>3
  <2> QED
    BY <2>4 DEF s, z
<1>15. \A x \in 1 .. SizeFor(m) : x \in Elements(SlotsFor(m)) \/ x \in Slots
  <2> SUFFICES ASSUME NEW x \in 1 .. SizeFor(m), x \notin Slots PROVE x \in Elements(SlotsFor(m))
    OBVIOUS
  <2>1. x \in 1 .. l + m - c
    BY <1>4
  <2>2. x > l
    BY <1>1, <1>5, <2>1
  <2>3. \E k \in 1 .. m : x = SlotsFor(m)[k]
    BY <1>12, <2>1, <2>2
  <2> QED
    BY <1>13, <2>3 DEF Elements
<1> HIDE DEF more, c, l
<1> QED
  BY <1>1, <1>4, <1>5, <1>7, <1>10, <1>14, <1>15 DEF l

\* What a request adds to the store.
Given(ids, points) == [e \in Elements(ids) |-> PartnerOf(e, ids, points)]

\* add_points keeps the invariant, and adds the points under their ids without a
\* change to any other.
LEMMA AddPointsStep ==
  ASSUME IndexInv, NEW ids \in Requests, NEW points \in PointsFor(ids), AddPoints(ids, points)
  PROVE  IndexInv' /\ Given(ids, points) \in PS!Stores /\ PS!Add(Given(ids, points))
<1> DEFINE m == Len(ids)
           slots == SlotsFor(m)
           n == SizeFor(m)
           new == Elements(slots)
           l == Len(status)
<1>1. m \in Nat \ {0} /\ ids \in [1 .. m -> ExternalIds]
  BY DynamicIndexAssumption DEF Requests
<1>2. /\ TypeOK /\ l \in Nat /\ Slots = 1 .. l /\ Valid \subseteq Slots
      /\ IsGraph(graph, l) /\ \A x \in Slots : status[x] \in {"Valid", "Deleted", "Empty"}
  BY Sizes DEF IndexInv
<1>3. /\ n \in Nat /\ l <= n /\ slots \in [1 .. m -> 1 .. n] /\ Len(slots) = m
      /\ \A k \in 1 .. m : slots[k] \in With("Empty") \/ slots[k] > l
      /\ \A x \in 1 .. n : x \in new \/ x \in Slots
  BY <1>1, <1>2, SlotsForIs
<1>4. /\ translator' = insert(translator, ids, slots) /\ InsertOK(translator, ids, slots)
      /\ status' = [x \in 1 .. n |-> IF x \in new THEN "Valid" ELSE status[x]]
      /\ entry_point # NoEntry /\ entry_point' = entry_point
  BY DEF AddPoints
<1>5. /\ points \in [1 .. m -> Points]
      /\ data' = [x \in 1 .. n |-> IF x \in new THEN PartnerOf(x, slots, points) ELSE data[x]]
  BY DEF AddPoints, PointsFor
<1> DEFINE g == [x \in 1 .. n |-> IF x \in new THEN {} ELSE graph[x]]
<1>6. graph' \in Constructed(g, entry_point, slots)
  BY DEF AddPoints
<1> HIDE DEF m, slots, n
<1>7. /\ new \subseteq 1 .. n /\ DOMAIN slots = 1 .. m
      /\ \A x \in new : x \in With("Empty") \/ x > l
      /\ \A x \in new : \E k \in 1 .. m : x = slots[k]
  BY <1>3 DEF Elements
<1>8. \A x \in new : x \notin NonEmpty
  BY <1>2, <1>7 DEF NonEmpty
<1> HIDE DEF new, l
<1>9. status' \in Seq({"Valid", "Deleted", "Empty"}) /\ Slots' = 1 .. n
  <2>1. \A x \in 1 .. n : status'[x] \in {"Valid", "Deleted", "Empty"}
    BY <1>2, <1>3, <1>4
  <2>2. DOMAIN status' = 1 .. n /\ status' = [x \in 1 .. n |-> status'[x]]
    BY <1>4
  <2> QED
    BY <1>3, <2>1, <2>2 DEF Slots
<1>10. Valid' = Valid \cup new
  <2>1. Valid' = {x \in 1 .. n : status'[x] = "Valid"}
    BY <1>9 DEF Valid, With
  <2>2. \A x \in 1 .. n : status'[x] = "Valid" <=> x \in new \/ x \in Valid
    BY <1>2, <1>3, <1>4 DEF Valid, With
  <2>3. Valid \subseteq 1 .. n
    BY <1>2, <1>3
  <2> QED
    BY <1>7, <2>1, <2>2, <2>3
<1>11. NonEmpty' = NonEmpty \cup new
  <2>1. NonEmpty' = {x \in 1 .. n : status'[x] # "Empty"}
    BY <1>9 DEF NonEmpty, With
  <2>2. \A x \in 1 .. n : status'[x] # "Empty" <=> x \in new \/ x \in NonEmpty
    BY <1>2, <1>3, <1>4 DEF NonEmpty, With
  <2>3. NonEmpty \subseteq 1 .. n
    BY <1>2, <1>3 DEF NonEmpty
  <2> QED
    BY <1>7, <2>1, <2>2, <2>3
<1>12. /\ DOMAIN translator' = {"e2i", "i2e"} /\ IsTranslator(translator', ExternalIds, 1 .. n)
       /\ AreInverse(translator')
       /\ DOMAIN translator'.e2i = DOMAIN translator.e2i \cup Elements(ids)
       /\ DOMAIN translator'.i2e = Valid \cup new
       /\ \A e \in DOMAIN translator.e2i : translator'.e2i[e] = translator.e2i[e]
       /\ \A k \in 1 .. m : translator'.e2i[ids[k]] = slots[k]
  <2>1. Valid \in SUBSET (1 .. n)
    BY <1>2, <1>3
  <2>2. IsTranslator(translator, ExternalIds, Valid) /\ AreInverse(translator)
    BY Tracks
  <2>3. DOMAIN translator.i2e = Valid /\ Elements(slots) = new
    BY Tracks DEF new
  <2>4. ids \in [1 .. m -> ExternalIds] /\ slots \in [1 .. m -> 1 .. n] /\ m \in Nat
    BY <1>1, <1>3
  <2>5. InsertOK(translator, ids, slots)
    BY <1>4
  <2> DEFINE r == insert(translator, ids, slots)
  <2>8. CanInsert(translator, ExternalIds, 1 .. n, Valid, m, ids, slots)
    BY <2>1, <2>2, <2>4, <2>5 DEF CanInsert
  <2>6. /\ DOMAIN r = {"e2i", "i2e"} /\ IsTranslator(r, ExternalIds, 1 .. n) /\ AreInverse(r)
        /\ DOMAIN r.e2i = DOMAIN translator.e2i \cup Elements(ids)
        /\ DOMAIN r.i2e = DOMAIN translator.i2e \cup Elements(slots)
        /\ \A e \in DOMAIN translator.e2i : r.e2i[e] = translator.e2i[e]
        /\ \A k \in 1 .. m : r.e2i[ids[k]] = slots[k]
    BY <2>8, InsertKeeps DEF HasInserted
  <2>7. translator' = r
    BY <1>4
  <2> HIDE DEF r
  <2> QED
    BY <2>3, <2>6, <2>7
<1>13. /\ \A k \in 1 .. m : data'[slots[k]] = points[k]
       /\ \A x \in NonEmpty : data'[x] = data[x]
       /\ data' \in [1 .. n -> Points \cup {NoPoint}]
  <2>1. \A k \in 1 .. m : PartnerOf(slots[k], slots, points) = points[k]
    <3>1. all_unique(slots)
      BY <1>4 DEF InsertOK
    <3>2. \A k \in 1 .. m : k \in DOMAIN slots
      BY <1>7
    <3> QED
      BY <3>1, <3>2, PartnerIs
  <2>2. \A k \in 1 .. m : slots[k] \in new /\ slots[k] \in 1 .. n
    BY <1>3, <1>7 DEF new, Elements
  <2>3. \A k \in 1 .. m : data'[slots[k]] = points[k]
    BY <1>5, <2>1, <2>2
  <2>4. \A x \in NonEmpty : x \in 1 .. n /\ x \notin new
    BY <1>2, <1>3, <1>8 DEF NonEmpty
  <2>5. \A x \in NonEmpty : data'[x] = data[x]
    BY <1>5, <2>4
  <2>6. \A x \in 1 .. n : data'[x] \in Points \cup {NoPoint}
    <3> SUFFICES ASSUME NEW x \in 1 .. n PROVE data'[x] \in Points \cup {NoPoint}
      OBVIOUS
    <3>1. CASE x \in new
      BY <1>5, <1>7, <2>3, <3>1
    <3>2. CASE x \notin new
      BY <1>3, <1>5, <3>2 DEF IndexInv, TypeOK
    <3> QED
      BY <3>1, <3>2
  <2> QED
    BY <1>5, <2>3, <2>5, <2>6
<1>14. IsGraph(graph', n) /\ Closed(graph', NonEmpty')
  <2>1. IsGraph(g, n)
    <3>1. \A x \in 1 .. n : x \notin new => graph[x] \subseteq 1 .. n
      BY <1>2, <1>3 DEF IsGraph
    <3> QED
      BY <3>1 DEF IsGraph
  <2>2. NonEmpty' \in SUBSET (1 .. n)
    BY <1>9 DEF NonEmpty
  <2>3. Closed(g, NonEmpty')
    <3> SUFFICES ASSUME NEW x \in NonEmpty' PROVE g[x] \subseteq NonEmpty'
      BY DEF Closed
    <3>1. x \in 1 .. n
      BY <2>2
    <3>2. CASE x \in new
      BY <3>1, <3>2
    <3>3. CASE x \notin new
      <4>1. x \in NonEmpty /\ g[x] = graph[x]
        BY <1>11, <3>1, <3>3
      <4>2. graph[x] \subseteq NonEmpty
        BY <1>2, <4>1 DEF IndexInv, NothingLeadsToEmpty, GraphConsistent, NonEmpty, IsGraph
      <4> QED
        BY <1>11, <4>1, <4>2
    <3> QED
      BY <3>2, <3>3
  <2>4. entry_point \in NonEmpty'
    BY <1>4, <1>11 DEF IndexInv, TypeOK, NothingLeadsToEmpty, EntryPointUsable, NonEmpty, With
  <2>5. \A k \in 1 .. m : slots[k] \in NonEmpty'
    BY <1>7, <1>11 DEF new, Elements
  <2> HIDE DEF g
  <2> QED
    BY <1>1, <1>3, <1>6, <2>1, <2>2, <2>3, <2>4, <2>5, ConstructedKeeps
<1>15. TypeOK'
  <2>1. graph' \in [Slots' -> SUBSET Slots']
    BY <1>9, <1>14 DEF IsGraph
  <2>2. entry_point' \in Slots' \cup {NoEntry}
    BY <1>2, <1>3, <1>4, <1>9 DEF TypeOK
  <2> QED
    BY <1>9, <1>12, <1>13, <2>1, <2>2 DEF TypeOK, IsTranslator
<1>16. TranslatorTracksValid'
  BY <1>10, <1>12 DEF TranslatorTracksValid, InSync, AreInverse, has_external
<1>17. NothingLeadsToEmpty'
  <2>1. GraphConsistent'
    BY <1>14 DEF GraphConsistent, Closed, NonEmpty
  <2>2. EntryPointUsable'
    <3>1. entry_point' \in NonEmpty'
      BY <1>4, <1>11 DEF IndexInv, TypeOK, NothingLeadsToEmpty, EntryPointUsable, NonEmpty, With
    <3> QED
      BY <3>1 DEF EntryPointUsable, NonEmpty, With
  <2> QED
    BY <2>1, <2>2 DEF NothingLeadsToEmpty
<1>18. \A x \in Valid' : data'[x] \in Points
  <2> SUFFICES ASSUME NEW x \in Valid' PROVE data'[x] \in Points
    OBVIOUS
  <2>1. CASE x \in new
    BY <1>5, <1>7, <1>13, <2>1
  <2>2. CASE x \notin new
    BY <1>10, <1>13, <2>2 DEF IndexInv, Valid, NonEmpty, With
  <2> QED
    BY <2>1, <2>2
<1>19. IndexInv'
  <2>1. translator' = [e2i |-> translator'.e2i, i2e |-> translator'.i2e]
    BY <1>4 DEF insert
  <2> QED
    BY <1>15, <1>16, <1>17, <1>18, <2>1 DEF IndexInv
<1> DEFINE given == Given(ids, points)
<1>20. \A e \in DOMAIN Store : e \in DOMAIN Store' /\ Store'[e] = Store[e]
  <2> SUFFICES ASSUME NEW e \in DOMAIN translator.e2i PROVE e \in DOMAIN Store' /\ Store'[e] = Store[e]
    BY StoreIs
  <2>1. e \in DOMAIN translator'.e2i /\ translator'.e2i[e] = translator.e2i[e]
    BY <1>12
  <2>2. translator.e2i[e] \in NonEmpty
    BY Tracks DEF IsTranslator, Valid, NonEmpty, With
  <2> QED
    BY <1>13, <2>1, <2>2 DEF Store
<1>21. DOMAIN given = Elements(ids) /\ \A k \in 1 .. m : given[ids[k]] = points[k]
  <2>1. DOMAIN given = Elements(ids)
    BY DEF Given
  <2>2. all_unique(ids) /\ DOMAIN ids = 1 .. m
    BY <1>1, <1>4 DEF InsertOK
  <2>3. \A k \in 1 .. m : PartnerOf(ids[k], ids, points) = points[k] /\ ids[k] \in Elements(ids)
    BY <2>2, PartnerIs DEF Elements
  <2> QED
    BY <2>1, <2>3 DEF Given
<1>22. \A e \in Elements(ids) : \E k \in 1 .. m : e = ids[k]
  BY <1>1 DEF Elements
<1>23. given \in PS!Stores
  <2>1. \A e \in Elements(ids) : given[e] \in Points
    BY <1>5, <1>21, <1>22
  <2>2. given \in [Elements(ids) -> Points]
    BY <1>21, <2>1 DEF Given
  <2>3. Elements(ids) \in SUBSET ExternalIds
    BY <1>1, <1>22
  <2> HIDE DEF given
  <2> QED
    BY <2>2, <2>3 DEF PS!Stores
<1>24. DOMAIN given \cap DOMAIN Store = {}
  <2>1. \A k \in 1 .. m : ids[k] \notin DOMAIN translator.e2i
    BY <1>1, <1>4 DEF InsertOK, check_external_free, has_external
  <2> QED
    BY <1>21, <1>22, <2>1, StoreIs
<1>25. Store' = [e \in DOMAIN Store \cup DOMAIN given |-> IF e \in DOMAIN given THEN given[e] ELSE Store[e]]
  <2>1. DOMAIN Store' = DOMAIN Store \cup DOMAIN given
    BY <1>12, <1>21, StoreIs DEF Store
  <2>2. Store' = [e \in DOMAIN Store' |-> Store'[e]]
    BY DEF Store
  <2>3. \A e \in DOMAIN given : Store'[e] = given[e]
    <3> SUFFICES ASSUME NEW k \in 1 .. m PROVE Store'[ids[k]] = given[ids[k]]
      BY <1>21, <1>22
    <3>1. ids[k] \in DOMAIN translator'.e2i /\ translator'.e2i[ids[k]] = slots[k]
      BY <1>1, <1>12 DEF Elements
    <3>2. Store'[ids[k]] = data'[slots[k]]
      BY <3>1 DEF Store
    <3> QED
      BY <1>13, <1>21, <3>2
  <2> HIDE DEF given
  <2> QED
    BY <1>20, <1>24, <2>1, <2>2, <2>3
<1> QED
  BY <1>19, <1>23, <1>24, <1>25 DEF PS!Add

\* add_points with ids that the translator refuses keeps the invariant and the store.
LEMMA AddPointsRefusedStep ==
  ASSUME IndexInv, NEW ids \in Requests, AddPointsRefused(ids)
  PROVE  IndexInv' /\ Store' = Store
<1> DEFINE n == SizeFor(Len(ids))
           l == Len(status)
<1>1. Len(ids) \in Nat \ {0}
  BY DynamicIndexAssumption DEF Requests
<1>2. /\ TypeOK /\ l \in Nat /\ Slots = 1 .. l /\ Valid \subseteq Slots
      /\ IsGraph(graph, l) /\ \A x \in Slots : status[x] \in {"Valid", "Deleted", "Empty"}
  BY Sizes DEF IndexInv
<1>3. n \in Nat /\ l <= n
  BY <1>1, <1>2, SlotsForIs
<1>4. Len(data) = l /\ Len(graph) = l
  BY <1>2 DEF TypeOK, IsGraph
<1>5. /\ status' = [x \in 1 .. n |-> IF x <= l THEN status[x] ELSE "Empty"]
      /\ data' = [x \in 1 .. n |-> IF x <= l THEN data[x] ELSE NoPoint]
      /\ graph' = [x \in 1 .. n |-> IF x <= l THEN graph[x] ELSE {}]
      /\ translator' = translator /\ entry_point' = entry_point
  BY <1>4 DEF AddPointsRefused, Resized
<1> HIDE DEF n, l
<1>6. \A x \in 1 .. n : x \in Slots <=> x <= l
  BY <1>2
<1>7. status' \in Seq({"Valid", "Deleted", "Empty"}) /\ Slots' = 1 .. n
  <2>1. \A x \in 1 .. n : status'[x] \in {"Valid", "Deleted", "Empty"}
    BY <1>2, <1>5, <1>6
  <2>2. DOMAIN status' = 1 .. n /\ status' = [x \in 1 .. n |-> status'[x]]
    BY <1>5
  <2> QED
    BY <1>3, <2>1, <2>2 DEF Slots
<1>8. Slots \subseteq 1 .. n
  BY <1>2, <1>3
<1>9. Valid' = Valid
  <2>1. Valid' = {x \in 1 .. n : status'[x] = "Valid"}
    BY <1>7 DEF Valid, With
  <2>2. \A x \in 1 .. n : status'[x] = "Valid" <=> x \in Valid
    BY <1>5, <1>6 DEF Valid, With
  <2> QED
    BY <1>2, <1>8, <2>1, <2>2
<1>10. NonEmpty' = NonEmpty
  <2>1. NonEmpty' = {x \in 1 .. n : status'[x] # "Empty"}
    BY <1>7 DEF NonEmpty, With
  <2>2. \A x \in 1 .. n : status'[x] # "Empty" <=> x \in NonEmpty
    BY <1>5, <1>6 DEF NonEmpty, With
  <2>3. NonEmpty \subseteq 1 .. n
    BY <1>8 DEF NonEmpty
  <2> QED
    BY <2>1, <2>2, <2>3
<1>11. \A x \in Slots : data'[x] = data[x] /\ graph'[x] = graph[x]
  BY <1>5, <1>6, <1>8
<1>12. TypeOK'
  <2>1. data' \in [1 .. n -> Points \cup {NoPoint}]
    BY <1>2, <1>5, <1>6 DEF TypeOK
  <2>2. graph' \in [1 .. n -> SUBSET (1 .. n)]
    <3>1. \A x \in Slots : graph[x] \subseteq 1 .. n
      BY <1>2, <1>8 DEF IsGraph
    <3> QED
      BY <1>5, <1>6, <3>1
  <2>3. /\ translator.e2i \in [DOMAIN translator.e2i -> 1 .. n]
        /\ DOMAIN translator.i2e \subseteq 1 .. n
        /\ entry_point \in (1 .. n) \cup {NoEntry}
    BY <1>2, <1>8 DEF TypeOK
  <2> QED
    BY <1>2, <1>5, <1>7, <2>1, <2>2, <2>3 DEF TypeOK
<1>13. TranslatorTracksValid'
  BY <1>5, <1>9 DEF IndexInv, TranslatorTracksValid, InSync, has_external
<1>14. NothingLeadsToEmpty'
  <2>1. \A x \in NonEmpty : x \in Slots
    BY DEF NonEmpty
  <2>2. \A x \in NonEmpty : graph[x] \subseteq NonEmpty
    BY <1>2, <2>1 DEF IndexInv, NothingLeadsToEmpty, GraphConsistent, NonEmpty, IsGraph
  <2>3. GraphConsistent'
    BY <1>10, <1>11, <2>1, <2>2 DEF GraphConsistent, NonEmpty
  <2>4. EntryPointUsable'
    <3>1. entry_point # NoEntry => entry_point \in NonEmpty
      BY DEF IndexInv, TypeOK, NothingLeadsToEmpty, EntryPointUsable, NonEmpty, With
    <3> QED
      BY <1>5, <1>10, <3>1 DEF EntryPointUsable, NonEmpty, With
  <2> QED
    BY <2>3, <2>4 DEF NothingLeadsToEmpty
<1>15. \A x \in Valid' : data'[x] \in Points
  BY <1>2, <1>9, <1>11 DEF IndexInv
<1>16. IndexInv'
  BY <1>5, <1>12, <1>13, <1>14, <1>15 DEF IndexInv
<1>17. Store' = Store
  <2>1. \A e \in DOMAIN translator.e2i : translator.e2i[e] \in Slots
    BY <1>2 DEF TypeOK
  <2> QED
    BY <1>5, <1>11, <2>1 DEF Store
<1> QED
  BY <1>16, <1>17

\* delete_entries keeps the invariant, and removes the given ids without a change to
\* any other.
LEMMA DeleteEntriesStep ==
  ASSUME IndexInv, NEW ids \in Requests, all_unique(ids), DeleteEntries(ids)
  PROVE  IndexInv' /\ PS!Delete(Elements(ids))
<1> DEFINE gone == {translator.e2i[ids[k]] : k \in DOMAIN ids}
           r == delete_external(translator, ids)
<1>1. ids \in Seq(ExternalIds)
  BY DynamicIndexAssumption DEF Requests
<1>2. /\ TypeOK /\ Len(status) \in Nat /\ Slots = 1 .. Len(status) /\ Valid \subseteq Slots
      /\ \A x \in Slots : status[x] \in {"Valid", "Deleted", "Empty"}
  BY Sizes DEF IndexInv
<1>3. /\ status' = [x \in Slots |-> IF x \in gone THEN "Deleted" ELSE status[x]]
      /\ translator' = r /\ data' = data /\ graph' = graph /\ entry_point' = entry_point
      /\ check_external_exist(translator, ids)
  BY DEF DeleteEntries
<1>4. /\ DOMAIN r = {"e2i", "i2e"} /\ IsTranslator(r, ExternalIds, Valid) /\ AreInverse(r)
      /\ DOMAIN r.e2i = DOMAIN translator.e2i \ Elements(ids)
      /\ DOMAIN r.i2e = DOMAIN translator.i2e \ gone
      /\ \A e \in DOMAIN r.e2i : r.e2i[e] = translator.e2i[e]
      /\ r = [e2i |-> r.e2i, i2e |-> r.i2e]
  <2>1. IsTranslator(translator, ExternalIds, Valid) /\ AreInverse(translator)
    BY Tracks
  <2>2. r = [e2i |-> r.e2i, i2e |-> r.i2e]
    BY DEF delete_external
  <2> QED
    BY <1>1, <1>3, <2>1, <2>2, DeleteKeeps
<1>5. gone \subseteq Valid
  BY <1>3, Tracks DEF check_external_exist, has_external, IsTranslator
<1> HIDE DEF gone, r
<1>6. Slots' = Slots /\ status' \in Seq({"Valid", "Deleted", "Empty"})
  <2>1. \A x \in Slots : status'[x] \in {"Valid", "Deleted", "Empty"}
    BY <1>2, <1>3
  <2>2. DOMAIN status' = Slots /\ status' = [x \in Slots |-> status'[x]]
    BY <1>3
  <2> QED
    BY <1>2, <2>1, <2>2 DEF Slots
<1>7. Valid' = Valid \ gone
  <2>1. Valid' = {x \in Slots : status'[x] = "Valid"}
    BY <1>6 DEF Valid, With
  <2> QED
    BY <1>3, <2>1 DEF Valid, With
<1>8. NonEmpty' = NonEmpty
  <2>1. NonEmpty' = {x \in Slots : status'[x] # "Empty"}
    BY <1>6 DEF NonEmpty, With
  <2>2. \A x \in Slots : status'[x] # "Empty" <=> x \in NonEmpty
    BY <1>3, <1>5 DEF Valid, NonEmpty, With
  <2> QED
    BY <2>1, <2>2 DEF NonEmpty
<1>9. DOMAIN translator.i2e = Valid
  BY Tracks
<1>10. TypeOK'
  <2>1. /\ translator' = r /\ DOMAIN r = {"e2i", "i2e"}
        /\ r.e2i \in [DOMAIN r.e2i -> Slots] /\ DOMAIN r.e2i \subseteq ExternalIds
        /\ r.i2e \in [DOMAIN r.i2e -> ExternalIds] /\ DOMAIN r.i2e \subseteq Slots
    BY <1>2, <1>3, <1>4 DEF IsTranslator
  <2> QED
    BY <1>2, <1>3, <1>6, <2>1 DEF TypeOK
<1>11. TranslatorTracksValid'
  <2>1. DOMAIN r.i2e = Valid'
    BY <1>4, <1>7, <1>9
  <2> QED
    BY <1>3, <1>4, <2>1 DEF TranslatorTracksValid, InSync, AreInverse, has_external
<1>12. NothingLeadsToEmpty'
  <2>1. With("Empty") = Slots \ NonEmpty /\ (With("Empty"))' = Slots' \ NonEmpty'
    BY DEF NonEmpty, With
  <2>2. (With("Empty"))' = With("Empty")
    BY <1>6, <1>8, <2>1
  <2>3. GraphConsistent'
    BY <1>3, <1>6, <2>2 DEF IndexInv, NothingLeadsToEmpty, GraphConsistent
  <2>4. EntryPointUsable'
    BY <1>3, <1>5 DEF IndexInv, NothingLeadsToEmpty, EntryPointUsable, TypeOK
  <2> QED
    BY <2>3, <2>4 DEF NothingLeadsToEmpty
<1>13. IndexInv'
  <2>1. \A x \in Valid' : data'[x] \in Points
    BY <1>3, <1>7 DEF IndexInv
  <2>2. translator' = [e2i |-> translator'.e2i, i2e |-> translator'.i2e]
    BY <1>3, <1>4
  <2> QED
    BY <1>10, <1>11, <1>12, <2>1, <2>2 DEF IndexInv
<1>14. PS!Delete(Elements(ids))
  <2>1. Elements(ids) \in SUBSET DOMAIN Store
    BY <1>3 DEF Store, Elements, check_external_exist, has_external
  <2>2. Store' = [e \in DOMAIN Store \ Elements(ids) |-> Store[e]]
    <3>1. DOMAIN Store = DOMAIN translator.e2i
      BY DEF Store
    <3>2. Store' = [e \in DOMAIN r.e2i |-> data[r.e2i[e]]]
      BY <1>3 DEF Store
    <3>3. \A e \in DOMAIN r.e2i : data[r.e2i[e]] = Store[e]
      BY <1>4 DEF Store
    <3> QED
      BY <1>4, <3>1, <3>2, <3>3
  <2> QED
    BY <2>1, <2>2 DEF PS!Delete
<1> QED
  BY <1>13, <1>14

\* consolidate keeps the invariant, though it may leave a node with the list of
\* another one, and does not touch the store.
LEMMA ConsolidateStep ==
  ASSUME IndexInv, Consolidate
  PROVE  IndexInv' /\ Store' = Store
<1>1. /\ TypeOK /\ Len(status) \in Nat /\ Slots = 1 .. Len(status) /\ Valid \subseteq Slots
      /\ IsGraph(graph, Len(status)) /\ \A x \in Slots : status[x] \in {"Valid", "Deleted", "Empty"}
  BY Sizes DEF IndexInv
<1>2. PICK u \in Updates : graph' = [x \in Slots |-> IF x \in NeedsUpdate THEN u[x] ELSE graph[x]]
  BY DEF Consolidate
<1>3. /\ status' = [x \in Slots |-> IF status[x] = "Deleted" THEN "Empty" ELSE status[x]]
      /\ data' = data /\ translator' = translator
  BY DEF Consolidate
<1>4. Slots' = Slots /\ status' \in Seq({"Valid", "Deleted", "Empty"})
  <2>1. \A x \in Slots : status'[x] \in {"Valid", "Deleted", "Empty"}
    BY <1>1, <1>3
  <2>2. DOMAIN status' = Slots /\ status' = [x \in Slots |-> status'[x]]
    BY <1>3
  <2> QED
    BY <1>1, <2>1, <2>2 DEF Slots
<1>5. Valid' = Valid /\ NonEmpty' = Valid
  <2>1. Valid' = {x \in Slots : status'[x] = "Valid"} /\ NonEmpty' = {x \in Slots : status'[x] # "Empty"}
    BY <1>4 DEF Valid, NonEmpty, With
  <2>2. \A x \in Slots : (status'[x] = "Valid" <=> x \in Valid) /\ (status'[x] # "Empty" <=> x \in Valid)
    BY <1>1, <1>3 DEF Valid, With
  <2> QED
    BY <1>1, <2>1, <2>2
<1>6. \A x \in Valid : graph'[x] \subseteq Valid
  <2> SUFFICES ASSUME NEW x \in Valid PROVE graph'[x] \subseteq Valid
    OBVIOUS
  <2>1. CASE x \in NeedsUpdate
    <3>1. u[x] \subseteq Valid
      BY <2>1 DEF Updates, AtMost
    <3> QED
      BY <1>1, <1>2, <2>1, <3>1
  <2>2. CASE x \notin NeedsUpdate
    <3>1. \A y \in graph[x] : ~is_deleted(y)
      BY <2>2 DEF NeedsUpdate
    <3>2. graph[x] \subseteq Slots
      BY <1>1 DEF IsGraph
    <3> QED
      BY <1>1, <1>2, <2>2, <3>1, <3>2 DEF is_deleted, Valid, With
  <2> QED
    BY <2>1, <2>2
<1>7. graph' \in [Slots -> SUBSET Slots]
  <2>1. \A x \in Slots : x \notin NeedsUpdate => graph'[x] \subseteq Slots
    BY <1>1, <1>2 DEF IsGraph
  <2>2. \A x \in Slots : x \in NeedsUpdate => graph'[x] \subseteq Slots
    BY <1>1, <1>6 DEF NeedsUpdate
  <2> QED
    BY <1>2, <2>1, <2>2
<1>8. entry_point' = NoEntry \/ entry_point' \in Valid
  <2>1. entry_point # NoEntry /\ entry_point \in Slots /\ status[entry_point] # "Empty"
    BY <1>1 DEF Consolidate, TypeOK, IndexInv, NothingLeadsToEmpty, EntryPointUsable
  <2>2. CASE status[entry_point] = "Deleted"
    BY <2>2 DEF Consolidate, NewEntryPoints
  <2>3. CASE status[entry_point] # "Deleted"
    BY <1>1, <2>1, <2>3 DEF Consolidate, Valid, With
  <2> QED
    BY <2>2, <2>3
<1>9. TypeOK'
  <2>1. entry_point' \in Slots \cup {NoEntry}
    BY <1>1, <1>8
  <2> QED
    BY <1>1, <1>3, <1>4, <1>7, <2>1 DEF TypeOK
<1>10. TranslatorTracksValid'
  BY <1>3, <1>5 DEF IndexInv, TranslatorTracksValid, InSync, has_external
<1>11. NothingLeadsToEmpty'
  <2>1. GraphConsistent'
    BY <1>5, <1>6 DEF GraphConsistent, NonEmpty
  <2>2. EntryPointUsable'
    BY <1>5, <1>8 DEF EntryPointUsable, Valid, With
  <2> QED
    BY <2>1, <2>2 DEF NothingLeadsToEmpty
<1>12. IndexInv'
  BY <1>3, <1>5, <1>9, <1>10, <1>11 DEF IndexInv
<1> QED
  BY <1>3, <1>12 DEF Store

-----------------------------------------------------------------------------
(* Compaction.                                                             *)

\* new_to_old_id_map of compact enumerates the valid slots, and old_to_new_id_map is
\* its inverse.
LEMMA MovesTo ==
  ASSUME TypeOK
  PROVE  /\ Len(new_to_old_id_map) \in Nat
         /\ new_to_old_id_map \in [1 .. Len(new_to_old_id_map) -> Valid]
         /\ DOMAIN new_to_old_id_map = 1 .. Len(new_to_old_id_map)
         /\ \A k \in 1 .. Len(new_to_old_id_map) : OldToNew(new_to_old_id_map[k]) = k
         /\ \A x \in Valid : /\ OldToNew(x) \in 1 .. Len(new_to_old_id_map)
                             /\ new_to_old_id_map[OldToNew(x)] = x
         /\ \A j, k \in 1 .. Len(new_to_old_id_map) :
              j < k => new_to_old_id_map[j] < new_to_old_id_map[k]
<1> DEFINE map == new_to_old_id_map
           n == Len(map)
<1>1. Len(status) \in Nat /\ Valid \in SUBSET (1 .. Len(status))
  BY Sizes
<1>2. /\ n = Cardinality(Valid) /\ n \in Nat /\ map \in [1 .. n -> Valid]
      /\ Elements(map) = Valid
      /\ \A j, k \in 1 .. n : j < k => map[j] < map[k]
      /\ \A j, k \in 1 .. n : map[j] = map[k] => j = k
  BY <1>1, SortedIs DEF new_to_old_id_map
<1>3. DOMAIN map = 1 .. n
  BY <1>2
<1> HIDE DEF map, n
<1>4. \A x \in Valid : \E k \in 1 .. n : map[k] = x
  BY <1>2, <1>3 DEF Elements
<1>5. \A x \in Valid : OldToNew(x) \in 1 .. n /\ map[OldToNew(x)] = x
  BY <1>3, <1>4 DEF OldToNew, map
<1>6. \A k \in 1 .. n : OldToNew(map[k]) = k
  BY <1>2, <1>5
<1> QED
  BY <1>2, <1>3, <1>5, <1>6 DEF map, n

\* compact keeps the invariant if no slot is deleted, and does not touch the store.
LEMMA CompactStep ==
  ASSUME IndexInv, With("Deleted") = {}, Compact
  PROVE  IndexInv' /\ Store' = Store
<1> DEFINE map == new_to_old_id_map
           n == Len(map)
<1>1. /\ TypeOK /\ Len(status) \in Nat /\ Slots = 1 .. Len(status) /\ Valid \subseteq Slots
      /\ IsGraph(graph, Len(status))
  BY Sizes DEF IndexInv
<1>2. /\ n \in Nat /\ map \in [1 .. n -> Valid] /\ DOMAIN map = 1 .. n
      /\ \A k \in 1 .. n : OldToNew(map[k]) = k
      /\ \A x \in Valid : OldToNew(x) \in 1 .. n /\ map[OldToNew(x)] = x
  BY <1>1, MovesTo
<1>3. /\ \A x \in Valid : ~Dangling(x)
      /\ data' = [k \in 1 .. n |-> data[map[k]]]
      /\ graph' = [k \in 1 .. n |-> CompactedRow(k)]
      /\ status' = [k \in 1 .. n |-> "Valid"]
      /\ translator' = CompactedTranslator
      /\ entry_point \in Valid /\ entry_point' = OldToNew(entry_point)
  BY DEF Compact, Compacted
<1>4. /\ translator'.e2i = [e \in DOMAIN translator.e2i |-> OldToNew(translator.e2i[e])]
      /\ translator'.i2e = [k \in 1 .. n |-> translator.i2e[map[k]]]
      /\ DOMAIN translator' = {"e2i", "i2e"}
      /\ translator' = [e2i |-> translator'.e2i, i2e |-> translator'.i2e]
  BY <1>2, <1>3 DEF CompactedTranslator
<1>5. \A k \in 1 .. n : CompactedRow(k) = {OldToNew(j) : j \in graph[map[k]]}
  BY DEF CompactedRow
<1> HIDE DEF map, n
<1>6. /\ IsTranslator(translator, ExternalIds, Valid) /\ AreInverse(translator)
      /\ DOMAIN translator.i2e = Valid
  BY Tracks
<1>7. Slots' = 1 .. n /\ status' \in Seq({"Valid", "Deleted", "Empty"})
  BY <1>2, <1>3 DEF Slots
<1>8. Valid' = 1 .. n /\ (With("Empty"))' = {}
  BY <1>3, <1>7 DEF Valid, With
<1>9. graph' \in [1 .. n -> SUBSET (1 .. n)]
  <2> SUFFICES ASSUME NEW k \in 1 .. n PROVE CompactedRow(k) \subseteq 1 .. n
    BY <1>3
  <2>1. \A j \in graph[map[k]] : j \in Valid
    <3>1. map[k] \in Valid
      BY <1>2
    <3>2. graph[map[k]] \subseteq Slots
      BY <1>1, <3>1 DEF IsGraph
    <3> QED
      BY <1>3, <3>1, <3>2 DEF Dangling, is_deleted, Valid, With
  <2> QED
    BY <1>2, <1>5, <2>1
<1>10. /\ translator'.e2i \in [DOMAIN translator'.e2i -> 1 .. n]
       /\ translator'.i2e \in [DOMAIN translator'.i2e -> ExternalIds]
       /\ DOMAIN translator'.e2i = DOMAIN translator.e2i
       /\ DOMAIN translator'.i2e = 1 .. n
  <2>1. \A e \in DOMAIN translator.e2i : OldToNew(translator.e2i[e]) \in 1 .. n
    BY <1>2, <1>6 DEF IsTranslator
  <2>2. \A k \in 1 .. n : translator.i2e[map[k]] \in ExternalIds
    BY <1>2, <1>6 DEF IsTranslator
  <2> QED
    BY <1>4, <2>1, <2>2
<1>11. TypeOK'
  <2>1. data' \in [1 .. n -> Points \cup {NoPoint}]
    <3>1. \A k \in 1 .. n : data[map[k]] \in Points
      BY <1>2 DEF IndexInv
    <3> QED
      BY <1>3, <3>1
  <2>2. entry_point' \in 1 .. n
    BY <1>2, <1>3
  <2>3. DOMAIN translator'.e2i \subseteq ExternalIds
    BY <1>6, <1>10 DEF IsTranslator
  <2> QED
    BY <1>4, <1>7, <1>9, <1>10, <2>1, <2>2, <2>3 DEF TypeOK
<1>12. TranslatorTracksValid'
  <2>1. \A k \in 1 .. n : /\ translator'.i2e[k] \in DOMAIN translator'.e2i
                          /\ translator'.e2i[translator'.i2e[k]] = k
    <3> SUFFICES ASSUME NEW k \in 1 .. n
                 PROVE  /\ translator'.i2e[k] \in DOMAIN translator'.e2i
                        /\ translator'.e2i[translator'.i2e[k]] = k
      OBVIOUS
    <3>1. map[k] \in Valid /\ translator'.i2e[k] = translator.i2e[map[k]]
      BY <1>2, <1>4
    <3>2. /\ translator.i2e[map[k]] \in DOMAIN translator.e2i
          /\ translator.e2i[translator.i2e[map[k]]] = map[k]
      BY <1>6, <3>1 DEF AreInverse
    <3> QED
      BY <1>2, <1>4, <3>1, <3>2
  <2>2. \A e \in DOMAIN translator'.e2i : /\ translator'.e2i[e] \in 1 .. n
                                          /\ translator'.i2e[translator'.e2i[e]] = e
    <3> SUFFICES ASSUME NEW e \in DOMAIN translator.e2i
                 PROVE  /\ translator'.e2i[e] \in 1 .. n
                        /\ translator'.i2e[translator'.e2i[e]] = e
      BY <1>10
    <3>1. translator.e2i[e] \in Valid /\ translator.i2e[translator.e2i[e]] = e
      BY <1>6 DEF AreInverse, IsTranslator
    <3>2. translator'.e2i[e] = OldToNew(translator.e2i[e])
      BY <1>4
    <3> QED
      BY <1>2, <1>4, <3>1, <3>2
  <2> QED
    BY <1>8, <1>10, <2>1, <2>2 DEF TranslatorTracksValid, InSync, has_external
<1>13. NothingLeadsToEmpty'
  <2>1. GraphConsistent'
    BY <1>8 DEF GraphConsistent
  <2>2. EntryPointUsable'
    BY <1>2, <1>3 DEF EntryPointUsable
  <2> QED
    BY <2>1, <2>2 DEF NothingLeadsToEmpty
<1>14. IndexInv'
  <2>1. \A x \in Valid' : data'[x] \in Points
    BY <1>2, <1>3, <1>8 DEF IndexInv
  <2> QED
    BY <1>4, <1>11, <1>12, <1>13, <2>1 DEF IndexInv
<1>15. Store' = Store
  <2>1. Store' = [e \in DOMAIN translator.e2i |-> data'[translator'.e2i[e]]]
    BY <1>10 DEF Store
  <2>2. \A e \in DOMAIN translator.e2i : data'[translator'.e2i[e]] = data[translator.e2i[e]]
    <3> SUFFICES ASSUME NEW e \in DOMAIN translator.e2i
                 PROVE  data'[translator'.e2i[e]] = data[translator.e2i[e]]
      OBVIOUS
    <3>1. translator.e2i[e] \in Valid /\ translator'.e2i[e] = OldToNew(translator.e2i[e])
      BY <1>4, <1>6 DEF IsTranslator
    <3> QED
      BY <1>2, <1>3, <3>1
  <2> QED
    BY <2>1, <2>2 DEF Store
<1> QED
  BY <1>14, <1>15

\* The constructor establishes the invariant: a graph that the builder has made in two
\* passes links valid slots only.
LEMMA InitStep ==
  ASSUME Init
  PROVE  IndexInv /\ PS!Init
<1> DEFINE n == InitialSize
           all == [x \in 1 .. n |-> x]
<1>1. n \in Nat \ {0} /\ NoEntry \notin Nat /\ NoEntry \notin 1 .. n
  BY DynamicIndexAssumption
<1>2. /\ status = [x \in 1 .. n |-> "Valid"] /\ data \in [1 .. n -> Points]
      /\ entry_point \in 1 .. n
      /\ graph \in Built(n, entry_point)
  BY DEF Init
<1>3. Slots = 1 .. n /\ Valid = 1 .. n /\ With("Empty") = {}
  BY <1>2 DEF Slots, Valid, With
<1>4. IsGraph(graph, n)
  <2>1. PICK g \in Constructed([x \in 1 .. n |-> {}], entry_point, all) :
          graph \in Constructed(g, entry_point, all)
    BY <1>2 DEF Built
  <2>2. Len(all) \in Nat /\ \A k \in 1 .. Len(all) : all[k] \in 1 .. n
    BY <1>1
  <2> DEFINE none == [x \in 1 .. n |-> {}]
  <2>3. IsGraph(none, n) /\ Closed(none, 1 .. n) /\ 1 .. n \in SUBSET (1 .. n)
    BY DEF IsGraph, Closed
  <2>4. g \in Constructed(none, entry_point, all)
    BY <2>1
  <2> HIDE DEF all, none
  <2>5. IsGraph(g, n) /\ Closed(g, 1 .. n)
    BY <1>1, <1>2, <2>2, <2>3, <2>4, ConstructedKeeps
  <2> QED
    BY <1>1, <1>2, <2>1, <2>2, <2>3, <2>5, ConstructedKeeps
<1>5. PICK ids \in [1 .. n -> ExternalIds] :
        all_unique(ids) /\ translator = insert(EmptyTranslator, ids, all)
  BY DEF Init
<1>6. CanInsert(EmptyTranslator, ExternalIds, 1 .. n, {}, n, ids, all)
  <2>1. IsTranslator(EmptyTranslator, ExternalIds, {}) /\ AreInverse(EmptyTranslator)
    BY DEF IsTranslator, AreInverse, EmptyTranslator
  <2>2. InsertOK(EmptyTranslator, ids, all)
    BY <1>1, <1>5 DEF InsertOK, all_unique, check_external_free, check_internal_free,
                      has_external, has_internal, EmptyTranslator
  <2> QED
    BY <1>1, <2>1, <2>2 DEF CanInsert
<1>7. HasInserted(translator, EmptyTranslator, ExternalIds, 1 .. n, n, ids, all)
  BY <1>5, <1>6, InsertKeeps
<1>8. /\ DOMAIN translator = {"e2i", "i2e"}
      /\ IsTranslator(translator, ExternalIds, 1 .. n) /\ AreInverse(translator)
      /\ DOMAIN translator.i2e = 1 .. n
  <2>1. Elements(all) = 1 .. n /\ DOMAIN EmptyTranslator.i2e = {}
    BY DEF Elements, EmptyTranslator
  <2> QED
    BY <1>7, <2>1 DEF HasInserted
<1> HIDE DEF n, all
<1>9. TypeOK
  <2>1. status \in Seq({"Valid", "Deleted", "Empty"})
    BY <1>1, <1>2
  <2> QED
    BY <1>2, <1>3, <1>4, <1>8, <2>1 DEF TypeOK, IsTranslator, IsGraph
<1>10. TranslatorTracksValid
  BY <1>3, <1>8 DEF TranslatorTracksValid, InSync, AreInverse, IsTranslator, has_external
<1>11. NothingLeadsToEmpty
  <2>1. status[entry_point] = "Valid"
    BY <1>2
  <2> QED
    BY <1>3, <2>1 DEF NothingLeadsToEmpty, GraphConsistent, EntryPointUsable
<1>12. IndexInv
  <2>1. \A x \in Valid : data[x] \in Points
    BY <1>2, <1>3
  <2>2. translator = [e2i |-> translator.e2i, i2e |-> translator.i2e]
    BY <1>5 DEF insert
  <2> QED
    BY <1>9, <1>10, <1>11, <2>1, <2>2 DEF IndexInv
<1> QED
  BY <1>12, StoreIs DEF PS!Init

\* One call of remap_internal_id in compact, and the sequence of them.
Remap(t, k) ==
  IF new_to_old_id_map[k] = k THEN t ELSE remap_internal_id(t, new_to_old_id_map[k], k)

AreRemapped(f, N) ==
  f = [k \in 0 .. N |-> IF k = 0 THEN translator ELSE Remap(f[k - 1], k)]

\* The recursion of RemapsDoNotCollide has a solution.
LEMMA RemappedExists ==
  ASSUME NEW N \in Nat
  PROVE  \E f : AreRemapped(f, N)
<1> DEFINE Then(k, t) == Remap(t, k)
           Is(f, m) == f = [k \in 0 .. m |-> IF k = 0 THEN translator ELSE Then(k, f[k - 1])]
           P == {m \in Nat : \E f : Is(f, m)}
<1>1. 0 \in P
  <2> DEFINE f == [k \in 0 .. 0 |-> translator]
  <2>1. Is(f, 0)
    OBVIOUS
  <2> QED
    BY <2>1
<1>2. ASSUME NEW m \in P PROVE m + 1 \in P
  <2>1. PICK f : Is(f, m)
    OBVIOUS
  <2> HIDE DEF Then
  <2> DEFINE h == [k \in 0 .. m + 1 |-> IF k = m + 1 THEN Then(m + 1, f[m]) ELSE f[k]]
  <2>2. m \in Nat
    OBVIOUS
  <2>3. \A k \in 0 .. m : f[k] = IF k = 0 THEN translator ELSE Then(k, f[k - 1])
    BY <2>1
  <2>4. \A k \in 0 .. m : h[k] = f[k]
    BY <2>2
  <2>5. h[m + 1] = Then(m + 1, h[m])
    BY <2>2, <2>4
  <2>6. \A k \in 0 .. m + 1 : h[k] = IF k = 0 THEN translator ELSE Then(k, h[k - 1])
    <3> SUFFICES ASSUME NEW k \in 0 .. m + 1
                 PROVE  h[k] = IF k = 0 THEN translator ELSE Then(k, h[k - 1])
      OBVIOUS
    <3>1. CASE k = m + 1
      BY <2>2, <2>5, <3>1
    <3>2. CASE k # m + 1
      <4>1. k \in 0 .. m /\ (k # 0 => k - 1 \in 0 .. m)
        BY <2>2, <3>2
      <4>2. h[k] = f[k] /\ (k # 0 => h[k - 1] = f[k - 1])
        BY <2>4, <4>1
      <4> HIDE DEF h, Is
      <4> QED
        BY <2>3, <4>1, <4>2
    <3> QED
      BY <3>1, <3>2
  <2>7. DOMAIN h = 0 .. m + 1 /\ h = [k \in 0 .. m + 1 |-> h[k]]
    OBVIOUS
  <2>8. Is(h, m + 1)
    <3> HIDE DEF h
    <3> QED
      BY <2>6, <2>7
  <2> HIDE DEF h, Is
  <2> QED
    BY <2>2, <2>8
<1> HIDE DEF P
<1>3. N \in P
  BY <1>1, <1>2, SetInduction
<1> QED
  BY <1>3 DEF P, AreRemapped

\* The translator t when the first k points have been moved.
MovedUpTo(t, k) ==
  LET map == new_to_old_id_map
      n   == Len(map)
  IN  /\ t = [e2i |-> t.e2i, i2e |-> t.i2e]
      /\ t.e2i = [e \in DOMAIN translator.e2i |->
                    IF OldToNew(translator.e2i[e]) <= k THEN OldToNew(translator.e2i[e])
                    ELSE translator.e2i[e]]
      /\ t.i2e = [x \in DOMAIN t.i2e |-> t.i2e[x]]
      /\ DOMAIN t.i2e = (1 .. k) \cup {map[j] : j \in k + 1 .. n}
      /\ \A x \in 1 .. k : t.i2e[x] = translator.i2e[map[x]]
      /\ \A j \in k + 1 .. n : t.i2e[map[j]] = translator.i2e[map[j]]

\* compact never moves a point up.
LEMMA MapIsAbove ==
  ASSUME TypeOK, NEW k \in 1 .. Len(new_to_old_id_map)
  PROVE  new_to_old_id_map[k] \in Nat /\ new_to_old_id_map[k] >= k
<1> DEFINE map == new_to_old_id_map
           n == Len(map)
           P == {j \in Nat : j + 1 \in 1 .. n => map[j + 1] >= j + 1}
<1>1. /\ n \in Nat /\ map \in [1 .. n -> Valid]
      /\ \A i, j \in 1 .. n : i < j => map[i] < map[j]
  BY MovesTo
<1>2. \A j \in 1 .. n : map[j] \in Nat \ {0}
  BY <1>1, Sizes
<1> HIDE DEF map, n
<1>3. 0 \in P
  BY <1>2
<1>4. ASSUME NEW j \in P PROVE j + 1 \in P
  <2> SUFFICES ASSUME (j + 1) + 1 \in 1 .. n PROVE map[(j + 1) + 1] >= (j + 1) + 1
    OBVIOUS
  <2>1. j \in Nat /\ j + 1 \in 1 .. n /\ j + 1 < (j + 1) + 1
    BY <1>1
  <2>2. map[j + 1] >= j + 1
    BY <2>1
  <2>3. map[j + 1] < map[(j + 1) + 1]
    BY <1>1, <2>1
  <2>4. map[j + 1] \in Nat /\ map[(j + 1) + 1] \in Nat
    BY <1>2, <2>1
  <2> QED
    BY <2>1, <2>2, <2>3, <2>4
<1>5. k - 1 \in Nat /\ (k - 1) + 1 = k
  BY <1>1 DEF map, n
<1>6. k - 1 \in P
  <2> HIDE DEF P
  <2> QED
    BY <1>3, <1>4, <1>5, SetInduction
<1> QED
  BY <1>2, <1>5, <1>6 DEF map, n

\* The next call of remap_internal_id moves the next entry, and no other one: its new
\* slot is free.
LEMMA RemapMoves ==
  ASSUME IndexInv, NEW t, NEW k \in Nat, k + 1 <= Len(new_to_old_id_map), MovedUpTo(t, k)
  PROVE  MovedUpTo(Remap(t, k + 1), k + 1)
<1> DEFINE map == new_to_old_id_map
           n == Len(map)
           to == k + 1
           from == map[to]
           r == Remap(t, to)
<1>1. /\ TypeOK /\ Slots = 1 .. Len(status) /\ Valid \subseteq Slots /\ Len(status) \in Nat
  BY Sizes DEF IndexInv
<1>2. /\ n \in Nat /\ map \in [1 .. n -> Valid]
      /\ \A j \in 1 .. n : OldToNew(map[j]) = j
      /\ \A x \in Valid : OldToNew(x) \in 1 .. n /\ map[OldToNew(x)] = x
      /\ \A i, j \in 1 .. n : i < j => map[i] < map[j]
  BY <1>1, MovesTo
<1>3. \A j \in 1 .. n : map[j] \in Nat /\ map[j] >= j
  BY <1>1, MapIsAbove
<1>4. /\ IsTranslator(translator, ExternalIds, Valid) /\ AreInverse(translator)
      /\ DOMAIN translator.i2e = Valid
  BY Tracks
<1>5. /\ t = [e2i |-> t.e2i, i2e |-> t.i2e]
      /\ t.e2i = [e \in DOMAIN translator.e2i |->
                    IF OldToNew(translator.e2i[e]) <= k THEN OldToNew(translator.e2i[e])
                    ELSE translator.e2i[e]]
      /\ t.i2e = [x \in DOMAIN t.i2e |-> t.i2e[x]]
      /\ DOMAIN t.i2e = (1 .. k) \cup {map[j] : j \in k + 1 .. n}
      /\ \A x \in 1 .. k : t.i2e[x] = translator.i2e[map[x]]
      /\ \A j \in k + 1 .. n : t.i2e[map[j]] = translator.i2e[map[j]]
  BY DEF MovedUpTo
<1>6. to <= n /\ r = IF from = to THEN t ELSE remap_internal_id(t, from, to)
  BY DEF Remap
<1> HIDE DEF map, n, r
<1>7. to \in 1 .. n /\ from \in Valid /\ OldToNew(from) = to /\ from \in Nat /\ from >= to
  BY <1>2, <1>3, <1>6
<1>8. \A j \in to + 1 .. n : j \in 1 .. n /\ map[j] > from
  BY <1>2, <1>3, <1>6
<1>9. DOMAIN t.i2e = (1 .. k) \cup {from} \cup {map[j] : j \in to + 1 .. n}
  <2>1. \A j \in k + 1 .. n : j = to \/ j \in to + 1 .. n
    BY <1>2
  <2>2. to \in k + 1 .. n /\ \A j \in to + 1 .. n : j \in k + 1 .. n
    BY <1>2, <1>6
  <2>3. {map[j] : j \in k + 1 .. n} = {from} \cup {map[j] : j \in to + 1 .. n}
    BY <2>1, <2>2
  <2> QED
    BY <1>5, <2>3
<1> DEFINE external == translator.i2e[from]
<1>10. /\ t.i2e[from] = external /\ external \in DOMAIN translator.e2i
       /\ translator.e2i[external] = from
  <2>1. to \in k + 1 .. n
    BY <1>6, <1>7
  <2>2. t.i2e[from] = external
    BY <1>5, <2>1
  <2> QED
    BY <1>4, <1>7, <2>2 DEF AreInverse
<1> DEFINE e2i == [e \in DOMAIN translator.e2i |->
                     IF OldToNew(translator.e2i[e]) <= to THEN OldToNew(translator.e2i[e])
                     ELSE translator.e2i[e]]
           later == {map[j] : j \in to + 1 .. n}
<1>11. \A e \in DOMAIN translator.e2i :
         /\ translator.e2i[e] \in Valid /\ OldToNew(translator.e2i[e]) \in 1 .. n
         /\ OldToNew(translator.e2i[e]) = to <=> e = external
  <2> SUFFICES ASSUME NEW e \in DOMAIN translator.e2i
               PROVE  /\ translator.e2i[e] \in Valid /\ OldToNew(translator.e2i[e]) \in 1 .. n
                      /\ OldToNew(translator.e2i[e]) = to <=> e = external
    OBVIOUS
  <2>1. translator.e2i[e] \in Valid /\ translator.i2e[translator.e2i[e]] = e
    BY <1>4 DEF IsTranslator, AreInverse
  <2>2. OldToNew(translator.e2i[e]) \in 1 .. n /\ map[OldToNew(translator.e2i[e])] = translator.e2i[e]
    BY <1>2, <2>1
  <2> QED
    BY <1>7, <1>10, <2>1, <2>2
<1>12. \A e \in DOMAIN translator.e2i :
         e2i[e] = IF e = external THEN to ELSE t.e2i[e]
  <2> SUFFICES ASSUME NEW e \in DOMAIN translator.e2i
               PROVE  e2i[e] = IF e = external THEN to ELSE t.e2i[e]
    OBVIOUS
  <2>1. CASE e = external
    BY <1>11, <2>1
  <2>2. CASE e # external
    <3>1. OldToNew(translator.e2i[e]) \in Nat /\ OldToNew(translator.e2i[e]) # to
      BY <1>2, <1>11, <2>2
    <3>2. OldToNew(translator.e2i[e]) <= to <=> OldToNew(translator.e2i[e]) <= k
      BY <3>1
    <3> QED
      BY <1>5, <2>2, <3>2
  <2> QED
    BY <2>1, <2>2
<1>13. /\ r.e2i = [e \in DOMAIN translator.e2i |-> IF e = external THEN to ELSE t.e2i[e]]
       /\ r.i2e = [x \in (1 .. to) \cup later |-> IF x = to THEN external ELSE t.i2e[x]]
       /\ r = [e2i |-> r.e2i, i2e |-> r.i2e]
  <2>1. \A x \in later : x \in Nat /\ x > from
    BY <1>3, <1>8
  <2>2. (1 .. to) = (1 .. k) \cup {to}
    OBVIOUS
  <2> HIDE DEF later
  <2>3. CASE from = to
    <3>1. r = t
      BY <1>6, <2>3
    <3>2. t.e2i = [e \in DOMAIN translator.e2i |-> IF e = external THEN to ELSE t.e2i[e]]
      <4>1. t.e2i[external] = to
        BY <1>5, <1>7, <1>10, <2>3
      <4>2. DOMAIN t.e2i = DOMAIN translator.e2i /\ t.e2i = [e \in DOMAIN t.e2i |-> t.e2i[e]]
        BY <1>5
      <4> QED
        BY <4>1, <4>2
    <3>3. DOMAIN t.i2e = (1 .. to) \cup later
      BY <1>9, <2>2, <2>3 DEF later
    <3>4. t.i2e = [x \in (1 .. to) \cup later |-> IF x = to THEN external ELSE t.i2e[x]]
      BY <1>5, <1>10, <2>3, <3>3
    <3> QED
      BY <1>5, <3>1, <3>2, <3>4
  <2>4. CASE from # to
    <3> DEFINE rest == DOMAIN t.i2e \ {from}
    <3>1. r = [e2i |-> [t.e2i EXCEPT ![external] = to],
               i2e |-> [x \in rest \cup {to} |-> IF x \in rest THEN t.i2e[x] ELSE external]]
      BY <1>6, <1>10, <2>4 DEF remap_internal_id
    <3>2. rest = (1 .. k) \cup later /\ to \notin rest
      <4>1. from > to
        BY <1>7, <2>4
      <4>2. from \notin 1 .. k /\ from \notin later /\ to \notin later /\ to \notin 1 .. k
        BY <1>7, <2>1, <4>1
      <4>3. DOMAIN t.i2e = (1 .. k) \cup {from} \cup later
        BY <1>9 DEF later
      <4> QED
        BY <4>2, <4>3
    <3>3. rest \cup {to} = (1 .. to) \cup later
      BY <2>2, <3>2
    <3>4. r.i2e = [x \in (1 .. to) \cup later |-> IF x = to THEN external ELSE t.i2e[x]]
      <4> HIDE DEF rest
      <4>1. r.i2e = [x \in rest \cup {to} |-> IF x \in rest THEN t.i2e[x] ELSE external]
        BY <3>1
      <4>2. \A x \in rest \cup {to} : x \in rest <=> x # to
        BY <3>2
      <4> QED
        BY <3>3, <4>1, <4>2
    <3>5. r.e2i = [e \in DOMAIN translator.e2i |-> IF e = external THEN to ELSE t.e2i[e]]
      <4>1. r.e2i = [t.e2i EXCEPT ![external] = to] /\ DOMAIN t.e2i = DOMAIN translator.e2i
        BY <1>5, <3>1
      <4> QED
        BY <4>1
    <3>6. r = [e2i |-> r.e2i, i2e |-> r.i2e]
      BY <3>1
    <3> QED
      BY <3>4, <3>5, <3>6
  <2> QED
    BY <2>3, <2>4
<1>14. r.e2i = e2i
  <2>1. DOMAIN e2i = DOMAIN translator.e2i /\ e2i = [e \in DOMAIN translator.e2i |-> e2i[e]]
    OBVIOUS
  <2> HIDE DEF e2i
  <2> QED
    BY <1>12, <1>13, <2>1
<1>15. \A x \in 1 .. to : r.i2e[x] = translator.i2e[map[x]]
  <2> SUFFICES ASSUME NEW x \in 1 .. to PROVE r.i2e[x] = translator.i2e[map[x]]
    OBVIOUS
  <2>1. CASE x = to
    BY <1>13, <2>1
  <2>2. CASE x # to
    <3>1. x \in 1 .. k
      BY <2>2
    <3> QED
      BY <1>5, <1>13, <2>2, <3>1
  <2> QED
    BY <2>1, <2>2
<1>16. \A j \in to + 1 .. n : r.i2e[map[j]] = translator.i2e[map[j]]
  <2> SUFFICES ASSUME NEW j \in to + 1 .. n PROVE r.i2e[map[j]] = translator.i2e[map[j]]
    OBVIOUS
  <2>1. map[j] \in later /\ map[j] # to
    BY <1>3, <1>7, <1>8
  <2>2. j \in k + 1 .. n
    BY <1>2
  <2> HIDE DEF later
  <2> QED
    BY <1>5, <1>13, <2>1, <2>2
<1>17. DOMAIN r.i2e = (1 .. to) \cup later /\ r.i2e = [x \in DOMAIN r.i2e |-> r.i2e[x]]
  BY <1>13
<1>18. MovedUpTo(r, to)
  BY <1>13, <1>14, <1>15, <1>16, <1>17 DEF MovedUpTo, map, n
<1> QED
  BY <1>18 DEF r

\* In the invariant, remapping in place gives the translator that compact is to leave.
LEMMA RemapsAgree ==
  ASSUME IndexInv
  PROVE  RemapsDoNotCollide
<1> DEFINE map == new_to_old_id_map
           n == Len(map)
           remapped == CHOOSE f : AreRemapped(f, n)
           P == {k \in Nat : k <= n => MovedUpTo(remapped[k], k)}
<1>1. /\ TypeOK /\ Slots = 1 .. Len(status) /\ Valid \subseteq Slots /\ Len(status) \in Nat
  BY Sizes DEF IndexInv
<1>2. /\ n \in Nat /\ map \in [1 .. n -> Valid] /\ DOMAIN map = 1 .. n
      /\ \A x \in Valid : OldToNew(x) \in 1 .. n /\ map[OldToNew(x)] = x
  BY <1>1, MovesTo
<1>3. AreRemapped(remapped, n)
  BY <1>2, RemappedExists
<1>4. RemapsDoNotCollide <=> remapped[n] = CompactedTranslator
  BY DEF RemapsDoNotCollide, AreRemapped, Remap
<1> HIDE DEF remapped
<1>5. \A k \in 0 .. n :
        remapped[k] = IF k = 0 THEN translator ELSE Remap(remapped[k - 1], k)
  BY <1>3 DEF AreRemapped
<1>6. /\ IsTranslator(translator, ExternalIds, Valid) /\ DOMAIN translator.i2e = Valid
      /\ translator = [e2i |-> translator.e2i, i2e |-> translator.i2e]
  BY Tracks DEF IndexInv
<1> HIDE DEF map, n
<1>7. 0 \in P
  <2>1. remapped[0] = translator
    BY <1>2, <1>5
  <2>2. MovedUpTo(translator, 0)
    <3>1. \A e \in DOMAIN translator.e2i : ~(OldToNew(translator.e2i[e]) <= 0)
      BY <1>2, <1>6 DEF IsTranslator
    <3>2. translator.e2i = [e \in DOMAIN translator.e2i |->
                    IF OldToNew(translator.e2i[e]) <= 0 THEN OldToNew(translator.e2i[e])
                    ELSE translator.e2i[e]]
      BY <1>6, <3>1 DEF IsTranslator
    <3>3. DOMAIN translator.i2e = (1 .. 0) \cup {map[j] : j \in 0 + 1 .. n}
      BY <1>2, <1>6
    <3>4. translator.i2e = [x \in DOMAIN translator.i2e |-> translator.i2e[x]]
      BY <1>6 DEF IsTranslator
    <3> QED
      BY <1>6, <3>2, <3>3, <3>4 DEF MovedUpTo, map, n
  <2> QED
    BY <2>1, <2>2
<1>8. ASSUME NEW k \in P PROVE k + 1 \in P
  <2> SUFFICES ASSUME k + 1 <= n PROVE MovedUpTo(remapped[k + 1], k + 1)
    OBVIOUS
  <2>1. k \in Nat /\ MovedUpTo(remapped[k], k)
    BY <1>2
  <2>2. remapped[k + 1] = Remap(remapped[k], k + 1)
    BY <1>2, <1>5, <2>1
  <2> QED
    BY <2>1, <2>2, RemapMoves DEF map, n
<1> HIDE DEF P
<1>9. n \in P
  BY <1>2, <1>7, <1>8, SetInduction
<1>10. MovedUpTo(remapped[n], n)
  BY <1>2, <1>9 DEF P
<1> DEFINE t == remapped[n]
<1>11. /\ t = [e2i |-> t.e2i, i2e |-> t.i2e]
       /\ t.e2i = [e \in DOMAIN translator.e2i |->
                     IF OldToNew(translator.e2i[e]) <= n THEN OldToNew(translator.e2i[e])
                     ELSE translator.e2i[e]]
       /\ t.i2e = [x \in DOMAIN t.i2e |-> t.i2e[x]]
       /\ DOMAIN t.i2e = (1 .. n) \cup {map[j] : j \in n + 1 .. n}
       /\ \A x \in 1 .. n : t.i2e[x] = translator.i2e[map[x]]
  BY <1>10 DEF MovedUpTo, map, n
<1> HIDE DEF t
<1>12. DOMAIN t.i2e = 1 .. n
  BY <1>2, <1>11
<1>13. \A e \in DOMAIN translator.e2i : OldToNew(translator.e2i[e]) <= n
  BY <1>2, <1>6 DEF IsTranslator
<1>14. t.e2i = [e \in DOMAIN translator.e2i |-> OldToNew(translator.e2i[e])]
  BY <1>11, <1>13
<1>15. t.i2e = [k \in 1 .. n |-> translator.i2e[map[k]]]
  BY <1>11, <1>12
<1>16. t = CompactedTranslator
  BY <1>2, <1>11, <1>14, <1>15 DEF CompactedTranslator, map
<1> QED
  BY <1>4, <1>16 DEF t

-----------------------------------------------------------------------------
(* The theorems.                                                           *)

\* In the invariant, each call does to the store what it is for.
LEMMA CallsAgree ==
  ASSUME IndexInv
  PROVE  CallsDoTheirPart
<1>1. ASSUME NEW ids \in Requests, NEW points \in PointsFor(ids), AddPoints(ids, points)
      PROVE  PS!Add([e \in Elements(ids) |-> PartnerOf(e, ids, points)])
  BY <1>1, AddPointsStep DEF Given
<1>2. ASSUME NEW ids \in Requests, AddPointsRefused(ids) PROVE PS!Keep
  BY <1>2, AddPointsRefusedStep DEF PS!Keep
<1>3. ASSUME NEW ids \in Requests, all_unique(ids), DeleteEntries(ids)
      PROVE  PS!Delete(Elements(ids))
  BY <1>3, DeleteEntriesStep
<1>4. Consolidate => PS!Keep
  BY ConsolidateStep DEF PS!Keep
<1>5. With("Deleted") = {} /\ Compact => PS!Keep
  BY CompactStep DEF PS!Keep
<1> QED
  BY <1>1, <1>2, <1>3, <1>4, <1>5 DEF CallsDoTheirPart

\* Every call keeps the invariant, and is a step of PointStore or changes nothing of
\* the store.
LEMMA IndexStep ==
  ASSUME IndexInv, [Next]_vars
  PROVE  IndexInv' /\ [PS!Next]_Store
<1>1. ASSUME NEW ids \in Requests, NEW points \in PointsFor(ids), AddPoints(ids, points)
      PROVE  IndexInv' /\ [PS!Next]_Store
  BY <1>1, AddPointsStep DEF PS!Next
<1>2. ASSUME NEW ids \in Requests, AddPointsRefused(ids) PROVE IndexInv' /\ [PS!Next]_Store
  BY <1>2, AddPointsRefusedStep
<1>3. ASSUME NEW ids \in Requests, all_unique(ids), DeleteEntries(ids)
      PROVE  IndexInv' /\ [PS!Next]_Store
  <2>1. IndexInv' /\ PS!Delete(Elements(ids))
    BY <1>3, DeleteEntriesStep
  <2>2. Elements(ids) \in SUBSET ExternalIds
    BY DEF Requests, Elements
  <2> QED
    BY <2>1, <2>2 DEF PS!Next
<1>4. CASE Consolidate
  BY <1>4, ConsolidateStep
<1>5. CASE With("Deleted") = {} /\ Compact
  BY <1>5, CompactStep
<1>6. CASE UNCHANGED vars
  <2>1. Store' = Store
    BY <1>6 DEF vars, Store
  <2>2. IndexInv'
    BY <1>6 DEF vars, IndexInv, TypeOK, TranslatorTracksValid, InSync, NothingLeadsToEmpty,
      GraphConsistent, EntryPointUsable, Valid, With, Slots, has_external
  <2> QED
    BY <2>1, <2>2
<1> QED
  BY <1>1, <1>2, <1>3, <1>4, <1>5, <1>6 DEF Next

\* The index invariant holds in every state of MutableVamanaIndex (dynamic_index.h),
\* for any number of slots, ids, points and any graph degree.
THEOREM IndexInvariant == Spec => []IndexInv
<1>1. Init => IndexInv
  BY InitStep
<1>2. IndexInv /\ [Next]_vars => IndexInv'
  BY IndexStep
<1> QED
  BY <1>1, <1>2, PTL DEF Spec

\* The id translator and the slots in use stay in step through every sequence of
\* add_points, delete_entries, consolidate and compact, and compact's remapping in
\* place never overwrites an entry it still has to move.
THEOREM IdsStayInStep == Spec => []IdsInStep
<1>1. IndexInv => IdsInStep
  BY RemapsAgree DEF IndexInv, IdsInStep
<1> QED
  BY <1>1, IndexInvariant, PTL

\* No list of a slot in use, and not the entry point, ever leads a search to an empty
\* slot (debug_check_graph_consistency, dynamic_index.h).
THEOREM NeverLedToEmpty == Spec => []NothingLeadsToEmpty
<1>1. IndexInv => NothingLeadsToEmpty
  BY DEF IndexInv
<1> QED
  BY <1>1, IndexInvariant, PTL

\* Whatever way a search takes through the graph, each slot it finds and does not skip
\* as deleted has an external id: translate_to_external never fails.
THEOREM FoundIsKnown == Spec => []SearchFindsOnlyKnown
<1>1. ASSUME IndexInv PROVE SearchFindsOnlyKnown
  <2> SUFFICES ASSUME entry_point # NoEntry, NEW x \in Reachable(graph, entry_point),
                      status[x] # "Deleted"
               PROVE  has_internal(translator, x)
    BY DEF SearchFindsOnlyKnown
  <2>1. /\ TypeOK /\ Len(graph) \in Nat /\ IsGraph(graph, Len(status)) /\ Slots = 1 .. Len(status)
        /\ \A y \in Slots : status[y] \in {"Valid", "Deleted", "Empty"}
    BY <1>1, Sizes DEF IndexInv
  <2>2. entry_point \in NonEmpty
    BY <1>1 DEF IndexInv, TypeOK, NothingLeadsToEmpty, EntryPointUsable, NonEmpty, With
  <2>3. Closed(graph, NonEmpty)
    <3>1. \A y \in NonEmpty : graph[y] \subseteq Slots
      BY <2>1 DEF IsGraph, NonEmpty
    <3> QED
      BY <1>1, <3>1 DEF IndexInv, NothingLeadsToEmpty, GraphConsistent, Closed, NonEmpty
  <2>4. x \in NonEmpty
    BY <2>1, <2>2, <2>3, ReachClosed
  <2>5. x \in Valid
    BY <2>1, <2>4 DEF NonEmpty, Valid, With
  <2> QED
    BY <1>1, <2>5, Tracks DEF has_internal
<1> QED
  BY <1>1, IndexInvariant, PTL

\* The index implements the dictionary of PointStore, and each call does its part in it: an
\* add that succeeds stores the given points under the given ids, a delete removes the
\* given ids, and a refused add, a consolidation and a compaction leave what is stored as
\* it is (dynamic_index.h).
THEOREM StoresPoints == Spec => ImplementsPointStore
<1>1. Init => PS!Init
  BY InitStep
<1>2. IndexInv /\ [Next]_vars => [PS!Next]_Store
  BY IndexStep
<1>3. IndexInv => [CallsDoTheirPart]_vars
  BY CallsAgree
<1> QED
  BY <1>1, <1>2, <1>3, IndexInvariant, PTL DEF Spec, ImplementsPointStore, PS!Spec
=============================================================================
