------------------------- MODULE GreedySearchProofs -------------------------
(***************************************************************************)
(* A search with a bounded buffer and a lossy filter does what the search  *)
(* that remembers everything does, for graphs, distances, buffers and      *)
(* filters of any size.                                                    *)
(***************************************************************************)
EXTENDS GreedySearch, PartitionProofs, FiniteSetTheorems, FunctionTheorems

-----------------------------------------------------------------------------
(***************************************************************************)
(* How many neighbors of a sequence are valid.                             *)
(***************************************************************************)
Marked(c, i) == {j \in 1 .. i : c[j].valid}

Valids(c, i) == Cardinality(Marked(c, i))

LEMMA ValidsType ==
  ASSUME NEW c, NEW i \in Nat
  PROVE  IsFiniteSet(Marked(c, i)) /\ Valids(c, i) \in Nat
<1>1. IsFiniteSet(1 .. i)
  BY FS_Interval
<1>2. Marked(c, i) \subseteq 1 .. i
  BY DEF Marked
<1>3. IsFiniteSet(Marked(c, i))
  BY <1>1, <1>2, FS_Subset
<1> QED
  BY <1>3, FS_CardinalityType DEF Valids

LEMMA ValidsGrow ==
  ASSUME NEW c, NEW i \in Nat, NEW j \in Nat, i <= j
  PROVE  /\ Valids(c, i) <= Valids(c, j)
         /\ \A k \in i + 1 .. j : c[k].valid => Valids(c, i) < Valids(c, j)
<1>1. Marked(c, i) \subseteq Marked(c, j)
  BY DEF Marked
<1>2. Valids(c, i) <= Valids(c, j) /\ Valids(c, i) \in Nat /\ Valids(c, j) \in Nat
  BY <1>1, ValidsType, FS_Subset DEF Valids
<1>3. ASSUME NEW k \in i + 1 .. j, c[k].valid PROVE Valids(c, i) < Valids(c, j)
  <2>1. k \in Marked(c, j) /\ k \notin Marked(c, i)
    BY <1>3 DEF Marked
  <2>2. Valids(c, i) # Valids(c, j)
    BY <1>1, <2>1, ValidsType, FS_Subset DEF Valids
  <2> QED
    BY <1>2, <2>2
<1> QED
  BY <1>2, <1>3

LEMMA ValidsStep ==
  ASSUME NEW c, NEW i \in Nat
  PROVE  /\ Valids(c, 0) = 0
         /\ c[i + 1].valid => Valids(c, i + 1) = Valids(c, i) + 1
         /\ ~c[i + 1].valid => Valids(c, i + 1) = Valids(c, i)
<1>1. Valids(c, 0) = 0
  <2>1. Marked(c, 0) = {}
    BY DEF Marked
  <2> QED
    BY <2>1, FS_EmptySet DEF Valids
<1>2. ASSUME c[i + 1].valid PROVE Valids(c, i + 1) = Valids(c, i) + 1
  <2>1. Marked(c, i + 1) = Marked(c, i) \cup {i + 1} /\ i + 1 \notin Marked(c, i)
    BY <1>2 DEF Marked
  <2> QED
    BY <2>1, ValidsType, FS_AddElement DEF Valids
<1>3. ASSUME ~c[i + 1].valid PROVE Valids(c, i + 1) = Valids(c, i)
  <2>1. Marked(c, i + 1) = Marked(c, i)
    BY <1>3 DEF Marked
  <2> QED
    BY <2>1 DEF Valids
<1> QED
  BY <1>1, <1>2, <1>3

\* The count looks at nothing but the valid ones up to i.
LEMMA ValidsSame ==
  ASSUME NEW c, NEW e, NEW i \in Nat, \A j \in 1 .. i : c[j].valid <=> e[j].valid
  PROVE  Valids(c, i) = Valids(e, i)
<1>1. Marked(c, i) = Marked(e, i)
  BY DEF Marked
<1> QED
  BY <1>1 DEF Valids

\* The position of a valid neighbor is known by how many there are up to it.
LEMMA ValidsPlace ==
  ASSUME NEW c, NEW i \in Nat, NEW j \in Nat, c[i].valid, c[j].valid, i >= 1, j >= 1,
         Valids(c, i) = Valids(c, j)
  PROVE  i = j
<1>1. CASE i < j
  BY <1>1, ValidsGrow, ValidsType
<1>2. CASE j < i
  BY <1>2, ValidsGrow, ValidsType
<1> QED
  BY <1>1, <1>2

\* e is c with n put behind the first p.
Inserted(c, len, p, n, e) ==
  /\ \A i \in 1 .. p : e[i] = c[i]
  /\ e[p + 1] = n
  /\ \A i \in p + 1 .. len : e[i + 1] = c[i]

LEMMA ValidsInsert ==
  ASSUME NEW c, NEW len \in Nat, NEW p \in 0 .. len, NEW n, NEW e, Inserted(c, len, p, n, e)
  PROVE  /\ \A i \in 0 .. p : Valids(e, i) = Valids(c, i)
         /\ n.valid => \A i \in p .. len : Valids(e, i + 1) = Valids(c, i) + 1
         /\ ~n.valid => \A i \in p .. len : Valids(e, i + 1) = Valids(c, i)
<1> USE DEF Inserted
<1>1. ASSUME NEW i \in 0 .. p PROVE Valids(e, i) = Valids(c, i)
  BY ValidsSame
<1> DEFINE more == IF n.valid THEN 1 ELSE 0
           P == {i \in Nat : i < p \/ i > len \/ Valids(e, i + 1) = Valids(c, i) + more}
<1>2. more \in Nat
  OBVIOUS
<1>3. Valids(e, p + 1) = Valids(c, p) + more
  <2>1. Valids(e, p) = Valids(c, p) /\ Valids(c, p) \in Nat /\ p \in Nat
    BY <1>1, ValidsType
  <2>2. e[p + 1] = n
    OBVIOUS
  <2> QED
    BY <2>1, <2>2, ValidsStep
<1>4. 0 \in P
  BY <1>3
<1>5. ASSUME NEW i \in P PROVE i + 1 \in P
  <2>1. i \in Nat /\ i + 1 \in Nat
    OBVIOUS
  <2>2. CASE i < p
    <3>1. i + 1 < p \/ i + 1 = p
      BY <2>2
    <3> QED
      BY <3>1, <1>3
  <2>3. CASE i + 1 > len
    BY <2>3
  <2>4. CASE i >= p /\ i + 1 <= len
    <3>1. Valids(e, i + 1) = Valids(c, i) + more
      BY <2>1, <2>4
    <3>2. e[i + 1 + 1] = c[i + 1]
      BY <2>1, <2>4
    <3>3. Valids(c, i) \in Nat /\ Valids(e, i + 1) \in Nat
      BY <2>1, ValidsType
    <3>4. CASE c[i + 1].valid
      <4>1. Valids(c, i + 1) = Valids(c, i) + 1
        BY <2>1, <3>4, ValidsStep
      <4>2. Valids(e, i + 1 + 1) = Valids(e, i + 1) + 1
        BY <2>1, <3>2, <3>4, ValidsStep
      <4> HIDE DEF more
      <4> QED
        BY <1>2, <2>1, <3>1, <3>3, <4>1, <4>2
    <3>5. CASE ~c[i + 1].valid
      <4>1. Valids(c, i + 1) = Valids(c, i)
        BY <2>1, <3>5, ValidsStep
      <4>2. Valids(e, i + 1 + 1) = Valids(e, i + 1)
        BY <2>1, <3>2, <3>5, ValidsStep
      <4> HIDE DEF more
      <4> QED
        BY <1>2, <2>1, <3>1, <3>3, <4>1, <4>2
    <3> QED
      BY <3>4, <3>5
  <2> QED
    BY <2>1, <2>2, <2>3, <2>4
<1> HIDE DEF P
<1>6. \A i \in Nat : i \in P
  BY <1>4, <1>5, SetInduction
<1>7. \A i \in p .. len : i \in Nat /\ Valids(e, i + 1) = Valids(c, i) + more
  BY <1>6 DEF P
<1>8. (n.valid => more = 1) /\ (~n.valid => more = 0)
  OBVIOUS
<1>9. \A i \in p .. len : Valids(c, i) \in Nat
  BY ValidsType
<1> HIDE DEF Inserted, more
<1>10. n.valid => \A i \in p .. len : Valids(e, i + 1) = Valids(c, i) + 1
  BY <1>7, <1>8
<1>11. ~n.valid => \A i \in p .. len : Valids(e, i + 1) = Valids(c, i)
  BY <1>7, <1>8, <1>9
<1> QED
  BY <1>1, <1>10, <1>11

-----------------------------------------------------------------------------
(***************************************************************************)
(* Which of two nodes is nearer, given their distances d and the order s   *)
(* in which they were met.                                                 *)
(***************************************************************************)
NodesOf(s) == {s[i] : i \in DOMAIN s}

Early(s, x, y) == \E i, j \in DOMAIN s : i < j /\ s[i] = x /\ s[j] = y

Closer(d, s, x, y) == d[x] < d[y] \/ (d[x] = d[y] /\ Early(s, x, y))

\* Every node has a distance, and none is met twice.
Ordered(N, d, s) ==
  /\ d \in [N -> Nat] /\ s \in Seq(N)
  /\ \A i, j \in DOMAIN s : s[i] = s[j] => i = j

LEMMA EarlyIsOrder ==
  ASSUME NEW N, NEW s \in Seq(N), \A i, j \in DOMAIN s : s[i] = s[j] => i = j
  PROVE  /\ \A x : ~Early(s, x, x)
         /\ \A x, y : Early(s, x, y) => ~Early(s, y, x)
         /\ \A x, y, z : Early(s, x, y) /\ Early(s, y, z) => Early(s, x, z)
         /\ \A x, y \in NodesOf(s) : x # y => Early(s, x, y) \/ Early(s, y, x)
<1>1. DOMAIN s = 1 .. Len(s) /\ Len(s) \in Nat
  OBVIOUS
<1> QED
  BY <1>1 DEF Early, NodesOf

LEMMA CloserIsOrder ==
  ASSUME NEW N, NEW d, NEW s, Ordered(N, d, s)
  PROVE  /\ NodesOf(s) \subseteq N
         /\ \A x \in N : ~Closer(d, s, x, x)
         /\ \A x, y \in N : Closer(d, s, x, y) => ~Closer(d, s, y, x)
         /\ \A x, y, z \in N : Closer(d, s, x, y) /\ Closer(d, s, y, z) => Closer(d, s, x, z)
         /\ \A x, y \in NodesOf(s) : x # y => Closer(d, s, x, y) \/ Closer(d, s, y, x)
<1>1. s \in Seq(N) /\ \A x \in N : d[x] \in Nat
  BY DEF Ordered
<1>2. /\ \A x : ~Early(s, x, x)
      /\ \A x, y : Early(s, x, y) => ~Early(s, y, x)
      /\ \A x, y, z : Early(s, x, y) /\ Early(s, y, z) => Early(s, x, z)
      /\ \A x, y \in NodesOf(s) : x # y => Early(s, x, y) \/ Early(s, y, x)
  BY EarlyIsOrder DEF Ordered
<1>3. NodesOf(s) \subseteq N
  BY <1>1 DEF NodesOf
<1>4. \A x \in N : ~Closer(d, s, x, x)
  BY <1>1, <1>2 DEF Closer
<1>5. \A x, y \in N : Closer(d, s, x, y) => ~Closer(d, s, y, x)
  BY <1>1, <1>2 DEF Closer
<1>6. \A x, y, z \in N : Closer(d, s, x, y) /\ Closer(d, s, y, z) => Closer(d, s, x, z)
  BY <1>1, <1>2 DEF Closer
<1>7. \A x, y \in NodesOf(s) : x # y => Closer(d, s, x, y) \/ Closer(d, s, y, x)
  BY <1>1, <1>2, <1>3 DEF Closer
<1> QED
  BY <1>3, <1>4, <1>5, <1>6, <1>7

\* What stays and what is new when x is met.
Met(N, d, s, x, t) ==
  /\ Ordered(N, d, t) /\ NodesOf(t) = NodesOf(s) \cup {x}
  /\ \A y, z \in NodesOf(s) : Closer(d, s, y, z) => Closer(d, t, y, z)
  /\ \A y \in NodesOf(s) : d[y] <= d[x] => Closer(d, t, y, x)
  /\ \A y \in NodesOf(s) : d[x] < d[y] => Closer(d, t, x, y)

LEMMA MetLast ==
  ASSUME NEW N, NEW d, NEW s, Ordered(N, d, s), NEW x \in N, x \notin NodesOf(s)
  PROVE  Met(N, d, s, x, Append(s, x))
<1> DEFINE t == Append(s, x)
<1>1. /\ s \in Seq(N) /\ t \in Seq(N) /\ d \in [N -> Nat] /\ Len(s) \in Nat
      /\ DOMAIN s = 1 .. Len(s) /\ DOMAIN t = 1 .. Len(s) + 1
      /\ \A i \in 1 .. Len(s) : t[i] = s[i]
      /\ t[Len(s) + 1] = x
  BY DEF Ordered
<1> HIDE DEF t
<1>2. \A i \in 1 .. Len(s) : s[i] # x
  BY <1>1 DEF NodesOf
<1>3. Ordered(N, d, t)
  <2> SUFFICES ASSUME NEW i \in 1 .. Len(s) + 1, NEW j \in 1 .. Len(s) + 1, t[i] = t[j]
               PROVE  i = j
    BY <1>1 DEF Ordered
  <2>1. CASE i = Len(s) + 1 \/ j = Len(s) + 1
    BY <1>1, <1>2, <2>1
  <2>2. CASE i \in 1 .. Len(s) /\ j \in 1 .. Len(s)
    BY <1>1, <2>2 DEF Ordered
  <2> QED
    BY <1>1, <2>1, <2>2
<1>4. NodesOf(t) = NodesOf(s) \cup {x}
  BY <1>1 DEF NodesOf
<1>5. \A y, z : Early(s, y, z) => Early(t, y, z)
  BY <1>1 DEF Early
<1>6. ASSUME NEW y \in NodesOf(s) PROVE Early(t, y, x)
  <2>1. PICK i \in 1 .. Len(s) : s[i] = y
    BY <1>1 DEF NodesOf
  <2>2. i \in DOMAIN t /\ Len(s) + 1 \in DOMAIN t /\ i < Len(s) + 1 /\ t[i] = y
    BY <1>1, <2>1
  <2> QED
    BY <1>1, <2>2 DEF Early
<1>7. \A y \in NodesOf(s) : d[y] \in Nat /\ d[x] \in Nat
  BY <1>1 DEF NodesOf
<1>8. Met(N, d, s, x, t)
  BY <1>3, <1>4, <1>5, <1>6, <1>7 DEF Closer, Met
<1> QED
  BY <1>8 DEF t

-----------------------------------------------------------------------------
(***************************************************************************)
(* What either buffer is: a sequence c of candidates with v valid ones, of *)
(* which at most cap are kept, after the nodes s have been met and those   *)
(* of e expanded.  D are the deleted nodes.                                *)
(***************************************************************************)
Candidates(N) == [id : N, dist : Nat, visited : BOOLEAN, valid : BOOLEAN]

Known(N, D, d, s, e, c) ==
  /\ c \in Seq(Candidates(N))
  /\ \A i \in 1 .. Len(c) :
       /\ c[i].id \in NodesOf(s) /\ c[i].dist = d[c[i].id]
       /\ c[i].valid <=> c[i].id \notin D
       /\ c[i].visited <=> c[i].id \in e

InOrder(d, s, c) ==
  \A i, j \in 1 .. Len(c) : i < j => Closer(d, s, c[i].id, c[j].id)

\* A full buffer ends with a valid candidate.
Limited(cap, c, v) ==
  v = Valids(c, Len(c)) /\ v <= cap /\ (v = cap => Len(c) \in Nat \ {0} /\ c[Len(c)].valid)

\* What is not held is farther than all the buffer holds, and the buffer is full.
Complete(d, s, cap, c, v) ==
  \A x \in NodesOf(s) :
    (\E i \in 1 .. Len(c) : c[i].id = x) \/ (v = cap /\ Closer(d, s, c[Len(c)].id, x))

Holds(N, D, d, s, e, cap, c, v) ==
  /\ Known(N, D, d, s, e, c) /\ InOrder(d, s, c)
  /\ Limited(cap, c, v) /\ Complete(d, s, cap, c, v)

\* The first tgt valid candidates end at ends, if there are as many.
EndsAt(tgt, c, v, ends) ==
  IF v < tgt THEN ends = Len(c)
  ELSE ends \in 1 .. Len(c) /\ Valids(c, ends) = tgt /\ c[ends].valid

\* Candidate best + 1 is the first that is still to be expanded.
CursorAt(c, ends, best) ==
  /\ best \in 0 .. ends
  /\ \A i \in 1 .. best : c[i].visited
  /\ best < ends => ~c[best + 1].visited

\* Candidate n, not visited, and its place p in c, behind all as near.
Newcomer(N, D, d, n) ==
  n \in Candidates(N) /\ n.dist = d[n.id] /\ (n.valid <=> n.id \notin D) /\ ~n.visited

PlaceOf(c, n, p) ==
  /\ p \in 0 .. Len(c)
  /\ \A i \in 1 .. p : c[i].dist <= n.dist
  /\ \A i \in p + 1 .. Len(c) : n.dist < c[i].dist

\* g is f up to its cap-th valid candidate, if it has as many.
CutAt(cap, f, g) ==
  /\ Len(g) \in 1 .. Len(f)
  /\ \A i \in 1 .. Len(g) : g[i] = f[i]
  /\ IF Valids(f, Len(f)) < cap THEN Len(g) = Len(f)
     ELSE Valids(f, Len(g)) = cap /\ f[Len(g)].valid

Kept(cap, f) == IF Valids(f, Len(f)) < cap THEN Valids(f, Len(f)) ELSE cap

\* How a candidate that was not met before goes into the buffer.
Goes(N, D, d, s, e, cap, c, v, n, p, f, g) ==
  /\ Ordered(N, d, s) /\ Holds(N, D, d, s, e, cap, c, v)
  /\ Newcomer(N, D, d, n) /\ n.id \notin NodesOf(s) /\ n.id \notin e /\ PlaceOf(c, n, p)
  /\ f \in Seq(Candidates(N)) /\ Len(f) = Len(c) + 1 /\ Inserted(c, Len(c), p, n, f)
  /\ g \in Seq(Candidates(N)) /\ CutAt(cap, f, g)

LEMMA InsertIsKnown ==
  ASSUME NEW N, NEW D, NEW d, NEW s, NEW e, NEW cap, NEW c, NEW v, NEW n, NEW p,
         NEW f, NEW g, Goes(N, D, d, s, e, cap, c, v, n, p, f, g)
  PROVE  Known(N, D, d, Append(s, n.id), e, f) /\ InOrder(d, Append(s, n.id), f)
<1> DEFINE t == Append(s, n.id)
<1>0. /\ Ordered(N, d, s) /\ Known(N, D, d, s, e, c) /\ InOrder(d, s, c)
      /\ Newcomer(N, D, d, n) /\ n.id \notin NodesOf(s) /\ n.id \notin e /\ PlaceOf(c, n, p)
      /\ f \in Seq(Candidates(N)) /\ Len(f) = Len(c) + 1 /\ Inserted(c, Len(c), p, n, f)
  BY DEF Goes, Holds
<1>1. /\ Ordered(N, d, t) /\ NodesOf(t) = NodesOf(s) \cup {n.id}
      /\ \A y, z \in NodesOf(s) : Closer(d, s, y, z) => Closer(d, t, y, z)
      /\ \A y \in NodesOf(s) : d[y] <= d[n.id] => Closer(d, t, y, n.id)
      /\ \A y \in NodesOf(s) : d[n.id] < d[y] => Closer(d, t, n.id, y)
  <2>1. n.id \in N
    BY <1>0 DEF Newcomer, Candidates
  <2>2. Met(N, d, s, n.id, t)
    BY <1>0, <2>1, MetLast
  <2> QED
    BY <2>2 DEF Met
<1>2. Len(c) \in Nat /\ p \in 0 .. Len(c)
  BY <1>0 DEF Known, PlaceOf
<1> HIDE DEF t
<1>3. \A i \in 1 .. Len(f) :
        \/ i <= p /\ i \in 1 .. Len(c) /\ f[i] = c[i]
        \/ i = p + 1 /\ f[i] = n
        \/ i > p + 1 /\ i - 1 \in p + 1 .. Len(c) /\ f[i] = c[i - 1]
  <2> SUFFICES ASSUME NEW i \in 1 .. Len(f), i > p + 1
               PROVE  i - 1 \in p + 1 .. Len(c) /\ f[i] = c[i - 1]
    BY <1>0, <1>2 DEF Inserted
  <2>1. i - 1 \in p + 1 .. Len(c) /\ i - 1 + 1 = i
    BY <1>0, <1>2
  <2> QED
    BY <1>0, <2>1 DEF Inserted
<1>4. Known(N, D, d, t, e, f)
  <2> SUFFICES ASSUME NEW i \in 1 .. Len(f)
               PROVE  /\ f[i].id \in NodesOf(t) /\ f[i].dist = d[f[i].id]
                      /\ f[i].valid <=> f[i].id \notin D
                      /\ f[i].visited <=> f[i].id \in e
    BY <1>0 DEF Known
  <2>1. CASE f[i] = n
    BY <1>0, <1>1, <2>1 DEF Newcomer
  <2>2. CASE \E j \in 1 .. Len(c) : f[i] = c[j]
    BY <1>0, <1>1, <2>2 DEF Known
  <2> QED
    BY <1>0, <1>2, <1>3, <2>1, <2>2
<1>5. InOrder(d, t, f)
  <2> SUFFICES ASSUME NEW i \in 1 .. Len(f), NEW j \in 1 .. Len(f), i < j
               PROVE  Closer(d, t, f[i].id, f[j].id)
    BY DEF InOrder
  <2>1. \A k \in 1 .. Len(c) : c[k].id \in NodesOf(s) /\ c[k].dist = d[c[k].id]
    BY <1>0 DEF Known
  <2>2. \A k, l \in 1 .. Len(c) : k < l => Closer(d, t, c[k].id, c[l].id)
    BY <1>0, <1>1, <2>1 DEF InOrder
  <2>3. \A k \in 1 .. p : Closer(d, t, c[k].id, n.id)
    BY <1>0, <1>1, <1>2, <2>1 DEF PlaceOf, Newcomer
  <2>4. \A k \in p + 1 .. Len(c) : Closer(d, t, n.id, c[k].id)
    BY <1>0, <1>1, <1>2, <2>1 DEF PlaceOf, Newcomer
  <2>5. CASE i <= p
    <3>1. f[i] = c[i] /\ i \in 1 .. p /\ i \in 1 .. Len(c)
      BY <1>0, <1>2, <1>3, <2>5
    <3>2. CASE j <= p
      BY <1>0, <1>2, <1>3, <2>2, <3>1, <3>2
    <3>3. CASE j = p + 1
      BY <1>0, <1>2, <1>3, <2>3, <3>1, <3>3
    <3>4. CASE j > p + 1
      <4>1. f[j] = c[j - 1] /\ j - 1 \in 1 .. Len(c) /\ i < j - 1
        BY <1>0, <1>2, <1>3, <3>1, <3>4
      <4> QED
        BY <2>2, <3>1, <4>1
    <3> QED
      BY <1>0, <1>2, <3>2, <3>3, <3>4
  <2>6. CASE i > p
    <3>1. f[j] = c[j - 1] /\ j - 1 \in p + 1 .. Len(c) /\ j - 1 \in 1 .. Len(c)
      BY <1>0, <1>2, <1>3, <2>6
    <3>2. CASE i = p + 1
      BY <1>0, <1>2, <1>3, <2>4, <3>1, <3>2
    <3>3. CASE i > p + 1
      <4>1. f[i] = c[i - 1] /\ i - 1 \in 1 .. Len(c) /\ i - 1 < j - 1
        BY <1>0, <1>2, <1>3, <3>1, <3>3
      <4> QED
        BY <2>2, <3>1, <4>1
    <3> QED
      BY <1>0, <1>2, <2>6, <3>2, <3>3
  <2> QED
    BY <1>0, <1>2, <2>5, <2>6
<1> QED
  BY <1>4, <1>5 DEF t

LEMMA InsertIsLimited ==
  ASSUME NEW f, NEW g, NEW cap \in Nat \ {0}, CutAt(cap, f, g), Len(f) \in Nat
  PROVE  Limited(cap, g, Kept(cap, f))
<1>1. Len(g) \in Nat \ {0}
  BY DEF CutAt
<1>2. Valids(g, Len(g)) = Valids(f, Len(g))
  BY <1>1, ValidsSame DEF CutAt
<1>3. Valids(f, Len(f)) \in Nat
  BY ValidsType
<1> QED
  BY <1>1, <1>2, <1>3 DEF CutAt, Limited, Kept

LEMMA CutKeeps ==
  ASSUME NEW N, NEW D, NEW d, NEW t, NEW e, NEW f, NEW g, NEW cap,
         Known(N, D, d, t, e, f), InOrder(d, t, f), CutAt(cap, f, g), g \in Seq(Candidates(N))
  PROVE  Known(N, D, d, t, e, g) /\ InOrder(d, t, g)
<1>1. Len(g) \in Nat /\ Len(f) \in Nat /\ Len(g) <= Len(f) /\ \A i \in 1 .. Len(g) : g[i] = f[i]
  BY DEF CutAt, Known
<1>2. Known(N, D, d, t, e, g)
  BY <1>1 DEF Known
<1>3. InOrder(d, t, g)
  BY <1>1 DEF InOrder
<1> QED
  BY <1>2, <1>3

LEMMA InsertIsComplete ==
  ASSUME NEW N, NEW D, NEW d, NEW s, NEW e, NEW c, NEW v, NEW n, NEW p, NEW f, NEW g, NEW t,
         NEW cap \in Nat \ {0},
         Ordered(N, d, s), Holds(N, D, d, s, e, cap, c, v),
         Newcomer(N, D, d, n), n.id \notin NodesOf(s), PlaceOf(c, n, p),
         Len(f) = Len(c) + 1, Inserted(c, Len(c), p, n, f), t = Append(s, n.id),
         Known(N, D, d, t, e, f), InOrder(d, t, f), CutAt(cap, f, g)
  PROVE  Complete(d, t, cap, g, Kept(cap, f))
<1> USE DEF Holds
<1>1. /\ Ordered(N, d, t) /\ NodesOf(t) = NodesOf(s) \cup {n.id}
      /\ \A y, z \in NodesOf(s) : Closer(d, s, y, z) => Closer(d, t, y, z)
  <2>1. n.id \in N
    BY DEF Newcomer, Candidates
  <2>2. Met(N, d, s, n.id, t)
    BY <2>1, MetLast
  <2> QED
    BY <2>2 DEF Met
<1>2. /\ Len(c) \in Nat /\ p \in 0 .. Len(c) /\ Len(f) = Len(c) + 1
      /\ Len(g) \in 1 .. Len(f) /\ \A i \in 1 .. Len(g) : g[i] = f[i]
  BY DEF Known, PlaceOf, CutAt
<1>3. /\ \A i \in 1 .. p : f[i] = c[i]
      /\ f[p + 1] = n
      /\ \A i \in p + 1 .. Len(c) : f[i + 1] = c[i]
  BY DEF Inserted
<1>4. \A i \in 1 .. Len(c) : \E j \in 1 .. Len(f) : f[j] = c[i]
  <2> TAKE i \in 1 .. Len(c)
  <2>1. CASE i <= p
    BY <1>2, <1>3, <2>1
  <2>2. CASE i > p
    <3>1. i + 1 \in 1 .. Len(f) /\ f[i + 1] = c[i]
      BY <1>2, <1>3, <2>2
    <3> QED
      BY <3>1
  <2> QED
    BY <1>2, <2>1, <2>2
\* A candidate that is cut off.
<1>5. ASSUME NEW i \in 1 .. Len(f), i > Len(g)
      PROVE  Kept(cap, f) = cap /\ Closer(d, t, g[Len(g)].id, f[i].id)
  <2>1. Kept(cap, f) = cap
    BY <1>2, <1>5 DEF CutAt, Kept
  <2>2. Closer(d, t, f[Len(g)].id, f[i].id)
    BY <1>2, <1>5 DEF InOrder
  <2> QED
    BY <1>2, <2>1, <2>2
<1>6. ASSUME NEW i \in 1 .. Len(f)
      PROVE  \/ \E j \in 1 .. Len(g) : g[j].id = f[i].id
             \/ Kept(cap, f) = cap /\ Closer(d, t, g[Len(g)].id, f[i].id)
  <2>1. CASE i \in 1 .. Len(g)
    BY <1>2, <2>1
  <2>2. CASE i > Len(g)
    BY <1>5, <2>2
  <2> QED
    BY <1>2, <2>1, <2>2
\* A node that was not held before.
<1>7. ASSUME NEW x \in NodesOf(s), v = cap, Closer(d, s, c[Len(c)].id, x)
      PROVE  Kept(cap, f) = cap /\ Closer(d, t, g[Len(g)].id, x)
  <2>1. Len(c) \in Nat \ {0} /\ Valids(c, Len(c)) = cap
    BY <1>7 DEF Limited
  <2>2. /\ n.valid => Valids(f, Len(c) + 1) = cap + 1
        /\ ~n.valid => Valids(f, Len(c) + 1) = cap
    BY <1>2, <2>1, ValidsInsert
  <2>3. Kept(cap, f) = cap /\ Valids(f, Len(g)) = cap /\ f[Len(g)].valid
    BY <1>2, <2>2 DEF CutAt, Kept
  <2>4. c[Len(c)].id \in NodesOf(s) /\ Closer(d, t, c[Len(c)].id, x)
    BY <1>1, <1>7, <2>1 DEF Known
  <2>5. f[Len(g)].id = c[Len(c)].id \/ Closer(d, t, f[Len(g)].id, c[Len(c)].id)
    <3>1. CASE p < Len(c)
      <4>1. f[Len(c) + 1] = c[Len(c)]
        BY <1>2, <1>3, <3>1
      <4> QED
        BY <1>2, <4>1 DEF InOrder
    <3>2. CASE p = Len(c)
      <4>1. f[Len(c)] = c[Len(c)] /\ f[Len(c) + 1] = n
        BY <1>2, <1>3, <2>1, <3>2
      <4>2. Len(g) # Len(c) + 1
        BY <2>2, <2>3, <4>1
      <4> QED
        BY <1>2, <4>1, <4>2 DEF InOrder
    <3> QED
      BY <1>2, <3>1, <3>2
  <2>6. f[Len(g)].id \in N /\ c[Len(c)].id \in N /\ x \in N
    BY <1>1, <1>2, <2>4, CloserIsOrder DEF Known
  <2>7. Closer(d, t, f[Len(g)].id, x)
    BY <1>1, <2>4, <2>5, <2>6, CloserIsOrder
  <2> QED
    BY <1>2, <2>3, <2>7
<1> SUFFICES ASSUME NEW x \in NodesOf(t)
             PROVE  \/ \E i \in 1 .. Len(g) : g[i].id = x
                    \/ Kept(cap, f) = cap /\ Closer(d, t, g[Len(g)].id, x)
  BY DEF Complete
<1>8. CASE x = n.id
  <2>1. p + 1 \in 1 .. Len(f) /\ f[p + 1].id = x
    BY <1>2, <1>3, <1>8
  <2> QED
    BY <1>6, <2>1
<1>9. CASE x \in NodesOf(s) /\ \E i \in 1 .. Len(c) : c[i].id = x
  <2>1. PICK i \in 1 .. Len(f) : f[i].id = x
    BY <1>4, <1>9
  <2> QED
    BY <1>6, <2>1
<1>10. CASE x \in NodesOf(s) /\ v = cap /\ Closer(d, s, c[Len(c)].id, x)
  BY <1>7, <1>10
<1> QED
  BY <1>1, <1>8, <1>9, <1>10 DEF Complete

LEMMA InsertHolds ==
  ASSUME NEW N, NEW D, NEW d, NEW s, NEW e, NEW cap \in Nat \ {0}, NEW c, NEW v, NEW n, NEW p,
         NEW f, NEW g, Goes(N, D, d, s, e, cap, c, v, n, p, f, g)
  PROVE  Holds(N, D, d, Append(s, n.id), e, cap, g, Kept(cap, f))
<1> DEFINE t == Append(s, n.id)
<1>1. t = Append(s, n.id)
  OBVIOUS
<1> HIDE DEF t
<1>2. Known(N, D, d, t, e, f) /\ InOrder(d, t, f)
  BY <1>1, InsertIsKnown
<1>3. Known(N, D, d, t, e, g) /\ InOrder(d, t, g)
  BY <1>2, CutKeeps DEF Goes
<1>4. Limited(cap, g, Kept(cap, f))
  BY InsertIsLimited DEF Goes
<1>5. Complete(d, t, cap, g, Kept(cap, f))
  BY <1>1, <1>2, InsertIsComplete DEF Goes
<1> QED
  BY <1>1, <1>3, <1>4, <1>5 DEF Holds

\* The cursor goes back to the new candidate, if that is before it.
LEMMA InsertMovesCursor ==
  ASSUME NEW N, NEW D, NEW d, NEW s, NEW e, NEW cap \in Nat \ {0}, NEW c, NEW v, NEW n, NEW p,
         NEW f, NEW g, Goes(N, D, d, s, e, cap, c, v, n, p, f, g),
         NEW tgt \in 1 .. cap, NEW ends, EndsAt(tgt, c, v, ends), NEW ends2,
         EndsAt(tgt, g, Kept(cap, f), ends2), NEW best, CursorAt(c, ends, best)
  PROVE  CursorAt(g, ends2, IF p < best THEN p ELSE best)
<1>1. /\ Len(c) \in Nat /\ p \in 0 .. Len(c) /\ Len(f) = Len(c) + 1 /\ ~n.visited
      /\ Len(g) \in 1 .. Len(f) /\ \A i \in 1 .. Len(g) : g[i] = f[i]
  BY DEF Goes, Holds, Known, PlaceOf, CutAt, Newcomer
<1>2. /\ \A i \in 1 .. p : f[i] = c[i]
      /\ f[p + 1] = n
  BY DEF Goes, Inserted
<1>3. ends \in 0 .. Len(c) /\ ends2 \in 0 .. Len(g) /\ best \in 0 .. ends
  BY <1>1 DEF EndsAt, CursorAt
<1>4. Kept(cap, f) = cap \/ (Kept(cap, f) = Valids(f, Len(f)) /\ Len(g) = Len(f))
  <2>1. CutAt(cap, f, g)
    BY DEF Goes
  <2>2. CASE Valids(f, Len(f)) < cap
    BY <2>1, <2>2 DEF Kept, CutAt
  <2>3. CASE ~(Valids(f, Len(f)) < cap)
    BY <2>3 DEF Kept
  <2> QED
    BY <2>2, <2>3
\* If the end is before the new candidate, it has not moved.
<1>5. ASSUME ends2 <= p PROVE ends = ends2
  <2>1. ends2 < Len(f)
    BY <1>1, <1>3, <1>5
  <2>2. ~(Kept(cap, f) < tgt)
    BY <1>1, <1>4, <2>1 DEF EndsAt
  <2>3. ends2 \in 1 .. Len(g) /\ Valids(g, ends2) = tgt /\ g[ends2].valid
    BY <2>2 DEF EndsAt
  <2>4. Valids(c, ends2) = tgt /\ c[ends2].valid /\ ends2 \in 1 .. Len(c)
    <3>1. \A i \in 1 .. ends2 : g[i].valid <=> c[i].valid
      BY <1>1, <1>2, <1>3, <1>5
    <3> QED
      BY <1>1, <1>5, <2>3, <3>1, ValidsSame
  <2>5. tgt <= v
    BY <1>1, <2>4, ValidsGrow DEF Goes, Holds, Limited
  <2>6. v \in Nat
    BY <1>1, ValidsType DEF Goes, Holds, Limited
  <2>7. ends \in 1 .. Len(c) /\ Valids(c, ends) = tgt /\ c[ends].valid
    BY <2>5, <2>6 DEF EndsAt
  <2> QED
    BY <2>4, <2>7, ValidsPlace
<1>6. ASSUME p < ends2, best < p PROVE best < ends
  <2> SUFFICES ASSUME best = ends PROVE FALSE
    BY <1>3
  <2>1. ~(v < tgt)
    BY <1>1, <1>6 DEF EndsAt
  <2>2. ends \in 1 .. Len(c) /\ Valids(c, ends) = tgt /\ c[ends].valid
    BY <2>1 DEF EndsAt
  <2>3. Valids(g, ends) = tgt /\ g[ends].valid /\ ends < ends2
    <3>1. \A i \in 1 .. ends : g[i].valid <=> c[i].valid
      <4>1. \A i \in 1 .. ends : i \in 1 .. p /\ i \in 1 .. Len(g)
        BY <1>1, <1>3, <1>6
      <4> QED
        BY <1>1, <1>2, <4>1
    <3> QED
      BY <1>1, <1>3, <1>6, <2>2, <3>1, ValidsSame
  <2>4. ~(Kept(cap, f) < tgt)
    <3>1. Kept(cap, f) = Valids(g, Len(g))
      BY InsertIsLimited, <1>1 DEF Goes, Limited
    <3>2. Valids(g, ends) <= Valids(g, Len(g))
      BY <1>1, <1>3, <2>3, ValidsGrow
    <3> QED
      BY <1>1, <2>3, <3>1, <3>2, ValidsType
  <2>5. ends2 \in 1 .. Len(g) /\ Valids(g, ends2) = tgt /\ g[ends2].valid
    BY <2>4 DEF EndsAt
  <2> QED
    BY <2>2, <2>3, <2>5, ValidsPlace
<1>7. CASE ends2 <= p
  <2>1. ~(p < best) /\ ends = ends2
    BY <1>1, <1>3, <1>5, <1>7
  <2>2. \A i \in 1 .. ends : g[i] = c[i]
    BY <1>1, <1>2, <1>3, <1>7, <2>1
  <2> QED
    BY <1>3, <2>1, <2>2 DEF CursorAt
<1>8. CASE p < ends2 /\ best < p
  <2>1. \A i \in 1 .. p : g[i] = c[i]
    BY <1>1, <1>2, <1>3, <1>8
  <2> QED
    BY <1>1, <1>3, <1>6, <1>8, <2>1 DEF CursorAt
<1>9. CASE p < ends2 /\ best >= p
  <2>1. g[p + 1] = n /\ \A i \in 1 .. p : g[i] = c[i]
    BY <1>1, <1>2, <1>3, <1>9
  <2>2. (IF p < best THEN p ELSE best) = p
    BY <1>1, <1>3, <1>9
  <2> QED
    BY <1>1, <1>3, <1>9, <2>1, <2>2 DEF CursorAt
<1> QED
  BY <1>1, <1>3, <1>7, <1>8, <1>9

-----------------------------------------------------------------------------
(***************************************************************************)
(* How many nodes are nearer than a candidate, and which are the nearest.  *)
(***************************************************************************)
IdsIn(c, I) == {c[i].id : i \in I}

Nearers(D, d, s, x) == {y \in NodesOf(s) \ D : Closer(d, s, y, x)}

Near(D, d, s, k) == {x \in NodesOf(s) : Cardinality(Nearers(D, d, s, x)) < k}

LEMMA IdsAreAsMany ==
  ASSUME NEW c, NEW I, IsFiniteSet(I), \A i, j \in I : c[i].id = c[j].id => i = j
  PROVE  IsFiniteSet(IdsIn(c, I)) /\ Cardinality(IdsIn(c, I)) = Cardinality(I)
<1> DEFINE F == [i \in I |-> c[i].id]
<1>1. F \in [I -> IdsIn(c, I)] /\ \A i, j \in I : F[i] = F[j] => i = j
  BY DEF IdsIn
<1>2. \A x \in IdsIn(c, I) : \E i \in I : F[i] = x
  BY DEF IdsIn
<1> HIDE DEF F
<1>3. F \in Bijection(I, IdsIn(c, I))
  BY <1>1, <1>2, Fun_IsBij
<1>4. ExistsBijection(I, IdsIn(c, I))
  BY <1>3 DEF ExistsBijection
<1> QED
  BY <1>4, FS_Bijection

LEMMA MetAreFinite ==
  ASSUME NEW N, NEW s \in Seq(N)
  PROVE  IsFiniteSet(NodesOf(s))
<1> DEFINE F == [i \in 1 .. Len(s) |-> s[i]]
<1>1. F \in [1 .. Len(s) -> NodesOf(s)] /\ \A x \in NodesOf(s) : \E i \in 1 .. Len(s) : F[i] = x
  BY DEF NodesOf
<1> HIDE DEF F
<1>2. F \in Surjection(1 .. Len(s), NodesOf(s))
  BY <1>1, Fun_IsSurj
<1>3. IsFiniteSet(1 .. Len(s))
  BY FS_Interval
<1> QED
  BY <1>2, <1>3, FS_Surjection

\* A candidate has no other's id.
LEMMA IdsDiffer ==
  ASSUME NEW N, NEW D, NEW d, NEW s, NEW e, NEW c, Ordered(N, d, s), Known(N, D, d, s, e, c),
         InOrder(d, s, c)
  PROVE  /\ Len(c) \in Nat
         /\ \A i \in 1 .. Len(c) : c[i].id \in N
         /\ \A i, j \in 1 .. Len(c) : c[i].id = c[j].id => i = j
<1>1. Len(c) \in Nat /\ \A i \in 1 .. Len(c) : c[i].id \in N
  BY CloserIsOrder DEF Known
<1>2. \A i, j \in 1 .. Len(c) : i < j => c[i].id # c[j].id
  <2> SUFFICES ASSUME NEW i \in 1 .. Len(c), NEW j \in 1 .. Len(c), i < j, c[i].id = c[j].id
               PROVE  FALSE
    OBVIOUS
  <2>1. Closer(d, s, c[i].id, c[i].id)
    BY DEF InOrder
  <2> QED
    BY <1>1, <2>1, CloserIsOrder
<1>3. ASSUME NEW i \in 1 .. Len(c), NEW j \in 1 .. Len(c), c[i].id = c[j].id PROVE i = j
  <2>1. ~(i < j) /\ ~(j < i)
    BY <1>2, <1>3
  <2> QED
    BY <1>1, <2>1
<1> QED
  BY <1>1, <1>3

\* Nearer than a candidate are the valid ones before it.
LEMMA RankOf ==
  ASSUME NEW N, NEW D, NEW d, NEW s, NEW e, NEW cap \in Nat \ {0}, NEW c, NEW v,
         Ordered(N, d, s), Holds(N, D, d, s, e, cap, c, v), NEW i \in 1 .. Len(c)
  PROVE  Cardinality(Nearers(D, d, s, c[i].id)) = Valids(c, i - 1)
<1>1. /\ Known(N, D, d, s, e, c) /\ InOrder(d, s, c) /\ Limited(cap, c, v)
      /\ Complete(d, s, cap, c, v)
  BY DEF Holds
<1>2. /\ Len(c) \in Nat /\ i - 1 \in Nat
      /\ \A j \in 1 .. Len(c) : c[j].id \in N
      /\ \A j, k \in 1 .. Len(c) : c[j].id = c[k].id => j = k
  <2>1. Len(c) \in Nat
    BY <1>1, IdsDiffer
  <2> QED
    BY <1>1, <2>1, IdsDiffer
<1>3. ASSUME NEW j \in Marked(c, i - 1) PROVE c[j].id \in Nearers(D, d, s, c[i].id)
  <2>1. j \in 1 .. Len(c) /\ j < i /\ c[j].valid
    BY <1>2 DEF Marked
  <2> QED
    BY <1>1, <2>1 DEF Known, InOrder, Nearers
<1>4. ASSUME NEW y \in Nearers(D, d, s, c[i].id) PROVE \E j \in Marked(c, i - 1) : c[j].id = y
  <2>1. y \in NodesOf(s) /\ y \notin D /\ Closer(d, s, y, c[i].id) /\ y \in N
    BY CloserIsOrder DEF Nearers
  <2>2. CASE \E j \in 1 .. Len(c) : c[j].id = y
    <3>1. PICK j \in 1 .. Len(c) : c[j].id = y
      BY <2>2
    <3>2. ~Closer(d, s, c[i].id, y) /\ c[i].id # y
      BY <1>2, <2>1, CloserIsOrder
    <3>3. j < i
      BY <1>1, <1>2, <3>1, <3>2 DEF InOrder
    <3>4. c[j].valid
      BY <1>1, <2>1, <3>1 DEF Known
    <3> QED
      BY <1>2, <3>1, <3>3, <3>4 DEF Marked
  <2>3. CASE Closer(d, s, c[Len(c)].id, y)
    <3>1. c[Len(c)].id \in N /\ c[i].id \in N /\ Len(c) \in 1 .. Len(c)
      BY <1>2
    <3>2. Closer(d, s, c[Len(c)].id, c[i].id)
      BY <2>1, <2>3, <3>1, CloserIsOrder
    <3>3. i = Len(c) \/ Closer(d, s, c[i].id, c[Len(c)].id)
      BY <1>1, <1>2 DEF InOrder
    <3> QED
      BY <3>1, <3>2, <3>3, CloserIsOrder
  <2> QED
    BY <1>1, <2>1, <2>2, <2>3 DEF Complete
<1>5. Nearers(D, d, s, c[i].id) = IdsIn(c, Marked(c, i - 1))
  BY <1>3, <1>4 DEF IdsIn
<1>6. \A j, k \in Marked(c, i - 1) : c[j].id = c[k].id => j = k
  BY <1>2 DEF Marked
<1> QED
  BY <1>2, <1>5, <1>6, ValidsType, IdsAreAsMany DEF Valids

LEMMA RankBeyond ==
  ASSUME NEW N, NEW D, NEW d, NEW s, NEW e, NEW cap \in Nat \ {0}, NEW c, NEW v,
         Ordered(N, d, s), Holds(N, D, d, s, e, cap, c, v),
         NEW x \in NodesOf(s), \A i \in 1 .. Len(c) : c[i].id # x
  PROVE  Cardinality(Nearers(D, d, s, x)) \in Nat /\ Cardinality(Nearers(D, d, s, x)) >= cap
<1>1. /\ Known(N, D, d, s, e, c) /\ InOrder(d, s, c) /\ Limited(cap, c, v)
      /\ Complete(d, s, cap, c, v)
  BY DEF Holds
<1>2. /\ Len(c) \in Nat
      /\ \A j \in 1 .. Len(c) : c[j].id \in N
      /\ \A j, k \in 1 .. Len(c) : c[j].id = c[k].id => j = k
  BY <1>1, IdsDiffer
<1>3. v = cap /\ Closer(d, s, c[Len(c)].id, x) /\ x \in N /\ Valids(c, Len(c)) = cap
  BY <1>1, CloserIsOrder DEF Complete, Limited
<1>4. ASSUME NEW j \in 1 .. Len(c) PROVE Closer(d, s, c[j].id, x)
  <2>1. c[j].id \in N /\ c[Len(c)].id \in N
    BY <1>2
  <2>2. j = Len(c) \/ Closer(d, s, c[j].id, c[Len(c)].id)
    BY <1>1, <1>2 DEF InOrder
  <2> QED
    BY <1>3, <2>1, <2>2, CloserIsOrder
<1>5. IdsIn(c, Marked(c, Len(c))) \subseteq Nearers(D, d, s, x)
  <2> SUFFICES ASSUME NEW j \in Marked(c, Len(c)) PROVE c[j].id \in Nearers(D, d, s, x)
    BY DEF IdsIn
  <2>1. j \in 1 .. Len(c) /\ c[j].valid
    BY DEF Marked
  <2> QED
    BY <1>1, <1>4, <2>1 DEF Known, Nearers
<1>6. Cardinality(IdsIn(c, Marked(c, Len(c)))) = cap
  <2>1. \A j, k \in Marked(c, Len(c)) : c[j].id = c[k].id => j = k
    BY <1>2 DEF Marked
  <2> QED
    BY <1>2, <1>3, <2>1, ValidsType, IdsAreAsMany DEF Valids
<1>7. IsFiniteSet(Nearers(D, d, s, x))
  <2>1. IsFiniteSet(NodesOf(s)) /\ Nearers(D, d, s, x) \subseteq NodesOf(s)
    BY MetAreFinite DEF Ordered, Nearers
  <2> QED
    BY <2>1, FS_Subset
<1> QED
  BY <1>5, <1>6, <1>7, FS_Subset, FS_CardinalityType

\* The tgt nearest nodes are the candidates up to the end of the tgt-th valid one.
LEMMA NearestAre ==
  ASSUME NEW N, NEW D, NEW d, NEW s, NEW e, NEW cap \in Nat \ {0}, NEW c, NEW v,
         Ordered(N, d, s), Holds(N, D, d, s, e, cap, c, v), NEW tgt \in 1 .. cap, NEW ends,
         EndsAt(tgt, c, v, ends)
  PROVE  /\ ends \in 0 .. Len(c) /\ Near(D, d, s, tgt) = IdsIn(c, 1 .. ends)
         /\ IsFiniteSet(Near(D, d, s, tgt)) /\ Cardinality(Near(D, d, s, tgt)) = ends
<1>1. /\ Known(N, D, d, s, e, c) /\ InOrder(d, s, c) /\ Limited(cap, c, v)
  BY DEF Holds
<1>2. /\ Len(c) \in Nat
      /\ \A j \in 1 .. Len(c) : c[j].id \in N
      /\ \A j, k \in 1 .. Len(c) : c[j].id = c[k].id => j = k
  BY <1>1, IdsDiffer
<1>3. ends \in 0 .. Len(c) /\ v = Valids(c, Len(c)) /\ v \in Nat
  BY <1>1, <1>2, ValidsType DEF EndsAt, Limited
<1>4. ASSUME NEW i \in 1 .. Len(c) PROVE Valids(c, i - 1) < tgt <=> i <= ends
  <2>1. i - 1 \in Nat /\ Valids(c, i - 1) \in Nat
    BY <1>2, ValidsType
  <2>2. CASE v < tgt
    <3>1. Valids(c, i - 1) <= v
      BY <1>2, <1>3, <2>1, ValidsGrow
    <3> QED
      BY <1>3, <2>1, <2>2, <3>1 DEF EndsAt
  <2>3. CASE ~(v < tgt)
    <3>1. ends \in 1 .. Len(c) /\ Valids(c, ends) = tgt /\ c[ends].valid
      BY <2>3 DEF EndsAt
    <3>2. CASE i <= ends
      <4>1. i - 1 <= ends /\ ends \in i - 1 + 1 .. ends
        BY <3>1, <3>2
      <4> QED
        BY <2>1, <3>1, <3>2, <4>1, ValidsGrow
    <3>3. CASE ends < i
      <4>1. ends <= i - 1
        BY <3>1, <3>3
      <4>2. Valids(c, ends) <= Valids(c, i - 1)
        BY <2>1, <3>1, <4>1, ValidsGrow
      <4> QED
        BY <2>1, <3>1, <3>3, <4>2
    <3> QED
      BY <3>1, <3>2, <3>3
  <2> QED
    BY <2>2, <2>3
<1>5. ASSUME NEW x \in Near(D, d, s, tgt) PROVE x \in IdsIn(c, 1 .. ends)
  <2>1. x \in NodesOf(s) /\ Cardinality(Nearers(D, d, s, x)) < tgt
    BY DEF Near
  <2>2. PICK i \in 1 .. Len(c) : c[i].id = x
    <3> SUFFICES ASSUME \A i \in 1 .. Len(c) : c[i].id # x PROVE FALSE
      OBVIOUS
    <3> QED
      BY <2>1, RankBeyond
  <2>3. Valids(c, i - 1) < tgt
    BY <2>1, <2>2, RankOf
  <2> QED
    BY <1>3, <1>4, <2>2, <2>3 DEF IdsIn
<1>6. ASSUME NEW i \in 1 .. ends PROVE c[i].id \in Near(D, d, s, tgt)
  <2>1. i \in 1 .. Len(c) /\ c[i].id \in NodesOf(s)
    BY <1>1, <1>3 DEF Known
  <2>2. Cardinality(Nearers(D, d, s, c[i].id)) < tgt
    BY <1>4, <2>1, RankOf
  <2> QED
    BY <2>1, <2>2 DEF Near
<1>7. Near(D, d, s, tgt) = IdsIn(c, 1 .. ends)
  BY <1>5, <1>6 DEF IdsIn
<1>8. IsFiniteSet(1 .. ends) /\ Cardinality(1 .. ends) = ends
  <2>1. ends \in Int /\ 1 \in Int /\ ends - 1 + 1 = ends /\ (1 > ends => ends = 0)
    BY <1>2, <1>3
  <2> QED
    BY <2>1, FS_Interval
<1>9. \A j, k \in 1 .. ends : c[j].id = c[k].id => j = k
  BY <1>2, <1>3
<1> QED
  BY <1>3, <1>7, <1>8, <1>9, IdsAreAsMany

-----------------------------------------------------------------------------
(***************************************************************************)
(* Where a candidate goes, and how one that is held is found.              *)
(***************************************************************************)
Rising(c) == \A i, j \in 1 .. Len(c) : i < j => c[i].dist <= c[j].dist

NotFarther(c, l, x) == {i \in 1 .. l : c[i].dist <= x}

\* Position c has of a candidate as far as n.
PlaceIn(c, n) == Cardinality(NotFarther(c, Len(c), n.dist))

\* Going back from p, the id of n is met before a candidate that is nearer.
FoundFrom(c, n, p) ==
  \E i \in 1 .. p : c[i].id = n.id /\ \A j \in i .. p : ~(c[j].dist < n.dist)

LEMMA HeldRises ==
  ASSUME NEW N, NEW D, NEW d, NEW s, NEW e, NEW c, Ordered(N, d, s), Known(N, D, d, s, e, c),
         InOrder(d, s, c)
  PROVE  Rising(c) /\ Len(c) \in Nat /\ \A i \in 1 .. Len(c) : c[i].dist \in Nat
<1>1. /\ Len(c) \in Nat
      /\ \A i \in 1 .. Len(c) : c[i].dist \in Nat /\ c[i].dist = d[c[i].id]
  <2>1. c \in Seq(Candidates(N)) /\ \A i \in 1 .. Len(c) : c[i].dist = d[c[i].id]
    BY DEF Known
  <2>2. Len(c) \in Nat /\ \A i \in 1 .. Len(c) : c[i] \in Candidates(N)
    BY <2>1
  <2>3. \A x \in Candidates(N) : x.dist \in Nat
    BY DEF Candidates
  <2> QED
    BY <2>1, <2>2, <2>3
<1>2. Rising(c)
  BY <1>1 DEF InOrder, Closer, Rising
<1> QED
  BY <1>1, <1>2

LEMMA NearOnesFirst ==
  ASSUME NEW c, NEW len \in Nat, NEW x \in Nat, len = Len(c), Rising(c),
         \A i \in 1 .. len : c[i].dist \in Nat
  PROVE  \A l \in 0 .. len : \E p \in 0 .. l : NotFarther(c, l, x) = 1 .. p
<1> DEFINE P == {l \in Nat : l > len \/ \E p \in 0 .. l : NotFarther(c, l, x) = 1 .. p}
<1>1. 0 \in P
  <2>1. NotFarther(c, 0, x) = 1 .. 0 /\ 0 \in 0 .. 0
    BY DEF NotFarther
  <2> QED
    BY <2>1
<1>2. ASSUME NEW l \in P PROVE l + 1 \in P
  <2>1. CASE l + 1 > len
    BY <2>1
  <2>2. CASE l + 1 <= len /\ c[l + 1].dist <= x
    <3>1. \A i \in 1 .. l + 1 : c[i].dist <= c[l + 1].dist
      BY <2>2 DEF Rising
    <3>2. \A i \in 1 .. l + 1 : c[i].dist \in Nat
      BY <2>2
    <3>3. \A i \in 1 .. l + 1 : c[i].dist <= x
      <4> TAKE i \in 1 .. l + 1
      <4>1. c[i].dist <= c[l + 1].dist /\ c[i].dist \in Nat /\ c[l + 1].dist \in Nat
        BY <3>1, <3>2
      <4> QED
        BY <2>2, <4>1
    <3>4. NotFarther(c, l + 1, x) = 1 .. l + 1 /\ l + 1 \in 0 .. l + 1
      BY <3>3 DEF NotFarther
    <3>5. l + 1 \in Nat /\ \E p \in 0 .. l + 1 : NotFarther(c, l + 1, x) = 1 .. p
      BY <3>4
    <3> QED
      BY <3>5
  <2>3. CASE l + 1 <= len /\ ~(c[l + 1].dist <= x)
    <3>1. PICK p \in 0 .. l : NotFarther(c, l, x) = 1 .. p
      BY <2>3
    <3>2. NotFarther(c, l + 1, x) = NotFarther(c, l, x)
      BY <2>3 DEF NotFarther
    <3>3. l + 1 \in Nat /\ p \in 0 .. l + 1 /\ NotFarther(c, l + 1, x) = 1 .. p
      BY <3>1, <3>2
    <3> QED
      BY <3>3
  <2>4. l + 1 > len \/ l + 1 <= len
    OBVIOUS
  <2> QED
    BY <2>1, <2>2, <2>3, <2>4
<1> HIDE DEF P
<1>3. \A l \in Nat : l \in P
  BY <1>1, <1>2, SetInduction
<1> QED
  BY <1>3 DEF P

LEMMA PlaceIsFound ==
  ASSUME NEW c, NEW n, Rising(c), Len(c) \in Nat, n.dist \in Nat,
         \A i \in 1 .. Len(c) : c[i].dist \in Nat
  PROVE  /\ PlaceOf(c, n, PlaceIn(c, n))
         /\ NotFarther(c, Len(c), n.dist) = 1 .. PlaceIn(c, n)
<1>1. PICK p \in 0 .. Len(c) : NotFarther(c, Len(c), n.dist) = 1 .. p
  <2>1. \A l \in 0 .. Len(c) : \E p \in 0 .. l : NotFarther(c, l, n.dist) = 1 .. p
    BY NearOnesFirst
  <2> QED
    BY <2>1
<1>2. PlaceIn(c, n) = p
  <2>1. Cardinality(1 .. p) = p
    BY FS_Interval
  <2> QED
    BY <1>1, <2>1 DEF PlaceIn
<1>3. ASSUME NEW i \in 1 .. p PROVE c[i].dist <= n.dist
  BY <1>1, <1>3 DEF NotFarther
<1>4. ASSUME NEW i \in p + 1 .. Len(c) PROVE n.dist < c[i].dist
  <2>1. i \in 1 .. Len(c) /\ i \notin NotFarther(c, Len(c), n.dist)
    BY <1>1, <1>4
  <2> QED
    BY <2>1 DEF NotFarther
<1> QED
  BY <1>1, <1>2, <1>3, <1>4 DEF PlaceOf

\* The id is found if it is held, and only then.
LEMMA HeldIsFound ==
  ASSUME NEW N, NEW D, NEW d, NEW s, NEW e, NEW c, Ordered(N, d, s), Known(N, D, d, s, e, c),
         InOrder(d, s, c), NEW n, Newcomer(N, D, d, n), NEW p, PlaceOf(c, n, p)
  PROVE  FoundFrom(c, n, p) <=> \E i \in 1 .. Len(c) : c[i].id = n.id
<1>1. Rising(c) /\ Len(c) \in Nat /\ \A i \in 1 .. Len(c) : c[i].dist \in Nat
  BY HeldRises
<1>2. p \in 0 .. Len(c) /\ n.dist \in Nat /\ n.dist = d[n.id]
  BY DEF PlaceOf, Newcomer, Candidates
<1>3. ASSUME FoundFrom(c, n, p) PROVE \E i \in 1 .. Len(c) : c[i].id = n.id
  BY <1>1, <1>2, <1>3 DEF FoundFrom
<1>4. ASSUME NEW i \in 1 .. Len(c), c[i].id = n.id PROVE FoundFrom(c, n, p)
  <2>1. c[i].dist = n.dist
    BY <1>2, <1>4 DEF Known
  <2>2. i <= p
    BY <1>1, <1>2, <2>1 DEF PlaceOf
  <2>3. \A j \in i .. p : ~(c[j].dist < n.dist)
    <3> TAKE j \in i .. p
    <3>1. j \in 1 .. Len(c) /\ (i = j \/ i < j)
      BY <1>1, <1>2
    <3>2. c[i].dist <= c[j].dist /\ c[i].dist \in Nat /\ c[j].dist \in Nat
      BY <1>1, <3>1 DEF Rising
    <3> QED
      BY <1>2, <2>1, <3>2
  <2>4. i \in 1 .. p
    BY <1>1, <1>2, <2>2
  <2> QED
    BY <1>4, <2>3, <2>4 DEF FoundFrom
<1> QED
  BY <1>3, <1>4

\* A node that was met and is not held is farther than all of a full buffer.
LEMMA DroppedIsFar ==
  ASSUME NEW N, NEW D, NEW d, NEW s, NEW e, NEW cap \in Nat \ {0}, NEW c, NEW v,
         Ordered(N, d, s), Holds(N, D, d, s, e, cap, c, v), NEW n, Newcomer(N, D, d, n),
         n.id \in NodesOf(s), \A i \in 1 .. Len(c) : c[i].id # n.id
  PROVE  /\ v = cap /\ Len(c) \in Nat \ {0} /\ Valids(c, Len(c)) = cap /\ c[Len(c)].valid
         /\ PlaceIn(c, n) = Len(c)
<1>1. /\ Known(N, D, d, s, e, c) /\ InOrder(d, s, c) /\ Limited(cap, c, v)
      /\ Complete(d, s, cap, c, v)
  BY DEF Holds
<1>2. Rising(c) /\ Len(c) \in Nat /\ \A i \in 1 .. Len(c) : c[i].dist \in Nat
  BY <1>1, HeldRises
<1>3. v = cap /\ Closer(d, s, c[Len(c)].id, n.id)
  BY <1>1 DEF Complete
<1>4. Len(c) \in Nat \ {0} /\ Valids(c, Len(c)) = cap /\ c[Len(c)].valid
  BY <1>1, <1>3 DEF Limited
<1>5. n.dist \in Nat /\ n.dist = d[n.id] /\ c[Len(c)].dist = d[c[Len(c)].id]
  BY <1>1, <1>4 DEF Newcomer, Candidates, Known
<1>6. c[Len(c)].dist <= n.dist
  BY <1>2, <1>3, <1>4, <1>5 DEF Closer
<1>7. PlaceOf(c, n, PlaceIn(c, n))
  BY <1>2, <1>5, PlaceIsFound
<1>8. PlaceIn(c, n) = Len(c)
  <2> SUFFICES ASSUME PlaceIn(c, n) # Len(c) PROVE FALSE
    OBVIOUS
  <2>1. PlaceIn(c, n) \in 0 .. Len(c) /\ Len(c) \in PlaceIn(c, n) + 1 .. Len(c)
    BY <1>4, <1>7 DEF PlaceOf
  <2>2. n.dist < c[Len(c)].dist
    BY <1>7, <2>1 DEF PlaceOf
  <2> QED
    BY <1>2, <1>4, <1>5, <1>6, <2>2
<1> QED
  BY <1>3, <1>4, <1>8

-----------------------------------------------------------------------------
(***************************************************************************)
(* What the operations do to a buffer that is ready: it holds the nearest  *)
(* candidates, knows where the first tgt of them end, and where to go on.  *)
(***************************************************************************)
Ready(N, D, d, s, e, cap, tgt, c, v, ends, best) ==
  /\ Holds(N, D, d, s, e, cap, c, v) /\ EndsAt(tgt, c, v, ends) /\ CursorAt(c, ends, best)

\* c2 is c with candidate i visited.
Marks(N, c, i, c2) ==
  /\ c2 \in Seq(Candidates(N)) /\ Len(c2) = Len(c)
  /\ c2[i] = [c[i] EXCEPT !.visited = TRUE]
  /\ \A j \in 1 .. Len(c) : j # i => c2[j] = c[j]

LEMMA InsertReady ==
  ASSUME NEW N, NEW D, NEW d, NEW s, NEW e, NEW cap \in Nat \ {0}, NEW tgt \in 1 .. cap, NEW c,
         NEW v, NEW ends, NEW best, Ready(N, D, d, s, e, cap, tgt, c, v, ends, best), NEW n,
         NEW p, NEW f, NEW g, Goes(N, D, d, s, e, cap, c, v, n, p, f, g), NEW ends2,
         EndsAt(tgt, g, Kept(cap, f), ends2)
  PROVE  Ready(N, D, d, Append(s, n.id), e, cap, tgt, g, Kept(cap, f), ends2,
               IF p < best THEN p ELSE best)
<1>1. EndsAt(tgt, c, v, ends) /\ CursorAt(c, ends, best)
  BY DEF Ready
<1>2. Holds(N, D, d, Append(s, n.id), e, cap, g, Kept(cap, f))
  BY InsertHolds
<1>3. CursorAt(g, ends2, IF p < best THEN p ELSE best)
  BY <1>1, InsertMovesCursor
<1> QED
  BY <1>2, <1>3 DEF Ready

LEMMA SkipReady ==
  ASSUME NEW N, NEW D, NEW d, NEW s, NEW e, NEW cap \in Nat \ {0}, NEW tgt \in 1 .. cap, NEW c,
         NEW v, NEW ends, NEW best, Ready(N, D, d, s, e, cap, tgt, c, v, ends, best),
         Ordered(N, d, s), NEW n, Newcomer(N, D, d, n), n.id \notin NodesOf(s), n.id \notin e,
         v = cap, c[Len(c)].dist < n.dist
  PROVE  Ready(N, D, d, Append(s, n.id), e, cap, tgt, c, v, ends, best)
<1> DEFINE f == Append(c, n)
<1>1. /\ Holds(N, D, d, s, e, cap, c, v) /\ EndsAt(tgt, c, v, ends) /\ CursorAt(c, ends, best)
      /\ Known(N, D, d, s, e, c) /\ InOrder(d, s, c) /\ Limited(cap, c, v)
  BY DEF Ready, Holds
<1>2. Len(c) \in Nat \ {0} /\ Valids(c, Len(c)) = cap /\ c[Len(c)].valid
  BY <1>1 DEF Limited
<1>3. c \in Seq(Candidates(N)) /\ n \in Candidates(N) /\ n.dist \in Nat
  BY <1>1 DEF Known, Newcomer, Candidates
<1>4. /\ f \in Seq(Candidates(N)) /\ Len(f) = Len(c) + 1 /\ f[Len(c) + 1] = n
      /\ \A i \in 1 .. Len(c) : f[i] = c[i]
  BY <1>3
<1> HIDE DEF f
<1>5. PlaceOf(c, n, Len(c))
  <2>1. Rising(c) /\ \A i \in 1 .. Len(c) : c[i].dist \in Nat
    BY <1>1, HeldRises
  <2>2. \A i \in 1 .. Len(c) : c[i].dist <= c[Len(c)].dist /\ c[Len(c)].dist \in Nat
    BY <1>2, <2>1 DEF Rising
  <2>3. \A i \in 1 .. Len(c) : c[i].dist <= n.dist
    BY <1>3, <2>1, <2>2
  <2> QED
    BY <1>2, <2>3 DEF PlaceOf
<1>6. Inserted(c, Len(c), Len(c), n, f)
  BY <1>2, <1>4 DEF Inserted
<1>7. \A i \in 0 .. Len(c) : Valids(f, i) = Valids(c, i)
  BY <1>2, <1>6, ValidsInsert
<1>8. Valids(f, Len(c)) = cap /\ Valids(f, Len(f)) \in Nat /\ Valids(f, Len(f)) >= cap
  <2>1. Len(c) \in Nat /\ Len(c) + 1 \in Nat /\ Len(c) <= Len(c) + 1
    BY <1>2
  <2>2. Valids(f, Len(c)) <= Valids(f, Len(c) + 1) /\ Valids(f, Len(c) + 1) \in Nat
    BY <2>1, ValidsType, ValidsGrow
  <2>3. Valids(f, Len(c)) = cap
    BY <1>2, <1>7
  <2> QED
    BY <1>4, <2>2, <2>3
<1>9. CutAt(cap, f, c) /\ Kept(cap, f) = v
  BY <1>2, <1>4, <1>8 DEF CutAt, Kept
<1>10. Goes(N, D, d, s, e, cap, c, v, n, Len(c), f, c)
  BY <1>1, <1>3, <1>4, <1>5, <1>6, <1>9 DEF Goes
<1>11. ~(Len(c) < best)
  BY <1>1, <1>2 DEF EndsAt, CursorAt
<1>12. EndsAt(tgt, c, Kept(cap, f), ends)
  BY <1>1, <1>9
<1>13. Ready(N, D, d, Append(s, n.id), e, cap, tgt, c, Kept(cap, f), ends,
             IF Len(c) < best THEN Len(c) ELSE best)
  BY <1>10, <1>12, InsertReady
<1> QED
  BY <1>9, <1>11, <1>13

\* next() takes the first candidate that is still to be expanded.
LEMMA MarkReady ==
  ASSUME NEW N, NEW D, NEW d, NEW s, NEW e, NEW cap \in Nat \ {0}, NEW tgt \in 1 .. cap, NEW c,
         NEW v, NEW ends, NEW best, Ready(N, D, d, s, e, cap, tgt, c, v, ends, best),
         Ordered(N, d, s), best < ends, NEW c2, Marks(N, c, best + 1, c2), NEW best2,
         best2 \in best + 1 .. ends, \A i \in best + 2 .. best2 : c2[i].visited,
         best2 < ends => ~c2[best2 + 1].visited
  PROVE  Ready(N, D, d, s, e \cup {c[best + 1].id}, cap, tgt, c2, v, ends, best2)
<1>1. /\ Holds(N, D, d, s, e, cap, c, v) /\ EndsAt(tgt, c, v, ends) /\ CursorAt(c, ends, best)
      /\ Known(N, D, d, s, e, c) /\ InOrder(d, s, c) /\ Limited(cap, c, v)
      /\ Complete(d, s, cap, c, v)
  BY DEF Ready, Holds
<1>2. /\ Len(c) \in Nat
      /\ \A i, j \in 1 .. Len(c) : c[i].id = c[j].id => i = j
  BY <1>1, IdsDiffer
<1>3. ends \in 0 .. Len(c) /\ best \in 0 .. ends /\ best + 1 \in 1 .. Len(c)
  BY <1>1, <1>2 DEF EndsAt, CursorAt
<1>4. Len(c2) = Len(c) /\ c2 \in Seq(Candidates(N))
  BY DEF Marks
<1>5. c[best + 1] \in Candidates(N)
  BY <1>1, <1>3 DEF Known
<1>6. \A i \in 1 .. Len(c) :
        /\ c2[i].id = c[i].id /\ c2[i].dist = c[i].dist /\ c2[i].valid = c[i].valid
        /\ i # best + 1 => c2[i].visited = c[i].visited
  <2>1. \A x \in Candidates(N) : LET y == [x EXCEPT !.visited = TRUE]
                                 IN  y.id = x.id /\ y.dist = x.dist /\ y.valid = x.valid
    BY DEF Candidates
  <2>2. /\ c2[best + 1].id = c[best + 1].id /\ c2[best + 1].dist = c[best + 1].dist
        /\ c2[best + 1].valid = c[best + 1].valid
    BY <1>5, <2>1 DEF Marks
  <2>3. \A i \in 1 .. Len(c) : i # best + 1 => c2[i] = c[i]
    BY DEF Marks
  <2> QED
    BY <2>2, <2>3
<1>7. c2[best + 1].visited
  BY <1>5 DEF Marks, Candidates
<1>8. Known(N, D, d, s, e \cup {c[best + 1].id}, c2)
  <2> SUFFICES ASSUME NEW i \in 1 .. Len(c2)
               PROVE  /\ c2[i].id \in NodesOf(s) /\ c2[i].dist = d[c2[i].id]
                      /\ c2[i].valid <=> c2[i].id \notin D
                      /\ c2[i].visited <=> c2[i].id \in e \cup {c[best + 1].id}
    BY <1>4 DEF Known
  <2>1. c[i].id = c[best + 1].id <=> i = best + 1
    BY <1>2, <1>3, <1>4
  <2>2. /\ c[i].id \in NodesOf(s) /\ c[i].dist = d[c[i].id]
        /\ c[i].valid <=> c[i].id \notin D
        /\ c[i].visited <=> c[i].id \in e
    BY <1>1, <1>4 DEF Known
  <2>3. c2[i].visited <=> c2[i].id \in e \cup {c[best + 1].id}
    BY <1>4, <1>6, <1>7, <2>1, <2>2
  <2> QED
    BY <1>4, <1>6, <2>2, <2>3
<1>9. InOrder(d, s, c2)
  BY <1>1, <1>4, <1>6 DEF InOrder
<1>10. \A i \in 0 .. Len(c) : Valids(c2, i) = Valids(c, i)
  <2> TAKE i \in 0 .. Len(c)
  <2>1. \A j \in 1 .. i : c2[j].valid <=> c[j].valid
    BY <1>2, <1>6
  <2> QED
    BY <2>1, ValidsSame
<1>11. Limited(cap, c2, v)
  BY <1>1, <1>2, <1>4, <1>6, <1>10 DEF Limited
<1>12. Complete(d, s, cap, c2, v)
  <2> SUFFICES ASSUME NEW x \in NodesOf(s)
               PROVE  \/ \E i \in 1 .. Len(c2) : c2[i].id = x
                      \/ v = cap /\ Closer(d, s, c2[Len(c2)].id, x)
    BY DEF Complete
  <2>1. c2[Len(c2)].id = c[Len(c)].id
    BY <1>3, <1>4, <1>6
  <2>2. (\E i \in 1 .. Len(c) : c[i].id = x) \/ (v = cap /\ Closer(d, s, c[Len(c)].id, x))
    BY <1>1 DEF Complete
  <2> QED
    BY <1>4, <1>6, <2>1, <2>2
<1>13. EndsAt(tgt, c2, v, ends)
  BY <1>1, <1>2, <1>4, <1>6, <1>10 DEF EndsAt
<1>14. CursorAt(c2, ends, best2)
  <2>1. best2 \in 0 .. ends
    BY <1>3
  <2>2. \A i \in 1 .. best2 : c2[i].visited
    <3> TAKE i \in 1 .. best2
    <3>1. CASE i \in 1 .. best
      BY <1>1, <1>3, <1>6, <3>1 DEF CursorAt
    <3>2. CASE i = best + 1
      BY <1>7, <3>2
    <3>3. CASE i \in best + 2 .. best2
      BY <3>3
    <3> QED
      BY <1>3, <2>1, <3>1, <3>2, <3>3
  <2> QED
    BY <2>1, <2>2 DEF CursorAt
<1> QED
  BY <1>8, <1>9, <1>11, <1>12, <1>13, <1>14 DEF Ready, Holds

-----------------------------------------------------------------------------
(***************************************************************************)
(* The buffer of a static index: nothing is deleted, all it holds count.   *)
(***************************************************************************)
FlatShape(N, b) ==
  /\ b \in [size : Nat, best : Nat, window : Nat, capacity : Nat,
            cand : [0 .. b.capacity -> Candidates(N)]]
  /\ b.size \in 0 .. b.capacity /\ b.window \in 1 .. b.capacity

HeldOf(b) == [i \in 1 .. b.size |-> b.cand[i - 1]]

FlatReady(N, d, s, e, b) ==
  /\ FlatShape(N, b)
  /\ Ready(N, {}, d, s, e, b.capacity, b.window, HeldOf(b), b.size, Flat!Upper(b), b.best)

LEMMA FlatLeast ==
  ASSUME NEW S, NEW m \in S, S \subseteq Nat
  PROVE  Flat!Min(S) \in S /\ \A x \in S : Flat!Min(S) <= x
<1>1. \E x \in S : \A y \in S : x <= y
  BY LeastOf
<1> QED
  BY <1>1, Zenon DEF Flat!Min

LEMMA FlatLesser ==
  ASSUME NEW a \in Int, NEW b \in Int
  PROVE  Flat!Min({a, b}) = IF a <= b THEN a ELSE b
<1>1. \A x \in {a, b} : (\A y \in {a, b} : x <= y) <=> x = IF a <= b THEN a ELSE b
  OBVIOUS
<1> QED
  BY <1>1 DEF Flat!Min

LEMMA FlatHeld ==
  ASSUME NEW N, NEW b, FlatShape(N, b)
  PROVE  /\ HeldOf(b) \in Seq(Candidates(N)) /\ Len(HeldOf(b)) = b.size
         /\ \A i \in 1 .. b.size : HeldOf(b)[i] = b.cand[i - 1]
         /\ Flat!Upper(b) = IF b.size <= b.window THEN b.size ELSE b.window
         /\ b.capacity \in Nat \ {0} /\ b.window \in 1 .. b.capacity
<1>1. /\ b.size \in Nat /\ b.capacity \in Nat \ {0} /\ b.window \in 1 .. b.capacity
      /\ b.window \in Nat
      /\ \A i \in 0 .. b.capacity : b.cand[i] \in Candidates(N)
  BY DEF FlatShape
<1>2. \A i \in 1 .. b.size : b.cand[i - 1] \in Candidates(N)
  <2>1. \A i \in 1 .. b.size : i - 1 \in 0 .. b.capacity
    BY DEF FlatShape
  <2> QED
    BY <1>1, <2>1
<1>3. HeldOf(b) \in Seq(Candidates(N)) /\ Len(HeldOf(b)) = b.size
  BY <1>1, <1>2 DEF HeldOf
<1>4. Flat!Upper(b) = IF b.size <= b.window THEN b.size ELSE b.window
  <2>1. Flat!Min({b.size, b.window}) = IF b.size <= b.window THEN b.size ELSE b.window
    BY <1>1, FlatLesser
  <2> QED
    BY <2>1 DEF Flat!Upper
<1> QED
  BY <1>1, <1>3, <1>4 DEF HeldOf

\* The number of valid candidates and the end of the window are known by the size alone.
LEMMA FlatCounts ==
  ASSUME NEW d, NEW s, NEW e, NEW N, NEW c, Known(N, {}, d, s, e, c), Len(c) \in Nat
  PROVE  \A i \in 0 .. Len(c) : Valids(c, i) = i
<1>1. \A i \in 0 .. Len(c) : Marked(c, i) = 1 .. i
  BY DEF Known, Marked
<1>2. \A i \in 0 .. Len(c) : Cardinality(1 .. i) = i
  BY FS_Interval
<1> QED
  BY <1>1, <1>2 DEF Valids

LEMMA FlatEnds ==
  ASSUME NEW d, NEW s, NEW e, NEW N, NEW c, Known(N, {}, d, s, e, c), Len(c) \in Nat,
         NEW tgt \in Nat \ {0}
  PROVE  EndsAt(tgt, c, Len(c), IF Len(c) <= tgt THEN Len(c) ELSE tgt)
<1>1. \A i \in 0 .. Len(c) : Valids(c, i) = i
  BY FlatCounts
<1>2. \A i \in 1 .. Len(c) : c[i].valid
  BY DEF Known
<1>3. CASE Len(c) < tgt
  BY <1>3 DEF EndsAt
<1>4. CASE tgt <= Len(c)
  BY <1>1, <1>2, <1>4 DEF EndsAt
<1> QED
  BY <1>3, <1>4

LEMMA FlatPlace ==
  ASSUME NEW N, NEW b, FlatShape(N, b), Rising(HeldOf(b)), NEW n \in Candidates(N)
  PROVE  Flat!Position(b, n.dist) = PlaceIn(HeldOf(b), n)
<1> DEFINE c == HeldOf(b)
           p == PlaceIn(c, n)
<1>1. c \in Seq(Candidates(N)) /\ Len(c) = b.size /\ \A i \in 1 .. b.size : c[i] = b.cand[i - 1]
  BY FlatHeld
<1>2. b.size \in Nat /\ n.dist \in Nat
  BY DEF FlatShape, Candidates
<1>3. \A i \in 1 .. Len(c) : c[i].dist \in Nat
  <2>1. \A x \in Candidates(N) : x.dist \in Nat
    BY DEF Candidates
  <2>2. \A i \in 1 .. Len(c) : c[i] \in Candidates(N)
    BY <1>1
  <2> QED
    BY <2>1, <2>2
<1>4. PlaceOf(c, n, p) /\ NotFarther(c, Len(c), n.dist) = 1 .. p
  BY <1>1, <1>2, <1>3, PlaceIsFound
<1>5. p \in 0 .. b.size
  BY <1>1, <1>4 DEF PlaceOf
<1> HIDE DEF c, p
<1>6. \A i \in 0 .. b.size - 1 : b.cand[i] = c[i + 1]
  BY <1>1, <1>2
<1>7. {i \in 0 .. b.size - 1 : b.cand[i].dist <= n.dist} = 0 .. p - 1
  <2>1. \A i \in 0 .. b.size - 1 : b.cand[i].dist <= n.dist <=> i + 1 \in 1 .. p
    BY <1>1, <1>2, <1>4, <1>6 DEF NotFarther
  <2> QED
    BY <1>2, <1>5, <2>1
<1>8. Flat!Position(b, n.dist) = Cardinality(0 .. p - 1)
  <2>1. Flat!Position(b, n.dist) = Cardinality({i \in 0 .. b.size - 1 : b.cand[i].dist <= n.dist})
    BY DEF Flat!Position, Flat!Cardinality, Cardinality
  <2> QED
    BY <1>7, <2>1
<1>9. Cardinality(0 .. p - 1) = p
  <2>1. 0 \in Int /\ p - 1 \in Int /\ (0 > p - 1 => p = 0) /\ p - 1 - 0 + 1 = p
    BY <1>5
  <2> QED
    BY <2>1, FS_Interval
<1> QED
  BY <1>8, <1>9 DEF c, p

LEMMA FlatFound ==
  ASSUME NEW N, NEW b, FlatShape(N, b), NEW n, NEW p \in 0 .. b.size
  PROVE  Flat!Repeated(b, n, p) <=> FoundFrom(HeldOf(b), n, p)
<1> DEFINE c == HeldOf(b)
<1>1. b.size \in Nat /\ p \in Nat /\ \A i \in 1 .. b.size : c[i] = b.cand[i - 1]
  BY FlatHeld DEF FlatShape
<1> HIDE DEF c
<1>2. ASSUME Flat!Repeated(b, n, p) PROVE FoundFrom(c, n, p)
  <2>1. PICK i \in 0 .. p - 1 : /\ b.cand[i].id = n.id
                                /\ \A j \in i .. p - 1 : ~(b.cand[j].dist < n.dist)
    BY <1>2 DEF Flat!Repeated
  <2>2. i + 1 \in 1 .. p /\ c[i + 1].id = n.id
    BY <1>1, <2>1
  <2>3. \A j \in i + 1 .. p : ~(c[j].dist < n.dist)
    <3> TAKE j \in i + 1 .. p
    <3>1. j - 1 \in i .. p - 1 /\ c[j] = b.cand[j - 1]
      BY <1>1, <2>1
    <3> QED
      BY <2>1, <3>1
  <2> QED
    BY <2>2, <2>3 DEF FoundFrom
<1>3. ASSUME FoundFrom(c, n, p) PROVE Flat!Repeated(b, n, p)
  <2>1. PICK i \in 1 .. p : c[i].id = n.id /\ \A j \in i .. p : ~(c[j].dist < n.dist)
    BY <1>3 DEF FoundFrom
  <2>2. i - 1 \in 0 .. p - 1 /\ b.cand[i - 1].id = n.id
    BY <1>1, <2>1
  <2>3. \A j \in i - 1 .. p - 1 : ~(b.cand[j].dist < n.dist)
    <3> TAKE j \in i - 1 .. p - 1
    <3>1. j + 1 \in i .. p /\ c[j + 1] = b.cand[j + 1 - 1] /\ j + 1 - 1 = j
      BY <1>1, <2>1
    <3> QED
      BY <2>1, <3>1
  <2> QED
    BY <2>2, <2>3 DEF Flat!Repeated
<1> QED
  BY <1>2, <1>3 DEF c

\* n goes to position p and all behind it move on.
Shifts(b, n, p, b2) ==
  b2 = [b EXCEPT !.cand = Flat!Shifted(b, n, p), !.size = Flat!Min({@ + 1, b.capacity}),
                 !.best = Flat!Min({@, p})]

LEMMA FlatShift ==
  ASSUME NEW N, NEW b, FlatShape(N, b), NEW n \in Candidates(N), NEW p \in 0 .. b.size, NEW b2,
         Shifts(b, n, p, b2)
  PROVE  /\ FlatShape(N, b2) /\ b2.capacity = b.capacity /\ b2.window = b.window
         /\ b2.size = IF b.size < b.capacity THEN b.size + 1 ELSE b.capacity
         /\ b2.best = IF p < b.best THEN p ELSE b.best
         /\ \A i \in 0 .. b.capacity :
              b2.cand[i] = IF i < p \/ i > b.size THEN b.cand[i]
                           ELSE IF i = p THEN n ELSE b.cand[i - 1]
<1>1. /\ b.size \in Nat /\ b.best \in Nat /\ b.capacity \in Nat /\ b.window \in Nat
      /\ b.size \in 0 .. b.capacity /\ b.window \in 1 .. b.capacity
      /\ b.cand \in [0 .. b.capacity -> Candidates(N)]
  BY DEF FlatShape
<1>2. /\ Flat!Min({b.size + 1, b.capacity}) = IF b.size < b.capacity THEN b.size + 1 ELSE b.capacity
      /\ Flat!Min({b.best, p}) = IF p < b.best THEN p ELSE b.best
  <2>1. b.size + 1 \in Int /\ b.capacity \in Int /\ b.best \in Int /\ p \in Int
    BY <1>1
  <2>2. /\ Flat!Min({b.size + 1, b.capacity})
             = IF b.size + 1 <= b.capacity THEN b.size + 1 ELSE b.capacity
        /\ Flat!Min({b.best, p}) = IF b.best <= p THEN b.best ELSE p
    BY <2>1, FlatLesser
  <2> QED
    BY <1>1, <2>1, <2>2
<1> DEFINE sh == Flat!Shifted(b, n, p)
<1>3. \A i \in 0 .. b.capacity :
        sh[i] = IF i < p \/ i > b.size THEN b.cand[i] ELSE IF i = p THEN n ELSE b.cand[i - 1]
  BY <1>1 DEF Flat!Shifted
<1>4. sh \in [0 .. b.capacity -> Candidates(N)]
  <2>1. sh = [i \in 0 .. b.capacity |-> sh[i]]
    BY <1>1 DEF Flat!Shifted
  <2> HIDE DEF sh
  <2>2. \A i \in 0 .. b.capacity : sh[i] \in Candidates(N)
    <3> TAKE i \in 0 .. b.capacity
    <3>1. i > p /\ i <= b.size => i - 1 \in 0 .. b.capacity
      BY <1>1
    <3> QED
      BY <1>1, <1>3, <3>1
  <2> QED
    BY <2>1, <2>2
<1> DEFINE size2 == Flat!Min({b.size + 1, b.capacity})
           best2 == Flat!Min({b.best, p})
<1>5. size2 \in 0 .. b.capacity /\ best2 \in Nat
  BY <1>1, <1>2
<1>6. b2 = [b EXCEPT !.cand = sh, !.size = size2, !.best = best2]
  BY DEF Shifts
<1> HIDE DEF sh, size2, best2
<1>7. /\ b2.capacity = b.capacity /\ b2.window = b.window /\ b2.size = size2 /\ b2.best = best2
      /\ b2.cand = sh
  BY <1>6 DEF FlatShape
<1>8. b2 \in [size : Nat, best : Nat, window : Nat, capacity : Nat,
              cand : [0 .. b.capacity -> Candidates(N)]]
  <2>1. size2 \in Nat
    BY <1>1, <1>5
  <2> QED
    BY <1>4, <1>5, <1>6, <2>1 DEF FlatShape
<1>9. FlatShape(N, b2)
  BY <1>1, <1>5, <1>7, <1>8 DEF FlatShape
<1> QED
  BY <1>2, <1>3, <1>7, <1>9 DEF size2, best2

LEMMA FlatInsertNew ==
  ASSUME NEW N, NEW d, NEW s, NEW e, NEW b, FlatReady(N, d, s, e, b), Ordered(N, d, s),
         NEW n, Newcomer(N, {}, d, n), n.id \notin NodesOf(s), n.id \notin e
  PROVE  /\ FlatReady(N, d, Append(s, n.id), e, Flat!insert(b, n))
         /\ Flat!insert(b, n).window = b.window /\ Flat!insert(b, n).capacity = b.capacity
<1> DEFINE c == HeldOf(b)
           p == PlaceIn(c, n)
<1>1. /\ FlatShape(N, b) /\ Ready(N, {}, d, s, e, b.capacity, b.window, c, b.size, Flat!Upper(b), b.best)
      /\ Holds(N, {}, d, s, e, b.capacity, c, b.size) /\ Known(N, {}, d, s, e, c) /\ InOrder(d, s, c)
  BY DEF FlatReady, Ready, Holds
<1>2. /\ c \in Seq(Candidates(N)) /\ Len(c) = b.size /\ \A i \in 1 .. b.size : c[i] = b.cand[i - 1]
      /\ Flat!Upper(b) = IF b.size <= b.window THEN b.size ELSE b.window
      /\ b.capacity \in Nat \ {0} /\ b.window \in 1 .. b.capacity
      /\ b.size \in Nat /\ b.size \in 0 .. b.capacity
  BY <1>1, FlatHeld DEF FlatShape
<1>3. Rising(c) /\ \A i \in 1 .. Len(c) : c[i].dist \in Nat
  BY <1>1, HeldRises
<1>4. n \in Candidates(N) /\ n.dist \in Nat
  BY DEF Newcomer, Candidates
<1>5. PlaceOf(c, n, p) /\ p \in 0 .. b.size /\ Flat!Position(b, n.dist) = p
  <2>1. PlaceOf(c, n, p)
    BY <1>2, <1>3, <1>4, PlaceIsFound
  <2>2. Flat!Position(b, n.dist) = p
    BY <1>1, <1>3, <1>4, FlatPlace
  <2> QED
    BY <1>2, <2>1, <2>2 DEF PlaceOf
<1> HIDE DEF c, p
<1>6. ~Flat!Repeated(b, n, p)
  <2>1. \A i \in 1 .. Len(c) : c[i].id # n.id
    BY <1>1 DEF Known
  <2>2. ~FoundFrom(c, n, p)
    BY <1>1, <1>5, <2>1, HeldIsFound
  <2> QED
    BY <1>1, <1>5, <2>2, FlatFound DEF c
<1>7. CASE Flat!can_skip(b, n.dist)
  <2>1. Flat!insert(b, n) = b
    BY <1>7 DEF Flat!insert
  <2>2. b.size = b.capacity /\ b.cand[b.size - 1].dist < n.dist
    BY <1>7 DEF Flat!can_skip, Flat!full
  <2>3. c[Len(c)].dist < n.dist
    <3>1. b.size \in 1 .. b.size
      BY <1>2, <2>2
    <3> QED
      BY <1>2, <2>2, <3>1
  <2>4. Ready(N, {}, d, Append(s, n.id), e, b.capacity, b.window, c, b.size, Flat!Upper(b), b.best)
    BY <1>1, <1>2, <2>2, <2>3, SkipReady
  <2> QED
    BY <1>1, <2>1, <2>4 DEF FlatReady, c
<1>8. CASE ~Flat!can_skip(b, n.dist)
  <2> DEFINE b2 == Flat!insert(b, n)
             f == [i \in 1 .. b.size + 1 |-> Flat!Shifted(b, n, p)[i - 1]]
             g == HeldOf(b2)
  <2>1. Shifts(b, n, p, b2)
    BY <1>5, <1>6, <1>8 DEF Flat!insert, Flat!insert_inner, Shifts
  <2> HIDE DEF b2
  <2>2. /\ FlatShape(N, b2) /\ b2.capacity = b.capacity /\ b2.window = b.window
        /\ b2.size = IF b.size < b.capacity THEN b.size + 1 ELSE b.capacity
        /\ b2.best = IF p < b.best THEN p ELSE b.best
    BY <1>1, <1>4, <1>5, <2>1, FlatShift
  <2>3. \A i \in 0 .. b.size :
          Flat!Shifted(b, n, p)[i] = IF i < p THEN b.cand[i] ELSE IF i = p THEN n ELSE b.cand[i - 1]
    BY <1>1, <1>2, <1>5 DEF Flat!Shifted, FlatShape
  <2>4. \A i \in 1 .. b.size + 1 : f[i] = IF i <= p THEN c[i] ELSE IF i = p + 1 THEN n ELSE c[i - 1]
    <3> TAKE i \in 1 .. b.size + 1
    <3>1. i - 1 \in 0 .. b.size /\ (i <= p <=> i - 1 < p) /\ (i = p + 1 <=> i - 1 = p)
      BY <1>2, <1>5
    <3>2. i <= p => c[i] = b.cand[i - 1]
      BY <1>2, <1>5
    <3>3. i > p + 1 => i - 1 \in 1 .. b.size /\ c[i - 1] = b.cand[i - 1 - 1]
      BY <1>2, <1>5
    <3>4. i <= p \/ i = p + 1 \/ i > p + 1
      BY <1>5
    <3> QED
      BY <1>5, <2>3, <3>1, <3>2, <3>3, <3>4
  <2>5. f \in Seq(Candidates(N)) /\ Len(f) = b.size + 1
    <3>1. \A i \in 1 .. b.size + 1 : f[i] \in Candidates(N)
      <4> TAKE i \in 1 .. b.size + 1
      <4>1. i <= p => c[i] \in Candidates(N)
        BY <1>2, <1>5
      <4>2. i > p + 1 => c[i - 1] \in Candidates(N)
        BY <1>2, <1>5
      <4> QED
        BY <1>4, <1>5, <2>4, <4>1, <4>2
    <3>2. f = [i \in 1 .. b.size + 1 |-> f[i]]
      OBVIOUS
    <3>3. b.size + 1 \in Nat
      BY <1>2
    <3> HIDE DEF f
    <3>4. f \in [1 .. b.size + 1 -> Candidates(N)]
      BY <3>1, <3>2
    <3> QED
      BY <3>3, <3>4
  <2>6. /\ g \in Seq(Candidates(N)) /\ Len(g) = b2.size
        /\ \A i \in 1 .. b2.size : g[i] = b2.cand[i - 1]
        /\ Flat!Upper(b2) = IF b2.size <= b2.window THEN b2.size ELSE b2.window
    BY <2>2, FlatHeld
  <2>7. \A i \in 1 .. Len(g) : i \in 1 .. Len(f) /\ g[i] = f[i]
    <3>1. b2.cand = Flat!Shifted(b, n, p)
      BY <1>1, <2>1 DEF FlatShape, Shifts
    <3>2. \A i \in 1 .. b.size + 1 : f[i] = Flat!Shifted(b, n, p)[i - 1]
      OBVIOUS
    <3>3. \A i \in 1 .. Len(g) : i \in 1 .. b.size + 1 /\ i \in 1 .. b2.size
      BY <1>2, <2>2, <2>6
    <3> HIDE DEF f, g
    <3> QED
      BY <2>5, <2>6, <3>1, <3>2, <3>3
  <2> HIDE DEF f, g
  <2>8. Inserted(c, Len(c), p, n, f)
    <3>1. \A i \in 1 .. p : f[i] = c[i]
      BY <1>2, <1>5, <2>4
    <3>2. f[p + 1] = n
      BY <1>2, <1>5, <2>4
    <3>3. \A i \in p + 1 .. Len(c) : f[i + 1] = c[i]
      <4> TAKE i \in p + 1 .. Len(c)
      <4>1. i + 1 \in 1 .. b.size + 1 /\ ~(i + 1 <= p) /\ i + 1 # p + 1 /\ i + 1 - 1 = i
        BY <1>2, <1>5
      <4> QED
        BY <2>4, <4>1
    <3> QED
      BY <3>1, <3>2, <3>3 DEF Inserted
  <2>9. \A i \in 0 .. Len(f) : Valids(f, i) = i
    <3>1. \A i \in 1 .. Len(c) : c[i].valid
      BY <1>1 DEF Known
    <3>2. \A i \in 1 .. Len(f) : f[i].valid
      <4> TAKE i \in 1 .. Len(f)
      <4>1. i <= p => c[i].valid
        BY <1>2, <1>5, <3>1
      <4>2. i > p + 1 => c[i - 1].valid
        BY <1>2, <1>5, <2>5, <3>1
      <4>3. n.valid
        BY DEF Newcomer
      <4> QED
        BY <1>5, <2>4, <2>5, <4>1, <4>2, <4>3
    <3>3. \A i \in 0 .. Len(f) : Marked(f, i) = 1 .. i
      BY <1>2, <2>5, <3>2 DEF Marked
    <3>4. \A i \in 0 .. Len(f) : Cardinality(1 .. i) = i
      BY <1>2, <2>5, FS_Interval
    <3> QED
      BY <3>3, <3>4 DEF Valids
  <2>10. \A i \in 1 .. Len(f) : f[i].valid
    <3> TAKE i \in 1 .. Len(f)
    <3>1. i \in Nat /\ i - 1 \in Nat /\ i - 1 + 1 = i /\ i - 1 \in 0 .. Len(f) /\ i \in 0 .. Len(f)
      BY <1>2, <2>5
    <3>2. Valids(f, i) = i /\ Valids(f, i - 1) = i - 1
      BY <2>9, <3>1
    <3> QED
      BY <3>1, <3>2, ValidsStep
  <2>11. CutAt(b.capacity, f, g) /\ Kept(b.capacity, f) = b2.size
    <3>1. Len(f) \in 0 .. Len(f) /\ Len(g) \in 1 .. Len(f) /\ Len(g) \in 0 .. Len(f)
      BY <1>2, <2>2, <2>5, <2>6
    <3>2. Valids(f, Len(f)) = b.size + 1 /\ Valids(f, Len(g)) = b2.size
      BY <2>5, <2>6, <2>9, <3>1
    <3> QED
      BY <1>2, <2>2, <2>5, <2>6, <2>7, <2>10, <3>1, <3>2 DEF CutAt, Kept
  <2>12. Goes(N, {}, d, s, e, b.capacity, c, b.size, n, p, f, g)
    BY <1>1, <1>2, <1>5, <2>5, <2>6, <2>8, <2>11 DEF Goes
  <2>13. EndsAt(b.window, g, b2.size, Flat!Upper(b2))
    <3>1. Known(N, {}, d, Append(s, n.id), e, g)
      <4>1. Holds(N, {}, d, Append(s, n.id), e, b.capacity, g, Kept(b.capacity, f))
        BY <1>2, <2>12, InsertHolds
      <4> QED
        BY <4>1 DEF Holds
    <3> QED
      BY <1>2, <2>2, <2>6, <3>1, FlatEnds
  <2>14. Ready(N, {}, d, Append(s, n.id), e, b.capacity, b.window, g, b2.size, Flat!Upper(b2),
               IF p < b.best THEN p ELSE b.best)
    BY <1>1, <1>2, <2>11, <2>12, <2>13, InsertReady
  <2> QED
    BY <2>2, <2>14 DEF FlatReady, g, b2
<1> QED
  BY <1>7, <1>8

\* A node that was met before changes nothing.
LEMMA FlatInsertMet ==
  ASSUME NEW N, NEW d, NEW s, NEW e, NEW b, FlatReady(N, d, s, e, b), Ordered(N, d, s),
         NEW n, Newcomer(N, {}, d, n), n.id \in NodesOf(s)
  PROVE  /\ FlatReady(N, d, s, e, Flat!insert(b, n))
         /\ Flat!insert(b, n).window = b.window /\ Flat!insert(b, n).capacity = b.capacity
<1> DEFINE c == HeldOf(b)
           p == PlaceIn(c, n)
<1>1. /\ FlatShape(N, b) /\ Ready(N, {}, d, s, e, b.capacity, b.window, c, b.size, Flat!Upper(b), b.best)
      /\ Holds(N, {}, d, s, e, b.capacity, c, b.size) /\ Known(N, {}, d, s, e, c) /\ InOrder(d, s, c)
      /\ CursorAt(c, Flat!Upper(b), b.best)
  BY DEF FlatReady, Ready, Holds
<1>2. /\ c \in Seq(Candidates(N)) /\ Len(c) = b.size /\ \A i \in 1 .. b.size : c[i] = b.cand[i - 1]
      /\ Flat!Upper(b) = IF b.size <= b.window THEN b.size ELSE b.window
      /\ b.capacity \in Nat \ {0} /\ b.window \in 1 .. b.capacity
      /\ b.size \in Nat /\ b.size \in 0 .. b.capacity
  BY <1>1, FlatHeld DEF FlatShape
<1>3. Rising(c) /\ \A i \in 1 .. Len(c) : c[i].dist \in Nat
  BY <1>1, HeldRises
<1>4. n \in Candidates(N) /\ n.dist \in Nat
  BY DEF Newcomer, Candidates
<1>5. PlaceOf(c, n, p) /\ p \in 0 .. b.size /\ Flat!Position(b, n.dist) = p
  <2>1. PlaceOf(c, n, p)
    BY <1>2, <1>3, <1>4, PlaceIsFound
  <2>2. Flat!Position(b, n.dist) = p
    BY <1>1, <1>3, <1>4, FlatPlace
  <2> QED
    BY <1>2, <2>1, <2>2 DEF PlaceOf
<1> HIDE DEF c, p
<1>6. CASE Flat!can_skip(b, n.dist) \/ Flat!Repeated(b, n, p)
  <2>1. Flat!insert(b, n) = b
    BY <1>5, <1>6 DEF Flat!insert, Flat!insert_inner
  <2> QED
    BY <2>1
<1>7. CASE ~Flat!can_skip(b, n.dist) /\ ~Flat!Repeated(b, n, p)
  <2> DEFINE b2 == Flat!insert(b, n)
  <2>1. Shifts(b, n, p, b2)
    BY <1>5, <1>7 DEF Flat!insert, Flat!insert_inner, Shifts
  <2> HIDE DEF b2
  <2>2. \A i \in 1 .. Len(c) : c[i].id # n.id
    <3>1. ~FoundFrom(c, n, p)
      BY <1>1, <1>5, <1>7, FlatFound DEF c
    <3> QED
      BY <1>1, <1>5, <3>1, HeldIsFound
  <2>3. b.size = b.capacity /\ p = b.size
    BY <1>1, <1>2, <2>2, DroppedIsFar DEF p
  <2>4. /\ FlatShape(N, b2) /\ b2.capacity = b.capacity /\ b2.window = b.window
        /\ b2.size = IF b.size < b.capacity THEN b.size + 1 ELSE b.capacity
        /\ b2.best = IF p < b.best THEN p ELSE b.best
        /\ \A i \in 0 .. b.capacity :
             b2.cand[i] = IF i < p \/ i > b.size THEN b.cand[i]
                          ELSE IF i = p THEN n ELSE b.cand[i - 1]
    BY <1>1, <1>4, <1>5, <2>1, FlatShift
  <2>5. b2.size = b.size /\ b2.best = b.best
    BY <1>1, <1>2, <2>3, <2>4 DEF CursorAt
  <2>6. HeldOf(b2) = c
    <3>1. \A i \in 1 .. b.size : b2.cand[i - 1] = b.cand[i - 1]
      <4> TAKE i \in 1 .. b.size
      <4>1. i - 1 \in 0 .. b.capacity /\ i - 1 < p
        BY <1>2, <2>3
      <4> QED
        BY <2>4, <4>1
    <3> QED
      BY <2>5, <3>1 DEF HeldOf, c
  <2>7. Flat!Upper(b2) = Flat!Upper(b)
    BY <2>4, <2>5 DEF Flat!Upper
  <2> QED
    BY <1>1, <2>4, <2>5, <2>6, <2>7 DEF FlatReady, b2
<1> QED
  BY <1>6, <1>7

LEMMA FlatNext ==
  ASSUME NEW N, NEW d, NEW s, NEW e, NEW b, FlatReady(N, d, s, e, b), Ordered(N, d, s),
         ~Flat!done(b)
  PROVE  /\ FlatReady(N, d, s, e \cup {b.cand[b.best].id}, Flat!next(b))
         /\ Flat!next(b).window = b.window /\ Flat!next(b).capacity = b.capacity
         /\ b.cand[b.best] = HeldOf(b)[b.best + 1] /\ b.best < Flat!Upper(b)
<1> DEFINE c == HeldOf(b)
           u == Flat!Upper(b)
<1>1. /\ FlatShape(N, b) /\ Ready(N, {}, d, s, e, b.capacity, b.window, c, b.size, u, b.best)
      /\ CursorAt(c, u, b.best)
  BY DEF FlatReady, Ready
<1>2. /\ c \in Seq(Candidates(N)) /\ Len(c) = b.size /\ \A i \in 1 .. b.size : c[i] = b.cand[i - 1]
      /\ u = IF b.size <= b.window THEN b.size ELSE b.window
      /\ b.capacity \in Nat \ {0} /\ b.window \in 1 .. b.capacity
      /\ b.size \in Nat /\ b.size \in 0 .. b.capacity
      /\ b.cand \in [0 .. b.capacity -> Candidates(N)]
  BY <1>1, FlatHeld DEF FlatShape
<1> HIDE DEF c
<1>3. b.best \in 0 .. u /\ b.best # u
  BY <1>1 DEF CursorAt, Flat!done
<1> HIDE DEF u
<1>4. b.best < u /\ b.best \in 0 .. b.capacity /\ b.best + 1 \in 1 .. b.size /\ u \in 1 .. b.size
  BY <1>2, <1>3
<1>5. b.cand[b.best] = c[b.best + 1]
  BY <1>2, <1>4
<1> DEFINE m == [b.cand EXCEPT ![b.best].visited = TRUE]
           I == {i \in b.best + 1 .. u : i = u \/ ~m[i].visited}
           best2 == Flat!Min(I)
           b2 == Flat!next(b)
<1>6. b2 = [b EXCEPT !.cand = m, !.best = best2]
  BY DEF Flat!next, u
<1>7. /\ m \in [0 .. b.capacity -> Candidates(N)]
      /\ m[b.best] = [b.cand[b.best] EXCEPT !.visited = TRUE]
      /\ \A i \in 0 .. b.capacity : i # b.best => m[i] = b.cand[i]
  <2>1. [b.cand[b.best] EXCEPT !.visited = TRUE] \in Candidates(N)
    BY <1>2, <1>4 DEF Candidates
  <2> QED
    BY <1>2, <1>4, <2>1
<1> HIDE DEF m
<1>8. best2 \in I /\ \A i \in I : best2 <= i
  <2>1. u \in I /\ I \subseteq Nat
    BY <1>2, <1>4
  <2> HIDE DEF I
  <2> QED
    BY <2>1, FlatLeast
<1> HIDE DEF best2, b2
<1>9. /\ best2 \in b.best + 1 .. u /\ best2 \in Nat /\ (best2 < u => ~m[best2].visited)
      /\ \A i \in b.best + 1 .. best2 - 1 : m[i].visited
  <2>1. \A i \in b.best + 1 .. best2 - 1 : m[i].visited
    <3> SUFFICES ASSUME NEW i \in b.best + 1 .. best2 - 1, ~m[i].visited PROVE FALSE
      OBVIOUS
    <3>1. i \in I
      BY <1>4, <1>8
    <3> QED
      BY <1>4, <1>8, <3>1
  <2> QED
    BY <1>4, <1>8, <2>1
<1> HIDE DEF I
<1>10. /\ b2.capacity = b.capacity /\ b2.window = b.window /\ b2.size = b.size
       /\ b2.best = best2 /\ b2.cand = m
  BY <1>1, <1>6 DEF FlatShape
<1>11. FlatShape(N, b2)
  BY <1>1, <1>6, <1>7, <1>9, <1>10 DEF FlatShape
<1> DEFINE c2 == HeldOf(b2)
<1>12. c2 \in Seq(Candidates(N)) /\ Len(c2) = b.size /\ \A i \in 1 .. b.size : c2[i] = m[i - 1]
  BY <1>10, <1>11, FlatHeld
<1> HIDE DEF c2
<1>13. Marks(N, c, b.best + 1, c2)
  <2>1. b.best + 1 - 1 = b.best
    BY <1>4
  <2>2. c2[b.best + 1] = [c[b.best + 1] EXCEPT !.visited = TRUE]
    BY <1>4, <1>5, <1>7, <1>12, <2>1
  <2>3. \A j \in 1 .. b.size : j # b.best + 1 => c2[j] = c[j]
    <3> TAKE j \in 1 .. b.size
    <3>1. j - 1 \in 0 .. b.capacity /\ (j # b.best + 1 => j - 1 # b.best)
      BY <1>2, <1>4
    <3> QED
      BY <1>2, <1>7, <1>12, <3>1
  <2> QED
    BY <1>2, <1>12, <2>2, <2>3 DEF Marks
<1>14. \A i \in b.best + 2 .. best2 : c2[i].visited
  <2> TAKE i \in b.best + 2 .. best2
  <2>1. i - 1 \in b.best + 1 .. best2 - 1 /\ i \in 1 .. b.size
    BY <1>2, <1>4, <1>9
  <2> QED
    BY <1>9, <1>12, <2>1
<1>15. best2 < u => ~c2[best2 + 1].visited
  <2>1. best2 < u => best2 + 1 \in 1 .. b.size /\ best2 + 1 - 1 = best2
    BY <1>2, <1>4, <1>9
  <2> QED
    BY <1>9, <1>12, <2>1
<1>16. Ready(N, {}, d, s, e \cup {c[b.best + 1].id}, b.capacity, b.window, c2, b.size, u, best2)
  BY <1>1, <1>2, <1>4, <1>9, <1>13, <1>14, <1>15, MarkReady
<1>17. Flat!Upper(b2) = u
  BY <1>10 DEF Flat!Upper, u
<1> QED
  BY <1>4, <1>5, <1>10, <1>11, <1>16, <1>17 DEF FlatReady, c, c2, b2, u

-----------------------------------------------------------------------------
(***************************************************************************)
(* The start of a search, from one candidate.                              *)
(***************************************************************************)
Firsts(c, i) == {j \in DOMAIN c : c[j].dist < c[i].dist \/ (c[j].dist = c[i].dist /\ j < i)}

SortOf(c) == [r \in DOMAIN c |-> c[CHOOSE i \in DOMAIN c : Cardinality(Firsts(c, i)) = r - 1]]

LEMMA SortsAreOne ==
  ASSUME NEW c
  PROVE  Flat!Sorted(c) = SortOf(c) /\ Dyn!Sorted(c) = SortOf(c)
<1>1. Flat!Sorted(c) = SortOf(c)
  BY DEF Flat!Sorted, SortOf, Firsts, Cardinality, Flat!Cardinality
<1>2. Dyn!Sorted(c) = SortOf(c)
  BY DEF Dyn!Sorted, SortOf, Firsts, Cardinality, Dyn!Cardinality
<1> QED
  BY <1>1, <1>2

LEMMA SortOne ==
  ASSUME NEW n, n.dist \in Nat, NEW c, c = [i \in 1 .. 1 |-> n]
  PROVE  SortOf(c) = c
<1>1. DOMAIN c = {1} /\ c[1] = n
  OBVIOUS
<1>2. Firsts(c, 1) = {}
  BY <1>1 DEF Firsts
<1>3. \A i \in DOMAIN c : Cardinality(Firsts(c, i)) = 1 - 1
  BY <1>1, <1>2, FS_EmptySet
<1> DEFINE k == CHOOSE i \in DOMAIN c : Cardinality(Firsts(c, i)) = 1 - 1
<1>4. \E i \in DOMAIN c : Cardinality(Firsts(c, i)) = 1 - 1
  BY <1>1, <1>3
<1>5. k \in DOMAIN c
  BY <1>4, Zenon
<1> HIDE DEF k
<1>6. c[k] = n
  BY <1>1, <1>5
<1>7. \A r \in DOMAIN c : SortOf(c)[r] = n
  <2>1. SortOf(c)[1] = c[k]
    BY <1>1 DEF SortOf, k
  <2> QED
    BY <1>1, <1>6, <2>1
<1>8. SortOf(c) = [r \in DOMAIN c |-> SortOf(c)[r]]
  BY DEF SortOf
<1> QED
  BY <1>1, <1>7, <1>8

LEMMA OneReady ==
  ASSUME NEW N, NEW D, NEW d \in [N -> Nat], NEW n, Newcomer(N, D, d, n), NEW c,
         c \in Seq(Candidates(N)), Len(c) = 1, c[1] = n, NEW cap \in Nat \ {0}, NEW tgt \in 1 .. cap
  PROVE  /\ Ordered(N, d, <<n.id>>) /\ NodesOf(<<n.id>>) = {n.id}
         /\ Ready(N, D, d, <<n.id>>, {}, cap, tgt, c, IF n.valid THEN 1 ELSE 0, 1, 0)
         /\ Valids(c, 1) = IF n.valid THEN 1 ELSE 0
<1> DEFINE v == IF n.valid THEN 1 ELSE 0
           s == <<n.id>>
<1>1. n \in Candidates(N) /\ n.id \in N /\ n.dist = d[n.id] /\ ~n.visited
      /\ (n.valid <=> n.id \notin D) /\ n.valid \in BOOLEAN
  BY DEF Newcomer, Candidates
<1>2. s \in Seq(N) /\ DOMAIN s = {1} /\ s[1] = n.id
  BY <1>1
<1> HIDE DEF s
<1>3. NodesOf(s) = {n.id}
  BY <1>2 DEF NodesOf
<1>4. Ordered(N, d, s)
  BY <1>2 DEF Ordered
<1>5. \A i \in 1 .. Len(c) : i = 1
  OBVIOUS
<1>6. Known(N, D, d, s, {}, c)
  BY <1>1, <1>3, <1>5 DEF Known
<1>7. InOrder(d, s, c)
  BY <1>5 DEF InOrder
<1>8. Valids(c, 1) = v
  <2>1. 0 + 1 = 1 /\ Valids(c, 0) = 0
    BY ValidsStep
  <2>2. CASE n.valid
    <3>1. Valids(c, 0 + 1) = Valids(c, 0) + 1
      BY <2>1, <2>2, ValidsStep
    <3> QED
      BY <2>1, <2>2, <3>1
  <2>3. CASE ~n.valid
    <3>1. Valids(c, 0 + 1) = Valids(c, 0)
      BY <2>1, <2>3, ValidsStep
    <3> QED
      BY <2>1, <2>3, <3>1
  <2> QED
    BY <2>2, <2>3
<1>9. v \in {0, 1} /\ (v = 1 => n.valid)
  OBVIOUS
<1> HIDE DEF v
<1>10. Limited(cap, c, v)
  BY <1>8, <1>9 DEF Limited
<1>11. Complete(d, s, cap, c, v)
  BY <1>3 DEF Complete
<1>12. EndsAt(tgt, c, v, 1)
  BY <1>8, <1>9 DEF EndsAt
<1>13. CursorAt(c, 1, 0)
  BY <1>1 DEF CursorAt
<1>14. Ready(N, D, d, s, {}, cap, tgt, c, v, 1, 0)
  BY <1>6, <1>7, <1>10, <1>11, <1>12, <1>13 DEF Ready, Holds
<1> QED
  BY <1>3, <1>4, <1>8, <1>14 DEF s, v

LEMMA FlatStart ==
  ASSUME NEW N, NEW d \in [N -> Nat], NEW n, Newcomer(N, {}, d, n), NEW b, FlatShape(N, b)
  PROVE  LET b2 == Flat!sort(Flat!push_back(Flat!clear(b), n))
         IN  /\ FlatReady(N, d, <<n.id>>, {}, b2)
             /\ b2.window = b.window /\ b2.capacity = b.capacity
<1> DEFINE x == Flat!push_back(Flat!clear(b), n)
           b2 == Flat!sort(x)
<1>1. /\ n \in Candidates(N) /\ n.dist \in Nat /\ n.valid
      /\ b.capacity \in Nat \ {0} /\ b.window \in 1 .. b.capacity /\ b.window \in Nat
      /\ b.cand \in [0 .. b.capacity -> Candidates(N)]
  BY DEF Newcomer, Candidates, FlatShape
<1>2. /\ x.size = 1 /\ x.best = 0 /\ x.window = b.window /\ x.capacity = b.capacity
      /\ x.cand = [b.cand EXCEPT ![0] = n]
      /\ x \in [size : Nat, best : Nat, window : Nat, capacity : Nat,
                cand : [0 .. b.capacity -> Candidates(N)]]
  <2> DEFINE y == Flat!clear(b)
             R == [size : Nat, best : Nat, window : Nat, capacity : Nat,
                   cand : [0 .. b.capacity -> Candidates(N)]]
  <2>1. /\ y \in R /\ y.size = 0 /\ y.best = 0 /\ y.window = b.window /\ y.capacity = b.capacity
        /\ y.cand = b.cand
    BY DEF Flat!clear, FlatShape
  <2>2. x = [y EXCEPT !.cand[y.size] = n, !.size = @ + 1]
    <3>1. ~Flat!full(y)
      BY <1>1, <2>1 DEF Flat!full
    <3> QED
      BY <3>1 DEF Flat!push_back
  <2> HIDE DEF x, y
  <2>3. [b.cand EXCEPT ![0] = n] \in [0 .. b.capacity -> Candidates(N)]
    BY <1>1
  <2>4. x = [y EXCEPT !.cand = [b.cand EXCEPT ![0] = n], !.size = 1]
    BY <2>1, <2>2
  <2> QED
    BY <2>1, <2>3, <2>4
<1> HIDE DEF x
<1>3. x.cand[0] = n /\ x.cand \in [0 .. b.capacity -> Candidates(N)]
  BY <1>1, <1>2
<1> DEFINE h == [i \in 1 .. x.size |-> x.cand[i - 1]]
<1>4. Flat!Sorted(h) = [i \in 1 .. 1 |-> n]
  <2>1. h = [i \in 1 .. 1 |-> n]
    <3>1. \A i \in 1 .. 1 : x.cand[i - 1] = n
      BY <1>3
    <3> QED
      BY <1>2, <3>1
  <2> HIDE DEF h
  <2> QED
    BY <1>1, <2>1, SortsAreOne, SortOne
<1>5. b2 = [x EXCEPT !.cand = [i \in DOMAIN x.cand |-> IF i < x.size THEN Flat!Sorted(h)[i + 1]
                                                        ELSE x.cand[i]]]
  BY DEF Flat!sort
<1> HIDE DEF h, b2
<1>6. [i \in DOMAIN x.cand |-> IF i < x.size THEN Flat!Sorted(h)[i + 1] ELSE x.cand[i]] = x.cand
  <2>1. \A i \in DOMAIN x.cand : (IF i < x.size THEN Flat!Sorted(h)[i + 1] ELSE x.cand[i]) = x.cand[i]
    BY <1>1, <1>2, <1>3, <1>4
  <2> QED
    BY <1>3, <2>1
<1>7. b2 = x
  BY <1>2, <1>5, <1>6
<1>8. FlatShape(N, b2)
  BY <1>1, <1>2, <1>7 DEF FlatShape
<1> DEFINE c == HeldOf(b2)
<1>9. c \in Seq(Candidates(N)) /\ Len(c) = 1 /\ c[1] = n /\ Flat!Upper(b2) = 1
  <2>1. /\ c \in Seq(Candidates(N)) /\ Len(c) = b2.size
        /\ \A i \in 1 .. b2.size : c[i] = b2.cand[i - 1]
        /\ Flat!Upper(b2) = IF b2.size <= b2.window THEN b2.size ELSE b2.window
    BY <1>8, FlatHeld
  <2> HIDE DEF c
  <2>2. c[1] = b2.cand[0]
    BY <1>2, <1>7, <2>1
  <2> QED
    BY <1>1, <1>2, <1>3, <1>7, <2>1, <2>2
<1> HIDE DEF c
<1>10. Ready(N, {}, d, <<n.id>>, {}, b.capacity, b.window, c, 1, 1, 0)
  BY <1>1, <1>9, OneReady
<1> QED
  BY <1>2, <1>7, <1>8, <1>9, <1>10 DEF FlatReady, c, b2, x

-----------------------------------------------------------------------------
(***************************************************************************)
(* The buffer of a dynamic index: the operators it is built from.          *)
(***************************************************************************)
LEMMA PutIs ==
  ASSUME NEW c, NEW n, NEW p
  PROVE  Dyn!InsertAt(c, p + 1, n) = SubSeq(c, 1, (p + 1) - 1) \o <<n>> \o SubSeq(c, p + 1, Len(c))
  BY SMT DEF Dyn!InsertAt

LEMMA PutInserts ==
  ASSUME NEW S, NEW c \in Seq(S), NEW n \in S, NEW p \in 0 .. Len(c), NEW f, f = Dyn!InsertAt(c, p + 1, n)
  PROVE  /\ f \in Seq(S) /\ Len(f) = Len(c) + 1 /\ Inserted(c, Len(c), p, n, f)
<1> DEFINE a == SubSeq(c, 1, p)
           z == SubSeq(c, p + 1, Len(c))
<1>1. f = a \o <<n>> \o z
  <2>1. (p + 1) - 1 = p
    OBVIOUS
  <2>2. f = SubSeq(c, 1, (p + 1) - 1) \o <<n>> \o SubSeq(c, p + 1, Len(c))
    BY PutIs
  <2> QED
    BY <2>1, <2>2
<1>2. a \in Seq(S) /\ Len(a) = p /\ \A i \in 1 .. p : a[i] = c[i]
  OBVIOUS
<1>3. z \in Seq(S) /\ Len(z) = Len(c) - p /\ \A i \in 1 .. Len(c) - p : z[i] = c[p + i]
  OBVIOUS
<1> DEFINE y == a \o <<n>>
<1> HIDE DEF a, z
<1>4. <<n>> \in Seq(S) /\ Len(<<n>>) = 1 /\ <<n>>[1] = n /\ p \in Nat /\ Len(c) \in Nat
  OBVIOUS
<1>5. y \in Seq(S) /\ Len(y) = p + 1 /\ y[p + 1] = n /\ \A i \in 1 .. p : y[i] = c[i]
  BY <1>2, <1>4
<1>6. f = y \o z
  BY <1>1
<1> HIDE DEF y
<1>7. f \in Seq(S) /\ Len(f) = Len(c) + 1
  <2>1. f \in Seq(S) /\ Len(f) = Len(y) + Len(z)
    <3>1. y \in Seq(S) /\ z \in Seq(S)
      BY <1>3, <1>5
    <3>2. y \o z \in Seq(S) /\ Len(y \o z) = Len(y) + Len(z)
      BY <3>1
    <3> QED
      BY <1>6, <3>2
  <2>2. Len(y) + Len(z) = Len(c) + 1
    BY <1>3, <1>4, <1>5
  <2> QED
    BY <2>1, <2>2
<1>8. \A i \in 1 .. p + 1 : f[i] = y[i]
  BY <1>3, <1>4, <1>5, <1>6
<1>9. \A i \in p + 1 .. Len(c) : f[i + 1] = c[i]
  <2> TAKE i \in p + 1 .. Len(c)
  <2>1. i + 1 \in Len(y) + 1 .. Len(y) + Len(z) /\ i + 1 - Len(y) = i - p
    BY <1>3, <1>4, <1>5
  <2>2. f[i + 1] = z[i - p]
    BY <1>3, <1>5, <1>6, <2>1
  <2>3. i - p \in 1 .. Len(c) - p /\ p + (i - p) = i
    BY <1>4
  <2> QED
    BY <1>3, <2>2, <2>3
<1>10. \A i \in 1 .. p : f[i] = c[i]
  BY <1>4, <1>5, <1>8
<1>11. f[p + 1] = n
  BY <1>4, <1>5, <1>8
<1> QED
  BY <1>7, <1>9, <1>10, <1>11 DEF Inserted

LEMMA DynGreatest ==
  ASSUME NEW S, NEW m, m \in S, \A x \in S : x \in Int /\ x <= m
  PROVE  Dyn!Max(S) = m
<1>1. m \in S /\ \A y \in S : m >= y
  OBVIOUS
<1>2. \E z : z = Dyn!Max(S) /\ z \in S /\ \A y \in S : z >= y
  BY <1>1, Zenon DEF Dyn!Max
<1> QED
  BY <1>2

\* walk_back finds the last valid candidate, which ends as many.
LEMMA WalkBackIs ==
  ASSUME NEW c, NEW i \in Nat, Valids(c, i + 1) >= 1
  PROVE  /\ Dyn!WalkBack(c, i) \in 0 .. i /\ c[Dyn!WalkBack(c, i) + 1].valid
         /\ Valids(c, Dyn!WalkBack(c, i) + 1) = Valids(c, i + 1)
<1> DEFINE T == {k \in 0 .. i : c[(i - k) + 1].valid}
<1>1. T # {}
  <2>1. Marked(c, i + 1) # {}
    <3>1. Marked(c, i + 1) = {} => Valids(c, i + 1) = 0
      BY FS_EmptySet DEF Valids
    <3> QED
      BY <3>1
  <2>2. PICK j \in 1 .. i + 1 : c[j].valid
    BY <2>1 DEF Marked
  <2>3. (i + 1) - j \in 0 .. i /\ (i - ((i + 1) - j)) + 1 = j
    BY <2>2
  <2>4. (i + 1) - j \in T
    BY <2>2, <2>3
  <2> QED
    BY <2>4
<1>2. PICK k \in T : \A l \in T : k <= l
  <2>1. T \in SUBSET Nat
    OBVIOUS
  <2> QED
    BY <1>1, <2>1, LeastOf
<1> DEFINE m == i - k
<1>3. k \in 0 .. i /\ m \in 0 .. i /\ c[m + 1].valid
  BY <1>2
<1>4. \A j \in m + 1 .. i : ~c[j + 1].valid
  <2> SUFFICES ASSUME NEW j \in m + 1 .. i, c[j + 1].valid PROVE FALSE
    OBVIOUS
  <2>1. i - j \in 0 .. i /\ i - (i - j) = j /\ i - j < k
    BY <1>3
  <2>2. i - j \in T
    BY <2>1
  <2> QED
    BY <1>2, <1>3, <2>1, <2>2
<1> HIDE DEF T, m
<1>5. Dyn!WalkBack(c, i) = m
  <2> DEFINE S == {j \in 0 .. i : c[j + 1].valid}
  <2>1. m \in S /\ \A x \in S : x \in Int /\ x <= m
    <3>1. ASSUME NEW x \in S PROVE x \in Int /\ x <= m
      <4>1. x \in 0 .. i /\ c[x + 1].valid
        OBVIOUS
      <4>2. ~(x \in m + 1 .. i)
        BY <1>4, <4>1
      <4> QED
        BY <1>3, <4>1, <4>2
    <3> QED
      BY <1>3, <3>1
  <2>2. Dyn!WalkBack(c, i) = Dyn!Max(S)
    BY DEF Dyn!WalkBack, Dyn!At
  <2> HIDE DEF S
  <2>3. Dyn!Max(S) = m
    BY <2>1, DynGreatest
  <2> QED
    BY <2>2, <2>3
<1>6. Valids(c, m + 1) = Valids(c, i + 1)
  <2>1. \A j \in 1 .. i + 1 : c[j].valid => j <= m + 1
    <3> TAKE j \in 1 .. i + 1
    <3>1. j > m + 1 => j - 1 \in m + 1 .. i /\ (j - 1) + 1 = j
      BY <1>3
    <3> QED
      BY <1>3, <1>4, <3>1
  <2>2. Marked(c, m + 1) = Marked(c, i + 1)
    BY <1>3, <2>1 DEF Marked
  <2> QED
    BY <2>2 DEF Valids
<1> QED
  BY <1>3, <1>5, <1>6

LEMMA NarrowIs ==
  ASSUME NEW x \in Nat, x < CounterLimit
  PROVE  Dyn!Narrow(x) = x
<1>1. CounterLimit \in Nat \ {0}
  BY SizesAssumption
<1>2. x % CounterLimit = x
  BY <1>1
<1> QED
  BY <1>2 DEF Dyn!Narrow

\* The end of the region of interest after n went to position p of c.
Counted(b, c, n, p, f, tgt, v, ends) ==
  /\ n.valid \in BOOLEAN /\ Len(c) \in Nat /\ p \in 0 .. Len(c)
  /\ Len(f) = Len(c) + 1 /\ Inserted(c, Len(c), p, n, f) /\ Len(f) < CounterLimit
  /\ tgt \in Nat \ {0} /\ v = Valids(c, Len(c)) /\ EndsAt(tgt, c, v, ends)
  /\ b.target = tgt /\ b.valid = (IF n.valid THEN v + 1 ELSE v) /\ b.roi = ends

LEMMA RegionEnds ==
  ASSUME NEW c, NEW n, NEW p, NEW f, NEW tgt, NEW v, NEW ends, NEW b,
         Counted(b, c, n, p, f, tgt, v, ends)
  PROVE  /\ EndsAt(tgt, f, b.valid, Dyn!Region(b, f, n, p))
         /\ b.valid \in Nat /\ b.valid = Valids(f, Len(f))
<1> DEFINE r == Dyn!Region(b, f, n, p)
<1>0. /\ n.valid \in BOOLEAN /\ Len(c) \in Nat /\ p \in 0 .. Len(c)
      /\ Len(f) = Len(c) + 1 /\ Inserted(c, Len(c), p, n, f) /\ Len(f) < CounterLimit
      /\ tgt \in Nat \ {0} /\ v = Valids(c, Len(c)) /\ EndsAt(tgt, c, v, ends)
      /\ b.target = tgt /\ b.valid = (IF n.valid THEN v + 1 ELSE v) /\ b.roi = ends
  BY DEF Counted
<1> USE <1>0
<1>1. /\ v \in Nat /\ b.valid \in Nat /\ Len(f) \in Nat \ {0} /\ b.valid = Valids(f, Len(f))
      /\ v <= b.valid
  <2>1. v \in Nat
    BY ValidsType
  <2>2. Len(c) \in p .. Len(c)
    OBVIOUS
  <2> QED
    BY <2>1, <2>2, ValidsInsert
<1>2. ends \in 0 .. Len(c)
  BY <1>1 DEF EndsAt
<1>3. CASE b.valid < tgt
  <2>1. r = Len(f)
    BY <1>1, <1>3, NarrowIs DEF Dyn!Region
  <2> QED
    BY <1>1, <1>3, <2>1 DEF EndsAt
<1>4. CASE b.valid = tgt /\ n.valid
  <2>1. r = Dyn!WalkBack(f, ends) + 1
    BY <1>4 DEF Dyn!Region
  <2>2. ends = Len(c)
    BY <1>1, <1>4 DEF EndsAt
  <2>3. Valids(f, Len(c) + 1) = tgt
    BY <1>1, <1>4
  <2> DEFINE w == Dyn!WalkBack(f, Len(c))
  <2>4. w \in 0 .. Len(c) /\ f[w + 1].valid /\ Valids(f, w + 1) = Valids(f, Len(c) + 1)
    BY <2>3, WalkBackIs
  <2> HIDE DEF w
  <2>5. r = w + 1
    BY <2>1, <2>2 DEF w
  <2> HIDE DEF r
  <2>9. EndsAt(tgt, f, b.valid, r)
    BY <1>1, <1>4, <2>3, <2>4, <2>5 DEF EndsAt
  <2> QED
    BY <1>1, <2>9 DEF r
<1>5. CASE b.valid >= tgt /\ ~n.valid /\ p < ends
  <2>1. v = b.valid /\ ends \in 1 .. Len(c) /\ Valids(c, ends) = tgt /\ c[ends].valid
    BY <1>1, <1>5 DEF EndsAt
  <2>2. r = Dyn!Narrow(ends + 1)
    BY <1>1, <1>5 DEF Dyn!Region
  <2>3. Dyn!Narrow(ends + 1) = ends + 1
    <3>1. ends + 1 \in Nat /\ ends + 1 < CounterLimit
      BY <1>1, <2>1, SizesAssumption
    <3> QED
      BY <3>1, NarrowIs
  <2>4. f[ends + 1] = c[ends] /\ Valids(f, ends + 1) = tgt
    <3>1. ends \in p + 1 .. Len(c) /\ ends \in p .. Len(c)
      BY <1>5, <2>1
    <3>2. f[ends + 1] = c[ends]
      BY <3>1 DEF Inserted
    <3>3. Valids(f, ends + 1) = Valids(c, ends)
      BY <1>5, <3>1, ValidsInsert
    <3> QED
      BY <2>1, <3>2, <3>3
  <2> HIDE DEF r
  <2>9. EndsAt(tgt, f, b.valid, r)
    BY <1>1, <1>5, <2>1, <2>2, <2>3, <2>4 DEF EndsAt
  <2> QED
    BY <1>1, <2>9 DEF r
<1>6. CASE b.valid > tgt /\ n.valid /\ p < ends
  <2>1. ends \in 1 .. Len(c) /\ Valids(c, ends) = tgt /\ c[ends].valid
    BY <1>1, <1>6 DEF EndsAt
  <2>2. r = Dyn!WalkBack(f, ends - 1) + 1
    BY <1>1, <1>6 DEF Dyn!Region
  <2>3. Valids(f, (ends - 1) + 1) = tgt
    <3>1. ends - 1 \in p .. Len(c) /\ ends - 1 \in Nat /\ (ends - 1) + 1 = ends
      BY <1>6, <2>1
    <3>2. Valids(c, ends) = Valids(c, ends - 1) + 1 /\ Valids(c, ends - 1) \in Nat
      BY <2>1, <3>1, ValidsStep, ValidsType
    <3>3. Valids(f, (ends - 1) + 1) = Valids(c, ends - 1) + 1
      BY <1>6, <3>1, ValidsInsert
    <3> QED
      BY <2>1, <3>2, <3>3
  <2> DEFINE w == Dyn!WalkBack(f, ends - 1)
  <2>4. w \in 0 .. ends - 1 /\ f[w + 1].valid /\ Valids(f, w + 1) = tgt
    <3>1. ends - 1 \in Nat
      BY <2>1
    <3> QED
      BY <2>3, <3>1, WalkBackIs
  <2> HIDE DEF w
  <2>5. r = w + 1
    BY <2>2 DEF w
  <2> HIDE DEF r
  <2>9. EndsAt(tgt, f, b.valid, r)
    BY <1>1, <1>6, <2>1, <2>4, <2>5 DEF EndsAt
  <2> QED
    BY <1>1, <2>9 DEF r
<1>7. CASE b.valid >= tgt /\ ~(b.valid = tgt /\ n.valid) /\ ~(p < ends)
  <2>1. r = ends
    BY <1>1, <1>7 DEF Dyn!Region
  <2>2. ends \in 1 .. Len(c) /\ Valids(c, ends) = tgt /\ c[ends].valid
    BY <1>1, <1>7 DEF EndsAt
  <2>3. Valids(f, ends) = tgt /\ f[ends] = c[ends]
    <3>1. ends \in 0 .. p /\ ends \in 1 .. p
      BY <1>7, <2>2
    <3> QED
      <4>1. f[ends] = c[ends]
        BY <3>1 DEF Inserted
      <4>2. Valids(f, ends) = Valids(c, ends)
        BY <3>1, ValidsInsert
      <4> QED
        BY <2>2, <4>1, <4>2
  <2> HIDE DEF r
  <2>9. EndsAt(tgt, f, b.valid, r)
    BY <1>1, <1>7, <2>1, <2>2, <2>3 DEF EndsAt
  <2> QED
    BY <1>1, <2>9 DEF r
<1>8. \/ b.valid < tgt
      \/ b.valid = tgt /\ n.valid
      \/ b.valid >= tgt /\ ~n.valid /\ p < ends
      \/ b.valid > tgt /\ n.valid /\ p < ends
      \/ b.valid >= tgt /\ ~(b.valid = tgt /\ n.valid) /\ ~(p < ends)
  BY <1>1
<1>9. EndsAt(tgt, f, b.valid, r)
  BY <1>3, <1>4, <1>5, <1>6, <1>7, <1>8
<1> QED
  BY <1>1, <1>9

\* Where the first tgt valid candidates end does not change when those past the cap-th go.
LEMMA CutKeepsEnds ==
  ASSUME NEW f, NEW g, NEW cap \in Nat \ {0}, NEW tgt \in 1 .. cap, NEW ends, Len(f) \in Nat,
         EndsAt(tgt, f, Valids(f, Len(f)), ends), CutAt(cap, f, g)
  PROVE  EndsAt(tgt, g, Kept(cap, f), ends)
<1> DEFINE v == Valids(f, Len(f))
<1>1. v \in Nat /\ Len(g) \in 1 .. Len(f) /\ \A i \in 1 .. Len(g) : g[i] = f[i]
  BY ValidsType DEF CutAt
<1>2. CASE v < tgt
  BY <1>1, <1>2 DEF EndsAt, CutAt, Kept
<1>3. CASE ~(v < tgt)
  <2>1. ends \in 1 .. Len(f) /\ Valids(f, ends) = tgt /\ f[ends].valid
    BY <1>3 DEF EndsAt
  <2>2. ends <= Len(g)
    <3>1. CASE v < cap
      BY <1>1, <2>1, <3>1 DEF CutAt
    <3>2. CASE ~(v < cap) /\ Len(g) < ends
      <4>1. Valids(f, Len(g)) = cap
        BY <3>2 DEF CutAt
      <4>2. Len(g) \in Nat /\ ends \in Nat /\ Len(g) <= ends /\ ends \in Len(g) + 1 .. ends
        BY <1>1, <2>1, <3>2
      <4>3. Valids(f, Len(g)) < Valids(f, ends)
        BY <2>1, <4>2, ValidsGrow
      <4> QED
        BY <2>1, <4>1, <4>3
    <3> QED
      BY <1>1, <2>1, <3>1, <3>2
  <2>3. Valids(g, ends) = tgt /\ g[ends].valid /\ ends \in 1 .. Len(g)
    <3>1. ends \in Nat /\ \A j \in 1 .. ends : g[j].valid <=> f[j].valid
      BY <1>1, <2>1, <2>2
    <3>2. Valids(g, ends) = Valids(f, ends)
      BY <3>1, ValidsSame
    <3> QED
      BY <1>1, <2>1, <2>2, <3>2
  <2>4. ~(Kept(cap, f) < tgt)
    BY <1>1, <1>3 DEF Kept
  <2> QED
    BY <2>3, <2>4 DEF EndsAt
<1> QED
  BY <1>2, <1>3

-----------------------------------------------------------------------------
(***************************************************************************)
(* Insertion into the buffer of a dynamic index.                           *)
(***************************************************************************)
DynShape(N, b) ==
  /\ b \in [target : Nat, capacity : Nat, best : Nat, roi : Nat, valid : Nat,
            cand : Seq(Candidates(N))]
  /\ b.target \in 1 .. b.capacity

DynReady(N, D, d, s, e, b) ==
  /\ DynShape(N, b)
  /\ Ready(N, D, d, s, e, b.capacity, b.target, b.cand, b.valid, b.roi, b.best)

LEMMA PrefixIs ==
  ASSUME NEW S, NEW f \in Seq(S), NEW m \in 1 .. Len(f)
  PROVE  /\ SubSeq(f, 1, m) \in Seq(S) /\ Len(SubSeq(f, 1, m)) = m
         /\ \A i \in 1 .. m : SubSeq(f, 1, m)[i] = f[i]
  OBVIOUS

LEMMA WalkBackTo ==
  ASSUME NEW c, NEW l \in Nat \ {0}, Valids(c, l) >= 1, NEW w, w = Dyn!WalkBack(c, l - 1)
  PROVE  w \in 0 .. l - 1 /\ c[w + 1].valid /\ Valids(c, w + 1) = Valids(c, l)
<1> DEFINE i == l - 1
<1>1. i \in Nat /\ i + 1 = l /\ w = Dyn!WalkBack(c, i)
  OBVIOUS
<1> HIDE DEF i
<1>2. Valids(c, i + 1) >= 1
  BY <1>1
<1>3. w \in 0 .. i /\ c[w + 1].valid /\ Valids(c, w + 1) = Valids(c, i + 1)
  BY <1>1, <1>2, WalkBackIs
<1> QED
  BY <1>1, <1>3 DEF i

LEMMA ValidsLast ==
  ASSUME NEW c, NEW l \in Nat \ {0}, c[l].valid
  PROVE  Valids(c, l - 1) \in Nat /\ Valids(c, l) = Valids(c, l - 1) + 1
<1> DEFINE i == l - 1
<1>1. i \in Nat /\ i + 1 = l
  OBVIOUS
<1> HIDE DEF i
<1>2. Valids(c, i) \in Nat /\ Valids(c, i + 1) = Valids(c, i) + 1
  BY <1>1, ValidsType, ValidsStep
<1> QED
  BY <1>1, <1>2 DEF i

LEMMA TrimCuts ==
  ASSUME NEW N, NEW b, DynShape(N, b), Len(b.cand) >= 1, b.valid = Valids(b.cand, Len(b.cand)),
         EndsAt(b.target, b.cand, b.valid, b.roi), b.valid <= b.capacity + 1,
         b.valid > b.capacity => b.cand[Len(b.cand)].valid
  PROVE  LET b2 == Dyn!Trim(b)
         IN  /\ DynShape(N, b2) /\ b2.target = b.target /\ b2.capacity = b.capacity
             /\ b2.roi = b.roi /\ b2.best = b.best
             /\ CutAt(b.capacity, b.cand, b2.cand) /\ b2.valid = Kept(b.capacity, b.cand)
<1> DEFINE f == b.cand
           cap == b.capacity
           v == b.valid
           b2 == Dyn!Trim(b)
           Cut(m) == [b EXCEPT !.cand = SubSeq(f, 1, m), !.valid = IF v - cap > 0 THEN v - 1 ELSE v]
           kept == IF v < cap THEN v ELSE cap
<1>1. /\ f \in Seq(Candidates(N)) /\ Len(f) \in Nat \ {0} /\ cap \in Nat \ {0} /\ v \in Nat
      /\ v <= cap + 1 /\ b.target \in 1 .. cap
      /\ v = Valids(f, Len(f)) /\ EndsAt(b.target, f, v, b.roi) /\ (v > cap => f[Len(f)].valid)
  BY DEF DynShape
<1>2. ASSUME NEW m \in 1 .. Len(f), b2 = Cut(m),
             IF v < cap THEN m = Len(f) ELSE Valids(f, m) = cap /\ f[m].valid
      PROVE  /\ DynShape(N, b2) /\ b2.target = b.target /\ b2.capacity = b.capacity
             /\ b2.roi = b.roi /\ b2.best = b.best
             /\ CutAt(cap, f, b2.cand) /\ b2.valid = Kept(cap, f)
  <2> DEFINE g == SubSeq(f, 1, m)
             v2 == IF v - cap > 0 THEN v - 1 ELSE v
  <2>1. g \in Seq(Candidates(N)) /\ Len(g) = m /\ \A i \in 1 .. m : g[i] = f[i]
    BY <1>1, PrefixIs
  <2>2. v2 \in Nat /\ v2 = kept
    BY <1>1
  <2>3. b2 = [b EXCEPT !.cand = g, !.valid = v2]
    BY <1>2
  <2> HIDE DEF b2, g, v2
  <2>4. /\ b2.target = b.target /\ b2.capacity = b.capacity /\ b2.roi = b.roi /\ b2.best = b.best
        /\ b2.cand = g /\ b2.valid = v2 /\ DynShape(N, b2)
    BY <2>1, <2>2, <2>3 DEF DynShape
  <2>5. CutAt(cap, f, g)
    BY <1>1, <1>2, <2>1 DEF CutAt
  <2>6. Kept(cap, f) = kept
    BY <1>1 DEF Kept
  <2> QED
    BY <2>2, <2>4, <2>5, <2>6 DEF b2
<1>3. CASE b.target = cap
  <2>1. b2 = Cut(b.roi)
    BY <1>3 DEF Dyn!Trim
  <2>2. b.roi \in 1 .. Len(f)
    BY <1>1, <1>3 DEF EndsAt
  <2>3. IF v < cap THEN b.roi = Len(f) ELSE Valids(f, b.roi) = cap /\ f[b.roi].valid
    BY <1>1, <1>3 DEF EndsAt
  <2> HIDE DEF b2, Cut
  <2>4. QED
    BY <1>2, <2>1, <2>2, <2>3 DEF b2
<1>4. CASE b.target # cap /\ v = cap
  <2> DEFINE w == Dyn!WalkBack(f, Len(f) - 1)
  <2>1. w = Dyn!WalkBack(f, Len(f) - 1)
    OBVIOUS
  <2> HIDE DEF w
  <2>2. w \in 0 .. Len(f) - 1 /\ f[w + 1].valid /\ Valids(f, w + 1) = cap
    <3>1. Len(f) \in Nat \ {0} /\ Valids(f, Len(f)) = cap /\ cap >= 1
      BY <1>1, <1>4
    <3>2. Valids(f, Len(f)) >= 1
      BY <3>1
    <3>3. w \in 0 .. Len(f) - 1 /\ f[w + 1].valid /\ Valids(f, w + 1) = Valids(f, Len(f))
      BY <2>1, <3>1, <3>2, WalkBackTo
    <3> QED
      BY <3>1, <3>3
  <2>3. b2 = [b EXCEPT !.cand = SubSeq(f, 1, w + 1)]
    BY <1>1, <1>4 DEF Dyn!Trim, w
  <2>4. b2 = Cut(w + 1)
    <3>1. [b EXCEPT !.cand = SubSeq(f, 1, w + 1)]
            = [b EXCEPT !.cand = SubSeq(f, 1, w + 1), !.valid = v]
      BY DEF DynShape
    <3>2. ~(v - cap > 0)
      BY <1>1, <1>4
    <3> QED
      BY <2>3, <3>1, <3>2
  <2>5. w + 1 \in 1 .. Len(f)
    BY <1>1, <2>2
  <2> HIDE DEF b2, Cut
  <2> QED
    BY <1>1, <1>2, <1>4, <2>2, <2>4, <2>5 DEF b2
<1>5. CASE b.target # cap /\ v > cap
  <2> DEFINE w == Dyn!WalkBack(f, Len(f) - 2)
  <2>1. v = cap + 1 /\ f[Len(f)].valid
    BY <1>1, <1>5
  <2>2. Valids(f, Len(f) - 1) = cap
    <3>1. Valids(f, Len(f)) = Valids(f, Len(f) - 1) + 1 /\ Valids(f, Len(f) - 1) \in Nat
      BY <1>1, <2>1, ValidsLast
    <3>2. Valids(f, Len(f)) = cap + 1 /\ cap \in Nat
      BY <1>1, <2>1
    <3> QED
      BY <3>1, <3>2
  <2>3. Len(f) - 1 \in Nat \ {0} /\ (Len(f) - 1) - 1 = Len(f) - 2
    <3>1. ASSUME Len(f) = 1 PROVE FALSE
      <4>1. Len(f) - 1 = 0 /\ 0 \in Nat
        BY <3>1
      <4>2. Valids(f, 0) = cap
        BY <2>2, <4>1
      <4> QED
        BY <1>1, <4>1, <4>2, ValidsStep
    <3> QED
      BY <1>1, <3>1
  <2>4. w = Dyn!WalkBack(f, (Len(f) - 1) - 1)
    BY <2>3
  <2>5. b2 = Cut(w + 1)
    <3>1. v - cap > 0 /\ v - cap # 0
      BY <1>1, <1>5
    <3>2. b2 = [b EXCEPT !.cand = SubSeq(f, 1, Dyn!WalkBack(f, Len(f) - 2) + 1), !.valid = v - 1]
      BY <1>5, <3>1 DEF Dyn!Trim
    <3> QED
      BY <3>1, <3>2
  <2> HIDE DEF w
  <2>7. w \in 0 .. Len(f) - 2 /\ f[w + 1].valid /\ Valids(f, w + 1) = cap
    <3>1. Valids(f, Len(f) - 1) >= 1
      BY <1>1, <2>2
    <3> QED
      BY <2>2, <2>3, <2>4, <3>1, WalkBackTo
  <2>6. w + 1 \in 1 .. Len(f)
    BY <1>1, <2>7
  <2> HIDE DEF b2, Cut
  <2> QED
    BY <1>1, <1>2, <1>5, <2>5, <2>6, <2>7 DEF b2
<1>6. CASE b.target # cap /\ v < cap
  <2>1. b2 = b
    BY <1>1, <1>6 DEF Dyn!Trim
  <2>2. CutAt(cap, f, f) /\ Kept(cap, f) = v
    BY <1>1, <1>6 DEF CutAt, Kept
  <2> QED
    BY <2>1, <2>2
<1> QED
  BY <1>1, <1>3, <1>4, <1>5, <1>6

LEMMA DynLesser ==
  ASSUME NEW a \in Int, NEW b \in Int
  PROVE  Dyn!Min({a, b}) = IF a <= b THEN a ELSE b
<1>1. \A x \in {a, b} : (\A y \in {a, b} : x <= y) <=> x = IF a <= b THEN a ELSE b
  OBVIOUS
<1> QED
  BY <1>1 DEF Dyn!Min

LEMMA ValidsFew ==
  ASSUME NEW c, NEW i \in Nat
  PROVE  Valids(c, i) \in Nat /\ Valids(c, i) <= i
<1>1. IsFiniteSet(1 .. i) /\ Cardinality(1 .. i) = i
  BY FS_Interval
<1>2. Marked(c, i) \subseteq 1 .. i
  BY DEF Marked
<1>3. Cardinality(Marked(c, i)) <= i
  BY <1>1, <1>2, FS_Subset
<1> QED
  BY <1>3, ValidsType DEF Valids

\* The place and the repeated id in the words of the code.
LEMMA DynPlace ==
  ASSUME NEW b, NEW n, NEW p, DOMAIN b.cand = 1 .. Len(b.cand)
  PROVE  /\ Dyn!Position(b, n.dist) = PlaceIn(b.cand, n)
         /\ Dyn!Repeated(b, n, p) <=> FoundFrom(b.cand, n, p)
<1>1. Dyn!Position(b, n.dist) = PlaceIn(b.cand, n)
  BY DEF Dyn!Position, PlaceIn, NotFarther, Cardinality, Dyn!Cardinality
<1>2. Dyn!Repeated(b, n, p) <=> FoundFrom(b.cand, n, p)
  BY DEF Dyn!Repeated, FoundFrom
<1> QED
  BY <1>1, <1>2

\* What insert_inner(n) makes of b, for a node that is not held; f is the vector before the cut.
Puts(N, b, n, f, b2) ==
  LET p == PlaceIn(b.cand, n)
  IN  /\ PlaceOf(b.cand, n, p)
      /\ f \in Seq(Candidates(N)) /\ Len(f) = Len(b.cand) + 1
      /\ Inserted(b.cand, Len(b.cand), p, n, f)
      /\ DynShape(N, b2) /\ b2.target = b.target /\ b2.capacity = b.capacity
      /\ CutAt(b.capacity, f, b2.cand) /\ b2.valid = Kept(b.capacity, f)
      /\ EndsAt(b.target, b2.cand, b2.valid, b2.roi)
      /\ b2.best = IF p < b.best THEN p ELSE b.best

\* The counters have room for a full buffer, one more candidate, and all deleted nodes.
Few(D, cap) == IsFiniteSet(D) /\ cap + Cardinality(D) + 1 < CounterLimit

LEMMA LenFew ==
  ASSUME NEW N, NEW D, NEW d, NEW s, NEW e, NEW cap \in Nat, Few(D, cap), NEW c, NEW v,
         Ordered(N, d, s), Holds(N, D, d, s, e, cap, c, v)
  PROVE  Len(c) \in Nat /\ CounterLimit \in Nat /\ Len(c) + 1 < CounterLimit
<1> DEFINE l == Len(c)
           M == Marked(c, l)
           U == (1 .. l) \ M
<1>1. Known(N, D, d, s, e, c) /\ InOrder(d, s, c) /\ Limited(cap, c, v)
  BY DEF Holds
<1>2. l \in Nat /\ \A i, j \in 1 .. l : c[i].id = c[j].id => i = j
  BY <1>1, IdsDiffer
<1>3. IsFiniteSet(1 .. l) /\ Cardinality(1 .. l) = l
  <2>1. 1 \in Int /\ l \in Int /\ (1 > l => l = 0) /\ (l - 1) + 1 = l
    BY <1>2
  <2> QED
    BY <2>1, FS_Interval
<1>4. M \subseteq 1 .. l /\ U \subseteq 1 .. l
  BY DEF Marked
<1>5. Cardinality(U) <= Cardinality(D) /\ Cardinality(D) \in Nat
  <2>1. IsFiniteSet(U)
    BY <1>3, <1>4, FS_Subset
  <2>2. \A i, j \in U : c[i].id = c[j].id => i = j
    BY <1>2, <1>4
  <2>3. Cardinality(IdsIn(c, U)) = Cardinality(U)
    BY <2>1, <2>2, IdsAreAsMany
  <2>4. IdsIn(c, U) \subseteq D
    BY <1>1 DEF IdsIn, Marked, Known
  <2> HIDE DEF U
  <2> QED
    BY <2>3, <2>4, FS_Subset, FS_CardinalityType DEF Few
<1>6. Cardinality(M) <= cap /\ Cardinality(M) \in Nat
  <2>1. Cardinality(M) = v /\ v <= cap
    BY <1>1 DEF Limited, Valids
  <2>2. Cardinality(M) \in Nat
    BY <1>2, ValidsType DEF Valids
  <2> QED
    BY <2>1, <2>2
<1>7. Cardinality(U) = l - Cardinality(M) /\ Cardinality(U) \in Nat
  <2> HIDE DEF M
  <2>1. (1 .. l) \cap M = M
    BY <1>4
  <2>2. IsFiniteSet(U)
    BY <1>3, <1>4, FS_Subset
  <2> HIDE DEF l
  <2>3. Cardinality((1 .. l) \ M) = Cardinality(1 .. l) - Cardinality((1 .. l) \cap M)
    BY <1>3, FS_Difference
  <2>4. Cardinality(U) \in Nat
    BY <2>2, FS_CardinalityType
  <2> QED
    BY <1>3, <2>1, <2>3, <2>4 DEF U
<1>8. CounterLimit \in Nat
  BY SizesAssumption
<1> HIDE DEF l, M, U
<1>9. l + 1 < CounterLimit
  BY <1>2, <1>5, <1>6, <1>7, <1>8 DEF Few
<1> QED
  BY <1>2, <1>8, <1>9 DEF l

LEMMA DynPut ==
  ASSUME NEW N, NEW D, NEW d, NEW s, NEW e, NEW b, DynReady(N, D, d, s, e, b), Few(D, b.capacity),
         Ordered(N, d, s), NEW n, Newcomer(N, D, d, n), \A i \in 1 .. Len(b.cand) : b.cand[i].id # n.id
  PROVE  \E f : Puts(N, b, n, f, Dyn!insert_inner(b, n))
<1> DEFINE c == b.cand
           cap == b.capacity
           v == b.valid
           p == PlaceIn(c, n)
           f == Dyn!InsertAt(c, p + 1, n)
           counted == [b EXCEPT !.valid = IF n.valid THEN Dyn!Narrow(@ + 1) ELSE @]
           v1 == IF n.valid THEN v + 1 ELSE v
           x == [counted EXCEPT !.cand = f, !.roi = Dyn!Region(counted, f, n, p)]
           b1 == Dyn!Trim(x)
           b2 == Dyn!insert_inner(b, n)
<1>1. /\ DynShape(N, b) /\ Known(N, D, d, s, e, c) /\ InOrder(d, s, c) /\ Limited(cap, c, v)
      /\ EndsAt(b.target, c, v, b.roi) /\ Holds(N, D, d, s, e, cap, c, v)
  BY DEF DynReady, Ready, Holds
<1>2. /\ c \in Seq(Candidates(N)) /\ Len(c) \in Nat /\ cap \in Nat \ {0} /\ b.target \in 1 .. cap
      /\ b.best \in Nat /\ b.roi \in Nat /\ v \in Nat /\ b.target \in Nat \ {0}
      /\ v = Valids(c, Len(c)) /\ v <= cap /\ (v = cap => Len(c) \in Nat \ {0} /\ c[Len(c)].valid)
      /\ v <= Len(c)
  <2>1. c \in Seq(Candidates(N)) /\ Len(c) \in Nat
    BY <1>1 DEF DynShape
  <2>2. /\ v = Valids(c, Len(c)) /\ v <= cap
        /\ (v = cap => Len(c) \in Nat \ {0} /\ c[Len(c)].valid)
    BY <1>1 DEF Limited
  <2>3. v <= Len(c) /\ v \in Nat
    BY <2>1, <2>2, ValidsFew
  <2> QED
    BY <1>1, <2>1, <2>2, <2>3 DEF DynShape
<1>3. n \in Candidates(N) /\ n.dist \in Nat /\ n.valid \in BOOLEAN /\ n.id \in N
  BY DEF Newcomer, Candidates
<1>4. Len(c) + 1 < CounterLimit
  BY <1>1, <1>2, LenFew
<1>5. PlaceOf(c, n, p) /\ p \in 0 .. Len(c)
  <2>1. Rising(c) /\ \A i \in 1 .. Len(c) : c[i].dist \in Nat
    BY <1>1, HeldRises
  <2>2. PlaceOf(c, n, p)
    BY <1>2, <1>3, <2>1, PlaceIsFound
  <2> QED
    BY <2>2 DEF PlaceOf
<1>6. Dyn!Position(b, n.dist) = p /\ ~Dyn!Repeated(b, n, p)
  <2>1. DOMAIN c = 1 .. Len(c)
    BY <1>2
  <2>2. ~FoundFrom(c, n, p)
    BY <1>1, <1>5, HeldIsFound
  <2> QED
    BY <2>1, <2>2, DynPlace
<1>7. b2 = [b1 EXCEPT !.best = Dyn!Min({@, Dyn!Narrow(p)})]
  BY <1>6 DEF Dyn!insert_inner, Dyn!unsafe_insert
<1> HIDE DEF p, f, b1, b2
<1>8. f \in Seq(Candidates(N)) /\ Len(f) = Len(c) + 1 /\ Inserted(c, Len(c), p, n, f)
  BY <1>2, <1>3, <1>5, PutInserts DEF f
<1>9. Dyn!Narrow(p) = p /\ Dyn!Narrow(v + 1) = v + 1
  <2>1. CounterLimit \in Nat /\ p \in Nat /\ p < CounterLimit /\ v + 1 \in Nat /\ v + 1 < CounterLimit
    BY <1>2, <1>4, <1>5, SizesAssumption
  <2> QED
    BY <2>1, NarrowIs
<1>10. /\ counted = [b EXCEPT !.valid = v1] /\ v1 \in Nat
  BY <1>2, <1>9
<1> HIDE DEF v1, counted
<1>11. counted.target = b.target /\ counted.valid = v1 /\ counted.roi = b.roi /\ counted.best = b.best
       /\ counted.capacity = cap
  BY <1>1, <1>10 DEF DynShape
<1>12. /\ EndsAt(b.target, f, v1, Dyn!Region(counted, f, n, p)) /\ v1 = Valids(f, Len(f))
  <2>1. counted.valid = IF n.valid THEN v + 1 ELSE v
    BY <1>11 DEF v1
  <2>2. Len(f) < CounterLimit
    BY <1>4, <1>8
  <2>3. /\ EndsAt(b.target, f, counted.valid, Dyn!Region(counted, f, n, p))
        /\ counted.valid = Valids(f, Len(f))
    <3>1. Counted(counted, c, n, p, f, b.target, v, b.roi)
      BY <1>1, <1>2, <1>3, <1>5, <1>8, <1>11, <2>1, <2>2 DEF Counted
    <3> QED
      BY <3>1, RegionEnds
  <2> QED
    BY <1>11, <2>3
<1> DEFINE r == Dyn!Region(counted, f, n, p)
<1>13. x = [b EXCEPT !.cand = f, !.valid = v1, !.roi = r]
  BY <1>1, <1>10 DEF DynShape
<1>14. r \in Nat
  BY <1>8, <1>12 DEF EndsAt
<1> HIDE DEF r, x
<1>15. /\ DynShape(N, x) /\ x.cand = f /\ x.valid = v1 /\ x.roi = r /\ x.target = b.target
       /\ x.capacity = cap /\ x.best = b.best
  BY <1>1, <1>8, <1>10, <1>13, <1>14 DEF DynShape
<1>16. v1 <= cap + 1 /\ (v1 > cap => f[Len(f)].valid)
  <2>1. v1 <= cap + 1
    BY <1>2 DEF v1
  <2>2. ASSUME v1 > cap PROVE f[Len(f)].valid
    <3>1. n.valid /\ v = cap /\ Len(c) \in Nat \ {0} /\ c[Len(c)].valid
      BY <1>2, <2>2 DEF v1
    <3>2. CASE p = Len(c)
      BY <1>8, <3>1, <3>2 DEF Inserted
    <3>3. CASE p < Len(c)
      <4>1. Len(c) \in p + 1 .. Len(c)
        BY <1>5, <3>1, <3>3
      <4> QED
        BY <1>8, <3>1, <4>1 DEF Inserted
    <3> QED
      BY <1>5, <3>2, <3>3
  <2> QED
    BY <2>1, <2>2
<1>17. /\ DynShape(N, b1) /\ b1.target = b.target /\ b1.capacity = cap /\ b1.roi = r
       /\ b1.best = b.best /\ CutAt(cap, f, b1.cand) /\ b1.valid = Kept(cap, f)
  <2>1. Len(f) >= 1
    BY <1>2, <1>8
  <2> QED
    BY <1>12, <1>15, <1>16, <2>1, TrimCuts DEF b1, r
<1>18. EndsAt(b.target, b1.cand, b1.valid, b1.roi)
  BY <1>2, <1>8, <1>12, <1>17, CutKeepsEnds DEF r
<1> DEFINE best2 == Dyn!Min({b.best, p})
<1>19. best2 = (IF p < b.best THEN p ELSE b.best) /\ best2 \in Nat
  <2>1. best2 = IF b.best <= p THEN b.best ELSE p
    BY <1>2, <1>5, DynLesser
  <2> HIDE DEF best2
  <2> QED
    BY <1>2, <1>5, <2>1
<1>20. b2 = [b1 EXCEPT !.best = best2]
  BY <1>7, <1>9, <1>17
<1> HIDE DEF best2
<1>21. /\ DynShape(N, b2) /\ b2.target = b.target /\ b2.capacity = cap /\ b2.cand = b1.cand
       /\ b2.valid = b1.valid /\ b2.roi = b1.roi /\ b2.best = best2
  BY <1>17, <1>19, <1>20 DEF DynShape
<1>22. Puts(N, b, n, f, b2)
  BY <1>5, <1>8, <1>17, <1>18, <1>19, <1>21 DEF Puts, p
<1> QED
  BY <1>22 DEF b2

LEMMA DynInsertNew ==
  ASSUME NEW N, NEW D, NEW d, NEW s, NEW e, NEW b, DynReady(N, D, d, s, e, b), Few(D, b.capacity),
         Ordered(N, d, s), NEW n, Newcomer(N, D, d, n), n.id \notin NodesOf(s), n.id \notin e
  PROVE  /\ DynReady(N, D, d, Append(s, n.id), e, Dyn!insert(b, n))
         /\ Dyn!insert(b, n).target = b.target /\ Dyn!insert(b, n).capacity = b.capacity
<1> DEFINE c == b.cand
           p == PlaceIn(c, n)
<1>1. /\ DynShape(N, b) /\ Ready(N, D, d, s, e, b.capacity, b.target, c, b.valid, b.roi, b.best)
      /\ Holds(N, D, d, s, e, b.capacity, c, b.valid) /\ Known(N, D, d, s, e, c)
      /\ b.capacity \in Nat \ {0} /\ b.target \in 1 .. b.capacity
  BY DEF DynReady, Ready, Holds, DynShape
<1>2. \A i \in 1 .. Len(c) : c[i].id # n.id
  BY <1>1 DEF Known
<1>3. CASE Dyn!can_skip(b, n.dist)
  <2>1. Dyn!insert(b, n) = b
    BY <1>3 DEF Dyn!insert
  <2>2. b.valid = b.capacity /\ c[Len(c)].dist < n.dist
    BY <1>3 DEF Dyn!can_skip, Dyn!full, Dyn!Last
  <2>3. Ready(N, D, d, Append(s, n.id), e, b.capacity, b.target, c, b.valid, b.roi, b.best)
    BY <1>1, <2>2, SkipReady
  <2> QED
    BY <1>1, <2>1, <2>3 DEF DynReady
<1>4. CASE ~Dyn!can_skip(b, n.dist)
  <2> DEFINE b2 == Dyn!insert(b, n)
  <2>1. b2 = Dyn!insert_inner(b, n)
    BY <1>4 DEF Dyn!insert
  <2> HIDE DEF b2
  <2>2. PICK f : Puts(N, b, n, f, b2)
    BY <1>2, <2>1, DynPut
  <2>3. /\ PlaceOf(c, n, p)
        /\ f \in Seq(Candidates(N)) /\ Len(f) = Len(c) + 1 /\ Inserted(c, Len(c), p, n, f)
        /\ DynShape(N, b2) /\ b2.target = b.target /\ b2.capacity = b.capacity
        /\ CutAt(b.capacity, f, b2.cand) /\ b2.valid = Kept(b.capacity, f)
        /\ EndsAt(b.target, b2.cand, b2.valid, b2.roi)
        /\ b2.best = IF p < b.best THEN p ELSE b.best
    BY <2>2 DEF Puts
  <2>4. b2.cand \in Seq(Candidates(N))
    BY <2>3 DEF DynShape
  <2>5. Goes(N, D, d, s, e, b.capacity, c, b.valid, n, p, f, b2.cand)
    BY <1>1, <2>3, <2>4 DEF Goes
  <2>6. EndsAt(b.target, b2.cand, Kept(b.capacity, f), b2.roi)
    BY <2>3
  <2>7. Ready(N, D, d, Append(s, n.id), e, b.capacity, b.target, b2.cand, Kept(b.capacity, f),
              b2.roi, IF p < b.best THEN p ELSE b.best)
    BY <1>1, <2>5, <2>6, InsertReady
  <2>8. Ready(N, D, d, Append(s, n.id), e, b2.capacity, b2.target, b2.cand, b2.valid, b2.roi, b2.best)
    BY <2>3, <2>7
  <2> QED
    BY <2>3, <2>8 DEF DynReady, b2
<1> QED
  BY <1>3, <1>4

LEMMA DynInsertMet ==
  ASSUME NEW N, NEW D, NEW d, NEW s, NEW e, NEW b, DynReady(N, D, d, s, e, b), Few(D, b.capacity),
         Ordered(N, d, s), NEW n, Newcomer(N, D, d, n), n.id \in NodesOf(s)
  PROVE  Dyn!insert(b, n) = b
<1> DEFINE c == b.cand
           cap == b.capacity
           p == PlaceIn(c, n)
<1>1. /\ DynShape(N, b) /\ Holds(N, D, d, s, e, cap, c, b.valid) /\ Known(N, D, d, s, e, c)
      /\ InOrder(d, s, c) /\ EndsAt(b.target, c, b.valid, b.roi) /\ CursorAt(c, b.roi, b.best)
      /\ cap \in Nat \ {0} /\ b.target \in 1 .. cap /\ c \in Seq(Candidates(N)) /\ Len(c) \in Nat
      /\ DOMAIN c = 1 .. Len(c)
  BY DEF DynReady, Ready, Holds, DynShape
<1>2. CASE \E i \in 1 .. Len(c) : c[i].id = n.id
  <2>1. Rising(c) /\ \A i \in 1 .. Len(c) : c[i].dist \in Nat
    BY <1>1, HeldRises
  <2>2. n.dist \in Nat
    BY DEF Newcomer, Candidates
  <2>3. PlaceOf(c, n, p)
    BY <1>1, <2>1, <2>2, PlaceIsFound
  <2>4. FoundFrom(c, n, p)
    BY <1>1, <1>2, <2>3, HeldIsFound
  <2>5. Dyn!Repeated(b, n, Dyn!Position(b, n.dist))
    BY <1>1, <2>4, DynPlace
  <2> QED
    BY <2>5 DEF Dyn!insert, Dyn!insert_inner
<1>3. CASE \A i \in 1 .. Len(c) : c[i].id # n.id
  <2>1. /\ b.valid = cap /\ Len(c) \in Nat \ {0} /\ Valids(c, Len(c)) = cap /\ c[Len(c)].valid
        /\ p = Len(c)
    BY <1>1, <1>3, DroppedIsFar
  <2>2. PICK f : Puts(N, b, n, f, Dyn!insert_inner(b, n))
    BY <1>3, DynPut
  <2> DEFINE b2 == Dyn!insert_inner(b, n)
  <2>3. /\ f \in Seq(Candidates(N)) /\ Len(f) = Len(c) + 1 /\ Inserted(c, Len(c), p, n, f)
        /\ DynShape(N, b2) /\ b2.target = b.target /\ b2.capacity = cap
        /\ CutAt(cap, f, b2.cand) /\ b2.valid = Kept(cap, f)
        /\ EndsAt(b.target, b2.cand, b2.valid, b2.roi)
        /\ b2.best = IF p < b.best THEN p ELSE b.best
    BY <2>2 DEF Puts
  <2> HIDE DEF b2, p
  <2>4. \A i \in 1 .. Len(c) : f[i] = c[i]
    BY <2>1, <2>3 DEF Inserted
  <2>5. Valids(f, Len(c)) = cap /\ f[Len(c)].valid
    BY <2>1, <2>4, ValidsSame
  <2>6. ~(Valids(f, Len(f)) < cap)
    <3>1. Len(c) \in Nat /\ Len(c) + 1 \in Nat /\ Len(c) <= Len(c) + 1
      BY <1>1
    <3>2. Valids(f, Len(c)) <= Valids(f, Len(c) + 1) /\ Valids(f, Len(c) + 1) \in Nat
      BY <3>1, ValidsType, ValidsGrow
    <3> QED
      BY <1>1, <2>3, <2>5, <3>2
  <2>7. Len(b2.cand) = Len(c)
    <3>1. /\ Len(b2.cand) \in 1 .. Len(f) /\ Valids(f, Len(b2.cand)) = cap
          /\ f[Len(b2.cand)].valid
      BY <2>3, <2>6 DEF CutAt
    <3>2. Len(b2.cand) \in Nat /\ Len(b2.cand) >= 1 /\ Len(c) >= 1
      BY <1>1, <2>1, <2>3, <3>1
    <3> QED
      BY <1>1, <2>5, <3>1, <3>2, ValidsPlace
  <2>8. b2.cand = c
    <3>1. b2.cand \in Seq(Candidates(N))
      BY <2>3 DEF DynShape
    <3>2. \A i \in 1 .. Len(c) : b2.cand[i] = c[i]
      BY <2>3, <2>4, <2>7 DEF CutAt
    <3> QED
      BY <1>1, <2>7, <3>1, <3>2
  <2>9. b2.valid = b.valid
    BY <2>1, <2>3, <2>6 DEF Kept
  <2>10. b2.roi = b.roi
    <3>1. ~(b.valid < b.target)
      BY <1>1, <2>1
    <3>2. /\ b2.roi \in 1 .. Len(c) /\ Valids(c, b2.roi) = b.target /\ c[b2.roi].valid
          /\ b.roi \in 1 .. Len(c) /\ Valids(c, b.roi) = b.target /\ c[b.roi].valid
      BY <1>1, <2>3, <2>8, <2>9, <3>1 DEF EndsAt
    <3>3. b2.roi \in Nat /\ b.roi \in Nat /\ b2.roi >= 1 /\ b.roi >= 1
      BY <3>2
    <3> QED
      BY <3>2, <3>3, ValidsPlace
  <2>11. b2.best = b.best
    BY <1>1, <2>1, <2>3 DEF EndsAt, CursorAt
  <2>12. b2 = b
    BY <1>1, <2>3, <2>8, <2>9, <2>10, <2>11 DEF DynShape
  <2>13. Dyn!insert(b, n) = b \/ Dyn!insert(b, n) = b2
    BY DEF Dyn!insert, b2
  <2> QED
    BY <2>12, <2>13
<1> QED
  BY <1>2, <1>3

LEMMA DynLeast ==
  ASSUME NEW S, NEW m \in S, S \subseteq Nat
  PROVE  Dyn!Min(S) \in S /\ \A x \in S : Dyn!Min(S) <= x
<1>1. \E x \in S : \A y \in S : x <= y
  BY LeastOf
<1> QED
  BY <1>1, Zenon DEF Dyn!Min

LEMMA DynNext ==
  ASSUME NEW N, NEW D, NEW d, NEW s, NEW e, NEW b, DynReady(N, D, d, s, e, b), Few(D, b.capacity),
         Ordered(N, d, s), ~Dyn!done(b)
  PROVE  /\ DynReady(N, D, d, s, e \cup {b.cand[b.best + 1].id}, Dyn!next(b))
         /\ Dyn!next(b).target = b.target /\ Dyn!next(b).capacity = b.capacity
         /\ b.best < b.roi
<1> DEFINE c == b.cand
           u == b.roi
<1>1. /\ DynShape(N, b) /\ Ready(N, D, d, s, e, b.capacity, b.target, c, b.valid, u, b.best)
      /\ Known(N, D, d, s, e, c) /\ InOrder(d, s, c)
      /\ EndsAt(b.target, c, b.valid, u) /\ CursorAt(c, u, b.best)
      /\ b.capacity \in Nat \ {0} /\ b.target \in 1 .. b.capacity
      /\ c \in Seq(Candidates(N)) /\ Len(c) \in Nat /\ u \in Nat /\ b.best \in Nat
  BY DEF DynReady, Ready, Holds, DynShape
<1>2. Len(c) < CounterLimit /\ CounterLimit \in Nat
  <2>1. Holds(N, D, d, s, e, b.capacity, c, b.valid)
    BY <1>1 DEF Ready
  <2>2. Len(c) \in Nat /\ CounterLimit \in Nat /\ Len(c) + 1 < CounterLimit
    BY <1>1, <2>1, LenFew
  <2> QED
    BY <2>2
<1>3. b.best < u /\ u \in 1 .. Len(c) /\ b.best + 1 \in 1 .. Len(c)
  <2>1. b.best # u
    BY <1>1 DEF Dyn!done, EndsAt
  <2>2. u \in 0 .. Len(c) /\ b.best \in 0 .. u
    BY <1>1 DEF EndsAt, CursorAt
  <2> QED
    BY <1>1, <2>1, <2>2
<1> DEFINE m == [c EXCEPT ![b.best + 1].visited = TRUE]
           K == {k \in 1 .. CounterLimit :
                   LET i == Dyn!Narrow(b.best + k)
                   IN  i = b.roi \/ (i < Len(m) /\ ~Dyn!At(m, i).visited)}
           k0 == Dyn!Min(K)
           b2 == Dyn!next(b)
<1>4. b2 = [b EXCEPT !.cand = m, !.best = Dyn!Narrow(b.best + k0)]
  BY DEF Dyn!next, Dyn!Advance
<1>5. /\ m \in Seq(Candidates(N)) /\ Len(m) = Len(c)
      /\ m[b.best + 1] = [c[b.best + 1] EXCEPT !.visited = TRUE]
      /\ \A j \in 1 .. Len(c) : j # b.best + 1 => m[j] = c[j]
  <2>1. c[b.best + 1] \in Candidates(N)
    BY <1>1, <1>3
  <2>2. [c[b.best + 1] EXCEPT !.visited = TRUE] \in Candidates(N)
    BY <2>1 DEF Candidates
  <2> QED
    BY <1>1, <1>3, <2>2
<1> HIDE DEF m
<1>6. \A k \in 1 .. u - b.best : Dyn!Narrow(b.best + k) = b.best + k
  <2> TAKE k \in 1 .. u - b.best
  <2>1. b.best + k \in Nat /\ b.best + k < CounterLimit
    BY <1>1, <1>2, <1>3
  <2> QED
    BY <2>1, NarrowIs
<1>7. \A k \in 1 .. u - b.best :
        k \in K <=> (b.best + k = u \/ (b.best + k < Len(c) /\ ~m[(b.best + k) + 1].visited))
  <2> TAKE k \in 1 .. u - b.best
  <2>1. k \in 1 .. CounterLimit /\ Dyn!Narrow(b.best + k) = b.best + k
    BY <1>1, <1>2, <1>3, <1>6
  <2> QED
    BY <1>5, <2>1 DEF Dyn!At
<1>8. k0 \in K /\ k0 \in 1 .. u - b.best /\ \A k \in K : k0 <= k
  <2>1. u - b.best \in 1 .. u - b.best /\ b.best + (u - b.best) = u
    BY <1>1, <1>3
  <2>2. u - b.best \in K /\ K \subseteq Nat
    BY <1>7, <2>1
  <2> HIDE DEF K
  <2>3. k0 \in K /\ \A k \in K : k0 <= k
    BY <2>2, DynLeast
  <2> HIDE DEF k0
  <2>4. k0 >= 1
    BY <2>3 DEF K
  <2> QED
    BY <1>1, <2>2, <2>3, <2>4
<1> HIDE DEF K, k0
<1> DEFINE best2 == b.best + k0
<1>9. /\ Dyn!Narrow(b.best + k0) = best2 /\ best2 \in Nat /\ best2 \in b.best + 1 .. u
      /\ best2 < u => ~m[best2 + 1].visited
      /\ \A i \in b.best + 2 .. best2 : m[i].visited
  <2>1. Dyn!Narrow(b.best + k0) = best2 /\ best2 \in Nat /\ best2 \in b.best + 1 .. u
    BY <1>1, <1>6, <1>8
  <2>2. best2 < u => ~m[best2 + 1].visited
    <3>1. b.best + k0 = u \/ (b.best + k0 < Len(c) /\ ~m[(b.best + k0) + 1].visited)
      BY <1>7, <1>8
    <3> QED
      BY <1>1, <2>1, <3>1
  <2>3. ASSUME NEW i \in b.best + 2 .. best2 PROVE m[i].visited
    <3>3. i \in Nat /\ b.best + 2 <= i /\ i <= b.best + k0 /\ k0 \in Nat /\ k0 <= u - b.best
      BY <1>1, <1>8, <2>1
    <3>1. /\ (i - 1) - b.best \in 1 .. u - b.best /\ (i - 1) - b.best < k0
          /\ b.best + ((i - 1) - b.best) = i - 1 /\ (i - 1) + 1 = i /\ i - 1 < Len(c)
      <4>1. b.best \in Nat /\ u \in Nat /\ Len(c) \in Nat /\ u <= Len(c)
        BY <1>1, <1>3
      <4> HIDE DEF c, u
      <4>2. (i - 1) - b.best >= 1 /\ (i - 1) - b.best < k0 /\ (i - 1) - b.best \in Int
        BY <3>3, <4>1
      <4>3. (i - 1) - b.best <= u - b.best /\ u - b.best \in Int
        BY <3>3, <4>1, <4>2
      <4>4. i - 1 < Len(c)
        BY <3>3, <4>1
      <4> QED
        BY <3>3, <4>1, <4>2, <4>3, <4>4
    <3>2. (i - 1) - b.best \notin K
      BY <1>8, <3>1
    <3> QED
      BY <1>7, <3>1, <3>2
  <2> QED
    BY <2>1, <2>2, <2>3
<1> HIDE DEF best2, b2
<1>10. b2 = [b EXCEPT !.cand = m, !.best = best2]
  BY <1>4, <1>9
<1>11. /\ b2.capacity = b.capacity /\ b2.target = b.target /\ b2.valid = b.valid /\ b2.roi = u
       /\ b2.best = best2 /\ b2.cand = m /\ DynShape(N, b2)
  BY <1>1, <1>5, <1>9, <1>10 DEF DynShape
<1>12. Marks(N, c, b.best + 1, m)
  BY <1>5 DEF Marks
<1>13. Ready(N, D, d, s, e \cup {c[b.best + 1].id}, b.capacity, b.target, m, b.valid, u, best2)
  BY <1>1, <1>3, <1>9, <1>12, MarkReady
<1> QED
  BY <1>3, <1>11, <1>13 DEF DynReady, b2

LEMMA DynStart ==
  ASSUME NEW N, NEW D, NEW d \in [N -> Nat], NEW n, Newcomer(N, D, d, n), NEW b,
         DynShape(N, b), Few(D, b.capacity)
  PROVE  LET b2 == Dyn!sort(Dyn!push_back(Dyn!clear(b), n))
         IN  /\ DynReady(N, D, d, <<n.id>>, {}, b2)
             /\ b2.target = b.target /\ b2.capacity = b.capacity
<1> DEFINE y == Dyn!clear(b)
           x == Dyn!push_back(y, n)
           b2 == Dyn!sort(x)
           v == IF n.valid THEN 1 ELSE 0
           c == <<n>>
<1>1. /\ n \in Candidates(N) /\ n.dist \in Nat /\ n.valid \in BOOLEAN /\ n.id \in N
      /\ b.capacity \in Nat \ {0} /\ b.target \in 1 .. b.capacity /\ b.target \in Nat
  BY DEF Newcomer, Candidates, DynShape
<1>2. 1 < CounterLimit
  <2>1. Cardinality(D) \in Nat
    BY FS_CardinalityType DEF Few
  <2> QED
    BY <1>1, <2>1, SizesAssumption DEF Few
<1>3. Dyn!Narrow(1) = 1
  BY <1>2, NarrowIs
<1>4. /\ c \in Seq(Candidates(N)) /\ Len(c) = 1 /\ c[1] = n /\ c = [i \in 1 .. 1 |-> n]
  BY <1>1
<1>5. /\ y.valid = 0 /\ y.cand = <<>> /\ y.capacity = b.capacity /\ y.target = b.target
      /\ y.best = 0 /\ y.roi = 0 /\ DynShape(N, y)
  <2>1. <<>> \in Seq(Candidates(N)) /\ 0 \in Nat
    OBVIOUS
  <2>2. y = [b EXCEPT !.cand = <<>>, !.best = 0, !.roi = 0, !.valid = 0]
    BY DEF Dyn!clear
  <2> HIDE DEF y
  <2> QED
    BY <2>1, <2>2 DEF DynShape
<1>6. /\ x.cand = c /\ x.valid = v /\ x.roi = 1 /\ x.capacity = b.capacity
      /\ x.target = b.target /\ x.best = 0 /\ DynShape(N, x)
  <2>1. x = [y EXCEPT !.cand = Append(@, n), !.valid = IF n.valid THEN Dyn!Narrow(@ + 1) ELSE @,
                      !.roi = Dyn!Narrow(Len(y.cand) + 1)]
    BY <1>1, <1>5 DEF Dyn!push_back, Dyn!full
  <2>2. Append(<<>>, n) = c /\ Len(<<>>) + 1 = 1 /\ 0 + 1 = 1
    OBVIOUS
  <2> HIDE DEF y, x, c
  <2>3. x = [y EXCEPT !.cand = c, !.valid = v, !.roi = 1]
    BY <1>3, <1>5, <2>1, <2>2
  <2> QED
    BY <1>4, <1>5, <2>3 DEF DynShape
<1> HIDE DEF y, x, c
<1>7. Dyn!Sorted(c) = c
  BY <1>1, <1>4, SortsAreOne, SortOne
<1>8. /\ Ordered(N, d, <<n.id>>) /\ NodesOf(<<n.id>>) = {n.id}
      /\ Ready(N, D, d, <<n.id>>, {}, b.capacity, b.target, c, v, 1, 0) /\ Valids(c, 1) = v
  <2>1. c \in Seq(Candidates(N)) /\ Len(c) = 1 /\ c[1] = n
    BY <1>4
  <2>2. d \in [N -> Nat] /\ Newcomer(N, D, d, n) /\ b.capacity \in Nat \ {0}
        /\ b.target \in 1 .. b.capacity
    BY <1>1
  <2> HIDE DEF c
  <2>3. Ready(N, D, d, <<n.id>>, {}, b.capacity, b.target, c, IF n.valid THEN 1 ELSE 0, 1, 0)
    BY <2>1, <2>2, OneReady
  <2>4. Ordered(N, d, <<n.id>>) /\ NodesOf(<<n.id>>) = {n.id}
    BY <2>1, <2>2, OneReady
  <2>5. Valids(c, 1) = v
    BY <2>1, <2>2, OneReady
  <2> QED
    BY <2>3, <2>4, <2>5
<1> DEFINE roi == IF x.valid < x.target THEN Dyn!Narrow(Len(c))
                  ELSE Dyn!Min({i \in DOMAIN c : Dyn!Count(c, i) = x.target})
           trims == x.valid >= x.target /\ Dyn!full(x)
           held == IF trims THEN SubSeq(c, 1, Dyn!WalkBack(c, Len(c) - 1) + 1) ELSE c
<1>9. b2 = [x EXCEPT !.roi = roi, !.cand = held]
  BY <1>6, <1>7 DEF Dyn!sort
<1>10. roi = 1
  <2>1. CASE x.valid < x.target
    BY <1>3, <1>4, <2>1
  <2>2. CASE ~(x.valid < x.target)
    <3>1. x.target = 1 /\ v = 1
      BY <1>1, <1>6, <2>2
    <3>2. Dyn!Count(c, 1) = 1
      <4>1. Dyn!Count(c, 1) = Valids(c, 1)
        BY DEF Dyn!Count, Cardinality, Dyn!Cardinality, Valids, Marked
      <4> QED
        BY <1>8, <3>1, <4>1
    <3>3. DOMAIN c = {1}
      BY <1>4
    <3>4. {i \in DOMAIN c : Dyn!Count(c, i) = x.target} = {1, 1}
      BY <3>1, <3>2, <3>3
    <3>5. Dyn!Min({1, 1}) = 1
      BY DynLesser
    <3> QED
      BY <2>2, <3>4, <3>5
  <2> QED
    BY <2>1, <2>2
<1>11. held = c
  <2>1. CASE trims
    <3>1. v = 1
      BY <1>1, <1>6, <2>1
    <3>2. Dyn!WalkBack(c, Len(c) - 1) = 0
      <4>1. Len(c) - 1 = 1 - 1 /\ 1 \in Nat \ {0} /\ Valids(c, 1) >= 1
        BY <1>4, <1>8, <3>1
      <4> DEFINE w == Dyn!WalkBack(c, 1 - 1)
      <4>2. w \in 0 .. 1 - 1
        BY <4>1, WalkBackTo
      <4> HIDE DEF w
      <4>3. w = 0
        BY <4>2
      <4> QED
        BY <4>1, <4>3 DEF w
    <3>3. SubSeq(c, 1, 1) = c
      BY <1>4
    <3> QED
      BY <2>1, <3>2, <3>3
  <2>2. CASE ~trims
    BY <2>2
  <2> QED
    BY <2>1, <2>2
<1> HIDE DEF roi, held, b2, trims
<1>12. /\ b2.cand = c /\ b2.valid = v /\ b2.roi = 1 /\ b2.best = 0 /\ b2.capacity = b.capacity
       /\ b2.target = b.target /\ DynShape(N, b2)
  BY <1>4, <1>6, <1>9, <1>10, <1>11 DEF DynShape
<1> QED
  BY <1>8, <1>12 DEF DynReady, b2, x, y

-----------------------------------------------------------------------------
(***************************************************************************)
(* The row of the result.                                                  *)
(***************************************************************************)
\* r has the k nearest that are not deleted, each at its rank.
RowOf(N, D, d, s, k, r) ==
  /\ r \in [1 .. k -> N \cup {Missing}]
  /\ \A x \in Near(D, d, s, k) \ D : r[Cardinality(Nearers(D, d, s, x)) + 1] = x

LEMMA NearIsHeld ==
  ASSUME NEW N, NEW D, NEW d, NEW s, NEW e, NEW cap \in Nat \ {0}, NEW c, NEW v,
         Ordered(N, d, s), Holds(N, D, d, s, e, cap, c, v), NEW k \in 1 .. cap,
         NEW x \in Near(D, d, s, k) \ D
  PROVE  \E i \in 1 .. Len(c) :
           /\ c[i].id = x /\ c[i].valid
           /\ Cardinality(Nearers(D, d, s, x)) + 1 = Valids(c, i) /\ Valids(c, i) \in 1 .. k
<1>1. x \in NodesOf(s) /\ x \notin D /\ Cardinality(Nearers(D, d, s, x)) < k
  BY DEF Near
<1>2. \E i \in 1 .. Len(c) : c[i].id = x
  <2> SUFFICES ASSUME \A i \in 1 .. Len(c) : c[i].id # x PROVE FALSE
    OBVIOUS
  <2>1. Cardinality(Nearers(D, d, s, x)) \in Nat /\ Cardinality(Nearers(D, d, s, x)) >= cap
    BY <1>1, RankBeyond
  <2> QED
    BY <1>1, <2>1
<1>3. PICK i \in 1 .. Len(c) : c[i].id = x
  BY <1>2
<1>4. c[i].valid /\ Len(c) \in Nat /\ i \in Nat \ {0}
  BY <1>1, <1>3 DEF Holds, Known
<1>5. Cardinality(Nearers(D, d, s, x)) = Valids(c, i - 1)
  BY <1>3, RankOf
<1>6. Valids(c, i - 1) \in Nat /\ Valids(c, i) = Valids(c, i - 1) + 1
  BY <1>4, ValidsLast
<1>7. Valids(c, i) \in 1 .. k
  BY <1>1, <1>5, <1>6
<1> QED
  BY <1>3, <1>4, <1>5, <1>6, <1>7

LEMMA FlatRow ==
  ASSUME NEW N, NEW d, NEW s, NEW e, NEW b, FlatReady(N, d, s, e, b), Ordered(N, d, s),
         NEW k \in 1 .. b.capacity
  PROVE  RowOf(N, {}, d, s, k, [j \in 1 .. k |-> b.cand[j - 1].id])
<1> DEFINE c == HeldOf(b)
           r == [j \in 1 .. k |-> b.cand[j - 1].id]
<1>1. /\ FlatShape(N, b) /\ Holds(N, {}, d, s, e, b.capacity, c, b.size) /\ Known(N, {}, d, s, e, c)
  BY DEF FlatReady, Ready, Holds
<1>2. /\ Len(c) = b.size /\ \A i \in 1 .. b.size : c[i] = b.cand[i - 1]
      /\ b.capacity \in Nat \ {0} /\ b.size \in 0 .. b.capacity
      /\ b.cand \in [0 .. b.capacity -> Candidates(N)]
  BY <1>1, FlatHeld DEF FlatShape
<1> HIDE DEF c
<1>3. r \in [1 .. k -> N]
  <2>1. \A j \in 1 .. k : b.cand[j - 1].id \in N
    <3> TAKE j \in 1 .. k
    <3>1. j - 1 \in 0 .. b.capacity
      BY <1>2
    <3>2. b.cand[j - 1] \in Candidates(N)
      BY <1>2, <3>1
    <3> QED
      BY <3>2 DEF Candidates
  <2> QED
    BY <2>1
<1>4. ASSUME NEW x \in Near({}, d, s, k) \ {}
      PROVE  r[Cardinality(Nearers({}, d, s, x)) + 1] = x
  <2>1. PICK i \in 1 .. Len(c) : /\ c[i].id = x
                                 /\ Cardinality(Nearers({}, d, s, x)) + 1 = Valids(c, i)
                                 /\ Valids(c, i) \in 1 .. k
    BY <1>1, <1>2, NearIsHeld
  <2>2. Valids(c, i) = i
    BY <1>1, <1>2, FlatCounts
  <2> QED
    BY <1>2, <2>1, <2>2
<1> HIDE DEF r
<1>5. RowOf(N, {}, d, s, k, r)
  BY <1>3, <1>4 DEF RowOf
<1> QED
  BY <1>5 DEF r

LEMMA CountIs ==
  ASSUME NEW c, NEW i
  PROVE  Dyn!Count(c, i) = Valids(c, i)
  BY DEF Dyn!Count, Cardinality, Dyn!Cardinality, Valids, Marked

LEMMA NthExists ==
  ASSUME NEW c
  PROVE  \A l \in Nat : \A i \in 1 .. Valids(c, l) : \E j \in 1 .. l : c[j].valid /\ Valids(c, j) = i
<1> DEFINE P == {l \in Nat : \A i \in 1 .. Valids(c, l) :
                               \E j \in 1 .. l : c[j].valid /\ Valids(c, j) = i}
<1>1. 0 \in P
  <2>1. Valids(c, 0) = 0
    BY ValidsStep
  <2> QED
    BY <2>1
<1>2. ASSUME NEW l \in P PROVE l + 1 \in P
  <2>1. l \in Nat /\ Valids(c, l) \in Nat
    BY ValidsType
  <2>2. \A i \in 1 .. Valids(c, l) : \E j \in 1 .. l + 1 : c[j].valid /\ Valids(c, j) = i
    <3> TAKE i \in 1 .. Valids(c, l)
    <3>1. PICK j \in 1 .. l : c[j].valid /\ Valids(c, j) = i
      OBVIOUS
    <3>2. j \in 1 .. l + 1
      BY <2>1
    <3> QED
      BY <3>1, <3>2
  <2>3. CASE c[l + 1].valid
    <3>1. Valids(c, l + 1) = Valids(c, l) + 1
      BY <2>1, <2>3, ValidsStep
    <3>2. l + 1 \in 1 .. l + 1
      BY <2>1
    <3>3. \A i \in 1 .. Valids(c, l + 1) : i \in 1 .. Valids(c, l) \/ i = Valids(c, l + 1)
      BY <2>1, <3>1
    <3>4. \A i \in 1 .. Valids(c, l + 1) : \E j \in 1 .. l + 1 : c[j].valid /\ Valids(c, j) = i
      BY <2>2, <2>3, <3>2, <3>3
    <3> QED
      BY <2>1, <3>4
  <2>4. CASE ~c[l + 1].valid
    <3>1. Valids(c, l + 1) = Valids(c, l)
      BY <2>1, <2>4, ValidsStep
    <3> QED
      BY <2>1, <2>2, <3>1
  <2> QED
    BY <2>3, <2>4
<1> HIDE DEF P
<1>3. \A l \in Nat : l \in P
  BY <1>1, <1>2, SetInduction
<1> QED
  BY <1>3 DEF P

LEMMA NthIs ==
  ASSUME NEW S, NEW c \in Seq(S), NEW j \in 1 .. Len(c), c[j].valid
  PROVE  Dyn!NthValid(c, Valids(c, j)) = c[j]
<1> DEFINE k == CHOOSE l \in DOMAIN c : c[l].valid /\ Dyn!Count(c, l) = Valids(c, j)
<1>1. DOMAIN c = 1 .. Len(c) /\ Len(c) \in Nat
  OBVIOUS
<1>2. \E l \in DOMAIN c : c[l].valid /\ Dyn!Count(c, l) = Valids(c, j)
  BY <1>1, CountIs
<1>3. k \in DOMAIN c /\ c[k].valid /\ Dyn!Count(c, k) = Valids(c, j)
  BY <1>2, Zenon
<1> HIDE DEF k
<1>4. k = j
  <2>1. k \in Nat /\ j \in Nat /\ k >= 1 /\ j >= 1 /\ Valids(c, k) = Valids(c, j)
    BY <1>1, <1>3, CountIs
  <2> QED
    BY <1>3, <2>1, ValidsPlace
<1>5. Dyn!NthValid(c, Valids(c, j)) = c[k]
  BY DEF Dyn!NthValid, k
<1> QED
  BY <1>4, <1>5

\* cleanup() leaves the valid candidates.
LEMMA CleanupLeaves ==
  ASSUME NEW N, NEW b, DynShape(N, b)
  PROVE  LET b2 == Dyn!cleanup(b)
         IN  /\ DynShape(N, b2) /\ b2.target = b.target /\ b2.capacity = b.capacity
             /\ Len(b2.cand) = Valids(b.cand, Len(b.cand)) /\ Len(b2.cand) <= Len(b.cand)
             /\ \A i \in 1 .. Len(b.cand) :
                  b.cand[i].valid => b2.cand[Valids(b.cand, i)] = b.cand[i]
<1> DEFINE c == b.cand
           l == Len(c)
           g == [i \in 1 .. Dyn!Count(c, l) |-> Dyn!NthValid(c, i)]
           b2 == Dyn!cleanup(b)
<1>1. c \in Seq(Candidates(N)) /\ l \in Nat
  BY DEF DynShape
<1>2. Dyn!Count(c, l) = Valids(c, l) /\ Valids(c, l) \in Nat /\ Valids(c, l) <= l
  BY <1>1, CountIs, ValidsFew
<1>3. \A i \in 1 .. Valids(c, l) : Dyn!NthValid(c, i) \in Candidates(N)
  <2> TAKE i \in 1 .. Valids(c, l)
  <2>1. PICK j \in 1 .. l : c[j].valid /\ Valids(c, j) = i
    BY <1>1, NthExists
  <2>2. Dyn!NthValid(c, i) = c[j]
    BY <1>1, <2>1, NthIs
  <2> QED
    BY <1>1, <2>2
<1>4. g \in Seq(Candidates(N)) /\ Len(g) = Valids(c, l)
  BY <1>2, <1>3
<1>5. \A i \in 1 .. l : c[i].valid => g[Valids(c, i)] = c[i]
  <2> SUFFICES ASSUME NEW i \in 1 .. l, c[i].valid PROVE g[Valids(c, i)] = c[i]
    OBVIOUS
  <2>1. i \in Nat \ {0} /\ i <= l
    BY <1>1
  <2>2. Valids(c, i) >= 1 /\ Valids(c, i) <= Valids(c, l) /\ Valids(c, i) \in Nat
    <3>1. Valids(c, i - 1) \in Nat /\ Valids(c, i) = Valids(c, i - 1) + 1
      BY <2>1, ValidsLast
    <3>2. Valids(c, i) <= Valids(c, l)
      BY <1>1, <2>1, ValidsGrow
    <3> QED
      BY <3>1, <3>2
  <2>3. g[Valids(c, i)] = Dyn!NthValid(c, Valids(c, i))
    BY <1>2, <2>2
  <2> QED
    BY <1>1, <2>3, NthIs
<1>6. b2 = [b EXCEPT !.cand = g]
  BY DEF Dyn!cleanup
<1> HIDE DEF g, b2
<1>7. b2.cand = g /\ b2.target = b.target /\ b2.capacity = b.capacity /\ DynShape(N, b2)
  BY <1>4, <1>6 DEF DynShape
<1> QED
  BY <1>2, <1>4, <1>5, <1>7 DEF b2

LEMMA DynRow ==
  ASSUME NEW N, NEW D, NEW d, NEW s, NEW e, NEW b, DynReady(N, D, d, s, e, b), Ordered(N, d, s),
         NEW k \in 1 .. b.capacity, NEW g, g = Dyn!cleanup(b).cand
  PROVE  RowOf(N, D, d, s, k, [j \in 1 .. k |-> IF j <= Len(g) THEN g[j].id ELSE Missing])
<1> DEFINE c == b.cand
           r == [j \in 1 .. k |-> IF j <= Len(g) THEN g[j].id ELSE Missing]
<1>1. /\ DynShape(N, b) /\ Holds(N, D, d, s, e, b.capacity, c, b.valid)
      /\ b.capacity \in Nat \ {0} /\ c \in Seq(Candidates(N)) /\ Len(c) \in Nat
  BY DEF DynReady, Ready, DynShape
<1>2. /\ g \in Seq(Candidates(N)) /\ Len(g) = Valids(c, Len(c))
      /\ \A i \in 1 .. Len(c) : c[i].valid => g[Valids(c, i)] = c[i]
  BY <1>1, CleanupLeaves DEF DynShape
<1>3. r \in [1 .. k -> N \cup {Missing}]
  <2>1. \A j \in 1 .. k : j <= Len(g) => g[j].id \in N
    <3> SUFFICES ASSUME NEW j \in 1 .. k, j <= Len(g) PROVE g[j].id \in N
      OBVIOUS
    <3>1. g[j] \in Candidates(N)
      BY <1>1, <1>2
    <3> QED
      BY <3>1 DEF Candidates
  <2> QED
    BY <2>1
<1>4. ASSUME NEW x \in Near(D, d, s, k) \ D
      PROVE  r[Cardinality(Nearers(D, d, s, x)) + 1] = x
  <2>1. PICK i \in 1 .. Len(c) : /\ c[i].id = x /\ c[i].valid
                                 /\ Cardinality(Nearers(D, d, s, x)) + 1 = Valids(c, i)
                                 /\ Valids(c, i) \in 1 .. k
    BY <1>1, NearIsHeld
  <2>2. Valids(c, i) <= Len(g)
    BY <1>1, <1>2, ValidsGrow
  <2>3. r[Valids(c, i)] = g[Valids(c, i)].id
    BY <2>1, <2>2
  <2> QED
    BY <1>2, <2>1, <2>3
<1> HIDE DEF r
<1>5. RowOf(N, D, d, s, k, r)
  BY <1>3, <1>4 DEF RowOf
<1> QED
  BY <1>5 DEF r

-----------------------------------------------------------------------------
(***************************************************************************)
(* Both kinds of index.                                                    *)
(***************************************************************************)
\* The counters of a dynamic buffer, which holds no more valid neighbors than its capacity,
\* have room for these, one more, and all deleted nodes.
SmallIndexes ==
  \A x \in Indexes : x.kind = "dynamic" =>
    \A cap \in {x.capacity, x.k} : cap + Cardinality(x.deleted) + 1 < CounterLimit

Fits(x, b) ==
  IF x.kind = "static" THEN FlatShape(DOMAIN x.graph, b)
  ELSE /\ DynShape(DOMAIN x.graph, b) /\ Len(b.cand) <= CounterLimit
       /\ b.capacity \in {x.capacity, x.k}

ReadyFor(x, d, s, e, b) ==
  IF x.kind = "static" THEN FlatReady(DOMAIN x.graph, d, s, e, b)
  ELSE DynReady(DOMAIN x.graph, x.deleted, d, s, e, b) /\ b.capacity \in {x.capacity, x.k}

WindowOf(x, b) == IF x.kind = "static" THEN b.window ELSE b.target

SameLimits(x, b, b2) == WindowOf(x, b2) = WindowOf(x, b) /\ b2.capacity = b.capacity

CandidateOf(x, d, id) == [id |-> id, dist |-> d[id], visited |-> FALSE, valid |-> id \notin x.deleted]

LEMMA IndexIs ==
  ASSUME NEW x \in Indexes
  PROVE  /\ IsFiniteSet(DOMAIN x.graph) /\ Entry \in DOMAIN x.graph /\ 0 \in DOMAIN x.graph
         /\ DOMAIN x.graph \subseteq 0 .. Slots * (Uppers - 1) - 1
         /\ \A n \in DOMAIN x.graph : x.graph[n] \in Seq(DOMAIN x.graph)
         /\ x.kind \in {"static", "dynamic"} /\ (x.kind = "static" => x.deleted = {})
         /\ (x.kind = "dynamic" => ~x.filtered) /\ IsFiniteSet(x.deleted)
         /\ x.capacity \in Nat /\ x.window \in 1 .. x.capacity /\ x.k \in Nat \ {0}
         /\ Queries \cup LaterQueries \subseteq [DOMAIN x.graph -> Nat]
<1>1. /\ Entry \in DOMAIN x.graph
      /\ \A n \in DOMAIN x.graph : x.graph[n] \in Seq(DOMAIN x.graph)
      /\ x.kind \in {"static", "dynamic"} /\ (x.kind = "static" => x.deleted = {})
      /\ (x.kind = "dynamic" => ~x.filtered) /\ x.deleted \subseteq DOMAIN x.graph
      /\ x.capacity \in Nat /\ x.window \in 1 .. x.capacity /\ x.k \in Nat \ {0}
      /\ Queries \cup LaterQueries \subseteq [DOMAIN x.graph -> Nat]
  BY SearchAssumption
<1>2. PICK n \in 1 .. Slots * (Uppers - 1) : DOMAIN x.graph = 0 .. n - 1
  BY SearchAssumption
<1> DEFINE most == Slots * (Uppers - 1)
<1>3. most \in Int
  BY SizesAssumption
<1>4. n \in 1 .. most
  BY <1>2
<1> HIDE DEF most
<1>5. 0 \in 0 .. n - 1 /\ 0 .. n - 1 \subseteq 0 .. most - 1 /\ n - 1 \in Int
  BY <1>3, <1>4
<1>6. IsFiniteSet(DOMAIN x.graph) /\ IsFiniteSet(x.deleted)
  <2>1. IsFiniteSet(0 .. n - 1)
    BY <1>5, FS_Interval
  <2> QED
    BY <1>1, <1>2, <2>1, FS_Subset
<1> QED
  BY <1>1, <1>2, <1>5, <1>6 DEF most

LEMMA FewDeleted ==
  ASSUME SmallIndexes, NEW x \in Indexes, x.kind # "static", NEW cap \in {x.capacity, x.k}
  PROVE  Few(x.deleted, cap)
BY IndexIs DEF SmallIndexes, Few

LEMMA CandidateIsNew ==
  ASSUME NEW x \in Indexes, NEW d \in [DOMAIN x.graph -> Nat], NEW id \in DOMAIN x.graph
  PROVE  Newcomer(DOMAIN x.graph, x.deleted, d, CandidateOf(x, d, id)) /\ CandidateOf(x, d, id).id = id
  BY DEF Newcomer, Candidates, CandidateOf

\* A buffer that is ready fits.
LEMMA ReadyFits ==
  ASSUME SmallIndexes, NEW x \in Indexes, NEW d, NEW s, NEW e, NEW b, ReadyFor(x, d, s, e, b),
         Ordered(DOMAIN x.graph, d, s)
  PROVE  Fits(x, b)
<1>1. CASE x.kind = "static"
  BY <1>1 DEF ReadyFor, Fits, FlatReady
<1>2. CASE x.kind # "static"
  <2>1. /\ DynShape(DOMAIN x.graph, b) /\ b.capacity \in {x.capacity, x.k} /\ b.capacity \in Nat
        /\ Holds(DOMAIN x.graph, x.deleted, d, s, e, b.capacity, b.cand, b.valid)
    BY <1>2 DEF ReadyFor, DynReady, Ready, DynShape
  <2>2. Few(x.deleted, b.capacity)
    BY <1>2, <2>1, FewDeleted
  <2>3. Len(b.cand) \in Nat /\ CounterLimit \in Nat /\ Len(b.cand) + 1 < CounterLimit
    BY <2>1, <2>2, LenFew
  <2>4. Len(b.cand) <= CounterLimit
    BY <2>3
  <2> QED
    BY <1>2, <2>1, <2>4 DEF Fits
<1> QED
  BY <1>1, <1>2

LEMMA StartIsReady ==
  ASSUME SmallIndexes, NEW x \in Indexes, NEW d \in [DOMAIN x.graph -> Nat], NEW b, Fits(x, b),
         NEW b2, b2 = IF x.kind = "static"
                      THEN Flat!sort(Flat!push_back(Flat!clear(b), CandidateOf(x, d, Entry)))
                      ELSE Dyn!sort(Dyn!push_back(Dyn!clear(b), CandidateOf(x, d, Entry)))
  PROVE  /\ Ordered(DOMAIN x.graph, d, <<Entry>>) /\ NodesOf(<<Entry>>) = {Entry}
         /\ ReadyFor(x, d, <<Entry>>, {}, b2) /\ SameLimits(x, b, b2)
<1> DEFINE n == CandidateOf(x, d, Entry)
           N == DOMAIN x.graph
<1>1. Newcomer(N, x.deleted, d, n) /\ n.id = Entry /\ Entry \in N
  BY IndexIs, CandidateIsNew
<1> HIDE DEF n, N
<1>2. Ordered(N, d, <<Entry>>) /\ NodesOf(<<Entry>>) = {Entry}
  <2>1. <<Entry>> \in Seq(N) /\ DOMAIN <<Entry>> = {1} /\ <<Entry>>[1] = Entry
    BY <1>1
  <2> QED
    BY <2>1 DEF Ordered, NodesOf, N
<1>3. CASE x.kind = "static"
  <2>1. x.deleted = {} /\ FlatShape(N, b) /\ d \in [N -> Nat]
    BY <1>3, IndexIs DEF Fits, N
  <2>2. b2 = Flat!sort(Flat!push_back(Flat!clear(b), n))
    BY <1>3 DEF n
  <2>3. FlatReady(N, d, <<n.id>>, {}, b2) /\ b2.window = b.window /\ b2.capacity = b.capacity
    BY <1>1, <2>1, <2>2, FlatStart
  <2> QED
    BY <1>1, <1>2, <1>3, <2>3 DEF ReadyFor, SameLimits, WindowOf, N
<1>4. CASE x.kind # "static"
  <2>1. /\ DynShape(N, b) /\ d \in [N -> Nat] /\ b.capacity \in {x.capacity, x.k}
        /\ Few(x.deleted, b.capacity)
    BY <1>4, FewDeleted DEF Fits, N
  <2>2. b2 = Dyn!sort(Dyn!push_back(Dyn!clear(b), n))
    BY <1>4 DEF n
  <2>3. DynReady(N, x.deleted, d, <<n.id>>, {}, b2) /\ b2.target = b.target /\ b2.capacity = b.capacity
    BY <1>1, <2>1, <2>2, DynStart
  <2> QED
    BY <1>1, <1>2, <1>4, <2>1, <2>3 DEF ReadyFor, SameLimits, WindowOf, N
<1> QED
  BY <1>3, <1>4

InsertOf(x, b, n) == IF x.kind = "static" THEN Flat!insert(b, n) ELSE Dyn!insert(b, n)

MeetOf(s, id) == IF id \in NodesOf(s) THEN s ELSE Append(s, id)

\* The buffer b takes id in and becomes b2, the history s becomes t.
Takes(x, d, s, e, b, id, t, b2) ==
  /\ Ordered(DOMAIN x.graph, d, t) /\ NodesOf(t) = NodesOf(s) \cup {id}
  /\ ReadyFor(x, d, t, e, b2) /\ SameLimits(x, b, b2)

LEMMA InsertIsReady ==
  ASSUME SmallIndexes, NEW x \in Indexes, NEW d, NEW s, NEW e, NEW b, ReadyFor(x, d, s, e, b),
         Ordered(DOMAIN x.graph, d, s), e \subseteq NodesOf(s), NEW id \in DOMAIN x.graph
  PROVE  Takes(x, d, s, e, b, id, MeetOf(s, id), InsertOf(x, b, CandidateOf(x, d, id)))
<1> SUFFICES ASSUME NEW b2, b2 = InsertOf(x, b, CandidateOf(x, d, id)),
                    NEW t, t = MeetOf(s, id)
             PROVE  /\ Ordered(DOMAIN x.graph, d, t) /\ NodesOf(t) = NodesOf(s) \cup {id}
                    /\ ReadyFor(x, d, t, e, b2) /\ SameLimits(x, b, b2)
  BY DEF Takes
<1>0. t = IF id \in NodesOf(s) THEN s ELSE Append(s, id)
  BY DEF MeetOf
<1> DEFINE n == CandidateOf(x, d, id)
           N == DOMAIN x.graph
<1>1. Newcomer(N, x.deleted, d, n) /\ n.id = id /\ d \in [N -> Nat]
  BY CandidateIsNew DEF Ordered
<1> HIDE DEF n, N
<1>2. Ordered(N, d, t) /\ NodesOf(t) = NodesOf(s) \cup {id}
  <2>1. CASE id \in NodesOf(s)
    BY <1>0, <2>1 DEF N
  <2>2. CASE id \notin NodesOf(s)
    <3>1. Met(N, d, s, id, Append(s, id))
      BY <2>2, MetLast DEF N
    <3> QED
      BY <1>0, <2>2, <3>1 DEF Met
  <2> QED
    BY <2>1, <2>2
<1>3. ReadyFor(x, d, t, e, b2) /\ SameLimits(x, b, b2)
  <2>1. CASE x.kind = "static" /\ id \in NodesOf(s)
    <3>1. x.deleted = {} /\ FlatReady(N, d, s, e, b) /\ b2 = Flat!insert(b, n) /\ t = s
      BY <1>0, <2>1, IndexIs DEF ReadyFor, N, n, InsertOf
    <3>2. FlatReady(N, d, s, e, b2) /\ b2.window = b.window /\ b2.capacity = b.capacity
      BY <1>1, <2>1, <3>1, FlatInsertMet DEF N
    <3> QED
      BY <2>1, <3>1, <3>2 DEF ReadyFor, SameLimits, WindowOf, N
  <2>2. CASE x.kind = "static" /\ id \notin NodesOf(s)
    <3>1. /\ x.deleted = {} /\ FlatReady(N, d, s, e, b) /\ b2 = Flat!insert(b, n)
          /\ t = Append(s, n.id) /\ n.id \notin e /\ n.id \notin NodesOf(s)
      BY <1>0, <1>1, <2>2, IndexIs DEF ReadyFor, N, n, InsertOf
    <3>2. FlatReady(N, d, t, e, b2) /\ b2.window = b.window /\ b2.capacity = b.capacity
      BY <1>1, <3>1, FlatInsertNew DEF N
    <3> QED
      BY <2>2, <3>2 DEF ReadyFor, SameLimits, WindowOf, N
  <2>3. CASE x.kind # "static" /\ id \in NodesOf(s)
    <3>1. /\ DynReady(N, x.deleted, d, s, e, b) /\ b2 = Dyn!insert(b, n) /\ t = s
          /\ b.capacity \in {x.capacity, x.k} /\ Few(x.deleted, b.capacity)
      BY <1>0, <2>3, FewDeleted DEF ReadyFor, N, n, InsertOf
    <3>2. b2 = b
      BY <1>1, <2>3, <3>1, DynInsertMet DEF N
    <3> QED
      BY <2>3, <3>1, <3>2 DEF ReadyFor, SameLimits, WindowOf, N
  <2>4. CASE x.kind # "static" /\ id \notin NodesOf(s)
    <3>1. /\ DynReady(N, x.deleted, d, s, e, b) /\ b2 = Dyn!insert(b, n)
          /\ b.capacity \in {x.capacity, x.k} /\ Few(x.deleted, b.capacity)
          /\ t = Append(s, n.id) /\ n.id \notin e /\ n.id \notin NodesOf(s)
      BY <1>0, <1>1, <2>4, FewDeleted DEF ReadyFor, N, n, InsertOf
    <3>2. DynReady(N, x.deleted, d, t, e, b2) /\ b2.target = b.target /\ b2.capacity = b.capacity
      BY <1>1, <3>1, DynInsertNew DEF N
    <3> QED
      BY <2>4, <3>2 DEF ReadyFor, SameLimits, WindowOf, N
  <2> QED
    BY <2>1, <2>2, <2>3, <2>4
<1> QED
  BY <1>2, <1>3 DEF N

\* The candidates a buffer holds, and the counters of both kinds.
CandidatesOf(x, b) == IF x.kind = "static" THEN HeldOf(b) ELSE b.cand

EndOf(x, b) == IF x.kind = "static" THEN Flat!Upper(b) ELSE b.roi

ValidOf(x, b) == IF x.kind = "static" THEN b.size ELSE b.valid

DoneOf(x, b) == IF x.kind = "static" THEN Flat!done(b) ELSE Dyn!done(b)

LEMMA ReadyIs ==
  ASSUME NEW x \in Indexes, NEW d, NEW s, NEW e, NEW b, ReadyFor(x, d, s, e, b)
  PROVE  /\ Holds(DOMAIN x.graph, x.deleted, d, s, e, b.capacity, CandidatesOf(x, b), ValidOf(x, b))
         /\ EndsAt(WindowOf(x, b), CandidatesOf(x, b), ValidOf(x, b), EndOf(x, b))
         /\ CursorAt(CandidatesOf(x, b), EndOf(x, b), b.best)
         /\ b.capacity \in Nat \ {0} /\ WindowOf(x, b) \in 1 .. b.capacity
         /\ CandidatesOf(x, b) \in Seq(Candidates(DOMAIN x.graph))
<1>1. CASE x.kind = "static"
  <2>1. x.deleted = {} /\ FlatReady(DOMAIN x.graph, d, s, e, b)
    BY <1>1, IndexIs DEF ReadyFor
  <2>2. FlatShape(DOMAIN x.graph, b)
    BY <2>1 DEF FlatReady
  <2>3. b.capacity \in Nat \ {0} /\ b.window \in 1 .. b.capacity
        /\ HeldOf(b) \in Seq(Candidates(DOMAIN x.graph))
    BY <2>2, FlatHeld
  <2>4. Ready(DOMAIN x.graph, {}, d, s, e, b.capacity, b.window, HeldOf(b), b.size, Flat!Upper(b), b.best)
    BY <2>1 DEF FlatReady
  <2> QED
    BY <1>1, <2>1, <2>3, <2>4 DEF Ready, CandidatesOf, ValidOf, EndOf, WindowOf
<1>2. CASE x.kind # "static"
  <2>1. DynReady(DOMAIN x.graph, x.deleted, d, s, e, b)
    BY <1>2 DEF ReadyFor
  <2>2. DynShape(DOMAIN x.graph, b)
    BY <2>1 DEF DynReady
  <2>3. b.capacity \in Nat \ {0} /\ b.target \in 1 .. b.capacity
        /\ b.cand \in Seq(Candidates(DOMAIN x.graph))
    BY <2>2 DEF DynShape
  <2>4. Ready(DOMAIN x.graph, x.deleted, d, s, e, b.capacity, b.target, b.cand, b.valid, b.roi, b.best)
    BY <2>1 DEF DynReady
  <2> QED
    BY <1>2, <2>3, <2>4 DEF Ready, CandidatesOf, ValidOf, EndOf, WindowOf
<1> QED
  BY <1>1, <1>2

\* The search is done when the cursor is at the end of the window.
LEMMA DoneIs ==
  ASSUME NEW x \in Indexes, NEW d, NEW s, NEW e, NEW b, ReadyFor(x, d, s, e, b)
  PROVE  DoneOf(x, b) <=> b.best = EndOf(x, b)
<1>1. CASE x.kind = "static"
  BY <1>1 DEF DoneOf, EndOf, Flat!done
<1>2. CASE x.kind # "static"
  <2>1. EndsAt(b.target, b.cand, b.valid, b.roi)
    BY <1>2, ReadyIs DEF WindowOf, CandidatesOf, ValidOf, EndOf
  <2>2. (IF b.valid < b.target THEN Len(b.cand) ELSE b.roi) = b.roi
    BY <2>1 DEF EndsAt
  <2> QED
    BY <1>2, <2>2 DEF DoneOf, EndOf, Dyn!done
<1> QED
  BY <1>1, <1>2

\* The node next() returns.
BestOf(x, b) == IF x.kind = "static" THEN b.cand[b.best].id ELSE b.cand[b.best + 1].id

NextOf(x, b) == IF x.kind = "static" THEN Flat!next(b) ELSE Dyn!next(b)

LEMMA NextIsReady ==
  ASSUME SmallIndexes, NEW x \in Indexes, NEW d, NEW s, NEW e, NEW b, ReadyFor(x, d, s, e, b),
         Ordered(DOMAIN x.graph, d, s), ~DoneOf(x, b)
  PROVE  /\ ReadyFor(x, d, s, e \cup {BestOf(x, b)}, NextOf(x, b))
         /\ SameLimits(x, b, NextOf(x, b))
         /\ b.best < EndOf(x, b) /\ BestOf(x, b) = CandidatesOf(x, b)[b.best + 1].id
<1> SUFFICES ASSUME NEW b2, b2 = NextOf(x, b)
             PROVE  /\ ReadyFor(x, d, s, e \cup {BestOf(x, b)}, b2) /\ SameLimits(x, b, b2)
                    /\ b.best < EndOf(x, b)
                    /\ BestOf(x, b) = CandidatesOf(x, b)[b.best + 1].id
  OBVIOUS
<1>1. CASE x.kind = "static"
  <2>1. FlatReady(DOMAIN x.graph, d, s, e, b) /\ b2 = Flat!next(b) /\ ~Flat!done(b)
    BY <1>1 DEF ReadyFor, DoneOf, NextOf
  <2>2. /\ FlatReady(DOMAIN x.graph, d, s, e \cup {b.cand[b.best].id}, b2)
        /\ b2.window = b.window /\ b2.capacity = b.capacity
        /\ b.cand[b.best] = HeldOf(b)[b.best + 1] /\ b.best < Flat!Upper(b)
    BY <2>1, FlatNext
  <2> QED
    BY <1>1, <2>2 DEF ReadyFor, SameLimits, WindowOf, BestOf, EndOf, CandidatesOf
<1>2. CASE x.kind # "static"
  <2>1. /\ DynReady(DOMAIN x.graph, x.deleted, d, s, e, b)
        /\ b2 = Dyn!next(b) /\ ~Dyn!done(b)
        /\ b.capacity \in {x.capacity, x.k} /\ Few(x.deleted, b.capacity)
    BY <1>2, FewDeleted DEF ReadyFor, DoneOf, NextOf
  <2>2. /\ DynReady(DOMAIN x.graph, x.deleted, d, s, e \cup {b.cand[b.best + 1].id}, b2)
        /\ b2.target = b.target /\ b2.capacity = b.capacity /\ b.best < b.roi
    BY <2>1, DynNext
  <2> QED
    BY <1>2, <2>2 DEF ReadyFor, SameLimits, WindowOf, BestOf, EndOf, CandidatesOf
<1> QED
  BY <1>1, <1>2

\* The row that is copied has the nearest candidates in their places.
RowFrom(x, b) ==
  [j \in 1 .. x.k |-> IF x.kind = "static" THEN b.cand[j - 1].id
                      ELSE IF j <= Len(b.cand) THEN b.cand[j].id ELSE Missing]

LEMMA ReturnIsRow ==
  ASSUME SmallIndexes, NEW x \in Indexes, NEW d, NEW s, NEW e, NEW b, ReadyFor(x, d, s, e, b),
         Ordered(DOMAIN x.graph, d, s), x.k <= b.capacity,
         NEW b2, b2 = IF x.kind = "static" THEN b ELSE Dyn!cleanup(b)
  PROVE  /\ RowOf(DOMAIN x.graph, x.deleted, d, s, x.k, RowFrom(x, b2))
         /\ Fits(x, b2) /\ SameLimits(x, b, b2)
<1>1. b.capacity \in Nat \ {0} /\ x.k \in 1 .. b.capacity /\ Fits(x, b)
  BY ReadyIs, IndexIs, ReadyFits
<1>2. CASE x.kind = "static"
  <2>1. x.deleted = {} /\ FlatReady(DOMAIN x.graph, d, s, e, b) /\ b2 = b
    BY <1>2, IndexIs DEF ReadyFor
  <2>2. RowFrom(x, b2) = [j \in 1 .. x.k |-> b.cand[j - 1].id]
    BY <1>2, <2>1 DEF RowFrom
  <2> QED
    BY <1>1, <2>1, <2>2, FlatRow DEF SameLimits
<1>3. CASE x.kind # "static"
  <2>1. DynReady(DOMAIN x.graph, x.deleted, d, s, e, b) /\ b2 = Dyn!cleanup(b)
    BY <1>3 DEF ReadyFor
  <2>2. PICK g : g = b2.cand
    OBVIOUS
  <2>3. RowFrom(x, b2) = [j \in 1 .. x.k |-> IF j <= Len(g) THEN g[j].id ELSE Missing]
    BY <1>3, <2>2 DEF RowFrom
  <2>4. RowOf(DOMAIN x.graph, x.deleted, d, s, x.k,
              [j \in 1 .. x.k |-> IF j <= Len(g) THEN g[j].id ELSE Missing])
    BY <1>1, <2>1, <2>2, DynRow
  <2>5. /\ DynShape(DOMAIN x.graph, b) /\ Len(b.cand) <= CounterLimit /\ Len(b.cand) \in Nat
        /\ b.capacity \in {x.capacity, x.k}
    BY <1>1, <1>3 DEF Fits, DynShape
  <2>6. /\ DynShape(DOMAIN x.graph, b2) /\ b2.target = b.target /\ b2.capacity = b.capacity
        /\ Len(b2.cand) <= Len(b.cand)
    BY <2>1, <2>5, CleanupLeaves
  <2>7. Len(b2.cand) <= CounterLimit
    BY <2>5, <2>6, SizesAssumption DEF DynShape
  <2> QED
    BY <1>3, <2>3, <2>4, <2>5, <2>6, <2>7 DEF Fits, SameLimits, WindowOf
<1> QED
  BY <1>2, <1>3

\* A new buffer has room for the neighbors asked for.
LEMMA NewFits ==
  ASSUME SmallIndexes, NEW x \in Indexes
  PROVE  Fits(x, NewBuffer(x)) /\ x.k <= NewBuffer(x).capacity
<1>1. Blank \in Candidates(DOMAIN x.graph)
  BY IndexIs DEF Blank, Candidates
<1>2. /\ x.capacity \in Nat /\ x.window \in 1 .. x.capacity /\ x.k \in Nat \ {0}
      /\ (x.kind = "dynamic" => x.k + 1 <= CounterLimit) /\ x.kind \in {"static", "dynamic"}
      /\ CounterLimit \in Nat
  <2>1. ASSUME x.kind = "dynamic" PROVE x.k + 1 <= CounterLimit
    <3>1. x.k + Cardinality(x.deleted) + 1 < CounterLimit
      BY <2>1 DEF SmallIndexes
    <3>2. Cardinality(x.deleted) \in Nat /\ x.k \in Nat /\ CounterLimit \in Nat
      BY IndexIs, FS_CardinalityType, SizesAssumption
    <3> QED
      BY <3>1, <3>2
  <2> QED
    BY <2>1, IndexIs, SizesAssumption
<1>3. CASE x.kind = "static"
  <2> DEFINE b == Flat!SearchBuffer(x.window, x.capacity)
             b2 == Flat!change_maxsize(b, x.k, x.k)
  <2>1. FlatShape(DOMAIN x.graph, b) /\ b.capacity = x.capacity
    BY <1>1, <1>2 DEF FlatShape, Flat!SearchBuffer
  <2>2. FlatShape(DOMAIN x.graph, b2) /\ b2.capacity = x.k
    <3>2. b2 = [b EXCEPT !.window = x.k, !.capacity = x.k,
                         !.cand = [i \in 0 .. x.k |->
                                     IF i \in DOMAIN b.cand THEN b.cand[i] ELSE Blank]]
      BY DEF Flat!change_maxsize
    <3> DEFINE f == [i \in 0 .. x.k |-> IF i \in DOMAIN b.cand THEN b.cand[i] ELSE Blank]
    <3>3. f \in [0 .. x.k -> Candidates(DOMAIN x.graph)]
      BY <1>1, <1>2, <2>1 DEF FlatShape
    <3>4. /\ b.size = 0 /\ b.best = 0
          /\ b = [size |-> b.size, best |-> b.best, window |-> b.window, capacity |-> b.capacity,
                  cand |-> b.cand]
      BY DEF Flat!SearchBuffer
    <3> HIDE DEF b, b2, f
    <3>5. b2 = [size |-> 0, best |-> 0, window |-> x.k, capacity |-> x.k, cand |-> f]
      BY <3>2, <3>4 DEF f
    <3> QED
      BY <1>2, <3>3, <3>5 DEF FlatShape
  <2>3. NewBuffer(x) = IF b.capacity < x.k THEN b2 ELSE b
    BY <1>3 DEF NewBuffer
  <2> HIDE DEF b, b2
  <2> QED
    BY <1>2, <1>3, <2>1, <2>2, <2>3 DEF Fits
<1>4. CASE x.kind # "static"
  <2> DEFINE b == Dyn!MutableBuffer(x.window, x.capacity)
             b2 == Dyn!change_maxsize(b, x.k, x.k)
  <2>1. DynShape(DOMAIN x.graph, b) /\ b.capacity = x.capacity /\ b.cand = <<>>
    BY <1>1, <1>2 DEF DynShape, Dyn!MutableBuffer
  <2>2. DynShape(DOMAIN x.graph, b2) /\ b2.capacity = x.k /\ Len(b2.cand) = x.k + 1
    <3>1. b2 = [b EXCEPT !.target = x.k, !.capacity = x.k,
                         !.cand = [i \in 1 .. x.k + 1 |->
                                     IF i \in DOMAIN b.cand THEN b.cand[i] ELSE Blank]]
      BY DEF Dyn!change_maxsize
    <3>2. DOMAIN b.cand = {}
      BY <2>1
    <3>3. [i \in 1 .. x.k + 1 |-> IF i \in DOMAIN b.cand THEN b.cand[i] ELSE Blank]
            = [i \in 1 .. x.k + 1 |-> Blank]
      BY <3>2
    <3>4. [i \in 1 .. x.k + 1 |-> Blank] \in Seq(Candidates(DOMAIN x.graph))
          /\ Len([i \in 1 .. x.k + 1 |-> Blank]) = x.k + 1
      BY <1>1, <1>2
    <3>5. /\ b.best = 0 /\ b.roi = 0 /\ b.valid = 0
          /\ b = [target |-> b.target, capacity |-> b.capacity, best |-> b.best, roi |-> b.roi,
                  valid |-> b.valid, cand |-> b.cand]
      BY DEF Dyn!MutableBuffer
    <3> DEFINE f == [i \in 1 .. x.k + 1 |-> Blank]
    <3>6. f \in Seq(Candidates(DOMAIN x.graph)) /\ Len(f) = x.k + 1
      BY <3>4
    <3>7. b2 = [b EXCEPT !.target = x.k, !.capacity = x.k, !.cand = f]
      BY <3>1, <3>3
    <3> HIDE DEF b, b2, f
    <3>8. b2 = [target |-> x.k, capacity |-> x.k, best |-> 0, roi |-> 0, valid |-> 0, cand |-> f]
      BY <3>5, <3>7
    <3> QED
      BY <1>2, <3>6, <3>8 DEF DynShape
  <2>3. NewBuffer(x) = IF b.capacity < x.k THEN b2 ELSE b
    BY <1>4 DEF NewBuffer
  <2>4. Len(b.cand) = 0 /\ 0 <= CounterLimit /\ x.k + 1 <= CounterLimit
    BY <1>2, <1>4, <2>1
  <2> HIDE DEF b, b2
  <2> QED
    BY <1>2, <1>4, <2>1, <2>2, <2>3, <2>4 DEF Fits
<1> QED
  BY <1>3, <1>4

-----------------------------------------------------------------------------
(***************************************************************************)
(* The visited filter.                                                     *)
(***************************************************************************)
Filters == [0 .. Slots - 1 -> 0 .. Uppers - 1]

\* The filter f knows only nodes of S.
Knows(x, f, S) == \A n \in DOMAIN x.graph : f[hash(n)] = value(n) => n \in S

\* The low bits of a node choose a slot, and its high bits are never the sentinel.
LEMMA BitsAre ==
  ASSUME NEW x \in Indexes, NEW n \in DOMAIN x.graph
  PROVE  /\ n \in Nat /\ hash(n) \in 0 .. Slots - 1
         /\ value(n) \in 0 .. Uppers - 2 /\ n = value(n) * Slots + hash(n)
<1>1. Slots \in Nat \ {0} /\ Uppers \in Nat \ {0}
  BY SizesAssumption
<1> DEFINE most == Slots * (Uppers - 1)
<1>2. n \in 0 .. most - 1 /\ most \in Int
  BY <1>1, IndexIs
<1>3. n \in Nat /\ n < most
  BY <1>2
<1>4. /\ n \div Slots \in Nat /\ n % Slots \in 0 .. Slots - 1
      /\ n = (n \div Slots) * Slots + (n % Slots)
  BY <1>1, <1>3, Euclid
<1> DEFINE q == n \div Slots
           r == n % Slots
<1>5. q \in Nat /\ r \in 0 .. Slots - 1 /\ n = q * Slots + r
  BY <1>4
<1> HIDE DEF q, r
<1>6. q <= Uppers - 2
  <2>1. SUFFICES ASSUME q >= Uppers - 1 PROVE FALSE
    BY <1>1, <1>5
  <2>2. PICK m \in Nat : q = (Uppers - 1) + m
    <3>1. q - (Uppers - 1) \in Nat /\ q = (Uppers - 1) + (q - (Uppers - 1))
      BY <1>1, <1>5, <2>1
    <3> QED
      BY <3>1
  <2>3. q * Slots = Slots * (Uppers - 1) + m * Slots
    BY <1>1, <2>2
  <2>4. m * Slots \in Nat /\ q * Slots \in Nat
    BY <1>1, <1>5, <2>2
  <2>5. q * Slots >= most
    <3> HIDE DEF most
    <3>1. q * Slots = most + m * Slots
      BY <2>3 DEF most
    <3> QED
      BY <1>2, <2>4, <3>1
  <2> HIDE DEF most
  <2> QED
    BY <1>1, <1>2, <1>3, <1>5, <2>4, <2>5
<1> QED
  BY <1>1, <1>3, <1>5, <1>6 DEF hash, value, q, r

LEMMA FilterStarts ==
  ASSUME NEW x \in Indexes, NEW S
  PROVE  VisitedFilter \in Filters /\ Knows(x, VisitedFilter, S)
<1>1. Slots \in Nat \ {0} /\ Uppers \in Nat \ {0}
  BY SizesAssumption
<1>2. VisitedFilter \in Filters
  BY <1>1 DEF VisitedFilter, Filters, sentinel
<1>3. ASSUME NEW n \in DOMAIN x.graph PROVE VisitedFilter[hash(n)] # value(n)
  <2>1. hash(n) \in 0 .. Slots - 1 /\ value(n) \in 0 .. Uppers - 2
    BY BitsAre
  <2> QED
    BY <1>1, <2>1 DEF VisitedFilter, sentinel
<1> QED
  BY <1>2, <1>3 DEF Knows

LEMMA FilterKeeps ==
  ASSUME NEW x \in Indexes, NEW f \in Filters, NEW S, Knows(x, f, S), NEW id \in DOMAIN x.graph
  PROVE  LET f2 == [f EXCEPT ![hash(id)] = value(id)]
         IN  f2 \in Filters /\ Knows(x, f2, S \cup {id})
<1> DEFINE f2 == [f EXCEPT ![hash(id)] = value(id)]
<1>1. Slots \in Nat \ {0} /\ Uppers \in Nat \ {0}
  BY SizesAssumption
<1>2. hash(id) \in 0 .. Slots - 1 /\ value(id) \in 0 .. Uppers - 1
  <2>1. hash(id) \in 0 .. Slots - 1 /\ value(id) \in 0 .. Uppers - 2
    BY BitsAre
  <2> QED
    BY <1>1, <2>1
<1>3. f2 \in Filters
  BY <1>2 DEF Filters
<1>4. ASSUME NEW n \in DOMAIN x.graph, f2[hash(n)] = value(n) PROVE n \in S \cup {id}
  <2>1. hash(n) \in 0 .. Slots - 1 /\ n = value(n) * Slots + hash(n)
        /\ id = value(id) * Slots + hash(id)
    BY BitsAre
  <2>2. CASE hash(n) = hash(id)
    <3>1. f2[hash(n)] = value(id)
      BY <1>2, <2>1, <2>2 DEF Filters
    <3> QED
      BY <1>4, <2>1, <2>2, <3>1
  <2>3. CASE hash(n) # hash(id)
    <3>1. f2[hash(n)] = f[hash(n)]
      BY <1>2, <2>1, <2>3 DEF Filters
    <3> QED
      BY <1>4, <3>1 DEF Knows
  <2> QED
    BY <2>2, <2>3
<1> HIDE DEF f2
<1>5. f2 \in Filters /\ Knows(x, f2, S \cup {id})
  BY <1>3, <1>4 DEF Knows
<1> QED
  BY <1>5 DEF f2

-----------------------------------------------------------------------------
(***************************************************************************)
(* What the promise says of the state.                                     *)
(***************************************************************************)
LEMMA PromiseIs ==
  /\ Promise!Seen = NodesOf(seen)
  /\ \A x, y : Promise!Nearer(x, y) <=> Closer(dist, seen, x, y)
  /\ \A x : Promise!Before(x) = Nearers(index.deleted, dist, seen, x)
  /\ \A k : Promise!NearestOf(k) = Near(index.deleted, dist, seen, k)
  /\ Promise!Region = Near(index.deleted, dist, seen, WindowOf(index, buffer))
<1>1. Promise!Seen = NodesOf(seen)
  BY DEF Promise!Seen, NodesOf
<1>2. ASSUME NEW x, NEW y PROVE Promise!Nearer(x, y) <=> Closer(dist, seen, x, y)
  BY DEF Promise!Nearer, Promise!Earlier, Closer, Early
<1>3. ASSUME NEW x PROVE Promise!Before(x) = Nearers(index.deleted, dist, seen, x)
  BY <1>1, <1>2 DEF Promise!Before, Nearers
<1>4. ASSUME NEW k PROVE Promise!NearestOf(k) = Near(index.deleted, dist, seen, k)
  BY <1>1, <1>3 DEF Promise!NearestOf, Near, Cardinality, Promise!Cardinality
<1>5. Promise!Region = Promise!NearestOf(WindowOf(index, buffer))
  BY DEF Promise!Region, WindowOf, Window, Static
<1> QED
  BY <1>1, <1>2, <1>3, <1>4, <1>5

-----------------------------------------------------------------------------
(***************************************************************************)
(* The invariant.                                                          *)
(***************************************************************************)
\* What is searched, and what the search remembers of it.
Remembered ==
  /\ index \in Indexes /\ asked \in 0 .. MaxQueries
  /\ Ordered(DOMAIN index.graph, dist, seen) /\ expanded \subseteq NodesOf(seen)
  /\ pending \in Seq(DOMAIN index.graph)

\* Lists are read, and results returned, by a search that began; the latter when no
\* list is being read.
Phases ==
  /\ seen = <<>> => pending = <<>> /\ results = <<>>
  /\ results # <<>> => pending = <<>>

FilterKnows == filter \in Filters /\ Knows(index, filter, NodesOf(seen))

\* Between two searches the buffer is as large as it has to be; during a search it holds
\* the nearest, with its counters where they belong.
BufferReady ==
  /\ Fits(index, buffer) /\ index.k <= buffer.capacity
  /\ Searching => ReadyFor(index, dist, seen, expanded, buffer)

SearchInv == Remembered /\ Phases /\ FilterKnows /\ BufferReady

LEMMA WindowIs ==
  /\ Window = WindowOf(index, buffer) /\ Window' = WindowOf(index', buffer')
BY DEF Window, WindowOf, Static

LEMMA InitHolds ==
  ASSUME SmallIndexes, Init
  PROVE  SearchInv /\ Promise!Init
<1>1. /\ index \in Indexes /\ dist = [x \in DOMAIN index.graph |-> 0] /\ buffer = NewBuffer(index)
      /\ filter = VisitedFilter
      /\ seen = <<>> /\ pending = <<>> /\ expanded = {} /\ results = <<>> /\ asked = 0
  BY DEF Init
<1>2. Remembered
  <2>1. Ordered(DOMAIN index.graph, dist, seen)
    BY <1>1 DEF Ordered
  <2> QED
    BY <1>1, <2>1, SizesAssumption DEF Remembered
<1>3. FilterKnows
  BY <1>1, FilterStarts DEF FilterKnows
<1>4. BufferReady
  BY <1>1, NewFits DEF BufferReady, Searching
<1>5. Promise!Init
  BY <1>1, IndexIs DEF Promise!Init
<1> QED
  BY <1>1, <1>2, <1>3, <1>4, <1>5 DEF SearchInv, Phases

LEMMA AskHolds ==
  ASSUME SmallIndexes, SearchInv, Ask
  PROVE  SearchInv' /\ Promise!Ask
<1>1. /\ index \in Indexes /\ index' = index /\ Fits(index, buffer) /\ index.k <= buffer.capacity
      /\ asked \in 0 .. MaxQueries
  BY DEF SearchInv, Remembered, BufferReady, Ask
<1>2. /\ results # <<>> \/ seen = <<>>
      /\ asked < MaxQueries /\ asked' = asked + 1
      /\ seen' = <<Entry>> /\ pending' = <<>> /\ expanded' = {} /\ results' = <<>>
      /\ filter' = VisitedFilter
  BY DEF Ask, Prepare
<1>3. dist' \in [DOMAIN index.graph -> Nat]
  BY <1>1, IndexIs DEF Ask
<1>4. buffer' = IF index.kind = "static"
                THEN Flat!sort(Flat!push_back(Flat!clear(buffer), CandidateOf(index, dist', Entry)))
                ELSE Dyn!sort(Dyn!push_back(Dyn!clear(buffer), CandidateOf(index, dist', Entry)))
  BY DEF Ask, Prepare, Static, Neighbor, CandidateOf
<1>5. /\ Ordered(DOMAIN index.graph, dist', <<Entry>>) /\ NodesOf(<<Entry>>) = {Entry}
      /\ ReadyFor(index, dist', <<Entry>>, {}, buffer') /\ SameLimits(index, buffer, buffer')
  BY <1>1, <1>3, <1>4, StartIsReady
<1>6. Fits(index, buffer')
  BY <1>1, <1>5, ReadyFits
<1>7. Remembered'
  BY <1>1, <1>2, <1>5, SizesAssumption DEF Remembered
<1>8. Phases'
  BY <1>2 DEF Phases
<1>9. FilterKnows'
  BY <1>1, <1>2, FilterStarts DEF FilterKnows
<1>10. BufferReady'
  BY <1>1, <1>2, <1>5, <1>6 DEF BufferReady, SameLimits
<1>11. Window' = Window
  BY <1>1, <1>5, WindowIs DEF SameLimits
<1>12. Promise!Ask
  BY <1>1, <1>2, <1>3, <1>11 DEF Promise!Ask
<1> QED
  BY <1>7, <1>8, <1>9, <1>10, <1>12 DEF SearchInv

\* When the search is not done, the node next() returns is open and none that is open is nearer.
LEMMA BestIsNearest ==
  ASSUME NEW x \in Indexes, NEW d, NEW s, NEW e, NEW b, ReadyFor(x, d, s, e, b),
         Ordered(DOMAIN x.graph, d, s), NEW best \in Nat, best = b.best, best < EndOf(x, b),
         NEW id, id = CandidatesOf(x, b)[best + 1].id
  PROVE  /\ id \in Near(x.deleted, d, s, WindowOf(x, b)) \ e /\ id \in NodesOf(s)
         /\ id \in DOMAIN x.graph
         /\ \A y \in Near(x.deleted, d, s, WindowOf(x, b)) \ e : ~Closer(d, s, y, id)
<1> DEFINE N == DOMAIN x.graph
           c == CandidatesOf(x, b)
           ends == EndOf(x, b)
           w == WindowOf(x, b)
<1>1. /\ Holds(N, x.deleted, d, s, e, b.capacity, c, ValidOf(x, b))
      /\ EndsAt(w, c, ValidOf(x, b), ends) /\ CursorAt(c, ends, best)
      /\ b.capacity \in Nat \ {0} /\ w \in 1 .. b.capacity
  BY ReadyIs
<1> HIDE DEF N, c, ends, w
<1>2. ends \in 0 .. Len(c) /\ Near(x.deleted, d, s, w) = IdsIn(c, 1 .. ends)
  BY <1>1, NearestAre DEF N
<1>3. Known(N, x.deleted, d, s, e, c) /\ InOrder(d, s, c)
  BY <1>1 DEF Holds
<1>4. /\ Len(c) \in Nat /\ \A i \in 1 .. Len(c) : c[i].id \in N
      /\ \A i \in 1 .. Len(c) : c[i].id \in NodesOf(s) /\ (c[i].visited <=> c[i].id \in e)
  <2>1. Ordered(N, d, s)
    BY DEF N
  <2>2. Len(c) \in Nat /\ \A i \in 1 .. Len(c) : c[i].id \in N
    BY <1>3, <2>1, IdsDiffer
  <2> QED
    BY <1>3, <2>2 DEF Known
<1>5. best + 1 \in 1 .. ends /\ best + 1 \in 1 .. Len(c) /\ best < ends
  BY <1>2, <1>4 DEF ends
<1>6. id = c[best + 1].id /\ ~c[best + 1].visited
  BY <1>1, <1>5 DEF CursorAt, c
<1>7. id \in Near(x.deleted, d, s, w) \ e /\ id \in NodesOf(s) /\ id \in N
  BY <1>2, <1>4, <1>5, <1>6 DEF IdsIn
<1>8. ASSUME NEW y \in Near(x.deleted, d, s, w) \ e PROVE ~Closer(d, s, y, id)
  <2>1. PICK i \in 1 .. ends : c[i].id = y
    BY <1>2 DEF IdsIn
  <2>2. i \in 1 .. Len(c) /\ ~c[i].visited
    BY <1>2, <1>4, <2>1
  <2>3. i >= best + 1
    BY <1>1, <2>1, <2>2 DEF CursorAt
  <2>4. CASE i = best + 1
    <3>1. y = id
      BY <1>6, <2>1, <2>4
    <3> QED
      BY <1>4, <1>7, <3>1, CloserIsOrder DEF N
  <2>5. CASE i > best + 1
    <3>1. Closer(d, s, id, y)
      BY <1>3, <1>5, <1>6, <2>1, <2>2, <2>5 DEF InOrder
    <3>2. y \in NodesOf(s)
      BY <1>4, <2>1, <2>2
    <3> QED
      BY <1>7, <3>1, <3>2, CloserIsOrder DEF N
  <2> QED
    BY <2>2, <2>3, <2>4, <2>5
<1> QED
  BY <1>7, <1>8 DEF N, w

LEMMA ExpandHolds ==
  ASSUME SmallIndexes, SearchInv, Expand
  PROVE  SearchInv' /\ Promise!Expand
<1>1. /\ index \in Indexes /\ index' = index /\ dist' = dist /\ filter' = filter /\ seen' = seen
      /\ results' = results /\ asked' = asked
      /\ seen # <<>> /\ results = <<>> /\ pending = <<>> /\ Searching
  BY DEF SearchInv, Remembered, Expand, Searching
<1>2. /\ Ordered(DOMAIN index.graph, dist, seen) /\ expanded \subseteq NodesOf(seen)
      /\ ReadyFor(index, dist, seen, expanded, buffer) /\ index.k <= buffer.capacity
  BY <1>1 DEF SearchInv, Remembered, BufferReady
<1>3. ~DoneOf(index, buffer)
  BY DEF Expand, Done, DoneOf, Static
<1>4. Best = BestOf(index, buffer)
  BY DEF Best, BestOf, Static, Dyn!At
<1>5. buffer' = NextOf(index, buffer)
  BY DEF Expand, Static, NextOf
<1>6. /\ ReadyFor(index, dist, seen, expanded \cup {Best}, buffer')
      /\ SameLimits(index, buffer, buffer')
      /\ buffer.best < EndOf(index, buffer)
      /\ Best = CandidatesOf(index, buffer)[buffer.best + 1].id
  <2>1. /\ ReadyFor(index, dist, seen, expanded \cup {BestOf(index, buffer)}, NextOf(index, buffer))
        /\ SameLimits(index, buffer, NextOf(index, buffer))
        /\ buffer.best < EndOf(index, buffer)
        /\ BestOf(index, buffer) = CandidatesOf(index, buffer)[buffer.best + 1].id
    BY <1>1, <1>2, <1>3, NextIsReady
  <2> QED
    BY <1>4, <1>5, <2>1
<1>7. buffer.best \in Nat
  <2>1. CursorAt(CandidatesOf(index, buffer), EndOf(index, buffer), buffer.best)
    BY <1>1, <1>2, ReadyIs
  <2> QED
    BY <2>1 DEF CursorAt
<1>8. /\ Best \in Near(index.deleted, dist, seen, WindowOf(index, buffer)) \ expanded
      /\ Best \in NodesOf(seen) /\ Best \in DOMAIN index.graph
      /\ \A y \in Near(index.deleted, dist, seen, WindowOf(index, buffer)) \ expanded :
           ~Closer(dist, seen, y, Best)
  BY <1>1, <1>2, <1>6, <1>7, BestIsNearest
<1>9. /\ pending' = index.graph[Best] /\ expanded' = expanded \cup {Best}
  BY DEF Expand
<1>10. pending' \in Seq(DOMAIN index.graph)
  BY <1>1, <1>8, <1>9, IndexIs
<1>11. Remembered'
  BY <1>1, <1>2, <1>8, <1>9, <1>10 DEF Remembered, SearchInv
<1>12. Phases'
  BY <1>1 DEF Phases
<1>13. FilterKnows'
  BY <1>1 DEF FilterKnows, SearchInv
<1>14. Fits(index, buffer')
  BY <1>1, <1>2, <1>6, ReadyFits
<1>15. BufferReady'
  BY <1>1, <1>2, <1>6, <1>9, <1>14 DEF BufferReady, SameLimits
<1>16. Window' = Window
  BY <1>1, <1>6, WindowIs DEF SameLimits
<1>17. /\ Best \in Promise!Open /\ \A y \in Promise!Open : ~Promise!Nearer(y, Best)
  <2>1. Promise!Open = Near(index.deleted, dist, seen, WindowOf(index, buffer)) \ expanded
    BY PromiseIs DEF Promise!Open
  <2> QED
    BY <1>8, <2>1, PromiseIs
<1>18. Promise!Expand
  <2>1. \E x \in Promise!Open :
          /\ \A y \in Promise!Open : ~Promise!Nearer(y, x)
          /\ expanded' = expanded \cup {x}
          /\ pending' = index.graph[x]
    BY <1>9, <1>17
  <2> QED
    BY <1>1, <1>16, <2>1 DEF Promise!Expand
<1> QED
  BY <1>11, <1>12, <1>13, <1>15, <1>18 DEF SearchInv

LEMMA VisitHolds ==
  ASSUME SmallIndexes, SearchInv, Visit
  PROVE  SearchInv' /\ Promise!Meet
<1> DEFINE id == Head(pending)
           N == DOMAIN index.graph
           n == Neighbor(id, dist)
<1>1. /\ index \in Indexes /\ index' = index /\ dist' = dist
      /\ results' = results /\ asked' = asked /\ expanded' = expanded
      /\ pending # <<>> /\ pending' = Tail(pending) /\ pending \in Seq(N)
      /\ Ordered(N, dist, seen) /\ expanded \subseteq NodesOf(seen)
  BY DEF SearchInv, Remembered, Visit
<1>2. seen # <<>> /\ results = <<>> /\ Searching
  BY <1>1 DEF SearchInv, Phases, Searching
<1>3. id \in N /\ Tail(pending) \in Seq(N)
  BY <1>1
<1>4. ReadyFor(index, dist, seen, expanded, buffer) /\ index.k <= buffer.capacity
      /\ filter \in Filters /\ Knows(index, filter, NodesOf(seen))
  BY <1>2 DEF SearchInv, BufferReady, FilterKnows
<1>5. seen' = IF id \in NodesOf(seen) THEN seen ELSE Append(seen, id)
  BY PromiseIs DEF Visit
<1>6. filter' = IF index.filtered THEN [filter EXCEPT ![hash(id)] = value(id)] ELSE filter
  BY DEF Visit, emplace
<1>7. buffer' = CASE Emplaced(id) -> buffer
                  [] Static /\ ~Emplaced(id) -> Flat!insert(buffer, n)
                  [] OTHER -> Dyn!insert(buffer, n)
  BY DEF Visit
<1>8. n = CandidateOf(index, dist, id)
  BY DEF Neighbor, CandidateOf
<1> HIDE DEF id, N, n
<1>9. /\ Ordered(N, dist, seen') /\ NodesOf(seen') = NodesOf(seen) \cup {id}
      /\ ReadyFor(index, dist, seen', expanded, buffer') /\ SameLimits(index, buffer, buffer')
  <2>1. CASE Emplaced(id)
    <3>1. id \in NodesOf(seen)
      BY <1>3, <1>4, <2>1 DEF Emplaced, check, Knows, N
    <3>2. buffer' = buffer /\ seen' = seen
      BY <1>5, <1>7, <2>1, <3>1
    <3> QED
      BY <1>1, <1>4, <3>1, <3>2 DEF SameLimits
  <2>2. CASE ~Emplaced(id)
    <3>1. buffer' = InsertOf(index, buffer, CandidateOf(index, dist, id))
      BY <1>7, <1>8, <2>2 DEF Static, InsertOf
    <3>2. index \in Indexes /\ id \in DOMAIN index.graph /\ Ordered(DOMAIN index.graph, dist, seen)
          /\ expanded \subseteq NodesOf(seen)
      BY <1>1, <1>3 DEF N
    <3>3. ReadyFor(index, dist, seen, expanded, buffer) /\ seen' = MeetOf(seen, id)
      BY <1>4, <1>5 DEF MeetOf
    <3>4. Takes(index, dist, seen, expanded, buffer, id, MeetOf(seen, id),
                InsertOf(index, buffer, CandidateOf(index, dist, id)))
      BY <3>2, <3>3, InsertIsReady
    <3>5. Takes(index, dist, seen, expanded, buffer, id, seen', buffer')
      BY <3>1, <3>3, <3>4
    <3> QED
      BY <3>5 DEF N, Takes
  <2> QED
    BY <2>1, <2>2
<1>10. seen' # <<>>
  <2>1. id \in NodesOf(seen')
    BY <1>9
  <2> QED
    BY <2>1 DEF NodesOf
<1>11. filter' \in Filters /\ Knows(index, filter', NodesOf(seen'))
  <2>1. CASE index.filtered
    <3>1. index \in Indexes /\ id \in DOMAIN index.graph /\ filter \in Filters
          /\ Knows(index, filter, NodesOf(seen))
      BY <1>1, <1>3, <1>4 DEF N
    <3>2. PICK f2 : f2 = [filter EXCEPT ![hash(id)] = value(id)]
      OBVIOUS
    <3>3. f2 \in Filters /\ Knows(index, f2, NodesOf(seen) \cup {id})
      BY <3>1, <3>2, FilterKeeps
    <3>4. filter' = f2
      BY <1>6, <2>1, <3>2
    <3> QED
      BY <1>9, <3>3, <3>4
  <2>2. CASE ~index.filtered
    BY <1>4, <1>6, <1>9, <2>2 DEF Knows
  <2> QED
    BY <2>1, <2>2
<1>12. Remembered'
  <2>1. asked \in 0 .. MaxQueries
    BY DEF SearchInv, Remembered
  <2>2. expanded' \subseteq NodesOf(seen')
    BY <1>1, <1>9
  <2> QED
    BY <1>1, <1>3, <1>9, <2>1, <2>2 DEF Remembered, N
<1>13. Phases'
  BY <1>1, <1>2, <1>10 DEF Phases
<1>14. FilterKnows'
  BY <1>1, <1>11 DEF FilterKnows
<1>15. Fits(index, buffer')
  BY <1>1, <1>9, ReadyFits DEF N
<1>16. BufferReady'
  BY <1>1, <1>4, <1>9, <1>15 DEF BufferReady, SameLimits
<1>17. Window' = Window
  BY <1>1, <1>9, WindowIs DEF SameLimits
<1>18. Promise!Meet
  <2>1. seen' = IF Head(pending) \in Promise!Seen THEN seen ELSE Append(seen, Head(pending))
    BY <1>5, PromiseIs DEF id
  <2> QED
    BY <1>1, <1>17, <2>1 DEF Promise!Meet
<1> QED
  BY <1>12, <1>13, <1>14, <1>16, <1>18 DEF SearchInv

\* When the search is done, all nodes near enough are expanded.
LEMMA NoneIsOpen ==
  ASSUME NEW x \in Indexes, NEW d, NEW s, NEW e, NEW b, ReadyFor(x, d, s, e, b),
         Ordered(DOMAIN x.graph, d, s), DoneOf(x, b)
  PROVE  Near(x.deleted, d, s, WindowOf(x, b)) \subseteq e
<1> DEFINE N == DOMAIN x.graph
           c == CandidatesOf(x, b)
           ends == EndOf(x, b)
           w == WindowOf(x, b)
<1>1. /\ Holds(N, x.deleted, d, s, e, b.capacity, c, ValidOf(x, b))
      /\ EndsAt(w, c, ValidOf(x, b), ends) /\ CursorAt(c, ends, b.best)
      /\ b.capacity \in Nat \ {0} /\ w \in 1 .. b.capacity /\ Ordered(N, d, s)
  BY ReadyIs
<1>2. b.best = ends
  BY DoneIs
<1> HIDE DEF N, c, ends, w
<1>3. ends \in 0 .. Len(c) /\ Near(x.deleted, d, s, w) = IdsIn(c, 1 .. ends)
  BY <1>1, NearestAre
<1>4. Known(N, x.deleted, d, s, e, c)
  BY <1>1 DEF Holds
<1>5. ASSUME NEW i \in 1 .. ends PROVE c[i].id \in e
  <2>1. Len(c) \in Nat
    BY <1>4 DEF Known
  <2>2. i \in 1 .. Len(c)
    BY <1>3, <2>1
  <2>3. c[i].visited
    BY <1>1, <1>2 DEF CursorAt
  <2> QED
    BY <1>4, <2>2, <2>3 DEF Known
<1> QED
  BY <1>3, <1>5 DEF IdsIn, w

LEMMA ReturnHolds ==
  ASSUME SmallIndexes, SearchInv, Return
  PROVE  SearchInv' /\ Promise!Return
<1>1. /\ index \in Indexes /\ index' = index /\ dist' = dist /\ filter' = filter /\ seen' = seen
      /\ pending' = pending /\ expanded' = expanded /\ asked' = asked
      /\ seen # <<>> /\ results = <<>> /\ pending = <<>> /\ Searching
  BY DEF SearchInv, Remembered, Return, Searching
<1>2. /\ Ordered(DOMAIN index.graph, dist, seen) /\ expanded \subseteq NodesOf(seen)
      /\ ReadyFor(index, dist, seen, expanded, buffer) /\ index.k <= buffer.capacity
  BY <1>1 DEF SearchInv, Remembered, BufferReady
<1>3. DoneOf(index, buffer)
  BY DEF Return, Done, DoneOf, Static
<1>4. buffer' = IF index.kind = "static" THEN buffer ELSE Dyn!cleanup(buffer)
  BY DEF Return, Cleaned, Static
<1>5. results' = RowFrom(index, buffer')
  BY DEF Return, Copied, RowFrom, Static
<1>6. /\ RowOf(DOMAIN index.graph, index.deleted, dist, seen, index.k, RowFrom(index, buffer'))
      /\ Fits(index, buffer') /\ SameLimits(index, buffer, buffer')
  BY <1>1, <1>2, <1>4, ReturnIsRow
<1>7. results' # <<>>
  <2>1. DOMAIN results' = 1 .. index.k /\ index.k \in Nat \ {0}
    BY <1>1, <1>5, IndexIs DEF RowFrom
  <2>2. 1 \in DOMAIN results'
    BY <2>1
  <2> QED
    BY <2>2
<1>8. Remembered'
  BY <1>1, <1>2 DEF Remembered, SearchInv
<1>9. Phases'
  BY <1>1 DEF Phases
<1>10. FilterKnows'
  BY <1>1 DEF FilterKnows, SearchInv
<1>11. BufferReady'
  BY <1>1, <1>2, <1>6, <1>7 DEF BufferReady, SameLimits, Searching
<1>12. Window' = Window
  BY <1>1, <1>6, WindowIs DEF SameLimits
<1>13. Promise!Open = {}
  <2>1. Promise!Open = Near(index.deleted, dist, seen, WindowOf(index, buffer)) \ expanded
    BY PromiseIs DEF Promise!Open
  <2> QED
    BY <1>1, <1>2, <1>3, <2>1, NoneIsOpen
<1>14. /\ results' \in [1 .. index.k -> DOMAIN index.graph \cup {Missing}]
       /\ \A x \in Promise!NearestOf(index.k) \ index.deleted :
            results'[Cardinality(Promise!Before(x)) + 1] = x
  BY <1>5, <1>6, PromiseIs DEF RowOf
<1>15. Promise!Return
  BY <1>1, <1>12, <1>13, <1>14 DEF Promise!Return, Cardinality, Promise!Cardinality
<1> QED
  BY <1>8, <1>9, <1>10, <1>11, <1>15 DEF SearchInv

-----------------------------------------------------------------------------
(***************************************************************************)
(* What the invariant says of the buffer.                                  *)
(***************************************************************************)
LEMMA HeldIs ==
  Held = CandidatesOf(index, buffer)
BY DEF Held, CandidatesOf, Static, HeldOf

\* The ids of all candidates are those of the nearest nodes, as many as the capacity.
LEMMA HeldAreNearest ==
  ASSUME NEW x \in Indexes, NEW d, NEW s, NEW e, NEW b, ReadyFor(x, d, s, e, b),
         Ordered(DOMAIN x.graph, d, s), NEW c, c = CandidatesOf(x, b)
  PROVE  /\ IdsIn(c, 1 .. Len(c)) = Near(x.deleted, d, s, b.capacity)
         /\ Known(DOMAIN x.graph, x.deleted, d, s, e, c) /\ InOrder(d, s, c)
         /\ ValidOf(x, b) = Cardinality(IdsIn(c, 1 .. Len(c)) \ x.deleted)
<1> DEFINE N == DOMAIN x.graph
           v == ValidOf(x, b)
           l == Len(c)
           cap == b.capacity
<1>1. Holds(N, x.deleted, d, s, e, cap, c, v) /\ cap \in Nat \ {0} /\ Ordered(N, d, s)
  BY ReadyIs
<1> HIDE DEF N, v, cap
<1>2. Known(N, x.deleted, d, s, e, c) /\ InOrder(d, s, c) /\ Limited(cap, c, v) /\ l \in Nat
  BY <1>1 DEF Holds, Known
<1>3. EndsAt(cap, c, v, l)
  <2>1. v \in Nat
    BY <1>2, ValidsType DEF Limited
  <2> QED
    BY <1>1, <1>2, <2>1 DEF EndsAt, Limited
<1>4. IdsIn(c, 1 .. l) = Near(x.deleted, d, s, cap)
  <2>1. cap \in 1 .. cap
    BY <1>1
  <2> QED
    BY <1>1, <1>3, <2>1, NearestAre
<1>5. v = Cardinality(IdsIn(c, 1 .. l) \ x.deleted)
  <2>1. IdsIn(c, 1 .. l) \ x.deleted = IdsIn(c, Marked(c, l))
    BY <1>2 DEF Known, IdsIn, Marked
  <2>2. Marked(c, l) \subseteq 1 .. l
    BY DEF Marked
  <2>3. Cardinality(IdsIn(c, Marked(c, l))) = Cardinality(Marked(c, l))
    <3>1. \A i, j \in 1 .. l : c[i].id = c[j].id => i = j
      BY <1>1, <1>2, IdsDiffer
    <3>2. IsFiniteSet(Marked(c, l))
      BY <1>2, ValidsType
    <3>3. \A i, j \in Marked(c, l) : c[i].id = c[j].id => i = j
      BY <2>2, <3>1
    <3> QED
      BY <3>2, <3>3, IdsAreAsMany
  <2> QED
    BY <1>2, <2>1, <2>3 DEF Limited, Valids
<1> QED
  BY <1>2, <1>4, <1>5 DEF N, v, cap

LEMMA TypesHold ==
  ASSUME SearchInv
  PROVE  TypeOK
<1>1. /\ index \in Indexes /\ asked \in 0 .. MaxQueries /\ Fits(index, buffer)
      /\ Ordered(DOMAIN index.graph, dist, seen) /\ expanded \subseteq NodesOf(seen)
      /\ filter \in [0 .. Slots - 1 -> 0 .. Uppers - 1]
  BY DEF SearchInv, Remembered, FilterKnows, Filters, BufferReady
<1>2. dist \in [DOMAIN index.graph -> Nat] /\ NodesOf(seen) \subseteq DOMAIN index.graph
  BY <1>1, CloserIsOrder DEF Ordered
<1>3. Len(Held) <= IF Static THEN Capacity ELSE CounterLimit
  <2>1. CASE index.kind = "static"
    <3>1. FlatShape(DOMAIN index.graph, buffer)
      BY <1>1, <2>1 DEF Fits
    <3>2. Len(HeldOf(buffer)) = buffer.size /\ buffer.size <= buffer.capacity
      BY <3>1, FlatHeld DEF FlatShape
    <3> QED
      BY <2>1, <3>2, HeldIs DEF Static, CandidatesOf, Capacity
  <2>2. CASE index.kind # "static"
    BY <1>1, <2>2, HeldIs DEF Static, CandidatesOf, Fits
  <2> QED
    BY <2>1, <2>2
<1> QED
  BY <1>1, <1>2, <1>3, PromiseIs DEF TypeOK

LEMMA NearestHeld ==
  ASSUME SearchInv
  PROVE  BufferHoldsNearest
<1> SUFFICES ASSUME Searching
             PROVE  /\ Ids = Promise!NearestOf(Capacity)
                    /\ \A i, j \in DOMAIN Held : i < j => Promise!Nearer(Held[i].id, Held[j].id)
                    /\ \A i \in DOMAIN Held :
                         LET n == Held[i] IN n.dist = dist[n.id] /\ (n.visited <=> n.id \in expanded)
  BY DEF BufferHoldsNearest
<1> DEFINE c == CandidatesOf(index, buffer)
<1>1. /\ index \in Indexes /\ Ordered(DOMAIN index.graph, dist, seen)
      /\ ReadyFor(index, dist, seen, expanded, buffer)
  BY DEF SearchInv, Remembered, BufferReady
<1>2. /\ IdsIn(c, 1 .. Len(c)) = Near(index.deleted, dist, seen, buffer.capacity)
      /\ Known(DOMAIN index.graph, index.deleted, dist, seen, expanded, c) /\ InOrder(dist, seen, c)
  BY <1>1, HeldAreNearest
<1>3. Held = c
  BY HeldIs
<1> HIDE DEF c
<1>4. DOMAIN c = 1 .. Len(c)
  BY <1>2 DEF Known
<1>5. Ids = Promise!NearestOf(Capacity)
  BY <1>2, <1>3, <1>4, PromiseIs DEF Ids, IdsIn, Capacity
<1>6. \A i, j \in DOMAIN Held : i < j => Promise!Nearer(Held[i].id, Held[j].id)
  BY <1>2, <1>3, <1>4, PromiseIs DEF InOrder
<1>7. \A i \in DOMAIN Held :
        Held[i].dist = dist[Held[i].id] /\ (Held[i].visited <=> Held[i].id \in expanded)
  BY <1>2, <1>3, <1>4 DEF Known
<1> QED
  BY <1>5, <1>6, <1>7

LEMMA CountersHold ==
  ASSUME SearchInv
  PROVE  CountersAgree
<1> SUFFICES ASSUME Searching
             PROVE  /\ Static \/ buffer.valid = Cardinality(Ids \ index.deleted)
                    /\ LET ends == Cardinality(Promise!Region)
                       IN  /\ Static \/ buffer.roi = ends
                           /\ buffer.best <= ends
                           /\ \A i \in 1 .. buffer.best : Held[i].visited
                           /\ buffer.best < ends => ~Held[buffer.best + 1].visited
  BY DEF CountersAgree
<1> DEFINE c == CandidatesOf(index, buffer)
           ends == EndOf(index, buffer)
<1>1. /\ index \in Indexes /\ Ordered(DOMAIN index.graph, dist, seen)
      /\ ReadyFor(index, dist, seen, expanded, buffer)
  BY DEF SearchInv, Remembered, BufferReady
<1>2. /\ Holds(DOMAIN index.graph, index.deleted, dist, seen, expanded, buffer.capacity, c,
               ValidOf(index, buffer))
      /\ EndsAt(WindowOf(index, buffer), c, ValidOf(index, buffer), ends)
      /\ CursorAt(c, ends, buffer.best)
      /\ buffer.capacity \in Nat \ {0} /\ WindowOf(index, buffer) \in 1 .. buffer.capacity
  BY <1>1, ReadyIs
<1>3. /\ ValidOf(index, buffer) = Cardinality(IdsIn(c, 1 .. Len(c)) \ index.deleted)
      /\ Known(DOMAIN index.graph, index.deleted, dist, seen, expanded, c)
  BY <1>1, HeldAreNearest
<1>4. Held = c
  BY HeldIs
<1> HIDE DEF c, ends
<1>5. Cardinality(Promise!Region) = ends /\ ends \in 0 .. Len(c)
  <2>1. /\ ends \in 0 .. Len(c)
        /\ Cardinality(Near(index.deleted, dist, seen, WindowOf(index, buffer))) = ends
    BY <1>1, <1>2, NearestAre
  <2> QED
    BY <2>1, PromiseIs
<1>6. Ids = IdsIn(c, 1 .. Len(c)) /\ Len(c) \in Nat
  <2>1. DOMAIN c = 1 .. Len(c) /\ Len(c) \in Nat
    BY <1>3 DEF Known
  <2> QED
    BY <1>4, <2>1 DEF Ids, IdsIn
<1>7. Static \/ buffer.valid = Cardinality(Ids \ index.deleted)
  BY <1>3, <1>6 DEF ValidOf, Static
<1>8. Static \/ buffer.roi = ends
  BY DEF EndOf, Static, ends
<1>9. /\ buffer.best <= ends
      /\ \A i \in 1 .. buffer.best : Held[i].visited
      /\ buffer.best < ends => ~Held[buffer.best + 1].visited
  BY <1>2, <1>4, <1>5, <1>6 DEF CursorAt
<1> QED
  BY <1>5, <1>7, <1>8, <1>9

LEMMA InvIsSound ==
  ASSUME SearchInv
  PROVE  BufferSound
<1>1. FilterIsSafe
  <2>1. index \in Indexes /\ Knows(index, filter, NodesOf(seen))
    BY DEF SearchInv, Remembered, FilterKnows
  <2> QED
    BY <2>1, PromiseIs DEF FilterIsSafe, Knows, check
<1> QED
  BY <1>1, TypesHold, NearestHeld, CountersHold DEF BufferSound

-----------------------------------------------------------------------------
(***************************************************************************)
(* The theorems.                                                           *)
(***************************************************************************)
LEMMA StepHolds ==
  ASSUME SmallIndexes, SearchInv, [Next]_vars
  PROVE  SearchInv' /\ [Promise!Next]_(Promise!vars)
<1>1. CASE Ask
  BY <1>1, AskHolds DEF Promise!Next
<1>2. CASE Expand
  BY <1>2, ExpandHolds DEF Promise!Next
<1>3. CASE Visit
  BY <1>3, VisitHolds DEF Promise!Next
<1>4. CASE Return
  BY <1>4, ReturnHolds DEF Promise!Next
<1>5. CASE UNCHANGED vars
  <2>1. /\ index' = index /\ dist' = dist /\ buffer' = buffer /\ filter' = filter
        /\ seen' = seen /\ pending' = pending /\ expanded' = expanded /\ results' = results
        /\ asked' = asked
    BY <1>5 DEF vars
  <2>2. Remembered'
    BY <2>1 DEF SearchInv, Remembered
  <2>3. Phases'
    BY <2>1 DEF SearchInv, Phases
  <2>4. FilterKnows'
    BY <2>1 DEF SearchInv, FilterKnows
  <2>5. BufferReady'
    BY <2>1 DEF SearchInv, BufferReady, Searching
  <2>6. UNCHANGED Promise!vars
    BY <2>1, WindowIs DEF Promise!vars
  <2> QED
    BY <2>2, <2>3, <2>4, <2>5, <2>6 DEF SearchInv
<1> QED
  BY <1>1, <1>2, <1>3, <1>4, <1>5 DEF Next

\* What a search remembers, its filter, its buffer and the counters that say where the
\* search goes on stay in step through every query (greedy_search.h, and the insert, next
\* and sort of both buffers).
THEOREM SearchInvariant ==
  ASSUME SmallIndexes
  PROVE  Spec => []SearchInv
<1>1. Init => SearchInv
  BY InitHolds
<1>2. SearchInv /\ [Next]_vars => SearchInv'
  BY StepHolds
<1> QED
  BY <1>1, <1>2, PTL DEF Spec

\* In every state of a search the buffer holds the nearest of all nodes met so far, in
\* their order, marks exactly the expanded ones, and its counters, the end of the region
\* of interest among them, are those of its contents; the visited filter skips no node
\* that is new (search_buffer.h, dynamic_search_buffer.h, filter.h).
THEOREM BufferIsSound ==
  ASSUME SmallIndexes
  PROVE  Spec => []BufferSound
<1>1. SearchInv => BufferSound
  BY InvIsSound
<1> QED
  BY <1>1, SearchInvariant, PTL

\* A search with a bounded buffer and a filter that forgets expands the same nodes in
\* the same order, and returns the same neighbors, as the search that remembers every
\* node it met (greedy_search.h, index.h, dynamic_index.h).
THEOREM SearchKeepsPromise ==
  ASSUME SmallIndexes
  PROVE  Spec => KeepsPromise
<1>1. Init => Promise!Init
  BY InitHolds
<1>2. SearchInv /\ [Next]_vars => [Promise!Next]_(Promise!vars)
  BY StepHolds
<1> QED
  BY <1>1, <1>2, SearchInvariant, PTL DEF Spec, KeepsPromise
=============================================================================
