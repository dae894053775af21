--------------------------- MODULE PartitionProofs ---------------------------
(***************************************************************************)
(* What the partitions of Partition are for any number of indices and      *)
(* threads: the shares of balance and the pieces of a DynamicPartition     *)
(* divide the indices.                                                     *)
(***************************************************************************)
EXTENDS Partition, WellFoundedInduction, TLAPS

\* A set of natural numbers that is not empty has a least element.
LEMMA LeastOf ==
  ASSUME NEW T \in SUBSET Nat, T # {}
  PROVE  \E x \in T : \A y \in T : x <= y
<1> DEFINE R == OpToRel(<, Nat)
<1>1. IsWellFoundedOn(R, Nat)
  BY NatLessThanWellFounded
<1>2. \A x, y \in Nat : x < y => <<x, y>> \in R
  BY DEF OpToRel
<1> HIDE DEF R
<1>3. PICK x \in T : \A y \in T : ~(<<y, x>> \in R)
  BY <1>1, WFMin, Zenon
<1>4. ASSUME NEW y \in T PROVE x <= y
  <2>1. x \in Nat /\ y \in Nat OBVIOUS
  <2>2. ~(y < x) BY <2>1, <1>2, <1>3
  <2> QED BY <2>1, <2>2
<1> QED BY <1>4

\* Induction over the natural numbers, for a set.
LEMMA SetInduction ==
  ASSUME NEW S, 0 \in S, \A n \in S : n \in Nat => n + 1 \in S
  PROVE  Nat \subseteq S
<1> SUFFICES ASSUME Nat \ S # {} PROVE FALSE OBVIOUS
<1>1. PICK x \in Nat \ S : \A y \in Nat \ S : x <= y
  BY LeastOf
<1>2. x - 1 \in Nat /\ x - 1 \in S BY <1>1
<1> QED BY <1>1, <1>2

-----------------------------------------------------------------------------
\* What each thread has at least, how many have one more, and where thread t starts.
Short(n, T) == div_round_up(n, T) - 1
Long(n, T) == n - Short(n, T) * T
First(n, T, t) == Short(n, T) * t + MinOf(t, Long(n, T))

\* The quotient and the remainder that balance divides n with.
LEMMA Euclid ==
  ASSUME NEW n \in Nat, NEW T \in Nat \ {0}
  PROVE  /\ n \div T \in Nat /\ n % T \in 0 .. T - 1
         /\ n = (n \div T) * T + (n % T)
OBVIOUS

\* The two sizes of shares: Long(n, T) threads have one more index than the others,
\* and together they have all n.
LEMMA TeamSizes ==
  ASSUME NEW n \in Nat \ {0}, NEW T \in Nat \ {0}
  PROVE  /\ Short(n, T) \in Nat /\ Long(n, T) \in 1 .. T
         /\ div_round_up(n, T) = Short(n, T) + 1
         /\ n = Short(n, T) * T + Long(n, T)
<1> DEFINE q == n \div T
           r == n % T
<1>1. q \in Nat /\ r \in 0 .. T - 1 /\ n = q * T + r
  BY Euclid
<1> HIDE DEF q, r
<1>2. CASE r = 0
  <2>1. div_round_up(n, T) = q BY <1>2, <1>1 DEF q, r, div_round_up
  <2>2. q # 0 BY <1>1, <1>2
  <2>3. (q - 1) * T = q * T - T BY <1>1
  <2> QED BY <2>1, <2>2, <2>3, <1>1, <1>2 DEF Short, Long
<1>3. CASE r # 0
  <2>1. div_round_up(n, T) = q + 1 BY <1>3, <1>1 DEF q, r, div_round_up
  <2> QED BY <2>1, <1>1, <1>3 DEF Short, Long
<1> QED BY <1>2, <1>3

\* The start that balance computes for thread t is First(n, T, t).
LEMMA StartIsFirst ==
  ASSUME NEW n \in Nat \ {0}, NEW T \in Nat \ {0}, NEW t \in Nat
  PROVE  BalanceStart(n, T, t) = First(n, T, t)
<1> DEFINE b == Short(n, T)
           k == Long(n, T)
<1>1. b \in Nat /\ k \in 1 .. T /\ div_round_up(n, T) = b + 1 /\ n = b * T + k
  BY TeamSizes
<1>2. BalanceStart(n, T, t) = IF t < k THEN (b + 1) * t ELSE (b + 1) * k + b * (t - k)
  BY <1>1 DEF BalanceStart, Short, Long
<1>3. First(n, T, t) = b * t + MinOf(t, k)
  BY DEF First
<1> HIDE DEF b, k
<1>4. (b + 1) * t = b * t + t BY <1>1
<1>5. (b + 1) * k + b * (t - k) = b * t + k BY <1>1
<1> QED BY <1>1, <1>2, <1>3, <1>4, <1>5 DEF MinOf

\* The shares start at 0, in the order of the threads, and the one after the last
\* starts at n.
LEMMA FirstGrows ==
  ASSUME NEW n \in Nat \ {0}, NEW T \in Nat \ {0}
  PROVE  /\ First(n, T, 0) = 0 /\ First(n, T, T) = n
         /\ \A t \in Nat : First(n, T, t) \in Nat
         /\ \A t, u \in Nat : t <= u => First(n, T, t) <= First(n, T, u)
<1> DEFINE b == Short(n, T)
           k == Long(n, T)
<1>1. b \in Nat /\ k \in 1 .. T /\ n = b * T + k
  BY TeamSizes
<1>2. \A t : First(n, T, t) = b * t + MinOf(t, k)
  BY DEF First
<1> HIDE DEF b, k
<1>3. b * 0 = 0
  BY <1>1
<1>4. \A t \in Nat : b * t \in Nat /\ MinOf(t, k) \in Nat
  BY <1>1 DEF MinOf
<1>5. ASSUME NEW t \in Nat, NEW u \in Nat, t <= u
      PROVE  b * t <= b * u /\ MinOf(t, k) <= MinOf(u, k)
  <2>1. u - t \in Nat /\ b * (u - t) \in Nat /\ b * u = b * t + b * (u - t)
    BY <1>1, <1>5
  <2> QED BY <2>1, <1>1, <1>4, <1>5 DEF MinOf
<1>6. MinOf(0, k) = 0 /\ MinOf(T, k) = k
  BY <1>1 DEF MinOf
<1>7. First(n, T, 0) = 0
  BY <1>2, <1>3, <1>6
<1>8. First(n, T, T) = n
  BY <1>1, <1>2, <1>6
<1>9. \A t \in Nat : First(n, T, t) \in Nat
  BY <1>2, <1>4
<1>10. ASSUME NEW t \in Nat, NEW u \in Nat, t <= u
       PROVE  First(n, T, t) <= First(n, T, u)
  BY <1>2, <1>4, <1>5, <1>10
<1> QED BY <1>7, <1>8, <1>9, <1>10

\* What balance gives a thread of a team, as a range; it is empty beyond the team.
LEMMA ShareIs ==
  ASSUME NEW n \in Nat \ {0}, NEW T \in Nat, T > 1, NEW t \in Nat
  PROVE  balance(n, T, t) = IF t < T THEN First(n, T, t) .. First(n, T, t + 1) - 1 ELSE {}
<1> DEFINE b == Short(n, T)
           k == Long(n, T)
           this_b == IF t < k THEN b + 1 ELSE b
<1>1. b \in Nat /\ k \in 1 .. T /\ div_round_up(n, T) = b + 1 /\ n = b * T + k
  BY TeamSizes
<1>2. BalanceStart(n, T, t) = First(n, T, t)
  BY StartIsFirst
<1>3. BalanceStop(n, T, t) = MinOf(First(n, T, t) + this_b, n)
  BY <1>1, <1>2 DEF BalanceStop, Short, Long
<1>4. balance(n, T, t) = First(n, T, t) .. MinOf(First(n, T, t) + this_b, n) - 1
  BY <1>2, <1>3 DEF balance, UnitRange
<1>5. /\ First(n, T, t) = b * t + MinOf(t, k)
      /\ First(n, T, t + 1) = b * (t + 1) + MinOf(t + 1, k)
  BY DEF First
<1>6. First(n, T, t) \in Nat /\ First(n, T, t + 1) \in Nat /\ First(n, T, T) = n
  BY FirstGrows
<1> HIDE DEF b, k
<1>7. CASE t < T
  <2>1. First(n, T, t + 1) <= n
    BY <1>6, <1>7, FirstGrows
  <2>2. b * (t + 1) = b * t + b /\ b * t \in Nat
    BY <1>1
  <2>3. First(n, T, t) + this_b = First(n, T, t + 1)
    BY <1>1, <1>5, <2>2 DEF MinOf
  <2> QED BY <1>4, <1>6, <1>7, <2>1, <2>3 DEF MinOf
<1>8. CASE ~(t < T)
  <2>1. n <= First(n, T, t)
    BY <1>6, <1>8, FirstGrows
  <2>2. MinOf(First(n, T, t) + this_b, n) <= n /\ MinOf(First(n, T, t) + this_b, n) \in Int
    BY <1>1, <1>6 DEF MinOf
  <2> QED BY <1>4, <1>6, <1>8, <2>1, <2>2
<1> QED BY <1>7, <1>8

\* No two threads of a team of any size have an index of a static partition in common
\* (balance, types.h).  A single thread has all of them.
THEOREM SharesAreDisjoint ==
  ASSUME NEW n \in Nat, NEW T \in Nat, T > 1, NEW t \in Nat, NEW u \in Nat, t # u
  PROVE  balance(n, T, t) \cap balance(n, T, u) = {}
<1>0. n = 0 => balance(n, T, t) = {}
  BY DEF balance, UnitRange
<1> SUFFICES ASSUME n # 0, t < T, u < T, NEW x \in balance(n, T, t), x \in balance(n, T, u)
             PROVE  FALSE
  BY <1>0, ShareIs
<1>1. /\ x \in First(n, T, t) .. First(n, T, t + 1) - 1
      /\ x \in First(n, T, u) .. First(n, T, u + 1) - 1
  BY ShareIs
<1>2. /\ First(n, T, t) \in Nat /\ First(n, T, t + 1) \in Nat
      /\ First(n, T, u) \in Nat /\ First(n, T, u + 1) \in Nat
  <2>1. n \in Nat \ {0} /\ T \in Nat \ {0} /\ t + 1 \in Nat /\ u + 1 \in Nat
    OBVIOUS
  <2> QED BY <2>1, FirstGrows
<1>3. CASE t < u
  <2>1. First(n, T, t + 1) <= First(n, T, u) BY <1>3, FirstGrows
  <2> QED BY <1>1, <1>2, <2>1
<1>4. CASE u < t
  <2>1. First(n, T, u + 1) <= First(n, T, t) BY <1>4, FirstGrows
  <2> QED BY <1>1, <1>2, <2>1
<1> QED BY <1>3, <1>4

\* Every index of a static partition is in the share of some thread of the team
\* (balance, types.h), whatever the number of indices and of threads.
THEOREM SharesCover ==
  ASSUME NEW n \in Nat, NEW T \in Nat \ {0}, NEW x \in 0 .. n - 1
  PROVE  \E t \in 0 .. T - 1 : x \in balance(n, T, t)
<1>0. CASE T = 1
  BY <1>0 DEF balance, UnitRange
<1> SUFFICES ASSUME T > 1 PROVE \E t \in 0 .. T - 1 : x \in balance(n, T, t)
  BY <1>0
<1> DEFINE Later == {u \in Nat : x < First(n, T, u)}
<1>1. First(n, T, 0) = 0 /\ First(n, T, T) = n /\ \A u \in Nat : First(n, T, u) \in Nat
  BY FirstGrows
<1>2. T \in Later
  BY <1>1
<1>3. PICK u \in Later : \A w \in Later : u <= w
  <2> HIDE DEF Later
  <2>1. Later \in SUBSET Nat BY DEF Later
  <2> QED BY <1>2, <2>1, LeastOf
<1>4. u # 0
  BY <1>1
<1>5. u - 1 \in 0 .. T - 1 /\ u - 1 \notin Later
  BY <1>2, <1>3, <1>4
<1>6. First(n, T, u - 1) <= x /\ x < First(n, T, u)
  BY <1>1, <1>3, <1>5
<1>7. balance(n, T, u - 1) = First(n, T, u - 1) .. First(n, T, u) - 1
  BY <1>5, ShareIs
<1>8. x \in balance(n, T, u - 1)
  BY <1>1, <1>5, <1>6, <1>7
<1> QED BY <1>5, <1>8

\* The pieces of a dynamic partition (DynamicPartition's thunk, thunks.h) are disjoint
\* and have every index, and a piece is empty exactly if the thunk stops there,
\* whatever the grain size.
THEOREM PiecesAreExact ==
  ASSUME NEW n \in Nat, NEW g \in Nat \ {0}
  PROVE  /\ \A i \in Nat : DynamicPiece(n, g, i) \subseteq 0 .. n - 1
         /\ \A i \in Nat : DynamicPiece(n, g, i) = {} <=> DynamicDone(n, g, i)
         /\ \A i, j \in Nat : i # j => DynamicPiece(n, g, i) \cap DynamicPiece(n, g, j) = {}
         /\ \A x \in 0 .. n - 1 : \E i \in Nat : x \in DynamicPiece(n, g, i)
<1>1. ASSUME NEW i \in Nat
      PROVE  /\ g * i \in Nat /\ g * (i + 1) = g * i + g
             /\ DynamicPiece(n, g, i) = g * i .. MinOf(g * (i + 1), n) - 1
  BY DEF DynamicPiece, UnitRange
<1>2. ASSUME NEW i \in Nat
      PROVE  /\ DynamicPiece(n, g, i) \subseteq 0 .. n - 1
             /\ DynamicPiece(n, g, i) = {} <=> DynamicDone(n, g, i)
  <2> DEFINE a == g * i
  <2>1. a \in Nat /\ DynamicPiece(n, g, i) = a .. MinOf(a + g, n) - 1
    BY <1>1
  <2>2. DynamicDone(n, g, i) <=> a >= n
    BY DEF DynamicDone
  <2> HIDE DEF a
  <2>3. CASE a >= n
    BY <2>1, <2>2, <2>3 DEF MinOf
  <2>4. CASE a < n
    <3>1. a \in DynamicPiece(n, g, i)
      BY <2>1, <2>4 DEF MinOf
    <3> QED BY <2>1, <2>2, <2>4, <3>1 DEF MinOf
  <2> QED BY <2>1, <2>3, <2>4
<1>3. ASSUME NEW i \in Nat, NEW j \in Nat, i < j
      PROVE  DynamicPiece(n, g, i) \cap DynamicPiece(n, g, j) = {}
  <2>1. g * (i + 1) <= g * j
    <3>1. j - i - 1 \in Nat /\ g * j = g * (i + 1) + g * (j - i - 1)
      BY <1>3
    <3>2. g * (j - i - 1) \in Nat /\ g * (i + 1) \in Nat
      BY <3>1
    <3> QED BY <3>1, <3>2
  <2> DEFINE a == g * (i + 1)
             b == g * j
             c == g * i
  <2>2. a \in Nat /\ b \in Nat /\ c \in Nat /\ g * (j + 1) \in Nat
    OBVIOUS
  <2>3. /\ DynamicPiece(n, g, i) = c .. MinOf(a, n) - 1
        /\ DynamicPiece(n, g, j) = b .. MinOf(g * (j + 1), n) - 1
    BY <1>1
  <2> HIDE DEF a, b, c
  <2> QED BY <2>1, <2>2, <2>3 DEF MinOf, a, b
<1>4. ASSUME NEW x \in 0 .. n - 1 PROVE \E i \in Nat : x \in DynamicPiece(n, g, i)
  <2> DEFINE i == x \div g
             c == g * i
  <2>1. i \in Nat /\ c \in Nat /\ c <= x /\ x < c + g
    BY Euclid
  <2>2. DynamicPiece(n, g, i) = c .. MinOf(c + g, n) - 1
    BY <1>1, <2>1
  <2> HIDE DEF c, i
  <2>3. x \in DynamicPiece(n, g, i)
    BY <2>1, <2>2 DEF MinOf
  <2> QED BY <2>1, <2>3
<1>5. ASSUME NEW i \in Nat, NEW j \in Nat, i # j
      PROVE  DynamicPiece(n, g, i) \cap DynamicPiece(n, g, j) = {}
  <2>1. i < j \/ j < i
    BY <1>5
  <2> QED BY <1>3, <2>1
<1> QED BY <1>2, <1>4, <1>5
=============================================================================
