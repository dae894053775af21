----------------------------- MODULE SearchBuffer -----------------------------
(***************************************************************************)
(* The buffer of a search on a static index                                *)
(* (include/svs/index/vamana/search_buffer.h) as operators on a record.    *)
(* `cand` is candidates_: one slot more than the capacity, positions from  *)
(* 0, and the positions from `size` on keep what was there before.  A      *)
(* neighbor is a record [id, dist, visited, valid]; the static buffer has  *)
(* no use for `valid`.                                                     *)
(***************************************************************************)
EXTENDS Integers, FiniteSets, FiniteSetsExt

CONSTANT Blank  \* a neighbor nobody has written

SearchBuffer(window, capacity) ==
  [size |-> 0, best |-> 0, window |-> window, capacity |-> capacity,
   cand |-> [i \in 0 .. capacity |-> Blank]]

change_maxsize(b, window, capacity) ==
  [b EXCEPT !.window = window, !.capacity = capacity,
            !.cand = [i \in 0 .. capacity |->
                        IF i \in DOMAIN b.cand THEN b.cand[i] ELSE Blank]]

clear(b) == [b EXCEPT !.size = 0, !.best = 0]

full(b) == b.size = b.capacity

\* One past the last position that is expanded.
Upper(b) == Min({b.size, b.window})

done(b) == b.best = Upper(b)

\* The buffer after next(); the neighbor returned is b.cand[b.best].
next(b) ==
  LET c == [b.cand EXCEPT ![b.best].visited = TRUE]
  IN  [b EXCEPT !.cand = c,
                !.best = Min({i \in b.best + 1 .. Upper(b) :
                                i = Upper(b) \/ ~c[i].visited})]

push_back(b, n) ==
  IF full(b) THEN b
  ELSE [b EXCEPT !.cand[b.size] = n, !.size = @ + 1]

\* The neighbors of c, the nearest first.
Sorted(c) ==
  LET rank(i) == Cardinality({j \in DOMAIN c : c[j].dist < c[i].dist
                                                 \/ (c[j].dist = c[i].dist /\ j < i)})
  IN  [r \in DOMAIN c |-> c[CHOOSE i \in DOMAIN c : rank(i) = r - 1]]

sort(b) ==
  LET held == Sorted([i \in 1 .. b.size |-> b.cand[i - 1]])
  IN  [b EXCEPT !.cand = [i \in DOMAIN @ |-> IF i < b.size THEN held[i + 1] ELSE @[i]]]

\* back() is read in an empty buffer too, where it is before the first candidate.
can_skip(b, d) == full(b) /\ b.cand[b.size - 1].dist < d

\* std::lower_bound with the flipped comparison: past all neighbors as near.
Position(b, d) == Cardinality({i \in 0 .. b.size - 1 : b.cand[i].dist <= d})

\* Mutant: the search for a repeated id stops one neighbor too early.
RepeatedNext(b, n, pos) == pos > 0 /\ b.cand[pos - 1].id = n.id

\* Going back from pos, the id is met before a neighbor that is nearer.
Repeated(b, n, pos) ==
  \E i \in 0 .. pos - 1 :
    b.cand[i].id = n.id /\ \A j \in i .. pos - 1 : ~(b.cand[j].dist < n.dist)

\* copy_backward into the spare slot, then the neighbor at pos.
Shifted(b, n, pos) ==
  [i \in DOMAIN b.cand |->
     IF i < pos \/ i > b.size THEN b.cand[i]
     ELSE IF i = pos THEN n ELSE b.cand[i - 1]]

\* Mutant: the search is called back before the neighbor is known to be new.
InsertCallsBack(b, n) ==
  LET pos == Position(b, n.dist)
  IN  IF Repeated(b, n, pos) THEN [b EXCEPT !.best = Min({@, pos})]
      ELSE [b EXCEPT !.cand = Shifted(b, n, pos),
                     !.size = Min({@ + 1, b.capacity}),
                     !.best = Min({@, pos})]

insert_inner(b, n) ==
  LET pos == Position(b, n.dist)
  IN  IF Repeated(b, n, pos) THEN b
      ELSE [b EXCEPT !.cand = Shifted(b, n, pos),
                     !.size = Min({@ + 1, b.capacity}),
                     !.best = Min({@, pos})]

\* The buffer after insert(n).
insert(b, n) == IF can_skip(b, n.dist) THEN b ELSE insert_inner(b, n)
=============================================================================
