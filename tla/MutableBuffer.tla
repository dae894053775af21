---------------------------- MODULE MutableBuffer ----------------------------
(***************************************************************************)
(* The buffer of a search on a dynamic index                               *)
(* (include/svs/index/vamana/dynamic_search_buffer.h) as operators on a    *)
(* record: deleted neighbors are kept and expanded, but only the others    *)
(* count for the window (`target`) and the capacity.  `cand` is the vector *)
(* candidates_: the neighbor at C++ position i is cand[i + 1].             *)
(***************************************************************************)
EXTENDS Integers, Sequences, FiniteSets, FiniteSetsExt, SequencesExt

CONSTANTS CounterLimit,  \* 2^16, the number of values of the 16-bit counters
          Blank          \* a neighbor nobody has written

\* Conversion to uint16_t.
Narrow(x) == x % CounterLimit

MutableBuffer(target, capacity) ==
  [target |-> target, capacity |-> capacity, best |-> 0, roi |-> 0, valid |-> 0,
   cand |-> <<>>]

\* Cuts the vector or fills it up; clear() empties it before the next search.
change_maxsize(b, target, capacity) ==
  [b EXCEPT !.target = target, !.capacity = capacity,
            !.cand = [i \in 1 .. capacity + 1 |-> IF i \in DOMAIN @ THEN @[i] ELSE Blank]]

clear(b) == [b EXCEPT !.cand = <<>>, !.best = 0, !.roi = 0, !.valid = 0]

At(c, i) == c[i + 1]

full(b) == b.valid = b.capacity

\* Until enough valid neighbors are known, all of the buffer is of interest.
done(b) == b.best = IF b.valid < b.target THEN Len(b.cand) ELSE b.roi

\* How far ++best_unvisited_ goes: to roi_end_ or the next unvisited neighbor.
Advance(b, c) ==
  Min({k \in 1 .. CounterLimit :
         LET i == Narrow(b.best + k)
         IN  i = b.roi \/ (i < Len(c) /\ ~At(c, i).visited)})

\* The buffer after next(); the neighbor returned is At(b.cand, b.best).
next(b) ==
  LET c == [b.cand EXCEPT ![b.best + 1].visited = TRUE]
  IN  [b EXCEPT !.cand = c, !.best = Narrow(b.best + Advance(b, c))]

push_back(b, n) ==
  IF full(b) /\ n.valid THEN b
  ELSE [b EXCEPT !.cand = Append(@, n),
                 !.valid = IF n.valid THEN Narrow(@ + 1) ELSE @,
                 !.roi = Narrow(Len(b.cand) + 1)]

can_skip(b, d) == full(b) /\ Last(b.cand).dist < d

\* std::lower_bound with the flipped comparison: past all neighbors as near.
Position(b, d) == Cardinality({i \in DOMAIN b.cand : b.cand[i].dist <= d})

Repeated(b, n, pos) ==
  \E i \in 1 .. pos :
    b.cand[i].id = n.id /\ \A j \in i .. pos : ~(b.cand[j].dist < n.dist)

\* The valid neighbors at vector positions 1 to i.
Count(c, i) == Cardinality({j \in 1 .. i : c[j].valid})

\* walk_back: the last valid neighbor at position i or before.
WalkBack(c, i) == Max({j \in 0 .. i : At(c, j).valid})

\* Mutant: an invalid neighbor that goes below the region does not move its end.
RegionStays(b, c, n, pos) ==
  CASE b.valid < b.target -> Narrow(Len(c))
    [] b.valid = b.target /\ n.valid -> WalkBack(c, b.roi) + 1
    [] b.valid > b.target /\ n.valid /\ pos < b.roi -> WalkBack(c, b.roi - 1) + 1
    [] OTHER -> b.roi

\* The end of the region of interest after n went to position pos of b, whose
\* `valid` counts n already; c is the new vector.
Region(b, c, n, pos) ==
  CASE b.valid < b.target -> Narrow(Len(c))
    [] b.valid = b.target /\ n.valid -> WalkBack(c, b.roi) + 1
    [] b.valid >= b.target /\ ~n.valid /\ pos < b.roi -> Narrow(b.roi + 1)
    [] b.valid > b.target /\ n.valid /\ pos < b.roi -> WalkBack(c, b.roi - 1) + 1
    [] OTHER -> b.roi

\* Drops what lies past the last neighbor the buffer may hold.
Trim(b) ==
  LET slack == b.valid - b.capacity
      size  == Len(b.cand)
  IN  CASE b.target = b.capacity ->
             [b EXCEPT !.cand = SubSeq(@, 1, b.roi),
                       !.valid = IF slack > 0 THEN @ - 1 ELSE @]
        [] b.target # b.capacity /\ slack = 0 ->
             [b EXCEPT !.cand = SubSeq(@, 1, WalkBack(b.cand, size - 1) + 1)]
        [] b.target # b.capacity /\ slack > 0 ->
             [b EXCEPT !.cand = SubSeq(@, 1, WalkBack(b.cand, size - 2) + 1),
                       !.valid = @ - 1]
        [] OTHER -> b

unsafe_insert(b, n, pos) ==
  LET c == InsertAt(b.cand, pos + 1, n)
  IN  Trim([b EXCEPT !.cand = c, !.roi = Region(b, c, n, pos)])

insert_inner(b, n) ==
  LET pos     == Position(b, n.dist)
      counted == [b EXCEPT !.valid = IF n.valid THEN Narrow(@ + 1) ELSE @]
  IN  IF Repeated(b, n, pos) THEN b
      ELSE [unsafe_insert(counted, n, pos) EXCEPT !.best = Min({@, Narrow(pos)})]

\* The buffer after insert(n).
insert(b, n) == IF can_skip(b, n.dist) THEN b ELSE insert_inner(b, n)

\* The neighbors of c, the nearest first.
Sorted(c) ==
  LET rank(i) == Cardinality({j \in DOMAIN c : c[j].dist < c[i].dist
                                                 \/ (c[j].dist = c[i].dist /\ j < i)})
  IN  [r \in DOMAIN c |-> c[CHOOSE i \in DOMAIN c : rank(i) = r - 1]]

\* The buffer after sort(), which also repairs what push_back left open.
sort(b) ==
  LET c     == Sorted(b.cand)
      roi   == IF b.valid < b.target THEN Narrow(Len(c))
               ELSE Min({i \in DOMAIN c : Count(c, i) = b.target})
      trims == b.valid >= b.target /\ full(b)
  IN  [b EXCEPT !.roi = roi,
                !.cand = IF trims THEN SubSeq(c, 1, WalkBack(c, Len(c) - 1) + 1) ELSE c]

\* The i-th valid neighbor of c.
NthValid(c, i) == c[CHOOSE j \in DOMAIN c : c[j].valid /\ Count(c, j) = i]

\* cleanup() leaves the valid neighbors; the counters are not touched.
cleanup(b) == [b EXCEPT !.cand = [i \in 1 .. Count(@, Len(@)) |-> NthValid(@, i)]]
=============================================================================
