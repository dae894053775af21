-------------------------------- MODULE Prune --------------------------------
(***************************************************************************)
(* heuristic_prune_neighbors with its three strategies                     *)
(* (include/svs/index/vamana/prune.h): which candidates become neighbors   *)
(* of a node.  L2 is pruned progressively, inner product and cosine        *)
(* iteratively, the clusters of the inverted index by the legacy strategy. *)
(*                                                                         *)
(* A call is [strategy, greater, alpha, max, distance, between, self]: the *)
(* candidates are positions, sorted from near to far; distance is theirs   *)
(* to the node, between[<<i, j>>], i < j, that of two of them, greater     *)
(* that greater is nearer; self is the position of the node, or 0.  alpha  *)
(* comes in units of 1 / Scale, and not on the wrong side of 1.            *)
(***************************************************************************)
EXTENDS Integers, Sequences

Scale == 10

Nearer(call, x, y) == IF call.greater THEN x > y ELSE x < y

\* Candidate a shadows candidate t at the factor alpha.
Shadows(call, alpha, a, t) ==
  Nearer(call, alpha * call.between[<<a, t>>], Scale * call.distance[t])

Added(s) == {s.result[i] : i \in DOMAIN s.result}

\* Nothing is added yet; pruned[t] is who was found to shadow t.
Fresh(call) == [result |-> <<>>, pruned |-> [t \in DOMAIN call.distance |-> {}]]

\* Mutant: who is shadowed in the first round stays pruned in the second.
ExcludedAtOne(call, s, alpha, t) ==
  t \in Added(s) \/ \E a \in s.pruned[t] : Shadows(call, Scale, a, t)

\* Progressive: the least distance to an added candidate decides, if it was looked at.
Excluded(call, s, alpha, t) ==
  t \in Added(s) \/ \E a \in s.pruned[t] : Shadows(call, alpha, a, t)

\* A candidate is added, and looked at from those behind it that are not excluded.
Add(call, s, alpha, p) ==
  LET after == [s EXCEPT !.result = Append(@, p)]
  IN  [after EXCEPT !.pruned =
         [t \in DOMAIN @ |-> IF t > p /\ ~Excluded(call, after, alpha, t) THEN @[t] \cup {p} ELSE @[t]]]

\* One pass over the candidates.
Round(call, s, alpha) ==
  LET after[p \in 0 .. Len(call.distance)] ==
        IF p = 0 THEN s
        ELSE LET b == after[p - 1]
             IN  IF Len(b.result) = call.max \/ Excluded(call, b, alpha, p) \/ p = call.self THEN b
                 ELSE Add(call, b, alpha, p)
  IN  after[Len(call.distance)]

\* Between two rounds the iterative strategy forgets who was pruned, and by whom.
reenable(call, s) ==
  IF call.strategy = "Iterative" THEN [s EXCEPT !.pruned = [t \in DOMAIN @ |-> {}]] ELSE s

\* The positions that are kept, in the order in which they are added.
heuristic_prune_neighbors(call) ==
  IF call.strategy = "Legacy" THEN Round(call, Fresh(call), call.alpha).result
  ELSE LET first == Round(call, Fresh(call), Scale)
       IN  IF call.alpha = Scale THEN first.result
           ELSE Round(call, reenable(call, first), call.alpha).result
=============================================================================
