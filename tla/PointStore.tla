----------------------------- MODULE PointStore -----------------------------
(***************************************************************************)
(* What a mutable index is to its user: a dictionary from the ids the user *)
(* chose to the points the user gave.  This module has the three things a  *)
(* call can do to it; which of them each call does, DynamicIndex states    *)
(* (CallsDoTheirPart).  How points are placed in memory, linked into a     *)
(* graph, consolidated and compacted is invisible.                         *)
(***************************************************************************)
CONSTANTS Ids, Points

VARIABLE store  \* a partial function from Ids to Points

Stores == UNION {[ids -> Points] : ids \in SUBSET Ids}

Init == store \in Stores

\* The points of `new` are stored under their ids, which were not in use.
Add(new) ==
  /\ DOMAIN new \cap DOMAIN store = {}
  /\ store' = [id \in DOMAIN store \cup DOMAIN new |->
                 IF id \in DOMAIN new THEN new[id] ELSE store[id]]

\* Exactly the given ids go, which were all in use.
Delete(ids) ==
  /\ ids \subseteq DOMAIN store
  /\ store' = [id \in DOMAIN store \ ids |-> store[id]]

Keep == UNCHANGED store

Next == (\E new \in Stores : Add(new)) \/ (\E ids \in SUBSET Ids : Delete(ids)) \/ Keep

Spec == Init /\ [][Next]_store
=============================================================================
