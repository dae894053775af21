------------------------------ MODULE Dataset ------------------------------
(***************************************************************************)
(* The stored vectors: SimpleData, dense and Blocked                       *)
(* (include/svs/core/data/simple.h), their compaction                      *)
(* (include/svs/core/compact.h), and the datasets of two levels that       *)
(* resize and compact one after the other (LVQDataset in                   *)
(* include/svs/quantization/lvq/lvq.h).  A level is the function from its  *)
(* slots to what they hold; nothing is known of a slot that was never set. *)
(***************************************************************************)
EXTENDS Partition, FiniteSets

CONSTANTS Vectors,    \* the data
          Unset,      \* what a slot of fresh memory holds
          Levels,     \* number of levels
          BlockSize,  \* vectors of a block
          MaxData,    \* most vectors
          BufferSize  \* batchsize of compact

ASSUME DatasetAssumption ==
  Levels \in Nat \ {0} /\ BlockSize \in Nat \ {0} /\ MaxData \in Nat /\ BufferSize \in Nat

VARIABLES blocked,  \* whether the memory is in blocks
          slots,    \* per level: slot -> content; its domain is the capacity
          size,     \* per level
          moving,   \* compact: [level, start, new_to_old], or <<>>
          datum     \* history: index -> what was stored there

data_vars == <<blocked, slots, size, moving, datum>>

level == 1 .. Levels

Idle == moving = <<>>

capacity(f) == Cardinality(DOMAIN f)

\* The memory f of capacity n, with the first `kept` slots as they are.
Realloc(f, n, kept) == [i \in 0 .. n - 1 |-> IF i < kept THEN f[i] ELSE Unset]

Multiple(n) == BlockSize * div_round_up(n, BlockSize)

-----------------------------------------------------------------------------
\* SimpleData::resize_impl: dense memory grows by copying what was in use.
ResizeDense(f, old, new, force) ==
  IF (force /\ capacity(f) # old) \/ new > capacity(f) THEN Realloc(f, new, old) ELSE f

\* Blocked resize: blocks are added until there is room; they are dropped until the new
\* size is within the last one, or at its beginning.
ResizeBlocked(f, old, new) ==
  IF new > old THEN IF new > capacity(f) THEN Realloc(f, Multiple(new), capacity(f)) ELSE f
  ELSE IF new < old
       THEN Realloc(f, MinOf(capacity(f), BlockSize * (new \div BlockSize + 1)), capacity(f))
       ELSE f

\* resize of every level, one after the other.
Resize(new) ==
  /\ Idle
  /\ slots' = [l \in level |-> IF blocked THEN ResizeBlocked(slots[l], size[l], new)
                               ELSE ResizeDense(slots[l], size[l], new, FALSE)]
  /\ size' = [l \in level |-> new]
  /\ datum' = [i \in 0 .. new - 1 |-> IF i \in DOMAIN datum THEN datum[i] ELSE Unset]
  /\ UNCHANGED <<blocked, moving>>

\* shrink_to_fit does nothing to blocks.
ShrinkToFit ==
  /\ Idle
  /\ slots' = IF blocked THEN slots
              ELSE [l \in level |-> ResizeDense(slots[l], size[l], size[l], TRUE)]
  /\ UNCHANGED <<blocked, size, moving, datum>>

\* set_datum: each level holds its part of the vector, here the vector itself.
SetDatum(i, v) ==
  /\ Idle /\ i \in DOMAIN datum
  /\ slots' = [l \in level |-> [slots[l] EXCEPT ![i] = v]]
  /\ datum' = [datum EXCEPT ![i] = v]
  /\ UNCHANGED <<blocked, size, moving>>

-----------------------------------------------------------------------------
\* n of the indices, in their order
Kept(n) == {f \in [0 .. n - 1 -> DOMAIN datum] : \A i, j \in DOMAIN f : i < j => f[i] < f[j]}

\* compact(new_to_old): the kept indices move to the front.
Compact(new_to_old) ==
  /\ Idle
  /\ moving' = [level |-> 1, start |-> 0, new_to_old |-> new_to_old]
  /\ datum' = [i \in DOMAIN datum |-> IF i \in DOMAIN new_to_old THEN datum[new_to_old[i]] ELSE datum[i]]
  /\ UNCHANGED <<blocked, slots, size>>

\* Mutant: the batches are taken from the end.
BatchFromEnd ==
  /\ ~Idle
  /\ LET len  == Cardinality(DOMAIN moving.new_to_old)
         stop == len - moving.start
         batch == MaxOf(0, stop - MinOf(BufferSize, size[moving.level])) .. stop - 1
     IN  /\ slots' = [slots EXCEPT ![moving.level] =
                        [i \in DOMAIN @ |-> IF i \in batch THEN @[moving.new_to_old[i]] ELSE @[i]]]
         /\ moving' = IF stop > Cardinality(batch)
                      THEN [moving EXCEPT !.start = @ + Cardinality(batch)]
                      ELSE IF moving.level < Levels
                      THEN [moving EXCEPT !.level = @ + 1, !.start = 0]
                      ELSE <<>>
  /\ UNCHANGED <<blocked, size, datum>>

\* compact_data, one batch: from the data to the buffer, and when all threads are done
\* from the buffer to its place.
MoveBatch ==
  /\ ~Idle
  /\ LET len  == Cardinality(DOMAIN moving.new_to_old)
         stop == MinOf(moving.start + MinOf(BufferSize, size[moving.level]), len)
         batch == moving.start .. stop - 1
     IN  /\ slots' = [slots EXCEPT ![moving.level] =
                        [i \in DOMAIN @ |-> IF i \in batch THEN @[moving.new_to_old[i]] ELSE @[i]]]
         /\ moving' = IF stop < len THEN [moving EXCEPT !.start = stop]
                      ELSE IF moving.level < Levels
                      THEN [moving EXCEPT !.level = @ + 1, !.start = 0]
                      ELSE <<>>
  /\ UNCHANGED <<blocked, size, datum>>

-----------------------------------------------------------------------------
\* A dataset of n vectors.  Dense memory has no spare room, blocks are whole.
DataInit ==
  /\ blocked \in BOOLEAN
  /\ \E n \in 0 .. MaxData :
       /\ size = [l \in level |-> n]
       /\ slots = [l \in level |-> [i \in 0 .. (IF blocked THEN Multiple(n) ELSE n) - 1 |-> Unset]]
       /\ datum = [i \in 0 .. n - 1 |-> Unset]
  /\ moving = <<>>

DataNext ==
  \/ \E n \in 0 .. MaxData : Resize(n)
  \/ ShrinkToFit
  \/ \E i \in 0 .. MaxData - 1, v \in Vectors : SetDatum(i, v)
  \/ \E n \in 1 .. MaxData : \E new_to_old \in Kept(n) : Compact(new_to_old)
  \/ MoveBatch

DataSpec == DataInit /\ [][DataNext]_data_vars
-----------------------------------------------------------------------------
\* Growing, shrinking, trading memory and compacting in batches never lose or mix up a
\* vector: at each level every index in use has a slot that holds what was stored for
\* it last, or moved to it.
DataSurvive ==
  Idle => \A l \in level :
            /\ DOMAIN datum = 0 .. size[l] - 1 /\ DOMAIN datum \subseteq DOMAIN slots[l]
            /\ \A i \in DOMAIN datum : datum[i] # Unset => slots[l][i] = datum[i]
=============================================================================
