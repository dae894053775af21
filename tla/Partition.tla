------------------------------ MODULE Partition ------------------------------
(***************************************************************************)
(* How threads::run divides an index space: the partitions of              *)
(* include/svs/lib/threads/types.h and thunks.h.  A range is the set of    *)
(* indices of a half-open UnitRange [start, stop).                         *)
(***************************************************************************)
EXTENDS Integers

MinOf(a, b) == IF a <= b THEN a ELSE b

MaxOf(a, b) == IF a <= b THEN b ELSE a

div_round_up(x, y) == (x \div y) + (IF x % y # 0 THEN 1 ELSE 0)

\* UnitRange{start, stop} with its constructor's clamp stop_ = max(stop, start).
UnitRange(start, stop) == start .. (stop - 1)

\* balance: the share of thread `tid` in a team of `nthreads` that works on
\* [0, n).  The first `team1` threads take b1 indices, the others one less.
BalanceStart(n, nthreads, tid) ==
  LET b1    == div_round_up(n, nthreads)
      b2    == b1 - 1
      team1 == n - b2 * nthreads
  IN  IF tid < team1 THEN b1 * tid ELSE b1 * team1 + b2 * (tid - team1)

BalanceStop(n, nthreads, tid) ==
  LET b1     == div_round_up(n, nthreads)
      b2     == b1 - 1
      team1  == n - b2 * nthreads
      this_b == IF tid < team1 THEN b1 ELSE b2
  IN  MinOf(BalanceStart(n, nthreads, tid) + this_b, n)

\* Mutant: the shortcut for one thread is taken one thread late.
BalanceLate(n, nthreads, tid) ==
  IF nthreads <= 2 \/ n = 0
  THEN UnitRange(0, n)
  ELSE UnitRange(BalanceStart(n, nthreads, tid), BalanceStop(n, nthreads, tid))

balance(n, nthreads, tid) ==
  IF nthreads <= 1 \/ n = 0
  THEN UnitRange(0, n)
  ELSE UnitRange(BalanceStart(n, nthreads, tid), BalanceStop(n, nthreads, tid))

\* The i-th piece a thread takes from a DynamicPartition.
DynamicPiece(n, grainsize, i) ==
  UnitRange(grainsize * i, MinOf(grainsize * (i + 1), n))

\* The thunk of a DynamicPartition stops at the first piece past the end.
DynamicDone(n, grainsize, i) == grainsize * i >= n
=============================================================================
