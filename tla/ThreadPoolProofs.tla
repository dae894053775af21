--------------------------- MODULE ThreadPoolProofs ---------------------------
(***************************************************************************)
(* The pool is safe for any number of clients, threads, calls and indices. *)
(* BaseInv is inductive whatever jobs throw and whatever fails. What a     *)
(* call promises on its return needs conditions that the code does not     *)
(* enforce: Recoverable (exceptions are std::exceptions, threads can be    *)
(* started), and StaysAlone or StaysLarge (a resize does not change the    *)
(* meaning of a partition that was made before run entered the pool).      *)
(***************************************************************************)
EXTENDS ThreadPool, PartitionProofs, SequenceTheorems

-----------------------------------------------------------------------------
(* The inductive invariants behind the properties.                          *)

\* The client is between Lock and Leave, or between ResizeLock and Resized.
HoldsLock(c) == pc[c] \in {"assign", "main", "wait", "manage", "resizing"}

InRun(c) == pc[c] \in {"run", "assign", "main", "wait", "manage"}

\* Client c has given thread k a job of its call and has not yet seen it end.
Awaits(c, k) ==
  /\ InRun(c) /\ pc[c] # "run"
  /\ pool[k].call = call[c]
  /\ pc[c] = "assign" => k < i[c]
  /\ pc[c] \in {"wait", "manage"} => k >= i[c]

\* use_mutex_ is held by the one client that is inside.
MutexInv == \A c \in Clients : HoldsLock(c) <=> c \in holder

\* Every client that runs has a call of its own, which is not over.
CallInv ==
  /\ \A c \in Clients : InRun(c) => call[c] \in DOMAIN calls /\ Running(call[c])
  /\ \A c, d \in Clients : InRun(c) /\ InRun(d) /\ c # d => call[c] # call[d]

\* The loops stay within the pool.
LoopInv ==
  \A c \in Clients :
    /\ pc[c] \in {"assign", "wait", "manage"} => i[c] \in 1 .. Len(pool) + 1
    /\ pc[c] = "resizing" => i[c] >= 1

\* A thread works for a client that will wait for it, or for a call that was abandoned.
BusyInv ==
  \A k \in DOMAIN pool :
    /\ pool[k].state # "ready" => pool[k].call \in DOMAIN calls
    /\ Busy(k) => \/ calls[pool[k].call].outcome = "threw"
                  \/ \E c \in Clients : Awaits(c, k)

\* A call in which something failed does not return normally: its client knows of it, or
\* will find the thread that crashed.
FailInv ==
  /\ \A n \in DOMAIN calls : calls[n].failed => calls[n].outcome # "ok"
  /\ \A c \in Clients : InRun(c) /\ calls[call[c]].failed =>
       \/ pc[c] = "manage"
       \/ \E k \in DOMAIN pool : pool[k].state = "crashed" /\ Awaits(c, k)

\* Holds whatever the jobs throw, and whether or not threads can be restarted.
BaseInv == TypeOK /\ MutexInv /\ CallInv /\ LoopInv /\ BusyInv /\ FailInv

\* Jobs throw nothing but std::exception, and threads can be started.
Recoverable == Exceptions \subseteq {"std"} /\ ~BuilderFails

\* In a pool that recovers from every exception no thread is left
\* behind: one that is not ready is awaited, and has crashed only if its call failed.
SettledInv ==
  /\ \A k \in DOMAIN pool : pool[k].state # "ready" =>
       /\ \E c \in Clients : Awaits(c, k)
       /\ pool[k].state = "crashed" => calls[pool[k].call].failed /\ Reportable(k)
  /\ \A c \in Clients : pc[c] = "manage" => calls[call[c]].failed
  /\ \A n \in DOMAIN calls : calls[n].outcome = "threw" => calls[n].failed
  /\ \A k \in DOMAIN pool : pool[k].valid /\ pool[k].exception \in {"none", "std"}

\* Index x of call n has been given to a thread: to one whose share of the static partition
\* it is in, or as one of the pieces taken so far.
Due(n, x) ==
  IF calls[n].kind = "static"
  THEN \E tid \in calls[n].served : x \in balance(MaxIndex, calls[n].nthreads, tid)
  ELSE x < calls[n].count

\* An index that is due has run once, unless its thread failed; the others have not run.
CoverInv ==
  \A n \in DOMAIN calls, x \in Indices :
    /\ calls[n].covered[x] <= IF Due(n, x) THEN 1 ELSE 0
    /\ Due(n, x) /\ ~calls[n].failed => calls[n].covered[x] = 1

\* A thread that client c need not wait for any more has nothing left to run.
DoneInv ==
  \A c \in Clients :
    /\ pc[c] = "wait" => NothingLeft(call[c], 0)
    /\ \A k \in DOMAIN pool :
         pool[k].state = "ready" /\ (pc[c] \in {"main", "wait"} \/ (pc[c] = "assign" /\ k < i[c]))
         => NothingLeft(call[c], k)

\* Every index of a call that returned has been given to a thread.
AllDueInv ==
  \A n \in DOMAIN calls : calls[n].outcome = "ok" => \A x \in Indices : Due(n, x)

\* Only the client itself runs a call made when it was alone; others have a team.
TeamInv ==
  /\ \A k \in DOMAIN pool : pool[k].state # "ready" => calls[pool[k].call].nthreads > 1
  /\ \A n \in DOMAIN calls : calls[n].nthreads = 1 => calls[n].served \subseteq {0}

\* Conditions under which resizing does not reach the calls of other clients.
OneClient == \E c \in Clients : Clients = {c}

NeverResized == Resizers = {}

\* The pool always has a second thread.
NeverAlone == InitialSize > 1 /\ \A s \in Sizes : s > 1

\* There is one size to ask for, and it is not smaller than the initial one.
OnlyGrows == InitialSize > 1 /\ \E s \in Sizes : s >= InitialSize /\ Sizes = {s}

\* A call made when the pool had a single thread does not find more of them.
StaysAlone == OneClient \/ NeverResized \/ NeverAlone

\* A call finds the threads its index space was divided among.
StaysLarge == OneClient \/ NeverResized \/ OnlyGrows

\* A call that was made for a single thread finds one thread.
LoneInv ==
  /\ NeverResized => \A c \in Clients : pc[c] \notin {"resize", "resizing"}
  /\ NeverAlone =>
       /\ size > 1 /\ \A n \in DOMAIN calls : calls[n].nthreads > 1
       /\ \A c \in Clients : pc[c] = "resizing" => i[c] > 1
  /\ \A c \in Clients : InRun(c) /\ calls[call[c]].nthreads = 1 => size = 1

\* There are as many threads as a call of run was partitioned for.
FitInv ==
  /\ NeverResized => \A c \in Clients : pc[c] \notin {"resize", "resizing"}
  /\ OnlyGrows => \A s \in Sizes :
       size <= s /\ \A c \in Clients : pc[c] = "resizing" => i[c] = s
  /\ \A c \in Clients : InRun(c) => calls[call[c]].nthreads <= size

-----------------------------------------------------------------------------
(* Changes of the pool's data.                                             *)

\* What TypeOK says of the sequences of threads and of calls.
LEMMA Typed ==
  ASSUME TypeOK
  PROVE  /\ pool \in Seq(Threads) /\ Len(pool) \in Nat /\ DOMAIN pool = 1 .. Len(pool)
         /\ \A k \in 1 .. Len(pool) : pool[k] \in Threads
         /\ calls \in Seq(Calls) /\ Len(calls) \in Nat /\ DOMAIN calls = 1 .. Len(calls)
         /\ \A n \in 1 .. Len(calls) : calls[n] \in Calls
BY DEF TypeOK

\* The domains of both sequences, without what is in them.
LEMMA Domains ==
  ASSUME TypeOK
  PROVE  /\ Len(pool) \in Nat /\ DOMAIN pool = 1 .. Len(pool)
         /\ Len(calls) \in Nat /\ DOMAIN calls = 1 .. Len(calls)
BY DEF TypeOK

\* The sequences keep their types.
PoolTyped == pool' \in Seq(Threads)

CallsTyped == calls' \in Seq(Calls)

\* Nothing but thread k changes in the pool.
ThreadBecomes(k, state, n, exception, valid) ==
  /\ PoolTyped /\ Len(pool') = Len(pool) /\ DOMAIN pool' = 1 .. Len(pool)
  /\ \A m \in 1 .. Len(pool) : m # k => pool'[m] = pool[m]
  /\ pool'[k].state = state /\ pool'[k].call = n
  /\ pool'[k].exception = exception /\ pool'[k].valid = valid

\* Nothing but call n changes, and not the way it was partitioned.
CallBecomes(n, count, served, failed, outcome) ==
  /\ CallsTyped /\ Len(calls') = Len(calls) /\ DOMAIN calls' = 1 .. Len(calls)
  /\ \A m \in 1 .. Len(calls) : m # n => calls'[m] = calls[m]
  /\ calls'[n].kind = calls[n].kind /\ calls'[n].nthreads = calls[n].nthreads
  /\ calls'[n].count = count /\ calls'[n].served = served
  /\ calls'[n].failed = failed /\ calls'[n].outcome = outcome

\* Call n is over.
CallEnds(n, outcome) ==
  /\ CallBecomes(n, calls[n].count, calls[n].served, calls[n].failed, outcome)
  /\ calls'[n].covered = calls[n].covered

\* Thread tid has run its share of call n.
CallGains(n, tid) ==
  /\ CallBecomes(n, calls[n].count + 1, calls[n].served \cup {tid}, calls[n].failed,
                 calls[n].outcome)
  /\ \A x \in Indices :
       calls'[n].covered[x] = calls[n].covered[x] + (IF x \in Share(n, tid) THEN 1 ELSE 0)

\* Thread tid has thrown in its share of call n.
CallFails(n, tid, outcome) ==
  /\ CallBecomes(n, calls[n].count + 1, calls[n].served \cup {tid}, TRUE, outcome)
  /\ calls'[n].covered = calls[n].covered

\* Client c, and no other, goes to the place `where` with loop variable `at`.
ClientGoes(c, where, at) ==
  /\ pc' \in [Clients -> Places] /\ i' \in [Clients -> Nat]
  /\ pc'[c] = where /\ i'[c] = at
  /\ \A d \in Clients : d # c => pc'[d] = pc[d] /\ i'[d] = i[d]

\* Assigning to one element of threads_ changes no other one.
LEMMA ReplaceThread ==
  ASSUME TypeOK, NEW k \in 1 .. Len(pool), NEW t \in Threads,
         pool' = [pool EXCEPT ![k] = t]
  PROVE  ThreadBecomes(k, t.state, t.call, t.exception, t.valid)
BY Typed, ExceptSeq DEF ThreadBecomes, PoolTyped

\* Changing one call changes no other one.
LEMMA ReplaceCall ==
  ASSUME TypeOK, NEW n \in 1 .. Len(calls), NEW r \in Calls,
         calls' = [calls EXCEPT ![n] = r],
         r.kind = calls[n].kind, r.nthreads = calls[n].nthreads
  PROVE  /\ CallBecomes(n, r.count, r.served, r.failed, r.outcome)
         /\ calls'[n] = r
BY Typed, ExceptSeq DEF CallBecomes, CallsTyped

\* A thread that takes a job keeps the state of its future.
LEMMA ThreadEmployed ==
  ASSUME TypeOK, NEW k \in 1 .. Len(pool), NEW n \in 0 .. MaxCalls,
         pool' = [pool EXCEPT ![k].state = "working", ![k].call = n]
  PROVE  ThreadBecomes(k, "working", n, pool[k].exception, pool[k].valid)
<1> DEFINE old == pool[k]
           t == [old EXCEPT !.state = "working", !.call = n]
<1>1. old \in Threads
  BY Typed
<1>2. pool' = [pool EXCEPT ![k] = t]
  BY Typed
<1> HIDE DEF old
<1>3. t \in Threads /\ t.state = "working" /\ t.call = n /\ t.exception = old.exception
      /\ t.valid = old.valid
  BY <1>1 DEF Threads
<1> HIDE DEF t
<1> QED
  BY <1>2, <1>3, ReplaceThread DEF old

\* A thread whose future has been read has no exception to report.
LEMMA ThreadRead ==
  ASSUME TypeOK, NEW k \in 1 .. Len(pool), pool' = [pool EXCEPT ![k].valid = FALSE]
  PROVE  ThreadBecomes(k, pool[k].state, pool[k].call, pool[k].exception, FALSE)
<1> DEFINE old == pool[k]
           t == [old EXCEPT !.valid = FALSE]
<1>1. old \in Threads
  BY Typed
<1>2. pool' = [pool EXCEPT ![k] = t]
  BY Typed
<1> HIDE DEF old
<1>3. t \in Threads /\ t.state = old.state /\ t.call = old.call /\ t.exception = old.exception
      /\ t.valid = FALSE
  BY <1>1 DEF Threads
<1> HIDE DEF t
<1> QED
  BY <1>2, <1>3, ReplaceThread DEF old

\* A thread that crashes keeps the call it was working for.
LEMMA ThreadCrashes ==
  ASSUME TypeOK, NEW k \in 1 .. Len(pool), NEW e \in Exceptions,
         pool' = [pool EXCEPT ![k].state = "crashed", ![k].exception = e]
  PROVE  ThreadBecomes(k, "crashed", pool[k].call, e, pool[k].valid)
<1> DEFINE old == pool[k]
           t == [old EXCEPT !.state = "crashed", !.exception = e]
<1>1. old \in Threads
  BY Typed
<1>2. pool' = [pool EXCEPT ![k] = t]
  BY Typed
<1> HIDE DEF old
<1>3. t \in Threads /\ t.state = "crashed" /\ t.call = old.call /\ t.exception = e
      /\ t.valid = old.valid
  BY <1>1 DEF Threads
<1> HIDE DEF t
<1> QED
  BY <1>2, <1>3, ReplaceThread DEF old

\* A thread that is started or restarted is as one that was never used.
LEMMA ThreadReady ==
  ASSUME TypeOK, NEW k \in 1 .. Len(pool), pool' = [pool EXCEPT ![k] = Ready]
  PROVE  ThreadBecomes(k, "ready", 0, "none", TRUE)
<1>1. Ready \in Threads /\ Ready.state = "ready" /\ Ready.call = 0
      /\ Ready.exception = "none" /\ Ready.valid = TRUE
  BY ThreadPoolAssumption DEF Ready, Threads
<1> QED
  BY <1>1, ReplaceThread

\* Returning or throwing changes nothing of a call but its outcome.
LEMMA CallIsOver ==
  ASSUME TypeOK, NEW n \in 1 .. Len(calls), NEW how \in {"ok", "threw"},
         calls' = [calls EXCEPT ![n].outcome = how]
  PROVE  CallEnds(n, how)
<1> DEFINE old == calls[n]
           r == [old EXCEPT !.outcome = how]
<1>1. old \in Calls
  BY Typed
<1>2. calls' = [calls EXCEPT ![n] = r]
  BY Typed
<1> HIDE DEF old
<1>3. /\ r \in Calls /\ r.kind = old.kind /\ r.nthreads = old.nthreads /\ r.count = old.count
      /\ r.served = old.served /\ r.failed = old.failed /\ r.outcome = how
      /\ r.covered = old.covered
  BY <1>1 DEF Calls
<1> HIDE DEF r
<1> QED
  BY <1>2, <1>3, ReplaceCall DEF old, CallEnds

\* A call that thread tid has run its share of.
LEMMA CallIsServed ==
  ASSUME TypeOK, NEW n \in 1 .. Len(calls), NEW tid \in Nat,
         calls' = [calls EXCEPT ![n] = Served(n, tid)]
  PROVE  CallGains(n, tid)
<1> DEFINE old == calls[n]
           new == [x \in Indices |-> old.covered[x] + (IF x \in Share(n, tid) THEN 1 ELSE 0)]
           more == old.served \cup {tid}
           next == old.count + 1
           r == [old EXCEPT !.covered = new, !.count = next, !.served = more]
<1>1. old \in Calls
  BY Typed
<1>2. calls' = [calls EXCEPT ![n] = r]
  BY Typed DEF Served
<1>3. new \in [Indices -> Nat] /\ more \in SUBSET Nat /\ next \in Nat
  <2>1. old.covered \in [Indices -> Nat] /\ old.served \in SUBSET Nat /\ old.count \in Nat
    BY <1>1 DEF Calls
  <2> HIDE DEF old
  <2> QED
    BY <2>1
<1>4. \A x \in Indices : new[x] = old.covered[x] + (IF x \in Share(n, tid) THEN 1 ELSE 0)
  OBVIOUS
<1> HIDE DEF old, new, more, next
<1>5. /\ r \in Calls /\ r.kind = old.kind /\ r.nthreads = old.nthreads
      /\ r.count = next /\ r.served = more
      /\ r.failed = old.failed /\ r.outcome = old.outcome /\ r.covered = new
  BY <1>1, <1>3 DEF Calls
<1> HIDE DEF r
<1>6. r.kind = calls[n].kind /\ r.nthreads = calls[n].nthreads
  BY <1>5 DEF old
<1>7. CallBecomes(n, next, more, old.failed, old.outcome) /\ calls'[n] = r
  BY <1>2, <1>5, <1>6, ReplaceCall
<1>8. \A x \in Indices :
        calls'[n].covered[x] = calls[n].covered[x] + (IF x \in Share(n, tid) THEN 1 ELSE 0)
  BY <1>4, <1>5, <1>7 DEF old
<1> QED
  BY <1>7, <1>8 DEF old, more, next, CallGains

\* A call that made the pool's thread tid throw goes on.
LEMMA CallHasFailed ==
  ASSUME TypeOK, NEW n \in 1 .. Len(calls), NEW tid \in Nat,
         calls' = [calls EXCEPT ![n] = Failed(n, tid)]
  PROVE  CallFails(n, tid, calls[n].outcome)
<1> DEFINE old == calls[n]
           more == old.served \cup {tid}
           next == old.count + 1
           r == [old EXCEPT !.count = next, !.served = more, !.failed = TRUE]
<1>1. old \in Calls
  BY Typed
<1>2. calls' = [calls EXCEPT ![n] = r]
  BY Typed DEF Failed
<1>3. more \in SUBSET Nat /\ next \in Nat
  <2>1. old.served \in SUBSET Nat /\ old.count \in Nat
    BY <1>1 DEF Calls
  <2> HIDE DEF old
  <2> QED
    BY <2>1
<1> HIDE DEF old, more, next
<1>4. /\ r \in Calls /\ r.kind = old.kind /\ r.nthreads = old.nthreads
      /\ r.count = next /\ r.served = more
      /\ r.failed = TRUE /\ r.outcome = old.outcome /\ r.covered = old.covered
  BY <1>1, <1>3 DEF Calls
<1> HIDE DEF r
<1> QED
  BY <1>2, <1>4, ReplaceCall DEF old, more, next, CallFails

\* A call that made the client itself throw something else is over.
LEMMA CallIsAborted ==
  ASSUME TypeOK, NEW n \in 1 .. Len(calls), NEW tid \in Nat,
         calls' = [calls EXCEPT ![n] = [Failed(n, tid) EXCEPT !.outcome = "threw"]]
  PROVE  CallFails(n, tid, "threw")
<1> DEFINE old == calls[n]
           more == old.served \cup {tid}
           next == old.count + 1
           r == [[old EXCEPT !.count = next, !.served = more, !.failed = TRUE]
                   EXCEPT !.outcome = "threw"]
<1>1. old \in Calls
  BY Typed
<1>2. calls' = [calls EXCEPT ![n] = r]
  BY Typed DEF Failed
<1>3. more \in SUBSET Nat /\ next \in Nat
  <2>1. old.served \in SUBSET Nat /\ old.count \in Nat
    BY <1>1 DEF Calls
  <2> HIDE DEF old
  <2> QED
    BY <2>1
<1> HIDE DEF old, more, next
<1>4. /\ r \in Calls /\ r.kind = old.kind /\ r.nthreads = old.nthreads
      /\ r.count = next /\ r.served = more
      /\ r.failed = TRUE /\ r.outcome = "threw" /\ r.covered = old.covered
  BY <1>1, <1>3 DEF Calls
<1> HIDE DEF r
<1> QED
  BY <1>2, <1>4, ReplaceCall DEF old, more, next, CallFails

\* A new call changes none of the earlier ones.
LEMMA CallIsNew ==
  ASSUME TypeOK, NEW c \in Clients, CallRun(c)
  PROVE  LET n == Len(calls) + 1 IN
         /\ CallsTyped /\ Len(calls') = n /\ DOMAIN calls' = 1 .. n
         /\ \A m \in 1 .. Len(calls) : calls'[m] = calls[m]
         /\ calls'[n].nthreads = size /\ calls'[n].count = 0 /\ calls'[n].served = {}
         /\ calls'[n].failed = FALSE /\ calls'[n].outcome = "running"
         /\ calls'[n].kind \in {"static", "dynamic"}
         /\ \A x \in Indices : calls'[n].covered[x] = 0
<1>1. PICK kind \in {"static", "dynamic"} :
        calls' = Append(calls,
          [kind |-> kind, nthreads |-> size, count |-> 0, served |-> {},
           covered |-> [x \in Indices |-> 0], failed |-> FALSE, outcome |-> "running"])
  BY DEF CallRun
<1> DEFINE zero == [x \in Indices |-> 0]
           r == [kind |-> kind, nthreads |-> size, count |-> 0, served |-> {},
                 covered |-> zero, failed |-> FALSE, outcome |-> "running"]
<1>2. size \in Nat \ {0}
  BY Typed DEF size
<1>3. zero \in [Indices -> Nat] /\ \A x \in Indices : zero[x] = 0
  OBVIOUS
<1>4. r \in Calls
  BY <1>2, <1>3 DEF Calls
<1>5. /\ r.nthreads = size /\ r.count = 0 /\ r.served = {} /\ r.failed = FALSE
      /\ r.outcome = "running" /\ r.kind \in {"static", "dynamic"} /\ r.covered = zero
  OBVIOUS
<1>6. calls' = Append(calls, r)
  BY <1>1
<1> HIDE DEF r, zero
<1> QED
  BY <1>3, <1>4, <1>5, <1>6, Typed, AppendProperties DEF CallsTyped

\* resize that adds a thread changes none of the others.
LEMMA PoolGrows ==
  ASSUME TypeOK, pool' = Append(pool, Ready)
  PROVE  /\ PoolTyped /\ Len(pool') = Len(pool) + 1
         /\ DOMAIN pool' = 1 .. Len(pool) + 1
         /\ \A m \in 1 .. Len(pool) : pool'[m] = pool[m]
         /\ pool'[Len(pool) + 1].state = "ready" /\ pool'[Len(pool) + 1].call = 0
         /\ pool'[Len(pool) + 1].valid = TRUE /\ pool'[Len(pool) + 1].exception = "none"
<1>1. Ready \in Threads /\ Ready.state = "ready" /\ Ready.call = 0
      /\ Ready.exception = "none" /\ Ready.valid = TRUE
  BY ThreadPoolAssumption DEF Ready, Threads
<1> HIDE DEF Ready
<1> QED
  BY <1>1, Typed, AppendProperties DEF PoolTyped

\* resize that drops threads keeps those before them.
LEMMA PoolShrinks ==
  ASSUME TypeOK, NEW c \in Clients, Shrink(c), i[c] >= 1
  PROVE  /\ PoolTyped /\ Len(pool') = i[c] - 1 /\ i[c] - 1 < Len(pool)
         /\ DOMAIN pool' = 1 .. i[c] - 1
         /\ \A m \in 1 .. i[c] - 1 : pool'[m] = pool[m]
<1>1. pool' = SubSeq(pool, 1, i[c] - 1) /\ i[c] - 1 \in Nat /\ i[c] - 1 < Len(pool)
  BY Typed DEF Shrink, size, TypeOK
<1>2. \A k \in 1 .. i[c] - 1 : pool[k] \in Threads
  BY <1>1, Typed
<1>3. \A k \in 1 .. (i[c] - 1) - 1 + 1 : SubSeq(pool, 1, i[c] - 1)[k] = pool[1 + k - 1]
  BY <1>1, <1>2, SubSeqProperties
<1>4. pool' \in Seq(Threads) /\ Len(pool') = i[c] - 1
  BY <1>1, <1>2, SubSeqProperties
<1>5. \A k \in 1 .. i[c] - 1 : pool'[k] = pool[k]
  BY <1>1, <1>3
<1> QED
  BY <1>1, <1>4, <1>5 DEF PoolTyped

\* Who awaits a thread holds use_mutex_, and is inside run.
LEMMA AwaitsHolds ==
  ASSUME TypeOK, NEW c \in Clients, NEW k, Awaits(c, k)
  PROVE  HoldsLock(c) /\ InRun(c) /\ pc[c] # "run" /\ pc[c] # "resizing"
BY DEF Awaits, InRun, HoldsLock

\* Two clients that hold use_mutex_ are one.
LEMMA OneInside ==
  ASSUME TypeOK, MutexInv, NEW c \in Clients, NEW d \in Clients, HoldsLock(c), HoldsLock(d)
  PROVE  c = d
BY DEF TypeOK, MutexInv

\* The types of the variables of the clients.
LEMMA ClientTypes ==
  ASSUME TypeOK
  PROVE  /\ pc \in [Clients -> Places] /\ call \in [Clients -> 0 .. MaxCalls]
         /\ \A c \in Clients : i[c] \in Nat
BY DEF TypeOK

-----------------------------------------------------------------------------
(* What every step does.                                                   *)

\* What the effect of a step depends on.
StepInv == TypeOK /\ CallInv /\ LoopInv /\ BusyInv

\* CallRun adds a call that is partitioned for the present size of the pool, without
\* the mutex.
LEMMA CallRunEffect ==
  ASSUME StepInv, NEW c \in Clients, CallRun(c)
  PROVE  /\ ClientGoes(c, "run", i[c])
         /\ call' = [call EXCEPT ![c] = Len(calls) + 1]
         /\ pc[c] = "idle"
         /\ Len(calls) < MaxCalls
         /\ UNCHANGED pool
         /\ UNCHANGED holder
         /\ UNCHANGED terminated
         /\ CallsTyped
         /\ Len(calls') = Len(calls) + 1
         /\ DOMAIN calls' = 1 .. Len(calls) + 1
         /\ \A m \in 1 .. Len(calls) : calls'[m] = calls[m]
         /\ LET new == calls'[Len(calls) + 1] IN
              /\ new.nthreads = size /\ new.count = 0 /\ new.served = {}
              /\ new.failed = FALSE /\ new.outcome = "running"
              /\ \A x \in Indices : new.covered[x] = 0
<1>1. /\ pc[c] = "idle"
  BY Typed DEF StepInv, TypeOK, CallInv, InRun, LoopInv, CallRun, At, Busy, size,
     Leave, Threads
<1>2. ClientGoes(c, "run", i[c])
  BY <1>1, ThreadPoolAssumption DEF StepInv, TypeOK, Places, ClientGoes, CallRun,
     Goto, Visit, Leave, At, MaxOf
<1> QED
  BY <1>1, <1>2, CallIsNew DEF StepInv, CallRun, Leave, At, Busy, Goto, Visit

\* CallResize asks for a size, without the mutex.
LEMMA CallResizeEffect ==
  ASSUME StepInv, NEW c \in Clients, CallResize(c)
  PROVE  /\ pc[c] = "idle"
         /\ c \in Resizers
         /\ ClientGoes(c, "resize", i[c])
         /\ UNCHANGED pool
         /\ UNCHANGED <<calls, call>>
         /\ UNCHANGED holder
         /\ UNCHANGED terminated
<1>1. /\ pc[c] = "idle"
  BY Typed DEF StepInv, TypeOK, CallInv, InRun, LoopInv, CallResize, At, Busy, size,
     Leave, Threads
<1>2. ClientGoes(c, "resize", i[c])
  BY <1>1, ThreadPoolAssumption DEF StepInv, TypeOK, Places, ClientGoes, CallResize,
     Goto, Visit, Leave, At, MaxOf
<1> QED
  BY <1>1, <1>2 DEF StepInv, CallResize, Leave, At, Busy, Goto, Visit

\* Lock takes use_mutex_ and starts to assign at the first thread.
LEMMA LockEffect ==
  ASSUME StepInv, NEW c \in Clients, Lock(c)
  PROVE  /\ pc[c] = "run"
         /\ holder = {}
         /\ holder' = {c}
         /\ ClientGoes(c, "assign", 1)
         /\ UNCHANGED pool
         /\ UNCHANGED <<calls, call>>
         /\ UNCHANGED terminated
<1>1. /\ pc[c] = "run"
      /\ holder = {}
  BY Typed DEF StepInv, TypeOK, CallInv, InRun, LoopInv, Lock, At, Busy, size, Leave,
     Threads
<1>2. ClientGoes(c, "assign", 1)
  BY <1>1, ThreadPoolAssumption DEF StepInv, TypeOK, Places, ClientGoes, Lock, Goto,
     Visit, Leave, At, MaxOf
<1> QED
  BY <1>1, <1>2 DEF StepInv, Lock, Leave, At, Busy, Goto, Visit

\* Assign gives a ready thread the call of the client.
LEMMA AssignEffect ==
  ASSUME StepInv, NEW c \in Clients, Assign(c)
  PROVE  /\ pc[c] = "assign"
         /\ i[c] \in 1 .. Len(pool)
         /\ pool[i[c]].state = "ready"
         /\ ThreadBecomes(i[c], "working", call[c], pool[i[c]].exception, pool[i[c]].valid)
         /\ ClientGoes(c, "assign", i[c] + 1)
         /\ UNCHANGED <<calls, call>>
         /\ UNCHANGED holder
         /\ UNCHANGED terminated
<1>1. /\ pc[c] = "assign"
      /\ i[c] \in 1 .. Len(pool)
      /\ pool[i[c]].state = "ready"
      /\ call[c] \in 1 .. Len(calls)
      /\ call[c] \in 0 .. MaxCalls
  BY Typed DEF StepInv, TypeOK, CallInv, InRun, LoopInv, Assign, At, Busy, size,
     Leave, Threads
<1>2. ClientGoes(c, "assign", i[c] + 1)
  BY <1>1, ThreadPoolAssumption DEF StepInv, TypeOK, Places, ClientGoes, Assign, Goto,
     Visit, Leave, At, MaxOf
<1>3. ThreadBecomes(i[c], "working", call[c], pool[i[c]].exception, pool[i[c]].valid)
  BY <1>1, ThreadEmployed DEF StepInv, Assign, Leave
<1> QED
  BY <1>1, <1>2, <1>3 DEF StepInv, Assign, Leave, At, Busy, Goto, Visit

\* The three ways in which an error leaves run while threads may still work: a thread
\* refused the job, could not be restarted, or threw what is not a std::exception.
LEMMA AbandonEffect ==
  ASSUME StepInv, NEW c \in Clients, AssignRefused(c) \/ ManageBuildFails(c) \/ ManageEscapes(c)
  PROVE  /\ pc[c] \in {"assign", "manage"}
         /\ i[c] \in 1 .. Len(pool)
         /\ pool[i[c]].state = "crashed"
         /\ ThreadBecomes(i[c], "crashed", pool[i[c]].call, pool[i[c]].exception, FALSE)
         /\ CallEnds(call[c], "threw")
         /\ ClientGoes(c, "idle", i[c])
         /\ UNCHANGED call
         /\ holder' = {}
         /\ pc[c] = "manage" => BuilderFails \/ ~Reportable(i[c])
         /\ UNCHANGED terminated
<1>1. /\ pc[c] \in {"assign", "manage"}
      /\ i[c] \in 1 .. Len(pool)
      /\ pool[i[c]].state = "crashed"
      /\ pc[c] = "manage" => BuilderFails \/ ~Reportable(i[c])
      /\ call[c] \in 1 .. Len(calls)
  BY Typed DEF StepInv, TypeOK, CallInv, InRun, LoopInv, AssignRefused,
     ManageBuildFails, ManageEscapes, At, Busy, size, Leave, Threads
<1>2. ClientGoes(c, "idle", i[c])
  BY <1>1, ThreadPoolAssumption DEF StepInv, TypeOK, Places, ClientGoes,
     AssignRefused, ManageBuildFails, ManageEscapes, Goto, Visit, Leave, At, MaxOf
<1>3. ThreadBecomes(i[c], "crashed", pool[i[c]].call, pool[i[c]].exception, FALSE)
  BY <1>1, ThreadRead, CallIsOver DEF StepInv, AssignRefused, ManageBuildFails,
     ManageEscapes, Leave
<1>4. CallEnds(call[c], "threw")
  BY <1>1, ThreadRead, CallIsOver DEF StepInv, AssignRefused, ManageBuildFails,
     ManageEscapes, Leave
<1> QED
  BY <1>1, <1>2, <1>3, <1>4 DEF StepInv, AssignRefused, ManageBuildFails,
     ManageEscapes, Leave, At, Busy, Goto, Visit

\* Assigned is reached when all threads have been given the job.
LEMMA AssignedEffect ==
  ASSUME StepInv, NEW c \in Clients, Assigned(c)
  PROVE  /\ pc[c] = "assign"
         /\ i[c] = Len(pool) + 1
         /\ ClientGoes(c, "main", i[c])
         /\ UNCHANGED pool
         /\ UNCHANGED <<calls, call>>
         /\ UNCHANGED holder
         /\ UNCHANGED terminated
<1>1. /\ pc[c] = "assign"
      /\ i[c] = Len(pool) + 1
  BY Typed DEF StepInv, TypeOK, CallInv, InRun, LoopInv, Assigned, At, Busy, size,
     Leave, Threads
<1>2. ClientGoes(c, "main", i[c])
  BY <1>1, ThreadPoolAssumption DEF StepInv, TypeOK, Places, ClientGoes, Assigned,
     Goto, Visit, Leave, At, MaxOf
<1> QED
  BY <1>1, <1>2 DEF StepInv, Assigned, Leave, At, Busy, Goto, Visit

\* Main is the client's own share.
LEMMA MainEffect ==
  ASSUME StepInv, NEW c \in Clients, Main(c)
  PROVE  /\ pc[c] = "main"
         /\ ~NothingLeft(call[c], 0)
         /\ CallGains(call[c], 0)
         /\ UNCHANGED pool
         /\ UNCHANGED <<pc, i, call>>
         /\ UNCHANGED holder
         /\ UNCHANGED terminated
<1>1. /\ pc[c] = "main"
      /\ ~NothingLeft(call[c], 0)
      /\ call[c] \in 1 .. Len(calls)
  BY Typed DEF StepInv, TypeOK, CallInv, InRun, LoopInv, Main, At, Busy, size, Leave,
     Threads
<1>2. CallGains(call[c], 0)
  BY <1>1, CallIsServed DEF StepInv, Main, Leave
<1> QED
  BY <1>1, <1>2 DEF StepInv, Main, Leave, At, Busy, Goto, Visit

\* MainDone is reached when the client has nothing left to run.
LEMMA MainDoneEffect ==
  ASSUME StepInv, NEW c \in Clients, MainDone(c)
  PROVE  /\ pc[c] = "main"
         /\ NothingLeft(call[c], 0)
         /\ ClientGoes(c, "wait", 1)
         /\ UNCHANGED pool
         /\ UNCHANGED <<calls, call>>
         /\ UNCHANGED holder
         /\ UNCHANGED terminated
<1>1. /\ pc[c] = "main"
      /\ NothingLeft(call[c], 0)
  BY Typed DEF StepInv, TypeOK, CallInv, InRun, LoopInv, MainDone, At, Busy, size,
     Leave, Threads
<1>2. ClientGoes(c, "wait", 1)
  BY <1>1, ThreadPoolAssumption DEF StepInv, TypeOK, Places, ClientGoes, MainDone,
     Goto, Visit, Leave, At, MaxOf
<1> QED
  BY <1>1, <1>2 DEF StepInv, MainDone, Leave, At, Busy, Goto, Visit

\* A std::exception of the client itself makes it manage the exception.
LEMMA MainThrowsEffect ==
  ASSUME StepInv, NEW c \in Clients, MainThrows(c)
  PROVE  /\ pc[c] = "main"
         /\ ~NothingLeft(call[c], 0)
         /\ CallFails(call[c], 0, calls[call[c]].outcome)
         /\ ClientGoes(c, "manage", 1)
         /\ UNCHANGED pool
         /\ UNCHANGED call
         /\ UNCHANGED holder
         /\ UNCHANGED terminated
<1>1. /\ pc[c] = "main"
      /\ ~NothingLeft(call[c], 0)
      /\ call[c] \in 1 .. Len(calls)
  BY Typed DEF StepInv, TypeOK, CallInv, InRun, LoopInv, MainThrows, At, Busy, size,
     Leave, Threads
<1>2. ClientGoes(c, "manage", 1)
  BY <1>1, ThreadPoolAssumption DEF StepInv, TypeOK, Places, ClientGoes, MainThrows,
     Goto, Visit, Leave, At, MaxOf
<1>3. CallFails(call[c], 0, calls[call[c]].outcome)
  BY <1>1, CallHasFailed DEF StepInv, MainThrows, Leave
<1> QED
  BY <1>1, <1>2, <1>3 DEF StepInv, MainThrows, Leave, At, Busy, Goto, Visit

\* Any other exception of the client itself ends the call at once.
LEMMA MainThrowsOtherEffect ==
  ASSUME StepInv, NEW c \in Clients, MainThrowsOther(c)
  PROVE  /\ pc[c] = "main"
         /\ ~NothingLeft(call[c], 0)
         /\ "other" \in Exceptions
         /\ CallFails(call[c], 0, "threw")
         /\ ClientGoes(c, "idle", i[c])
         /\ UNCHANGED pool
         /\ UNCHANGED call
         /\ holder' = {}
         /\ UNCHANGED terminated
<1>1. /\ pc[c] = "main"
      /\ ~NothingLeft(call[c], 0)
      /\ call[c] \in 1 .. Len(calls)
  BY Typed DEF StepInv, TypeOK, CallInv, InRun, LoopInv, MainThrowsOther, At, Busy,
     size, Leave, Threads
<1>2. ClientGoes(c, "idle", i[c])
  BY <1>1, ThreadPoolAssumption DEF StepInv, TypeOK, Places, ClientGoes,
     MainThrowsOther, Goto, Visit, Leave, At, MaxOf
<1>3. CallFails(call[c], 0, "threw")
  BY <1>1, CallIsAborted DEF StepInv, MainThrowsOther, Leave
<1> QED
  BY <1>1, <1>2, <1>3 DEF StepInv, MainThrowsOther, Leave, At, Busy, Goto, Visit

\* Wait passes a thread that is no longer working, to manage the exception if it
\* crashed.
LEMMA WaitEffect ==
  ASSUME StepInv, NEW c \in Clients, Wait(c)
  PROVE  /\ pc[c] = "wait"
         /\ i[c] \in 1 .. Len(pool)
         /\ pool[i[c]].state # "working"
         /\ \/ pool[i[c]].state = "ready" /\ ClientGoes(c, "wait", i[c] + 1)
            \/ pool[i[c]].state = "crashed" /\ ClientGoes(c, "manage", 1)
         /\ UNCHANGED pool
         /\ UNCHANGED <<calls, call>>
         /\ UNCHANGED holder
         /\ UNCHANGED terminated
<1>1. /\ pc[c] = "wait"
      /\ i[c] \in 1 .. Len(pool)
      /\ pool[i[c]].state # "working"
      /\ pool[i[c]].state \in {"ready", "crashed"}
  BY Typed DEF StepInv, TypeOK, CallInv, InRun, LoopInv, Wait, At, Busy, size, Leave,
     Threads
<1>2. CASE pool[i[c]].state = "ready"
  <2>1. pc' = pc /\ i' = [i EXCEPT ![c] = i[c] + 1] /\ UNCHANGED <<pool, holder, call, calls, terminated>>
    BY <1>2 DEF Wait, Visit
  <2>2. ClientGoes(c, "wait", i[c] + 1)
    BY <1>1, <2>1 DEF StepInv, TypeOK, ClientGoes
  <2> QED
    BY <1>1, <1>2, <2>1, <2>2
<1>3. CASE pool[i[c]].state = "crashed"
  <2>1. /\ pc' = [pc EXCEPT ![c] = "manage"] /\ i' = [i EXCEPT ![c] = 1]
        /\ UNCHANGED <<pool, holder, call, calls, terminated>>
    BY <1>3 DEF Wait, Visit, Goto
  <2>2. ClientGoes(c, "manage", 1)
    BY <2>1 DEF StepInv, TypeOK, Places, ClientGoes
  <2> QED
    BY <1>1, <1>3, <2>1, <2>2
<1> QED
  BY <1>1, <1>2, <1>3

\* Return is reached when all threads have been waited for.
LEMMA ReturnEffect ==
  ASSUME StepInv, NEW c \in Clients, Return(c)
  PROVE  /\ pc[c] = "wait"
         /\ i[c] = Len(pool) + 1
         /\ CallEnds(call[c], "ok")
         /\ ClientGoes(c, "idle", i[c])
         /\ UNCHANGED pool
         /\ UNCHANGED call
         /\ holder' = {}
         /\ UNCHANGED terminated
<1>1. /\ pc[c] = "wait"
      /\ i[c] = Len(pool) + 1
      /\ call[c] \in 1 .. Len(calls)
  BY Typed DEF StepInv, TypeOK, CallInv, InRun, LoopInv, Return, At, Busy, size,
     Leave, Threads
<1>2. ClientGoes(c, "idle", i[c])
  BY <1>1, ThreadPoolAssumption DEF StepInv, TypeOK, Places, ClientGoes, Return, Goto,
     Visit, Leave, At, MaxOf
<1>3. CallEnds(call[c], "ok")
  BY <1>1, CallIsOver DEF StepInv, Return, Leave
<1> QED
  BY <1>1, <1>2, <1>3 DEF StepInv, Return, Leave, At, Busy, Goto, Visit

\* ManageSkip passes a thread that has not crashed.
LEMMA ManageSkipEffect ==
  ASSUME StepInv, NEW c \in Clients, ManageSkip(c)
  PROVE  /\ pc[c] = "manage"
         /\ i[c] \in 1 .. Len(pool)
         /\ pool[i[c]].state = "ready"
         /\ ClientGoes(c, "manage", i[c] + 1)
         /\ UNCHANGED pool
         /\ UNCHANGED <<calls, call>>
         /\ UNCHANGED holder
         /\ UNCHANGED terminated
<1>1. /\ pc[c] = "manage"
      /\ i[c] \in 1 .. Len(pool)
      /\ pool[i[c]].state = "ready"
  BY Typed DEF StepInv, TypeOK, CallInv, InRun, LoopInv, ManageSkip, At, Busy, size,
     Leave, Threads
<1>2. ClientGoes(c, "manage", i[c] + 1)
  BY <1>1, ThreadPoolAssumption DEF StepInv, TypeOK, Places, ClientGoes, ManageSkip,
     Goto, Visit, Leave, At, MaxOf
<1> QED
  BY <1>1, <1>2 DEF StepInv, ManageSkip, Leave, At, Busy, Goto, Visit

\* ManageRestart replaces a crashed thread by a new one.
LEMMA ManageRestartEffect ==
  ASSUME StepInv, NEW c \in Clients, ManageRestart(c)
  PROVE  /\ pc[c] = "manage"
         /\ i[c] \in 1 .. Len(pool)
         /\ pool[i[c]].state = "crashed"
         /\ ThreadBecomes(i[c], "ready", 0, "none", TRUE)
         /\ ClientGoes(c, "manage", i[c] + 1)
         /\ UNCHANGED <<calls, call>>
         /\ UNCHANGED holder
         /\ UNCHANGED terminated
<1>1. /\ pc[c] = "manage"
      /\ i[c] \in 1 .. Len(pool)
      /\ pool[i[c]].state = "crashed"
  BY Typed DEF StepInv, TypeOK, CallInv, InRun, LoopInv, ManageRestart, At, Busy,
     size, Leave, Threads
<1>2. ClientGoes(c, "manage", i[c] + 1)
  BY <1>1, ThreadPoolAssumption DEF StepInv, TypeOK, Places, ClientGoes,
     ManageRestart, Goto, Visit, Leave, At, MaxOf
<1>3. ThreadBecomes(i[c], "ready", 0, "none", TRUE)
  BY <1>1, ThreadReady DEF StepInv, ManageRestart, Leave
<1> QED
  BY <1>1, <1>2, <1>3 DEF StepInv, ManageRestart, Leave, At, Busy, Goto, Visit

\* ManageThrows ends the call when all threads have been managed.
LEMMA ManageThrowsEffect ==
  ASSUME StepInv, NEW c \in Clients, ManageThrows(c)
  PROVE  /\ pc[c] = "manage"
         /\ i[c] = Len(pool) + 1
         /\ CallEnds(call[c], "threw")
         /\ ClientGoes(c, "idle", i[c])
         /\ UNCHANGED pool
         /\ UNCHANGED call
         /\ holder' = {}
         /\ UNCHANGED terminated
<1>1. /\ pc[c] = "manage"
      /\ i[c] = Len(pool) + 1
      /\ call[c] \in 1 .. Len(calls)
  BY Typed DEF StepInv, TypeOK, CallInv, InRun, LoopInv, ManageThrows, At, Busy, size,
     Leave, Threads
<1>2. ClientGoes(c, "idle", i[c])
  BY <1>1, ThreadPoolAssumption DEF StepInv, TypeOK, Places, ClientGoes, ManageThrows,
     Goto, Visit, Leave, At, MaxOf
<1>3. CallEnds(call[c], "threw")
  BY <1>1, CallIsOver DEF StepInv, ManageThrows, Leave
<1> QED
  BY <1>1, <1>2, <1>3 DEF StepInv, ManageThrows, Leave, At, Busy, Goto, Visit

\* ResizeLock takes use_mutex_ for resize.
LEMMA ResizeLockEffect ==
  ASSUME StepInv, NEW c \in Clients, ResizeLock(c)
  PROVE  /\ pc[c] = "resize"
         /\ holder = {}
         /\ holder' = {c}
         /\ \E s \in Sizes : ClientGoes(c, "resizing", MaxOf(s, 1))
         /\ UNCHANGED pool
         /\ UNCHANGED <<calls, call>>
         /\ UNCHANGED terminated
<1>1. /\ pc[c] = "resize"
      /\ holder = {}
  BY Typed DEF StepInv, TypeOK, CallInv, InRun, LoopInv, ResizeLock, At, Busy, size,
     Leave, Threads
<1>2. \E s \in Sizes : ClientGoes(c, "resizing", MaxOf(s, 1))
  BY <1>1, ThreadPoolAssumption DEF StepInv, TypeOK, Places, ClientGoes, ResizeLock,
     Goto, Visit, Leave, At, MaxOf
<1> QED
  BY <1>1, <1>2 DEF StepInv, ResizeLock, Leave, At, Busy, Goto, Visit

\* Shrink drops the threads beyond the new size.
LEMMA ShrinkEffect ==
  ASSUME StepInv, NEW c \in Clients, Shrink(c)
  PROVE  /\ pc[c] = "resizing"
         /\ i[c] \in 1 .. Len(pool)
         /\ PoolTyped
         /\ Len(pool') = i[c] - 1
         /\ DOMAIN pool' = 1 .. i[c] - 1
         /\ \A m \in 1 .. i[c] - 1 : pool'[m] = pool[m]
         /\ \A m \in i[c] .. Len(pool) : pool[m].state # "working"
         /\ UNCHANGED <<calls, call>>
         /\ UNCHANGED <<pc, i, holder>>
         /\ terminated' \in BOOLEAN
<1>1. /\ pc[c] = "resizing"
      /\ i[c] \in 1 .. Len(pool)
  BY Typed DEF StepInv, TypeOK, CallInv, InRun, LoopInv, Shrink, At, Busy, size,
     Leave, Threads
<1>2. /\ PoolTyped /\ Len(pool') = i[c] - 1 /\ DOMAIN pool' = 1 .. i[c] - 1
      /\ \A m \in 1 .. i[c] - 1 : pool'[m] = pool[m]
  BY <1>1, PoolShrinks DEF StepInv
<1> QED
  BY <1>1, <1>2 DEF StepInv, Shrink, Leave, At, Busy, Goto, Visit

\* Grow adds one thread.
LEMMA GrowEffect ==
  ASSUME StepInv, NEW c \in Clients, Grow(c)
  PROVE  /\ pc[c] = "resizing"
         /\ i[c] > Len(pool) + 1
         /\ PoolTyped
         /\ Len(pool') = Len(pool) + 1
         /\ DOMAIN pool' = 1 .. Len(pool) + 1
         /\ \A m \in 1 .. Len(pool) : pool'[m] = pool[m]
         /\ LET new == pool'[Len(pool) + 1] IN
              new.state = "ready" /\ new.call = 0 /\ new.exception = "none" /\ new.valid
         /\ UNCHANGED <<calls, call>>
         /\ UNCHANGED <<pc, i, holder>>
         /\ UNCHANGED terminated
<1>1. /\ pc[c] = "resizing"
      /\ i[c] > Len(pool) + 1
  BY Typed DEF StepInv, TypeOK, CallInv, InRun, LoopInv, Grow, At, Busy, size, Leave,
     Threads
<1> QED
  BY <1>1, PoolGrows DEF StepInv, Grow, Leave, At, Busy, Goto, Visit

\* Resized gives up use_mutex_ when the pool has its new size.
LEMMA ResizedEffect ==
  ASSUME StepInv, NEW c \in Clients, Resized(c)
  PROVE  /\ pc[c] = "resizing"
         /\ ClientGoes(c, "idle", i[c])
         /\ holder' = {}
         /\ UNCHANGED pool
         /\ UNCHANGED <<calls, call>>
         /\ UNCHANGED terminated
<1>1. /\ pc[c] = "resizing"
  BY Typed DEF StepInv, TypeOK, CallInv, InRun, LoopInv, Resized, At, Busy, size,
     Leave, Threads
<1>2. ClientGoes(c, "idle", i[c])
  BY <1>1, ThreadPoolAssumption DEF StepInv, TypeOK, Places, ClientGoes, Resized,
     Goto, Visit, Leave, At, MaxOf
<1> QED
  BY <1>1, <1>2 DEF StepInv, Resized, Leave, At, Busy, Goto, Visit

\* Work is a thread's share, or a piece of it.
LEMMA WorkEffect ==
  ASSUME StepInv, NEW k \in 1 .. Len(pool), Work(k)
  PROVE  /\ pool[k].state = "working"
         /\ ~NothingLeft(pool[k].call, k)
         /\ CallGains(pool[k].call, k)
         /\ UNCHANGED pool
         /\ UNCHANGED <<pc, i, call, holder>>
         /\ UNCHANGED terminated
<1>1. k \in Nat /\ pool[k].call \in 1 .. Len(calls) /\ pool[k].state = "working"
  BY Typed DEF StepInv, BusyInv, Work, Busy
<1>2. CallGains(pool[k].call, k)
  BY <1>1, CallIsServed DEF StepInv, Work
<1> QED
  BY <1>1, <1>2 DEF Work

\* WorkDone makes a thread ready that has nothing left to run.
LEMMA WorkDoneEffect ==
  ASSUME StepInv, NEW k \in 1 .. Len(pool), WorkDone(k)
  PROVE  /\ pool[k].state = "working"
         /\ NothingLeft(pool[k].call, k)
         /\ ThreadBecomes(k, "ready", 0, "none", TRUE)
         /\ UNCHANGED <<calls, call>>
         /\ UNCHANGED <<pc, i, holder>>
         /\ UNCHANGED terminated
<1>1. ThreadBecomes(k, "ready", 0, "none", TRUE)
  BY ThreadReady DEF StepInv, WorkDone
<1> QED
  BY <1>1 DEF WorkDone, Busy

\* WorkThrows makes a thread crash with the exception of its job.
LEMMA WorkThrowsEffect ==
  ASSUME StepInv, NEW k \in 1 .. Len(pool), WorkThrows(k)
  PROVE  /\ pool[k].state = "working"
         /\ ~NothingLeft(pool[k].call, k)
         /\ CallFails(pool[k].call, k, calls[pool[k].call].outcome)
         /\ \E e \in Exceptions : ThreadBecomes(k, "crashed", pool[k].call, e, pool[k].valid)
         /\ UNCHANGED <<pc, i, call, holder>>
         /\ UNCHANGED terminated
<1>1. k \in Nat /\ pool[k].call \in 1 .. Len(calls) /\ pool[k].state = "working"
  BY Typed DEF StepInv, BusyInv, WorkThrows, Busy
<1>2. CallFails(pool[k].call, k, calls[pool[k].call].outcome)
  BY <1>1, CallHasFailed DEF StepInv, WorkThrows
<1>3. \E e \in Exceptions : ThreadBecomes(k, "crashed", pool[k].call, e, pool[k].valid)
  BY ThreadCrashes DEF StepInv, WorkThrows
<1> QED
  BY <1>1, <1>2, <1>3 DEF WorkThrows
-----------------------------------------------------------------------------
(* Each part of the invariant is kept by each action.                      *)

\* Every step keeps the types.
LEMMA TypeStep ==
  ASSUME StepInv, Next
  PROVE  TypeOK'
<1>1. ASSUME NEW c \in Clients, CallRun(c) PROVE TypeOK'
  <2>1. ClientGoes(c, "run", i[c]) /\ CallsTyped /\ Len(calls') = Len(calls) + 1 /\ Len(calls) < MaxCalls
        /\ call' = [call EXCEPT ![c] = Len(calls) + 1] /\ UNCHANGED <<pool, holder, terminated>>
    BY <1>1, CallRunEffect
  <2>2. call' \in [Clients -> 0 .. MaxCalls] /\ Len(calls') <= MaxCalls
    BY <2>1, Domains, ThreadPoolAssumption DEF StepInv, TypeOK
  <2> QED
    BY <2>1, <2>2 DEF StepInv, TypeOK, ClientGoes, CallsTyped
<1>2. ASSUME NEW c \in Clients, CallResize(c) PROVE TypeOK'
  BY <1>2, CallResizeEffect, Domains DEF StepInv, TypeOK, PoolTyped, CallsTyped,
     ClientGoes
<1>3. ASSUME NEW c \in Clients, Lock(c) PROVE TypeOK'
  BY <1>3, LockEffect, Domains DEF StepInv, TypeOK, PoolTyped, CallsTyped, ClientGoes
<1>4. ASSUME NEW c \in Clients, Assign(c) PROVE TypeOK'
  BY <1>4, AssignEffect, Domains DEF StepInv, TypeOK, PoolTyped, CallsTyped,
     ClientGoes, ThreadBecomes
<1>5. ASSUME NEW c \in Clients, AssignRefused(c) \/ ManageBuildFails(c) \/ ManageEscapes(c) PROVE TypeOK'
  BY <1>5, AbandonEffect, Domains DEF StepInv, TypeOK, PoolTyped, CallsTyped,
     ClientGoes, ThreadBecomes, CallEnds, CallBecomes
<1>6. ASSUME NEW c \in Clients, Assigned(c) PROVE TypeOK'
  BY <1>6, AssignedEffect, Domains DEF StepInv, TypeOK, PoolTyped, CallsTyped,
     ClientGoes
<1>7. ASSUME NEW c \in Clients, Main(c) PROVE TypeOK'
  BY <1>7, MainEffect, Domains DEF StepInv, TypeOK, PoolTyped, CallsTyped, CallGains,
     CallBecomes
<1>8. ASSUME NEW c \in Clients, MainDone(c) PROVE TypeOK'
  BY <1>8, MainDoneEffect, Domains DEF StepInv, TypeOK, PoolTyped, CallsTyped,
     ClientGoes
<1>9. ASSUME NEW c \in Clients, MainThrows(c) PROVE TypeOK'
  BY <1>9, MainThrowsEffect, Domains DEF StepInv, TypeOK, PoolTyped, CallsTyped,
     ClientGoes, CallFails, CallBecomes
<1>10. ASSUME NEW c \in Clients, MainThrowsOther(c) PROVE TypeOK'
  BY <1>10, MainThrowsOtherEffect, Domains DEF StepInv, TypeOK, PoolTyped, CallsTyped,
     ClientGoes, CallFails, CallBecomes
<1>11. ASSUME NEW c \in Clients, Wait(c) PROVE TypeOK'
  BY <1>11, WaitEffect, Domains DEF StepInv, TypeOK, PoolTyped, CallsTyped, ClientGoes
<1>12. ASSUME NEW c \in Clients, Return(c) PROVE TypeOK'
  BY <1>12, ReturnEffect, Domains DEF StepInv, TypeOK, PoolTyped, CallsTyped,
     ClientGoes, CallEnds, CallBecomes
<1>13. ASSUME NEW c \in Clients, ManageSkip(c) PROVE TypeOK'
  BY <1>13, ManageSkipEffect, Domains DEF StepInv, TypeOK, PoolTyped, CallsTyped,
     ClientGoes
<1>14. ASSUME NEW c \in Clients, ManageRestart(c) PROVE TypeOK'
  BY <1>14, ManageRestartEffect, Domains DEF StepInv, TypeOK, PoolTyped, CallsTyped,
     ClientGoes, ThreadBecomes
<1>15. ASSUME NEW c \in Clients, ManageThrows(c) PROVE TypeOK'
  BY <1>15, ManageThrowsEffect, Domains DEF StepInv, TypeOK, PoolTyped, CallsTyped,
     ClientGoes, CallEnds, CallBecomes
<1>16. ASSUME NEW c \in Clients, ResizeLock(c) PROVE TypeOK'
  BY <1>16, ResizeLockEffect, Domains DEF StepInv, TypeOK, PoolTyped, CallsTyped,
     ClientGoes
<1>17. ASSUME NEW c \in Clients, Shrink(c) PROVE TypeOK'
  BY <1>17, ShrinkEffect, Domains DEF StepInv, TypeOK, PoolTyped, CallsTyped
<1>18. ASSUME NEW c \in Clients, Grow(c) PROVE TypeOK'
  BY <1>18, GrowEffect, Domains DEF StepInv, TypeOK, PoolTyped, CallsTyped
<1>19. ASSUME NEW c \in Clients, Resized(c) PROVE TypeOK'
  BY <1>19, ResizedEffect, Domains DEF StepInv, TypeOK, PoolTyped, CallsTyped,
     ClientGoes
<1>20. ASSUME NEW k \in 1 .. Len(pool), Work(k) PROVE TypeOK'
  BY <1>20, WorkEffect, Domains DEF StepInv, TypeOK, PoolTyped, CallsTyped, CallGains,
     CallBecomes
<1>21. ASSUME NEW k \in 1 .. Len(pool), WorkDone(k) PROVE TypeOK'
  BY <1>21, WorkDoneEffect, Domains DEF StepInv, TypeOK, PoolTyped, CallsTyped,
     ThreadBecomes
<1>22. ASSUME NEW k \in 1 .. Len(pool), WorkThrows(k) PROVE TypeOK'
  BY <1>22, WorkThrowsEffect, Domains DEF StepInv, TypeOK, PoolTyped, CallsTyped,
     ThreadBecomes, CallFails, CallBecomes
<1> QED
  BY <1>1, <1>2, <1>3, <1>4, <1>5, <1>6, <1>7, <1>8, <1>9, <1>10, <1>11, <1>12, <1>13,
     <1>14, <1>15, <1>16, <1>17, <1>18, <1>19, <1>20, <1>21, <1>22 DEF Next, RunStep,
     ResizeStep, WorkerStep

\* Every step keeps use_mutex_ with the one client that is inside.
LEMMA MutexStep ==
  ASSUME StepInv, MutexInv, Next
  PROVE  MutexInv'
<1>1. ASSUME NEW c \in Clients, CallRun(c) PROVE MutexInv'
  BY <1>1, CallRunEffect DEF StepInv, TypeOK, MutexInv, HoldsLock, ClientGoes
<1>2. ASSUME NEW c \in Clients, CallResize(c) PROVE MutexInv'
  BY <1>2, CallResizeEffect DEF StepInv, TypeOK, MutexInv, HoldsLock, ClientGoes
<1>3. ASSUME NEW c \in Clients, Lock(c) PROVE MutexInv'
  BY <1>3, LockEffect DEF StepInv, TypeOK, MutexInv, HoldsLock, ClientGoes
<1>4. ASSUME NEW c \in Clients, Assign(c) PROVE MutexInv'
  BY <1>4, AssignEffect DEF StepInv, TypeOK, MutexInv, HoldsLock, ClientGoes
<1>5. ASSUME NEW c \in Clients, AssignRefused(c) \/ ManageBuildFails(c) \/ ManageEscapes(c) PROVE MutexInv'
  <2>1. AssignRefused(c) \/ ManageBuildFails(c) \/ ManageEscapes(c)
    BY <1>5
  <2>2. pc[c] \in {"assign", "manage"} /\ holder' = {} /\ ClientGoes(c, "idle", i[c])
    BY <2>1, AbandonEffect
  <2> QED
    BY <2>2 DEF StepInv, TypeOK, MutexInv, HoldsLock, ClientGoes
<1>6. ASSUME NEW c \in Clients, Assigned(c) PROVE MutexInv'
  BY <1>6, AssignedEffect DEF StepInv, TypeOK, MutexInv, HoldsLock, ClientGoes
<1>7. ASSUME NEW c \in Clients, Main(c) PROVE MutexInv'
  BY <1>7, MainEffect DEF StepInv, TypeOK, MutexInv, HoldsLock
<1>8. ASSUME NEW c \in Clients, MainDone(c) PROVE MutexInv'
  BY <1>8, MainDoneEffect DEF StepInv, TypeOK, MutexInv, HoldsLock, ClientGoes
<1>9. ASSUME NEW c \in Clients, MainThrows(c) PROVE MutexInv'
  BY <1>9, MainThrowsEffect DEF StepInv, TypeOK, MutexInv, HoldsLock, ClientGoes
<1>10. ASSUME NEW c \in Clients, MainThrowsOther(c) PROVE MutexInv'
  BY <1>10, MainThrowsOtherEffect DEF StepInv, TypeOK, MutexInv, HoldsLock, ClientGoes
<1>11. ASSUME NEW c \in Clients, Wait(c) PROVE MutexInv'
  BY <1>11, WaitEffect DEF StepInv, TypeOK, MutexInv, HoldsLock, ClientGoes
<1>12. ASSUME NEW c \in Clients, Return(c) PROVE MutexInv'
  BY <1>12, ReturnEffect DEF StepInv, TypeOK, MutexInv, HoldsLock, ClientGoes
<1>13. ASSUME NEW c \in Clients, ManageSkip(c) PROVE MutexInv'
  BY <1>13, ManageSkipEffect DEF StepInv, TypeOK, MutexInv, HoldsLock, ClientGoes
<1>14. ASSUME NEW c \in Clients, ManageRestart(c) PROVE MutexInv'
  BY <1>14, ManageRestartEffect DEF StepInv, TypeOK, MutexInv, HoldsLock, ClientGoes
<1>15. ASSUME NEW c \in Clients, ManageThrows(c) PROVE MutexInv'
  BY <1>15, ManageThrowsEffect DEF StepInv, TypeOK, MutexInv, HoldsLock, ClientGoes
<1>16. ASSUME NEW c \in Clients, ResizeLock(c) PROVE MutexInv'
  BY <1>16, ResizeLockEffect DEF StepInv, TypeOK, MutexInv, HoldsLock, ClientGoes
<1>17. ASSUME NEW c \in Clients, Shrink(c) PROVE MutexInv'
  BY <1>17, ShrinkEffect DEF StepInv, TypeOK, MutexInv, HoldsLock
<1>18. ASSUME NEW c \in Clients, Grow(c) PROVE MutexInv'
  BY <1>18, GrowEffect DEF StepInv, TypeOK, MutexInv, HoldsLock
<1>19. ASSUME NEW c \in Clients, Resized(c) PROVE MutexInv'
  BY <1>19, ResizedEffect DEF StepInv, TypeOK, MutexInv, HoldsLock, ClientGoes
<1>20. ASSUME NEW k \in 1 .. Len(pool), Work(k) PROVE MutexInv'
  BY <1>20, WorkEffect DEF StepInv, TypeOK, MutexInv, HoldsLock
<1>21. ASSUME NEW k \in 1 .. Len(pool), WorkDone(k) PROVE MutexInv'
  BY <1>21, WorkDoneEffect DEF StepInv, TypeOK, MutexInv, HoldsLock
<1>22. ASSUME NEW k \in 1 .. Len(pool), WorkThrows(k) PROVE MutexInv'
  BY <1>22, WorkThrowsEffect DEF StepInv, TypeOK, MutexInv, HoldsLock
<1> QED
  BY <1>1, <1>2, <1>3, <1>4, <1>5, <1>6, <1>7, <1>8, <1>9, <1>10, <1>11, <1>12, <1>13,
     <1>14, <1>15, <1>16, <1>17, <1>18, <1>19, <1>20, <1>21, <1>22 DEF Next, RunStep,
     ResizeStep, WorkerStep

\* Every step leaves each running client with a call of its own that is not over.
LEMMA CallStep ==
  ASSUME StepInv, Next
  PROVE  CallInv'
<1>1. ASSUME NEW c \in Clients, CallRun(c) PROVE CallInv'
  <2>1. DOMAIN calls = 1 .. Len(calls) /\ Len(calls) \in Nat
    BY Domains DEF StepInv
  <2>2. /\ DOMAIN calls' = 1 .. Len(calls) + 1
        /\ \A n \in 1 .. Len(calls) : calls'[n] = calls[n]
        /\ calls'[Len(calls) + 1].outcome = "running"
        /\ call' = [call EXCEPT ![c] = Len(calls) + 1] /\ ClientGoes(c, "run", i[c]) /\ pc[c] = "idle"
    BY <1>1, CallRunEffect
  <2>3. call'[c] = Len(calls) + 1 /\ \A d \in Clients : d # c => call'[d] = call[d]
    BY <2>2 DEF StepInv, TypeOK
  <2>4. \A d \in Clients : d # c => (InRun(d)' => InRun(d))
    BY <2>2, <2>3 DEF InRun, ClientGoes
  <2> QED
    BY <2>1, <2>2, <2>3, <2>4 DEF StepInv, CallInv, Running
<1>2. ASSUME NEW c \in Clients, CallResize(c) PROVE CallInv'
  BY <1>2, CallResizeEffect DEF StepInv, CallInv, InRun, Running, ClientGoes
<1>3. ASSUME NEW c \in Clients, Lock(c) PROVE CallInv'
  BY <1>3, LockEffect DEF StepInv, CallInv, InRun, Running, ClientGoes
<1>4. ASSUME NEW c \in Clients, Assign(c) PROVE CallInv'
  BY <1>4, AssignEffect DEF StepInv, CallInv, InRun, Running, ClientGoes
<1>5. ASSUME NEW c \in Clients, AssignRefused(c) \/ ManageBuildFails(c) \/ ManageEscapes(c) PROVE CallInv'
  <2>1. ~InRun(c)' /\ InRun(c) /\ \A d \in Clients : d # c => (InRun(d)' => InRun(d))
    BY <1>5, AbandonEffect DEF ClientGoes, InRun
  <2>2. call' = call /\ DOMAIN calls' = DOMAIN calls /\ \A n \in DOMAIN calls : n # call[c] => calls'[n] = calls[n]
    BY <1>5, AbandonEffect, Domains DEF StepInv, CallEnds, CallBecomes
  <2> QED
    BY <2>1, <2>2 DEF StepInv, CallInv, Running
<1>6. ASSUME NEW c \in Clients, Assigned(c) PROVE CallInv'
  BY <1>6, AssignedEffect DEF StepInv, CallInv, InRun, Running, ClientGoes
<1>7. ASSUME NEW c \in Clients, Main(c) PROVE CallInv'
  <2>1. \A d \in Clients : InRun(d)' => InRun(d)
    BY <1>7, MainEffect DEF ClientGoes, InRun
  <2>2. call' = call /\ DOMAIN calls' = DOMAIN calls /\ \A n \in DOMAIN calls : calls'[n].outcome = calls[n].outcome
    BY <1>7, MainEffect, Domains DEF StepInv, CallGains, CallBecomes
  <2> QED
    BY <2>1, <2>2 DEF StepInv, CallInv, Running
<1>8. ASSUME NEW c \in Clients, MainDone(c) PROVE CallInv'
  BY <1>8, MainDoneEffect DEF StepInv, CallInv, InRun, Running, ClientGoes
<1>9. ASSUME NEW c \in Clients, MainThrows(c) PROVE CallInv'
  <2>1. \A d \in Clients : InRun(d)' => InRun(d)
    BY <1>9, MainThrowsEffect DEF ClientGoes, InRun
  <2>2. call' = call /\ DOMAIN calls' = DOMAIN calls /\ \A n \in DOMAIN calls : calls'[n].outcome = calls[n].outcome
    BY <1>9, MainThrowsEffect, Domains DEF StepInv, CallFails, CallBecomes
  <2> QED
    BY <2>1, <2>2 DEF StepInv, CallInv, Running
<1>10. ASSUME NEW c \in Clients, MainThrowsOther(c) PROVE CallInv'
  <2>1. ~InRun(c)' /\ InRun(c) /\ \A d \in Clients : d # c => (InRun(d)' => InRun(d))
    BY <1>10, MainThrowsOtherEffect DEF ClientGoes, InRun
  <2>2. call' = call /\ DOMAIN calls' = DOMAIN calls /\ \A n \in DOMAIN calls : n # call[c] => calls'[n] = calls[n]
    BY <1>10, MainThrowsOtherEffect, Domains DEF StepInv, CallFails, CallBecomes
  <2> QED
    BY <2>1, <2>2 DEF StepInv, CallInv, Running
<1>11. ASSUME NEW c \in Clients, Wait(c) PROVE CallInv'
  BY <1>11, WaitEffect DEF StepInv, CallInv, InRun, Running, ClientGoes
<1>12. ASSUME NEW c \in Clients, Return(c) PROVE CallInv'
  <2>1. ~InRun(c)' /\ InRun(c) /\ \A d \in Clients : d # c => (InRun(d)' => InRun(d))
    BY <1>12, ReturnEffect DEF ClientGoes, InRun
  <2>2. call' = call /\ DOMAIN calls' = DOMAIN calls /\ \A n \in DOMAIN calls : n # call[c] => calls'[n] = calls[n]
    BY <1>12, ReturnEffect, Domains DEF StepInv, CallEnds, CallBecomes
  <2> QED
    BY <2>1, <2>2 DEF StepInv, CallInv, Running
<1>13. ASSUME NEW c \in Clients, ManageSkip(c) PROVE CallInv'
  BY <1>13, ManageSkipEffect DEF StepInv, CallInv, InRun, Running, ClientGoes
<1>14. ASSUME NEW c \in Clients, ManageRestart(c) PROVE CallInv'
  <2>1. \A d \in Clients : InRun(d)' => InRun(d)
    BY <1>14, ManageRestartEffect DEF ClientGoes, InRun
  <2>2. call' = call /\ DOMAIN calls' = DOMAIN calls /\ \A n \in DOMAIN calls : calls'[n].outcome = calls[n].outcome
    BY <1>14, ManageRestartEffect, Domains DEF StepInv, ClientGoes
  <2> QED
    BY <2>1, <2>2 DEF StepInv, CallInv, Running
<1>15. ASSUME NEW c \in Clients, ManageThrows(c) PROVE CallInv'
  <2>1. ~InRun(c)' /\ InRun(c) /\ \A d \in Clients : d # c => (InRun(d)' => InRun(d))
    BY <1>15, ManageThrowsEffect DEF ClientGoes, InRun
  <2>2. call' = call /\ DOMAIN calls' = DOMAIN calls /\ \A n \in DOMAIN calls : n # call[c] => calls'[n] = calls[n]
    BY <1>15, ManageThrowsEffect, Domains DEF StepInv, CallEnds, CallBecomes
  <2> QED
    BY <2>1, <2>2 DEF StepInv, CallInv, Running
<1>16. ASSUME NEW c \in Clients, ResizeLock(c) PROVE CallInv'
  BY <1>16, ResizeLockEffect DEF StepInv, CallInv, InRun, Running, ClientGoes
<1>17. ASSUME NEW c \in Clients, Shrink(c) PROVE CallInv'
  BY <1>17, ShrinkEffect DEF StepInv, CallInv, InRun, Running
<1>18. ASSUME NEW c \in Clients, Grow(c) PROVE CallInv'
  BY <1>18, GrowEffect DEF StepInv, CallInv, InRun, Running
<1>19. ASSUME NEW c \in Clients, Resized(c) PROVE CallInv'
  BY <1>19, ResizedEffect DEF StepInv, CallInv, InRun, Running, ClientGoes
<1>20. ASSUME NEW k \in 1 .. Len(pool), Work(k) PROVE CallInv'
  <2>1. \A d \in Clients : InRun(d)' => InRun(d)
    BY <1>20, WorkEffect DEF ClientGoes, InRun
  <2>2. call' = call /\ DOMAIN calls' = DOMAIN calls /\ \A n \in DOMAIN calls : calls'[n].outcome = calls[n].outcome
    BY <1>20, WorkEffect, Domains DEF StepInv, CallGains, CallBecomes
  <2> QED
    BY <2>1, <2>2 DEF StepInv, CallInv, Running
<1>21. ASSUME NEW k \in 1 .. Len(pool), WorkDone(k) PROVE CallInv'
  BY <1>21, WorkDoneEffect DEF StepInv, CallInv, InRun, Running
<1>22. ASSUME NEW k \in 1 .. Len(pool), WorkThrows(k) PROVE CallInv'
  <2>1. \A d \in Clients : InRun(d)' => InRun(d)
    BY <1>22, WorkThrowsEffect DEF ClientGoes, InRun
  <2>2. call' = call /\ DOMAIN calls' = DOMAIN calls /\ \A n \in DOMAIN calls : calls'[n].outcome = calls[n].outcome
    BY <1>22, WorkThrowsEffect, Domains DEF StepInv, CallFails, CallBecomes
  <2> QED
    BY <2>1, <2>2 DEF StepInv, CallInv, Running
<1> QED
  BY <1>1, <1>2, <1>3, <1>4, <1>5, <1>6, <1>7, <1>8, <1>9, <1>10, <1>11, <1>12, <1>13,
     <1>14, <1>15, <1>16, <1>17, <1>18, <1>19, <1>20, <1>21, <1>22 DEF Next, RunStep,
     ResizeStep, WorkerStep

\* Every step keeps the loops over the threads within the pool, which resize changes
\* only while nobody is in such a loop.
LEMMA LoopStep ==
  ASSUME StepInv, MutexInv, Next
  PROVE  LoopInv'
<1>1. ASSUME NEW c \in Clients, CallRun(c) PROVE LoopInv'
  BY <1>1, CallRunEffect, Domains DEF StepInv, LoopInv, MutexInv, HoldsLock, TypeOK,
     ClientGoes
<1>2. ASSUME NEW c \in Clients, CallResize(c) PROVE LoopInv'
  BY <1>2, CallResizeEffect, Domains DEF StepInv, LoopInv, MutexInv, HoldsLock,
     TypeOK, ClientGoes
<1>3. ASSUME NEW c \in Clients, Lock(c) PROVE LoopInv'
  BY <1>3, LockEffect, Domains DEF StepInv, LoopInv, MutexInv, HoldsLock, TypeOK,
     ClientGoes
<1>4. ASSUME NEW c \in Clients, Assign(c) PROVE LoopInv'
  BY <1>4, AssignEffect, Domains DEF StepInv, LoopInv, MutexInv, HoldsLock, TypeOK,
     ClientGoes, ThreadBecomes
<1>5. ASSUME NEW c \in Clients, AssignRefused(c) \/ ManageBuildFails(c) \/ ManageEscapes(c) PROVE LoopInv'
  BY <1>5, AbandonEffect, Domains DEF StepInv, LoopInv, MutexInv, HoldsLock, TypeOK,
     ClientGoes, ThreadBecomes
<1>6. ASSUME NEW c \in Clients, Assigned(c) PROVE LoopInv'
  BY <1>6, AssignedEffect, Domains DEF StepInv, LoopInv, MutexInv, HoldsLock, TypeOK,
     ClientGoes
<1>7. ASSUME NEW c \in Clients, Main(c) PROVE LoopInv'
  BY <1>7, MainEffect, Domains DEF StepInv, LoopInv, MutexInv, HoldsLock, TypeOK
<1>8. ASSUME NEW c \in Clients, MainDone(c) PROVE LoopInv'
  BY <1>8, MainDoneEffect, Domains DEF StepInv, LoopInv, MutexInv, HoldsLock, TypeOK,
     ClientGoes
<1>9. ASSUME NEW c \in Clients, MainThrows(c) PROVE LoopInv'
  BY <1>9, MainThrowsEffect, Domains DEF StepInv, LoopInv, MutexInv, HoldsLock,
     TypeOK, ClientGoes
<1>10. ASSUME NEW c \in Clients, MainThrowsOther(c) PROVE LoopInv'
  BY <1>10, MainThrowsOtherEffect, Domains DEF StepInv, LoopInv, MutexInv, HoldsLock,
     TypeOK, ClientGoes
<1>11. ASSUME NEW c \in Clients, Wait(c) PROVE LoopInv'
  <2>1. pool' = pool /\ i[c] \in 1 .. Len(pool)
    BY <1>11, WaitEffect
  <2>2. ClientGoes(c, "wait", i[c] + 1) \/ ClientGoes(c, "manage", 1)
    BY <1>11, WaitEffect
  <2> QED
    BY <2>1, <2>2, Domains DEF StepInv, LoopInv, ClientGoes
<1>12. ASSUME NEW c \in Clients, Return(c) PROVE LoopInv'
  BY <1>12, ReturnEffect, Domains DEF StepInv, LoopInv, MutexInv, HoldsLock, TypeOK,
     ClientGoes
<1>13. ASSUME NEW c \in Clients, ManageSkip(c) PROVE LoopInv'
  BY <1>13, ManageSkipEffect, Domains DEF StepInv, LoopInv, MutexInv, HoldsLock,
     TypeOK, ClientGoes
<1>14. ASSUME NEW c \in Clients, ManageRestart(c) PROVE LoopInv'
  <2>1. Len(pool') = Len(pool) /\ i[c] \in 1 .. Len(pool) /\ ClientGoes(c, "manage", i[c] + 1)
    BY <1>14, ManageRestartEffect DEF ThreadBecomes
  <2> QED
    BY <2>1, Domains DEF StepInv, LoopInv, ClientGoes
<1>15. ASSUME NEW c \in Clients, ManageThrows(c) PROVE LoopInv'
  BY <1>15, ManageThrowsEffect, Domains DEF StepInv, LoopInv, MutexInv, HoldsLock,
     TypeOK, ClientGoes
<1>16. ASSUME NEW c \in Clients, ResizeLock(c) PROVE LoopInv'
  BY <1>16, ResizeLockEffect, Domains, ThreadPoolAssumption DEF StepInv, LoopInv,
     MutexInv, HoldsLock, TypeOK, MaxOf, ClientGoes
<1>17. ASSUME NEW c \in Clients, Shrink(c) PROVE LoopInv'
  BY <1>17, ShrinkEffect, Domains DEF StepInv, LoopInv, MutexInv, HoldsLock, TypeOK
<1>18. ASSUME NEW c \in Clients, Grow(c) PROVE LoopInv'
  BY <1>18, GrowEffect, Domains DEF StepInv, LoopInv, MutexInv, HoldsLock, TypeOK
<1>19. ASSUME NEW c \in Clients, Resized(c) PROVE LoopInv'
  BY <1>19, ResizedEffect, Domains DEF StepInv, LoopInv, MutexInv, HoldsLock, TypeOK,
     ClientGoes
<1>20. ASSUME NEW k \in 1 .. Len(pool), Work(k) PROVE LoopInv'
  BY <1>20, WorkEffect, Domains DEF StepInv, LoopInv, MutexInv, HoldsLock, TypeOK
<1>21. ASSUME NEW k \in 1 .. Len(pool), WorkDone(k) PROVE LoopInv'
  BY <1>21, WorkDoneEffect, Domains DEF StepInv, LoopInv, MutexInv, HoldsLock, TypeOK,
     ThreadBecomes
<1>22. ASSUME NEW k \in 1 .. Len(pool), WorkThrows(k) PROVE LoopInv'
  BY <1>22, WorkThrowsEffect, Domains DEF StepInv, LoopInv, MutexInv, HoldsLock,
     TypeOK, ThreadBecomes
<1> QED
  BY <1>1, <1>2, <1>3, <1>4, <1>5, <1>6, <1>7, <1>8, <1>9, <1>10, <1>11, <1>12, <1>13,
     <1>14, <1>15, <1>16, <1>17, <1>18, <1>19, <1>20, <1>21, <1>22 DEF Next, RunStep,
     ResizeStep, WorkerStep

\* After every step a working thread is awaited by a client, or works for a call that
\* was abandoned.
LEMMA BusyStep ==
  ASSUME StepInv, MutexInv, Next
  PROVE  BusyInv'
<1>1. ASSUME NEW c \in Clients, CallRun(c) PROVE BusyInv'
  <2>a. pool' = pool /\ ClientGoes(c, "run", i[c]) /\ pc[c] = "idle" /\ DOMAIN calls = 1 .. Len(calls) /\ Len(calls) \in Nat
        /\ DOMAIN calls' = 1 .. Len(calls) + 1 /\ \A n \in 1 .. Len(calls) : calls'[n] = calls[n]
        /\ call' = [call EXCEPT ![c] = Len(calls) + 1]
    BY <1>1, CallRunEffect, Domains DEF StepInv
  <2>b. \A d \in Clients, k \in DOMAIN pool : Awaits(d, k) => d # c
    BY <2>a DEF Awaits, InRun
  <2>c. \A d \in Clients : d # c => call'[d] = call[d]
    <3>1. call \in [Clients -> 0 .. MaxCalls]
      BY ClientTypes DEF StepInv
    <3>2. call' = [call EXCEPT ![c] = Len(calls) + 1]
      BY <1>1 DEF CallRun
    <3> QED
      BY <3>1, <3>2
  <2>d. \A d \in Clients, k \in DOMAIN pool : Awaits(d, k) => Awaits(d, k)'
    BY <2>a, <2>b, <2>c DEF Awaits, InRun, ClientGoes
  <2>e. \A n \in DOMAIN calls : n \in DOMAIN calls' /\ calls'[n] = calls[n]
    BY <2>a
  <2>f. pool' = pool
    BY <2>a
  <2> QED
    BY <2>f, <2>d, <2>e DEF StepInv, BusyInv, Busy
<1>2. ASSUME NEW c \in Clients, CallResize(c) PROVE BusyInv'
  BY <1>2, CallResizeEffect DEF StepInv, BusyInv, Busy, Awaits, InRun, ClientGoes
<1>3. ASSUME NEW c \in Clients, Lock(c) PROVE BusyInv'
  BY <1>3, LockEffect DEF StepInv, BusyInv, Busy, Awaits, InRun, ClientGoes
<1>4. ASSUME NEW c \in Clients, Assign(c) PROVE BusyInv'
  <2>a. HoldsLock(c) /\ \A d \in Clients, k \in DOMAIN pool : Awaits(d, k) => d = c
    BY <1>4, AssignEffect, AwaitsHolds, OneInside DEF StepInv, HoldsLock
  <2>b. DOMAIN pool' = DOMAIN pool /\ \A k \in DOMAIN pool : k # i[c] => pool'[k] = pool[k]
    BY <1>4, AssignEffect, Domains DEF StepInv, ThreadBecomes
  <2>p. /\ ClientGoes(c, "assign", i[c] + 1) /\ call' = call /\ pc[c] = "assign" /\ i[c] \in 1 .. Len(pool)
        /\ \A k \in DOMAIN pool : k # i[c] => pool'[k].call = pool[k].call
        /\ pool[i[c]].state = "ready" /\ DOMAIN pool = 1 .. Len(pool)
    BY <1>4, <2>b, AssignEffect, Domains DEF StepInv
  <2>c. \A k \in DOMAIN pool : Awaits(c, k) /\ pool[k].state # "ready" => Awaits(c, k)'
    BY <2>p DEF StepInv, LoopInv, Awaits, InRun, ClientGoes
  <2>d. DOMAIN calls' = DOMAIN calls /\ \A n \in DOMAIN calls : calls'[n].outcome = calls[n].outcome
    BY <1>4, AssignEffect, Domains DEF StepInv
  <2>e. /\ pool'[i[c]].call = call[c] /\ call[c] \in DOMAIN calls
        /\ \A k : k = i[c] => Awaits(c, k)'
    <3>1. pool'[i[c]].call = call[c]
      BY <1>4, AssignEffect DEF ThreadBecomes
    <3>2. call[c] \in DOMAIN calls
      BY <2>p DEF StepInv, CallInv, InRun
    <3> QED
      BY <3>1, <3>2, <2>p, ClientTypes DEF StepInv, Awaits, InRun, ClientGoes
  <2>f. i[c] \in DOMAIN pool
    BY <2>p
  <2>g. \A k \in DOMAIN pool : Busy(k) =>
          calls[pool[k].call].outcome = "threw" \/ Awaits(c, k)'
    BY <2>a, <2>c DEF StepInv, BusyInv, Busy
  <2> QED
    BY <2>b, <2>d, <2>e, <2>f, <2>g DEF StepInv, BusyInv, Busy
<1>5. ASSUME NEW c \in Clients, AssignRefused(c) \/ ManageBuildFails(c) \/ ManageEscapes(c) PROVE BusyInv'
  <2>a. HoldsLock(c) /\ \A d \in Clients, k \in DOMAIN pool : Awaits(d, k) => d = c
    BY <1>5, AbandonEffect, AwaitsHolds, OneInside DEF StepInv, HoldsLock
  <2>b. DOMAIN pool' = DOMAIN pool /\ \A k \in DOMAIN pool : pool'[k].state = pool[k].state /\ pool'[k].call = pool[k].call
    BY <1>5, AbandonEffect, Domains DEF StepInv, ThreadBecomes
  <2>c. \A k \in DOMAIN pool : Awaits(c, k) => pool[k].call = call[c]
    BY <1>5, AbandonEffect, Domains DEF StepInv, TypeOK, Awaits
  <2>d. /\ DOMAIN calls' = DOMAIN calls /\ calls'[call[c]].outcome = "threw"
        /\ \A n \in DOMAIN calls : n # call[c] => calls'[n] = calls[n]
    BY <1>5, AbandonEffect, Domains DEF StepInv, CallEnds, CallBecomes
  <2> QED
    BY <2>a, <2>b, <2>c, <2>d DEF StepInv, BusyInv, Busy
<1>6. ASSUME NEW c \in Clients, Assigned(c) PROVE BusyInv'
  <2>a. HoldsLock(c) /\ \A d \in Clients, k \in DOMAIN pool : Awaits(d, k) => d = c
    BY <1>6, AssignedEffect, AwaitsHolds, OneInside DEF StepInv, HoldsLock
  <2>b. pool' = pool
    BY <1>6, AssignedEffect, Domains DEF StepInv
  <2>c. \A k \in DOMAIN pool : Awaits(c, k) /\ pool[k].state # "ready" => Awaits(c, k)'
    BY <1>6, <2>b, AssignedEffect, Domains, ClientTypes DEF StepInv, LoopInv, Awaits,
       InRun, ClientGoes
  <2>d. DOMAIN calls' = DOMAIN calls /\ \A n \in DOMAIN calls : calls'[n].outcome = calls[n].outcome
    BY <1>6, AssignedEffect, Domains DEF StepInv
  <2> QED
    BY <2>a, <2>b, <2>c, <2>d DEF StepInv, BusyInv, Busy
<1>7. ASSUME NEW c \in Clients, Main(c) PROVE BusyInv'
  <2>a. HoldsLock(c) /\ \A d \in Clients, k \in DOMAIN pool : Awaits(d, k) => d = c
    BY <1>7, MainEffect, AwaitsHolds, OneInside DEF StepInv, HoldsLock
  <2>b. pool' = pool
    BY <1>7, MainEffect, Domains DEF StepInv
  <2>c. \A k \in DOMAIN pool : Awaits(c, k) /\ pool[k].state # "ready" => Awaits(c, k)'
    BY <1>7, <2>b, MainEffect, Domains, ClientTypes DEF StepInv, LoopInv, Awaits,
       InRun
  <2>d. DOMAIN calls' = DOMAIN calls /\ \A n \in DOMAIN calls : calls'[n].outcome = calls[n].outcome
    BY <1>7, MainEffect, Domains DEF StepInv, CallGains, CallBecomes
  <2> QED
    BY <2>a, <2>b, <2>c, <2>d DEF StepInv, BusyInv, Busy
<1>8. ASSUME NEW c \in Clients, MainDone(c) PROVE BusyInv'
  <2>a. HoldsLock(c) /\ \A d \in Clients, k \in DOMAIN pool : Awaits(d, k) => d = c
    BY <1>8, MainDoneEffect, AwaitsHolds, OneInside DEF StepInv, HoldsLock
  <2>b. pool' = pool
    BY <1>8, MainDoneEffect, Domains DEF StepInv
  <2>c. \A k \in DOMAIN pool : Awaits(c, k) /\ pool[k].state # "ready" => Awaits(c, k)'
    BY <1>8, <2>b, MainDoneEffect, Domains, ClientTypes DEF StepInv, LoopInv, Awaits,
       InRun, ClientGoes
  <2>d. DOMAIN calls' = DOMAIN calls /\ \A n \in DOMAIN calls : calls'[n].outcome = calls[n].outcome
    BY <1>8, MainDoneEffect, Domains DEF StepInv
  <2> QED
    BY <2>a, <2>b, <2>c, <2>d DEF StepInv, BusyInv, Busy
<1>9. ASSUME NEW c \in Clients, MainThrows(c) PROVE BusyInv'
  <2>a. HoldsLock(c) /\ \A d \in Clients, k \in DOMAIN pool : Awaits(d, k) => d = c
    BY <1>9, MainThrowsEffect, AwaitsHolds, OneInside DEF StepInv, HoldsLock
  <2>b. pool' = pool
    BY <1>9, MainThrowsEffect, Domains DEF StepInv
  <2>c. \A k \in DOMAIN pool : Awaits(c, k) /\ pool[k].state # "ready" => Awaits(c, k)'
    BY <1>9, <2>b, MainThrowsEffect, Domains, ClientTypes DEF StepInv, LoopInv,
       Awaits, InRun, ClientGoes
  <2>d. DOMAIN calls' = DOMAIN calls /\ \A n \in DOMAIN calls : calls'[n].outcome = calls[n].outcome
    BY <1>9, MainThrowsEffect, Domains DEF StepInv, CallFails, CallBecomes
  <2> QED
    BY <2>a, <2>b, <2>c, <2>d DEF StepInv, BusyInv, Busy
<1>10. ASSUME NEW c \in Clients, MainThrowsOther(c) PROVE BusyInv'
  <2>a. HoldsLock(c) /\ \A d \in Clients, k \in DOMAIN pool : Awaits(d, k) => d = c
    BY <1>10, MainThrowsOtherEffect, AwaitsHolds, OneInside DEF StepInv, HoldsLock
  <2>b. DOMAIN pool' = DOMAIN pool /\ \A k \in DOMAIN pool : pool'[k].state = pool[k].state /\ pool'[k].call = pool[k].call
    BY <1>10, MainThrowsOtherEffect, Domains DEF StepInv
  <2>c. \A k \in DOMAIN pool : Awaits(c, k) => pool[k].call = call[c]
    BY <1>10, MainThrowsOtherEffect, Domains DEF StepInv, TypeOK, Awaits
  <2>d. /\ DOMAIN calls' = DOMAIN calls /\ calls'[call[c]].outcome = "threw"
        /\ \A n \in DOMAIN calls : n # call[c] => calls'[n] = calls[n]
    BY <1>10, MainThrowsOtherEffect, Domains DEF StepInv, CallFails, CallBecomes
  <2> QED
    BY <2>a, <2>b, <2>c, <2>d DEF StepInv, BusyInv, Busy
<1>11. ASSUME NEW c \in Clients, Wait(c) PROVE BusyInv'
  <2>a. HoldsLock(c) /\ \A d \in Clients, k \in DOMAIN pool : Awaits(d, k) => d = c
    BY <1>11, WaitEffect, AwaitsHolds, OneInside DEF StepInv, HoldsLock
  <2>b. pool' = pool
    BY <1>11, WaitEffect, Domains DEF StepInv
  <2>c. \A k \in DOMAIN pool : Awaits(c, k) /\ pool[k].state # "ready" => Awaits(c, k)'
    BY <1>11, <2>b, WaitEffect, Domains, ClientTypes DEF StepInv, LoopInv, Awaits,
       InRun, ClientGoes
  <2>d. DOMAIN calls' = DOMAIN calls /\ \A n \in DOMAIN calls : calls'[n].outcome = calls[n].outcome
    BY <1>11, WaitEffect, Domains DEF StepInv
  <2> QED
    BY <2>a, <2>b, <2>c, <2>d DEF StepInv, BusyInv, Busy
<1>12. ASSUME NEW c \in Clients, Return(c) PROVE BusyInv'
  <2>a. HoldsLock(c) /\ \A d \in Clients, k \in DOMAIN pool : Awaits(d, k) => d = c
    BY <1>12, ReturnEffect, AwaitsHolds, OneInside DEF StepInv, HoldsLock
  <2>b. DOMAIN pool' = DOMAIN pool /\ \A k \in DOMAIN pool : pool'[k].state = pool[k].state /\ pool'[k].call = pool[k].call
    BY <1>12, ReturnEffect, Domains DEF StepInv
  <2>c. \A k \in DOMAIN pool : Awaits(c, k) => pool[k].call = call[c] /\ k > Len(pool)
    BY <1>12, ReturnEffect, Domains DEF StepInv, TypeOK, Awaits
  <2>d. /\ DOMAIN calls' = DOMAIN calls /\ calls'[call[c]].outcome = "ok"
        /\ \A n \in DOMAIN calls : n # call[c] => calls'[n] = calls[n]
    BY <1>12, ReturnEffect, Domains DEF StepInv, CallEnds, CallBecomes
  <2>e. \A k \in DOMAIN pool, d \in Clients : ~Awaits(d, k)
    BY <2>a, <2>c, Domains DEF StepInv
  <2>f. calls[call[c]].outcome = "running"
    BY <1>12, ReturnEffect DEF StepInv, CallInv, InRun, Running
  <2> QED
    BY <2>b, <2>d, <2>e, <2>f DEF StepInv, BusyInv, Busy
<1>13. ASSUME NEW c \in Clients, ManageSkip(c) PROVE BusyInv'
  <2>a. HoldsLock(c) /\ \A d \in Clients, k \in DOMAIN pool : Awaits(d, k) => d = c
    BY <1>13, ManageSkipEffect, AwaitsHolds, OneInside DEF StepInv, HoldsLock
  <2>b. pool' = pool
    BY <1>13, ManageSkipEffect, Domains DEF StepInv
  <2>c. \A k \in DOMAIN pool : Awaits(c, k) /\ pool[k].state # "ready" => Awaits(c, k)'
    BY <1>13, <2>b, ManageSkipEffect, Domains, ClientTypes DEF StepInv, LoopInv,
       Awaits, InRun, ClientGoes
  <2>d. DOMAIN calls' = DOMAIN calls /\ \A n \in DOMAIN calls : calls'[n].outcome = calls[n].outcome
    BY <1>13, ManageSkipEffect, Domains DEF StepInv
  <2> QED
    BY <2>a, <2>b, <2>c, <2>d DEF StepInv, BusyInv, Busy
<1>14. ASSUME NEW c \in Clients, ManageRestart(c) PROVE BusyInv'
  <2>a. HoldsLock(c) /\ \A d \in Clients, k \in DOMAIN pool : Awaits(d, k) => d = c
    BY <1>14, ManageRestartEffect, AwaitsHolds, OneInside DEF StepInv, HoldsLock
  <2>b. DOMAIN pool' = DOMAIN pool /\ \A k \in DOMAIN pool : k # i[c] => pool'[k] = pool[k]
    BY <1>14, ManageRestartEffect, Domains DEF StepInv, ThreadBecomes
  <2>p. /\ ClientGoes(c, "manage", i[c] + 1) /\ call' = call /\ pc[c] = "manage" /\ i[c] \in 1 .. Len(pool)
        /\ \A k \in DOMAIN pool : k # i[c] => pool'[k].call = pool[k].call
        /\ DOMAIN pool = 1 .. Len(pool)
    BY <1>14, <2>b, ManageRestartEffect, Domains DEF StepInv
  <2>c. \A k \in DOMAIN pool : Awaits(c, k) /\ k # i[c] => Awaits(c, k)'
    BY <2>p DEF StepInv, LoopInv, Awaits, InRun, ClientGoes
  <2>d. DOMAIN calls' = DOMAIN calls /\ \A n \in DOMAIN calls : calls'[n].outcome = calls[n].outcome
    BY <1>14, ManageRestartEffect, Domains DEF StepInv
  <2>e. pool'[i[c]].state = "ready"
    BY <1>14, ManageRestartEffect DEF ThreadBecomes
  <2> QED
    BY <2>a, <2>b, <2>c, <2>d, <2>e DEF StepInv, BusyInv, Busy
<1>15. ASSUME NEW c \in Clients, ManageThrows(c) PROVE BusyInv'
  <2>a. HoldsLock(c) /\ \A d \in Clients, k \in DOMAIN pool : Awaits(d, k) => d = c
    BY <1>15, ManageThrowsEffect, AwaitsHolds, OneInside DEF StepInv, HoldsLock
  <2>b. DOMAIN pool' = DOMAIN pool /\ \A k \in DOMAIN pool : pool'[k].state = pool[k].state /\ pool'[k].call = pool[k].call
    BY <1>15, ManageThrowsEffect, Domains DEF StepInv
  <2>c. \A k \in DOMAIN pool : Awaits(c, k) => pool[k].call = call[c]
    BY <1>15, ManageThrowsEffect, Domains DEF StepInv, TypeOK, Awaits
  <2>d. /\ DOMAIN calls' = DOMAIN calls /\ calls'[call[c]].outcome = "threw"
        /\ \A n \in DOMAIN calls : n # call[c] => calls'[n] = calls[n]
    BY <1>15, ManageThrowsEffect, Domains DEF StepInv, CallEnds, CallBecomes
  <2> QED
    BY <2>a, <2>b, <2>c, <2>d DEF StepInv, BusyInv, Busy
<1>16. ASSUME NEW c \in Clients, ResizeLock(c) PROVE BusyInv'
  BY <1>16, ResizeLockEffect DEF StepInv, BusyInv, Busy, Awaits, InRun, ClientGoes
<1>17. ASSUME NEW c \in Clients, Shrink(c) PROVE BusyInv'
  <2>a. \A d \in Clients, k \in DOMAIN pool : ~Awaits(d, k)
    BY <1>17, ShrinkEffect, AwaitsHolds, OneInside DEF StepInv, HoldsLock
  <2>b. calls' = calls /\ \A k \in DOMAIN pool' : k \in DOMAIN pool /\ pool'[k] = pool[k]
    BY <1>17, ShrinkEffect, Domains DEF StepInv
  <2> QED
    BY <2>a, <2>b DEF StepInv, BusyInv, Busy
<1>18. ASSUME NEW c \in Clients, Grow(c) PROVE BusyInv'
  <2>a. \A d \in Clients, k \in DOMAIN pool : ~Awaits(d, k)
    BY <1>18, GrowEffect, AwaitsHolds, OneInside DEF StepInv, HoldsLock
  <2>b. calls' = calls /\ \A k \in DOMAIN pool' : pool'[k].state # "ready" => k \in DOMAIN pool /\ pool'[k] = pool[k]
    BY <1>18, GrowEffect, Domains DEF StepInv
  <2> QED
    BY <2>a, <2>b DEF StepInv, BusyInv, Busy
<1>19. ASSUME NEW c \in Clients, Resized(c) PROVE BusyInv'
  BY <1>19, ResizedEffect DEF StepInv, BusyInv, Busy, Awaits, InRun, ClientGoes
<1>20. ASSUME NEW k \in 1 .. Len(pool), Work(k) PROVE BusyInv'
  BY <1>20, WorkEffect DEF StepInv, BusyInv, Busy, Awaits, InRun, CallGains,
     CallBecomes
<1>21. ASSUME NEW k \in 1 .. Len(pool), WorkDone(k) PROVE BusyInv'
  <2>b. DOMAIN pool' = DOMAIN pool /\ \A m \in DOMAIN pool : m # k => pool'[m] = pool[m]
    BY <1>21, WorkDoneEffect, Domains DEF StepInv, ThreadBecomes
  <2>c. \A d \in Clients, m \in DOMAIN pool : m # k /\ Awaits(d, m) => Awaits(d, m)'
    BY <1>21, <2>b, WorkDoneEffect DEF Awaits, InRun
  <2>d. DOMAIN calls' = DOMAIN calls /\ \A n \in DOMAIN calls : calls'[n].outcome = calls[n].outcome
    BY <1>21, WorkDoneEffect, Domains DEF StepInv
  <2>e. pool'[k].state = "ready"
    BY <1>21, WorkDoneEffect, Domains DEF StepInv, ThreadBecomes
  <2> QED
    BY <2>b, <2>c, <2>d, <2>e DEF StepInv, BusyInv, Busy
<1>22. ASSUME NEW k \in 1 .. Len(pool), WorkThrows(k) PROVE BusyInv'
  <2>b. DOMAIN pool' = DOMAIN pool /\ \A m \in DOMAIN pool : m # k => pool'[m] = pool[m]
    BY <1>22, WorkThrowsEffect, Domains DEF StepInv, ThreadBecomes
  <2>c. \A d \in Clients, m \in DOMAIN pool : m # k /\ Awaits(d, m) => Awaits(d, m)'
    BY <1>22, <2>b, WorkThrowsEffect DEF Awaits, InRun
  <2>d. DOMAIN calls' = DOMAIN calls /\ \A n \in DOMAIN calls : calls'[n].outcome = calls[n].outcome
    BY <1>22, WorkThrowsEffect, Domains DEF StepInv, CallFails, CallBecomes
  <2>e. pool'[k].state = "crashed" /\ pool'[k].call = pool[k].call /\ pool[k].state = "working" /\ k \in DOMAIN pool
    BY <1>22, WorkThrowsEffect, Domains DEF StepInv, ThreadBecomes
  <2> QED
    BY <2>b, <2>c, <2>d, <2>e DEF StepInv, BusyInv, Busy
<1> QED
  BY <1>1, <1>2, <1>3, <1>4, <1>5, <1>6, <1>7, <1>8, <1>9, <1>10, <1>11, <1>12, <1>13,
     <1>14, <1>15, <1>16, <1>17, <1>18, <1>19, <1>20, <1>21, <1>22 DEF Next, RunStep,
     ResizeStep, WorkerStep

\* After every step a failure is known to the client of the call, or a thread it
\* awaits has crashed.  A crash is never overwritten: a crashed thread refuses the
\* next job.
LEMMA FailStep ==
  ASSUME StepInv, MutexInv, FailInv, Next
  PROVE  FailInv'
<1>1. ASSUME NEW c \in Clients, CallRun(c) PROVE FailInv'
  <2>a. pool' = pool /\ ClientGoes(c, "run", i[c]) /\ pc[c] = "idle"
    BY <1>1, CallRunEffect DEF StepInv
  <2>1. /\ DOMAIN calls' = 1 .. Len(calls) + 1
        /\ \A n \in 1 .. Len(calls) : calls'[n] = calls[n]
        /\ calls'[Len(calls) + 1].failed = FALSE
    BY <1>1, CallRunEffect
  <2>2. DOMAIN calls = 1 .. Len(calls) /\ Len(calls) \in Nat
    BY Domains DEF StepInv
  <2>b. \A n \in DOMAIN calls : n \in DOMAIN calls' /\ calls'[n] = calls[n]
    BY <2>1, <2>2
  <2>c. /\ DOMAIN calls' = DOMAIN calls \cup {Len(calls) + 1}
        /\ calls'[Len(calls) + 1].failed = FALSE
    BY <2>1, <2>2
  <2>d. call'[c] = Len(calls) + 1 /\ \A d \in Clients : d # c => call'[d] = call[d]
    <3>1. call \in [Clients -> 0 .. MaxCalls]
      BY ClientTypes DEF StepInv
    <3>2. call' = [call EXCEPT ![c] = Len(calls) + 1]
      BY <1>1 DEF CallRun
    <3> QED
      BY <3>1, <3>2
  <2>e. \A d \in Clients : d # c => /\ InRun(d)' => InRun(d)
                                    /\ pc'[d] = pc[d]
                                    /\ \A k \in DOMAIN pool : Awaits(d, k) => Awaits(d, k)'
    BY <2>a, <2>d DEF Awaits, InRun, ClientGoes
  <2>f. \A d \in Clients : InRun(d) => call[d] \in DOMAIN calls
    BY DEF StepInv, CallInv
  <2>g. pool' = pool
    BY <2>a
  <2> QED
    BY <2>b, <2>c, <2>d, <2>e, <2>f, <2>g DEF FailInv
<1>2. ASSUME NEW c \in Clients, CallResize(c) PROVE FailInv'
  BY <1>2, CallResizeEffect DEF StepInv, FailInv, Awaits, InRun, CallInv, ClientGoes
<1>3. ASSUME NEW c \in Clients, Lock(c) PROVE FailInv'
  BY <1>3, LockEffect DEF StepInv, FailInv, Awaits, InRun, CallInv, ClientGoes
<1>4. ASSUME NEW c \in Clients, Assign(c) PROVE FailInv'
  <2>a. HoldsLock(c) /\ \A d \in Clients, k \in DOMAIN pool : Awaits(d, k) => d = c
    BY <1>4, AssignEffect, AwaitsHolds, OneInside DEF StepInv, HoldsLock
  <2>o. \A d \in Clients : d # c /\ InRun(d) => ~calls[call[d]].failed /\ call[d] # call[c] /\ call[d] \in DOMAIN calls
    <3>1. \A d \in Clients : d # c /\ InRun(d) => pc[d] = "run"
      BY <2>a, OneInside DEF StepInv, HoldsLock, InRun
    <3>2. InRun(c)
      BY <1>4, AssignEffect DEF InRun
    <3> QED
      BY <2>a, <3>1, <3>2 DEF StepInv, FailInv, CallInv
  <2>b. DOMAIN pool' = DOMAIN pool /\ \A k \in DOMAIN pool : k # i[c] => pool'[k] = pool[k]
    BY <1>4, AssignEffect, Domains DEF StepInv, ThreadBecomes
  <2>p. /\ ClientGoes(c, "assign", i[c] + 1) /\ call' = call /\ pc[c] = "assign" /\ i[c] \in 1 .. Len(pool)
        /\ \A k \in DOMAIN pool : k # i[c] => pool'[k].call = pool[k].call
        /\ pool[i[c]].state = "ready" /\ DOMAIN pool = 1 .. Len(pool)
    BY <1>4, <2>b, AssignEffect, Domains DEF StepInv
  <2>c. \A k \in DOMAIN pool : Awaits(c, k) /\ pool[k].state # "ready" => Awaits(c, k)'
    BY <2>p DEF StepInv, LoopInv, Awaits, InRun, ClientGoes
  <2>e. call' = call /\ \A d \in Clients : d # c => (InRun(d)' => InRun(d))
    BY <1>4, AssignEffect DEF InRun, ClientGoes
  <2>d. DOMAIN calls' = DOMAIN calls /\ \A n \in DOMAIN calls :
          calls'[n].outcome = calls[n].outcome /\ calls'[n].failed = calls[n].failed
    BY <1>4, AssignEffect, Domains DEF StepInv
  <2>f. InRun(c) /\ pc[c] = "manage" => pc'[c] = "manage"
    BY <1>4, AssignEffect DEF ClientGoes
  <2>g. \A k \in DOMAIN pool : pool[k].state = "crashed" => k \in DOMAIN pool' /\ pool'[k].state = "crashed"
    BY <1>4, AssignEffect, <2>b
  <2>h. InRun(c) /\ call[c] \in DOMAIN calls
    BY <1>4, AssignEffect DEF StepInv, CallInv, InRun
  <2> QED
    BY <2>o, <2>c, <2>d, <2>e, <2>f, <2>g, <2>h DEF FailInv
<1>5. ASSUME NEW c \in Clients, AssignRefused(c) \/ ManageBuildFails(c) \/ ManageEscapes(c) PROVE FailInv'
  <2>a. HoldsLock(c) /\ \A d \in Clients, k \in DOMAIN pool : Awaits(d, k) => d = c
    BY <1>5, AbandonEffect, AwaitsHolds, OneInside DEF StepInv, HoldsLock
  <2>o. \A d \in Clients : d # c /\ InRun(d) => ~calls[call[d]].failed /\ call[d] # call[c] /\ call[d] \in DOMAIN calls
    <3>1. \A d \in Clients : d # c /\ InRun(d) => pc[d] = "run"
      BY <2>a, OneInside DEF StepInv, HoldsLock, InRun
    <3>2. InRun(c)
      BY <1>5, AbandonEffect DEF InRun
    <3> QED
      BY <2>a, <3>1, <3>2 DEF StepInv, FailInv, CallInv
  <2>d. DOMAIN calls' = DOMAIN calls /\ (\A n \in DOMAIN calls : n # call[c] => calls'[n] = calls[n])
        /\ calls'[call[c]].outcome = "threw"
    BY <1>5, AbandonEffect, Domains DEF StepInv, CallEnds, CallBecomes
  <2>e. call' = call /\ ~InRun(c)' /\ \A d \in Clients : d # c => (InRun(d)' => InRun(d))
    BY <1>5, AbandonEffect DEF InRun, ClientGoes
  <2> QED
    BY <2>o, <2>d, <2>e DEF FailInv
<1>6. ASSUME NEW c \in Clients, Assigned(c) PROVE FailInv'
  <2>a. HoldsLock(c) /\ \A d \in Clients, k \in DOMAIN pool : Awaits(d, k) => d = c
    BY <1>6, AssignedEffect, AwaitsHolds, OneInside DEF StepInv, HoldsLock
  <2>o. \A d \in Clients : d # c /\ InRun(d) => ~calls[call[d]].failed /\ call[d] # call[c] /\ call[d] \in DOMAIN calls
    <3>1. \A d \in Clients : d # c /\ InRun(d) => pc[d] = "run"
      BY <2>a, OneInside DEF StepInv, HoldsLock, InRun
    <3>2. InRun(c)
      BY <1>6, AssignedEffect DEF InRun
    <3> QED
      BY <2>a, <3>1, <3>2 DEF StepInv, FailInv, CallInv
  <2>b. pool' = pool
    BY <1>6, AssignedEffect, Domains DEF StepInv
  <2>c. \A k \in DOMAIN pool : Awaits(c, k) /\ pool[k].state # "ready" => Awaits(c, k)'
    BY <1>6, <2>b, AssignedEffect, Domains, ClientTypes DEF StepInv, LoopInv, Awaits,
       InRun, ClientGoes
  <2>e. call' = call /\ \A d \in Clients : d # c => (InRun(d)' => InRun(d))
    BY <1>6, AssignedEffect DEF InRun, ClientGoes
  <2>d. DOMAIN calls' = DOMAIN calls /\ \A n \in DOMAIN calls :
          calls'[n].outcome = calls[n].outcome /\ calls'[n].failed = calls[n].failed
    BY <1>6, AssignedEffect, Domains DEF StepInv
  <2>f. InRun(c) /\ pc[c] = "manage" => pc'[c] = "manage"
    BY <1>6, AssignedEffect DEF ClientGoes
  <2>g. \A k \in DOMAIN pool : pool[k].state = "crashed" => k \in DOMAIN pool' /\ pool'[k].state = "crashed"
    BY <1>6, AssignedEffect, <2>b
  <2>h. InRun(c) /\ call[c] \in DOMAIN calls
    BY <1>6, AssignedEffect DEF StepInv, CallInv, InRun
  <2> QED
    BY <2>o, <2>c, <2>d, <2>e, <2>f, <2>g, <2>h DEF FailInv
<1>7. ASSUME NEW c \in Clients, Main(c) PROVE FailInv'
  <2>a. HoldsLock(c) /\ \A d \in Clients, k \in DOMAIN pool : Awaits(d, k) => d = c
    BY <1>7, MainEffect, AwaitsHolds, OneInside DEF StepInv, HoldsLock
  <2>o. \A d \in Clients : d # c /\ InRun(d) => ~calls[call[d]].failed /\ call[d] # call[c] /\ call[d] \in DOMAIN calls
    <3>1. \A d \in Clients : d # c /\ InRun(d) => pc[d] = "run"
      BY <2>a, OneInside DEF StepInv, HoldsLock, InRun
    <3>2. InRun(c)
      BY <1>7, MainEffect DEF InRun
    <3> QED
      BY <2>a, <3>1, <3>2 DEF StepInv, FailInv, CallInv
  <2>b. pool' = pool
    BY <1>7, MainEffect, Domains DEF StepInv
  <2>c. \A k \in DOMAIN pool : Awaits(c, k) /\ pool[k].state # "ready" => Awaits(c, k)'
    BY <1>7, <2>b, MainEffect, Domains, ClientTypes DEF StepInv, LoopInv, Awaits,
       InRun
  <2>e. call' = call /\ \A d \in Clients : d # c => (InRun(d)' => InRun(d))
    BY <1>7, MainEffect DEF InRun
  <2>d. DOMAIN calls' = DOMAIN calls /\ \A n \in DOMAIN calls :
          calls'[n].outcome = calls[n].outcome /\ calls'[n].failed = calls[n].failed
    BY <1>7, MainEffect, Domains DEF StepInv, CallGains, CallBecomes
  <2>f. InRun(c) /\ pc[c] = "manage" => pc'[c] = "manage"
    BY <1>7, MainEffect
  <2>g. \A k \in DOMAIN pool : pool[k].state = "crashed" => k \in DOMAIN pool' /\ pool'[k].state = "crashed"
    BY <1>7, MainEffect, <2>b
  <2>h. InRun(c) /\ call[c] \in DOMAIN calls
    BY <1>7, MainEffect DEF StepInv, CallInv, InRun
  <2> QED
    BY <2>o, <2>c, <2>d, <2>e, <2>f, <2>g, <2>h DEF FailInv
<1>8. ASSUME NEW c \in Clients, MainDone(c) PROVE FailInv'
  <2>a. HoldsLock(c) /\ \A d \in Clients, k \in DOMAIN pool : Awaits(d, k) => d = c
    BY <1>8, MainDoneEffect, AwaitsHolds, OneInside DEF StepInv, HoldsLock
  <2>o. \A d \in Clients : d # c /\ InRun(d) => ~calls[call[d]].failed /\ call[d] # call[c] /\ call[d] \in DOMAIN calls
    <3>1. \A d \in Clients : d # c /\ InRun(d) => pc[d] = "run"
      BY <2>a, OneInside DEF StepInv, HoldsLock, InRun
    <3>2. InRun(c)
      BY <1>8, MainDoneEffect DEF InRun
    <3> QED
      BY <2>a, <3>1, <3>2 DEF StepInv, FailInv, CallInv
  <2>b. pool' = pool
    BY <1>8, MainDoneEffect, Domains DEF StepInv
  <2>c. \A k \in DOMAIN pool : Awaits(c, k) /\ pool[k].state # "ready" => Awaits(c, k)'
    BY <1>8, <2>b, MainDoneEffect, Domains, ClientTypes DEF StepInv, LoopInv, Awaits,
       InRun, ClientGoes
  <2>e. call' = call /\ \A d \in Clients : d # c => (InRun(d)' => InRun(d))
    BY <1>8, MainDoneEffect DEF InRun, ClientGoes
  <2>d. DOMAIN calls' = DOMAIN calls /\ \A n \in DOMAIN calls :
          calls'[n].outcome = calls[n].outcome /\ calls'[n].failed = calls[n].failed
    BY <1>8, MainDoneEffect, Domains DEF StepInv
  <2>f. InRun(c) /\ pc[c] = "manage" => pc'[c] = "manage"
    BY <1>8, MainDoneEffect DEF ClientGoes
  <2>g. \A k \in DOMAIN pool : pool[k].state = "crashed" => k \in DOMAIN pool' /\ pool'[k].state = "crashed"
    BY <1>8, MainDoneEffect, <2>b
  <2>h. InRun(c) /\ call[c] \in DOMAIN calls
    BY <1>8, MainDoneEffect DEF StepInv, CallInv, InRun
  <2> QED
    BY <2>o, <2>c, <2>d, <2>e, <2>f, <2>g, <2>h DEF FailInv
<1>9. ASSUME NEW c \in Clients, MainThrows(c) PROVE FailInv'
  <2>a. HoldsLock(c) /\ \A d \in Clients, k \in DOMAIN pool : Awaits(d, k) => d = c
    BY <1>9, MainThrowsEffect, AwaitsHolds, OneInside DEF StepInv, HoldsLock
  <2>o. \A d \in Clients : d # c /\ InRun(d) => ~calls[call[d]].failed /\ call[d] # call[c] /\ call[d] \in DOMAIN calls
    <3>1. \A d \in Clients : d # c /\ InRun(d) => pc[d] = "run"
      BY <2>a, OneInside DEF StepInv, HoldsLock, InRun
    <3>2. InRun(c)
      BY <1>9, MainThrowsEffect DEF InRun
    <3> QED
      BY <2>a, <3>1, <3>2 DEF StepInv, FailInv, CallInv
  <2>b. pool' = pool
    BY <1>9, MainThrowsEffect, Domains DEF StepInv
  <2>c. \A k \in DOMAIN pool : Awaits(c, k) /\ pool[k].state # "ready" => Awaits(c, k)'
    BY <1>9, <2>b, MainThrowsEffect, Domains, ClientTypes DEF StepInv, LoopInv,
       Awaits, InRun, ClientGoes
  <2>e. call' = call /\ \A d \in Clients : d # c => (InRun(d)' => InRun(d))
    BY <1>9, MainThrowsEffect DEF InRun, ClientGoes
  <2>d. DOMAIN calls' = DOMAIN calls /\ (\A n \in DOMAIN calls : n # call[c] => calls'[n] = calls[n])
        /\ calls'[call[c]].outcome = calls[call[c]].outcome
    BY <1>9, MainThrowsEffect, Domains DEF StepInv, CallFails, CallBecomes
  <2>f. calls[call[c]].outcome = "running" /\ pc'[c] = "manage"
    BY <1>9, MainThrowsEffect DEF StepInv, CallInv, InRun, Running, ClientGoes
  <2> QED
    BY <2>o, <2>d, <2>e, <2>f DEF FailInv
<1>10. ASSUME NEW c \in Clients, MainThrowsOther(c) PROVE FailInv'
  <2>a. HoldsLock(c) /\ \A d \in Clients, k \in DOMAIN pool : Awaits(d, k) => d = c
    BY <1>10, MainThrowsOtherEffect, AwaitsHolds, OneInside DEF StepInv, HoldsLock
  <2>o. \A d \in Clients : d # c /\ InRun(d) => ~calls[call[d]].failed /\ call[d] # call[c] /\ call[d] \in DOMAIN calls
    <3>1. \A d \in Clients : d # c /\ InRun(d) => pc[d] = "run"
      BY <2>a, OneInside DEF StepInv, HoldsLock, InRun
    <3>2. InRun(c)
      BY <1>10, MainThrowsOtherEffect DEF InRun
    <3> QED
      BY <2>a, <3>1, <3>2 DEF StepInv, FailInv, CallInv
  <2>d. DOMAIN calls' = DOMAIN calls /\ (\A n \in DOMAIN calls : n # call[c] => calls'[n] = calls[n])
        /\ calls'[call[c]].outcome = "threw"
    BY <1>10, MainThrowsOtherEffect, Domains DEF StepInv, CallFails, CallBecomes
  <2>e. call' = call /\ ~InRun(c)' /\ \A d \in Clients : d # c => (InRun(d)' => InRun(d))
    BY <1>10, MainThrowsOtherEffect DEF InRun, ClientGoes
  <2> QED
    BY <2>o, <2>d, <2>e DEF FailInv
<1>11. ASSUME NEW c \in Clients, Wait(c) PROVE FailInv'
  <2>a. HoldsLock(c) /\ \A d \in Clients, k \in DOMAIN pool : Awaits(d, k) => d = c
    BY <1>11, WaitEffect, AwaitsHolds, OneInside DEF StepInv, HoldsLock
  <2>o. \A d \in Clients : d # c /\ InRun(d) => ~calls[call[d]].failed /\ call[d] # call[c] /\ call[d] \in DOMAIN calls
    <3>1. \A d \in Clients : d # c /\ InRun(d) => pc[d] = "run"
      BY <2>a, OneInside DEF StepInv, HoldsLock, InRun
    <3>2. InRun(c)
      BY <1>11, WaitEffect DEF InRun
    <3> QED
      BY <2>a, <3>1, <3>2 DEF StepInv, FailInv, CallInv
  <2>b. pool' = pool
    BY <1>11, WaitEffect, Domains DEF StepInv
  <2>c. \A k \in DOMAIN pool : Awaits(c, k) /\ pool[k].state # "ready" => Awaits(c, k)'
    BY <1>11, <2>b, WaitEffect, Domains, ClientTypes DEF StepInv, LoopInv, Awaits,
       InRun, ClientGoes
  <2>e. call' = call /\ \A d \in Clients : d # c => (InRun(d)' => InRun(d))
    BY <1>11, WaitEffect DEF InRun, ClientGoes
  <2>d. DOMAIN calls' = DOMAIN calls /\ \A n \in DOMAIN calls :
          calls'[n].outcome = calls[n].outcome /\ calls'[n].failed = calls[n].failed
    BY <1>11, WaitEffect, Domains DEF StepInv
  <2>f. InRun(c) /\ pc[c] = "manage" => pc'[c] = "manage"
    BY <1>11, WaitEffect DEF ClientGoes
  <2>g. \A k \in DOMAIN pool : pool[k].state = "crashed" => k \in DOMAIN pool' /\ pool'[k].state = "crashed"
    BY <1>11, WaitEffect, <2>b
  <2>h. InRun(c) /\ call[c] \in DOMAIN calls
    BY <1>11, WaitEffect DEF StepInv, CallInv, InRun
  <2> QED
    BY <2>o, <2>c, <2>d, <2>e, <2>f, <2>g, <2>h DEF FailInv
<1>12. ASSUME NEW c \in Clients, Return(c) PROVE FailInv'
  <2>a. HoldsLock(c) /\ \A d \in Clients, k \in DOMAIN pool : Awaits(d, k) => d = c
    BY <1>12, ReturnEffect, AwaitsHolds, OneInside DEF StepInv, HoldsLock
  <2>o. \A d \in Clients : d # c /\ InRun(d) => ~calls[call[d]].failed /\ call[d] # call[c] /\ call[d] \in DOMAIN calls
    <3>1. \A d \in Clients : d # c /\ InRun(d) => pc[d] = "run"
      BY <2>a, OneInside DEF StepInv, HoldsLock, InRun
    <3>2. InRun(c)
      BY <1>12, ReturnEffect DEF InRun
    <3> QED
      BY <2>a, <3>1, <3>2 DEF StepInv, FailInv, CallInv
  <2>d. DOMAIN calls' = DOMAIN calls /\ (\A n \in DOMAIN calls : n # call[c] => calls'[n] = calls[n])
        /\ calls'[call[c]].outcome = "ok"
    BY <1>12, ReturnEffect, Domains DEF StepInv, CallEnds, CallBecomes
  <2>e. call' = call /\ ~InRun(c)' /\ \A d \in Clients : d # c => (InRun(d)' => InRun(d))
    BY <1>12, ReturnEffect DEF InRun, ClientGoes
  <2>f. \A k \in DOMAIN pool : ~Awaits(c, k)
    BY <1>12, ReturnEffect, Domains, ClientTypes DEF StepInv, Awaits
  <2>g. ~calls[call[c]].failed
    BY <1>12, ReturnEffect, <2>f DEF FailInv, InRun
  <2>h. calls'[call[c]].failed = calls[call[c]].failed
    BY <1>12, ReturnEffect DEF CallEnds, CallBecomes
  <2> QED
    BY <2>o, <2>d, <2>e, <2>g, <2>h DEF FailInv
<1>13. ASSUME NEW c \in Clients, ManageSkip(c) PROVE FailInv'
  <2>a. HoldsLock(c) /\ \A d \in Clients, k \in DOMAIN pool : Awaits(d, k) => d = c
    BY <1>13, ManageSkipEffect, AwaitsHolds, OneInside DEF StepInv, HoldsLock
  <2>o. \A d \in Clients : d # c /\ InRun(d) => ~calls[call[d]].failed /\ call[d] # call[c] /\ call[d] \in DOMAIN calls
    <3>1. \A d \in Clients : d # c /\ InRun(d) => pc[d] = "run"
      BY <2>a, OneInside DEF StepInv, HoldsLock, InRun
    <3>2. InRun(c)
      BY <1>13, ManageSkipEffect DEF InRun
    <3> QED
      BY <2>a, <3>1, <3>2 DEF StepInv, FailInv, CallInv
  <2>b. pool' = pool
    BY <1>13, ManageSkipEffect, Domains DEF StepInv
  <2>c. \A k \in DOMAIN pool : Awaits(c, k) /\ pool[k].state # "ready" => Awaits(c, k)'
    BY <1>13, <2>b, ManageSkipEffect, Domains, ClientTypes DEF StepInv, LoopInv,
       Awaits, InRun, ClientGoes
  <2>e. call' = call /\ \A d \in Clients : d # c => (InRun(d)' => InRun(d))
    BY <1>13, ManageSkipEffect DEF InRun, ClientGoes
  <2>d. DOMAIN calls' = DOMAIN calls /\ \A n \in DOMAIN calls :
          calls'[n].outcome = calls[n].outcome /\ calls'[n].failed = calls[n].failed
    BY <1>13, ManageSkipEffect, Domains DEF StepInv
  <2>f. InRun(c) /\ pc[c] = "manage" => pc'[c] = "manage"
    BY <1>13, ManageSkipEffect DEF ClientGoes
  <2>g. \A k \in DOMAIN pool : pool[k].state = "crashed" => k \in DOMAIN pool' /\ pool'[k].state = "crashed"
    BY <1>13, ManageSkipEffect, <2>b
  <2>h. InRun(c) /\ call[c] \in DOMAIN calls
    BY <1>13, ManageSkipEffect DEF StepInv, CallInv, InRun
  <2> QED
    BY <2>o, <2>c, <2>d, <2>e, <2>f, <2>g, <2>h DEF FailInv
<1>14. ASSUME NEW c \in Clients, ManageRestart(c) PROVE FailInv'
  <2>a. HoldsLock(c) /\ \A d \in Clients, k \in DOMAIN pool : Awaits(d, k) => d = c
    BY <1>14, ManageRestartEffect, AwaitsHolds, OneInside DEF StepInv, HoldsLock
  <2>o. \A d \in Clients : d # c /\ InRun(d) => ~calls[call[d]].failed /\ call[d] # call[c] /\ call[d] \in DOMAIN calls
    <3>1. \A d \in Clients : d # c /\ InRun(d) => pc[d] = "run"
      BY <2>a, OneInside DEF StepInv, HoldsLock, InRun
    <3>2. InRun(c)
      BY <1>14, ManageRestartEffect DEF InRun
    <3> QED
      BY <2>a, <3>1, <3>2 DEF StepInv, FailInv, CallInv
  <2>b. DOMAIN pool' = DOMAIN pool /\ \A k \in DOMAIN pool : k # i[c] => pool'[k] = pool[k]
    BY <1>14, ManageRestartEffect, Domains DEF StepInv, ThreadBecomes
  <2>p. /\ ClientGoes(c, "manage", i[c] + 1) /\ call' = call /\ pc[c] = "manage" /\ i[c] \in 1 .. Len(pool)
        /\ \A k \in DOMAIN pool : k # i[c] => pool'[k].call = pool[k].call
        /\ DOMAIN pool = 1 .. Len(pool)
    BY <1>14, <2>b, ManageRestartEffect, Domains DEF StepInv
  <2>c. \A k \in DOMAIN pool : Awaits(c, k) /\ k # i[c] => Awaits(c, k)'
    BY <2>p DEF StepInv, LoopInv, Awaits, InRun, ClientGoes
  <2>e. call' = call /\ \A d \in Clients : d # c => (InRun(d)' => InRun(d))
    BY <1>14, ManageRestartEffect DEF InRun, ClientGoes
  <2>d. DOMAIN calls' = DOMAIN calls /\ \A n \in DOMAIN calls :
          calls'[n].outcome = calls[n].outcome /\ calls'[n].failed = calls[n].failed
    BY <1>14, ManageRestartEffect, Domains DEF StepInv
  <2>f. pc'[c] = "manage"
    BY <1>14, ManageRestartEffect DEF ClientGoes
  <2> QED
    BY <2>o, <2>d, <2>e, <2>f DEF FailInv
<1>15. ASSUME NEW c \in Clients, ManageThrows(c) PROVE FailInv'
  <2>a. HoldsLock(c) /\ \A d \in Clients, k \in DOMAIN pool : Awaits(d, k) => d = c
    BY <1>15, ManageThrowsEffect, AwaitsHolds, OneInside DEF StepInv, HoldsLock
  <2>o. \A d \in Clients : d # c /\ InRun(d) => ~calls[call[d]].failed /\ call[d] # call[c] /\ call[d] \in DOMAIN calls
    <3>1. \A d \in Clients : d # c /\ InRun(d) => pc[d] = "run"
      BY <2>a, OneInside DEF StepInv, HoldsLock, InRun
    <3>2. InRun(c)
      BY <1>15, ManageThrowsEffect DEF InRun
    <3> QED
      BY <2>a, <3>1, <3>2 DEF StepInv, FailInv, CallInv
  <2>d. DOMAIN calls' = DOMAIN calls /\ (\A n \in DOMAIN calls : n # call[c] => calls'[n] = calls[n])
        /\ calls'[call[c]].outcome = "threw"
    BY <1>15, ManageThrowsEffect, Domains DEF StepInv, CallEnds, CallBecomes
  <2>e. call' = call /\ ~InRun(c)' /\ \A d \in Clients : d # c => (InRun(d)' => InRun(d))
    BY <1>15, ManageThrowsEffect DEF InRun, ClientGoes
  <2> QED
    BY <2>o, <2>d, <2>e DEF FailInv
<1>16. ASSUME NEW c \in Clients, ResizeLock(c) PROVE FailInv'
  BY <1>16, ResizeLockEffect DEF StepInv, FailInv, Awaits, InRun, CallInv, ClientGoes
<1>17. ASSUME NEW c \in Clients, Shrink(c) PROVE FailInv'
  <2>a. \A d \in Clients, k \in DOMAIN pool : ~Awaits(d, k)
    BY <1>17, ShrinkEffect, AwaitsHolds, OneInside DEF StepInv, HoldsLock
  <2>o. \A d \in Clients : InRun(d) => ~calls[call[d]].failed
    <3>1. \A d \in Clients : InRun(d) => pc[d] = "run"
      BY <1>17, ShrinkEffect, OneInside DEF StepInv, HoldsLock, InRun
    <3> QED
      BY <2>a, <3>1 DEF StepInv, FailInv
  <2>b. calls' = calls /\ call' = call /\ pc' = pc
    BY <1>17, ShrinkEffect
  <2> QED
    BY <2>o, <2>b DEF FailInv, InRun
<1>18. ASSUME NEW c \in Clients, Grow(c) PROVE FailInv'
  <2>a. \A d \in Clients, k \in DOMAIN pool : ~Awaits(d, k)
    BY <1>18, GrowEffect, AwaitsHolds, OneInside DEF StepInv, HoldsLock
  <2>o. \A d \in Clients : InRun(d) => ~calls[call[d]].failed
    <3>1. \A d \in Clients : InRun(d) => pc[d] = "run"
      BY <1>18, GrowEffect, OneInside DEF StepInv, HoldsLock, InRun
    <3> QED
      BY <2>a, <3>1 DEF StepInv, FailInv
  <2>b. calls' = calls /\ call' = call /\ pc' = pc
    BY <1>18, GrowEffect
  <2> QED
    BY <2>o, <2>b DEF FailInv, InRun
<1>19. ASSUME NEW c \in Clients, Resized(c) PROVE FailInv'
  BY <1>19, ResizedEffect DEF StepInv, FailInv, Awaits, InRun, CallInv, ClientGoes
<1>20. ASSUME NEW k \in 1 .. Len(pool), Work(k) PROVE FailInv'
  BY <1>20, WorkEffect DEF StepInv, FailInv, Awaits, InRun, CallInv, CallGains,
     CallBecomes
<1>21. ASSUME NEW k \in 1 .. Len(pool), WorkDone(k) PROVE FailInv'
  <2>b. DOMAIN pool' = DOMAIN pool /\ \A m \in DOMAIN pool : m # k => pool'[m] = pool[m]
    BY <1>21, WorkDoneEffect, Domains DEF StepInv, ThreadBecomes
  <2>c. \A d \in Clients, m \in DOMAIN pool : m # k /\ Awaits(d, m) => Awaits(d, m)'
    BY <1>21, <2>b, WorkDoneEffect DEF Awaits, InRun
  <2>d. pc' = pc /\ call' = call /\ pool[k].state = "working" /\ k \in DOMAIN pool
    BY <1>21, WorkDoneEffect, Domains DEF StepInv
  <2>e. calls' = calls
    BY <1>21, WorkDoneEffect
  <2> QED
    BY <2>b, <2>c, <2>d, <2>e DEF FailInv, InRun
<1>22. ASSUME NEW k \in 1 .. Len(pool), WorkThrows(k) PROVE FailInv'
  <2>b. DOMAIN pool' = DOMAIN pool /\ \A m \in DOMAIN pool : m # k => pool'[m] = pool[m]
    BY <1>22, WorkThrowsEffect, Domains DEF StepInv, ThreadBecomes
  <2>c. \A d \in Clients, m \in DOMAIN pool : m # k /\ Awaits(d, m) => Awaits(d, m)'
    BY <1>22, <2>b, WorkThrowsEffect DEF Awaits, InRun
  <2>d. pc' = pc /\ call' = call /\ pool[k].state = "working" /\ k \in DOMAIN pool
    BY <1>22, WorkThrowsEffect, Domains DEF StepInv
  <2>e. DOMAIN calls' = DOMAIN calls /\ (\A n \in DOMAIN calls : n # pool[k].call => calls'[n] = calls[n])
        /\ \A n \in DOMAIN calls : calls'[n].outcome = calls[n].outcome
    BY <1>22, WorkThrowsEffect, Domains DEF StepInv, CallFails, CallBecomes
  <2>f. pool'[k].state = "crashed" /\ pool'[k].call = pool[k].call
    BY <1>22, WorkThrowsEffect DEF ThreadBecomes
  <2>g. \A d \in Clients : InRun(d) /\ call[d] = pool[k].call => Awaits(d, k)
    <3>1. pool[k].call \in DOMAIN calls
          /\ (calls[pool[k].call].outcome = "threw" \/ \E d \in Clients : Awaits(d, k))
      BY <2>d DEF StepInv, BusyInv, Busy
    <3> QED
      BY <3>1 DEF StepInv, CallInv, Running, Awaits
  <2>h. \A d \in Clients : Awaits(d, k) => Awaits(d, k)'
    BY <1>22, <2>f, WorkThrowsEffect DEF Awaits, InRun
  <2>i. \A n \in DOMAIN calls : n = pool[k].call => calls[n].outcome # "ok"
    BY <2>d DEF StepInv, BusyInv, Busy, CallInv, Awaits, Running
  <2>j. \A d \in Clients : InRun(d) => call[d] \in DOMAIN calls
    BY DEF StepInv, CallInv
  <2> QED
    BY <2>b, <2>c, <2>d, <2>e, <2>f, <2>g, <2>h, <2>i, <2>j DEF FailInv, InRun
<1> QED
  BY <1>1, <1>2, <1>3, <1>4, <1>5, <1>6, <1>7, <1>8, <1>9, <1>10, <1>11, <1>12, <1>13,
     <1>14, <1>15, <1>16, <1>17, <1>18, <1>19, <1>20, <1>21, <1>22 DEF Next, RunStep,
     ResizeStep, WorkerStep

\* If every exception can be recovered from, every step leaves a thread that is not
\* ready to a client that awaits it.
LEMMA SettledStep ==
  ASSUME StepInv, MutexInv, Recoverable, SettledInv, Next
  PROVE  SettledInv'
<1>1. ASSUME NEW c \in Clients, CallRun(c) PROVE SettledInv'
  <2>a. pool' = pool /\ ClientGoes(c, "run", i[c]) /\ pc[c] = "idle"
    BY <1>1, CallRunEffect DEF StepInv
  <2>1. /\ DOMAIN calls' = 1 .. Len(calls) + 1
        /\ \A n \in 1 .. Len(calls) : calls'[n] = calls[n]
        /\ calls'[Len(calls) + 1].outcome = "running"
    BY <1>1, CallRunEffect
  <2>2. DOMAIN calls = 1 .. Len(calls) /\ Len(calls) \in Nat
    BY Domains DEF StepInv
  <2>b. \A n \in DOMAIN calls : n \in DOMAIN calls' /\ calls'[n] = calls[n]
    BY <2>1, <2>2
  <2>c. DOMAIN calls' = DOMAIN calls \cup {Len(calls) + 1} /\ calls'[Len(calls) + 1].outcome = "running"
    BY <2>1, <2>2
  <2>d. \A d \in Clients : d # c => call'[d] = call[d]
    <3>1. call \in [Clients -> 0 .. MaxCalls]
      BY ClientTypes DEF StepInv
    <3>2. call' = [call EXCEPT ![c] = Len(calls) + 1]
      BY <1>1 DEF CallRun
    <3> QED
      BY <3>1, <3>2
  <2>e. pc'[c] = "run" /\ \A d \in Clients : pc'[d] = "manage" => d # c /\ pc[d] = "manage"
    BY <2>a DEF ClientGoes
  <2>f. \A d \in Clients, k \in DOMAIN pool : Awaits(d, k) => Awaits(d, k)'
    <3>1. \A d \in Clients, k \in DOMAIN pool : Awaits(d, k) => d # c
      BY <2>a DEF Awaits, InRun
    <3> QED
      BY <2>a, <2>d, <3>1 DEF Awaits, InRun, ClientGoes
  <2>g. \A d \in Clients : pc[d] = "manage" => call[d] \in DOMAIN calls
    BY DEF StepInv, CallInv, InRun
  <2>h. pool' = pool
    BY <2>a
  <2>j. \A k \in DOMAIN pool : pool[k].state # "ready" => pool[k].call \in DOMAIN calls
    BY DEF StepInv, BusyInv
  <2> QED
    BY <2>b, <2>c, <2>d, <2>e, <2>f, <2>g, <2>h, <2>j DEF SettledInv, Reportable
<1>2. ASSUME NEW c \in Clients, CallResize(c) PROVE SettledInv'
  BY <1>2, CallResizeEffect DEF StepInv, SettledInv, Awaits, InRun, Reportable,
     CallInv, ClientGoes
<1>3. ASSUME NEW c \in Clients, Lock(c) PROVE SettledInv'
  BY <1>3, LockEffect DEF StepInv, SettledInv, Awaits, InRun, Reportable, CallInv,
     ClientGoes
<1>4. ASSUME NEW c \in Clients, Assign(c) PROVE SettledInv'
  <2>a. HoldsLock(c) /\ \A d \in Clients, k \in DOMAIN pool : Awaits(d, k) => d = c
    BY <1>4, AssignEffect, AwaitsHolds, OneInside DEF StepInv, HoldsLock
  <2>b. DOMAIN pool' = DOMAIN pool /\ \A k \in DOMAIN pool : k # i[c] => pool'[k] = pool[k]
    BY <1>4, AssignEffect, Domains DEF StepInv, ThreadBecomes
  <2>p. /\ ClientGoes(c, "assign", i[c] + 1) /\ call' = call /\ pc[c] = "assign" /\ i[c] \in 1 .. Len(pool)
        /\ \A k \in DOMAIN pool : k # i[c] => pool'[k].call = pool[k].call
        /\ pool[i[c]].state = "ready" /\ DOMAIN pool = 1 .. Len(pool)
    BY <1>4, <2>b, AssignEffect, Domains DEF StepInv
  <2>c. \A k \in DOMAIN pool : Awaits(c, k) /\ pool[k].state # "ready" => Awaits(c, k)'
    BY <2>p DEF StepInv, LoopInv, Awaits, InRun, ClientGoes
  <2>d. DOMAIN calls' = DOMAIN calls /\ (\A n \in DOMAIN calls : calls[n].failed => calls'[n].failed)
        /\ \A n \in DOMAIN calls : calls'[n].outcome = calls[n].outcome
    BY <1>4, AssignEffect, Domains DEF StepInv
  <2>e. call' = call /\ \A d \in Clients : d # c => pc'[d] = pc[d]
    BY <1>4, AssignEffect DEF ClientGoes
  <2>h. (\A d \in Clients : pc[d] = "manage" => call[d] \in DOMAIN calls) /\ call[c] \in DOMAIN calls
    BY <1>4, AssignEffect DEF StepInv, CallInv, InRun
  <2>j. \A k \in DOMAIN pool : pool[k].state # "ready" => pool[k].call \in DOMAIN calls
    BY DEF StepInv, BusyInv
  <2>f. \A k : k = i[c] => Awaits(c, k)'
    <3>1. pool'[i[c]].call = call[c]
      BY <1>4, AssignEffect DEF ThreadBecomes
    <3> QED
      BY <3>1, <2>p, ClientTypes DEF StepInv, Awaits, InRun, ClientGoes
  <2>g. i[c] \in DOMAIN pool /\ pool'[i[c]].state = "working" /\ pool'[i[c]].valid = pool[i[c]].valid
        /\ pool'[i[c]].exception = pool[i[c]].exception /\ pc'[c] = "assign"
    BY <1>4, <2>p, AssignEffect DEF ThreadBecomes, ClientGoes
  <2> QED
    BY <2>a, <2>b, <2>c, <2>d, <2>e, <2>f, <2>g, <2>h, <2>j DEF SettledInv, Reportable
<1>5. ASSUME NEW c \in Clients, AssignRefused(c) \/ ManageBuildFails(c) \/ ManageEscapes(c) PROVE SettledInv'
  <2>a. HoldsLock(c) /\ \A d \in Clients, k \in DOMAIN pool : Awaits(d, k) => d = c
    BY <1>5, AbandonEffect, AwaitsHolds, OneInside DEF StepInv, HoldsLock
  <2>b. i[c] \in DOMAIN pool /\ pool[i[c]].state = "crashed"
    BY <1>5, AbandonEffect, Domains DEF StepInv
  <2>c. Awaits(c, i[c]) /\ Reportable(i[c])
    BY <2>a, <2>b DEF SettledInv
  <2>d. pc[c] # "assign"
    BY <2>c, ClientTypes DEF StepInv, Awaits
  <2>e. pc[c] = "manage" /\ (BuilderFails \/ ~Reportable(i[c]))
    BY <1>5, <2>d, AbandonEffect
  <2> QED
    BY <2>c, <2>e DEF Recoverable
<1>6. ASSUME NEW c \in Clients, Assigned(c) PROVE SettledInv'
  <2>a. HoldsLock(c) /\ \A d \in Clients, k \in DOMAIN pool : Awaits(d, k) => d = c
    BY <1>6, AssignedEffect, AwaitsHolds, OneInside DEF StepInv, HoldsLock
  <2>b. pool' = pool
    BY <1>6, AssignedEffect, Domains DEF StepInv
  <2>c. \A k \in DOMAIN pool : Awaits(c, k) /\ pool[k].state # "ready" => Awaits(c, k)'
    BY <1>6, <2>b, AssignedEffect, Domains, ClientTypes DEF StepInv, LoopInv, Awaits,
       InRun, ClientGoes
  <2>d. DOMAIN calls' = DOMAIN calls /\ (\A n \in DOMAIN calls : calls[n].failed => calls'[n].failed)
        /\ \A n \in DOMAIN calls : calls'[n].outcome = calls[n].outcome
    BY <1>6, AssignedEffect, Domains DEF StepInv
  <2>e. call' = call /\ \A d \in Clients : d # c => pc'[d] = pc[d]
    BY <1>6, AssignedEffect DEF ClientGoes
  <2>h. (\A d \in Clients : pc[d] = "manage" => call[d] \in DOMAIN calls) /\ call[c] \in DOMAIN calls
    BY <1>6, AssignedEffect DEF StepInv, CallInv, InRun
  <2>j. \A k \in DOMAIN pool : pool[k].state # "ready" => pool[k].call \in DOMAIN calls
    BY DEF StepInv, BusyInv
  <2>g. pc'[c] = "manage" => pc[c] = "manage"
    BY <1>6, AssignedEffect DEF ClientGoes
  <2> QED
    BY <2>a, <2>b, <2>c, <2>d, <2>e, <2>g, <2>h, <2>j DEF SettledInv, Reportable
<1>7. ASSUME NEW c \in Clients, Main(c) PROVE SettledInv'
  <2>a. HoldsLock(c) /\ \A d \in Clients, k \in DOMAIN pool : Awaits(d, k) => d = c
    BY <1>7, MainEffect, AwaitsHolds, OneInside DEF StepInv, HoldsLock
  <2>b. pool' = pool
    BY <1>7, MainEffect, Domains DEF StepInv
  <2>c. \A k \in DOMAIN pool : Awaits(c, k) /\ pool[k].state # "ready" => Awaits(c, k)'
    BY <1>7, <2>b, MainEffect, Domains, ClientTypes DEF StepInv, LoopInv, Awaits,
       InRun
  <2>d. DOMAIN calls' = DOMAIN calls /\ (\A n \in DOMAIN calls : calls[n].failed => calls'[n].failed)
        /\ \A n \in DOMAIN calls : calls'[n].outcome = calls[n].outcome
    BY <1>7, MainEffect, Domains DEF StepInv, CallGains, CallBecomes
  <2>e. call' = call /\ \A d \in Clients : d # c => pc'[d] = pc[d]
    BY <1>7, MainEffect
  <2>h. (\A d \in Clients : pc[d] = "manage" => call[d] \in DOMAIN calls) /\ call[c] \in DOMAIN calls
    BY <1>7, MainEffect DEF StepInv, CallInv, InRun
  <2>j. \A k \in DOMAIN pool : pool[k].state # "ready" => pool[k].call \in DOMAIN calls
    BY DEF StepInv, BusyInv
  <2>g. pc'[c] = "manage" => pc[c] = "manage"
    BY <1>7, MainEffect
  <2> QED
    BY <2>a, <2>b, <2>c, <2>d, <2>e, <2>g, <2>h, <2>j DEF SettledInv, Reportable
<1>8. ASSUME NEW c \in Clients, MainDone(c) PROVE SettledInv'
  <2>a. HoldsLock(c) /\ \A d \in Clients, k \in DOMAIN pool : Awaits(d, k) => d = c
    BY <1>8, MainDoneEffect, AwaitsHolds, OneInside DEF StepInv, HoldsLock
  <2>b. pool' = pool
    BY <1>8, MainDoneEffect, Domains DEF StepInv
  <2>c. \A k \in DOMAIN pool : Awaits(c, k) /\ pool[k].state # "ready" => Awaits(c, k)'
    BY <1>8, <2>b, MainDoneEffect, Domains, ClientTypes DEF StepInv, LoopInv, Awaits,
       InRun, ClientGoes
  <2>d. DOMAIN calls' = DOMAIN calls /\ (\A n \in DOMAIN calls : calls[n].failed => calls'[n].failed)
        /\ \A n \in DOMAIN calls : calls'[n].outcome = calls[n].outcome
    BY <1>8, MainDoneEffect, Domains DEF StepInv
  <2>e. call' = call /\ \A d \in Clients : d # c => pc'[d] = pc[d]
    BY <1>8, MainDoneEffect DEF ClientGoes
  <2>h. (\A d \in Clients : pc[d] = "manage" => call[d] \in DOMAIN calls) /\ call[c] \in DOMAIN calls
    BY <1>8, MainDoneEffect DEF StepInv, CallInv, InRun
  <2>j. \A k \in DOMAIN pool : pool[k].state # "ready" => pool[k].call \in DOMAIN calls
    BY DEF StepInv, BusyInv
  <2>g. pc'[c] = "manage" => pc[c] = "manage"
    BY <1>8, MainDoneEffect DEF ClientGoes
  <2> QED
    BY <2>a, <2>b, <2>c, <2>d, <2>e, <2>g, <2>h, <2>j DEF SettledInv, Reportable
<1>9. ASSUME NEW c \in Clients, MainThrows(c) PROVE SettledInv'
  <2>a. HoldsLock(c) /\ \A d \in Clients, k \in DOMAIN pool : Awaits(d, k) => d = c
    BY <1>9, MainThrowsEffect, AwaitsHolds, OneInside DEF StepInv, HoldsLock
  <2>b. pool' = pool
    BY <1>9, MainThrowsEffect, Domains DEF StepInv
  <2>c. \A k \in DOMAIN pool : Awaits(c, k) /\ pool[k].state # "ready" => Awaits(c, k)'
    BY <1>9, <2>b, MainThrowsEffect, Domains, ClientTypes DEF StepInv, LoopInv,
       Awaits, InRun, ClientGoes
  <2>d. DOMAIN calls' = DOMAIN calls /\ (\A n \in DOMAIN calls : calls[n].failed => calls'[n].failed)
        /\ \A n \in DOMAIN calls : calls'[n].outcome = calls[n].outcome
    BY <1>9, MainThrowsEffect, Domains DEF StepInv, CallFails, CallBecomes
  <2>e. call' = call /\ \A d \in Clients : d # c => pc'[d] = pc[d]
    BY <1>9, MainThrowsEffect DEF ClientGoes
  <2>h. (\A d \in Clients : pc[d] = "manage" => call[d] \in DOMAIN calls) /\ call[c] \in DOMAIN calls
    BY <1>9, MainThrowsEffect DEF StepInv, CallInv, InRun
  <2>j. \A k \in DOMAIN pool : pool[k].state # "ready" => pool[k].call \in DOMAIN calls
    BY DEF StepInv, BusyInv
  <2>g. calls'[call[c]].failed
    BY <1>9, MainThrowsEffect DEF CallFails, CallBecomes
  <2> QED
    BY <2>a, <2>b, <2>c, <2>d, <2>e, <2>g, <2>h, <2>j DEF SettledInv, Reportable
<1>10. ASSUME NEW c \in Clients, MainThrowsOther(c) PROVE SettledInv'
  <2> QED
    BY <1>10, MainThrowsOtherEffect DEF Recoverable
<1>11. ASSUME NEW c \in Clients, Wait(c) PROVE SettledInv'
  <2>a. HoldsLock(c) /\ \A d \in Clients, k \in DOMAIN pool : Awaits(d, k) => d = c
    BY <1>11, WaitEffect, AwaitsHolds, OneInside DEF StepInv, HoldsLock
  <2>b. pool' = pool
    BY <1>11, WaitEffect, Domains DEF StepInv
  <2>c. \A k \in DOMAIN pool : Awaits(c, k) /\ pool[k].state # "ready" => Awaits(c, k)'
    BY <1>11, <2>b, WaitEffect, Domains, ClientTypes DEF StepInv, LoopInv, Awaits,
       InRun, ClientGoes
  <2>d. DOMAIN calls' = DOMAIN calls /\ (\A n \in DOMAIN calls : calls[n].failed => calls'[n].failed)
        /\ \A n \in DOMAIN calls : calls'[n].outcome = calls[n].outcome
    BY <1>11, WaitEffect, Domains DEF StepInv
  <2>e. call' = call /\ \A d \in Clients : d # c => pc'[d] = pc[d]
    BY <1>11, WaitEffect DEF ClientGoes
  <2>h. (\A d \in Clients : pc[d] = "manage" => call[d] \in DOMAIN calls) /\ call[c] \in DOMAIN calls
    BY <1>11, WaitEffect DEF StepInv, CallInv, InRun
  <2>j. \A k \in DOMAIN pool : pool[k].state # "ready" => pool[k].call \in DOMAIN calls
    BY DEF StepInv, BusyInv
  <2>g. pc'[c] = "manage" => i[c] \in DOMAIN pool /\ pool[i[c]].state = "crashed"
    BY <1>11, WaitEffect, Domains DEF StepInv, ClientGoes
  <2>i. pc'[c] = "manage" => calls[call[c]].failed
    BY <2>a, <2>g DEF SettledInv, Awaits
  <2> QED
    BY <2>a, <2>b, <2>c, <2>d, <2>e, <2>h, <2>i, <2>j DEF SettledInv, Reportable
<1>12. ASSUME NEW c \in Clients, Return(c) PROVE SettledInv'
  <2>a. HoldsLock(c) /\ \A d \in Clients, k \in DOMAIN pool : Awaits(d, k) => d = c
    BY <1>12, ReturnEffect, AwaitsHolds, OneInside DEF StepInv, HoldsLock
  <2>b. \A k \in DOMAIN pool : ~Awaits(c, k)
    BY <1>12, ReturnEffect, Domains, ClientTypes DEF StepInv, Awaits
  <2>c. pool' = pool /\ \A k \in DOMAIN pool : pool[k].state = "ready"
    BY <1>12, <2>a, <2>b, ReturnEffect DEF SettledInv
  <2>d. DOMAIN calls' = DOMAIN calls /\ (\A n \in DOMAIN calls : n # call[c] => calls'[n] = calls[n])
        /\ calls'[call[c]].outcome = "ok" /\ calls'[call[c]].failed = calls[call[c]].failed
    BY <1>12, ReturnEffect, Domains DEF StepInv, CallEnds, CallBecomes
  <2>e. call' = call /\ pc'[c] = "idle" /\ \A d \in Clients : d # c => pc'[d] = pc[d]
    BY <1>12, ReturnEffect DEF ClientGoes
  <2>f. \A d \in Clients : d # c /\ pc[d] = "manage" => call[d] # call[c] /\ call[d] \in DOMAIN calls
    BY <1>12, ReturnEffect DEF StepInv, CallInv, InRun
  <2> QED
    BY <2>c, <2>d, <2>e, <2>f DEF SettledInv, Reportable
<1>13. ASSUME NEW c \in Clients, ManageSkip(c) PROVE SettledInv'
  <2>a. HoldsLock(c) /\ \A d \in Clients, k \in DOMAIN pool : Awaits(d, k) => d = c
    BY <1>13, ManageSkipEffect, AwaitsHolds, OneInside DEF StepInv, HoldsLock
  <2>b. pool' = pool
    BY <1>13, ManageSkipEffect, Domains DEF StepInv
  <2>c. \A k \in DOMAIN pool : Awaits(c, k) /\ pool[k].state # "ready" => Awaits(c, k)'
    BY <1>13, <2>b, ManageSkipEffect, Domains, ClientTypes DEF StepInv, LoopInv,
       Awaits, InRun, ClientGoes
  <2>d. DOMAIN calls' = DOMAIN calls /\ (\A n \in DOMAIN calls : calls[n].failed => calls'[n].failed)
        /\ \A n \in DOMAIN calls : calls'[n].outcome = calls[n].outcome
    BY <1>13, ManageSkipEffect, Domains DEF StepInv
  <2>e. call' = call /\ \A d \in Clients : d # c => pc'[d] = pc[d]
    BY <1>13, ManageSkipEffect DEF ClientGoes
  <2>h. (\A d \in Clients : pc[d] = "manage" => call[d] \in DOMAIN calls) /\ call[c] \in DOMAIN calls
    BY <1>13, ManageSkipEffect DEF StepInv, CallInv, InRun
  <2>j. \A k \in DOMAIN pool : pool[k].state # "ready" => pool[k].call \in DOMAIN calls
    BY DEF StepInv, BusyInv
  <2>g. pc'[c] = "manage" => pc[c] = "manage"
    BY <1>13, ManageSkipEffect DEF ClientGoes
  <2> QED
    BY <2>a, <2>b, <2>c, <2>d, <2>e, <2>g, <2>h, <2>j DEF SettledInv, Reportable
<1>14. ASSUME NEW c \in Clients, ManageRestart(c) PROVE SettledInv'
  <2>a. HoldsLock(c) /\ \A d \in Clients, k \in DOMAIN pool : Awaits(d, k) => d = c
    BY <1>14, ManageRestartEffect, AwaitsHolds, OneInside DEF StepInv, HoldsLock
  <2>b. DOMAIN pool' = DOMAIN pool /\ \A k \in DOMAIN pool : k # i[c] => pool'[k] = pool[k]
    BY <1>14, ManageRestartEffect, Domains DEF StepInv, ThreadBecomes
  <2>p. /\ ClientGoes(c, "manage", i[c] + 1) /\ call' = call /\ pc[c] = "manage" /\ i[c] \in 1 .. Len(pool)
        /\ \A k \in DOMAIN pool : k # i[c] => pool'[k].call = pool[k].call
        /\ DOMAIN pool = 1 .. Len(pool)
    BY <1>14, <2>b, ManageRestartEffect, Domains DEF StepInv
  <2>c. \A k \in DOMAIN pool : Awaits(c, k) /\ k # i[c] => Awaits(c, k)'
    BY <2>p DEF StepInv, LoopInv, Awaits, InRun, ClientGoes
  <2>d. DOMAIN calls' = DOMAIN calls /\ (\A n \in DOMAIN calls : calls[n].failed => calls'[n].failed)
        /\ \A n \in DOMAIN calls : calls'[n].outcome = calls[n].outcome
    BY <1>14, ManageRestartEffect, Domains DEF StepInv
  <2>e. call' = call /\ \A d \in Clients : d # c => pc'[d] = pc[d]
    BY <1>14, ManageRestartEffect DEF ClientGoes
  <2>h. (\A d \in Clients : pc[d] = "manage" => call[d] \in DOMAIN calls) /\ call[c] \in DOMAIN calls
    BY <1>14, ManageRestartEffect DEF StepInv, CallInv, InRun
  <2>j. \A k \in DOMAIN pool : pool[k].state # "ready" => pool[k].call \in DOMAIN calls
    BY DEF StepInv, BusyInv
  <2>g. pool'[i[c]].state = "ready" /\ pool'[i[c]].valid /\ pool'[i[c]].exception = "none" /\ pc[c] = "manage"
    BY <1>14, ManageRestartEffect DEF ThreadBecomes
  <2> QED
    BY <2>a, <2>b, <2>c, <2>d, <2>e, <2>g, <2>h, <2>j DEF SettledInv, Reportable
<1>15. ASSUME NEW c \in Clients, ManageThrows(c) PROVE SettledInv'
  <2>a. HoldsLock(c) /\ \A d \in Clients, k \in DOMAIN pool : Awaits(d, k) => d = c
    BY <1>15, ManageThrowsEffect, AwaitsHolds, OneInside DEF StepInv, HoldsLock
  <2>b. \A k \in DOMAIN pool : ~Awaits(c, k)
    BY <1>15, ManageThrowsEffect, Domains, ClientTypes DEF StepInv, Awaits
  <2>c. pool' = pool /\ \A k \in DOMAIN pool : pool[k].state = "ready"
    BY <1>15, <2>a, <2>b, ManageThrowsEffect DEF SettledInv
  <2>d. DOMAIN calls' = DOMAIN calls /\ (\A n \in DOMAIN calls : n # call[c] => calls'[n] = calls[n])
        /\ calls'[call[c]].outcome = "threw" /\ calls'[call[c]].failed = calls[call[c]].failed
    BY <1>15, ManageThrowsEffect, Domains DEF StepInv, CallEnds, CallBecomes
  <2>e. call' = call /\ pc'[c] = "idle" /\ \A d \in Clients : d # c => pc'[d] = pc[d]
    BY <1>15, ManageThrowsEffect DEF ClientGoes
  <2>f. \A d \in Clients : d # c /\ pc[d] = "manage" => call[d] # call[c] /\ call[d] \in DOMAIN calls
    BY <1>15, ManageThrowsEffect DEF StepInv, CallInv, InRun
  <2>g. calls[call[c]].failed
    BY <1>15, ManageThrowsEffect DEF SettledInv
  <2> QED
    BY <2>c, <2>d, <2>e, <2>f, <2>g DEF SettledInv, Reportable
<1>16. ASSUME NEW c \in Clients, ResizeLock(c) PROVE SettledInv'
  BY <1>16, ResizeLockEffect DEF StepInv, SettledInv, Awaits, InRun, Reportable,
     CallInv, ClientGoes
<1>17. ASSUME NEW c \in Clients, Shrink(c) PROVE SettledInv'
  <2>a. \A d \in Clients, k \in DOMAIN pool : ~Awaits(d, k)
    BY <1>17, ShrinkEffect, AwaitsHolds, OneInside DEF StepInv, HoldsLock
  <2>b. calls' = calls /\ call' = call /\ pc' = pc
    BY <1>17, ShrinkEffect
  <2>c. \A k \in DOMAIN pool' : pool'[k].state = "ready" /\ pool'[k].valid /\ pool'[k].exception \in {"none", "std"}
    <3>1. \A k \in DOMAIN pool : pool[k].state = "ready" /\ pool[k].valid /\ pool[k].exception \in {"none", "std"}
      BY <2>a DEF SettledInv
    <3>2. \A k \in DOMAIN pool' : k \in DOMAIN pool /\ pool'[k] = pool[k]
      <4>1. i[c] \in 1 .. Len(pool) /\ DOMAIN pool' = 1 .. i[c] - 1 /\ \A m \in 1 .. i[c] - 1 : pool'[m] = pool[m]
        BY <1>17, ShrinkEffect
      <4>2. DOMAIN pool = 1 .. Len(pool) /\ Len(pool) \in Nat
        BY Domains DEF StepInv
      <4> QED
        BY <4>1, <4>2
    <3> QED
      BY <3>1, <3>2
  <2> QED
    BY <2>b, <2>c DEF SettledInv
<1>18. ASSUME NEW c \in Clients, Grow(c) PROVE SettledInv'
  <2>a. \A d \in Clients, k \in DOMAIN pool : ~Awaits(d, k)
    BY <1>18, GrowEffect, AwaitsHolds, OneInside DEF StepInv, HoldsLock
  <2>b. calls' = calls /\ call' = call /\ pc' = pc
    BY <1>18, GrowEffect
  <2>c. \A k \in DOMAIN pool' : pool'[k].state = "ready" /\ pool'[k].valid /\ pool'[k].exception \in {"none", "std"}
    <3>1. \A k \in DOMAIN pool : pool[k].state = "ready" /\ pool[k].valid /\ pool[k].exception \in {"none", "std"}
      BY <2>a DEF SettledInv
    <3>2. \A k \in DOMAIN pool' : (k \in DOMAIN pool /\ pool'[k] = pool[k])
             \/ (pool'[k].state = "ready" /\ pool'[k].valid /\ pool'[k].exception = "none")
      <4>1. /\ DOMAIN pool' = 1 .. Len(pool) + 1 /\ \A m \in 1 .. Len(pool) : pool'[m] = pool[m]
            /\ pool'[Len(pool) + 1].state = "ready" /\ pool'[Len(pool) + 1].valid
            /\ pool'[Len(pool) + 1].exception = "none"
        BY <1>18, GrowEffect
      <4>2. DOMAIN pool = 1 .. Len(pool) /\ Len(pool) \in Nat
        BY Domains DEF StepInv
      <4> QED
        BY <4>1, <4>2
    <3> QED
      BY <3>1, <3>2
  <2> QED
    BY <2>b, <2>c DEF SettledInv
<1>19. ASSUME NEW c \in Clients, Resized(c) PROVE SettledInv'
  BY <1>19, ResizedEffect DEF StepInv, SettledInv, Awaits, InRun, Reportable, CallInv,
     ClientGoes
<1>20. ASSUME NEW k \in 1 .. Len(pool), Work(k) PROVE SettledInv'
  <2>b. DOMAIN pool' = DOMAIN pool /\ \A m \in DOMAIN pool : m # k => pool'[m] = pool[m]
    BY <1>20, WorkEffect, Domains DEF StepInv
  <2>e. pool' = pool
    BY <1>20, WorkEffect
  <2>c. \A d \in Clients, m \in DOMAIN pool : Awaits(d, m) => Awaits(d, m)'
    BY <1>20, <2>b, <2>e, WorkEffect DEF Awaits, InRun
  <2>d. DOMAIN calls' = DOMAIN calls /\ (\A n \in DOMAIN calls : calls[n].failed => calls'[n].failed)
        /\ \A n \in DOMAIN calls : calls'[n].outcome = calls[n].outcome
    BY <1>20, WorkEffect, Domains DEF StepInv, CallGains, CallBecomes
  <2>f. pc' = pc /\ call' = call /\ pool[k].state = "working" /\ k \in DOMAIN pool
    BY <1>20, WorkEffect, Domains DEF StepInv
  <2>g. \A d \in Clients : pc[d] = "manage" => call[d] \in DOMAIN calls
    BY DEF StepInv, CallInv, InRun
  <2>j. \A m \in DOMAIN pool : pool[m].state # "ready" => pool[m].call \in DOMAIN calls
    BY DEF StepInv, BusyInv
  <2> QED
    BY <2>b, <2>c, <2>d, <2>e, <2>f, <2>g, <2>j DEF SettledInv, Reportable
<1>21. ASSUME NEW k \in 1 .. Len(pool), WorkDone(k) PROVE SettledInv'
  <2>b. DOMAIN pool' = DOMAIN pool /\ \A m \in DOMAIN pool : m # k => pool'[m] = pool[m]
    BY <1>21, WorkDoneEffect, Domains DEF StepInv, ThreadBecomes
  <2>e. pool'[k].state = "ready" /\ pool'[k].valid /\ pool'[k].exception = "none"
    BY <1>21, WorkDoneEffect DEF ThreadBecomes
  <2>c. \A d \in Clients, m \in DOMAIN pool : m # k /\ Awaits(d, m) => Awaits(d, m)'
    BY <1>21, <2>b, <2>e, WorkDoneEffect DEF Awaits, InRun
  <2>d. DOMAIN calls' = DOMAIN calls /\ (\A n \in DOMAIN calls : calls[n].failed => calls'[n].failed)
        /\ \A n \in DOMAIN calls : calls'[n].outcome = calls[n].outcome
    BY <1>21, WorkDoneEffect, Domains DEF StepInv
  <2>f. pc' = pc /\ call' = call /\ pool[k].state = "working" /\ k \in DOMAIN pool
    BY <1>21, WorkDoneEffect, Domains DEF StepInv
  <2>g. \A d \in Clients : pc[d] = "manage" => call[d] \in DOMAIN calls
    BY DEF StepInv, CallInv, InRun
  <2>j. \A m \in DOMAIN pool : pool[m].state # "ready" => pool[m].call \in DOMAIN calls
    BY DEF StepInv, BusyInv
  <2> QED
    BY <2>b, <2>c, <2>d, <2>e, <2>f, <2>g, <2>j DEF SettledInv, Reportable
<1>22. ASSUME NEW k \in 1 .. Len(pool), WorkThrows(k) PROVE SettledInv'
  <2>b. DOMAIN pool' = DOMAIN pool /\ \A m \in DOMAIN pool : m # k => pool'[m] = pool[m]
    BY <1>22, WorkThrowsEffect, Domains DEF StepInv, ThreadBecomes
  <2>e. /\ pool'[k].state = "crashed" /\ pool'[k].valid = pool[k].valid /\ pool'[k].exception = "std"
        /\ pool'[k].call = pool[k].call /\ calls'[pool[k].call].failed
    BY <1>22, WorkThrowsEffect DEF Recoverable, ThreadBecomes, CallFails, CallBecomes
  <2>c. \A d \in Clients, m \in DOMAIN pool : Awaits(d, m) => Awaits(d, m)'
    BY <1>22, <2>b, <2>e, WorkThrowsEffect DEF Awaits, InRun
  <2>d. DOMAIN calls' = DOMAIN calls /\ (\A n \in DOMAIN calls : calls[n].failed => calls'[n].failed)
        /\ \A n \in DOMAIN calls : calls'[n].outcome = calls[n].outcome
    BY <1>22, WorkThrowsEffect, Domains DEF StepInv, CallFails, CallBecomes
  <2>f. pc' = pc /\ call' = call /\ pool[k].state = "working" /\ k \in DOMAIN pool
    BY <1>22, WorkThrowsEffect, Domains DEF StepInv
  <2>g. \A d \in Clients : pc[d] = "manage" => call[d] \in DOMAIN calls
    BY DEF StepInv, CallInv, InRun
  <2>j. \A m \in DOMAIN pool : pool[m].state # "ready" => pool[m].call \in DOMAIN calls
    BY DEF StepInv, BusyInv
  <2> QED
    BY <2>b, <2>c, <2>d, <2>e, <2>f, <2>g, <2>j DEF SettledInv, Reportable
<1> QED
  BY <1>1, <1>2, <1>3, <1>4, <1>5, <1>6, <1>7, <1>8, <1>9, <1>10, <1>11, <1>12, <1>13,
     <1>14, <1>15, <1>16, <1>17, <1>18, <1>19, <1>20, <1>21, <1>22 DEF Next, RunStep,
     ResizeStep, WorkerStep

-----------------------------------------------------------------------------
(* What holds under all conditions, and when threads are recovered.        *)

\* The invariant that holds under all conditions holds in a new pool.
LEMMA BaseInit ==
  ASSUME Init
  PROVE  BaseInv
<1>1. /\ \A k \in 1 .. InitialSize - 1 : Ready \in Threads
      /\ Len(pool) = InitialSize - 1 /\ Ready.state = "ready"
      /\ pool \in Seq(Threads)
  BY ThreadPoolAssumption DEF Init, Ready, Threads
<1>2. calls = <<>> /\ calls \in Seq(Calls) /\ Len(calls) = 0 /\ DOMAIN calls = {}
  BY DEF Init
<1>3. TypeOK
  <2>1. 0 \in 0 .. MaxCalls
    BY ThreadPoolAssumption
  <2>3. holder = {} /\ terminated \in BOOLEAN
    BY DEF Init
  <2>4. call \in [Clients -> 0 .. MaxCalls]
    BY <2>1 DEF Init
  <2>5. i \in [Clients -> Nat]
    BY DEF Init
  <2>2. pc \in [Clients -> Places]
    BY DEF Init, Places
  <2> QED
    BY <1>1, <1>2, <2>2, <2>3, <2>4, <2>5, ThreadPoolAssumption DEF TypeOK
<1>4. \A k \in DOMAIN pool : pool[k].state = "ready"
  BY <1>1 DEF Init
<1>5. \A c \in Clients : pc[c] = "idle"
  BY DEF Init
<1> QED
  BY <1>2, <1>3, <1>4, <1>5
  DEF Init, BaseInv, MutexInv, HoldsLock, CallInv, InRun, LoopInv, BusyInv, Busy, FailInv

\* Every step keeps the invariant that holds under all conditions.
LEMMA BaseStep ==
  ASSUME BaseInv, [Next]_vars
  PROVE  BaseInv'
<1>1. CASE Next
  <2>1. StepInv /\ MutexInv /\ FailInv
    BY DEF BaseInv, StepInv
  <2> QED
    BY <1>1, <2>1, TypeStep, MutexStep, CallStep, LoopStep, BusyStep, FailStep DEF BaseInv
<1>2. CASE UNCHANGED vars
  BY <1>2 DEF vars, BaseInv, TypeOK, MutexInv, HoldsLock, CallInv, InRun, Running, LoopInv,
     BusyInv, Busy, Awaits, FailInv
<1> QED
  BY <1>1, <1>2

\* In every reachable state of the pool, for any number of clients, threads, calls and
\* indices, and whatever fails: the types, mutual exclusion of the clients, and that
\* nothing that failed is forgotten before its call has thrown (run, threadpool.h).
THEOREM PoolInvariant == Spec => []BaseInv
BY BaseInit, BaseStep, PTL DEF Spec

\* No thread of a new pool is awaited or has crashed.
LEMMA SettledInit ==
  ASSUME Init
  PROVE  SettledInv
<1>1. \A k \in DOMAIN pool : pool[k] = Ready
  BY ThreadPoolAssumption DEF Init
<1>2. Ready.state = "ready" /\ Ready.valid /\ Ready.exception = "none"
  BY DEF Ready
<1> QED
  BY <1>1, <1>2 DEF Init, SettledInv

\* If jobs throw only std::exceptions and threads can be started, no thread is ever
\* left behind by a call (manage_exception_during_run).
THEOREM PoolSettles ==
  ASSUME Recoverable
  PROVE  Spec => []SettledInv
<1>1. BaseInv /\ SettledInv /\ [Next]_vars => SettledInv'
  <2> SUFFICES ASSUME BaseInv, SettledInv, [Next]_vars PROVE SettledInv'
    OBVIOUS
  <2>1. CASE Next
    BY <2>1, SettledStep DEF BaseInv, StepInv
  <2>2. CASE UNCHANGED vars
    BY <2>2 DEF vars, SettledInv, Awaits, InRun, Reportable
  <2> QED
    BY <2>1, <2>2
<1> QED
  BY <1>1, SettledInit, PoolInvariant, PTL DEF Spec

\* Then no thread works for a call that is over, whose function is gone.
THEOREM Quiescence ==
  ASSUME Recoverable
  PROVE  Spec => []QuiescentOnReturn
<1>1. BaseInv /\ SettledInv => QuiescentOnReturn
  BY DEF BaseInv, CallInv, SettledInv, QuiescentOnReturn, Busy, Awaits
<1> QED
  BY <1>1, PoolInvariant, PoolSettles, PTL

\* Then all threads are ready whenever no client holds use_mutex_, also after a call
\* in which they crashed.
THEOREM Restoration ==
  ASSUME Recoverable
  PROVE  Spec => []PoolIsRestored
<1>1. BaseInv /\ SettledInv => PoolIsRestored
  BY AwaitsHolds DEF BaseInv, MutexInv, SettledInv, PoolIsRestored
<1> QED
  BY <1>1, PoolInvariant, PoolSettles, PTL

\* No call changes its partition, the pool keeps its size, and nobody starts or resizes.
TeamsSame ==
  /\ Len(pool') = Len(pool) /\ DOMAIN calls' = DOMAIN calls /\ call' = call
  /\ \A n \in DOMAIN calls : calls'[n].nthreads = calls[n].nthreads
  /\ \A c \in Clients :
       /\ InRun(c)' => InRun(c)
       /\ pc'[c] = "resize" => pc[c] = "resize"
       /\ pc'[c] = "resizing" => pc[c] = "resizing" /\ i'[c] = i[c]

-----------------------------------------------------------------------------
(* The sizes that calls and resizes agree on.                              *)

\* A step that changes neither the partitioning of a call nor who has served it, nor
\* gives a thread work, keeps the teams.
LEMMA TeamFrame ==
  ASSUME StepInv, Next,
         ~\E c \in Clients :
            CallRun(c) \/ CallResize(c) \/ ResizeLock(c) \/ Shrink(c) \/ Grow(c)
  PROVE  TeamsSame
<1>1. ASSUME NEW c \in Clients, Lock(c) PROVE TeamsSame
  <2>1. Len(pool') = Len(pool) /\ DOMAIN calls' = DOMAIN calls /\ call' = call
        /\ \A n \in DOMAIN calls : calls'[n].nthreads = calls[n].nthreads
    BY <1>1, LockEffect, Domains DEF StepInv
  <2>2. \A d \in Clients : /\ InRun(d)' => InRun(d)
                           /\ pc'[d] = "resize" => pc[d] = "resize"
                           /\ pc'[d] = "resizing" => pc[d] = "resizing" /\ i'[d] = i[d]
    BY <1>1, LockEffect DEF InRun, ClientGoes
  <2> QED
    BY <2>1, <2>2 DEF TeamsSame
<1>2. ASSUME NEW c \in Clients, Assign(c) PROVE TeamsSame
  <2>1. Len(pool') = Len(pool) /\ DOMAIN calls' = DOMAIN calls /\ call' = call
        /\ \A n \in DOMAIN calls : calls'[n].nthreads = calls[n].nthreads
    BY <1>2, AssignEffect, Domains DEF StepInv, ThreadBecomes
  <2>2. \A d \in Clients : /\ InRun(d)' => InRun(d)
                           /\ pc'[d] = "resize" => pc[d] = "resize"
                           /\ pc'[d] = "resizing" => pc[d] = "resizing" /\ i'[d] = i[d]
    BY <1>2, AssignEffect DEF InRun, ClientGoes
  <2> QED
    BY <2>1, <2>2 DEF TeamsSame
<1>3. ASSUME NEW c \in Clients, AssignRefused(c) \/ ManageBuildFails(c) \/ ManageEscapes(c) PROVE TeamsSame
  <2>1. Len(pool') = Len(pool) /\ DOMAIN calls' = DOMAIN calls /\ call' = call
        /\ \A n \in DOMAIN calls : calls'[n].nthreads = calls[n].nthreads
    BY <1>3, AbandonEffect, Domains DEF StepInv, ThreadBecomes, CallEnds, CallBecomes
  <2>2. \A d \in Clients : /\ InRun(d)' => InRun(d)
                           /\ pc'[d] = "resize" => pc[d] = "resize"
                           /\ pc'[d] = "resizing" => pc[d] = "resizing" /\ i'[d] = i[d]
    BY <1>3, AbandonEffect DEF InRun, ClientGoes
  <2> QED
    BY <2>1, <2>2 DEF TeamsSame
<1>4. ASSUME NEW c \in Clients, Assigned(c) PROVE TeamsSame
  <2>1. Len(pool') = Len(pool) /\ DOMAIN calls' = DOMAIN calls /\ call' = call
        /\ \A n \in DOMAIN calls : calls'[n].nthreads = calls[n].nthreads
    BY <1>4, AssignedEffect, Domains DEF StepInv
  <2>2. \A d \in Clients : /\ InRun(d)' => InRun(d)
                           /\ pc'[d] = "resize" => pc[d] = "resize"
                           /\ pc'[d] = "resizing" => pc[d] = "resizing" /\ i'[d] = i[d]
    BY <1>4, AssignedEffect DEF InRun, ClientGoes
  <2> QED
    BY <2>1, <2>2 DEF TeamsSame
<1>5. ASSUME NEW c \in Clients, Main(c) PROVE TeamsSame
  <2>1. Len(pool') = Len(pool) /\ DOMAIN calls' = DOMAIN calls /\ call' = call
        /\ \A n \in DOMAIN calls : calls'[n].nthreads = calls[n].nthreads
    BY <1>5, MainEffect, Domains DEF StepInv, CallGains, CallBecomes
  <2>2. \A d \in Clients : /\ InRun(d)' => InRun(d)
                           /\ pc'[d] = "resize" => pc[d] = "resize"
                           /\ pc'[d] = "resizing" => pc[d] = "resizing" /\ i'[d] = i[d]
    BY <1>5, MainEffect DEF InRun
  <2> QED
    BY <2>1, <2>2 DEF TeamsSame
<1>6. ASSUME NEW c \in Clients, MainDone(c) PROVE TeamsSame
  <2>1. Len(pool') = Len(pool) /\ DOMAIN calls' = DOMAIN calls /\ call' = call
        /\ \A n \in DOMAIN calls : calls'[n].nthreads = calls[n].nthreads
    BY <1>6, MainDoneEffect, Domains DEF StepInv
  <2>2. \A d \in Clients : /\ InRun(d)' => InRun(d)
                           /\ pc'[d] = "resize" => pc[d] = "resize"
                           /\ pc'[d] = "resizing" => pc[d] = "resizing" /\ i'[d] = i[d]
    BY <1>6, MainDoneEffect DEF InRun, ClientGoes
  <2> QED
    BY <2>1, <2>2 DEF TeamsSame
<1>7. ASSUME NEW c \in Clients, MainThrows(c) PROVE TeamsSame
  <2>1. Len(pool') = Len(pool) /\ DOMAIN calls' = DOMAIN calls /\ call' = call
        /\ \A n \in DOMAIN calls : calls'[n].nthreads = calls[n].nthreads
    BY <1>7, MainThrowsEffect, Domains DEF StepInv, CallFails, CallBecomes
  <2>2. \A d \in Clients : /\ InRun(d)' => InRun(d)
                           /\ pc'[d] = "resize" => pc[d] = "resize"
                           /\ pc'[d] = "resizing" => pc[d] = "resizing" /\ i'[d] = i[d]
    BY <1>7, MainThrowsEffect DEF InRun, ClientGoes
  <2> QED
    BY <2>1, <2>2 DEF TeamsSame
<1>8. ASSUME NEW c \in Clients, MainThrowsOther(c) PROVE TeamsSame
  <2>1. Len(pool') = Len(pool) /\ DOMAIN calls' = DOMAIN calls /\ call' = call
        /\ \A n \in DOMAIN calls : calls'[n].nthreads = calls[n].nthreads
    BY <1>8, MainThrowsOtherEffect, Domains DEF StepInv, CallFails, CallBecomes
  <2>2. \A d \in Clients : /\ InRun(d)' => InRun(d)
                           /\ pc'[d] = "resize" => pc[d] = "resize"
                           /\ pc'[d] = "resizing" => pc[d] = "resizing" /\ i'[d] = i[d]
    BY <1>8, MainThrowsOtherEffect DEF InRun, ClientGoes
  <2> QED
    BY <2>1, <2>2 DEF TeamsSame
<1>9. ASSUME NEW c \in Clients, Wait(c) PROVE TeamsSame
  <2>1. Len(pool') = Len(pool) /\ DOMAIN calls' = DOMAIN calls /\ call' = call
        /\ \A n \in DOMAIN calls : calls'[n].nthreads = calls[n].nthreads
    BY <1>9, WaitEffect, Domains DEF StepInv
  <2>2. \A d \in Clients : /\ InRun(d)' => InRun(d)
                           /\ pc'[d] = "resize" => pc[d] = "resize"
                           /\ pc'[d] = "resizing" => pc[d] = "resizing" /\ i'[d] = i[d]
    BY <1>9, WaitEffect DEF InRun, ClientGoes
  <2> QED
    BY <2>1, <2>2 DEF TeamsSame
<1>10. ASSUME NEW c \in Clients, Return(c) PROVE TeamsSame
  <2>1. Len(pool') = Len(pool) /\ DOMAIN calls' = DOMAIN calls /\ call' = call
        /\ \A n \in DOMAIN calls : calls'[n].nthreads = calls[n].nthreads
    BY <1>10, ReturnEffect, Domains DEF StepInv, CallEnds, CallBecomes
  <2>2. \A d \in Clients : /\ InRun(d)' => InRun(d)
                           /\ pc'[d] = "resize" => pc[d] = "resize"
                           /\ pc'[d] = "resizing" => pc[d] = "resizing" /\ i'[d] = i[d]
    BY <1>10, ReturnEffect DEF InRun, ClientGoes
  <2> QED
    BY <2>1, <2>2 DEF TeamsSame
<1>11. ASSUME NEW c \in Clients, ManageSkip(c) PROVE TeamsSame
  <2>1. Len(pool') = Len(pool) /\ DOMAIN calls' = DOMAIN calls /\ call' = call
        /\ \A n \in DOMAIN calls : calls'[n].nthreads = calls[n].nthreads
    BY <1>11, ManageSkipEffect, Domains DEF StepInv
  <2>2. \A d \in Clients : /\ InRun(d)' => InRun(d)
                           /\ pc'[d] = "resize" => pc[d] = "resize"
                           /\ pc'[d] = "resizing" => pc[d] = "resizing" /\ i'[d] = i[d]
    BY <1>11, ManageSkipEffect DEF InRun, ClientGoes
  <2> QED
    BY <2>1, <2>2 DEF TeamsSame
<1>12. ASSUME NEW c \in Clients, ManageRestart(c) PROVE TeamsSame
  <2>1. Len(pool') = Len(pool) /\ DOMAIN calls' = DOMAIN calls /\ call' = call
        /\ \A n \in DOMAIN calls : calls'[n].nthreads = calls[n].nthreads
    BY <1>12, ManageRestartEffect, Domains DEF StepInv, ThreadBecomes
  <2>2. \A d \in Clients : /\ InRun(d)' => InRun(d)
                           /\ pc'[d] = "resize" => pc[d] = "resize"
                           /\ pc'[d] = "resizing" => pc[d] = "resizing" /\ i'[d] = i[d]
    BY <1>12, ManageRestartEffect DEF InRun, ClientGoes
  <2> QED
    BY <2>1, <2>2 DEF TeamsSame
<1>13. ASSUME NEW c \in Clients, ManageThrows(c) PROVE TeamsSame
  <2>1. Len(pool') = Len(pool) /\ DOMAIN calls' = DOMAIN calls /\ call' = call
        /\ \A n \in DOMAIN calls : calls'[n].nthreads = calls[n].nthreads
    BY <1>13, ManageThrowsEffect, Domains DEF StepInv, CallEnds, CallBecomes
  <2>2. \A d \in Clients : /\ InRun(d)' => InRun(d)
                           /\ pc'[d] = "resize" => pc[d] = "resize"
                           /\ pc'[d] = "resizing" => pc[d] = "resizing" /\ i'[d] = i[d]
    BY <1>13, ManageThrowsEffect DEF InRun, ClientGoes
  <2> QED
    BY <2>1, <2>2 DEF TeamsSame
<1>14. ASSUME NEW c \in Clients, Resized(c) PROVE TeamsSame
  <2>1. Len(pool') = Len(pool) /\ DOMAIN calls' = DOMAIN calls /\ call' = call
        /\ \A n \in DOMAIN calls : calls'[n].nthreads = calls[n].nthreads
    BY <1>14, ResizedEffect, Domains DEF StepInv
  <2>2. \A d \in Clients : /\ InRun(d)' => InRun(d)
                           /\ pc'[d] = "resize" => pc[d] = "resize"
                           /\ pc'[d] = "resizing" => pc[d] = "resizing" /\ i'[d] = i[d]
    BY <1>14, ResizedEffect DEF InRun, ClientGoes
  <2> QED
    BY <2>1, <2>2 DEF TeamsSame
<1>15. ASSUME NEW k \in 1 .. Len(pool), Work(k) PROVE TeamsSame
  <2>1. Len(pool') = Len(pool) /\ DOMAIN calls' = DOMAIN calls /\ call' = call
        /\ \A n \in DOMAIN calls : calls'[n].nthreads = calls[n].nthreads
    BY <1>15, WorkEffect, Domains DEF StepInv, CallGains, CallBecomes
  <2>2. \A d \in Clients : /\ InRun(d)' => InRun(d)
                           /\ pc'[d] = "resize" => pc[d] = "resize"
                           /\ pc'[d] = "resizing" => pc[d] = "resizing" /\ i'[d] = i[d]
    BY <1>15, WorkEffect DEF InRun
  <2> QED
    BY <2>1, <2>2 DEF TeamsSame
<1>16. ASSUME NEW k \in 1 .. Len(pool), WorkDone(k) PROVE TeamsSame
  <2>1. Len(pool') = Len(pool) /\ DOMAIN calls' = DOMAIN calls /\ call' = call
        /\ \A n \in DOMAIN calls : calls'[n].nthreads = calls[n].nthreads
    BY <1>16, WorkDoneEffect, Domains DEF StepInv, ThreadBecomes
  <2>2. \A d \in Clients : /\ InRun(d)' => InRun(d)
                           /\ pc'[d] = "resize" => pc[d] = "resize"
                           /\ pc'[d] = "resizing" => pc[d] = "resizing" /\ i'[d] = i[d]
    BY <1>16, WorkDoneEffect DEF InRun
  <2> QED
    BY <2>1, <2>2 DEF TeamsSame
<1>17. ASSUME NEW k \in 1 .. Len(pool), WorkThrows(k) PROVE TeamsSame
  <2>1. Len(pool') = Len(pool) /\ DOMAIN calls' = DOMAIN calls /\ call' = call
        /\ \A n \in DOMAIN calls : calls'[n].nthreads = calls[n].nthreads
    BY <1>17, WorkThrowsEffect, Domains DEF StepInv, ThreadBecomes, CallFails, CallBecomes
  <2>2. \A d \in Clients : /\ InRun(d)' => InRun(d)
                           /\ pc'[d] = "resize" => pc[d] = "resize"
                           /\ pc'[d] = "resizing" => pc[d] = "resizing" /\ i'[d] = i[d]
    BY <1>17, WorkThrowsEffect DEF InRun
  <2> QED
    BY <2>1, <2>2 DEF TeamsSame
<1> QED
  BY <1>1, <1>2, <1>3, <1>4, <1>5, <1>6, <1>7, <1>8, <1>9, <1>10, <1>11, <1>12, <1>13, <1>14, <1>15, <1>16, <1>17 DEF Next, RunStep, ResizeStep, WorkerStep

\* Every step lets a call that was made for one thread find one thread.
LEMMA LoneStep ==
  ASSUME StepInv, MutexInv, StaysAlone, LoneInv, Next
  PROVE  LoneInv'
<1> Len(pool) \in Nat
  BY Domains DEF StepInv
<1>1. ASSUME NEW c \in Clients, CallRun(c) PROVE LoneInv'
  <2>1. /\ pool' = pool /\ ClientGoes(c, "run", i[c]) /\ Len(pool) \in Nat
        /\ calls'[Len(calls) + 1].nthreads = size
        /\ \A n \in 1 .. Len(calls) : calls'[n] = calls[n]
        /\ DOMAIN calls' = 1 .. Len(calls) + 1
    BY <1>1, CallRunEffect, Domains DEF StepInv
  <2>2. DOMAIN calls = 1 .. Len(calls) /\ Len(calls) \in Nat
    BY Domains DEF StepInv
  <2>3. call'[c] = Len(calls) + 1 /\ \A d \in Clients : d # c => call'[d] = call[d]
    <3>1. call \in [Clients -> 0 .. MaxCalls]
      BY ClientTypes DEF StepInv
    <3>2. call' = [call EXCEPT ![c] = Len(calls) + 1]
      BY <1>1 DEF CallRun
    <3> QED
      BY <3>1, <3>2
  <2>4. \A d \in Clients : d # c => /\ InRun(d)' => InRun(d) /\ call[d] \in DOMAIN calls /\ calls'[call[d]] = calls[call[d]]
                                    /\ pc'[d] = pc[d] /\ i'[d] = i[d]
    BY <2>1, <2>2 DEF StepInv, CallInv, InRun, ClientGoes
  <2>5. pc'[c] = "run" /\ size' = size /\ size \in Nat
    BY <2>1 DEF ClientGoes, size
  <2>6. DOMAIN calls' = DOMAIN calls \cup {Len(calls) + 1} /\ \A n \in DOMAIN calls : calls'[n] = calls[n]
    BY <2>1, <2>2
  <2> QED
    BY <2>1, <2>2, <2>3, <2>4, <2>5, <2>6 DEF LoneInv
<1>2. ASSUME NEW c \in Clients, CallResize(c) PROVE LoneInv'
  <2>1. /\ pool' = pool /\ calls' = calls /\ call' = call /\ c \in Resizers
        /\ ClientGoes(c, "resize", i[c]) /\ pc[c] = "idle"
    BY <1>2, CallResizeEffect
  <2>2. ~NeverResized
    BY <2>1 DEF NeverResized
  <2>3. \A d \in Clients : /\ InRun(d)' => InRun(d)
                           /\ pc'[d] = "resizing" => pc[d] = "resizing" /\ i'[d] = i[d]
    BY <2>1 DEF InRun, ClientGoes
  <2> QED
    BY <2>1, <2>2, <2>3 DEF LoneInv, size
<1>3. ASSUME NEW c \in Clients, ResizeLock(c) PROVE LoneInv'
  <2>1. pool' = pool /\ calls' = calls /\ call' = call /\ pc[c] = "resize"
    BY <1>3, ResizeLockEffect
  <2>2. PICK s \in Sizes : ClientGoes(c, "resizing", MaxOf(s, 1))
    BY <1>3, ResizeLockEffect
  <2>3. ~NeverResized
    BY <2>1 DEF LoneInv
  <2>4. \A d \in Clients : /\ InRun(d)' => InRun(d)
                           /\ pc'[d] = "resizing" /\ d # c => pc[d] = "resizing" /\ i'[d] = i[d]
    BY <2>2 DEF InRun, ClientGoes
  <2>5. i'[c] = MaxOf(s, 1) /\ s \in Nat
    BY <2>2, ThreadPoolAssumption DEF ClientGoes
  <2> QED
    BY <2>1, <2>3, <2>4, <2>5, ThreadPoolAssumption DEF LoneInv, size, NeverAlone, MaxOf
<1>4. ASSUME NEW c \in Clients, Shrink(c) PROVE LoneInv'
  <2>1. /\ pc[c] = "resizing" /\ calls' = calls /\ call' = call /\ pc' = pc /\ i' = i
        /\ Len(pool') = i[c] - 1 /\ i[c] \in 1 .. Len(pool)
    BY <1>4, ShrinkEffect
  <2>2. ~NeverResized
    BY <2>1 DEF LoneInv
  <2>3. size # 1 /\ size' = i[c]
    BY <2>1 DEF size
  <2> QED
    BY <2>1, <2>2, <2>3 DEF LoneInv, InRun
<1>5. ASSUME NEW c \in Clients, Grow(c) PROVE LoneInv'
  <2>1. /\ pc[c] = "resizing" /\ calls' = calls /\ call' = call /\ pc' = pc /\ i' = i
        /\ Len(pool') = Len(pool) + 1 /\ i[c] > Len(pool) + 1
    BY <1>5, GrowEffect
  <2>2. ~NeverResized
    BY <2>1 DEF LoneInv
  <2>3. OneClient \/ NeverAlone
    BY <2>2 DEF StaysAlone
  <2>4. OneClient => \A d \in Clients : ~InRun(d)
    BY <2>1 DEF OneClient, InRun
  <2>5. size' > 1 /\ size > 0
    BY <2>1 DEF size
  <2>6. NeverAlone => \A d \in Clients : InRun(d) => calls[call[d]].nthreads > 1
    BY DEF LoneInv, StepInv, CallInv
  <2> QED
    BY <2>1, <2>2, <2>3, <2>4, <2>5, <2>6 DEF LoneInv, InRun
<1>6. CASE ~\E c \in Clients :
            CallRun(c) \/ CallResize(c) \/ ResizeLock(c) \/ Shrink(c) \/ Grow(c)
  <2>1. TeamsSame
    BY <1>6, TeamFrame
  <2>2. \A d \in Clients : InRun(d) => call[d] \in DOMAIN calls
    BY DEF StepInv, CallInv
  <2> QED
    BY <2>1, <2>2 DEF TeamsSame, LoneInv, size
<1> QED
  BY <1>1, <1>2, <1>3, <1>4, <1>5, <1>6

\* Every step keeps as many threads as a call of run was partitioned for.
LEMMA FitStep ==
  ASSUME StepInv, MutexInv, StaysLarge, FitInv, Next
  PROVE  FitInv'
<1> Len(pool) \in Nat
  BY Domains DEF StepInv
<1>1. ASSUME NEW c \in Clients, CallRun(c) PROVE FitInv'
  <2>1. /\ pool' = pool /\ ClientGoes(c, "run", i[c]) /\ Len(pool) \in Nat
        /\ calls'[Len(calls) + 1].nthreads = size
        /\ \A n \in 1 .. Len(calls) : calls'[n] = calls[n]
        /\ DOMAIN calls' = 1 .. Len(calls) + 1
    BY <1>1, CallRunEffect, Domains DEF StepInv
  <2>2. DOMAIN calls = 1 .. Len(calls) /\ Len(calls) \in Nat
    BY Domains DEF StepInv
  <2>3. call'[c] = Len(calls) + 1 /\ \A d \in Clients : d # c => call'[d] = call[d]
    <3>1. call \in [Clients -> 0 .. MaxCalls]
      BY ClientTypes DEF StepInv
    <3>2. call' = [call EXCEPT ![c] = Len(calls) + 1]
      BY <1>1 DEF CallRun
    <3> QED
      BY <3>1, <3>2
  <2>4. \A d \in Clients : d # c => /\ InRun(d)' => InRun(d) /\ call[d] \in DOMAIN calls /\ calls'[call[d]] = calls[call[d]]
                                    /\ pc'[d] = pc[d] /\ i'[d] = i[d]
    BY <2>1, <2>2 DEF StepInv, CallInv, InRun, ClientGoes
  <2>5. pc'[c] = "run" /\ size' = size /\ size \in Nat
    BY <2>1 DEF ClientGoes, size
  <2>6. DOMAIN calls' = DOMAIN calls \cup {Len(calls) + 1} /\ \A n \in DOMAIN calls : calls'[n] = calls[n]
    BY <2>1, <2>2
  <2> QED
    BY <2>1, <2>2, <2>3, <2>4, <2>5, <2>6 DEF FitInv
<1>2. ASSUME NEW c \in Clients, CallResize(c) PROVE FitInv'
  <2>1. /\ pool' = pool /\ calls' = calls /\ call' = call /\ c \in Resizers
        /\ ClientGoes(c, "resize", i[c]) /\ pc[c] = "idle"
    BY <1>2, CallResizeEffect
  <2>2. ~NeverResized
    BY <2>1 DEF NeverResized
  <2>3. \A d \in Clients : /\ InRun(d)' => InRun(d)
                           /\ pc'[d] = "resizing" => pc[d] = "resizing" /\ i'[d] = i[d]
    BY <2>1 DEF InRun, ClientGoes
  <2> QED
    BY <2>1, <2>2, <2>3 DEF FitInv, size
<1>3. ASSUME NEW c \in Clients, ResizeLock(c) PROVE FitInv'
  <2>1. pool' = pool /\ calls' = calls /\ call' = call /\ pc[c] = "resize"
    BY <1>3, ResizeLockEffect
  <2>2. PICK s \in Sizes : ClientGoes(c, "resizing", MaxOf(s, 1))
    BY <1>3, ResizeLockEffect
  <2>3. ~NeverResized
    BY <2>1 DEF FitInv
  <2>4. \A d \in Clients : /\ InRun(d)' => InRun(d)
                           /\ pc'[d] = "resizing" /\ d # c => pc[d] = "resizing" /\ i'[d] = i[d]
    BY <2>2 DEF InRun, ClientGoes
  <2>5. i'[c] = MaxOf(s, 1) /\ s \in Nat
    BY <2>2, ThreadPoolAssumption DEF ClientGoes
  <2> QED
    BY <2>1, <2>3, <2>4, <2>5, ThreadPoolAssumption DEF FitInv, size, OnlyGrows, MaxOf
<1>4. ASSUME NEW c \in Clients, Shrink(c) PROVE FitInv'
  <2>1. /\ pc[c] = "resizing" /\ calls' = calls /\ call' = call /\ pc' = pc /\ i' = i
        /\ Len(pool') = i[c] - 1 /\ i[c] \in 1 .. Len(pool)
    BY <1>4, ShrinkEffect
  <2>2. ~NeverResized
    BY <2>1 DEF FitInv
  <2>3. ~OnlyGrows
    BY <2>1, ThreadPoolAssumption DEF FitInv, OnlyGrows, size
  <2>4. OneClient
    BY <2>2, <2>3 DEF StaysLarge
  <2>5. \A d \in Clients : ~InRun(d)
    BY <2>1, <2>4 DEF OneClient, InRun
  <2> QED
    BY <2>1, <2>2, <2>3, <2>5 DEF FitInv, InRun
<1>5. ASSUME NEW c \in Clients, Grow(c) PROVE FitInv'
  <2>1. /\ pc[c] = "resizing" /\ calls' = calls /\ call' = call /\ pc' = pc /\ i' = i
        /\ Len(pool') = Len(pool) + 1 /\ i[c] > Len(pool) + 1
    BY <1>5, GrowEffect
  <2>2. ~NeverResized
    BY <2>1 DEF FitInv
  <2>3. size' = size + 1 /\ size \in Nat /\ i[c] > size /\ i[c] \in Nat
    BY <2>1, ClientTypes DEF StepInv, size
  <2>4. \A d \in Clients : InRun(d) => calls[call[d]].nthreads \in Nat
    BY Typed DEF StepInv, CallInv, Calls
  <2>5. \A d \in Clients : pc[d] = "resizing" => d = c
    BY <2>1, OneInside DEF StepInv, HoldsLock
  <2> QED
    BY <2>1, <2>2, <2>3, <2>4, <2>5, ThreadPoolAssumption DEF FitInv, InRun
<1>6. CASE ~\E c \in Clients :
            CallRun(c) \/ CallResize(c) \/ ResizeLock(c) \/ Shrink(c) \/ Grow(c)
  <2>1. TeamsSame
    BY <1>6, TeamFrame
  <2>2. \A d \in Clients : InRun(d) => call[d] \in DOMAIN calls
    BY DEF StepInv, CallInv
  <2> QED
    BY <2>1, <2>2 DEF TeamsSame, FitInv, size
<1> QED
  BY <1>1, <1>2, <1>3, <1>4, <1>5, <1>6

\* Every step keeps the threads of the pool away from a call that was made for one
\* thread, where balance gives each of them all indices.
LEMMA TeamStep ==
  ASSUME StepInv, MutexInv, LoneInv, TeamInv, Next
  PROVE  TeamInv'
<1>1. ASSUME NEW c \in Clients, CallRun(c) PROVE TeamInv'
  <2>1. /\ pool' = pool
        /\ calls'[Len(calls) + 1].served = {}
        /\ \A n \in 1 .. Len(calls) : calls'[n] = calls[n]
        /\ DOMAIN calls' = 1 .. Len(calls) + 1
    BY <1>1, CallRunEffect
  <2>2. DOMAIN calls = 1 .. Len(calls) /\ Len(calls) \in Nat
    BY Domains DEF StepInv
  <2>3. DOMAIN calls' = DOMAIN calls \cup {Len(calls) + 1} /\ \A n \in DOMAIN calls : calls'[n] = calls[n]
    BY <2>1, <2>2
  <2>4. \A k \in DOMAIN pool : pool[k].state # "ready" => pool[k].call \in DOMAIN calls
    BY DEF StepInv, BusyInv
  <2> QED
    BY <2>1, <2>3, <2>4 DEF TeamInv
<1>2. ASSUME NEW c \in Clients, CallResize(c) PROVE TeamInv'
  <2>1. pool' = pool /\ calls' = calls
    BY <1>2, CallResizeEffect
  <2> QED
    BY <2>1 DEF TeamInv
<1>3. ASSUME NEW c \in Clients, Lock(c) PROVE TeamInv'
  <2>1. pool' = pool /\ calls' = calls
    BY <1>3, LockEffect
  <2> QED
    BY <2>1 DEF TeamInv
<1>4. ASSUME NEW c \in Clients, Assign(c) PROVE TeamInv'
  <2>1. /\ DOMAIN pool' = DOMAIN pool /\ \A k \in DOMAIN pool : k # i[c] => pool'[k] = pool[k]
        /\ calls' = calls /\ i[c] \in DOMAIN pool /\ pool'[i[c]].call = call[c] /\ size > 1
    BY <1>4, AssignEffect, Domains DEF StepInv, ThreadBecomes, size
  <2>2. calls[call[c]].nthreads > 1
    <3>1. InRun(c) /\ call[c] \in 1 .. Len(calls)
      BY <1>4, AssignEffect, Domains DEF StepInv, CallInv, InRun
    <3>2. calls[call[c]].nthreads \in Nat \ {0}
      BY <3>1, Typed DEF StepInv, Calls
    <3>3. calls[call[c]].nthreads # 1
      BY <3>1, <2>1 DEF LoneInv
    <3> QED
      BY <3>2, <3>3
  <2> QED
    BY <2>1, <2>2 DEF TeamInv
<1>5. ASSUME NEW c \in Clients, AssignRefused(c) \/ ManageBuildFails(c) \/ ManageEscapes(c) PROVE TeamInv'
  <2>1. DOMAIN pool' = DOMAIN pool /\ \A k \in DOMAIN pool : pool'[k].state # "ready" =>
          pool[k].state # "ready" /\ pool'[k].call = pool[k].call
    BY <1>5, AbandonEffect, Domains DEF StepInv, ThreadBecomes
  <2>2. DOMAIN calls' = DOMAIN calls /\ \A n \in DOMAIN calls :
          calls'[n].nthreads = calls[n].nthreads /\ calls'[n].served \subseteq calls[n].served \cup {0}
    BY <1>5, AbandonEffect, Domains DEF StepInv, CallEnds, CallBecomes
  <2>3. \A k \in DOMAIN pool : pool[k].state # "ready" => pool[k].call \in DOMAIN calls
    BY DEF StepInv, BusyInv
  <2> QED
    BY <2>1, <2>2, <2>3 DEF TeamInv
<1>6. ASSUME NEW c \in Clients, Assigned(c) PROVE TeamInv'
  <2>1. pool' = pool /\ calls' = calls
    BY <1>6, AssignedEffect
  <2> QED
    BY <2>1 DEF TeamInv
<1>7. ASSUME NEW c \in Clients, Main(c) PROVE TeamInv'
  <2>1. DOMAIN pool' = DOMAIN pool /\ \A k \in DOMAIN pool : pool'[k].state # "ready" =>
          pool[k].state # "ready" /\ pool'[k].call = pool[k].call
    BY <1>7, MainEffect, Domains DEF StepInv
  <2>2. DOMAIN calls' = DOMAIN calls /\ \A n \in DOMAIN calls :
          calls'[n].nthreads = calls[n].nthreads /\ calls'[n].served \subseteq calls[n].served \cup {0}
    BY <1>7, MainEffect, Domains DEF StepInv, CallGains, CallBecomes
  <2>3. \A k \in DOMAIN pool : pool[k].state # "ready" => pool[k].call \in DOMAIN calls
    BY DEF StepInv, BusyInv
  <2> QED
    BY <2>1, <2>2, <2>3 DEF TeamInv
<1>8. ASSUME NEW c \in Clients, MainDone(c) PROVE TeamInv'
  <2>1. pool' = pool /\ calls' = calls
    BY <1>8, MainDoneEffect
  <2> QED
    BY <2>1 DEF TeamInv
<1>9. ASSUME NEW c \in Clients, MainThrows(c) PROVE TeamInv'
  <2>1. DOMAIN pool' = DOMAIN pool /\ \A k \in DOMAIN pool : pool'[k].state # "ready" =>
          pool[k].state # "ready" /\ pool'[k].call = pool[k].call
    BY <1>9, MainThrowsEffect, Domains DEF StepInv
  <2>2. DOMAIN calls' = DOMAIN calls /\ \A n \in DOMAIN calls :
          calls'[n].nthreads = calls[n].nthreads /\ calls'[n].served \subseteq calls[n].served \cup {0}
    BY <1>9, MainThrowsEffect, Domains DEF StepInv, CallFails, CallBecomes
  <2>3. \A k \in DOMAIN pool : pool[k].state # "ready" => pool[k].call \in DOMAIN calls
    BY DEF StepInv, BusyInv
  <2> QED
    BY <2>1, <2>2, <2>3 DEF TeamInv
<1>10. ASSUME NEW c \in Clients, MainThrowsOther(c) PROVE TeamInv'
  <2>1. DOMAIN pool' = DOMAIN pool /\ \A k \in DOMAIN pool : pool'[k].state # "ready" =>
          pool[k].state # "ready" /\ pool'[k].call = pool[k].call
    BY <1>10, MainThrowsOtherEffect, Domains DEF StepInv
  <2>2. DOMAIN calls' = DOMAIN calls /\ \A n \in DOMAIN calls :
          calls'[n].nthreads = calls[n].nthreads /\ calls'[n].served \subseteq calls[n].served \cup {0}
    BY <1>10, MainThrowsOtherEffect, Domains DEF StepInv, CallFails, CallBecomes
  <2>3. \A k \in DOMAIN pool : pool[k].state # "ready" => pool[k].call \in DOMAIN calls
    BY DEF StepInv, BusyInv
  <2> QED
    BY <2>1, <2>2, <2>3 DEF TeamInv
<1>11. ASSUME NEW c \in Clients, Wait(c) PROVE TeamInv'
  <2>1. pool' = pool /\ calls' = calls
    BY <1>11, WaitEffect
  <2> QED
    BY <2>1 DEF TeamInv
<1>12. ASSUME NEW c \in Clients, Return(c) PROVE TeamInv'
  <2>1. DOMAIN pool' = DOMAIN pool /\ \A k \in DOMAIN pool : pool'[k].state # "ready" =>
          pool[k].state # "ready" /\ pool'[k].call = pool[k].call
    BY <1>12, ReturnEffect, Domains DEF StepInv
  <2>2. DOMAIN calls' = DOMAIN calls /\ \A n \in DOMAIN calls :
          calls'[n].nthreads = calls[n].nthreads /\ calls'[n].served \subseteq calls[n].served \cup {0}
    BY <1>12, ReturnEffect, Domains DEF StepInv, CallEnds, CallBecomes
  <2>3. \A k \in DOMAIN pool : pool[k].state # "ready" => pool[k].call \in DOMAIN calls
    BY DEF StepInv, BusyInv
  <2> QED
    BY <2>1, <2>2, <2>3 DEF TeamInv
<1>13. ASSUME NEW c \in Clients, ManageSkip(c) PROVE TeamInv'
  <2>1. pool' = pool /\ calls' = calls
    BY <1>13, ManageSkipEffect
  <2> QED
    BY <2>1 DEF TeamInv
<1>14. ASSUME NEW c \in Clients, ManageRestart(c) PROVE TeamInv'
  <2>1. DOMAIN pool' = DOMAIN pool /\ \A k \in DOMAIN pool : pool'[k].state # "ready" =>
          pool[k].state # "ready" /\ pool'[k].call = pool[k].call
    BY <1>14, ManageRestartEffect, Domains DEF StepInv, ThreadBecomes
  <2>2. DOMAIN calls' = DOMAIN calls /\ \A n \in DOMAIN calls :
          calls'[n].nthreads = calls[n].nthreads /\ calls'[n].served \subseteq calls[n].served \cup {0}
    BY <1>14, ManageRestartEffect, Domains DEF StepInv
  <2>3. \A k \in DOMAIN pool : pool[k].state # "ready" => pool[k].call \in DOMAIN calls
    BY DEF StepInv, BusyInv
  <2> QED
    BY <2>1, <2>2, <2>3 DEF TeamInv
<1>15. ASSUME NEW c \in Clients, ManageThrows(c) PROVE TeamInv'
  <2>1. DOMAIN pool' = DOMAIN pool /\ \A k \in DOMAIN pool : pool'[k].state # "ready" =>
          pool[k].state # "ready" /\ pool'[k].call = pool[k].call
    BY <1>15, ManageThrowsEffect, Domains DEF StepInv
  <2>2. DOMAIN calls' = DOMAIN calls /\ \A n \in DOMAIN calls :
          calls'[n].nthreads = calls[n].nthreads /\ calls'[n].served \subseteq calls[n].served \cup {0}
    BY <1>15, ManageThrowsEffect, Domains DEF StepInv, CallEnds, CallBecomes
  <2>3. \A k \in DOMAIN pool : pool[k].state # "ready" => pool[k].call \in DOMAIN calls
    BY DEF StepInv, BusyInv
  <2> QED
    BY <2>1, <2>2, <2>3 DEF TeamInv
<1>16. ASSUME NEW c \in Clients, ResizeLock(c) PROVE TeamInv'
  <2>1. pool' = pool /\ calls' = calls
    BY <1>16, ResizeLockEffect
  <2> QED
    BY <2>1 DEF TeamInv
<1>17. ASSUME NEW c \in Clients, Shrink(c) PROVE TeamInv'
  <2>1. calls' = calls /\ \A k \in DOMAIN pool' : k \in DOMAIN pool /\ pool'[k] = pool[k]
    BY <1>17, ShrinkEffect, Domains DEF StepInv
  <2> QED
    BY <2>1 DEF TeamInv
<1>18. ASSUME NEW c \in Clients, Grow(c) PROVE TeamInv'
  <2>1. calls' = calls /\ \A k \in DOMAIN pool' : pool'[k].state # "ready" => k \in DOMAIN pool /\ pool'[k] = pool[k]
    BY <1>18, GrowEffect, Domains DEF StepInv
  <2> QED
    BY <2>1 DEF TeamInv
<1>19. ASSUME NEW c \in Clients, Resized(c) PROVE TeamInv'
  <2>1. pool' = pool /\ calls' = calls
    BY <1>19, ResizedEffect
  <2> QED
    BY <2>1 DEF TeamInv
<1>20. ASSUME NEW k \in 1 .. Len(pool), Work(k) PROVE TeamInv'
  <2>1. DOMAIN pool' = DOMAIN pool /\ \A m \in DOMAIN pool : pool'[m].state # "ready" =>
          pool[m].state # "ready" /\ pool'[m].call = pool[m].call
    BY <1>20, WorkEffect, Domains DEF StepInv
  <2>2. pool[k].call \in DOMAIN calls /\ calls[pool[k].call].nthreads > 1
    BY <1>20, WorkEffect, Domains DEF StepInv, BusyInv, TeamInv
  <2>3. DOMAIN calls' = DOMAIN calls /\ (\A n \in DOMAIN calls : n # pool[k].call => calls'[n] = calls[n])
        /\ calls'[pool[k].call].nthreads = calls[pool[k].call].nthreads
    BY <1>20, WorkEffect, Domains DEF StepInv, CallGains, CallBecomes
  <2>4. \A m \in DOMAIN pool : pool[m].state # "ready" => pool[m].call \in DOMAIN calls
    BY DEF StepInv, BusyInv
  <2> QED
    BY <2>1, <2>2, <2>3, <2>4 DEF TeamInv
<1>21. ASSUME NEW k \in 1 .. Len(pool), WorkDone(k) PROVE TeamInv'
  <2>1. DOMAIN pool' = DOMAIN pool /\ \A m \in DOMAIN pool : pool'[m].state # "ready" =>
          pool[m].state # "ready" /\ pool'[m].call = pool[m].call
    BY <1>21, WorkDoneEffect, Domains DEF StepInv, ThreadBecomes
  <2>2. DOMAIN calls' = DOMAIN calls /\ \A n \in DOMAIN calls :
          calls'[n].nthreads = calls[n].nthreads /\ calls'[n].served \subseteq calls[n].served \cup {0}
    BY <1>21, WorkDoneEffect, Domains DEF StepInv
  <2>3. \A m \in DOMAIN pool : pool[m].state # "ready" => pool[m].call \in DOMAIN calls
    BY DEF StepInv, BusyInv
  <2> QED
    BY <2>1, <2>2, <2>3 DEF TeamInv
<1>22. ASSUME NEW k \in 1 .. Len(pool), WorkThrows(k) PROVE TeamInv'
  <2>1. DOMAIN pool' = DOMAIN pool /\ \A m \in DOMAIN pool : pool'[m].state # "ready" =>
          pool[m].state # "ready" /\ pool'[m].call = pool[m].call
    BY <1>22, WorkThrowsEffect, Domains DEF StepInv, ThreadBecomes
  <2>2. pool[k].call \in DOMAIN calls /\ calls[pool[k].call].nthreads > 1
    BY <1>22, WorkThrowsEffect, Domains DEF StepInv, BusyInv, TeamInv
  <2>3. DOMAIN calls' = DOMAIN calls /\ (\A n \in DOMAIN calls : n # pool[k].call => calls'[n] = calls[n])
        /\ calls'[pool[k].call].nthreads = calls[pool[k].call].nthreads
    BY <1>22, WorkThrowsEffect, Domains DEF StepInv, CallFails, CallBecomes
  <2>4. \A m \in DOMAIN pool : pool[m].state # "ready" => pool[m].call \in DOMAIN calls
    BY DEF StepInv, BusyInv
  <2> QED
    BY <2>1, <2>2, <2>3, <2>4 DEF TeamInv
<1> QED
  BY <1>1, <1>2, <1>3, <1>4, <1>5, <1>6, <1>7, <1>8, <1>9, <1>10, <1>11, <1>12, <1>13,
     <1>14, <1>15, <1>16, <1>17, <1>18, <1>19, <1>20, <1>21, <1>22 DEF Next, RunStep,
     ResizeStep, WorkerStep

\* A call that another thread has served is still covered as it should be.
-----------------------------------------------------------------------------
(* What has been covered.                                                  *)

\* A thread that has not served a call, and has a share that is not empty, shares no
\* index with those that have.
LEMMA ServedOnce ==
  ASSUME TypeOK, NEW n \in DOMAIN calls, NEW tid \in Nat, ~NothingLeft(n, tid),
         calls[n].nthreads = 1 => tid = 0 /\ calls[n].served \subseteq {0},
         NEW x \in Share(n, tid)
  PROVE  ~Due(n, x)
<1>1. calls[n] \in Calls
  BY Typed
<1>2. calls[n].nthreads \in Nat \ {0} /\ calls[n].served \in SUBSET Nat /\ calls[n].count \in Nat
  BY <1>1 DEF Calls
<1>3. CASE calls[n].kind = "static"
  <2>1. Share(n, tid) = balance(MaxIndex, calls[n].nthreads, tid) /\ tid \notin calls[n].served
    BY <1>3 DEF Share, NothingLeft
  <2>2. SUFFICES ASSUME NEW other \in calls[n].served, x \in balance(MaxIndex, calls[n].nthreads, other)
                 PROVE  FALSE
    BY <1>3 DEF Due
  <2>3. other \in Nat /\ other # tid
    BY <1>2, <2>1
  <2>4. calls[n].nthreads > 1
    BY <1>2, <2>1, <2>3
  <2>5. balance(MaxIndex, calls[n].nthreads, tid) \cap balance(MaxIndex, calls[n].nthreads, other) = {}
    BY <1>2, <2>3, <2>4, SharesAreDisjoint, ThreadPoolAssumption
  <2> QED
    BY <2>1, <2>2, <2>5
<1>4. CASE calls[n].kind # "static"
  <2>1. Share(n, tid) = DynamicPiece(MaxIndex, 1, calls[n].count) /\ (Due(n, x) <=> x < calls[n].count)
    BY <1>4 DEF Share, Due
  <2>2. DynamicPiece(MaxIndex, 1, calls[n].count) \subseteq {calls[n].count}
    BY <1>2, ThreadPoolAssumption DEF DynamicPiece, UnitRange, MinOf
  <2> QED
    BY <1>2, <2>1, <2>2
<1> QED
  BY <1>3, <1>4

\* What is due after thread tid has taken its share: what was, and that share.
LEMMA DueGrows ==
  ASSUME TypeOK, NEW n \in DOMAIN calls, NEW tid \in Nat, NEW failed, NEW outcome,
         CallBecomes(n, calls[n].count + 1, calls[n].served \cup {tid}, failed, outcome)
  PROVE  \A m \in DOMAIN calls, x \in Indices :
           Due(m, x)' <=> Due(m, x) \/ (m = n /\ x \in Share(n, tid))
<1>1. calls[n] \in Calls /\ n \in 1 .. Len(calls) /\ DOMAIN calls = 1 .. Len(calls)
  BY Typed
<1>2. calls[n].count \in Nat
  BY <1>1 DEF Calls
<1>3. /\ \A m \in DOMAIN calls : m # n => calls'[m] = calls[m]
      /\ calls'[n].kind = calls[n].kind /\ calls'[n].nthreads = calls[n].nthreads
      /\ calls'[n].count = calls[n].count + 1 /\ calls'[n].served = calls[n].served \cup {tid}
  BY <1>1 DEF CallBecomes
<1>4. ASSUME NEW x \in Indices PROVE Due(n, x)' <=> Due(n, x) \/ x \in Share(n, tid)
  <2>1. CASE calls[n].kind = "static"
    BY <1>3, <2>1 DEF Due, Share
  <2>2. CASE calls[n].kind # "static"
    <3>1. x \in DynamicPiece(MaxIndex, 1, calls[n].count) <=> x = calls[n].count
      BY <1>2, ThreadPoolAssumption DEF DynamicPiece, UnitRange, MinOf, Indices
    <3>2. x \in Int /\ (x < calls[n].count + 1 <=> x < calls[n].count \/ x = calls[n].count)
      BY <1>2, ThreadPoolAssumption DEF Indices
    <3> QED
      BY <1>3, <2>2, <3>1, <3>2 DEF Due, Share
  <2> QED
    BY <2>1, <2>2
<1>5. ASSUME NEW m \in DOMAIN calls, m # n, NEW x \in Indices PROVE Due(m, x)' <=> Due(m, x)
  BY <1>3, <1>5 DEF Due
<1> QED
  BY <1>4, <1>5

\* A thread that runs its share adds one to the indices that become due, and to no
\* other.
LEMMA CoverGains ==
  ASSUME TypeOK, CoverInv, NEW n \in DOMAIN calls, NEW tid \in Nat, ~NothingLeft(n, tid),
         calls[n].nthreads = 1 => tid = 0 /\ calls[n].served \subseteq {0},
         CallGains(n, tid)
  PROVE  CoverInv'
<1>1. \A m \in DOMAIN calls, x \in Indices :
        Due(m, x)' <=> Due(m, x) \/ (m = n /\ x \in Share(n, tid))
  BY DueGrows DEF CallGains
<1>2. \A x \in Share(n, tid) : ~Due(n, x)
  BY ServedOnce
<1>3. /\ DOMAIN calls' = DOMAIN calls
      /\ \A m \in DOMAIN calls : m # n => calls'[m] = calls[m]
      /\ calls'[n].failed = calls[n].failed
      /\ \A x \in Indices :
           calls'[n].covered[x] = calls[n].covered[x] + (IF x \in Share(n, tid) THEN 1 ELSE 0)
  BY Domains DEF CallGains, CallBecomes
<1>4. \A m \in DOMAIN calls, x \in Indices : calls[m].covered[x] \in Nat
  <2> SUFFICES ASSUME NEW m \in DOMAIN calls, NEW x \in Indices PROVE calls[m].covered[x] \in Nat
    OBVIOUS
  <2>1. calls[m] \in Calls
    BY Typed
  <2>2. calls[m].covered \in [Indices -> Nat]
    BY <2>1 DEF Calls
  <2> QED
    BY <2>2
<1> SUFFICES ASSUME NEW m \in DOMAIN calls, NEW x \in Indices
             PROVE  /\ calls'[m].covered[x] <= IF Due(m, x)' THEN 1 ELSE 0
                    /\ Due(m, x)' /\ ~calls'[m].failed => calls'[m].covered[x] = 1
  BY <1>3 DEF CoverInv
<1>5. CASE m # n
  BY <1>1, <1>3, <1>5 DEF CoverInv
<1>6. CASE m = n /\ x \in Share(n, tid)
  <2>1. calls[n].covered[x] = 0
    BY <1>2, <1>4, <1>6 DEF CoverInv
  <2> QED
    BY <1>1, <1>3, <1>6, <2>1
<1>7. CASE m = n /\ x \notin Share(n, tid)
  <2>1. calls'[n].covered[x] = calls[n].covered[x]
    BY <1>3, <1>4, <1>7
  <2> QED
    BY <1>1, <1>3, <1>7, <2>1 DEF CoverInv
<1> QED
  BY <1>5, <1>6, <1>7

\* A thread that throws makes its share due without covering it.
LEMMA CoverFails ==
  ASSUME TypeOK, CoverInv, NEW n \in DOMAIN calls, NEW tid \in Nat, NEW outcome,
         CallFails(n, tid, outcome)
  PROVE  CoverInv'
<1>1. \A m \in DOMAIN calls, x \in Indices :
        Due(m, x)' <=> Due(m, x) \/ (m = n /\ x \in Share(n, tid))
  BY DueGrows DEF CallFails
<1>2. /\ DOMAIN calls' = DOMAIN calls /\ calls'[n].failed
      /\ \A m \in DOMAIN calls : m # n => calls'[m] = calls[m]
      /\ \A m \in DOMAIN calls : calls'[m].covered = calls[m].covered
  BY Domains DEF CallFails, CallBecomes
<1>3. \A m \in DOMAIN calls, x \in Indices : calls[m].covered[x] \in Nat
  <2> SUFFICES ASSUME NEW m \in DOMAIN calls, NEW x \in Indices PROVE calls[m].covered[x] \in Nat
    OBVIOUS
  <2>1. calls[m] \in Calls
    BY Typed
  <2>2. calls[m].covered \in [Indices -> Nat]
    BY <2>1 DEF Calls
  <2> QED
    BY <2>2
<1> SUFFICES ASSUME NEW m \in DOMAIN calls, NEW x \in Indices
             PROVE  /\ calls'[m].covered[x] <= IF Due(m, x)' THEN 1 ELSE 0
                    /\ Due(m, x)' /\ ~calls'[m].failed => calls'[m].covered[x] = 1
  BY <1>2 DEF CoverInv
<1>4. CASE m # n
  BY <1>1, <1>2, <1>4 DEF CoverInv
<1>5. CASE m = n
  BY <1>1, <1>2, <1>3, <1>5 DEF CoverInv
<1> QED
  BY <1>4, <1>5

\* The end of a call changes nothing of what was covered.
LEMMA CoverEnds ==
  ASSUME TypeOK, CoverInv, NEW n \in DOMAIN calls, NEW outcome, CallEnds(n, outcome)
  PROVE  CoverInv'
<1>1. /\ DOMAIN calls' = DOMAIN calls
      /\ \A m \in DOMAIN calls :
           /\ calls'[m].kind = calls[m].kind /\ calls'[m].nthreads = calls[m].nthreads
           /\ calls'[m].served = calls[m].served /\ calls'[m].count = calls[m].count
           /\ calls'[m].covered = calls[m].covered /\ calls'[m].failed = calls[m].failed
  BY Domains DEF CallEnds, CallBecomes
<1>2. \A m \in DOMAIN calls, x \in Indices : Due(m, x)' <=> Due(m, x)
  BY <1>1 DEF Due
<1> QED
  BY <1>1, <1>2 DEF CoverInv

\* Every step runs an index that is due once, unless its thread failed.
LEMMA CoverStep ==
  ASSUME StepInv, TeamInv, CoverInv, Next
  PROVE  CoverInv'
<1>1. ASSUME NEW c \in Clients, CallRun(c) PROVE CoverInv'
  <2>1. LET n == Len(calls) + 1 IN
        /\ DOMAIN calls' = 1 .. n /\ \A m \in 1 .. Len(calls) : calls'[m] = calls[m]
        /\ calls'[n].served = {} /\ calls'[n].count = 0 /\ \A x \in Indices : calls'[n].covered[x] = 0
    BY <1>1, CallRunEffect
  <2>2. DOMAIN calls = 1 .. Len(calls) /\ Len(calls) \in Nat
    BY Domains DEF StepInv
  <2>3. /\ DOMAIN calls' = DOMAIN calls \cup {Len(calls) + 1}
        /\ \A m \in DOMAIN calls : calls'[m] = calls[m]
    BY <2>1, <2>2
  <2>4. \A m \in DOMAIN calls, x \in Indices : Due(m, x)' <=> Due(m, x)
    BY <2>3 DEF Due
  <2>5. \A x \in Indices : calls'[Len(calls) + 1].covered[x] = 0
    BY <2>1
  <2>6. \A x \in Indices : \A m : m = Len(calls) + 1 => ~Due(m, x)'
    <3>1. calls'[Len(calls) + 1].served = {} /\ calls'[Len(calls) + 1].count = 0
      BY <2>1
    <3>2. \A x \in Indices : ~(x < 0)
      BY ThreadPoolAssumption DEF Indices
    <3> QED
      BY <3>1, <3>2 DEF Due
  <2> QED
    BY <2>3, <2>4, <2>5, <2>6 DEF CoverInv
<1>2. ASSUME NEW c \in Clients, CallResize(c) PROVE CoverInv'
  <2>1. calls' = calls
    BY <1>2, CallResizeEffect
  <2> QED
    BY <2>1 DEF CoverInv, Due
<1>3. ASSUME NEW c \in Clients, Lock(c) PROVE CoverInv'
  <2>1. calls' = calls
    BY <1>3, LockEffect
  <2> QED
    BY <2>1 DEF CoverInv, Due
<1>4. ASSUME NEW c \in Clients, Assign(c) PROVE CoverInv'
  <2>1. calls' = calls
    BY <1>4, AssignEffect
  <2> QED
    BY <2>1 DEF CoverInv, Due
<1>5. ASSUME NEW c \in Clients, AssignRefused(c) \/ ManageBuildFails(c) \/ ManageEscapes(c) PROVE CoverInv'
  <2>1. call[c] \in DOMAIN calls
    BY <1>5, AbandonEffect DEF StepInv, CallInv, InRun
  <2> QED
    BY <1>5, <2>1, AbandonEffect, CoverEnds DEF StepInv
<1>6. ASSUME NEW c \in Clients, Assigned(c) PROVE CoverInv'
  <2>1. calls' = calls
    BY <1>6, AssignedEffect
  <2> QED
    BY <2>1 DEF CoverInv, Due
<1>7. ASSUME NEW c \in Clients, Main(c) PROVE CoverInv'
  <2>1. call[c] \in DOMAIN calls /\ ~NothingLeft(call[c], 0) /\ CallGains(call[c], 0)
    BY <1>7, MainEffect DEF StepInv, CallInv, InRun
  <2> QED
    BY <2>1, CoverGains DEF StepInv, TeamInv
<1>8. ASSUME NEW c \in Clients, MainDone(c) PROVE CoverInv'
  <2>1. calls' = calls
    BY <1>8, MainDoneEffect
  <2> QED
    BY <2>1 DEF CoverInv, Due
<1>9. ASSUME NEW c \in Clients, MainThrows(c) PROVE CoverInv'
  <2>1. call[c] \in DOMAIN calls
    BY <1>9, MainThrowsEffect DEF StepInv, CallInv, InRun
  <2> QED
    BY <1>9, <2>1, MainThrowsEffect, CoverFails DEF StepInv
<1>10. ASSUME NEW c \in Clients, MainThrowsOther(c) PROVE CoverInv'
  <2>1. call[c] \in DOMAIN calls
    BY <1>10, MainThrowsOtherEffect DEF StepInv, CallInv, InRun
  <2> QED
    BY <1>10, <2>1, MainThrowsOtherEffect, CoverFails DEF StepInv
<1>11. ASSUME NEW c \in Clients, Wait(c) PROVE CoverInv'
  <2>1. calls' = calls
    BY <1>11, WaitEffect
  <2> QED
    BY <2>1 DEF CoverInv, Due
<1>12. ASSUME NEW c \in Clients, Return(c) PROVE CoverInv'
  <2>1. call[c] \in DOMAIN calls
    BY <1>12, ReturnEffect DEF StepInv, CallInv, InRun
  <2> QED
    BY <1>12, <2>1, ReturnEffect, CoverEnds DEF StepInv
<1>13. ASSUME NEW c \in Clients, ManageSkip(c) PROVE CoverInv'
  <2>1. calls' = calls
    BY <1>13, ManageSkipEffect
  <2> QED
    BY <2>1 DEF CoverInv, Due
<1>14. ASSUME NEW c \in Clients, ManageRestart(c) PROVE CoverInv'
  <2>1. calls' = calls
    BY <1>14, ManageRestartEffect
  <2> QED
    BY <2>1 DEF CoverInv, Due
<1>15. ASSUME NEW c \in Clients, ManageThrows(c) PROVE CoverInv'
  <2>1. call[c] \in DOMAIN calls
    BY <1>15, ManageThrowsEffect DEF StepInv, CallInv, InRun
  <2> QED
    BY <1>15, <2>1, ManageThrowsEffect, CoverEnds DEF StepInv
<1>16. ASSUME NEW c \in Clients, ResizeLock(c) PROVE CoverInv'
  <2>1. calls' = calls
    BY <1>16, ResizeLockEffect
  <2> QED
    BY <2>1 DEF CoverInv, Due
<1>17. ASSUME NEW c \in Clients, Shrink(c) PROVE CoverInv'
  <2>1. calls' = calls
    BY <1>17, ShrinkEffect
  <2> QED
    BY <2>1 DEF CoverInv, Due
<1>18. ASSUME NEW c \in Clients, Grow(c) PROVE CoverInv'
  <2>1. calls' = calls
    BY <1>18, GrowEffect
  <2> QED
    BY <2>1 DEF CoverInv, Due
<1>19. ASSUME NEW c \in Clients, Resized(c) PROVE CoverInv'
  <2>1. calls' = calls
    BY <1>19, ResizedEffect
  <2> QED
    BY <2>1 DEF CoverInv, Due
<1>20. ASSUME NEW k \in 1 .. Len(pool), Work(k) PROVE CoverInv'
  <2>1. pool[k].call \in DOMAIN calls /\ ~NothingLeft(pool[k].call, k) /\ CallGains(pool[k].call, k)
        /\ k \in Nat /\ calls[pool[k].call].nthreads > 1
    BY <1>20, WorkEffect, Domains DEF StepInv, BusyInv, TeamInv
  <2> QED
    BY <2>1, CoverGains DEF StepInv
<1>21. ASSUME NEW k \in 1 .. Len(pool), WorkDone(k) PROVE CoverInv'
  <2>1. calls' = calls
    BY <1>21, WorkDoneEffect
  <2> QED
    BY <2>1 DEF CoverInv, Due
<1>22. ASSUME NEW k \in 1 .. Len(pool), WorkThrows(k) PROVE CoverInv'
  <2>1. pool[k].call \in DOMAIN calls /\ k \in Nat
    BY <1>22, WorkThrowsEffect, Domains DEF StepInv, BusyInv
  <2> QED
    BY <1>22, <2>1, WorkThrowsEffect, CoverFails DEF StepInv
<1> QED
  BY <1>1, <1>2, <1>3, <1>4, <1>5, <1>6, <1>7, <1>8, <1>9, <1>10, <1>11, <1>12, <1>13,
     <1>14, <1>15, <1>16, <1>17, <1>18, <1>19, <1>20, <1>21, <1>22 DEF Next, RunStep,
     ResizeStep, WorkerStep

\* A thread that has nothing left to run does not get more to run.
-----------------------------------------------------------------------------
(* What has been given out.                                                *)

\* A thread that has nothing left to run does not get more to run.
LEMMA NothingMore ==
  ASSUME TypeOK, NEW n \in DOMAIN calls, NEW tid \in Nat, NEW failed, NEW outcome,
         CallBecomes(n, calls[n].count + 1, calls[n].served \cup {tid}, failed, outcome)
  PROVE  \A m \in DOMAIN calls, t \in Nat : NothingLeft(m, t) => NothingLeft(m, t)'
<1>1. calls[n] \in Calls /\ n \in 1 .. Len(calls) /\ DOMAIN calls = 1 .. Len(calls)
  BY Typed
<1>2. calls[n].count \in Nat
  BY <1>1 DEF Calls
<1>3. /\ \A m \in DOMAIN calls : m # n => calls'[m] = calls[m]
      /\ calls'[n].kind = calls[n].kind /\ calls'[n].nthreads = calls[n].nthreads
      /\ calls'[n].count = calls[n].count + 1 /\ calls'[n].served = calls[n].served \cup {tid}
  BY <1>1 DEF CallBecomes
<1>4. ASSUME NEW t \in Nat, NothingLeft(n, t) PROVE NothingLeft(n, t)'
  <2>1. CASE calls[n].kind = "static"
    BY <1>3, <1>4, <2>1 DEF NothingLeft, Share
  <2>2. CASE calls[n].kind # "static"
    <3>1. DynamicPiece(MaxIndex, 1, calls[n].count) = {}
      BY <1>4, <2>2 DEF NothingLeft, Share
    <3>2. calls[n].count >= MaxIndex
      <4>1. \A j \in Nat : DynamicPiece(MaxIndex, 1, j) = {} => DynamicDone(MaxIndex, 1, j)
        BY PiecesAreExact, ThreadPoolAssumption
      <4> QED
        BY <1>2, <3>1, <4>1, ThreadPoolAssumption DEF DynamicDone
    <3>3. DynamicPiece(MaxIndex, 1, calls[n].count + 1) = {}
      <4>1. calls[n].count + 1 \in Nat /\ 1 * (calls[n].count + 1) >= MaxIndex
        BY <1>2, <3>2, ThreadPoolAssumption
      <4> QED
        BY <4>1, PiecesAreExact, ThreadPoolAssumption DEF DynamicDone
    <3> QED
      BY <1>3, <2>2, <3>3 DEF NothingLeft, Share
  <2> QED
    BY <2>1, <2>2
<1>5. ASSUME NEW m \in DOMAIN calls, m # n, NEW t \in Nat, NothingLeft(m, t)
      PROVE  NothingLeft(m, t)'
  BY <1>3, <1>5 DEF NothingLeft, Share
<1> QED
  BY <1>4, <1>5

\* If no thread has anything left to run, every index is due.
LEMMA NothingLeftIsDue ==
  ASSUME TypeOK, NEW n \in DOMAIN calls, \A t \in 0 .. calls[n].nthreads - 1 : NothingLeft(n, t)
  PROVE  \A x \in Indices : Due(n, x)
<1> SUFFICES ASSUME NEW x \in Indices PROVE Due(n, x)
  OBVIOUS
<1>1. calls[n] \in Calls
  BY Typed
<1>2. calls[n].nthreads \in Nat \ {0} /\ calls[n].count \in Nat
  BY <1>1 DEF Calls
<1>3. CASE calls[n].kind = "static"
  <2>1. PICK t \in 0 .. calls[n].nthreads - 1 : x \in balance(MaxIndex, calls[n].nthreads, t)
    BY <1>2, SharesCover, ThreadPoolAssumption DEF Indices
  <2>2. NothingLeft(n, t)
    OBVIOUS
  <2> QED
    BY <1>3, <2>1, <2>2 DEF NothingLeft, Share, Due
<1>4. CASE calls[n].kind # "static"
  <2>1. NothingLeft(n, 0)
    BY <1>2
  <2>2. DynamicPiece(MaxIndex, 1, calls[n].count) = {}
    BY <1>4, <2>1 DEF NothingLeft, Share
  <2>3. calls[n].count >= MaxIndex
    <3>1. DynamicDone(MaxIndex, 1, calls[n].count)
      BY <1>2, <2>2, PiecesAreExact, ThreadPoolAssumption
    <3> QED
      BY <1>2, <3>1 DEF DynamicDone
  <2>4. x < calls[n].count
    BY <1>2, <2>3, ThreadPoolAssumption DEF Indices
  <2> QED
    BY <1>4, <2>4 DEF Due
<1> QED
  BY <1>3, <1>4

\* After every step a thread that its client is through with has run all its share.
LEMMA DoneStep ==
  ASSUME StepInv, MutexInv, SettledInv, DoneInv, Next
  PROVE  DoneInv'
<1>1. ASSUME NEW c \in Clients, CallRun(c) PROVE DoneInv'
  <2>1. /\ pool' = pool /\ ClientGoes(c, "run", i[c])
        /\ DOMAIN calls' = 1 .. Len(calls) + 1 /\ \A m \in 1 .. Len(calls) : calls'[m] = calls[m]
    BY <1>1, CallRunEffect
  <2>2. DOMAIN calls = 1 .. Len(calls) /\ Len(calls) \in Nat
    BY Domains DEF StepInv
  <2>3. \A m \in DOMAIN calls : \A t : NothingLeft(m, t) => NothingLeft(m, t)'
    BY <2>1, <2>2 DEF NothingLeft, Share
  <2>4. \A d \in Clients : d # c => call'[d] = call[d]
    <3>1. call \in [Clients -> 0 .. MaxCalls]
      BY ClientTypes DEF StepInv
    <3>2. call' = [call EXCEPT ![c] = Len(calls) + 1]
      BY <1>1 DEF CallRun
    <3> QED
      BY <3>1, <3>2
  <2>5. \A d \in Clients : pc[d] \in {"assign", "main", "wait"} => call[d] \in DOMAIN calls
    BY DEF StepInv, CallInv, InRun
  <2>6. pc'[c] = "run" /\ \A d \in Clients : d # c => pc'[d] = pc[d] /\ i'[d] = i[d]
    BY <2>1 DEF ClientGoes
  <2>7. pool' = pool
    BY <2>1
  <2> QED
    BY <2>3, <2>4, <2>5, <2>6, <2>7 DEF DoneInv
<1>2. ASSUME NEW c \in Clients, CallResize(c) PROVE DoneInv'
  <2>1. /\ pool' = pool /\ calls' = calls /\ call' = call /\ ClientGoes(c, "resize", i[c])
    BY <1>2, CallResizeEffect
  <2>2. \A m, t : NothingLeft(m, t) => NothingLeft(m, t)'
    BY <2>1 DEF NothingLeft, Share
  <2> QED
    BY <2>1, <2>2 DEF DoneInv, ClientGoes
<1>3. ASSUME NEW c \in Clients, Lock(c) PROVE DoneInv'
  <2>1. /\ pool' = pool /\ ClientGoes(c, "assign", 1) /\ DOMAIN pool = 1 .. Len(pool)
    BY <1>3, LockEffect, Domains DEF StepInv
  <2>2. \A d \in Clients : ~HoldsLock(d)
    BY <1>3, LockEffect DEF MutexInv
  <2>3. \A d \in Clients : d # c => pc'[d] \notin {"assign", "main", "wait"}
    BY <2>1, <2>2 DEF ClientGoes, HoldsLock
  <2> QED
    BY <2>1, <2>3 DEF DoneInv, ClientGoes
<1>4. ASSUME NEW c \in Clients, Assign(c) PROVE DoneInv'
  <2>o. \A d \in Clients : d # c => pc'[d] \notin {"assign", "main", "wait"}
    <3>1. \A d \in Clients : d # c => ~HoldsLock(d)
      BY <1>4, AssignEffect, OneInside DEF StepInv, HoldsLock
    <3> QED
      BY <1>4, <3>1, AssignEffect DEF HoldsLock, ClientGoes
  <2>1. /\ DOMAIN pool' = DOMAIN pool /\ \A k \in DOMAIN pool : k # i[c] => pool'[k] = pool[k]
        /\ pool'[i[c]].state = "working" /\ calls' = calls /\ call' = call /\ pc[c] = "assign"
        /\ ClientGoes(c, "assign", i[c] + 1) /\ DOMAIN pool = 1 .. Len(pool) /\ Len(pool) \in Nat
    BY <1>4, AssignEffect, Domains DEF StepInv, ThreadBecomes
  <2>2. \A m, t : NothingLeft(m, t) => NothingLeft(m, t)'
    BY <2>1 DEF NothingLeft, Share
  <2>3. \A k \in DOMAIN pool' : pool'[k].state = "ready" /\ k < i[c] + 1 => pool[k].state = "ready" /\ k < i[c]
    BY <2>1, ClientTypes DEF StepInv
  <2>4. pc'[c] = "assign" /\ i'[c] = i[c] + 1
    BY <2>1 DEF ClientGoes
  <2> QED
    BY <2>o, <2>1, <2>2, <2>3, <2>4 DEF DoneInv
<1>5. ASSUME NEW c \in Clients, AssignRefused(c) \/ ManageBuildFails(c) \/ ManageEscapes(c) PROVE DoneInv'
  <2>1. \A d \in Clients : d # c => ~HoldsLock(d)
    BY <1>5, AbandonEffect, OneInside DEF StepInv, HoldsLock, MutexInv
  <2>2. \A d \in Clients : pc'[d] \notin {"assign", "main", "wait"}
    BY <1>5, <2>1, AbandonEffect DEF HoldsLock, ClientGoes
  <2> QED
    BY <2>2 DEF DoneInv
<1>6. ASSUME NEW c \in Clients, Assigned(c) PROVE DoneInv'
  <2>o. \A d \in Clients : d # c => pc'[d] \notin {"assign", "main", "wait"}
    <3>1. \A d \in Clients : d # c => ~HoldsLock(d)
      BY <1>6, AssignedEffect, OneInside DEF StepInv, HoldsLock
    <3> QED
      BY <1>6, <3>1, AssignedEffect DEF HoldsLock, ClientGoes
  <2>1. /\ pool' = pool /\ calls' = calls /\ call' = call /\ DOMAIN pool = 1 .. Len(pool)
        /\ pc[c] = "assign" /\ i[c] = Len(pool) + 1 /\ Len(pool) \in Nat
    BY <1>6, AssignedEffect, Domains DEF StepInv
  <2>2. \A m, t : NothingLeft(m, t) => NothingLeft(m, t)'
    BY <2>1 DEF NothingLeft, Share
  <2>3. pc'[c] = "main"
    BY <1>6, AssignedEffect DEF ClientGoes
  <2> QED
    BY <2>o, <2>1, <2>2, <2>3 DEF DoneInv
<1>7. ASSUME NEW c \in Clients, Main(c) PROVE DoneInv'
  <2>o. \A d \in Clients : d # c => pc'[d] \notin {"assign", "main", "wait"}
    <3>1. \A d \in Clients : d # c => ~HoldsLock(d)
      BY <1>7, MainEffect, OneInside DEF StepInv, HoldsLock
    <3> QED
      BY <1>7, <3>1, MainEffect DEF HoldsLock
  <2>1. /\ pool' = pool /\ call' = call /\ pc' = pc /\ i' = i /\ DOMAIN pool = 1 .. Len(pool)
        /\ call[c] \in DOMAIN calls /\ CallGains(call[c], 0) /\ pc[c] = "main"
    BY <1>7, MainEffect, Domains DEF StepInv, CallInv, InRun
  <2>2. \A m \in DOMAIN calls, t \in Nat : NothingLeft(m, t) => NothingLeft(m, t)'
    BY <2>1, NothingMore DEF StepInv, CallGains
  <2> QED
    BY <2>o, <2>1, <2>2 DEF DoneInv
<1>8. ASSUME NEW c \in Clients, MainDone(c) PROVE DoneInv'
  <2>o. \A d \in Clients : d # c => pc'[d] \notin {"assign", "main", "wait"}
    <3>1. \A d \in Clients : d # c => ~HoldsLock(d)
      BY <1>8, MainDoneEffect, OneInside DEF StepInv, HoldsLock
    <3> QED
      BY <1>8, <3>1, MainDoneEffect DEF HoldsLock, ClientGoes
  <2>1. /\ pool' = pool /\ calls' = calls /\ call' = call /\ DOMAIN pool = 1 .. Len(pool)
        /\ pc[c] = "main" /\ NothingLeft(call[c], 0)
    BY <1>8, MainDoneEffect, Domains DEF StepInv
  <2>2. \A m, t : NothingLeft(m, t) => NothingLeft(m, t)'
    BY <2>1 DEF NothingLeft, Share
  <2>3. pc'[c] = "wait"
    BY <1>8, MainDoneEffect DEF ClientGoes
  <2> QED
    BY <2>o, <2>1, <2>2, <2>3 DEF DoneInv
<1>9. ASSUME NEW c \in Clients, MainThrows(c) PROVE DoneInv'
  <2>1. \A d \in Clients : d # c => ~HoldsLock(d)
    BY <1>9, MainThrowsEffect, OneInside DEF StepInv, HoldsLock, MutexInv
  <2>2. \A d \in Clients : pc'[d] \notin {"assign", "main", "wait"}
    BY <1>9, <2>1, MainThrowsEffect DEF HoldsLock, ClientGoes
  <2> QED
    BY <2>2 DEF DoneInv
<1>10. ASSUME NEW c \in Clients, MainThrowsOther(c) PROVE DoneInv'
  <2>1. \A d \in Clients : d # c => ~HoldsLock(d)
    BY <1>10, MainThrowsOtherEffect, OneInside DEF StepInv, HoldsLock, MutexInv
  <2>2. \A d \in Clients : pc'[d] \notin {"assign", "main", "wait"}
    BY <1>10, <2>1, MainThrowsOtherEffect DEF HoldsLock, ClientGoes
  <2> QED
    BY <2>2 DEF DoneInv
<1>11. ASSUME NEW c \in Clients, Wait(c) PROVE DoneInv'
  <2>o. \A d \in Clients : d # c => pc'[d] \notin {"assign", "main", "wait"}
    <3>1. \A d \in Clients : d # c => ~HoldsLock(d)
      BY <1>11, WaitEffect, OneInside DEF StepInv, HoldsLock
    <3> QED
      BY <1>11, <3>1, WaitEffect DEF HoldsLock, ClientGoes
  <2>1. pool' = pool /\ calls' = calls /\ call' = call /\ pc[c] = "wait"
    BY <1>11, WaitEffect
  <2>2. \A m, t : NothingLeft(m, t) => NothingLeft(m, t)'
    BY <2>1 DEF NothingLeft, Share
  <2>3. pc'[c] \in {"wait", "manage"}
    BY <1>11, WaitEffect DEF ClientGoes
  <2> QED
    BY <2>o, <2>1, <2>2, <2>3 DEF DoneInv
<1>12. ASSUME NEW c \in Clients, Return(c) PROVE DoneInv'
  <2>1. \A d \in Clients : d # c => ~HoldsLock(d)
    BY <1>12, ReturnEffect, OneInside DEF StepInv, HoldsLock, MutexInv
  <2>2. \A d \in Clients : pc'[d] \notin {"assign", "main", "wait"}
    BY <1>12, <2>1, ReturnEffect DEF HoldsLock, ClientGoes
  <2> QED
    BY <2>2 DEF DoneInv
<1>13. ASSUME NEW c \in Clients, ManageSkip(c) PROVE DoneInv'
  <2>1. \A d \in Clients : d # c => ~HoldsLock(d)
    BY <1>13, ManageSkipEffect, OneInside DEF StepInv, HoldsLock, MutexInv
  <2>2. \A d \in Clients : pc'[d] \notin {"assign", "main", "wait"}
    BY <1>13, <2>1, ManageSkipEffect DEF HoldsLock, ClientGoes
  <2> QED
    BY <2>2 DEF DoneInv
<1>14. ASSUME NEW c \in Clients, ManageRestart(c) PROVE DoneInv'
  <2>1. \A d \in Clients : d # c => ~HoldsLock(d)
    BY <1>14, ManageRestartEffect, OneInside DEF StepInv, HoldsLock, MutexInv
  <2>2. \A d \in Clients : pc'[d] \notin {"assign", "main", "wait"}
    BY <1>14, <2>1, ManageRestartEffect DEF HoldsLock, ClientGoes
  <2> QED
    BY <2>2 DEF DoneInv
<1>15. ASSUME NEW c \in Clients, ManageThrows(c) PROVE DoneInv'
  <2>1. \A d \in Clients : d # c => ~HoldsLock(d)
    BY <1>15, ManageThrowsEffect, OneInside DEF StepInv, HoldsLock, MutexInv
  <2>2. \A d \in Clients : pc'[d] \notin {"assign", "main", "wait"}
    BY <1>15, <2>1, ManageThrowsEffect DEF HoldsLock, ClientGoes
  <2> QED
    BY <2>2 DEF DoneInv
<1>16. ASSUME NEW c \in Clients, ResizeLock(c) PROVE DoneInv'
  <2>1. \A d \in Clients : d # c => ~HoldsLock(d)
    BY <1>16, ResizeLockEffect DEF StepInv, HoldsLock, MutexInv
  <2>2. \A d \in Clients : pc'[d] \notin {"assign", "main", "wait"}
    BY <1>16, <2>1, ResizeLockEffect DEF HoldsLock, ClientGoes
  <2> QED
    BY <2>2 DEF DoneInv
<1>17. ASSUME NEW c \in Clients, Shrink(c) PROVE DoneInv'
  <2>1. \A d \in Clients : d # c => ~HoldsLock(d)
    BY <1>17, ShrinkEffect, OneInside DEF StepInv, HoldsLock, MutexInv
  <2>2. \A d \in Clients : pc'[d] \notin {"assign", "main", "wait"}
    BY <1>17, <2>1, ShrinkEffect DEF HoldsLock
  <2> QED
    BY <2>2 DEF DoneInv
<1>18. ASSUME NEW c \in Clients, Grow(c) PROVE DoneInv'
  <2>1. \A d \in Clients : d # c => ~HoldsLock(d)
    BY <1>18, GrowEffect, OneInside DEF StepInv, HoldsLock, MutexInv
  <2>2. \A d \in Clients : pc'[d] \notin {"assign", "main", "wait"}
    BY <1>18, <2>1, GrowEffect DEF HoldsLock
  <2> QED
    BY <2>2 DEF DoneInv
<1>19. ASSUME NEW c \in Clients, Resized(c) PROVE DoneInv'
  <2>1. \A d \in Clients : d # c => ~HoldsLock(d)
    BY <1>19, ResizedEffect, OneInside DEF StepInv, HoldsLock, MutexInv
  <2>2. \A d \in Clients : pc'[d] \notin {"assign", "main", "wait"}
    BY <1>19, <2>1, ResizedEffect DEF HoldsLock, ClientGoes
  <2> QED
    BY <2>2 DEF DoneInv
<1>20. ASSUME NEW k \in 1 .. Len(pool), Work(k) PROVE DoneInv'
  <2>1. /\ call' = call /\ pc' = pc /\ i' = i /\ DOMAIN pool = 1 .. Len(pool)
        /\ pool[k].call \in DOMAIN calls /\ k \in Nat /\ CallGains(pool[k].call, k)
    BY <1>20, WorkEffect, Domains DEF StepInv, BusyInv
  <2>2. \A m \in DOMAIN calls, t \in Nat : NothingLeft(m, t) => NothingLeft(m, t)'
    BY <2>1, NothingMore DEF StepInv, CallGains
  <2>3. DOMAIN pool' = DOMAIN pool /\ \A m \in DOMAIN pool : pool'[m].state = "ready" => pool[m].state = "ready"
    BY <1>20, WorkEffect, Domains DEF StepInv
  <2>4. \A d \in Clients : pc[d] \in {"assign", "main", "wait"} => call[d] \in DOMAIN calls
    BY DEF StepInv, CallInv, InRun
  <2> QED
    BY <2>1, <2>2, <2>3, <2>4 DEF DoneInv
<1>21. ASSUME NEW k \in 1 .. Len(pool), WorkDone(k) PROVE DoneInv'
  <2>1. /\ call' = call /\ pc' = pc /\ i' = i /\ calls' = calls /\ DOMAIN pool = 1 .. Len(pool)
        /\ NothingLeft(pool[k].call, k) /\ pool[k].state = "working" /\ k \in DOMAIN pool
    BY <1>21, WorkDoneEffect, Domains DEF StepInv
  <2>2. \A m, t : NothingLeft(m, t) => NothingLeft(m, t)'
    BY <2>1 DEF NothingLeft, Share
  <2>3. DOMAIN pool' = DOMAIN pool /\ \A m \in DOMAIN pool : m # k => pool'[m] = pool[m]
    BY <1>21, WorkDoneEffect, Domains DEF StepInv, ThreadBecomes
  <2>4. \A d \in Clients : pc[d] \in {"assign", "main", "wait"} => call[d] = pool[k].call
    <3>1. PICK c \in Clients : Awaits(c, k)
      BY <2>1 DEF SettledInv
    <3>2. \A d \in Clients : HoldsLock(d) => d = c
      BY <3>1, AwaitsHolds, OneInside DEF StepInv
    <3> QED
      BY <3>1, <3>2 DEF HoldsLock, Awaits
  <2> QED
    BY <2>1, <2>2, <2>3, <2>4 DEF DoneInv
<1>22. ASSUME NEW k \in 1 .. Len(pool), WorkThrows(k) PROVE DoneInv'
  <2>1. /\ call' = call /\ pc' = pc /\ i' = i /\ DOMAIN pool = 1 .. Len(pool)
        /\ pool[k].call \in DOMAIN calls /\ k \in Nat /\ CallFails(pool[k].call, k, calls[pool[k].call].outcome)
    BY <1>22, WorkThrowsEffect, Domains DEF StepInv, BusyInv
  <2>2. \A m \in DOMAIN calls, t \in Nat : NothingLeft(m, t) => NothingLeft(m, t)'
    BY <2>1, NothingMore DEF StepInv, CallFails
  <2>3. DOMAIN pool' = DOMAIN pool /\ \A m \in DOMAIN pool : pool'[m].state = "ready" => pool[m].state = "ready"
    BY <1>22, WorkThrowsEffect, Domains DEF StepInv, ThreadBecomes
  <2>4. \A d \in Clients : pc[d] \in {"assign", "main", "wait"} => call[d] \in DOMAIN calls
    BY DEF StepInv, CallInv, InRun
  <2> QED
    BY <2>1, <2>2, <2>3, <2>4 DEF DoneInv
<1> QED
  BY <1>1, <1>2, <1>3, <1>4, <1>5, <1>6, <1>7, <1>8, <1>9, <1>10, <1>11, <1>12, <1>13,
     <1>14, <1>15, <1>16, <1>17, <1>18, <1>19, <1>20, <1>21, <1>22 DEF Next, RunStep,
     ResizeStep, WorkerStep

\* A step after which a call has returned is the end of one whose indices have all
\* been given to a thread.
LEMMA AllDueStep ==
  ASSUME StepInv, MutexInv, SettledInv, FitInv, DoneInv, AllDueInv, Next
  PROVE  AllDueInv'
<1>1. ASSUME NEW c \in Clients, CallRun(c) PROVE AllDueInv'
  <2>1. LET n == Len(calls) + 1 IN
        /\ DOMAIN calls' = 1 .. n /\ \A m \in 1 .. Len(calls) : calls'[m] = calls[m]
        /\ calls'[n].outcome = "running"
    BY <1>1, CallRunEffect
  <2>2. DOMAIN calls = 1 .. Len(calls) /\ Len(calls) \in Nat
    BY Domains DEF StepInv
  <2>3. /\ DOMAIN calls' = DOMAIN calls \cup {Len(calls) + 1}
        /\ \A m \in DOMAIN calls : calls'[m] = calls[m]
    BY <2>1, <2>2
  <2>4. \A m \in DOMAIN calls, x \in Indices : Due(m, x)' <=> Due(m, x)
    BY <2>3 DEF Due
  <2> QED
    BY <2>1, <2>3, <2>4 DEF AllDueInv
<1>2. ASSUME NEW c \in Clients, CallResize(c) PROVE AllDueInv'
  <2>1. calls' = calls
    BY <1>2, CallResizeEffect
  <2> QED
    BY <2>1 DEF AllDueInv, Due
<1>3. ASSUME NEW c \in Clients, Lock(c) PROVE AllDueInv'
  <2>1. calls' = calls
    BY <1>3, LockEffect
  <2> QED
    BY <2>1 DEF AllDueInv, Due
<1>4. ASSUME NEW c \in Clients, Assign(c) PROVE AllDueInv'
  <2>1. calls' = calls
    BY <1>4, AssignEffect
  <2> QED
    BY <2>1 DEF AllDueInv, Due
<1>5. ASSUME NEW c \in Clients, AssignRefused(c) \/ ManageBuildFails(c) \/ ManageEscapes(c) PROVE AllDueInv'
  <2>1. call[c] \in DOMAIN calls
    BY <1>5, AbandonEffect DEF StepInv, CallInv, InRun
  <2>2. /\ DOMAIN calls' = DOMAIN calls
        /\ \A m \in DOMAIN calls :
             /\ calls'[m].kind = calls[m].kind /\ calls'[m].nthreads = calls[m].nthreads
             /\ calls'[m].served = calls[m].served /\ calls'[m].count = calls[m].count
    BY <1>5, <2>1, AbandonEffect, Domains DEF StepInv, CallEnds, CallBecomes
  <2>3. \A m \in DOMAIN calls, x \in Indices : Due(m, x) => Due(m, x)'
    BY <2>2 DEF Due
  <2>4. \A m \in DOMAIN calls : calls'[m].outcome = "ok" => calls[m].outcome = "ok"
    BY <1>5, AbandonEffect, Domains DEF StepInv, CallEnds, CallBecomes
  <2> QED
    BY <2>2, <2>3, <2>4 DEF AllDueInv
<1>6. ASSUME NEW c \in Clients, Assigned(c) PROVE AllDueInv'
  <2>1. calls' = calls
    BY <1>6, AssignedEffect
  <2> QED
    BY <2>1 DEF AllDueInv, Due
<1>7. ASSUME NEW c \in Clients, Main(c) PROVE AllDueInv'
  <2>1. call[c] \in DOMAIN calls /\ 0 \in Nat
    BY <1>7, MainEffect, Domains DEF StepInv, CallInv, InRun, BusyInv
  <2>2. \A m \in DOMAIN calls, x \in Indices : Due(m, x) => Due(m, x)'
    BY <1>7, <2>1, MainEffect, DueGrows DEF StepInv, CallGains
  <2>3. DOMAIN calls' = DOMAIN calls /\ \A m \in DOMAIN calls : calls'[m].outcome \in {calls[m].outcome, "threw"}
    BY <1>7, MainEffect, Domains DEF StepInv, CallGains, CallBecomes
  <2> QED
    BY <2>2, <2>3 DEF AllDueInv
<1>8. ASSUME NEW c \in Clients, MainDone(c) PROVE AllDueInv'
  <2>1. calls' = calls
    BY <1>8, MainDoneEffect
  <2> QED
    BY <2>1 DEF AllDueInv, Due
<1>9. ASSUME NEW c \in Clients, MainThrows(c) PROVE AllDueInv'
  <2>1. call[c] \in DOMAIN calls /\ 0 \in Nat
    BY <1>9, MainThrowsEffect, Domains DEF StepInv, CallInv, InRun, BusyInv
  <2>2. \A m \in DOMAIN calls, x \in Indices : Due(m, x) => Due(m, x)'
    BY <1>9, <2>1, MainThrowsEffect, DueGrows DEF StepInv, CallFails
  <2>3. DOMAIN calls' = DOMAIN calls /\ \A m \in DOMAIN calls : calls'[m].outcome \in {calls[m].outcome, "threw"}
    BY <1>9, MainThrowsEffect, Domains DEF StepInv, CallFails, CallBecomes
  <2> QED
    BY <2>2, <2>3 DEF AllDueInv
<1>10. ASSUME NEW c \in Clients, MainThrowsOther(c) PROVE AllDueInv'
  <2>1. call[c] \in DOMAIN calls /\ 0 \in Nat
    BY <1>10, MainThrowsOtherEffect, Domains DEF StepInv, CallInv, InRun, BusyInv
  <2>2. \A m \in DOMAIN calls, x \in Indices : Due(m, x) => Due(m, x)'
    BY <1>10, <2>1, MainThrowsOtherEffect, DueGrows DEF StepInv, CallFails
  <2>3. DOMAIN calls' = DOMAIN calls /\ \A m \in DOMAIN calls : calls'[m].outcome \in {calls[m].outcome, "threw"}
    BY <1>10, MainThrowsOtherEffect, Domains DEF StepInv, CallFails, CallBecomes
  <2> QED
    BY <2>2, <2>3 DEF AllDueInv
<1>11. ASSUME NEW c \in Clients, Wait(c) PROVE AllDueInv'
  <2>1. calls' = calls
    BY <1>11, WaitEffect
  <2> QED
    BY <2>1 DEF AllDueInv, Due
<1>12. ASSUME NEW c \in Clients, Return(c) PROVE AllDueInv'
  <2>1. call[c] \in DOMAIN calls
    BY <1>12, ReturnEffect DEF StepInv, CallInv, InRun
  <2>2. /\ DOMAIN calls' = DOMAIN calls
        /\ \A m \in DOMAIN calls :
             /\ calls'[m].kind = calls[m].kind /\ calls'[m].nthreads = calls[m].nthreads
             /\ calls'[m].served = calls[m].served /\ calls'[m].count = calls[m].count
    BY <1>12, <2>1, ReturnEffect, Domains DEF StepInv, CallEnds, CallBecomes
  <2>3. \A m \in DOMAIN calls, x \in Indices : Due(m, x) => Due(m, x)'
    BY <2>2 DEF Due
  <2>4. \A m \in DOMAIN calls : calls'[m].outcome = "ok" => calls[m].outcome = "ok" \/ m = call[c]
    BY <1>12, ReturnEffect, Domains DEF StepInv, CallEnds, CallBecomes
  <2>5. \A x \in Indices : Due(call[c], x)
    <3>1. \A k \in DOMAIN pool : ~Awaits(c, k)
      BY <1>12, ReturnEffect, Domains, ClientTypes DEF StepInv, Awaits
    <3>2. \A d \in Clients, k \in DOMAIN pool : Awaits(d, k) => d = c
      BY <1>12, ReturnEffect, AwaitsHolds, OneInside DEF StepInv, HoldsLock
    <3>3. \A k \in DOMAIN pool : pool[k].state = "ready"
      BY <3>1, <3>2 DEF SettledInv
    <3>4. pc[c] = "wait" /\ InRun(c)
      BY <1>12, ReturnEffect DEF InRun
    <3>5. NothingLeft(call[c], 0) /\ \A k \in DOMAIN pool : NothingLeft(call[c], k)
      BY <3>3, <3>4 DEF DoneInv
    <3>6. calls[call[c]].nthreads <= Len(pool) + 1 /\ DOMAIN pool = 1 .. Len(pool) /\ Len(pool) \in Nat
          /\ calls[call[c]].nthreads \in Nat
      BY <2>1, <3>4, Typed DEF StepInv, FitInv, size, Calls
    <3>7. \A t \in 0 .. calls[call[c]].nthreads - 1 : NothingLeft(call[c], t)
      BY <3>5, <3>6
    <3> QED
      BY <2>1, <3>7, NothingLeftIsDue DEF StepInv
  <2> QED
    BY <2>2, <2>3, <2>4, <2>5 DEF AllDueInv
<1>13. ASSUME NEW c \in Clients, ManageSkip(c) PROVE AllDueInv'
  <2>1. calls' = calls
    BY <1>13, ManageSkipEffect
  <2> QED
    BY <2>1 DEF AllDueInv, Due
<1>14. ASSUME NEW c \in Clients, ManageRestart(c) PROVE AllDueInv'
  <2>1. calls' = calls
    BY <1>14, ManageRestartEffect
  <2> QED
    BY <2>1 DEF AllDueInv, Due
<1>15. ASSUME NEW c \in Clients, ManageThrows(c) PROVE AllDueInv'
  <2>1. call[c] \in DOMAIN calls
    BY <1>15, ManageThrowsEffect DEF StepInv, CallInv, InRun
  <2>2. /\ DOMAIN calls' = DOMAIN calls
        /\ \A m \in DOMAIN calls :
             /\ calls'[m].kind = calls[m].kind /\ calls'[m].nthreads = calls[m].nthreads
             /\ calls'[m].served = calls[m].served /\ calls'[m].count = calls[m].count
    BY <1>15, <2>1, ManageThrowsEffect, Domains DEF StepInv, CallEnds, CallBecomes
  <2>3. \A m \in DOMAIN calls, x \in Indices : Due(m, x) => Due(m, x)'
    BY <2>2 DEF Due
  <2>4. \A m \in DOMAIN calls : calls'[m].outcome = "ok" => calls[m].outcome = "ok"
    BY <1>15, ManageThrowsEffect, Domains DEF StepInv, CallEnds, CallBecomes
  <2> QED
    BY <2>2, <2>3, <2>4 DEF AllDueInv
<1>16. ASSUME NEW c \in Clients, ResizeLock(c) PROVE AllDueInv'
  <2>1. calls' = calls
    BY <1>16, ResizeLockEffect
  <2> QED
    BY <2>1 DEF AllDueInv, Due
<1>17. ASSUME NEW c \in Clients, Shrink(c) PROVE AllDueInv'
  <2>1. calls' = calls
    BY <1>17, ShrinkEffect
  <2> QED
    BY <2>1 DEF AllDueInv, Due
<1>18. ASSUME NEW c \in Clients, Grow(c) PROVE AllDueInv'
  <2>1. calls' = calls
    BY <1>18, GrowEffect
  <2> QED
    BY <2>1 DEF AllDueInv, Due
<1>19. ASSUME NEW c \in Clients, Resized(c) PROVE AllDueInv'
  <2>1. calls' = calls
    BY <1>19, ResizedEffect
  <2> QED
    BY <2>1 DEF AllDueInv, Due
<1>20. ASSUME NEW k \in 1 .. Len(pool), Work(k) PROVE AllDueInv'
  <2>1. pool[k].call \in DOMAIN calls /\ k \in Nat
    BY <1>20, WorkEffect, Domains DEF StepInv, CallInv, InRun, BusyInv
  <2>2. \A m \in DOMAIN calls, x \in Indices : Due(m, x) => Due(m, x)'
    BY <1>20, <2>1, WorkEffect, DueGrows DEF StepInv, CallGains
  <2>3. DOMAIN calls' = DOMAIN calls /\ \A m \in DOMAIN calls : calls'[m].outcome \in {calls[m].outcome, "threw"}
    BY <1>20, WorkEffect, Domains DEF StepInv, CallGains, CallBecomes
  <2> QED
    BY <2>2, <2>3 DEF AllDueInv
<1>21. ASSUME NEW k \in 1 .. Len(pool), WorkDone(k) PROVE AllDueInv'
  <2>1. calls' = calls
    BY <1>21, WorkDoneEffect
  <2> QED
    BY <2>1 DEF AllDueInv, Due
<1>22. ASSUME NEW k \in 1 .. Len(pool), WorkThrows(k) PROVE AllDueInv'
  <2>1. pool[k].call \in DOMAIN calls /\ k \in Nat
    BY <1>22, WorkThrowsEffect, Domains DEF StepInv, CallInv, InRun, BusyInv
  <2>2. \A m \in DOMAIN calls, x \in Indices : Due(m, x) => Due(m, x)'
    BY <1>22, <2>1, WorkThrowsEffect, DueGrows DEF StepInv, CallFails
  <2>3. DOMAIN calls' = DOMAIN calls /\ \A m \in DOMAIN calls : calls'[m].outcome \in {calls[m].outcome, "threw"}
    BY <1>22, WorkThrowsEffect, Domains DEF StepInv, CallFails, CallBecomes
  <2> QED
    BY <2>2, <2>3 DEF AllDueInv
<1> QED
  BY <1>1, <1>2, <1>3, <1>4, <1>5, <1>6, <1>7, <1>8, <1>9, <1>10, <1>11, <1>12, <1>13,
     <1>14, <1>15, <1>16, <1>17, <1>18, <1>19, <1>20, <1>21, <1>22 DEF Next, RunStep,
     ResizeStep, WorkerStep

-----------------------------------------------------------------------------
(* What a call promises on its return.                                     *)

\* What depends on the number of threads holds in a new pool.
LEMMA LoneInit ==
  ASSUME Init
  PROVE  LoneInv /\ FitInv /\ TeamInv /\ CoverInv /\ DoneInv /\ AllDueInv
<1>1. /\ \A c \in Clients : pc[c] = "idle"
      /\ calls = <<>> /\ DOMAIN calls = {} /\ Len(pool) = InitialSize - 1
      /\ \A k \in DOMAIN pool : pool[k] = Ready
  BY ThreadPoolAssumption DEF Init
<1>2. Ready.state = "ready"
  BY DEF Ready
<1>3. size = InitialSize
  BY <1>1, ThreadPoolAssumption DEF size
<1>4. LoneInv /\ FitInv
  BY <1>1, <1>3, ThreadPoolAssumption DEF LoneInv, FitInv, NeverAlone, OnlyGrows, InRun
<1> QED
  BY <1>1, <1>2, <1>4 DEF TeamInv, CoverInv, DoneInv, AllDueInv

\* If a call that was made for one thread never finds a team, then no index is given
\* to two threads, and one that was given out has run exactly once if nothing failed.
THEOREM PoolCovers ==
  ASSUME StaysAlone
  PROVE  Spec => [](LoneInv /\ TeamInv /\ CoverInv)
<1>1. BaseInv /\ LoneInv /\ TeamInv /\ CoverInv /\ [Next]_vars => (LoneInv /\ TeamInv /\ CoverInv)'
  <2>1. CASE BaseInv /\ LoneInv /\ TeamInv /\ CoverInv /\ Next
    BY <2>1, LoneStep, TeamStep, CoverStep DEF BaseInv, StepInv
  <2>2. CASE LoneInv /\ TeamInv /\ CoverInv /\ UNCHANGED vars
    BY <2>2 DEF vars, LoneInv, TeamInv, CoverInv, Due, InRun, size
  <2> QED
    BY <2>1, <2>2
<1> QED
  BY <1>1, LoneInit, PoolInvariant, PTL DEF Spec

\* Then, whatever jobs throw and even if threads cannot be started: a call that
\* returns normally has lost no exception, and no index of it was run twice.
THEOREM NothingIsSwallowed ==
  ASSUME StaysAlone
  PROVE  Spec => []NothingSwallowed
<1>1. BaseInv /\ CoverInv => NothingSwallowed
  <2> SUFFICES ASSUME BaseInv, CoverInv PROVE NothingSwallowed
    OBVIOUS
  <2>1. \A n \in DOMAIN calls, x \in Indices : calls[n].covered[x] <= 1
    <3> SUFFICES ASSUME NEW n \in DOMAIN calls, NEW x \in Indices PROVE calls[n].covered[x] <= 1
      OBVIOUS
    <3>1. calls[n] \in Calls
      BY Typed DEF BaseInv
    <3>2. calls[n].covered \in [Indices -> Nat]
      BY <3>1 DEF Calls
    <3>3. calls[n].covered[x] <= IF Due(n, x) THEN 1 ELSE 0
      BY DEF CoverInv
    <3> QED
      BY <3>2, <3>3
  <2> QED
    BY <2>1 DEF BaseInv, FailInv, NothingSwallowed
<1> QED
  BY <1>1, PoolInvariant, PoolCovers, PTL

\* If exceptions can be recovered from and a call finds the threads it was partitioned
\* for, all indices have been given to a thread when a call returns.
THEOREM PoolCompletes ==
  ASSUME Recoverable, StaysLarge
  PROVE  Spec => [](FitInv /\ DoneInv /\ AllDueInv)
<1>1. BaseInv /\ SettledInv /\ FitInv /\ DoneInv /\ AllDueInv /\ [Next]_vars
      => (FitInv /\ DoneInv /\ AllDueInv)'
  <2>1. CASE BaseInv /\ SettledInv /\ FitInv /\ DoneInv /\ AllDueInv /\ Next
    BY <2>1, FitStep, DoneStep, AllDueStep DEF BaseInv, StepInv
  <2>2. CASE FitInv /\ DoneInv /\ AllDueInv /\ UNCHANGED vars
    BY <2>2 DEF vars, FitInv, DoneInv, NothingLeft, Share, AllDueInv, Due, InRun, size
  <2> QED
    BY <2>1, <2>2
<1> QED
  BY <1>1, LoneInit, PoolInvariant, PoolSettles, PTL DEF Spec

\* Then a call of run returns normally exactly if nothing failed in it, with every
\* index run exactly once, and throws otherwise, whatever the other clients do.
THEOREM CallsAreTruthful ==
  ASSUME Recoverable, StaysLarge
  PROVE  Spec => []CallsEndTruthfully
<1>1. StaysAlone
  BY ThreadPoolAssumption DEF StaysLarge, StaysAlone, OnlyGrows, NeverAlone
<1>2. BaseInv /\ SettledInv /\ CoverInv /\ AllDueInv => CallsEndTruthfully
  <2> SUFFICES ASSUME BaseInv, SettledInv, CoverInv, AllDueInv PROVE CallsEndTruthfully
    OBVIOUS
  <2>1. \A n \in DOMAIN calls : calls[n].outcome \in {"running", "ok", "threw"}
    BY Typed DEF BaseInv, Calls
  <2>2. NormalReturnComplete
    BY DEF BaseInv, FailInv, CoverInv, AllDueInv, NormalReturnComplete
  <2>3. FailureIsReported
    BY <2>1 DEF BaseInv, FailInv, SettledInv, FailureIsReported, Running
  <2> QED
    BY <2>2, <2>3 DEF BaseInv, CallsEndTruthfully
<1> QED
  BY <1>1, <1>2, PoolInvariant, PoolSettles, PoolCovers, PoolCompletes, PTL

=============================================================================
