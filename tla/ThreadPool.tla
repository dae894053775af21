----------------------------- MODULE ThreadPool -----------------------------
(***************************************************************************)
(* A thread pool and the clients that share it: threads::run and           *)
(* NativeThreadPoolBase of include/svs/lib/threads/threadpool.h with the   *)
(* thunks of thunks.h that split an index space over the threads.          *)
(*                                                                         *)
(* A pool thread is an abstract job server, which is what ThreadControl    *)
(* refines: it takes a job, ends it or crashes in it.  The function a call *)
(* runs lives on its client's stack until the call returns or throws.      *)
(* Bounds: MaxCalls calls in all, an index space of MaxIndex indices.      *)
(***************************************************************************)
EXTENDS Sequences, FiniteSetsExt, Partition

CONSTANTS
  Clients,      \* threads that call run on the pool
  Resizers,     \* those of them that also resize it
  Sizes,        \* the sizes they ask for
  InitialSize,  \* num_threads at construction
  MaxIndex,     \* size of the partitioned index space
  MaxCalls,     \* bound on the number of calls
  Exceptions,   \* what a job may throw: "std" (a std::exception), "other"
  BuilderFails  \* whether starting a thread may fail

ASSUME ThreadPoolAssumption ==
  /\ Resizers \subseteq Clients
  /\ Sizes \subseteq Nat
  /\ InitialSize \in Nat \ {0}
  /\ MaxIndex \in Nat
  /\ MaxCalls \in Nat
  /\ Exceptions \subseteq {"std", "other"}
  /\ BuilderFails \in BOOLEAN

VARIABLES
  pool,     \* threads_: pool[k] is the thread with id k; the client itself is 0
  holder,   \* the client in the critical section of use_mutex_, or {}
  pc, i,    \* per client: where it is, and its loop variable
  call,     \* per client: the number of its current call
  calls,    \* the calls so far
  terminated

vars == <<pool, holder, pc, i, call, calls, terminated>>

Indices == 0 .. MaxIndex - 1

\* `valid` says whether the future still has the exception.
Ready == [state |-> "ready", call |-> 0, exception |-> "none", valid |-> TRUE]

size == Len(pool) + 1

Init ==
  /\ pool = [k \in 1 .. InitialSize - 1 |-> Ready]
  /\ holder = {}
  /\ pc = [c \in Clients |-> "idle"]
  /\ i = [c \in Clients |-> 0]
  /\ call = [c \in Clients |-> 0]
  /\ calls = <<>>
  /\ terminated = FALSE

Busy(k) == pool[k].state = "working"

-----------------------------------------------------------------------------
(* Executing the function of a call.                                       *)

\* What thread tid runs of call n, all at once for a static partition and piece
\* by piece for a dynamic one.
Share(n, tid) ==
  IF calls[n].kind = "static"
  THEN balance(MaxIndex, calls[n].nthreads, tid)
  ELSE DynamicPiece(MaxIndex, 1, calls[n].count)

\* Thread tid has nothing (more) to run.
NothingLeft(n, tid) ==
  \/ calls[n].kind = "static" /\ tid \in calls[n].served
  \/ Share(n, tid) = {}

\* calls[n] after thread tid has run its share.
Served(n, tid) ==
  [calls[n] EXCEPT
     !.covered = [x \in Indices |-> @[x] + (IF x \in Share(n, tid) THEN 1 ELSE 0)],
     !.count = @ + 1,
     !.served = @ \cup {tid}]

\* calls[n] after its share made thread tid throw.
Failed(n, tid) ==
  [calls[n] EXCEPT !.count = @ + 1, !.served = @ \cup {tid}, !.failed = TRUE]

-----------------------------------------------------------------------------
(* run                                                                     *)

At(c, where) == pc[c] = where

Goto(c, where) == pc' = [pc EXCEPT ![c] = where]

\* Move on to the thread k of a loop over the threads.
Visit(c, k) == i' = [i EXCEPT ![c] = k]

\* Mutant: a mutex that is not given up.
LeaveLocked(c, how) ==
  /\ Goto(c, "idle")
  /\ UNCHANGED holder
  /\ calls' = [calls EXCEPT ![call[c]].outcome = how]

\* The call of client c returns or throws: the guard gives up use_mutex_ and the
\* function goes out of scope.
Leave(c, how) ==
  /\ Goto(c, "idle")
  /\ holder' = {}
  /\ calls' = [calls EXCEPT ![call[c]].outcome = how]

\* threads::run reads pool.size() for the partition before it enters the pool.
CallRun(c) ==
  /\ At(c, "idle")
  /\ Len(calls) < MaxCalls
  /\ \E kind \in {"static", "dynamic"} :
       calls' = Append(calls,
         [kind |-> kind, nthreads |-> size, count |-> 0, served |-> {},
          covered |-> [x \in Indices |-> 0], failed |-> FALSE,
          outcome |-> "running"])
  /\ call' = [call EXCEPT ![c] = Len(calls) + 1]
  /\ Goto(c, "run")
  /\ UNCHANGED <<pool, holder, i, terminated>>

Lock(c) ==
  /\ At(c, "run")
  /\ holder = {}
  /\ holder' = {c}
  /\ Goto(c, "assign")
  /\ Visit(c, 1)
  /\ UNCHANGED <<pool, call, calls, terminated>>

Assign(c) ==
  /\ At(c, "assign")
  /\ i[c] <= Len(pool)
  /\ pool[i[c]].state = "ready"
  /\ pool' = [pool EXCEPT ![i[c]].state = "working", ![i[c]].call = call[c]]
  /\ Visit(c, i[c] + 1)
  /\ UNCHANGED <<holder, pc, call, calls, terminated>>

\* A thread that crashed earlier refuses the job.  The error leaves run, whatever the
\* threads before this one are doing.
AssignRefused(c) ==
  /\ At(c, "assign")
  /\ i[c] <= Len(pool)
  /\ pool[i[c]].state = "crashed"
  /\ pool' = [pool EXCEPT ![i[c]].valid = FALSE]
  /\ Leave(c, "threw")
  /\ UNCHANGED <<i, call, terminated>>

Assigned(c) ==
  /\ At(c, "assign")
  /\ i[c] > Len(pool)
  /\ Goto(c, "main")
  /\ UNCHANGED <<pool, holder, i, call, calls, terminated>>

\* f(0)
Main(c) ==
  /\ At(c, "main")
  /\ ~NothingLeft(call[c], 0)
  /\ calls' = [calls EXCEPT ![call[c]] = Served(call[c], 0)]
  /\ UNCHANGED <<pool, holder, pc, i, call, terminated>>

MainDone(c) ==
  /\ At(c, "main")
  /\ NothingLeft(call[c], 0)
  /\ Goto(c, "wait")
  /\ Visit(c, 1)
  /\ UNCHANGED <<pool, holder, call, calls, terminated>>

MainThrows(c) ==
  /\ At(c, "main")
  /\ ~NothingLeft(call[c], 0)
  /\ "std" \in Exceptions
  /\ calls' = [calls EXCEPT ![call[c]] = Failed(call[c], 0)]
  /\ Goto(c, "manage")
  /\ Visit(c, 1)
  /\ UNCHANGED <<pool, holder, call, terminated>>

\* Only std::exception is caught: anything else leaves run at once.
MainThrowsOther(c) ==
  /\ At(c, "main")
  /\ ~NothingLeft(call[c], 0)
  /\ "other" \in Exceptions
  /\ calls' = [calls EXCEPT ![call[c]] = [Failed(call[c], 0) EXCEPT !.outcome = "threw"]]
  /\ Goto(c, "idle")
  /\ holder' = {}
  /\ UNCHANGED <<pool, i, call, terminated>>

\* Mutant: looks at the thread without waiting for it.
WaitForNothing(c) ==
  /\ At(c, "wait")
  /\ i[c] <= Len(pool)
  /\ \/ /\ pool[i[c]].state # "crashed"
        /\ Visit(c, i[c] + 1)
        /\ UNCHANGED pc
     \/ /\ pool[i[c]].state = "crashed"
        /\ Goto(c, "manage")
        /\ Visit(c, 1)
  /\ UNCHANGED <<pool, holder, call, calls, terminated>>

\* Mutant: does not ask whether the thread is okay.
WaitOnly(c) ==
  /\ At(c, "wait")
  /\ i[c] <= Len(pool)
  /\ ~Busy(i[c])
  /\ Visit(c, i[c] + 1)
  /\ UNCHANGED <<pool, holder, pc, call, calls, terminated>>

Wait(c) ==
  /\ At(c, "wait")
  /\ i[c] <= Len(pool)
  /\ ~Busy(i[c])
  /\ \/ /\ pool[i[c]].state # "crashed"
        /\ Visit(c, i[c] + 1)
        /\ UNCHANGED pc
     \/ /\ pool[i[c]].state = "crashed"
        /\ Goto(c, "manage")
        /\ Visit(c, 1)
  /\ UNCHANGED <<pool, holder, call, calls, terminated>>

Return(c) ==
  /\ At(c, "wait")
  /\ i[c] > Len(pool)
  /\ Leave(c, "ok")
  /\ UNCHANGED <<pool, i, call, terminated>>

-----------------------------------------------------------------------------
(* manage_exception_during_run                                             *)

\* Mutant: does not wait for the threads that still work.
ManageSkipBusy(c) ==
  /\ At(c, "manage")
  /\ i[c] <= Len(pool)
  /\ pool[i[c]].state # "crashed"
  /\ Visit(c, i[c] + 1)
  /\ UNCHANGED <<pool, holder, pc, call, calls, terminated>>

\* Mutant: the loop does not move on.
ManageStuck(c) ==
  /\ At(c, "manage")
  /\ i[c] <= Len(pool)
  /\ pool[i[c]].state = "ready"
  /\ UNCHANGED vars

ManageSkip(c) ==
  /\ At(c, "manage")
  /\ i[c] <= Len(pool)
  /\ pool[i[c]].state = "ready"
  /\ Visit(c, i[c] + 1)
  /\ UNCHANGED <<pool, holder, pc, call, calls, terminated>>

\* The exception is a std::exception, or the future has been read already, which
\* is reported as one.
Reportable(k) == pool[k].exception = "std" \/ ~pool[k].valid

\* Mutant: reads the exception and leaves the thread as it is.
ManageNoRestart(c) ==
  /\ At(c, "manage")
  /\ i[c] <= Len(pool)
  /\ pool[i[c]].state = "crashed"
  /\ Reportable(i[c])
  /\ pool' = [pool EXCEPT ![i[c]].valid = FALSE]
  /\ Visit(c, i[c] + 1)
  /\ UNCHANGED <<holder, pc, call, calls, terminated>>

ManageRestart(c) ==
  /\ At(c, "manage")
  /\ i[c] <= Len(pool)
  /\ pool[i[c]].state = "crashed"
  /\ Reportable(i[c])
  /\ pool' = [pool EXCEPT ![i[c]] = Ready]
  /\ Visit(c, i[c] + 1)
  /\ UNCHANGED <<holder, pc, call, calls, terminated>>

\* The new thread does not start.  The old one stays: joined, its future read, and
\* still in the state Exception.
ManageBuildFails(c) ==
  /\ BuilderFails
  /\ At(c, "manage")
  /\ i[c] <= Len(pool)
  /\ pool[i[c]].state = "crashed"
  /\ Reportable(i[c])
  /\ pool' = [pool EXCEPT ![i[c]].valid = FALSE]
  /\ Leave(c, "threw")
  /\ UNCHANGED <<i, call, terminated>>

\* unsafe_get_exception rethrows something that is not a std::exception.
ManageEscapes(c) ==
  /\ At(c, "manage")
  /\ i[c] <= Len(pool)
  /\ pool[i[c]].state = "crashed"
  /\ ~Reportable(i[c])
  /\ pool' = [pool EXCEPT ![i[c]].valid = FALSE]
  /\ Leave(c, "threw")
  /\ UNCHANGED <<i, call, terminated>>

\* throw ThreadingException
ManageThrows(c) ==
  /\ At(c, "manage")
  /\ i[c] > Len(pool)
  /\ Leave(c, "threw")
  /\ UNCHANGED <<pool, i, call, terminated>>

-----------------------------------------------------------------------------
(* resize                                                                  *)

CallResize(c) ==
  /\ c \in Resizers
  /\ At(c, "idle")
  /\ Goto(c, "resize")
  /\ UNCHANGED <<pool, holder, i, call, calls, terminated>>

\* Takes the lock, and keeps in i the size asked for.
ResizeLock(c) ==
  /\ At(c, "resize")
  /\ holder = {}
  /\ holder' = {c}
  /\ \E new_size \in Sizes : Visit(c, MaxOf(new_size, 1))
  /\ Goto(c, "resizing")
  /\ UNCHANGED <<pool, call, calls, terminated>>

\* The destructors of the superfluous threads wait for their jobs.  A destructor
\* that reads an exception out of the future takes the program down.
Shrink(c) ==
  /\ At(c, "resizing")
  /\ i[c] < size
  /\ \A k \in i[c] .. Len(pool) : ~Busy(k)
  /\ terminated' = (\E k \in i[c] .. Len(pool) : pool[k].state = "crashed" /\ pool[k].valid)
  /\ pool' = SubSeq(pool, 1, i[c] - 1)
  /\ UNCHANGED <<holder, pc, i, call, calls>>

Grow(c) ==
  /\ At(c, "resizing")
  /\ i[c] > size
  /\ pool' = Append(pool, Ready)
  /\ UNCHANGED <<holder, pc, i, call, calls, terminated>>

Resized(c) ==
  /\ At(c, "resizing")
  /\ i[c] = size \/ (BuilderFails /\ i[c] > size)
  /\ Goto(c, "idle")
  /\ holder' = {}
  /\ UNCHANGED <<pool, i, call, calls, terminated>>

-----------------------------------------------------------------------------
(* The pool's threads.                                                     *)

\* Thread k runs its share, or the next piece of it.
Work(k) ==
  /\ Busy(k)
  /\ ~NothingLeft(pool[k].call, k)
  /\ calls' = [calls EXCEPT ![pool[k].call] = Served(pool[k].call, k)]
  /\ UNCHANGED <<pool, holder, pc, i, call, terminated>>

WorkDone(k) ==
  /\ Busy(k)
  /\ NothingLeft(pool[k].call, k)
  /\ pool' = [pool EXCEPT ![k] = Ready]
  /\ UNCHANGED <<holder, pc, i, call, calls, terminated>>

WorkThrows(k) ==
  /\ Busy(k)
  /\ ~NothingLeft(pool[k].call, k)
  /\ \E e \in Exceptions :
       pool' = [pool EXCEPT ![k].state = "crashed", ![k].exception = e]
  /\ calls' = [calls EXCEPT ![pool[k].call] = Failed(pool[k].call, k)]
  /\ UNCHANGED <<holder, pc, i, call, terminated>>

-----------------------------------------------------------------------------
RunStep(c) ==
  \/ Lock(c) \/ Assign(c) \/ AssignRefused(c) \/ Assigned(c)
  \/ Main(c) \/ MainDone(c) \/ MainThrows(c) \/ MainThrowsOther(c)
  \/ Wait(c) \/ Return(c)
  \/ ManageSkip(c) \/ ManageRestart(c) \/ ManageBuildFails(c) \/ ManageEscapes(c)
  \/ ManageThrows(c)

ResizeStep(c) == ResizeLock(c) \/ Shrink(c) \/ Grow(c) \/ Resized(c)

WorkerStep(k) == Work(k) \/ WorkDone(k) \/ WorkThrows(k)

Next ==
  /\ ~terminated
  /\ \/ \E c \in Clients : CallRun(c) \/ CallResize(c) \/ RunStep(c) \/ ResizeStep(c)
     \/ \E k \in 1 .. Len(pool) : WorkerStep(k)

\* Clients and threads keep running; nobody has to make a call.  The mutex is
\* held for a bounded number of steps, so weak fairness is enough to get it.
Fairness ==
  /\ \A c \in Clients : WF_vars(RunStep(c)) /\ WF_vars(ResizeStep(c))
  /\ \A k \in 1 .. MaxOf(InitialSize, Max(Sizes \cup {0})) :
       WF_vars(k <= Len(pool) /\ WorkerStep(k))

Spec == Init /\ [][Next]_vars /\ Fairness

-----------------------------------------------------------------------------
(* Properties.                                                             *)

Threads == [state : {"ready", "working", "crashed"}, call : 0 .. MaxCalls,
            exception : Exceptions \cup {"none"}, valid : BOOLEAN]

Calls == [kind : {"static", "dynamic"}, nthreads : Nat \ {0}, count : Nat,
          served : SUBSET Nat, covered : [Indices -> Nat],
          failed : BOOLEAN, outcome : {"running", "ok", "threw"}]

Places == {"idle", "run", "assign", "main", "wait", "manage", "resize", "resizing"}

TypeOK ==
  /\ pool \in Seq(Threads)
  /\ holder \in {{}} \cup {{c} : c \in Clients}
  /\ pc \in [Clients -> Places]
  /\ i \in [Clients -> Nat]
  /\ call \in [Clients -> 0 .. MaxCalls]
  /\ calls \in Seq(Calls)
  /\ Len(calls) <= MaxCalls
  /\ terminated \in BOOLEAN

Running(n) == calls[n].outcome = "running"

\* A call of run that returns has run every index of its space exactly once,
\* whatever the other clients did meanwhile.
NormalReturnComplete ==
  \A n \in DOMAIN calls : calls[n].outcome = "ok" =>
    \A x \in Indices : calls[n].covered[x] = 1

\* An exception in any thread makes the call that caused it throw, and no other.
FailureIsReported ==
  \A n \in DOMAIN calls : ~Running(n) =>
    (calls[n].failed <=> calls[n].outcome = "threw")

\* A call returns normally exactly if nothing failed in it, and then every index was run
\* exactly once, whatever the calls of the other clients do to the shared threads.
CallsEndTruthfully == TypeOK /\ NormalReturnComplete /\ FailureIsReported

\* No thread still runs the function of a call that is over: the function is on
\* the stack of the client and is gone by then.
QuiescentOnReturn ==
  \A k \in DOMAIN pool : Busy(k) => Running(pool[k].call)

\* Whenever the pool is free, it is as good as new: all its threads are there and
\* wait for work, also after a call in which they crashed.
PoolIsRestored ==
  holder = {} => \A k \in DOMAIN pool : pool[k].state = "ready"

\* Whatever a job throws, and even if threads cannot be restarted: a call that
\* returns normally has lost no exception, and no index is ever run twice.
NothingSwallowed ==
  \A n \in DOMAIN calls :
    /\ calls[n].outcome = "ok" => ~calls[n].failed
    /\ \A x \in Indices : calls[n].covered[x] <= 1

\* Every run and every resize returns or throws.
CallsReturn ==
  \A c \in Clients : pc[c] # "idle" ~> pc[c] = "idle" \/ terminated
=============================================================================
