---------------------------- MODULE ThreadControl ----------------------------
(***************************************************************************)
(* One worker thread and the thread that controls it:                      *)
(* ThreadControlBlock and ThreadImpl of include/svs/lib/threads/thread.h.  *)
(*                                                                         *)
(* The two share the atomic `threadstate`, the job slot `fn`, a mutex with *)
(* a condition variable on which the worker sleeps, and the promise the    *)
(* worker leaves behind when it exits.  Each action is one atomic access   *)
(* of one of them, so every interleaving of the two threads is a           *)
(* behaviour.  The controller is sequential (ThreadImpl is not a shared    *)
(* object): it calls assign, wait, unsafe_get_exception and shutdown in    *)
(* any order.  The number of assign calls is bounded by MaxAssigns.        *)
(***************************************************************************)
EXTENDS Naturals, Sequences

CONSTANT MaxAssigns

ASSUME MaxAssignsAssumption == MaxAssigns \in Nat

ThreadState ==
  {"Working", "Spinning", "Sleeping", "Exception", "RequestShutdown", "Shutdown"}

boot_state == "Shutdown"

Jobs == 1 .. MaxAssigns

NoJob == 0

VARIABLES
  threadstate,  \* the atomic control variable
  fn,           \* the job slot, written by assign and read by the worker
  cv_mutex,     \* "free" or "worker": the controller never keeps it for a step
  result,       \* shared state of promise and future: "empty", "value", "exception"
  future_valid, \* the controller has not consumed the future yet
  terminated,   \* std::terminate was called
  \* the controller
  cpc, op, current, outcome, calls,
  \* the worker
  wpc, request,
  \* history: jobs whose assign succeeded, jobs run to their end, jobs refused
  accepted, executed, refused

shared  == <<threadstate, fn, cv_mutex, result, future_valid, terminated>>
control == <<cpc, op, current, outcome, calls>>
worker  == <<wpc, request>>
history == <<accepted, executed, refused>>
vars    == <<shared, control, worker, history>>

-----------------------------------------------------------------------------
(* Program counters.                                                       *)

ControlPC ==
  {"construct", "idle", "wait", "set_work", "cas", "lock", "notify", "rollback",
   "get_exception", "join"}

WorkerPC ==
  {"boot", "spin", "lock", "try_cas", "predicate", "block", "blocked", "woken",
   "reread", "dispatch", "run", "done", "crash", "set_exception", "set_value",
   "shut", "exiting", "exited"}

Ops == {"none", "assign", "wait", "get_exception", "request_shutdown", "shutdown"}

Outcomes == {"none", "ok", "ANNException", "ThreadError", "exception"}

\* The worker holds cv_mutex exactly at these points of try_sleep.
HoldsMutex == wpc \in {"try_cas", "predicate", "block"}

\* The job taken by the controller's current assign call.
Job == calls

\* The state the controller's compare-and-swap installs.
Target == IF op = "assign" THEN "Working" ELSE "RequestShutdown"

Init ==
  /\ threadstate = boot_state
  /\ fn = NoJob
  /\ cv_mutex = "free"
  /\ result = "empty"
  /\ future_valid = TRUE
  /\ terminated = FALSE
  /\ cpc = "construct" /\ op = "none" /\ current = boot_state
  /\ outcome = "none" /\ calls = 0
  /\ wpc = "boot" /\ request = "Spinning"
  /\ accepted = <<>> /\ executed = <<>> /\ refused = {}

-----------------------------------------------------------------------------
(* The controller.                                                         *)

Return(how) ==
  /\ cpc' = "idle"
  /\ op' = "none"
  /\ outcome' = how

\* The call is not over yet.
GoOn(pc) ==
  /\ cpc' = pc
  /\ UNCHANGED <<op, outcome>>

\* ThreadImpl's constructor returns once the worker has left boot_state.
Constructed ==
  /\ cpc = "construct"
  /\ threadstate # boot_state
  /\ Return("ok")
  /\ UNCHANGED <<shared, current, calls, worker, history>>

Call(name, pc) ==
  /\ cpc = "idle"
  /\ op' = name
  /\ cpc' = pc
  /\ UNCHANGED <<shared, current, outcome, worker, history>>

CallAssign ==
  /\ calls < MaxAssigns
  /\ calls' = calls + 1
  /\ Call("assign", "wait")

CallWait == Call("wait", "wait") /\ UNCHANGED calls

CallShutdown == Call("shutdown", "wait") /\ UNCHANGED calls

\* Preconditions of unsafe_get_exception: is_okay() is false and the future
\* has not been read.
CallGetException ==
  /\ threadstate = "Exception"
  /\ future_valid
  /\ Call("get_exception", "get_exception")
  /\ UNCHANGED calls

\* request_shutdown is public too; Spec leaves it out, EagerSpec has it.
CallRequestShutdown == Call("request_shutdown", "wait") /\ UNCHANGED calls

\* wait_while_busy, the first thing assign, wait and shutdown do.
WaitWhileBusy ==
  /\ cpc = "wait"
  /\ threadstate # "Working"
  /\ current' = threadstate
  /\ \/ op = "wait" /\ Return("ok")
     \/ op = "assign" /\ GoOn("set_work")
     \/ op \in {"shutdown", "request_shutdown"} /\ GoOn("cas")
  /\ UNCHANGED <<shared, calls, worker, history>>

UnsafeSetWork ==
  /\ cpc = "set_work"
  /\ fn' = Job
  /\ cpc' = "cas"
  /\ UNCHANGED <<threadstate, cv_mutex, result, future_valid, terminated,
                 op, current, outcome, calls, worker, history>>

\* What the controller does once the worker has been claimed.
Claimed ==
  \/ op # "shutdown" /\ Return("ok")
  \/ op = "shutdown" /\ GoOn("join")

\* A successful compare-and-swap out of Spinning or Sleeping.  A sleeping worker
\* has still to be notified.
CasClaim ==
  /\ cpc = "cas"
  /\ threadstate = current
  /\ current \in {"Spinning", "Sleeping"}
  /\ threadstate' = Target
  /\ accepted' = IF op = "assign" THEN Append(accepted, Job) ELSE accepted
  /\ \/ current = "Spinning" /\ Claimed
     \/ current = "Sleeping" /\ GoOn("lock")
  /\ UNCHANGED <<fn, cv_mutex, result, future_valid, terminated,
                 current, calls, worker, executed, refused>>

\* A failed compare-and-swap refreshes `current`.  Spinning and Sleeping are
\* tried again; shutdown also goes round again in its default case.
CasRetry ==
  /\ cpc = "cas"
  /\ threadstate # current
  /\ \/ threadstate \in {"Spinning", "Sleeping"}
     \/ op # "assign" /\ threadstate \in {"Working", "RequestShutdown"}
  /\ current' = threadstate
  /\ UNCHANGED <<shared, cpc, op, outcome, calls, worker, history>>

\* How a call ends that found the worker in none of the two idle states.
Refused(seen) ==
  \/ /\ op = "assign"
     /\ refused' = refused \cup {Job}
     /\ \/ seen = "Exception" /\ GoOn("get_exception")
        \/ seen # "Exception" /\ Return("ANNException")
  \/ op = "shutdown" /\ GoOn("join") /\ UNCHANGED refused
  \/ op = "request_shutdown" /\ Return("ok") /\ UNCHANGED refused

\* The states in which the switch of the current call gives up.
Unclaimable ==
  {"Exception", "Shutdown"}
    \cup (IF op = "assign" THEN {"Working", "RequestShutdown"} ELSE {})

\* The compare-and-swap failed, and the refreshed `current` is a dead end.  In Spec
\* an idle worker stays idle until it is claimed, so only EagerSpec comes here.
CasRefuse ==
  /\ cpc = "cas"
  /\ threadstate # current
  /\ threadstate \in Unclaimable
  /\ current' = threadstate
  /\ Refused(threadstate)
  /\ UNCHANGED <<shared, calls, worker, accepted, executed>>

\* The compare-and-swap took a state it should not have: roll it back.
CasOvershoot ==
  /\ cpc = "cas"
  /\ threadstate = current
  /\ current \in Unclaimable
  /\ threadstate' = Target
  /\ cpc' = "rollback"
  /\ UNCHANGED <<fn, cv_mutex, result, future_valid, terminated,
                 op, current, outcome, calls, worker, history>>

Rollback ==
  /\ cpc = "rollback"
  /\ threadstate' = current
  /\ Refused(current)
  /\ UNCHANGED <<fn, cv_mutex, result, future_valid, terminated,
                 current, calls, worker, accepted, executed>>

\* shutdown's default case with a successful compare-and-swap: on_error().
CasTerminate ==
  /\ cpc = "cas"
  /\ op # "assign"
  /\ threadstate = current
  /\ current \in {"Working", "RequestShutdown"}
  /\ threadstate' = Target
  /\ terminated' = TRUE
  /\ UNCHANGED <<fn, cv_mutex, result, future_valid, control, worker, history>>

\* Mutant: the seemingly useless lock before the notification is gone.
NoLockGuard ==
  /\ cpc = "lock"
  /\ cpc' = "notify"
  /\ UNCHANGED <<shared, op, current, outcome, calls, worker, history>>

\* { std::lock_guard lock{cv_mutex_}; }: passes only while the worker is outside
\* of its critical section.
LockGuard ==
  /\ cpc = "lock"
  /\ cv_mutex = "free"
  /\ cpc' = "notify"
  /\ UNCHANGED <<shared, op, current, outcome, calls, worker, history>>

\* Mutant: a claimed sleeper is not notified.
NoNotify ==
  /\ cpc = "notify"
  /\ Claimed
  /\ UNCHANGED <<shared, current, calls, worker, history>>

\* unsafe_wake_thread: notify_one wakes the worker if it waits, else nothing.
UnsafeWakeThread ==
  /\ cpc = "notify"
  /\ wpc' = IF wpc = "blocked" THEN "woken" ELSE wpc
  /\ Claimed
  /\ UNCHANGED <<shared, current, calls, request, history>>

\* unsafe_get_exception: wait for the future and read it.  Within assign every
\* failure is wrapped as a ThreadError, also that of an already consumed future.
GetException ==
  /\ cpc = "get_exception"
  /\ future_valid => wpc = "exited"
  /\ future_valid' = FALSE
  /\ Return(IF op = "assign" THEN "ThreadError" ELSE "exception")
  /\ UNCHANGED <<threadstate, fn, cv_mutex, result, terminated,
                 current, calls, worker, history>>

\* Mutant: the thread is not joined.
NoJoin ==
  /\ cpc = "join"
  /\ future_valid' = FALSE
  /\ Return(IF future_valid /\ result = "exception" THEN "exception" ELSE "ok")
  /\ UNCHANGED <<threadstate, fn, cv_mutex, result, terminated,
                 current, calls, worker, history>>

\* Mutant: the future is dropped without a look at it.
JoinDropsFuture ==
  /\ cpc = "join"
  /\ wpc = "exited"
  /\ future_valid' = FALSE
  /\ Return("ok")
  /\ UNCHANGED <<threadstate, fn, cv_mutex, result, terminated,
                 current, calls, worker, history>>

\* wait_for_shutdown: join the thread, then read the future if it is still valid.
Join ==
  /\ cpc = "join"
  /\ wpc = "exited"
  /\ future_valid' = FALSE
  /\ Return(IF future_valid /\ result = "exception" THEN "exception" ELSE "ok")
  /\ UNCHANGED <<threadstate, fn, cv_mutex, result, terminated,
                 current, calls, worker, history>>

-----------------------------------------------------------------------------
(* The worker: unsafe_run.                                                 *)

\* A step that only moves the worker's program counter.
Goto(from, to) == wpc = from /\ wpc' = to

Boot ==
  /\ Goto("boot", "spin")
  /\ threadstate' = "Spinning"
  /\ UNCHANGED <<fn, cv_mutex, result, future_valid, terminated,
                 control, request, history>>

\* spin_wait sees a new state ...
SpinSuccess ==
  /\ threadstate # "Spinning"
  /\ Goto("spin", "dispatch")
  /\ request' = threadstate
  /\ UNCHANGED <<shared, control, history>>

\* ... or polls Spinning for spin_count times.
SpinTimeout ==
  /\ threadstate = "Spinning"
  /\ Goto("spin", "lock")
  /\ UNCHANGED <<shared, control, request, history>>

\* try_sleep
SleepLock ==
  /\ cv_mutex = "free"
  /\ Goto("lock", "try_cas")
  /\ cv_mutex' = "worker"
  /\ UNCHANGED <<threadstate, fn, result, future_valid, terminated,
                 control, request, history>>

SleepCas ==
  /\ threadstate = "Spinning"
  /\ Goto("try_cas", "predicate")
  /\ threadstate' = "Sleeping"
  /\ UNCHANGED <<fn, cv_mutex, result, future_valid, terminated,
                 control, request, history>>

SleepCasFails ==
  /\ threadstate # "Spinning"
  /\ Goto("try_cas", "reread")
  /\ cv_mutex' = "free"
  /\ UNCHANGED <<threadstate, fn, result, future_valid, terminated,
                 control, request, history>>

\* Mutant: the predicate of the condition variable knows one request only.
PredicateWithoutWorking ==
  /\ threadstate = "RequestShutdown"
  /\ Goto("predicate", "reread")
  /\ cv_mutex' = "free"
  /\ UNCHANGED <<threadstate, fn, result, future_valid, terminated,
                 control, request, history>>

PredicateHolds ==
  /\ threadstate \in {"Working", "RequestShutdown"}
  /\ Goto("predicate", "reread")
  /\ cv_mutex' = "free"
  /\ UNCHANGED <<threadstate, fn, result, future_valid, terminated,
                 control, request, history>>

PredicateFails ==
  /\ threadstate \notin {"Working", "RequestShutdown"}
  /\ Goto("predicate", "block")
  /\ UNCHANGED <<shared, control, request, history>>

\* condition_variable::wait gives up the mutex and blocks in one step.
Block ==
  /\ Goto("block", "blocked")
  /\ cv_mutex' = "free"
  /\ UNCHANGED <<threadstate, fn, result, future_valid, terminated,
                 control, request, history>>

SpuriousWakeup ==
  /\ Goto("blocked", "woken")
  /\ UNCHANGED <<shared, control, request, history>>

Relock ==
  /\ cv_mutex = "free"
  /\ Goto("woken", "predicate")
  /\ cv_mutex' = "worker"
  /\ UNCHANGED <<threadstate, fn, result, future_valid, terminated,
                 control, request, history>>

Reread ==
  /\ Goto("reread", "dispatch")
  /\ request' = threadstate
  /\ UNCHANGED <<shared, control, history>>

\* Everything that is not a request to shut down is taken for work: the assert
\* on `request` is compiled out of a release build.
Dispatch ==
  /\ wpc = "dispatch"
  /\ wpc' = IF request = "RequestShutdown" THEN "set_value" ELSE "run"
  /\ UNCHANGED <<shared, control, request, history>>

\* get_work()(): the job ends or throws.
Run ==
  /\ wpc = "run"
  /\ executed' = Append(executed, fn)
  /\ wpc' \in {"done", "crash"}
  /\ UNCHANGED <<shared, control, request, accepted, refused>>

Done ==
  /\ Goto("done", "spin")
  /\ threadstate' = "Spinning"
  /\ UNCHANGED <<fn, cv_mutex, result, future_valid, terminated,
                 control, request, history>>

Crash ==
  /\ Goto("crash", "set_exception")
  /\ threadstate' = "Exception"
  /\ UNCHANGED <<fn, cv_mutex, result, future_valid, terminated,
                 control, request, history>>

SetExceptionAtThreadExit ==
  /\ Goto("set_exception", "exiting")
  /\ result' = "exception"
  /\ UNCHANGED <<threadstate, fn, cv_mutex, future_valid, terminated,
                 control, request, history>>

SetValueAtThreadExit ==
  /\ Goto("set_value", "shut")
  /\ result' = "value"
  /\ UNCHANGED <<threadstate, fn, cv_mutex, future_valid, terminated,
                 control, request, history>>

Shut ==
  /\ Goto("shut", "exiting")
  /\ threadstate' = "Shutdown"
  /\ UNCHANGED <<fn, cv_mutex, result, future_valid, terminated,
                 control, request, history>>

\* The thread ends, and with it the promise becomes ready.
Exit ==
  /\ Goto("exiting", "exited")
  /\ UNCHANGED <<shared, control, request, history>>

-----------------------------------------------------------------------------
Calls == CallAssign \/ CallWait \/ CallShutdown \/ CallGetException

ControllerStep ==
  \/ Constructed \/ WaitWhileBusy \/ UnsafeSetWork
  \/ CasClaim \/ CasRetry \/ CasOvershoot \/ Rollback
  \/ LockGuard \/ UnsafeWakeThread \/ GetException \/ Join

WorkerStep ==
  \/ Boot \/ SpinSuccess \/ SpinTimeout
  \/ SleepLock \/ SleepCas \/ SleepCasFails
  \/ PredicateHolds \/ PredicateFails \/ Block \/ Relock \/ Reread
  \/ Dispatch \/ Run \/ Done \/ Crash
  \/ SetExceptionAtThreadExit \/ SetValueAtThreadExit \/ Shut \/ Exit

Next == Calls \/ ControllerStep \/ WorkerStep \/ SpuriousWakeup

\* Both threads are scheduled, jobs end and spinning times out.  The mutex does
\* not starve the controller while the worker keeps waking up spuriously.  Nothing
\* forces the owner to make a call, nor the condition variable to wake by itself.
Fairness ==
  WF_vars(ControllerStep) /\ WF_vars(WorkerStep) /\ SF_vars(LockGuard)

Spec == Init /\ [][Next]_vars /\ Fairness

\* The owner may also call request_shutdown without joining.
EagerNext ==
  ~terminated /\ (Next \/ CallRequestShutdown \/ CasRefuse \/ CasTerminate)

EagerSpec == Init /\ [][EagerNext]_vars /\ Fairness

-----------------------------------------------------------------------------
(* Properties.                                                             *)

\* The ranges of the variables.
TypeOK ==
  /\ threadstate \in ThreadState
  /\ fn \in Jobs \cup {NoJob}
  /\ cv_mutex \in {"free", "worker"}
  /\ result \in {"empty", "value", "exception"}
  /\ future_valid \in BOOLEAN
  /\ terminated \in BOOLEAN
  /\ cpc \in ControlPC
  /\ op \in Ops
  /\ current \in ThreadState
  /\ outcome \in Outcomes
  /\ calls \in 0 .. MaxAssigns
  /\ wpc \in WorkerPC
  /\ request \in ThreadState
  /\ accepted \in Seq(Jobs)
  /\ executed \in Seq(Jobs)
  /\ refused \in SUBSET Jobs

\* No wakeup is lost: a worker that is blocked although its state already asks
\* it to run or to shut down is about to be notified.  This is what the empty
\* lock_guard before notify_one is for.
NoLostWakeup ==
  wpc = "blocked" /\ threadstate \in {"Working", "RequestShutdown"}
    => cpc \in {"lock", "notify"}

\* The job slot is a plain pointer: assign never writes it while the worker is
\* going to read it or is running the job it refers to.
NoRaceOnWork ==
  cpc = "set_work" =>
    /\ wpc \notin {"run", "done", "crash"}
    /\ wpc = "dispatch" => request # "Working"

\* A job whose assign reported an error is never run by the worker.
RefusedNeverRun ==
  \A i \in 1 .. Len(executed) : executed[i] \notin refused

\* assign hands over a job or refuses it: a job it hands over wakes the worker and is alone
\* in the slot, and one that it refuses is not run, although the worker may see its state.
HandsOverSafely == NoLostWakeup /\ NoRaceOnWork /\ RefusedNeverRun

\* shutdown returns only when no accepted job is left and the thread is gone:
\* it never cuts off work that was already handed over.
ShutdownDrains ==
  [][cpc = "join" /\ cpc' # "join" => accepted = executed /\ wpc = "exited"]_vars

\* The exception of a crashed job reaches the controller at most once, and it
\* does so in the call that consumes the future; a clean exit reports none.
ExceptionReportedOnce ==
  [][future_valid /\ ~future_valid'
       => (outcome' = IF result # "exception" THEN "ok"
                      ELSE IF op = "assign" THEN "ThreadError" ELSE "exception")]_vars

\* Seen from its owner the thread is a job server (module JobServer).
Server ==
  IF result = "exception" \/ wpc \in {"crash", "set_exception"} THEN "crashed"
  ELSE IF result = "value" THEN "closed"
  ELSE "serving"

JS == INSTANCE JobServer WITH server <- Server

\* Jobs are executed exactly once and in order, and an accepted job is executed.
ImplementsJobServer == JS!Spec

\* Every call to a thread returns: no state of the worker makes the controller
\* spin, lock, wait for the future or join forever.
CallsReturn == cpc # "idle" ~> cpc = "idle"

\* What the state diagram's comment says of transitions (D) and (G): the
\* controller takes a sleeping thread out of Sleeping only once it is completely
\* asleep, that is blocked on the condition variable.
ClaimedFullyAsleep ==
  [][threadstate = "Sleeping" /\ threadstate' \in {"Working", "RequestShutdown"}
       => wpc = "blocked"]_vars

\* Calls of the public interface from one thread never take the program down.
NeverTerminates == ~terminated

-----------------------------------------------------------------------------
(* The inductive invariant.                                                *)

\* The state of the thread once a rollback in progress is done.
State == IF cpc = "rollback" THEN current ELSE threadstate

Requests == {"Working", "RequestShutdown"}

\* Where the worker can be, given the state of the thread.
WorkerInv ==
  /\ wpc = "boot" => State = boot_state /\ cpc = "construct"
  /\ wpc \in {"spin", "lock", "try_cas"} => State \in Requests \cup {"Spinning"}
  /\ wpc \in {"predicate", "block", "blocked", "woken"}
       => State \in Requests \cup {"Sleeping"}
  /\ wpc = "reread" => State \in Requests
  /\ wpc = "dispatch" => State \in Requests /\ request = State
  /\ wpc \in {"run", "done", "crash"} => State = "Working"
  /\ wpc \in {"set_value", "shut"} => State = "RequestShutdown"
  /\ wpc = "set_exception" => State = "Exception"
  /\ wpc \in {"exiting", "exited"} =>
       \/ result = "exception" /\ State = "Exception"
       \/ result = "value" /\ State = "Shutdown"
  /\ result = "value" => wpc \in {"shut", "exiting", "exited"}
  /\ wpc = "shut" => result = "value"
  /\ result = "exception" => wpc \in {"exiting", "exited"}

\* Which call the controller is in, and what it knows of the thread's state.
ControlInv ==
  /\ cpc \in {"construct", "idle"} => op = "none"
  /\ cpc = "wait" => op \in {"assign", "wait", "shutdown"}
  /\ cpc = "set_work" => op = "assign"
  /\ cpc \in {"cas", "lock", "notify", "rollback"} => op \in {"assign", "shutdown"}
  /\ cpc = "get_exception" => op \in {"assign", "get_exception"}
  /\ cpc = "join" => op = "shutdown"
  /\ cpc \in {"set_work", "cas"} => threadstate # "Working" /\ current \notin Requests
  /\ cpc = "rollback" =>
       /\ current \in {"Exception", "Shutdown"}
       /\ wpc \in {"set_exception", "exiting", "exited"}
  /\ State = "RequestShutdown" => op = "shutdown" /\ cpc \in {"lock", "notify", "join"}

\* cv_mutex is what makes NoLostWakeup inductive: the worker keeps it from its
\* last look at the predicate until it is blocked.
WakeInv ==
  /\ cv_mutex = "worker" <=> HoldsMutex
  /\ wpc = "block" /\ threadstate \in Requests => cpc = "lock"
  /\ NoLostWakeup

\* The worker still has to run the job in the slot, or has run all it was given.
JobInv ==
  /\ IF State = "Working" /\ wpc \notin {"done", "crash"}
     THEN fn \in Jobs /\ accepted = Append(executed, fn)
     ELSE accepted = executed
  /\ cpc = "cas" /\ op = "assign" => fn = Job

\* Job numbers are used once, for acceptance or for refusal.
FreshInv ==
  /\ op = "assign" => calls \in Jobs
  /\ refused \subseteq 1 .. calls
  /\ \A i \in 1 .. Len(accepted) : accepted[i] \in (1 .. calls) \ refused
  /\ op = "assign" /\ cpc \in {"wait", "set_work", "cas", "rollback"} =>
       /\ calls \notin refused
       /\ \A i \in 1 .. Len(accepted) : accepted[i] # calls

IInv == TypeOK /\ WorkerInv /\ ControlInv /\ WakeInv /\ JobInv /\ FreshInv
=============================================================================
