------------------------- MODULE ThreadControlProofs -------------------------
(***************************************************************************)
(* Theorems about ThreadControl, for every number of assign calls.  They   *)
(* all rest on the invariant IInv of ThreadControl, which the lemmas       *)
(* InitInv and InvStep show to be inductive.                               *)
(***************************************************************************)
EXTENDS ThreadControl, TLAPS

LEMMA InitInv == Init => IInv
<1> SUFFICES ASSUME Init PROVE IInv
  OBVIOUS
<1>1. TypeOK
  <2>1. accepted \in Seq(Jobs) /\ executed \in Seq(Jobs) /\ calls \in 0 .. MaxAssigns
    BY MaxAssignsAssumption DEF Init
  <2> QED
    BY <2>1 DEF Init, TypeOK, NoJob, ThreadState, boot_state, ControlPC, WorkerPC, Ops,
                Outcomes
<1>2. WorkerInv /\ ControlInv /\ WakeInv
  BY DEF Init, WorkerInv, ControlInv, WakeInv, NoLostWakeup, HoldsMutex, State,
         Requests, boot_state
<1>3. JobInv /\ FreshInv
  BY DEF Init, JobInv, FreshInv, State, boot_state
<1> QED
  BY <1>1, <1>2, <1>3 DEF IInv

LEMMA InvStep == IInv /\ [Next]_vars => IInv'
<1> SUFFICES ASSUME IInv, [Next]_vars PROVE IInv'
  OBVIOUS
<1> USE MaxAssignsAssumption DEF IInv
<1>1. CASE CallAssign
  <2>1. TypeOK'
    BY <1>1 DEF CallAssign, Call, shared, worker, history, TypeOK, FreshInv, Jobs,
       NoJob, Job, ThreadState, boot_state, ControlPC, WorkerPC, Ops, Outcomes
  <2>2. WorkerInv'
    BY <1>1 DEF CallAssign, Call, shared, worker, history, TypeOK, WorkerInv,
       ControlInv, State, Requests, boot_state
  <2>3. ControlInv'
    BY <1>1 DEF CallAssign, Call, shared, worker, history, TypeOK, WorkerInv,
       ControlInv, State, Requests, WorkerPC
  <2>4. WakeInv'
    BY <1>1 DEF CallAssign, Call, shared, worker, history, TypeOK, WorkerInv,
       ControlInv, WakeInv, NoLostWakeup, HoldsMutex, State, Requests
  <2>5. JobInv'
    BY <1>1 DEF CallAssign, Call, shared, worker, history, TypeOK, WorkerInv,
       ControlInv, JobInv, FreshInv, State, Requests, Job, Jobs, boot_state
  <2>6. FreshInv'
    BY <1>1 DEF CallAssign, Call, shared, worker, history, TypeOK, ControlInv, FreshInv,
       Jobs, Job
  <2> QED
    BY <2>1, <2>2, <2>3, <2>4, <2>5, <2>6
<1>2. CASE CallWait
  <2>1. TypeOK'
    BY <1>2 DEF CallWait, Call, shared, worker, history, TypeOK, FreshInv, Jobs, NoJob,
       Job, ThreadState, boot_state, ControlPC, WorkerPC, Ops, Outcomes
  <2>2. WorkerInv'
    BY <1>2 DEF CallWait, Call, shared, worker, history, TypeOK, WorkerInv, ControlInv,
       State, Requests, boot_state
  <2>3. ControlInv'
    BY <1>2 DEF CallWait, Call, shared, worker, history, TypeOK, WorkerInv, ControlInv,
       State, Requests, WorkerPC
  <2>4. WakeInv'
    BY <1>2 DEF CallWait, Call, shared, worker, history, TypeOK, WorkerInv, ControlInv,
       WakeInv, NoLostWakeup, HoldsMutex, State, Requests
  <2>5. JobInv'
    BY <1>2 DEF CallWait, Call, shared, worker, history, TypeOK, WorkerInv, ControlInv,
       JobInv, FreshInv, State, Requests, Job, Jobs, boot_state
  <2>6. FreshInv'
    BY <1>2 DEF CallWait, Call, shared, worker, history, TypeOK, ControlInv, FreshInv,
       Jobs, Job
  <2> QED
    BY <2>1, <2>2, <2>3, <2>4, <2>5, <2>6
<1>3. CASE CallShutdown
  <2>1. TypeOK'
    BY <1>3 DEF CallShutdown, Call, shared, worker, history, TypeOK, FreshInv, Jobs,
       NoJob, Job, ThreadState, boot_state, ControlPC, WorkerPC, Ops, Outcomes
  <2>2. WorkerInv'
    BY <1>3 DEF CallShutdown, Call, shared, worker, history, TypeOK, WorkerInv,
       ControlInv, State, Requests, boot_state
  <2>3. ControlInv'
    BY <1>3 DEF CallShutdown, Call, shared, worker, history, TypeOK, WorkerInv,
       ControlInv, State, Requests, WorkerPC
  <2>4. WakeInv'
    BY <1>3 DEF CallShutdown, Call, shared, worker, history, TypeOK, WorkerInv,
       ControlInv, WakeInv, NoLostWakeup, HoldsMutex, State, Requests
  <2>5. JobInv'
    BY <1>3 DEF CallShutdown, Call, shared, worker, history, TypeOK, WorkerInv,
       ControlInv, JobInv, FreshInv, State, Requests, Job, Jobs, boot_state
  <2>6. FreshInv'
    BY <1>3 DEF CallShutdown, Call, shared, worker, history, TypeOK, ControlInv,
       FreshInv, Jobs, Job
  <2> QED
    BY <2>1, <2>2, <2>3, <2>4, <2>5, <2>6
<1>4. CASE CallGetException
  <2>1. TypeOK'
    BY <1>4 DEF CallGetException, Call, shared, worker, history, TypeOK, FreshInv, Jobs,
       NoJob, Job, ThreadState, boot_state, ControlPC, WorkerPC, Ops, Outcomes
  <2>2. WorkerInv'
    BY <1>4 DEF CallGetException, Call, shared, worker, history, TypeOK, WorkerInv,
       ControlInv, State, Requests, boot_state
  <2>3. ControlInv'
    BY <1>4 DEF CallGetException, Call, shared, worker, history, TypeOK, WorkerInv,
       ControlInv, State, Requests, WorkerPC
  <2>4. WakeInv'
    BY <1>4 DEF CallGetException, Call, shared, worker, history, TypeOK, WorkerInv,
       ControlInv, WakeInv, NoLostWakeup, HoldsMutex, State, Requests
  <2>5. JobInv'
    BY <1>4 DEF CallGetException, Call, shared, worker, history, TypeOK, WorkerInv,
       ControlInv, JobInv, FreshInv, State, Requests, Job, Jobs, boot_state
  <2>6. FreshInv'
    BY <1>4 DEF CallGetException, Call, shared, worker, history, TypeOK, ControlInv,
       FreshInv, Jobs, Job
  <2> QED
    BY <2>1, <2>2, <2>3, <2>4, <2>5, <2>6
<1>5. CASE Constructed
  <2>1. TypeOK'
    BY <1>5 DEF Constructed, Return, shared, worker, history, TypeOK, FreshInv, Jobs,
       NoJob, Job, ThreadState, boot_state, ControlPC, WorkerPC, Ops, Outcomes
  <2>2. WorkerInv'
    BY <1>5 DEF Constructed, Return, shared, worker, history, TypeOK, WorkerInv,
       ControlInv, State, Requests, boot_state
  <2>3. ControlInv'
    BY <1>5 DEF Constructed, Return, shared, worker, history, TypeOK, WorkerInv,
       ControlInv, State, Requests, WorkerPC
  <2>4. WakeInv'
    BY <1>5 DEF Constructed, Return, shared, worker, history, TypeOK, WorkerInv,
       ControlInv, WakeInv, NoLostWakeup, HoldsMutex, State, Requests
  <2>5. JobInv'
    BY <1>5 DEF Constructed, Return, shared, worker, history, TypeOK, WorkerInv,
       ControlInv, JobInv, FreshInv, State, Requests, Job, Jobs, boot_state
  <2>6. FreshInv'
    BY <1>5 DEF Constructed, Return, shared, worker, history, TypeOK, ControlInv,
       FreshInv, Jobs, Job
  <2> QED
    BY <2>1, <2>2, <2>3, <2>4, <2>5, <2>6
<1>6. CASE WaitWhileBusy
  <2>1. TypeOK'
    BY <1>6 DEF WaitWhileBusy, Return, GoOn, shared, worker, history, TypeOK, FreshInv,
       Jobs, NoJob, Job, ThreadState, boot_state, ControlPC, WorkerPC, Ops, Outcomes
  <2>2. WorkerInv'
    BY <1>6 DEF WaitWhileBusy, Return, GoOn, shared, worker, history, TypeOK, WorkerInv,
       ControlInv, State, Requests, boot_state
  <2>3. ControlInv'
    BY <1>6 DEF WaitWhileBusy, Return, GoOn, shared, worker, history, TypeOK, WorkerInv,
       ControlInv, State, Requests, WorkerPC
  <2>4. WakeInv'
    BY <1>6 DEF WaitWhileBusy, Return, GoOn, shared, worker, history, TypeOK, WorkerInv,
       ControlInv, WakeInv, NoLostWakeup, HoldsMutex, State, Requests
  <2>5. JobInv'
    BY <1>6 DEF WaitWhileBusy, Return, GoOn, shared, worker, history, TypeOK, WorkerInv,
       ControlInv, JobInv, FreshInv, State, Requests, Job, Jobs, boot_state
  <2>6. FreshInv'
    BY <1>6 DEF WaitWhileBusy, Return, GoOn, shared, worker, history, TypeOK,
       ControlInv, FreshInv, Jobs, Job
  <2> QED
    BY <2>1, <2>2, <2>3, <2>4, <2>5, <2>6
<1>7. CASE UnsafeSetWork
  <2>1. TypeOK'
    BY <1>7 DEF UnsafeSetWork, worker, history, TypeOK, FreshInv, Jobs, NoJob, Job,
       ThreadState, boot_state, ControlPC, WorkerPC, Ops, Outcomes
  <2>2. WorkerInv'
    BY <1>7 DEF UnsafeSetWork, worker, history, TypeOK, WorkerInv, ControlInv, State,
       Requests, boot_state
  <2>3. ControlInv'
    BY <1>7 DEF UnsafeSetWork, worker, history, TypeOK, WorkerInv, ControlInv, State,
       Requests, WorkerPC
  <2>4. WakeInv'
    BY <1>7 DEF UnsafeSetWork, worker, history, TypeOK, WorkerInv, ControlInv, WakeInv,
       NoLostWakeup, HoldsMutex, State, Requests
  <2>5. JobInv'
    BY <1>7 DEF UnsafeSetWork, worker, history, TypeOK, WorkerInv, ControlInv, JobInv,
       FreshInv, State, Requests, Job, Jobs, boot_state
  <2>6. FreshInv'
    BY <1>7 DEF UnsafeSetWork, worker, history, TypeOK, ControlInv, FreshInv, Jobs, Job
  <2> QED
    BY <2>1, <2>2, <2>3, <2>4, <2>5, <2>6
<1>8. CASE CasClaim
  <2>1. TypeOK'
    <3>1. accepted' \in Seq(Jobs)
      BY <1>8 DEF CasClaim, TypeOK, FreshInv, Job
    <3>2. /\ threadstate' \in ThreadState
          /\ cpc' \in ControlPC /\ op' \in Ops /\ outcome' \in Outcomes
      BY <1>8 DEF CasClaim, Claimed, Return, GoOn, Target, TypeOK, ThreadState,
                  ControlPC, Ops, Outcomes
    <3> QED
      BY <1>8, <3>1, <3>2 DEF CasClaim, worker, TypeOK
  <2>2. WorkerInv'
    BY <1>8 DEF CasClaim, Claimed, Return, GoOn, Target, worker, TypeOK, WorkerInv,
       ControlInv, State, Requests, boot_state
  <2>3. ControlInv'
    BY <1>8 DEF CasClaim, Claimed, Return, GoOn, Target, worker, TypeOK, WorkerInv,
       ControlInv, State, Requests, WorkerPC
  <2>4. WakeInv'
    BY <1>8 DEF CasClaim, Claimed, Return, GoOn, Target, worker, TypeOK, WorkerInv,
       ControlInv, WakeInv, NoLostWakeup, HoldsMutex, State, Requests
  <2>5. JobInv'
    BY <1>8 DEF CasClaim, Claimed, Return, GoOn, Target, worker, TypeOK, WorkerInv,
       ControlInv, JobInv, FreshInv, State, Requests, Job, Jobs, boot_state
  <2>6. FreshInv'
    BY <1>8 DEF CasClaim, Claimed, Return, GoOn, Target, worker, TypeOK, ControlInv,
       FreshInv, Jobs, Job
  <2> QED
    BY <2>1, <2>2, <2>3, <2>4, <2>5, <2>6
<1>9. CASE CasRetry
  <2>1. TypeOK'
    BY <1>9 DEF CasRetry, shared, worker, history, TypeOK, FreshInv, Jobs, NoJob, Job,
       ThreadState, boot_state, ControlPC, WorkerPC, Ops, Outcomes
  <2>2. WorkerInv'
    BY <1>9 DEF CasRetry, shared, worker, history, TypeOK, WorkerInv, ControlInv, State,
       Requests, boot_state
  <2>3. ControlInv'
    BY <1>9 DEF CasRetry, shared, worker, history, TypeOK, WorkerInv, ControlInv, State,
       Requests, WorkerPC
  <2>4. WakeInv'
    BY <1>9 DEF CasRetry, shared, worker, history, TypeOK, WorkerInv, ControlInv,
       WakeInv, NoLostWakeup, HoldsMutex, State, Requests
  <2>5. JobInv'
    BY <1>9 DEF CasRetry, shared, worker, history, TypeOK, WorkerInv, ControlInv,
       JobInv, FreshInv, State, Requests, Job, Jobs, boot_state
  <2>6. FreshInv'
    BY <1>9 DEF CasRetry, shared, worker, history, TypeOK, ControlInv, FreshInv, Jobs,
       Job
  <2> QED
    BY <2>1, <2>2, <2>3, <2>4, <2>5, <2>6
<1>10. CASE CasOvershoot
  <2>1. TypeOK'
    BY <1>10 DEF CasOvershoot, Target, Unclaimable, worker, history, TypeOK, FreshInv,
       Jobs, NoJob, Job, ThreadState, boot_state, ControlPC, WorkerPC, Ops, Outcomes
  <2>2. WorkerInv'
    BY <1>10 DEF CasOvershoot, Target, Unclaimable, worker, history, TypeOK, WorkerInv,
       ControlInv, State, Requests, boot_state
  <2>3. ControlInv'
    BY <1>10 DEF CasOvershoot, Target, Unclaimable, worker, history, TypeOK, WorkerInv,
       ControlInv, State, Requests, WorkerPC
  <2>4. WakeInv'
    BY <1>10 DEF CasOvershoot, Target, Unclaimable, worker, history, TypeOK, WorkerInv,
       ControlInv, WakeInv, NoLostWakeup, HoldsMutex, State, Requests
  <2>5. JobInv'
    BY <1>10 DEF CasOvershoot, Target, Unclaimable, worker, history, TypeOK, WorkerInv,
       ControlInv, JobInv, FreshInv, State, Requests, Job, Jobs, boot_state
  <2>6. FreshInv'
    BY <1>10 DEF CasOvershoot, Target, Unclaimable, worker, history, TypeOK, ControlInv,
       FreshInv, Jobs, Job
  <2> QED
    BY <2>1, <2>2, <2>3, <2>4, <2>5, <2>6
<1>11. CASE Rollback
  <2>1. TypeOK'
    <3>0. \/ refused' = refused
          \/ op = "assign" /\ refused' = refused \cup {calls}
      BY <1>11 DEF Rollback, Refused, Return, GoOn, Job
    <3>1. refused' \in SUBSET Jobs
      BY <3>0 DEF TypeOK, FreshInv
    <3>2. cpc' \in ControlPC /\ op' \in Ops /\ outcome' \in Outcomes
      BY <1>11 DEF Rollback, Refused, Return, GoOn, TypeOK, ControlPC, Ops, Outcomes
    <3> QED
      BY <1>11, <3>1, <3>2 DEF Rollback, worker, TypeOK
  <2>2. WorkerInv'
    BY <1>11 DEF Rollback, Refused, Return, GoOn, worker, TypeOK, WorkerInv, ControlInv,
       State, Requests, boot_state
  <2>3. ControlInv'
    BY <1>11 DEF Rollback, Refused, Return, GoOn, worker, TypeOK, WorkerInv, ControlInv,
       State, Requests, WorkerPC
  <2>4. WakeInv'
    BY <1>11 DEF Rollback, Refused, Return, GoOn, worker, TypeOK, WorkerInv, ControlInv,
       WakeInv, NoLostWakeup, HoldsMutex, State, Requests
  <2>5. JobInv'
    BY <1>11 DEF Rollback, Refused, Return, GoOn, worker, TypeOK, WorkerInv, ControlInv,
       JobInv, FreshInv, State, Requests, Job, Jobs, boot_state
  <2>6. FreshInv'
    <3>1. /\ refused' \in {refused, refused \cup {calls}} 
          /\ cpc' \notin {"wait", "set_work", "cas", "rollback"}
      BY <1>11 DEF Rollback, Refused, Return, GoOn, Job
    <3>2. op' = "assign" => op = "assign"
      BY <1>11 DEF Rollback, Refused, Return, GoOn
    <3>3. CASE op = "assign"
      BY <1>11, <3>1, <3>2, <3>3 DEF Rollback, FreshInv, Jobs, TypeOK
    <3>4. CASE op # "assign"
      <4>1. refused' = refused
        BY <1>11, <3>4 DEF Rollback, Refused
      <4> QED
        BY <1>11, <3>1, <3>2, <3>4, <4>1 DEF Rollback, FreshInv
    <3> QED
      BY <3>3, <3>4
  <2> QED
    BY <2>1, <2>2, <2>3, <2>4, <2>5, <2>6
<1>12. CASE LockGuard
  <2>1. TypeOK'
    BY <1>12 DEF LockGuard, shared, worker, history, TypeOK, FreshInv, Jobs, NoJob, Job,
       ThreadState, boot_state, ControlPC, WorkerPC, Ops, Outcomes
  <2>2. WorkerInv'
    BY <1>12 DEF LockGuard, shared, worker, history, TypeOK, WorkerInv, ControlInv,
       State, Requests, boot_state
  <2>3. ControlInv'
    BY <1>12 DEF LockGuard, shared, worker, history, TypeOK, WorkerInv, ControlInv,
       State, Requests, WorkerPC
  <2>4. WakeInv'
    BY <1>12 DEF LockGuard, shared, worker, history, TypeOK, WorkerInv, ControlInv,
       WakeInv, NoLostWakeup, HoldsMutex, State, Requests
  <2>5. JobInv'
    BY <1>12 DEF LockGuard, shared, worker, history, TypeOK, WorkerInv, ControlInv,
       JobInv, FreshInv, State, Requests, Job, Jobs, boot_state
  <2>6. FreshInv'
    BY <1>12 DEF LockGuard, shared, worker, history, TypeOK, ControlInv, FreshInv, Jobs,
       Job
  <2> QED
    BY <2>1, <2>2, <2>3, <2>4, <2>5, <2>6
<1>13. CASE UnsafeWakeThread
  <2>1. TypeOK'
    BY <1>13 DEF UnsafeWakeThread, Claimed, Return, GoOn, shared, history, TypeOK,
       FreshInv, Jobs, NoJob, Job, ThreadState, boot_state, ControlPC, WorkerPC, Ops,
       Outcomes
  <2>2. WorkerInv'
    BY <1>13 DEF UnsafeWakeThread, Claimed, Return, GoOn, shared, history, TypeOK,
       WorkerInv, ControlInv, State, Requests, boot_state
  <2>3. ControlInv'
    BY <1>13 DEF UnsafeWakeThread, Claimed, Return, GoOn, shared, history, TypeOK,
       WorkerInv, ControlInv, State, Requests, WorkerPC
  <2>4. WakeInv'
    BY <1>13 DEF UnsafeWakeThread, Claimed, Return, GoOn, shared, history, TypeOK,
       WorkerInv, ControlInv, WakeInv, NoLostWakeup, HoldsMutex, State, Requests
  <2>5. JobInv'
    BY <1>13 DEF UnsafeWakeThread, Claimed, Return, GoOn, shared, history, TypeOK,
       WorkerInv, ControlInv, JobInv, FreshInv, State, Requests, Job, Jobs, boot_state
  <2>6. FreshInv'
    BY <1>13 DEF UnsafeWakeThread, Claimed, Return, GoOn, shared, history, TypeOK,
       ControlInv, FreshInv, Jobs, Job
  <2> QED
    BY <2>1, <2>2, <2>3, <2>4, <2>5, <2>6
<1>14. CASE GetException
  <2>1. TypeOK'
    <3>1. outcome' \in Outcomes
      BY <1>14 DEF GetException, Return, Outcomes
    <3> QED
      BY <1>14, <3>1 DEF GetException, Return, worker, history, TypeOK, ControlPC, Ops
  <2>2. WorkerInv'
    BY <1>14 DEF GetException, Return, worker, history, TypeOK, WorkerInv, ControlInv,
       State, Requests, boot_state
  <2>3. ControlInv'
    BY <1>14 DEF GetException, Return, worker, history, TypeOK, WorkerInv, ControlInv,
       State, Requests, WorkerPC
  <2>4. WakeInv'
    BY <1>14 DEF GetException, Return, worker, history, TypeOK, WorkerInv, ControlInv,
       WakeInv, NoLostWakeup, HoldsMutex, State, Requests
  <2>5. JobInv'
    BY <1>14 DEF GetException, Return, worker, history, TypeOK, WorkerInv, ControlInv,
       JobInv, FreshInv, State, Requests, Job, Jobs, boot_state
  <2>6. FreshInv'
    BY <1>14 DEF GetException, Return, worker, history, TypeOK, ControlInv, FreshInv,
       Jobs, Job
  <2> QED
    BY <2>1, <2>2, <2>3, <2>4, <2>5, <2>6
<1>15. CASE Join
  <2>1. TypeOK'
    <3>1. outcome' \in Outcomes
      BY <1>15 DEF Join, Return, Outcomes
    <3> QED
      BY <1>15, <3>1 DEF Join, Return, worker, history, TypeOK, ControlPC, Ops
  <2>2. WorkerInv'
    BY <1>15 DEF Join, Return, worker, history, TypeOK, WorkerInv, ControlInv, State,
       Requests, boot_state
  <2>3. ControlInv'
    BY <1>15 DEF Join, Return, worker, history, TypeOK, WorkerInv, ControlInv, State,
       Requests, WorkerPC
  <2>4. WakeInv'
    BY <1>15 DEF Join, Return, worker, history, TypeOK, WorkerInv, ControlInv, WakeInv,
       NoLostWakeup, HoldsMutex, State, Requests
  <2>5. JobInv'
    BY <1>15 DEF Join, Return, worker, history, TypeOK, WorkerInv, ControlInv, JobInv,
       FreshInv, State, Requests, Job, Jobs, boot_state
  <2>6. FreshInv'
    BY <1>15 DEF Join, Return, worker, history, TypeOK, ControlInv, FreshInv, Jobs, Job
  <2> QED
    BY <2>1, <2>2, <2>3, <2>4, <2>5, <2>6
<1>16. CASE Boot
  <2>1. TypeOK'
    BY <1>16 DEF Boot, Goto, control, history, TypeOK, FreshInv, Jobs, NoJob, Job,
       ThreadState, boot_state, ControlPC, WorkerPC, Ops, Outcomes
  <2>2. WorkerInv'
    BY <1>16 DEF Boot, Goto, control, history, TypeOK, WorkerInv, ControlInv, State,
       Requests, boot_state
  <2>3. ControlInv'
    BY <1>16 DEF Boot, Goto, control, history, TypeOK, WorkerInv, ControlInv, State,
       Requests, WorkerPC
  <2>4. WakeInv'
    BY <1>16 DEF Boot, Goto, control, history, TypeOK, WorkerInv, ControlInv, WakeInv,
       NoLostWakeup, HoldsMutex, State, Requests
  <2>5. JobInv'
    BY <1>16 DEF Boot, Goto, control, history, TypeOK, WorkerInv, ControlInv, JobInv,
       FreshInv, State, Requests, Job, Jobs, boot_state
  <2>6. FreshInv'
    BY <1>16 DEF Boot, Goto, control, history, TypeOK, ControlInv, FreshInv, Jobs, Job
  <2> QED
    BY <2>1, <2>2, <2>3, <2>4, <2>5, <2>6
<1>17. CASE SpinSuccess
  <2>1. TypeOK'
    BY <1>17 DEF SpinSuccess, Goto, shared, control, history, TypeOK, FreshInv, Jobs,
       NoJob, Job, ThreadState, boot_state, ControlPC, WorkerPC, Ops, Outcomes
  <2>2. WorkerInv'
    BY <1>17 DEF SpinSuccess, Goto, shared, control, history, TypeOK, WorkerInv,
       ControlInv, State, Requests, boot_state
  <2>3. ControlInv'
    BY <1>17 DEF SpinSuccess, Goto, shared, control, history, TypeOK, WorkerInv,
       ControlInv, State, Requests, WorkerPC
  <2>4. WakeInv'
    BY <1>17 DEF SpinSuccess, Goto, shared, control, history, TypeOK, WorkerInv,
       ControlInv, WakeInv, NoLostWakeup, HoldsMutex, State, Requests
  <2>5. JobInv'
    BY <1>17 DEF SpinSuccess, Goto, shared, control, history, TypeOK, WorkerInv,
       ControlInv, JobInv, FreshInv, State, Requests, Job, Jobs, boot_state
  <2>6. FreshInv'
    BY <1>17 DEF SpinSuccess, Goto, shared, control, history, TypeOK, ControlInv,
       FreshInv, Jobs, Job
  <2> QED
    BY <2>1, <2>2, <2>3, <2>4, <2>5, <2>6
<1>18. CASE SpinTimeout
  <2>1. TypeOK'
    BY <1>18 DEF SpinTimeout, Goto, shared, control, history, TypeOK, FreshInv, Jobs,
       NoJob, Job, ThreadState, boot_state, ControlPC, WorkerPC, Ops, Outcomes
  <2>2. WorkerInv'
    BY <1>18 DEF SpinTimeout, Goto, shared, control, history, TypeOK, WorkerInv,
       ControlInv, State, Requests, boot_state
  <2>3. ControlInv'
    BY <1>18 DEF SpinTimeout, Goto, shared, control, history, TypeOK, WorkerInv,
       ControlInv, State, Requests, WorkerPC
  <2>4. WakeInv'
    BY <1>18 DEF SpinTimeout, Goto, shared, control, history, TypeOK, WorkerInv,
       ControlInv, WakeInv, NoLostWakeup, HoldsMutex, State, Requests
  <2>5. JobInv'
    BY <1>18 DEF SpinTimeout, Goto, shared, control, history, TypeOK, WorkerInv,
       ControlInv, JobInv, FreshInv, State, Requests, Job, Jobs, boot_state
  <2>6. FreshInv'
    BY <1>18 DEF SpinTimeout, Goto, shared, control, history, TypeOK, ControlInv,
       FreshInv, Jobs, Job
  <2> QED
    BY <2>1, <2>2, <2>3, <2>4, <2>5, <2>6
<1>19. CASE SleepLock
  <2>1. TypeOK'
    BY <1>19 DEF SleepLock, Goto, control, history, TypeOK, FreshInv, Jobs, NoJob, Job,
       ThreadState, boot_state, ControlPC, WorkerPC, Ops, Outcomes
  <2>2. WorkerInv'
    BY <1>19 DEF SleepLock, Goto, control, history, TypeOK, WorkerInv, ControlInv,
       State, Requests, boot_state
  <2>3. ControlInv'
    BY <1>19 DEF SleepLock, Goto, control, history, TypeOK, WorkerInv, ControlInv,
       State, Requests, WorkerPC
  <2>4. WakeInv'
    BY <1>19 DEF SleepLock, Goto, control, history, TypeOK, WorkerInv, ControlInv,
       WakeInv, NoLostWakeup, HoldsMutex, State, Requests
  <2>5. JobInv'
    BY <1>19 DEF SleepLock, Goto, control, history, TypeOK, WorkerInv, ControlInv,
       JobInv, FreshInv, State, Requests, Job, Jobs, boot_state
  <2>6. FreshInv'
    BY <1>19 DEF SleepLock, Goto, control, history, TypeOK, ControlInv, FreshInv, Jobs,
       Job
  <2> QED
    BY <2>1, <2>2, <2>3, <2>4, <2>5, <2>6
<1>20. CASE SleepCas
  <2>1. TypeOK'
    BY <1>20 DEF SleepCas, Goto, control, history, TypeOK, FreshInv, Jobs, NoJob, Job,
       ThreadState, boot_state, ControlPC, WorkerPC, Ops, Outcomes
  <2>2. WorkerInv'
    BY <1>20 DEF SleepCas, Goto, control, history, TypeOK, WorkerInv, ControlInv, State,
       Requests, boot_state
  <2>3. ControlInv'
    BY <1>20 DEF SleepCas, Goto, control, history, TypeOK, WorkerInv, ControlInv, State,
       Requests, WorkerPC
  <2>4. WakeInv'
    BY <1>20 DEF SleepCas, Goto, control, history, TypeOK, WorkerInv, ControlInv,
       WakeInv, NoLostWakeup, HoldsMutex, State, Requests
  <2>5. JobInv'
    BY <1>20 DEF SleepCas, Goto, control, history, TypeOK, WorkerInv, ControlInv,
       JobInv, FreshInv, State, Requests, Job, Jobs, boot_state
  <2>6. FreshInv'
    BY <1>20 DEF SleepCas, Goto, control, history, TypeOK, ControlInv, FreshInv, Jobs,
       Job
  <2> QED
    BY <2>1, <2>2, <2>3, <2>4, <2>5, <2>6
<1>21. CASE SleepCasFails
  <2>1. TypeOK'
    BY <1>21 DEF SleepCasFails, Goto, control, history, TypeOK, FreshInv, Jobs, NoJob,
       Job, ThreadState, boot_state, ControlPC, WorkerPC, Ops, Outcomes
  <2>2. WorkerInv'
    BY <1>21 DEF SleepCasFails, Goto, control, history, TypeOK, WorkerInv, ControlInv,
       State, Requests, boot_state
  <2>3. ControlInv'
    BY <1>21 DEF SleepCasFails, Goto, control, history, TypeOK, WorkerInv, ControlInv,
       State, Requests, WorkerPC
  <2>4. WakeInv'
    BY <1>21 DEF SleepCasFails, Goto, control, history, TypeOK, WorkerInv, ControlInv,
       WakeInv, NoLostWakeup, HoldsMutex, State, Requests
  <2>5. JobInv'
    BY <1>21 DEF SleepCasFails, Goto, control, history, TypeOK, WorkerInv, ControlInv,
       JobInv, FreshInv, State, Requests, Job, Jobs, boot_state
  <2>6. FreshInv'
    BY <1>21 DEF SleepCasFails, Goto, control, history, TypeOK, ControlInv, FreshInv,
       Jobs, Job
  <2> QED
    BY <2>1, <2>2, <2>3, <2>4, <2>5, <2>6
<1>22. CASE PredicateHolds
  <2>1. TypeOK'
    BY <1>22 DEF PredicateHolds, Goto, control, history, TypeOK, FreshInv, Jobs, NoJob,
       Job, ThreadState, boot_state, ControlPC, WorkerPC, Ops, Outcomes
  <2>2. WorkerInv'
    BY <1>22 DEF PredicateHolds, Goto, control, history, TypeOK, WorkerInv, ControlInv,
       State, Requests, boot_state
  <2>3. ControlInv'
    BY <1>22 DEF PredicateHolds, Goto, control, history, TypeOK, WorkerInv, ControlInv,
       State, Requests, WorkerPC
  <2>4. WakeInv'
    BY <1>22 DEF PredicateHolds, Goto, control, history, TypeOK, WorkerInv, ControlInv,
       WakeInv, NoLostWakeup, HoldsMutex, State, Requests
  <2>5. JobInv'
    BY <1>22 DEF PredicateHolds, Goto, control, history, TypeOK, WorkerInv, ControlInv,
       JobInv, FreshInv, State, Requests, Job, Jobs, boot_state
  <2>6. FreshInv'
    BY <1>22 DEF PredicateHolds, Goto, control, history, TypeOK, ControlInv, FreshInv,
       Jobs, Job
  <2> QED
    BY <2>1, <2>2, <2>3, <2>4, <2>5, <2>6
<1>23. CASE PredicateFails
  <2>1. TypeOK'
    BY <1>23 DEF PredicateFails, Goto, shared, control, history, TypeOK, FreshInv, Jobs,
       NoJob, Job, ThreadState, boot_state, ControlPC, WorkerPC, Ops, Outcomes
  <2>2. WorkerInv'
    BY <1>23 DEF PredicateFails, Goto, shared, control, history, TypeOK, WorkerInv,
       ControlInv, State, Requests, boot_state
  <2>3. ControlInv'
    BY <1>23 DEF PredicateFails, Goto, shared, control, history, TypeOK, WorkerInv,
       ControlInv, State, Requests, WorkerPC
  <2>4. WakeInv'
    BY <1>23 DEF PredicateFails, Goto, shared, control, history, TypeOK, WorkerInv,
       ControlInv, WakeInv, NoLostWakeup, HoldsMutex, State, Requests
  <2>5. JobInv'
    BY <1>23 DEF PredicateFails, Goto, shared, control, history, TypeOK, WorkerInv,
       ControlInv, JobInv, FreshInv, State, Requests, Job, Jobs, boot_state
  <2>6. FreshInv'
    BY <1>23 DEF PredicateFails, Goto, shared, control, history, TypeOK, ControlInv,
       FreshInv, Jobs, Job
  <2> QED
    BY <2>1, <2>2, <2>3, <2>4, <2>5, <2>6
<1>24. CASE Block
  <2>1. TypeOK'
    BY <1>24 DEF Block, Goto, control, history, TypeOK, FreshInv, Jobs, NoJob, Job,
       ThreadState, boot_state, ControlPC, WorkerPC, Ops, Outcomes
  <2>2. WorkerInv'
    BY <1>24 DEF Block, Goto, control, history, TypeOK, WorkerInv, ControlInv, State,
       Requests, boot_state
  <2>3. ControlInv'
    BY <1>24 DEF Block, Goto, control, history, TypeOK, WorkerInv, ControlInv, State,
       Requests, WorkerPC
  <2>4. WakeInv'
    BY <1>24 DEF Block, Goto, control, history, TypeOK, WorkerInv, ControlInv, WakeInv,
       NoLostWakeup, HoldsMutex, State, Requests
  <2>5. JobInv'
    BY <1>24 DEF Block, Goto, control, history, TypeOK, WorkerInv, ControlInv, JobInv,
       FreshInv, State, Requests, Job, Jobs, boot_state
  <2>6. FreshInv'
    BY <1>24 DEF Block, Goto, control, history, TypeOK, ControlInv, FreshInv, Jobs, Job
  <2> QED
    BY <2>1, <2>2, <2>3, <2>4, <2>5, <2>6
<1>25. CASE Relock
  <2>1. TypeOK'
    BY <1>25 DEF Relock, Goto, control, history, TypeOK, FreshInv, Jobs, NoJob, Job,
       ThreadState, boot_state, ControlPC, WorkerPC, Ops, Outcomes
  <2>2. WorkerInv'
    BY <1>25 DEF Relock, Goto, control, history, TypeOK, WorkerInv, ControlInv, State,
       Requests, boot_state
  <2>3. ControlInv'
    BY <1>25 DEF Relock, Goto, control, history, TypeOK, WorkerInv, ControlInv, State,
       Requests, WorkerPC
  <2>4. WakeInv'
    BY <1>25 DEF Relock, Goto, control, history, TypeOK, WorkerInv, ControlInv, WakeInv,
       NoLostWakeup, HoldsMutex, State, Requests
  <2>5. JobInv'
    BY <1>25 DEF Relock, Goto, control, history, TypeOK, WorkerInv, ControlInv, JobInv,
       FreshInv, State, Requests, Job, Jobs, boot_state
  <2>6. FreshInv'
    BY <1>25 DEF Relock, Goto, control, history, TypeOK, ControlInv, FreshInv, Jobs, Job
  <2> QED
    BY <2>1, <2>2, <2>3, <2>4, <2>5, <2>6
<1>26. CASE Reread
  <2>1. TypeOK'
    BY <1>26 DEF Reread, Goto, shared, control, history, TypeOK, FreshInv, Jobs, NoJob,
       Job, ThreadState, boot_state, ControlPC, WorkerPC, Ops, Outcomes
  <2>2. WorkerInv'
    BY <1>26 DEF Reread, Goto, shared, control, history, TypeOK, WorkerInv, ControlInv,
       State, Requests, boot_state
  <2>3. ControlInv'
    BY <1>26 DEF Reread, Goto, shared, control, history, TypeOK, WorkerInv, ControlInv,
       State, Requests, WorkerPC
  <2>4. WakeInv'
    BY <1>26 DEF Reread, Goto, shared, control, history, TypeOK, WorkerInv, ControlInv,
       WakeInv, NoLostWakeup, HoldsMutex, State, Requests
  <2>5. JobInv'
    BY <1>26 DEF Reread, Goto, shared, control, history, TypeOK, WorkerInv, ControlInv,
       JobInv, FreshInv, State, Requests, Job, Jobs, boot_state
  <2>6. FreshInv'
    BY <1>26 DEF Reread, Goto, shared, control, history, TypeOK, ControlInv, FreshInv,
       Jobs, Job
  <2> QED
    BY <2>1, <2>2, <2>3, <2>4, <2>5, <2>6
<1>27. CASE Dispatch
  <2>1. TypeOK'
    BY <1>27 DEF Dispatch, shared, control, history, TypeOK, FreshInv, Jobs, NoJob, Job,
       ThreadState, boot_state, ControlPC, WorkerPC, Ops, Outcomes
  <2>2. WorkerInv'
    BY <1>27 DEF Dispatch, shared, control, history, TypeOK, WorkerInv, ControlInv,
       State, Requests, boot_state
  <2>3. ControlInv'
    BY <1>27 DEF Dispatch, shared, control, history, TypeOK, WorkerInv, ControlInv,
       State, Requests, WorkerPC
  <2>4. WakeInv'
    BY <1>27 DEF Dispatch, shared, control, history, TypeOK, WorkerInv, ControlInv,
       WakeInv, NoLostWakeup, HoldsMutex, State, Requests
  <2>5. JobInv'
    BY <1>27 DEF Dispatch, shared, control, history, TypeOK, WorkerInv, ControlInv,
       JobInv, FreshInv, State, Requests, Job, Jobs, boot_state
  <2>6. FreshInv'
    BY <1>27 DEF Dispatch, shared, control, history, TypeOK, ControlInv, FreshInv, Jobs,
       Job
  <2> QED
    BY <2>1, <2>2, <2>3, <2>4, <2>5, <2>6
<1>28. CASE Run
  <2>1. TypeOK'
    <3>1. fn \in Jobs
      BY <1>28 DEF Run, WorkerInv, JobInv, ControlInv, State
    <3> QED
      BY <1>28, <3>1 DEF Run, shared, control, TypeOK, WorkerPC
  <2>2. WorkerInv'
    BY <1>28 DEF Run, shared, control, TypeOK, WorkerInv, ControlInv, State, Requests,
       boot_state
  <2>3. ControlInv'
    BY <1>28 DEF Run, shared, control, TypeOK, WorkerInv, ControlInv, State, Requests,
       WorkerPC
  <2>4. WakeInv'
    BY <1>28 DEF Run, shared, control, TypeOK, WorkerInv, ControlInv, WakeInv,
       NoLostWakeup, HoldsMutex, State, Requests
  <2>5. JobInv'
    BY <1>28 DEF Run, shared, control, TypeOK, WorkerInv, ControlInv, JobInv, FreshInv,
       State, Requests, Job, Jobs, boot_state
  <2>6. FreshInv'
    BY <1>28 DEF Run, shared, control, TypeOK, ControlInv, FreshInv, Jobs, Job
  <2> QED
    BY <2>1, <2>2, <2>3, <2>4, <2>5, <2>6
<1>29. CASE Done
  <2>1. TypeOK'
    BY <1>29 DEF Done, Goto, control, history, TypeOK, FreshInv, Jobs, NoJob, Job,
       ThreadState, boot_state, ControlPC, WorkerPC, Ops, Outcomes
  <2>2. WorkerInv'
    BY <1>29 DEF Done, Goto, control, history, TypeOK, WorkerInv, ControlInv, State,
       Requests, boot_state
  <2>3. ControlInv'
    BY <1>29 DEF Done, Goto, control, history, TypeOK, WorkerInv, ControlInv, State,
       Requests, WorkerPC
  <2>4. WakeInv'
    BY <1>29 DEF Done, Goto, control, history, TypeOK, WorkerInv, ControlInv, WakeInv,
       NoLostWakeup, HoldsMutex, State, Requests
  <2>5. JobInv'
    BY <1>29 DEF Done, Goto, control, history, TypeOK, WorkerInv, ControlInv, JobInv,
       FreshInv, State, Requests, Job, Jobs, boot_state
  <2>6. FreshInv'
    BY <1>29 DEF Done, Goto, control, history, TypeOK, ControlInv, FreshInv, Jobs, Job
  <2> QED
    BY <2>1, <2>2, <2>3, <2>4, <2>5, <2>6
<1>30. CASE Crash
  <2>1. TypeOK'
    BY <1>30 DEF Crash, Goto, control, history, TypeOK, FreshInv, Jobs, NoJob, Job,
       ThreadState, boot_state, ControlPC, WorkerPC, Ops, Outcomes
  <2>2. WorkerInv'
    BY <1>30 DEF Crash, Goto, control, history, TypeOK, WorkerInv, ControlInv, State,
       Requests, boot_state
  <2>3. ControlInv'
    BY <1>30 DEF Crash, Goto, control, history, TypeOK, WorkerInv, ControlInv, State,
       Requests, WorkerPC
  <2>4. WakeInv'
    BY <1>30 DEF Crash, Goto, control, history, TypeOK, WorkerInv, ControlInv, WakeInv,
       NoLostWakeup, HoldsMutex, State, Requests
  <2>5. JobInv'
    BY <1>30 DEF Crash, Goto, control, history, TypeOK, WorkerInv, ControlInv, JobInv,
       FreshInv, State, Requests, Job, Jobs, boot_state
  <2>6. FreshInv'
    BY <1>30 DEF Crash, Goto, control, history, TypeOK, ControlInv, FreshInv, Jobs, Job
  <2> QED
    BY <2>1, <2>2, <2>3, <2>4, <2>5, <2>6
<1>31. CASE SetExceptionAtThreadExit
  <2>1. TypeOK'
    BY <1>31 DEF SetExceptionAtThreadExit, Goto, control, history, TypeOK, FreshInv,
       Jobs, NoJob, Job, ThreadState, boot_state, ControlPC, WorkerPC, Ops, Outcomes
  <2>2. WorkerInv'
    BY <1>31 DEF SetExceptionAtThreadExit, Goto, control, history, TypeOK, WorkerInv,
       ControlInv, State, Requests, boot_state
  <2>3. ControlInv'
    BY <1>31 DEF SetExceptionAtThreadExit, Goto, control, history, TypeOK, WorkerInv,
       ControlInv, State, Requests, WorkerPC
  <2>4. WakeInv'
    BY <1>31 DEF SetExceptionAtThreadExit, Goto, control, history, TypeOK, WorkerInv,
       ControlInv, WakeInv, NoLostWakeup, HoldsMutex, State, Requests
  <2>5. JobInv'
    BY <1>31 DEF SetExceptionAtThreadExit, Goto, control, history, TypeOK, WorkerInv,
       ControlInv, JobInv, FreshInv, State, Requests, Job, Jobs, boot_state
  <2>6. FreshInv'
    BY <1>31 DEF SetExceptionAtThreadExit, Goto, control, history, TypeOK, ControlInv,
       FreshInv, Jobs, Job
  <2> QED
    BY <2>1, <2>2, <2>3, <2>4, <2>5, <2>6
<1>32. CASE SetValueAtThreadExit
  <2>1. TypeOK'
    BY <1>32 DEF SetValueAtThreadExit, Goto, control, history, TypeOK, FreshInv, Jobs,
       NoJob, Job, ThreadState, boot_state, ControlPC, WorkerPC, Ops, Outcomes
  <2>2. WorkerInv'
    BY <1>32 DEF SetValueAtThreadExit, Goto, control, history, TypeOK, WorkerInv,
       ControlInv, State, Requests, boot_state
  <2>3. ControlInv'
    BY <1>32 DEF SetValueAtThreadExit, Goto, control, history, TypeOK, WorkerInv,
       ControlInv, State, Requests, WorkerPC
  <2>4. WakeInv'
    BY <1>32 DEF SetValueAtThreadExit, Goto, control, history, TypeOK, WorkerInv,
       ControlInv, WakeInv, NoLostWakeup, HoldsMutex, State, Requests
  <2>5. JobInv'
    BY <1>32 DEF SetValueAtThreadExit, Goto, control, history, TypeOK, WorkerInv,
       ControlInv, JobInv, FreshInv, State, Requests, Job, Jobs, boot_state
  <2>6. FreshInv'
    BY <1>32 DEF SetValueAtThreadExit, Goto, control, history, TypeOK, ControlInv,
       FreshInv, Jobs, Job
  <2> QED
    BY <2>1, <2>2, <2>3, <2>4, <2>5, <2>6
<1>33. CASE Shut
  <2>1. TypeOK'
    BY <1>33 DEF Shut, Goto, control, history, TypeOK, FreshInv, Jobs, NoJob, Job,
       ThreadState, boot_state, ControlPC, WorkerPC, Ops, Outcomes
  <2>2. WorkerInv'
    BY <1>33 DEF Shut, Goto, control, history, TypeOK, WorkerInv, ControlInv, State,
       Requests, boot_state
  <2>3. ControlInv'
    BY <1>33 DEF Shut, Goto, control, history, TypeOK, WorkerInv, ControlInv, State,
       Requests, WorkerPC
  <2>4. WakeInv'
    BY <1>33 DEF Shut, Goto, control, history, TypeOK, WorkerInv, ControlInv, WakeInv,
       NoLostWakeup, HoldsMutex, State, Requests
  <2>5. JobInv'
    BY <1>33 DEF Shut, Goto, control, history, TypeOK, WorkerInv, ControlInv, JobInv,
       FreshInv, State, Requests, Job, Jobs, boot_state
  <2>6. FreshInv'
    BY <1>33 DEF Shut, Goto, control, history, TypeOK, ControlInv, FreshInv, Jobs, Job
  <2> QED
    BY <2>1, <2>2, <2>3, <2>4, <2>5, <2>6
<1>34. CASE Exit
  <2>1. TypeOK'
    BY <1>34 DEF Exit, Goto, shared, control, history, TypeOK, FreshInv, Jobs, NoJob,
       Job, ThreadState, boot_state, ControlPC, WorkerPC, Ops, Outcomes
  <2>2. WorkerInv'
    BY <1>34 DEF Exit, Goto, shared, control, history, TypeOK, WorkerInv, ControlInv,
       State, Requests, boot_state
  <2>3. ControlInv'
    BY <1>34 DEF Exit, Goto, shared, control, history, TypeOK, WorkerInv, ControlInv,
       State, Requests, WorkerPC
  <2>4. WakeInv'
    BY <1>34 DEF Exit, Goto, shared, control, history, TypeOK, WorkerInv, ControlInv,
       WakeInv, NoLostWakeup, HoldsMutex, State, Requests
  <2>5. JobInv'
    BY <1>34 DEF Exit, Goto, shared, control, history, TypeOK, WorkerInv, ControlInv,
       JobInv, FreshInv, State, Requests, Job, Jobs, boot_state
  <2>6. FreshInv'
    BY <1>34 DEF Exit, Goto, shared, control, history, TypeOK, ControlInv, FreshInv,
       Jobs, Job
  <2> QED
    BY <2>1, <2>2, <2>3, <2>4, <2>5, <2>6
<1>35. CASE SpuriousWakeup
  <2>1. TypeOK'
    BY <1>35 DEF SpuriousWakeup, Goto, shared, control, history, TypeOK, FreshInv, Jobs,
       NoJob, Job, ThreadState, boot_state, ControlPC, WorkerPC, Ops, Outcomes
  <2>2. WorkerInv'
    BY <1>35 DEF SpuriousWakeup, Goto, shared, control, history, TypeOK, WorkerInv,
       ControlInv, State, Requests, boot_state
  <2>3. ControlInv'
    BY <1>35 DEF SpuriousWakeup, Goto, shared, control, history, TypeOK, WorkerInv,
       ControlInv, State, Requests, WorkerPC
  <2>4. WakeInv'
    BY <1>35 DEF SpuriousWakeup, Goto, shared, control, history, TypeOK, WorkerInv,
       ControlInv, WakeInv, NoLostWakeup, HoldsMutex, State, Requests
  <2>5. JobInv'
    BY <1>35 DEF SpuriousWakeup, Goto, shared, control, history, TypeOK, WorkerInv,
       ControlInv, JobInv, FreshInv, State, Requests, Job, Jobs, boot_state
  <2>6. FreshInv'
    BY <1>35 DEF SpuriousWakeup, Goto, shared, control, history, TypeOK, ControlInv,
       FreshInv, Jobs, Job
  <2> QED
    BY <2>1, <2>2, <2>3, <2>4, <2>5, <2>6
<1>36. CASE UNCHANGED vars
  BY <1>36 DEF vars, shared, control, worker, history, TypeOK, WorkerInv, ControlInv,
     WakeInv, JobInv, FreshInv, NoLostWakeup, HoldsMutex, State, Job
<1> QED
  BY <1>1, <1>2, <1>3, <1>4, <1>5, <1>6, <1>7, <1>8, <1>9, <1>10, <1>11, <1>12,
     <1>13, <1>14, <1>15, <1>16, <1>17, <1>18, <1>19, <1>20, <1>21, <1>22, <1>23, <1>24,
     <1>25, <1>26, <1>27, <1>28, <1>29, <1>30, <1>31, <1>32, <1>33, <1>34, <1>35, <1>36
     DEF Next, Calls, ControllerStep, WorkerStep

\* The inductive invariant holds in every reachable state, whatever the number of
\* assign calls.
THEOREM Invariance == Spec => []IInv
BY InitInv, InvStep, PTL DEF Spec

\* The variables of the control block stay within their types.
THEOREM TypeCorrect == Spec => []TypeOK
BY Invariance, PTL DEF IInv

\* The lock_guard between the compare-and-swap and notify_one is enough: a worker
\* blocked on the condition variable with work to do is about to be notified.
THEOREM WakeupsArePreserved == Spec => []NoLostWakeup
<1>1. IInv => NoLostWakeup
  BY DEF IInv, WakeInv
<1> QED
  BY <1>1, Invariance, PTL

\* assign never writes the job slot while the worker reads or runs it.
THEOREM WorkIsRaceFree == Spec => []NoRaceOnWork
<1>1. IInv => NoRaceOnWork
  BY DEF IInv, NoRaceOnWork, WorkerInv, ControlInv, State
<1> QED
  BY <1>1, Invariance, PTL

\* A job whose assign threw is never run.
THEOREM RefusedJobsNeverRun == Spec => []RefusedNeverRun
<1>1. IInv => RefusedNeverRun
  <2> SUFFICES ASSUME IInv, NEW i \in 1 .. Len(executed)
               PROVE  executed[i] \notin refused
    BY DEF RefusedNeverRun
  <2>1. i \in 1 .. Len(accepted) /\ accepted[i] = executed[i]
    BY DEF IInv, TypeOK, JobInv
  <2> QED
    BY <2>1 DEF IInv, FreshInv
<1> QED
  BY <1>1, Invariance, PTL

\* assign hands over a job, which wakes the worker and is alone in the slot, or refuses it,
\* and then it is not run.
THEOREM HandOverIsSafe == Spec => []HandsOverSafely
BY WakeupsArePreserved, WorkIsRaceFree, RefusedJobsNeverRun, PTL DEF HandsOverSafely

\* shutdown drains: it returns with every accepted job executed and the thread gone.
THEOREM ShutdownNeverCutsWorkOff == Spec => ShutdownDrains
<1>1. IInv /\ [Next]_vars
        => [cpc = "join" /\ cpc' # "join" => accepted = executed /\ wpc = "exited"]_vars
  <2> SUFFICES ASSUME IInv, Next, cpc = "join", cpc' # "join"
               PROVE  accepted = executed /\ wpc = "exited"
    OBVIOUS
  <2>1. CASE Join
    BY <2>1 DEF Join, IInv, JobInv, WorkerInv, State
  <2>2. CASE ~Join
    BY <2>2 DEF Next, Calls, CallAssign, CallWait, CallShutdown, CallGetException, Call,
         ControllerStep, Constructed, WaitWhileBusy, UnsafeSetWork, CasClaim, CasRetry,
         CasOvershoot, Rollback, LockGuard, UnsafeWakeThread, GetException,
         WorkerStep, Boot, SpinSuccess, SpinTimeout, SleepLock, SleepCas, SleepCasFails,
         PredicateHolds, PredicateFails, Block, Relock, Reread, Dispatch, Run, Done,
         Crash, SetExceptionAtThreadExit, SetValueAtThreadExit, Shut, Exit,
         SpuriousWakeup, control
  <2> QED
    BY <2>1, <2>2
<1> QED
  BY <1>1, Invariance, PTL DEF Spec, ShutdownDrains

\* The controller reads the future outside of shutdown only after a crash, and nothing
\* follows a crash.
ExceptionInv == cpc = "get_exception" => threadstate = "Exception"

LEMMA ExceptionStays == IInv /\ ExceptionInv /\ [Next]_vars => ExceptionInv'
<1> SUFFICES ASSUME IInv, ExceptionInv, [Next]_vars, cpc' = "get_exception"
             PROVE  threadstate' = "Exception"
  BY DEF ExceptionInv
<1>1. CASE CallGetException
  BY <1>1 DEF CallGetException, Call, shared
<1>2. CASE Rollback
  BY <1>2 DEF Rollback, Refused, GoOn, Return, IInv, ControlInv
<1>3. CASE ~(CallGetException \/ Rollback)
  <2>1. cpc = "get_exception" /\ threadstate = "Exception"
    BY <1>3 DEF ExceptionInv, vars, Next, Calls, CallAssign, CallWait, CallShutdown, Call,
         ControllerStep, Constructed, WaitWhileBusy, UnsafeSetWork, CasClaim, Claimed, CasRetry,
         CasOvershoot, LockGuard, UnsafeWakeThread, GetException, Join, Return, GoOn,
         WorkerStep, Boot, SpinSuccess, SpinTimeout, SleepLock, SleepCas, SleepCasFails,
         PredicateHolds, PredicateFails, Block, Relock, Reread, Dispatch, Run, Done,
         Crash, SetExceptionAtThreadExit, SetValueAtThreadExit, Shut, Exit,
         SpuriousWakeup, control
  <2>2. wpc \in {"set_exception", "exiting", "exited"}
    BY <2>1 DEF IInv, TypeOK, WorkerPC, WorkerInv, State, Requests, boot_state
  <2> QED
    BY <1>3, <2>1, <2>2 DEF vars, shared, Next, Calls, CallAssign, CallWait, CallShutdown,
         Call, ControllerStep, Constructed, WaitWhileBusy, UnsafeSetWork, CasClaim, CasRetry,
         CasOvershoot, LockGuard, UnsafeWakeThread, GetException, Join,
         WorkerStep, Boot, SpinSuccess, SpinTimeout, SleepLock, SleepCas, SleepCasFails,
         PredicateHolds, PredicateFails, Block, Relock, Reread, Dispatch, Run, Done,
         Crash, SetExceptionAtThreadExit, SetValueAtThreadExit, Shut, Exit, Goto,
         SpuriousWakeup
<1> QED
  BY <1>1, <1>2, <1>3

\* Whichever call reads the future first reports what the worker left in it: the exception
\* of the job that crashed, wrapped if the call is assign, and nothing after a clean exit.
THEOREM CrashesAreReported == Spec => ExceptionReportedOnce
<1>1. Init => ExceptionInv
  BY DEF Init, ExceptionInv
<1> DEFINE Reported ==
             future_valid /\ ~future_valid'
               => (outcome' = IF result # "exception" THEN "ok"
                              ELSE IF op = "assign" THEN "ThreadError" ELSE "exception")
<1>2. IInv /\ ExceptionInv /\ [Next]_vars => [Reported]_vars
  <2> SUFFICES ASSUME IInv, ExceptionInv, Next, future_valid, ~future_valid'
               PROVE  outcome' = IF result # "exception" THEN "ok"
                                 ELSE IF op = "assign" THEN "ThreadError" ELSE "exception"
    OBVIOUS
  <2>1. CASE GetException
    <3>1. wpc = "exited" /\ threadstate = "Exception" /\ State = threadstate
      BY <2>1 DEF GetException, ExceptionInv, State
    <3>2. result = "exception"
      BY <3>1 DEF IInv, WorkerInv
    <3> QED
      BY <2>1, <3>2 DEF GetException, Return
  <2>2. CASE Join
    BY <2>2 DEF Join, Return, IInv, ControlInv
  <2>3. CASE ~(GetException \/ Join)
    BY <2>3 DEF Next, Calls, CallAssign, CallWait, CallShutdown, CallGetException, Call,
         ControllerStep, Constructed, WaitWhileBusy, UnsafeSetWork, CasClaim, CasRetry,
         CasOvershoot, Rollback, LockGuard, UnsafeWakeThread,
         WorkerStep, Boot, SpinSuccess, SpinTimeout, SleepLock, SleepCas, SleepCasFails,
         PredicateHolds, PredicateFails, Block, Relock, Reread, Dispatch, Run, Done,
         Crash, SetExceptionAtThreadExit, SetValueAtThreadExit, Shut, Exit,
         SpuriousWakeup, shared
  <2> QED
    BY <2>1, <2>2, <2>3
<1> QED
  BY <1>1, <1>2, ExceptionStays, Invariance, PTL DEF Spec, ExceptionReportedOnce

LEMMA ServerStep == IInv /\ [Next]_vars => [JS!Next]_(JS!vars)
<1> SUFFICES ASSUME IInv, [Next]_vars PROVE [JS!Next]_(JS!vars)
  OBVIOUS
<1>1. CASE CasClaim
  <2>1. CASE op = "assign"
    <3>1. Server = "serving" /\ accepted = executed
      BY <1>1 DEF CasClaim, IInv, TypeOK, WorkerPC, WorkerInv, ControlInv, JobInv, State,
                  Server
    <3>2. Job \in Jobs /\ accepted' = Append(accepted, Job) /\ UNCHANGED executed
      BY <1>1, <2>1 DEF CasClaim, IInv, FreshInv, Job
    <3>3. UNCHANGED Server
      BY <1>1 DEF CasClaim, Server, worker
    <3> QED
      BY <3>1, <3>2, <3>3 DEF JS!Next, JS!Accept, JS!Idle
  <2>2. CASE op # "assign"
    BY <1>1, <2>2 DEF CasClaim, worker, JS!vars, Server
  <2> QED
    BY <2>1, <2>2
<1>2. CASE Run
  <2>1. Server = "serving" /\ executed # accepted /\ accepted = Append(executed, fn)
    BY <1>2 DEF Run, IInv, TypeOK, WorkerInv, JobInv, State, Server
  <2>2. executed' = accepted /\ UNCHANGED <<accepted, result>>
    BY <1>2, <2>1 DEF Run, shared
  <2>3. Server' = "serving" \/ Server' = "crashed"
    BY <1>2, <2>1, <2>2 DEF Run, Server
  <2> QED
    BY <2>1, <2>2, <2>3 DEF JS!Next, JS!Complete, JS!Crash, JS!Idle
<1>3. CASE SetValueAtThreadExit
  <2>1. Server = "serving" /\ accepted = executed
    BY <1>3 DEF SetValueAtThreadExit, Goto, IInv, WorkerInv, JobInv, State, Server
  <2>2. Server' = "closed" /\ UNCHANGED <<accepted, executed>>
    BY <1>3 DEF SetValueAtThreadExit, Goto, Server, history
  <2> QED
    BY <2>1, <2>2 DEF JS!Next, JS!Close, JS!Idle
<1>4. CASE SetExceptionAtThreadExit
  BY <1>4 DEF SetExceptionAtThreadExit, Goto, IInv, WorkerInv, Server, JS!vars, history
<1>5. CASE Crash
  BY <1>5 DEF Crash, Goto, Server, JS!vars, history
<1>6. CASE ~(CasClaim \/ Run \/ SetValueAtThreadExit \/ SetExceptionAtThreadExit \/ Crash)
  <2>1. UNCHANGED <<accepted, executed, result>>
    BY <1>6 DEF vars, Next, Calls, CallAssign, CallWait, CallShutdown, CallGetException,
         Call, ControllerStep, Constructed, WaitWhileBusy, UnsafeSetWork, CasRetry,
         CasOvershoot, Rollback, LockGuard, UnsafeWakeThread, GetException,
         Join, WorkerStep, Boot, SpinSuccess, SpinTimeout, SleepLock, SleepCas,
         SleepCasFails, PredicateHolds, PredicateFails, Block, Relock, Reread, Dispatch,
         Done, Shut, Exit, SpuriousWakeup, shared, history
  <2>2. wpc \in {"crash", "set_exception"} <=> wpc' \in {"crash", "set_exception"}
    BY <1>6 DEF vars, Next, Calls, CallAssign, CallWait, CallShutdown, CallGetException,
         Call, ControllerStep, Constructed, WaitWhileBusy, UnsafeSetWork, CasRetry,
         CasOvershoot, Rollback, LockGuard, UnsafeWakeThread, GetException,
         Join, WorkerStep, Boot, SpinSuccess, SpinTimeout, SleepLock, SleepCas,
         SleepCasFails, PredicateHolds, PredicateFails, Block, Relock, Reread, Dispatch,
         Done, Shut, Exit, SpuriousWakeup, Goto, worker
  <2> QED
    BY <2>1, <2>2 DEF Server, JS!vars
<1> QED
  BY <1>1, <1>2, <1>3, <1>4, <1>5, <1>6

\* The worker thread implements JobServer, its fairness aside: an accepted job is
\* executed once, in order, and nothing is executed after a crash or a shutdown.
THEOREM SafelyServesJobs == Spec => JS!Init /\ [][JS!Next]_(JS!vars)
<1>1. Init => JS!Init
  BY DEF Init, JS!Init, Server
<1> QED
  BY <1>1, ServerStep, Invariance, PTL DEF Spec
=============================================================================
