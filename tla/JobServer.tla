------------------------------ MODULE JobServer ------------------------------
(***************************************************************************)
(* What a worker thread promises to the code that owns it.                 *)
(*                                                                         *)
(* A job that was accepted is executed exactly once, in the order of       *)
(* acceptance, and one at a time.  A server that crashed in a job, or that *)
(* was closed, executes nothing more.  ThreadControl implements this       *)
(* module: the sleeping, the condition variable and the compare-and-swap   *)
(* loops of include/svs/lib/threads/thread.h are invisible here.           *)
(***************************************************************************)
EXTENDS Sequences

CONSTANT Jobs  \* the jobs a client may submit

VARIABLES
  accepted,  \* the jobs the server has taken, in order
  executed,  \* the jobs it has run to their end, in order
  server     \* "serving", "crashed" (a job threw) or "closed"

vars == <<accepted, executed, server>>

Idle == accepted = executed

Init ==
  /\ accepted = <<>>
  /\ executed = <<>>
  /\ server = "serving"

Accept ==
  /\ server = "serving"
  /\ Idle
  /\ \E job \in Jobs : accepted' = Append(accepted, job)
  /\ UNCHANGED <<executed, server>>

Complete ==
  /\ server = "serving"
  /\ ~Idle
  /\ executed' = accepted
  /\ UNCHANGED <<accepted, server>>

Crash ==
  /\ server = "serving"
  /\ ~Idle
  /\ executed' = accepted
  /\ server' = "crashed"
  /\ UNCHANGED accepted

Close ==
  /\ server = "serving"
  /\ Idle
  /\ server' = "closed"
  /\ UNCHANGED <<accepted, executed>>

Next == Accept \/ Complete \/ Crash \/ Close

\* A server does not sit on a job it has taken.
Spec == Init /\ [][Next]_vars /\ WF_vars(Complete \/ Crash)
=============================================================================
