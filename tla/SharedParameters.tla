--------------------------- MODULE SharedParameters ---------------------------
(***************************************************************************)
(* Parameters that threads read while others set them: ReadWriteProtected  *)
(* (lib/concurrency/readwrite_protected.h), which an index has for its     *)
(* search parameters.  A value is of two words, which are copied one by    *)
(* one.  A setter of one parameter gets the value, changes a word and sets *)
(* it.  Each thread does one call after the other.                         *)
(***************************************************************************)
EXTENDS Integers, FiniteSets

CONSTANTS SharedObjects,  \* numbered
          SharedThreads,  \* numbered
          MaxSharedCalls  \* bound: calls of all threads

ASSUME SharedAssumption ==
  SharedObjects \subseteq Nat /\ SharedThreads \subseteq Nat /\ MaxSharedCalls \in Nat

VARIABLES words,    \* of each object
          locks,    \* of each object: the threads in shared and in unique ownership
          callers,  \* what each thread is doing, with what it has got
          budget,   \* calls that may still begin
          given     \* the values that were whole when they were given to be set

shared_vars == <<words, locks, callers, budget, given>>

\* What a moved-from object is left with.
MovedFrom == <<-1, -1>>

Free == [shared |-> {}, unique |-> {}]

AtRest(got) == [stage |-> "none", call |-> [kind |-> "none"], word |-> 1, got |-> got]

SharedInit ==
  /\ words = [o \in SharedObjects |-> <<o, o>>] /\ locks = [o \in SharedObjects |-> Free]
  /\ callers = [t \in SharedThreads |-> AtRest(MovedFrom)]
  /\ budget = MaxSharedCalls /\ given = {<<o, o>> : o \in SharedObjects}

\* A value that no other call gives
NewValue(t) == <<10 * t + budget, 10 * t + budget>>

\* An assignment from the object itself returns at once.
SharedCalls ==
  {c \in [kind : {"get", "update", "set", "assign", "move"}, from : SharedObjects, to : SharedObjects] :
     (c.kind \in {"assign", "move"}) # (c.from = c.to)}

CallShared(t) ==
  /\ callers[t].stage = "none" /\ budget > 0
  /\ \E c \in SharedCalls :
       /\ callers' = [callers EXCEPT ![t] = [stage |-> IF c.kind = "set" THEN "set" ELSE "get", call |-> c, word |-> 1,
                                             got |-> IF c.kind = "set" THEN NewValue(t) ELSE <<0, 0>>]]
       /\ given' = IF c.kind = "set" THEN given \cup {NewValue(t)} ELSE given
  /\ budget' = budget - 1 /\ UNCHANGED <<words, locks>>

\* get() const&
LockShared(t) ==
  /\ callers[t].stage = "get" /\ callers[t].call.kind # "move"
  /\ locks[callers[t].call.from].unique = {}
  /\ locks' = [locks EXCEPT ![callers[t].call.from].shared = @ \cup {t}]
  /\ callers' = [callers EXCEPT ![t].stage = "read"] /\ UNCHANGED <<words, budget, given>>

\* Mutant: a writer waits for writers only.
MayWriteWithReaders(o) == locks[o].unique = {}

MayWrite(o) == locks[o] = Free

\* get() && and set
LockUnique(t) ==
  LET moves == callers[t].stage = "get" /\ callers[t].call.kind = "move"
      object == IF moves THEN callers[t].call.from ELSE callers[t].call.to
  IN  /\ moves \/ callers[t].stage = "set"
      /\ MayWrite(object)
      /\ locks' = [locks EXCEPT ![object].unique = {t}]
      /\ callers' = [callers EXCEPT ![t].stage = IF moves THEN "read" ELSE "write"]
      /\ UNCHANGED <<words, budget, given>>

\* The lock is released when the value has been copied, and only then comes the next one.
ReadWord(t) ==
  LET call_ == callers[t].call
      w == callers[t].word
      got == [callers[t].got EXCEPT ![w] = words[call_.from][w]]
      changed == IF call_.kind = "update" THEN [got EXCEPT ![1] = NewValue(t)[1]] ELSE got
      last == w = 2
  IN  /\ callers[t].stage = "read"
      /\ words' = IF call_.kind = "move" THEN [words EXCEPT ![call_.from][w] = MovedFrom[w]] ELSE words
      /\ callers' = [callers EXCEPT ![t] = CASE ~last -> [@ EXCEPT !.word = 2, !.got = got]
                                             [] last /\ call_.kind = "get" -> AtRest(got)
                                             [] OTHER -> [@ EXCEPT !.word = 1, !.got = changed, !.stage = "set"]]
      /\ given' = IF last /\ call_.kind = "update" THEN given \cup {changed} ELSE given
      /\ locks' = IF last THEN [locks EXCEPT ![call_.from] = [shared |-> @.shared \ {t}, unique |-> @.unique \ {t}]]
                  ELSE locks
      /\ UNCHANGED budget

WriteWord(t) ==
  LET to == callers[t].call.to
      w == callers[t].word
  IN  /\ callers[t].stage = "write"
      /\ words' = [words EXCEPT ![to][w] = callers[t].got[w]]
      /\ callers' = [callers EXCEPT ![t] = IF w = 1 THEN [@ EXCEPT !.word = 2] ELSE AtRest(callers[t].got)]
      /\ locks' = IF w = 2 THEN [locks EXCEPT ![to].unique = {}] ELSE locks
      /\ UNCHANGED <<budget, given>>

SharedNext ==
  \E t \in SharedThreads : CallShared(t) \/ LockShared(t) \/ LockUnique(t) \/ ReadWord(t) \/ WriteWord(t)

SharedSpec == SharedInit /\ [][SharedNext]_shared_vars

-----------------------------------------------------------------------------
Whole == given \cup {MovedFrom}

\* Whatever a thread gets was given whole to some set, and so is what it sets; an object that
\* no one is changing has such a value.  A thread never waits for a lock while it has one,
\* so that assignments in both directions cannot block each other (get, set, operator=).
ValuesAreWhole ==
  /\ \A t \in SharedThreads : callers[t].stage \in {"none", "set", "write"} => callers[t].got \in Whole
  /\ \A o \in SharedObjects : locks[o].unique = {} => words[o] \in Whole
  /\ \A t \in SharedThreads : callers[t].stage \in {"get", "set"} =>
       \A o \in SharedObjects : t \notin locks[o].shared \cup locks[o].unique
=============================================================================
