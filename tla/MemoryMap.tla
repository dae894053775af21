----------------------------- MODULE MemoryMap ------------------------------
(***************************************************************************)
(* Files in memory: MemoryMapper and the pointers that own its mappings,   *)
(* MMapPtr (include/svs/core/allocator.h), as native files use them        *)
(* (HeaderMappedPtr, core/io/native.h).  There is one file, and nobody     *)
(* else changes it.  Sizes are in units that are as long as a header.      *)
(***************************************************************************)
EXTENDS Integers, FiniteSets

CONSTANTS Pointers,  \* variables that hold an MMapPtr
          MaxBytes,  \* most that is mapped
          Absent,    \* no file
          Null       \* of a pointer

ASSUME MemoryMapAssumption == IsFiniteSet(Pointers) /\ MaxBytes \in Nat /\ Absent \notin Nat /\ Null \notin Nat

VARIABLES file,      \* its size, or Absent
          mappings,  \* address -> the size of what is mapped there
          held,      \* pointer -> [ptr, base, size]
          unmapped,  \* munmap has failed, and the program has been terminated
          called     \* history: the last call of mmap, and the file before it

map_vars == <<file, mappings, held, unmapped, called>>

NoMapping == [ptr |-> Null, base |-> Null, size |-> 0]

\* Addresses that may be given; they are used again.
Addresses == 1 .. Cardinality(Pointers) + 1

Policies == {"MustUseExisting", "MustCreate", "MayCreate"}

MapInit ==
  /\ file \in {Absent} \cup 0 .. MaxBytes
  /\ mappings = <<>> /\ held = [p \in Pointers |-> NoMapping] /\ unmapped = FALSE /\ called = <<>>

Set(p) == held[p].ptr # Null

\* Mutant: munmap is given the pointer to the data.
ReleasedAtData(p) == IF Set(p) THEN [a \in DOMAIN mappings \ {held[p].ptr} |-> mappings[a]] ELSE mappings

\* unmap, where it is called: what is mapped after it.
Released(p) == IF Set(p) THEN [a \in DOMAIN mappings \ {held[p].base} |-> mappings[a]] ELSE mappings

\* munmap refuses what is not mapped.
UnmapFails(p) == Set(p) /\ ~(held[p].base \in DOMAIN mappings /\ mappings[held[p].base] = held[p].size)

\* ~MMapPtr, and unmap itself
Unmap(p) ==
  /\ ~unmapped /\ Set(p)
  /\ unmapped' = UnmapFails(p) /\ mappings' = Released(p)
  /\ held' = [held EXCEPT ![p] = NoMapping]
  /\ UNCHANGED <<file, called>>

\* operator=(MMapPtr&&), also from itself: it has been reset by then.
MoveFrom(p, q) ==
  /\ ~unmapped
  /\ unmapped' = UnmapFails(p) /\ mappings' = Released(p)
  /\ LET released == IF Set(p) THEN [held EXCEPT ![p] = NoMapping] ELSE held
     IN  held' = [released EXCEPT ![p] = released[q], ![q] = NoMapping]
  /\ UNCHANGED <<file, called>>

\* The file that there is when MemoryMapper::mmap maps it, or throws before: it is only made
\* where there is none, with its last byte written.  That may fail in between, and it does
\* for 0 bytes.
Prepared(policy, bytes) ==
  CASE file = Absent /\ policy = "MustUseExisting" -> {[file |-> file, ok |-> FALSE]}
    [] file = Absent /\ policy # "MustUseExisting" ->
         {[file |-> Absent, ok |-> FALSE], [file |-> 0, ok |-> FALSE]}
         \cup (IF bytes > 0 THEN {[file |-> bytes, ok |-> TRUE]} ELSE {})
    [] file # Absent -> {[file |-> file, ok |-> FALSE]}
                        \cup (IF policy # "MustCreate" /\ file >= bytes THEN {[file |-> file, ok |-> TRUE]} ELSE {})

\* MemoryMapper::mmap, whose result becomes p's by a move; a native file has its data
\* behind a header.
MapFile(p, policy, bytes, offset) ==
  /\ ~unmapped
  /\ \E s \in Prepared(policy, bytes) :
       /\ file' = s.file
       /\ \/ /\ s.ok /\ bytes > 0
             /\ \E a \in Addresses \ DOMAIN mappings :
                  /\ unmapped' = UnmapFails(p)
                  /\ mappings' = [b \in DOMAIN Released(p) \cup {a} |-> IF b = a THEN bytes ELSE Released(p)[b]]
                  /\ held' = [held EXCEPT ![p] = [ptr |-> a + offset, base |-> a, size |-> bytes]]
             /\ called' = [policy |-> policy, before |-> file, throws |-> FALSE]
          \/ /\ called' = [policy |-> policy, before |-> file, throws |-> TRUE]
             /\ UNCHANGED <<mappings, held, unmapped>>

MapNext ==
  \/ \E p \in Pointers : Unmap(p)
  \/ \E p, q \in Pointers : MoveFrom(p, q)
  \/ \E p \in Pointers, policy \in Policies, bytes \in 0 .. MaxBytes, offset \in 0 .. 1 :
       MapFile(p, policy, bytes, offset)

MapSpec == MapInit /\ [][MapNext]_map_vars

-----------------------------------------------------------------------------
\* Through moves, also of a pointer to itself, and failed calls: what is mapped belongs to
\* exactly one pointer, with its size, and nothing is unmapped that is not the pointer's;
\* and no mapping ends beyond its file.  A file that exists is as long as it was, whatever
\* the policy, and one that must exist is not made.
MappingsAreHeld ==
  LET holders == {p \in Pointers : Set(p)}
  IN  /\ ~unmapped
      /\ \A p \in holders : held[p].base \in DOMAIN mappings /\ held[p].size = mappings[held[p].base]
      /\ DOMAIN mappings = {held[p].base : p \in holders}
      /\ \A p, q \in holders : held[p].base = held[q].base => p = q
      /\ \A a \in DOMAIN mappings : file # Absent /\ mappings[a] <= file
      /\ called # <<>> =>
           /\ called.before # Absent => file = called.before /\ (called.policy = "MustCreate" => called.throws)
           /\ called.before = Absent /\ file # Absent => called.policy # "MustUseExisting"
=============================================================================
