----------------------------- MODULE Allocation -----------------------------
(***************************************************************************)
(* Owning arrays (DenseArray, include/svs/lib/array.h) on memory from the  *)
(* GenericHugepageAllocator (include/svs/core/allocator.h), which all      *)
(* threads share: it maps memory, and keeps the size of every mapping in a *)
(* table under a mutex for when it is given back.  The system may refuse a *)
(* mapping, and gives an address again once it is unmapped.  An element is *)
(* as long as a normal page.  An array is used by one thread at a time,    *)
(* and nobody copies an array that was moved from.                         *)
(***************************************************************************)
EXTENDS Integers, FiniteSets

CONSTANTS Pages,      \* that the process may have: 0 .. Pages - 1
          HugePages,  \* the sizes of huge pages, in normal pages
          Clients,    \* threads
          Arrays,     \* variables that may hold an array
          MaxDim,     \* most elements
          Contents,   \* what elements are set to
          Unwritten,  \* what elements hold that nobody has set
          NoBlock     \* nullptr

ASSUME AllocationAssumption ==
  Pages \in Nat /\ MaxDim \in Nat /\ HugePages \subseteq Nat \ {0} /\ NoBlock \notin Nat

VARIABLES memory,     \* mapped page -> what it holds
          sizes,      \* ptr_to_size_: the first page of a mapping -> its pages
          mutex,      \* mutex_: who holds it
          arrays,     \* variable -> [pointer, dims], or Unborn
          doing,      \* thread -> the operation it is in
          terminated, \* an exception has left a function that is noexcept
          expected    \* history: variable -> what its elements were set to

memory_vars == <<memory, sizes, mutex, arrays, doing, terminated, expected>>

Unborn == [pointer |-> NoBlock, dims |-> -1]

Unheld == "free"

Idling == [step |-> "idle"]

Block(base, n) == base .. base + n - 1

round_up_to_multiple_of(n, page) == page * ((n + page - 1) \div page)

Lives(a) == arrays[a] # Unborn

Owns(a) == Lives(a) /\ arrays[a].pointer # NoBlock

AllocationInit ==
  /\ memory = <<>> /\ sizes = <<>> /\ mutex = Unheld /\ terminated = FALSE
  /\ arrays = [a \in Arrays |-> Unborn] /\ expected = [a \in Arrays |-> Unwritten]
  /\ doing = [t \in Clients |-> Idling]

\* Nobody else is in an operation with it.
Unused(a) == \A t \in Clients : doing[t] # Idling => a \notin {doing[t].to, doing[t].from}

Ready(a, s) == Unused(a) /\ Unused(s) /\ ~terminated

\* A thread takes up the first step of an operation on a; s is the array that is copied or
\* moved, or a itself.
Starts(a, op, s, dims, step) ==
  \E t \in Clients :
    /\ doing[t] = Idling
    /\ doing' = [doing EXCEPT ![t] = [step |-> step, op |-> op, to |-> a, from |-> s, dims |-> dims,
                                      base |-> NoBlock, pages |-> 0]]

\* Nothing but the arrays changes.
NoSystemCall == UNCHANGED <<memory, sizes, mutex, doing, terminated>>

-----------------------------------------------------------------------------
\* DenseArray(dims, allocator)
Construct(a, n) ==
  /\ Ready(a, a) /\ ~Lives(a)
  /\ Starts(a, "construct", a, n, "map")
  /\ UNCHANGED <<memory, sizes, mutex, arrays, terminated, expected>>

\* DenseArray(const DenseArray&)
CopyConstruct(a, s) ==
  /\ Ready(a, s) /\ ~Lives(a) /\ Owns(s)
  /\ Starts(a, "copy", s, arrays[s].dims, "map")
  /\ UNCHANGED <<memory, sizes, mutex, arrays, terminated, expected>>

\* operator=(const DenseArray&) gives up what there is before it asks for new memory.
CopyAssign(a, s) ==
  /\ Ready(a, s) /\ Lives(a) /\ Owns(s) /\ a # s
  /\ Starts(a, "copy", s, arrays[s].dims, IF Owns(a) THEN "erase" ELSE "map")
  /\ arrays' = IF Owns(a) THEN arrays ELSE [arrays EXCEPT ![a].dims = arrays[s].dims]
  /\ UNCHANGED <<memory, sizes, mutex, terminated, expected>>

\* Mutant: s keeps it, too.
PilferedFromCopy(f, a, s) == [f EXCEPT ![a] = f[s]]

\* The pointer is taken from s, also where s is the array itself: then it is null by now.
Pilfered(f, a, s) == [f EXCEPT ![a] = f[s], ![s].pointer = NoBlock]

\* DenseArray(DenseArray&&)
MoveConstruct(a, s) ==
  /\ Ready(a, s) /\ ~Lives(a) /\ Lives(s)
  /\ arrays' = Pilfered(arrays, a, s) /\ expected' = [expected EXCEPT ![a] = expected[s]]
  /\ NoSystemCall

\* operator=(DenseArray&&)
MoveAssign(a, s) ==
  /\ Ready(a, s) /\ Lives(a) /\ Lives(s)
  /\ IF Owns(a) THEN /\ Starts(a, "move", s, 0, "erase")
                     /\ UNCHANGED <<memory, sizes, mutex, arrays, terminated, expected>>
     ELSE /\ arrays' = Pilfered(arrays, a, s) /\ expected' = [expected EXCEPT ![a] = expected[s]]
          /\ NoSystemCall

Swap(a, s) ==
  /\ Ready(a, s) /\ Lives(a) /\ Lives(s)
  /\ arrays' = [arrays EXCEPT ![a] = arrays[s], ![s] = arrays[a]]
  /\ expected' = [expected EXCEPT ![a] = expected[s], ![s] = expected[a]]
  /\ NoSystemCall

\* ~DenseArray
Destroy(a) ==
  /\ Ready(a, a) /\ Lives(a)
  /\ IF Owns(a) THEN /\ Starts(a, "destroy", a, 0, "erase")
                     /\ UNCHANGED <<memory, sizes, mutex, arrays, terminated, expected>>
     ELSE arrays' = [arrays EXCEPT ![a] = Unborn] /\ NoSystemCall /\ UNCHANGED expected

\* The elements are set.
Fill(a, v) ==
  /\ Ready(a, a) /\ Owns(a)
  /\ LET mine == Block(arrays[a].pointer, arrays[a].dims)
     IN  memory' = [p \in DOMAIN memory |-> IF p \in mine THEN v ELSE memory[p]]
  /\ expected' = [expected EXCEPT ![a] = v]
  /\ UNCHANGED <<sizes, mutex, arrays, doing, terminated>>

-----------------------------------------------------------------------------
In(t, step) == doing[t].step = step /\ ~terminated

\* deallocate: the size is looked up and erased; tear_down is noexcept.
Erase(t) ==
  /\ In(t, "erase") /\ mutex = Unheld
  /\ LET p == arrays[doing[t].to].pointer
     IN  IF p \notin DOMAIN sizes THEN terminated' = TRUE /\ UNCHANGED <<sizes, mutex, doing>>
         ELSE /\ sizes' = [b \in DOMAIN sizes \ {p} |-> sizes[b]]
              /\ mutex' = t
              /\ doing' = [doing EXCEPT ![t].step = "unmap", ![t].base = p, ![t].pages = sizes[p]]
              /\ UNCHANGED terminated
  /\ UNCHANGED <<memory, arrays, expected>>

\* The pages are given back, and then the mutex; the array goes on without them.
GiveBack(t) ==
  /\ In(t, "unmap")
  /\ LET now == doing[t]
         a == now.to
         bare == [arrays EXCEPT ![a].pointer = NoBlock]
     IN  /\ memory' = [p \in DOMAIN memory \ Block(now.base, now.pages) |-> memory[p]]
         /\ arrays' = CASE now.op = "destroy" -> [bare EXCEPT ![a] = Unborn]
                        [] now.op = "move" -> Pilfered(bare, a, now.from)
                        [] now.op = "copy" -> [bare EXCEPT ![a].dims = now.dims]
         /\ expected' = [expected EXCEPT ![a] = IF now.op = "move" THEN expected[now.from] ELSE Unwritten]
         /\ doing' = [doing EXCEPT ![t] = IF now.op = "copy" THEN [now EXCEPT !.step = "map", !.base = NoBlock, !.pages = 0]
                                          ELSE Idling]
  /\ mutex' = Unheld
  /\ UNCHANGED <<sizes, terminated>>

\* hugepage_mmap: huge pages or, without `force`, normal ones, as many as cover the elements.
MapPages(t, page, base) ==
  /\ In(t, "map") /\ doing[t].dims > 0
  /\ LET pages == round_up_to_multiple_of(doing[t].dims, page)
         block == Block(base, pages)
     IN  /\ block \subseteq (0 .. Pages - 1) \ DOMAIN memory
         /\ memory' = [p \in DOMAIN memory \cup block |-> IF p \in block THEN Unwritten ELSE memory[p]]
         /\ doing' = [doing EXCEPT ![t].step = "insert", ![t].base = base, ![t].pages = pages]
  /\ UNCHANGED <<sizes, mutex, arrays, terminated, expected>>

\* No mapping of any kind, which also holds for one of 0 bytes: an exception.
MapFails(t) ==
  /\ In(t, "map") /\ doing' = [doing EXCEPT ![t] = Idling]
  /\ UNCHANGED <<memory, sizes, mutex, arrays, terminated, expected>>

\* The rest of allocate, and of the operation: an array gets its elements.  An entry that
\* is in the table stays as it is.
Insert(t) ==
  /\ In(t, "insert") /\ mutex = Unheld
  /\ LET now == doing[t]
         source == arrays[now.from].pointer
     IN  /\ sizes' = [b \in DOMAIN sizes \cup {now.base} |-> IF b \in DOMAIN sizes THEN sizes[b] ELSE now.pages]
         /\ arrays' = [arrays EXCEPT ![now.to] = [pointer |-> now.base, dims |-> now.dims]]
         /\ IF now.op = "copy"
            THEN /\ memory' = [p \in DOMAIN memory |-> IF p \in Block(now.base, now.dims)
                                                       THEN memory[source + p - now.base] ELSE memory[p]]
                 /\ expected' = [expected EXCEPT ![now.to] = expected[now.from]]
            ELSE memory' = memory /\ expected' = [expected EXCEPT ![now.to] = Unwritten]
         /\ doing' = [doing EXCEPT ![t] = Idling]
  /\ UNCHANGED <<mutex, terminated>>

OneArray(a) ==
  \/ Destroy(a) \/ (\E n \in 0 .. MaxDim : Construct(a, n)) \/ (\E v \in Contents : Fill(a, v))

TwoArrays(a, s) == CopyConstruct(a, s) \/ CopyAssign(a, s) \/ MoveConstruct(a, s) \/ MoveAssign(a, s) \/ Swap(a, s)

ClientStep(t) ==
  \/ Erase(t) \/ GiveBack(t) \/ MapFails(t) \/ Insert(t)
  \/ \E page \in HugePages \cup {1}, base \in 0 .. Pages - 1 : MapPages(t, page, base)

AllocationNext ==
  \/ \E t \in Clients : ClientStep(t)
  \/ \E a \in Arrays : OneArray(a)
  \/ \E a, s \in Arrays : TwoArrays(a, s)

AllocationSpec == AllocationInit /\ [][AllocationNext]_memory_vars

-----------------------------------------------------------------------------
\* However threads interleave and wherever the system refuses memory: the table knows
\* exactly the mappings there are, with their sizes, so that what is given back is what was
\* mapped, in full and once; no array has memory that another has or that is gone, and it
\* holds what was put into it, through copies, moves and swaps; nothing stays mapped that
\* no array owns, although an allocation may fail in the middle of an assignment.
MemoryIsOwned ==
  LET Leaving(a) == \E t \in Clients : doing[t].step = "unmap" /\ doing[t].to = a
      owners == {a \in Arrays : Owns(a) /\ ~Leaving(a)}
      Of(a) == Block(arrays[a].pointer, sizes[arrays[a].pointer])
      InFlight == {t \in Clients : doing[t].step \in {"insert", "unmap"}}
  IN  /\ ~terminated
      /\ DOMAIN sizes = {arrays[a].pointer : a \in owners}
      /\ DOMAIN memory = UNION ({Of(a) : a \in owners} \cup {Block(doing[t].base, doing[t].pages) : t \in InFlight})
      /\ \A a \in owners :
           /\ \A b \in owners \ {a} : Of(a) \cap Of(b) = {}
           /\ arrays[a].dims <= sizes[arrays[a].pointer]
           /\ \A p \in Block(arrays[a].pointer, arrays[a].dims) : memory[p] = expected[a]
=============================================================================
