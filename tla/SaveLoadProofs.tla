--------------------------- MODULE SaveLoadProofs ---------------------------
(***************************************************************************)
(* What can be read back is whole, and an undisturbed save can be read     *)
(* back, for indexes of any size, and any number of saves, crashes and     *)
(* failed writes.                                                          *)
(*                                                                         *)
(* The argument: a file has a UUID only if its header was written last,    *)
(* and then all of its records are there; a table always has a UUID; so    *)
(* that a table leads to a file that is whole, or to none.  And what a     *)
(* save has not yet replaced is older than what it has.                    *)
(***************************************************************************)
EXTENDS SaveLoad, FiniteSetTheorems, FunctionTheorems, TLAPS

Indexes == [gen : Nat \ {0}, size : Nat \ {0}]

Records == [slot : Int, from : Indexes]

Files == [uuid : Nat, count : Nat, body : Seq(Records)]

Tables == [uuid : Nat \ {0}, num_points : Nat, gen : Nat]

\* The records of a file in directory d, as far as the first n records of index i.
Body(d, i, n) == [k \in 1 .. n |-> [slot |-> IF d = "config" THEN order[k] ELSE k - 1, from |-> i]]

\* The records of data or graph of index i.
WholeOf(i) == [k \in 1 .. i.size |-> [slot |-> k - 1, from |-> i]]

\* The files that are not torn, and the index they come from.
Complete(d) == {f \in disk[d].file : f.uuid # ZeroUUID}

Source(f) == f.body[1].from

-----------------------------------------------------------------------------
TypeOK ==
  /\ index \in Indexes
  /\ disk \in [Directories -> [file : SUBSET Files, table : SUBSET Tables]]
  /\ dir \in Directories \cup {"none"}
  /\ stage \in {"idle", "open", "body", "table", "write"}
  /\ bad \in BOOLEAN /\ faulty \in BOOLEAN
  /\ order \in Seq(Nat)
  /\ saves \in Nat
  /\ latest \subseteq Indexes

\* Where save is, and what it has just written.
SaveAtWork ==
  /\ dir = "none" <=> stage = "idle"
  /\ dir # "none" => saves # 0 /\ order \in Enumerations(index.size) /\ latest = {}
  /\ stage = "body" =>
       \E n \in 0 .. index.size : disk[dir].file = {[uuid |-> ZeroUUID, count |-> 0, body |-> Body(dir, index, n)]}
  /\ stage = "write" => disk[dir].table = {}
  /\ bad => faulty /\ stage \in {"body", "write"}

\* A file with a UUID has all records of one index.
FilesWhole ==
  \A d \in {"data", "graph"} :
    \A f \in Complete(d) :
      /\ Source(f) \in Indexes /\ Source(f).gen <= index.gen
      /\ f.count = Source(f).size
      /\ f.body = WholeOf(Source(f))

\* The directories are replaced in one order.
ReplacedInOrder ==
  /\ \A t \in disk["config"].table, f \in Complete("data") : t.gen >= Source(f).gen
  /\ \A f \in Complete("data"), g \in Complete("graph") : Source(f).gen >= Source(g).gen
  /\ dir \in {"data", "graph"} => \A t \in disk["config"].table : t.gen = index.gen
  /\ dir = "graph" \/ (dir = "data" /\ stage # "open") => \A f \in Complete("data") : Source(f) = index

\* What save writes to directory d for index i if nothing goes wrong.
FileWritten(d, i) ==
  \E f \in disk[d].file :
    /\ disk[d].file = {f}
    /\ f.body = Body(d, i, i.size)
    /\ d # "config" => f.uuid = saves /\ f.count = i.size

TableWritten(d, i) == disk[d].table = {[uuid |-> saves, num_points |-> i.size, gen |-> i.gen]}

Before(d) == CASE d = "config" -> {} [] d = "data" -> {"config"} [] d = "graph" -> {"config", "data"}

Undisturbed ==
  dir # "none" /\ ~faulty =>
    /\ \A d \in Before(dir) : FileWritten(d, index) /\ TableWritten(d, index)
    /\ stage \in {"table", "write"} => FileWritten(dir, index)

Delivered ==
  \A i \in latest :
    /\ saves # 0 /\ order \in Enumerations(i.size)
    /\ \A d \in Directories : FileWritten(d, i) /\ TableWritten(d, i)

SaveInv == TypeOK /\ SaveAtWork /\ FilesWhole /\ ReplacedInOrder /\ Undisturbed /\ Delivered
-----------------------------------------------------------------------------
(***************************************************************************)
(* What a step writes.                                                     *)
(***************************************************************************)
LEMMA PutChanges ==
  ASSUME disk \in [Directories -> [file : SUBSET Files, table : SUBSET Tables]],
         dir \in Directories, NEW kind \in {"file", "table"}, NEW value, Put(kind, value),
         value \subseteq IF kind = "file" THEN Files ELSE Tables
  PROVE  /\ disk' \in [Directories -> [file : SUBSET Files, table : SUBSET Tables]]
         /\ disk'[dir][kind] = value
         /\ kind = "file" => disk'[dir].table = disk[dir].table
         /\ kind = "table" => disk'[dir].file = disk[dir].file
         /\ \A d \in Directories : d # dir => disk'[d] = disk[d]
<1>1. disk[dir] \in [file : SUBSET Files, table : SUBSET Tables]
  OBVIOUS
<1> DEFINE new == [disk[dir] EXCEPT ![kind] = value]
<1>2. disk' = [disk EXCEPT ![dir] = new]
  BY DEF Put
<1>3. /\ new \in [file : SUBSET Files, table : SUBSET Tables]
      /\ new[kind] = value
      /\ kind = "file" => new.table = disk[dir].table
      /\ kind = "table" => new.file = disk[dir].file
  BY <1>1
<1> HIDE DEF new
<1> QED
  BY <1>2, <1>3

LEMMA EnumerationIsSequence ==
  ASSUME NEW n \in Nat, NEW s \in Enumerations(n)
  PROVE  s \in Seq(Nat) /\ s \in [1 .. n -> 0 .. n - 1]
<1>1. s \in [1 .. n -> 0 .. n - 1]
  BY DEF Enumerations
<1>2. s \in [1 .. n -> Nat]
  BY <1>1
<1> QED
  BY <1>1, <1>2

LEMMA BodyIsSequence ==
  ASSUME NEW d, NEW i \in Indexes, NEW n \in 0 .. i.size, order \in Enumerations(i.size)
  PROVE  Body(d, i, n) \in Seq(Records) /\ Len(Body(d, i, n)) = n
<1>1. i.size \in Nat /\ n \in Nat
  BY DEF Indexes
<1>2. order \in [1 .. i.size -> 0 .. i.size - 1]
  BY <1>1, EnumerationIsSequence
<1>3. ASSUME NEW k \in 1 .. n
      PROVE  [slot |-> IF d = "config" THEN order[k] ELSE k - 1, from |-> i] \in Records
  <2>1. k \in 1 .. i.size
    BY <1>1
  <2>2. order[k] \in Int /\ k - 1 \in Int
    BY <1>1, <1>2, <2>1
  <2> QED
    BY <2>2 DEF Records
<1>4. Body(d, i, n) \in [1 .. n -> Records]
  BY <1>3 DEF Body
<1> HIDE DEF Indexes, Records
<1> QED
  BY <1>1, <1>4

LEMMA BodyGrows ==
  ASSUME NEW n \in Nat, Body(dir, index, n) \in Seq(Records), Len(Body(dir, index, n)) = n,
         Body(dir, index, n + 1) \in Seq(Records), Len(Body(dir, index, n + 1)) = n + 1
  PROVE  Append(Body(dir, index, n), Record(n + 1)) = Body(dir, index, n + 1)
<1> DEFINE short == Body(dir, index, n)
           long == Append(short, Record(n + 1))
           whole == Body(dir, index, n + 1)
<1>1. /\ \A k \in 1 .. n : short[k] = Record(k)
      /\ \A k \in 1 .. n + 1 : whole[k] = Record(k)
  BY DEF Body, Record
<1> HIDE DEF short, whole
<1>2. Record(n + 1) \in Records
  <2>1. n + 1 \in 1 .. Len(whole)
    BY DEF whole
  <2>2. whole[n + 1] \in Records
    BY <2>1 DEF whole
  <2> QED
    BY <2>2, <1>1
<1>3. /\ long \in Seq(Records) /\ Len(long) = n + 1
      /\ \A k \in 1 .. n + 1 : long[k] = IF k <= n THEN short[k] ELSE Record(n + 1)
  BY <1>2 DEF short
<1>4. \A k \in 1 .. n + 1 : long[k] = whole[k]
  BY <1>1, <1>3
<1> HIDE DEF long
<1>5. long = whole
  BY <1>3, <1>4 DEF whole
<1> QED
  BY <1>5 DEF long, short, whole

LEMMA BodyOfPart ==
  ASSUME NEW d, d # "config", NEW i
  PROVE  Body(d, i, i.size) = WholeOf(i)
BY DEF Body, WholeOf

\* Data and graph are whole, so they come from the index in their first record.
LEMMA WholeHasSource ==
  ASSUME NEW f, NEW i \in Indexes, f.body = WholeOf(i)
  PROVE  Source(f) = i
<1>1. 1 \in 1 .. i.size
  BY DEF Indexes
<1> QED
  BY <1>1 DEF Source, WholeOf

-----------------------------------------------------------------------------
LEMMA SaveInvStarts == Init => SaveInv
<1> SUFFICES ASSUME Init PROVE SaveInv
  OBVIOUS
<1> USE DEF Init
<1>1. index \in Indexes
  BY DEF Indexes
<1>2. \A d \in Directories : disk[d].file = {} /\ disk[d].table = {}
  OBVIOUS
<1>3. disk \in [Directories -> [file : SUBSET Files, table : SUBSET Tables]]
  OBVIOUS
<1>4. order \in Seq(Nat)
  OBVIOUS
<1>5. TypeOK
  BY <1>1, <1>3, <1>4 DEF TypeOK
<1>6. SaveAtWork /\ Undisturbed /\ Delivered
  BY DEF SaveAtWork, Undisturbed, Delivered
<1>7. FilesWhole /\ ReplacedInOrder
  BY <1>2 DEF FilesWhole, ReplacedInOrder, Complete, Directories
<1> QED
  BY <1>5, <1>6, <1>7 DEF SaveInv
-----------------------------------------------------------------------------
(***************************************************************************)
(* Every step keeps the invariant: first those that leave the disk alone.  *)
(***************************************************************************)
\* The index of the next generation.
LEMMA NextIndex ==
  ASSUME index \in Indexes, \E size \in 1 .. MaxSize : index' = [gen |-> index.gen + 1, size |-> size]
  PROVE  index' \in Indexes /\ index'.gen = index.gen + 1
<1>1. PICK size \in 1 .. MaxSize : index' = [gen |-> index.gen + 1, size |-> size]
  OBVIOUS
<1>2. size \in Nat \ {0}
  BY SaveAssumption
<1> QED
  BY <1>1, <1>2 DEF Indexes

LEMMA OlderFilesStayWhole ==
  ASSUME FilesWhole, index \in Indexes, index' \in Indexes, index'.gen >= index.gen, UNCHANGED disk
  PROVE  FilesWhole'
<1> SUFFICES ASSUME NEW d \in {"data", "graph"}, NEW f \in Complete(d)'
             PROVE  /\ Source(f) \in Indexes /\ Source(f).gen <= index'.gen
                    /\ f.count = Source(f).size
                    /\ f.body = WholeOf(Source(f))
  BY DEF FilesWhole, Source, WholeOf
<1>1. f \in Complete(d)
  BY DEF Complete
<1>2. /\ Source(f) \in Indexes /\ Source(f).gen <= index.gen
      /\ f.count = Source(f).size
      /\ f.body = WholeOf(Source(f))
  BY <1>1 DEF FilesWhole
<1>3. Source(f).gen <= index'.gen
  BY <1>2 DEF Indexes
<1> QED
  BY <1>2, <1>3

LEMMA DeliveredStays ==
  ASSUME Delivered, UNCHANGED <<disk, order, saves, latest>>
  PROVE  Delivered'
<1> SUFFICES ASSUME NEW i \in latest', NEW d \in Directories
             PROVE  /\ saves' # 0 /\ order' \in Enumerations(i.size)
                    /\ FileWritten(d, i)' /\ TableWritten(d, i)'
  BY Zenon DEF Delivered, Directories
<1>1. saves # 0 /\ order \in Enumerations(i.size) /\ FileWritten(d, i) /\ TableWritten(d, i)
  BY DEF Delivered
<1>2. FileWritten(d, i)' /\ TableWritten(d, i)'
  BY <1>1 DEF FileWritten, TableWritten, Body
<1> QED
  BY <1>1, <1>2

LEMMA ChangeKeeps == SaveInv /\ Change => SaveInv'
<1> SUFFICES ASSUME SaveInv, Change PROVE SaveInv'
  OBVIOUS
<1> USE DEF SaveInv
<1>1. /\ dir = "none"
      /\ \E size \in 1 .. MaxSize : index' = [gen |-> index.gen + 1, size |-> size]
      /\ UNCHANGED <<disk, dir, stage, bad, order, saves, faulty, latest>>
  BY DEF Change
<1>2. index' \in Indexes /\ index'.gen = index.gen + 1
  BY <1>1, NextIndex DEF TypeOK
<1>3. TypeOK'
  BY <1>1, <1>2 DEF TypeOK
<1>4. SaveAtWork'
  BY <1>1 DEF SaveAtWork
<1>5. FilesWhole'
  <2>1. index'.gen >= index.gen
    BY <1>2 DEF TypeOK, Indexes
  <2> QED
    BY <1>1, <1>2, <2>1, OlderFilesStayWhole DEF TypeOK
<1>6. ReplacedInOrder'
  BY <1>1 DEF ReplacedInOrder, Complete, Source
<1>7. Undisturbed'
  BY <1>1 DEF Undisturbed
<1>8. Delivered'
  BY <1>1, DeliveredStays
<1> QED
  BY <1>3, <1>4, <1>5, <1>6, <1>7, <1>8

LEMMA saveKeeps == SaveInv /\ save => SaveInv'
<1> SUFFICES ASSUME SaveInv, save PROVE SaveInv'
  OBVIOUS
<1> USE DEF SaveInv
<1>1. /\ dir = "none" /\ dir' = "config" /\ stage' = "open" /\ saves' = saves + 1
      /\ order' \in Enumerations(index.size)
      /\ faulty' = FALSE /\ latest' = {}
      /\ UNCHANGED <<index, disk, bad>>
  BY DEF save
<1>2. index.size \in Nat /\ saves \in Nat
  BY DEF TypeOK, Indexes
<1>3. TypeOK'
  <2>1. order' \in Seq(Nat)
    BY <1>1, <1>2, EnumerationIsSequence
  <2>2. saves' \in Nat /\ latest' = {} /\ dir' \in Directories
    BY <1>1, <1>2 DEF Directories
  <2> QED
    BY <1>1, <2>1, <2>2 DEF TypeOK
<1>4. ~bad
  BY <1>1 DEF SaveAtWork
<1>5. SaveAtWork'
  BY <1>1, <1>2, <1>4 DEF SaveAtWork
<1>6. FilesWhole'
  BY <1>1 DEF FilesWhole, Complete, Source, WholeOf
<1>7. ReplacedInOrder'
  BY <1>1 DEF ReplacedInOrder, Complete, Source
<1>8. Undisturbed'
  BY <1>1 DEF Undisturbed, Before
<1>9. Delivered'
  BY <1>1 DEF Delivered
<1> QED
  BY <1>3, <1>5, <1>6, <1>7, <1>8, <1>9

LEMMA WriteFailsKeeps == SaveInv /\ WriteFails => SaveInv'
<1> SUFFICES ASSUME SaveInv, WriteFails PROVE SaveInv'
  OBVIOUS
<1> USE DEF SaveInv
<1>1. /\ stage \in {"body", "write"} /\ bad' = TRUE /\ faulty' = TRUE
      /\ UNCHANGED <<index, disk, dir, stage, order, saves, latest>>
  BY DEF WriteFails
<1>2. TypeOK'
  BY <1>1 DEF TypeOK
<1>3. SaveAtWork'
  BY <1>1 DEF SaveAtWork, Body
<1>4. FilesWhole'
  BY <1>1 DEF FilesWhole, Complete, Source, WholeOf
<1>5. ReplacedInOrder'
  BY <1>1 DEF ReplacedInOrder, Complete, Source
<1>6. Undisturbed'
  BY <1>1 DEF Undisturbed
<1>7. Delivered'
  BY <1>1, DeliveredStays
<1> QED
  BY <1>2, <1>3, <1>4, <1>5, <1>6, <1>7

LEMMA CrashKeeps == SaveInv /\ Crash => SaveInv'
<1> SUFFICES ASSUME SaveInv, Crash PROVE SaveInv'
  OBVIOUS
<1> USE DEF SaveInv
<1>1. /\ dir # "none" /\ dir' = "none" /\ stage' = "idle" /\ bad' = FALSE
      /\ \E size \in 1 .. MaxSize : index' = [gen |-> index.gen + 1, size |-> size]
      /\ UNCHANGED <<disk, order, saves, faulty, latest>>
  BY DEF Crash
<1>2. index' \in Indexes /\ index'.gen = index.gen + 1
  BY <1>1, NextIndex DEF TypeOK
<1>3. TypeOK'
  BY <1>1, <1>2 DEF TypeOK
<1>4. SaveAtWork'
  BY <1>1 DEF SaveAtWork
<1>5. FilesWhole'
  <2>1. index'.gen >= index.gen
    BY <1>2 DEF TypeOK, Indexes
  <2> QED
    BY <1>1, <1>2, <2>1, OlderFilesStayWhole DEF TypeOK
<1>6. ReplacedInOrder'
  BY <1>1 DEF ReplacedInOrder, Complete, Source
<1>7. Undisturbed'
  BY <1>1 DEF Undisturbed
<1>8. latest' = {}
  BY <1>1 DEF SaveAtWork
<1>9. Delivered'
  BY <1>8 DEF Delivered
<1> QED
  BY <1>3, <1>4, <1>5, <1>6, <1>7, <1>9
-----------------------------------------------------------------------------
(***************************************************************************)
(* The steps that write a file.                                            *)
(***************************************************************************)
\* A step of save writes file g to the directory it is at.
WritesFile(g) ==
  /\ dir \in Directories /\ Put("file", {g})
  /\ UNCHANGED <<index, dir, order, saves, latest>>

\* If it has a UUID, it is whole.
WrittenWhole(g) ==
  dir \in {"data", "graph"} /\ g.uuid # ZeroUUID =>
    g.count = index.size /\ g.body = WholeOf(index)

LEMMA FileIsWritten ==
  ASSUME TypeOK, NEW g \in Files, WritesFile(g)
  PROVE  /\ disk' \in [Directories -> [file : SUBSET Files, table : SUBSET Tables]]
         /\ disk'[dir].file = {g} /\ disk'[dir].table = disk[dir].table
         /\ \A d \in Directories : d # dir => disk'[d] = disk[d]
<1>1. disk \in [Directories -> [file : SUBSET Files, table : SUBSET Tables]]
  BY DEF TypeOK
<1>2. "file" \in {"file", "table"} /\ {g} \subseteq Files
  OBVIOUS
<1>3. dir \in Directories /\ Put("file", {g})
  BY DEF WritesFile
<1> QED
  BY <1>1, <1>2, <1>3, PutChanges

LEMMA FileKeepsFilesWhole ==
  ASSUME SaveInv, NEW g \in Files, WritesFile(g), WrittenWhole(g)
  PROVE  FilesWhole'
<1> SUFFICES ASSUME NEW d \in {"data", "graph"}, NEW f \in disk'[d].file, f.uuid # ZeroUUID
             PROVE  /\ Source(f) \in Indexes /\ Source(f).gen <= index'.gen
                    /\ f.count = Source(f).size
                    /\ f.body = WholeOf(Source(f))
  BY DEF FilesWhole, Complete, Source, WholeOf
<1>1. index' = index /\ index \in Indexes
  BY DEF WritesFile, SaveInv, TypeOK
<1>2. CASE d = dir
  <2>1. f = g
    BY <1>2, FileIsWritten DEF SaveInv
  <2>2. g.count = index.size /\ g.body = WholeOf(index)
    BY <1>2, <2>1 DEF WrittenWhole
  <2>3. Source(g) = index
    BY <1>1, <2>2, WholeHasSource
  <2> QED
    BY <1>1, <2>1, <2>2, <2>3 DEF Indexes
<1>3. CASE d # dir
  <2>1. f \in Complete(d)
    BY <1>3, FileIsWritten DEF SaveInv, Complete, Directories
  <2> QED
    BY <1>1, <2>1 DEF SaveInv, FilesWhole
<1> QED
  BY <1>2, <1>3

LEMMA FileKeepsOrder ==
  ASSUME SaveInv, NEW g \in Files, WritesFile(g), WrittenWhole(g)
  PROVE  ReplacedInOrder'
<1> USE DEF SaveInv
<1>1. /\ index' = index /\ dir' = dir /\ index \in Indexes
      /\ disk'["config"].table = disk["config"].table
  BY FileIsWritten DEF WritesFile, TypeOK, Directories
<1>2. ASSUME NEW d \in {"data", "graph"}, NEW f \in disk'[d].file, f.uuid # ZeroUUID, d = dir
      PROVE  Source(f) = index
  <2>1. f = g
    BY <1>2, FileIsWritten
  <2>2. g.body = WholeOf(index)
    BY <1>2, <2>1 DEF WrittenWhole
  <2> QED
    BY <1>1, <2>1, <2>2, WholeHasSource
<1>3. ASSUME NEW d \in {"data", "graph"}, NEW f \in disk'[d].file, f.uuid # ZeroUUID, d # dir
      PROVE  f \in Complete(d)
  BY <1>3, FileIsWritten DEF Complete, Directories
<1>4. ASSUME NEW t \in disk["config"].table, NEW f \in disk'["data"].file, f.uuid # ZeroUUID
      PROVE  t.gen >= Source(f).gen
  <2>1. CASE dir = "data"
    <3>1. t.gen = index.gen /\ Source(f) = index
      BY <1>2, <1>4, <2>1 DEF ReplacedInOrder
    <3> QED
      BY <1>1, <3>1 DEF Indexes
  <2>2. CASE dir # "data"
    BY <1>3, <1>4, <2>2 DEF ReplacedInOrder
  <2> QED
    BY <2>1, <2>2
<1>5. ASSUME NEW f \in disk'["data"].file, f.uuid # ZeroUUID,
             NEW h \in disk'["graph"].file, h.uuid # ZeroUUID
      PROVE  Source(f).gen >= Source(h).gen
  <2>1. CASE dir = "data"
    <3>1. Source(f) = index /\ h \in Complete("graph")
      BY <1>2, <1>3, <1>5, <2>1
    <3>2. Source(h) \in Indexes /\ Source(h).gen <= index.gen
      BY <3>1 DEF FilesWhole
    <3> QED
      BY <1>1, <3>1, <3>2 DEF Indexes
  <2>2. CASE dir = "graph"
    <3>1. f \in Complete("data") /\ Source(h) = index
      BY <1>2, <1>3, <1>5, <2>2
    <3>2. Source(f) = index
      BY <2>2, <3>1 DEF ReplacedInOrder
    <3> QED
      BY <1>1, <3>1, <3>2 DEF Indexes
  <2>3. CASE dir \notin {"data", "graph"}
    BY <1>3, <1>5, <2>3 DEF ReplacedInOrder
  <2> QED
    BY <2>1, <2>2, <2>3
<1>6. ASSUME dir = "graph" \/ dir = "data", NEW f \in disk'["data"].file, f.uuid # ZeroUUID
      PROVE  Source(f) = index
  <2>1. CASE dir = "data"
    BY <1>2, <1>6, <2>1
  <2>2. CASE dir = "graph"
    BY <1>3, <1>6, <2>2 DEF ReplacedInOrder
  <2> QED
    BY <1>6, <2>1, <2>2
<1>7. dir \in {"data", "graph"} => \A t \in disk["config"].table : t.gen = index.gen
  BY DEF ReplacedInOrder
<1> HIDE DEF SaveInv
<1> QED
  BY <1>1, <1>4, <1>5, <1>6, <1>7 DEF ReplacedInOrder, Complete, Source

\* What has been written to earlier directories stays.
LEMMA EarlierStay ==
  ASSUME dir \in Directories, UNCHANGED <<index, order, saves>>,
         \A d \in Directories : d # dir => disk'[d] = disk[d],
         NEW d \in Before(dir), FileWritten(d, index), TableWritten(d, index)
  PROVE  FileWritten(d, index)' /\ TableWritten(d, index)'
<1>1. d \in Directories /\ d # dir
  BY DEF Before, Directories
<1>2. disk'[d] = disk[d]
  BY <1>1
<1> QED
  BY <1>2 DEF FileWritten, TableWritten, Body

LEMMA OpenKeeps == SaveInv /\ Open => SaveInv'
<1> SUFFICES ASSUME SaveInv, Open PROVE SaveInv'
  OBVIOUS
<1> DEFINE g == [uuid |-> ZeroUUID, count |-> 0, body |-> <<>>]
<1>1. /\ dir # "none" /\ stage = "open" /\ stage' = "body" /\ bad' = FALSE
      /\ Put("file", {g})
      /\ UNCHANGED <<index, dir, order, saves, faulty, latest>>
  BY DEF Open
<1>2. g \in Files /\ g.uuid = ZeroUUID
  BY DEF Files, ZeroUUID
<1>3. g = [uuid |-> ZeroUUID, count |-> 0, body |-> Body(dir, index, 0)]
  BY DEF Body
<1>4. dir \in Directories
  BY <1>1 DEF SaveInv, TypeOK
<1> HIDE DEF g
<1>5. WritesFile(g) /\ WrittenWhole(g)
  BY <1>1, <1>2, <1>4 DEF WritesFile, WrittenWhole
<1>6. /\ disk' \in [Directories -> [file : SUBSET Files, table : SUBSET Tables]]
      /\ disk'[dir].file = {g}
      /\ \A d \in Directories : d # dir => disk'[d] = disk[d]
  BY <1>2, <1>5, FileIsWritten DEF SaveInv
<1>7. TypeOK'
  BY <1>1, <1>6 DEF SaveInv, TypeOK
<1>8. SaveAtWork'
  <2>1. 0 \in 0 .. index.size
    BY DEF SaveInv, TypeOK, Indexes
  <2>2. \E n \in 0 .. index.size : disk'[dir].file = {[uuid |-> ZeroUUID, count |-> 0, body |-> Body(dir, index, n)]}
    BY <1>3, <1>6, <2>1
  <2> QED
    BY <1>1, <2>2 DEF SaveInv, SaveAtWork, Body
<1>9. FilesWhole' /\ ReplacedInOrder'
  BY <1>2, <1>5, FileKeepsFilesWhole, FileKeepsOrder
<1>10. Undisturbed'
  BY <1>1, <1>4, <1>6, EarlierStay DEF SaveInv, Undisturbed
<1>11. Delivered'
  BY <1>1 DEF SaveInv, SaveAtWork, Delivered
<1> QED
  BY <1>7, <1>8, <1>9, <1>10, <1>11 DEF SaveInv

LEMMA WriteRecordKeeps == SaveInv /\ WriteRecord => SaveInv'
<1> SUFFICES ASSUME SaveInv, WriteRecord PROVE SaveInv'
  OBVIOUS
<1>1. /\ stage = "body" /\ Len(Current.body) < index.size
      /\ Put("file", {[Current EXCEPT !.body = Append(@, Record(Len(@) + 1))]})
      /\ UNCHANGED <<index, dir, stage, bad, order, saves, faulty, latest>>
  BY DEF WriteRecord
<1>2. PICK n \in 0 .. index.size :
        disk[dir].file = {[uuid |-> ZeroUUID, count |-> 0, body |-> Body(dir, index, n)]}
  BY <1>1 DEF SaveInv, SaveAtWork
<1>3. Current = [uuid |-> ZeroUUID, count |-> 0, body |-> Body(dir, index, n)]
  BY <1>2 DEF Current
<1>4. dir \in Directories /\ index \in Indexes /\ order \in Enumerations(index.size)
  BY <1>1 DEF SaveInv, TypeOK, SaveAtWork
<1>5. Body(dir, index, n) \in Seq(Records) /\ Len(Body(dir, index, n)) = n
  BY <1>4, BodyIsSequence
<1>6. n \in Nat /\ n + 1 \in 0 .. index.size
  BY <1>1, <1>3, <1>4, <1>5 DEF Indexes
<1>7. Body(dir, index, n + 1) \in Seq(Records) /\ Len(Body(dir, index, n + 1)) = n + 1
  BY <1>4, <1>6, BodyIsSequence
<1>8. Append(Body(dir, index, n), Record(n + 1)) = Body(dir, index, n + 1)
  BY <1>5, <1>6, <1>7, BodyGrows
<1> DEFINE g == [uuid |-> ZeroUUID, count |-> 0, body |-> Body(dir, index, n + 1)]
<1>9. [Current EXCEPT !.body = Append(@, Record(Len(@) + 1))] = g
  <2> DEFINE b == Body(dir, index, n)
             r == Record(Len(b) + 1)
  <2>1. [Current EXCEPT !.body = Append(@, Record(Len(@) + 1))]
          = [[uuid |-> ZeroUUID, count |-> 0, body |-> b] EXCEPT !.body = Append(b, r)]
    BY <1>3
  <2>2. Append(b, r) = Body(dir, index, n + 1)
    BY <1>5, <1>8
  <2> HIDE DEF b, r
  <2> QED
    BY <2>1, <2>2
<1>10. g \in Files /\ g.uuid = ZeroUUID
  BY <1>7 DEF Files, ZeroUUID
<1>11. WritesFile(g) /\ WrittenWhole(g)
  BY <1>1, <1>4, <1>9, <1>10 DEF WritesFile, WrittenWhole
<1>12. /\ disk' \in [Directories -> [file : SUBSET Files, table : SUBSET Tables]]
       /\ disk'[dir].file = {g}
       /\ \A d \in Directories : d # dir => disk'[d] = disk[d]
  BY <1>10, <1>11, FileIsWritten DEF SaveInv
<1>13. TypeOK'
  BY <1>1, <1>12 DEF SaveInv, TypeOK
<1>14. SaveAtWork'
  <2>1. \E m \in 0 .. index.size : disk'[dir].file = {[uuid |-> ZeroUUID, count |-> 0, body |-> Body(dir, index, m)]}
    BY <1>6, <1>12
  <2> QED
    BY <1>1, <2>1 DEF SaveInv, SaveAtWork, Body
<1> HIDE DEF g
<1>15. FilesWhole' /\ ReplacedInOrder'
  BY <1>10, <1>11, FileKeepsFilesWhole, FileKeepsOrder
<1>16. Undisturbed'
  BY <1>1, <1>4, <1>12, EarlierStay DEF SaveInv, Undisturbed
<1>17. Delivered'
  BY <1>1 DEF SaveInv, SaveAtWork, Delivered
<1> QED
  BY <1>13, <1>14, <1>15, <1>16, <1>17 DEF SaveInv

LEMMA CloseFileKeeps == SaveInv /\ CloseFile => SaveInv'
<1> SUFFICES ASSUME SaveInv, CloseFile PROVE SaveInv'
  OBVIOUS
<1>1. /\ stage = "body" /\ (bad \/ Len(Current.body) = index.size)
      /\ IF bad \/ dir = "config" THEN UNCHANGED disk
         ELSE Put("file", {[uuid |-> saves, count |-> index.size, body |-> Current.body]})
      /\ stage' = "table" /\ bad' = FALSE
      /\ UNCHANGED <<index, dir, order, saves, faulty, latest>>
  BY DEF CloseFile
<1>2. PICK n \in 0 .. index.size :
        disk[dir].file = {[uuid |-> ZeroUUID, count |-> 0, body |-> Body(dir, index, n)]}
  BY <1>1 DEF SaveInv, SaveAtWork
<1>3. Current = [uuid |-> ZeroUUID, count |-> 0, body |-> Body(dir, index, n)]
  BY <1>2 DEF Current
<1>4. /\ dir \in Directories /\ index \in Indexes /\ order \in Enumerations(index.size)
      /\ saves \in Nat \ {0} /\ dir # "none" /\ latest' = {}
  BY <1>1 DEF SaveInv, TypeOK, SaveAtWork
<1>5. Body(dir, index, n) \in Seq(Records) /\ Len(Body(dir, index, n)) = n
  BY <1>4, BodyIsSequence
<1>6. ~bad => n = index.size
  BY <1>1, <1>3, <1>5
<1>7. bad => faulty
  BY DEF SaveInv, SaveAtWork
<1>8. Delivered'
  BY <1>4 DEF Delivered
<1>9. CASE bad \/ dir = "config"
  <2>1. UNCHANGED disk
    BY <1>1, <1>9
  <2>2. TypeOK'
    BY <1>1, <2>1 DEF SaveInv, TypeOK
  <2>3. SaveAtWork'
    BY <1>1, <1>4 DEF SaveInv, SaveAtWork
  <2>4. FilesWhole'
    BY <1>1, <2>1 DEF SaveInv, FilesWhole, Complete, Source, WholeOf
  <2>5. ReplacedInOrder'
    <3>1. dir = "data" => \A f \in Complete("data") : Source(f) = index
      BY <1>1 DEF SaveInv, ReplacedInOrder
    <3> QED
      BY <1>1, <2>1, <3>1 DEF SaveInv, ReplacedInOrder, Complete, Source
  <2>6. Undisturbed'
    <3> SUFFICES ASSUME ~faulty'
                 PROVE  /\ \A d \in Before(dir) : FileWritten(d, index)' /\ TableWritten(d, index)'
                        /\ FileWritten(dir, index)'
      BY <1>1 DEF Undisturbed
    <3>1. ~faulty /\ dir = "config" /\ n = index.size
      BY <1>1, <1>6, <1>7, <1>9
    <3>2. \A d \in Before(dir) : FileWritten(d, index)' /\ TableWritten(d, index)'
      BY <3>1 DEF Before
    <3>3. FileWritten(dir, index)
      BY <1>2, <3>1 DEF FileWritten
    <3>4. FileWritten(dir, index)'
      BY <1>1, <2>1, <3>3 DEF FileWritten, Body
    <3> QED
      BY <3>2, <3>4
  <2> QED
    BY <1>8, <2>2, <2>3, <2>4, <2>5, <2>6 DEF SaveInv
<1>10. CASE ~bad /\ dir # "config"
  <2> DEFINE g == [uuid |-> saves, count |-> index.size, body |-> Body(dir, index, index.size)]
  <2>1. [uuid |-> saves, count |-> index.size, body |-> Current.body] = g
    BY <1>3, <1>6, <1>10
  <2>2. g \in Files /\ g.uuid = saves /\ g.count = index.size /\ g.body = Body(dir, index, index.size)
    BY <1>4, <1>5, <1>6, <1>10 DEF Files, Indexes
  <2> HIDE DEF g
  <2>3. g.body = WholeOf(index)
    BY <1>10, <2>2, BodyOfPart
  <2>4. WritesFile(g) /\ WrittenWhole(g)
    BY <1>1, <1>4, <1>10, <2>1, <2>2, <2>3 DEF WritesFile, WrittenWhole
  <2>5. /\ disk' \in [Directories -> [file : SUBSET Files, table : SUBSET Tables]]
        /\ disk'[dir].file = {g}
        /\ \A d \in Directories : d # dir => disk'[d] = disk[d]
    BY <2>2, <2>4, FileIsWritten DEF SaveInv
  <2>6. TypeOK'
    BY <1>1, <2>5 DEF SaveInv, TypeOK
  <2>7. SaveAtWork'
    BY <1>1, <1>4 DEF SaveInv, SaveAtWork
  <2>8. FilesWhole' /\ ReplacedInOrder'
    BY <2>2, <2>4, FileKeepsFilesWhole, FileKeepsOrder
  <2>9. FileWritten(dir, index)'
    BY <1>1, <2>2, <2>5 DEF FileWritten, Body
  <2>10. ASSUME ~faulty, NEW d \in Before(dir)
         PROVE  FileWritten(d, index)' /\ TableWritten(d, index)'
    BY <1>1, <1>4, <2>5, <2>10, EarlierStay DEF SaveInv, Undisturbed
  <2>11. Undisturbed'
    BY <1>1, <2>9, <2>10 DEF Undisturbed
  <2> QED
    BY <1>8, <2>6, <2>7, <2>8, <2>11 DEF SaveInv
<1> QED
  BY <1>9, <1>10

-----------------------------------------------------------------------------
(***************************************************************************)
(* The steps that write a table.                                           *)
(***************************************************************************)
\* A step of save makes the table of the directory it is at the set t.
WritesTable(t) ==
  /\ dir \in Directories /\ Put("table", t)
  /\ UNCHANGED <<index, order, saves>>

LEMMA TableIsWritten ==
  ASSUME TypeOK, NEW t \in SUBSET Tables, WritesTable(t)
  PROVE  /\ disk' \in [Directories -> [file : SUBSET Files, table : SUBSET Tables]]
         /\ disk'[dir].table = t
         /\ \A d \in Directories : disk'[d].file = disk[d].file
         /\ \A d \in Directories : d # dir => disk'[d] = disk[d]
<1>1. disk \in [Directories -> [file : SUBSET Files, table : SUBSET Tables]]
  BY DEF TypeOK
<1>2. "table" \in {"file", "table"} /\ t \subseteq Tables
  OBVIOUS
<1>3. dir \in Directories /\ Put("table", t)
  BY DEF WritesTable
<1>4. /\ disk' \in [Directories -> [file : SUBSET Files, table : SUBSET Tables]]
      /\ disk'[dir].table = t /\ disk'[dir].file = disk[dir].file
      /\ \A d \in Directories : d # dir => disk'[d] = disk[d]
  BY <1>1, <1>2, <1>3, PutChanges
<1> QED
  BY <1>4

LEMMA TableKeepsFilesWhole ==
  ASSUME SaveInv, NEW t \in SUBSET Tables, WritesTable(t)
  PROVE  FilesWhole'
<1>1. \A d \in {"data", "graph"} : disk'[d].file = disk[d].file
  BY TableIsWritten DEF SaveInv, Directories
<1>2. index' = index
  BY DEF WritesTable
<1> QED
  BY <1>1, <1>2 DEF SaveInv, FilesWhole, Complete, Source, WholeOf

\* The parameters are of the index that is saved; all files are of it or older.
LEMMA TableKeepsOrder ==
  ASSUME SaveInv, NEW t \in SUBSET Tables, WritesTable(t),
         \A x \in t : x.gen = index.gen
  PROVE  /\ \A x \in disk'["config"].table, f \in Complete("data")' : x.gen >= Source(f).gen
         /\ \A f \in Complete("data")', g \in Complete("graph")' : Source(f).gen >= Source(g).gen
<1> USE DEF SaveInv
<1>1. Complete("data")' = Complete("data") /\ Complete("graph")' = Complete("graph")
  BY TableIsWritten DEF Complete, Directories
<1>2. index \in Indexes
  BY DEF TypeOK
<1>3. ASSUME NEW x \in disk'["config"].table, NEW f \in Complete("data")
      PROVE  x.gen >= Source(f).gen
  <2>1. CASE dir = "config"
    <3>1. x.gen = index.gen
      BY <1>3, <2>1, TableIsWritten
    <3>2. Source(f) \in Indexes /\ Source(f).gen <= index.gen
      BY <1>3 DEF FilesWhole
    <3> QED
      BY <1>2, <3>1, <3>2 DEF Indexes
  <2>2. CASE dir # "config"
    <3>1. x \in disk["config"].table
      BY <1>3, <2>2, TableIsWritten DEF Directories
    <3> QED
      BY <1>3, <3>1 DEF ReplacedInOrder
  <2> QED
    BY <2>1, <2>2
<1>4. \A f \in Complete("data"), g \in Complete("graph") : Source(f).gen >= Source(g).gen
  BY DEF ReplacedInOrder
<1> QED
  BY <1>1, <1>3, <1>4

LEMMA OpenTableKeeps == SaveInv /\ OpenTable => SaveInv'
<1> SUFFICES ASSUME SaveInv, OpenTable PROVE SaveInv'
  OBVIOUS
<1>1. /\ stage = "table" /\ Put("table", {}) /\ stage' = "write"
      /\ UNCHANGED <<index, dir, bad, order, saves, faulty, latest>>
  BY DEF OpenTable
<1>2. dir \in Directories /\ dir # "none" /\ latest' = {} /\ ~bad
  BY <1>1 DEF SaveInv, TypeOK, SaveAtWork
<1>3. WritesTable({}) /\ {} \in SUBSET Tables
  BY <1>1, <1>2 DEF WritesTable
<1>4. /\ disk' \in [Directories -> [file : SUBSET Files, table : SUBSET Tables]]
      /\ disk'[dir].table = {}
      /\ \A d \in Directories : disk'[d].file = disk[d].file
      /\ \A d \in Directories : d # dir => disk'[d] = disk[d]
  BY <1>3, TableIsWritten DEF SaveInv
<1>5. TypeOK'
  BY <1>1, <1>4 DEF SaveInv, TypeOK
<1>6. SaveAtWork'
  BY <1>1, <1>2, <1>4 DEF SaveInv, SaveAtWork
<1>7. FilesWhole'
  BY <1>3, TableKeepsFilesWhole
<1>8. ReplacedInOrder'
  <2>1. /\ \A x \in disk'["config"].table, f \in Complete("data")' : x.gen >= Source(f).gen
        /\ \A f \in Complete("data")', g \in Complete("graph")' : Source(f).gen >= Source(g).gen
    BY <1>3, TableKeepsOrder
  <2>2. dir \in {"data", "graph"} => \A x \in disk'["config"].table : x.gen = index.gen
    BY <1>4 DEF SaveInv, ReplacedInOrder, Directories
  <2>3. dir = "graph" \/ dir = "data" => \A f \in Complete("data")' : Source(f) = index
    BY <1>1, <1>4 DEF SaveInv, ReplacedInOrder, Complete, Directories
  <2> QED
    BY <1>1, <2>1, <2>2, <2>3 DEF ReplacedInOrder, Source
<1>9. Undisturbed'
  <2>1. ASSUME ~faulty, NEW d \in Before(dir)
        PROVE  FileWritten(d, index)' /\ TableWritten(d, index)'
    BY <1>1, <1>2, <1>4, <2>1, EarlierStay DEF SaveInv, Undisturbed
  <2>2. ~faulty => FileWritten(dir, index)
    BY <1>1, <1>2 DEF SaveInv, Undisturbed
  <2>3. ~faulty => FileWritten(dir, index)'
    BY <1>1, <1>2, <1>4, <2>2 DEF FileWritten, Body
  <2> QED
    BY <1>1, <2>1, <2>3 DEF Undisturbed
<1>10. Delivered'
  BY <1>2 DEF Delivered
<1> QED
  BY <1>5, <1>6, <1>7, <1>8, <1>9, <1>10 DEF SaveInv

LEMMA WriteTableKeeps == SaveInv /\ WriteTable => SaveInv'
<1> SUFFICES ASSUME SaveInv, WriteTable PROVE SaveInv'
  OBVIOUS
<1> DEFINE t == IF bad THEN {} ELSE {[uuid |-> saves, num_points |-> index.size, gen |-> index.gen]}
<1>1. /\ stage = "write"
      /\ IF bad THEN UNCHANGED disk
         ELSE Put("table", {[uuid |-> saves, num_points |-> index.size, gen |-> index.gen]})
      /\ dir' = NextDirectory
      /\ stage' = (IF dir' = "none" THEN "idle" ELSE "open")
      /\ bad' = FALSE
      /\ latest' = (IF dir' = "none" /\ ~faulty /\ ~bad THEN {index} ELSE {})
      /\ UNCHANGED <<index, order, saves, faulty>>
  BY DEF WriteTable
<1>2. /\ dir \in Directories /\ dir # "none" /\ index \in Indexes
      /\ saves \in Nat \ {0} /\ order \in Enumerations(index.size)
      /\ bad \in BOOLEAN /\ (bad => faulty)
      /\ disk[dir].table = {}
      /\ disk \in [Directories -> [file : SUBSET Files, table : SUBSET Tables]]
  BY <1>1 DEF SaveInv, TypeOK, SaveAtWork
<1>3. t \in SUBSET Tables /\ \A x \in t : x.gen = index.gen
  BY <1>2 DEF Tables, Indexes
<1>4. Put("table", t)
  <2>1. CASE bad
    <3>1. [disk[dir] EXCEPT !.table = {}] = disk[dir]
      BY <1>2
    <3>2. [disk EXCEPT ![dir] = disk[dir]] = disk
      BY <1>2
    <3>3. [disk EXCEPT ![dir]["table"] = {}] = disk
      BY <3>1, <3>2
    <3> QED
      BY <1>1, <2>1, <3>3 DEF Put
  <2>2. CASE ~bad
    BY <1>1, <2>2
  <2> QED
    BY <2>1, <2>2
<1>5. WritesTable(t)
  BY <1>1, <1>2, <1>4 DEF WritesTable
<1>6. ~faulty => t = {[uuid |-> saves, num_points |-> index.size, gen |-> index.gen]}
  BY <1>2
<1> HIDE DEF t
<1>7. /\ disk' \in [Directories -> [file : SUBSET Files, table : SUBSET Tables]]
      /\ disk'[dir].table = t
      /\ \A d \in Directories : disk'[d].file = disk[d].file
      /\ \A d \in Directories : d # dir => disk'[d] = disk[d]
  BY <1>3, <1>5, TableIsWritten DEF SaveInv
<1>8. /\ dir = "config" => dir' = "data"
      /\ dir = "data" => dir' = "graph"
      /\ dir = "graph" => dir' = "none"
  BY <1>1 DEF NextDirectory
<1>9. dir \in {"config", "data", "graph"}
  BY <1>2 DEF Directories
<1>10. TypeOK'
  <2>1. dir' \in Directories \cup {"none"} /\ stage' \in {"idle", "open"} /\ latest' \subseteq Indexes
    BY <1>1, <1>2, <1>8, <1>9 DEF Directories
  <2> QED
    BY <1>1, <1>7, <2>1 DEF SaveInv, TypeOK
<1>11. SaveAtWork'
  <2>1. dir' = "none" <=> stage' = "idle"
    BY <1>1
  <2>2. dir' # "none" => latest' = {}
    BY <1>1
  <2> QED
    BY <1>1, <1>2, <2>1, <2>2 DEF SaveAtWork
<1>12. FilesWhole'
  BY <1>3, <1>5, TableKeepsFilesWhole
<1>13. ReplacedInOrder'
  <2>1. /\ \A x \in disk'["config"].table, f \in Complete("data")' : x.gen >= Source(f).gen
        /\ \A f \in Complete("data")', g \in Complete("graph")' : Source(f).gen >= Source(g).gen
    BY <1>3, <1>5, TableKeepsOrder
  <2>2. dir \in {"config", "data"} => \A x \in disk'["config"].table : x.gen = index.gen
    <3>1. CASE dir = "config"
      BY <1>3, <1>7, <3>1
    <3>2. CASE dir = "data"
      BY <1>7, <3>2 DEF SaveInv, ReplacedInOrder, Directories
    <3> QED
      BY <3>1, <3>2
  <2>3. dir = "data" => \A f \in Complete("data")' : Source(f) = index
    BY <1>1, <1>7 DEF SaveInv, ReplacedInOrder, Complete, Directories
  <2> QED
    BY <1>1, <1>8, <1>9, <2>1, <2>2, <2>3 DEF ReplacedInOrder, Source
<1>14. ASSUME ~faulty, NEW d \in Before(dir) \cup {dir}
       PROVE  FileWritten(d, index)' /\ TableWritten(d, index)'
  <2>1. CASE d \in Before(dir)
    BY <1>1, <1>2, <1>7, <1>14, <2>1, EarlierStay DEF SaveInv, Undisturbed
  <2>2. CASE d = dir
    <3>1. FileWritten(dir, index)
      BY <1>1, <1>2, <1>14 DEF SaveInv, Undisturbed
    <3>2. disk'[d].file = disk[d].file /\ disk'[d].table = t
      BY <1>2, <1>7, <2>2
    <3> QED
      BY <1>1, <1>6, <1>14, <2>2, <3>1, <3>2 DEF FileWritten, TableWritten, Body
  <2> QED
    BY <1>14, <2>1, <2>2
<1>15. Undisturbed'
  <2> SUFFICES ASSUME dir' # "none", ~faulty, NEW d \in Before(dir')
               PROVE  FileWritten(d, index)' /\ TableWritten(d, index)'
    BY <1>1 DEF Undisturbed, Before
  <2>1. d \in Before(dir) \cup {dir}
    BY <1>8, <1>9 DEF Before
  <2> QED
    BY <1>14, <2>1
<1>16. Delivered'
  <2> SUFFICES ASSUME dir' = "none", ~faulty
               PROVE  /\ saves' # 0 /\ order' \in Enumerations(index'.size)
                      /\ \A d \in Directories : FileWritten(d, index)' /\ TableWritten(d, index)'
    BY <1>1 DEF Delivered
  <2>1. dir = "graph"
    BY <1>8, <1>9
  <2>2. Directories = Before(dir) \cup {dir}
    BY <2>1 DEF Directories, Before
  <2> QED
    BY <1>1, <1>2, <1>14, <2>2
<1> QED
  BY <1>10, <1>11, <1>12, <1>13, <1>15, <1>16 DEF SaveInv

-----------------------------------------------------------------------------
LEMMA SaveInvStays == SaveInv /\ [Next]_vars => SaveInv'
<1> SUFFICES ASSUME SaveInv, [Next]_vars PROVE SaveInv'
  OBVIOUS
<1>1. CASE UNCHANGED vars
  <2> USE <1>1 DEF vars, SaveInv
  <2>1. TypeOK' /\ SaveAtWork'
    BY DEF TypeOK, SaveAtWork, Body
  <2>2. FilesWhole' /\ ReplacedInOrder'
    BY DEF FilesWhole, ReplacedInOrder, Complete, Source, WholeOf
  <2>3. Undisturbed'
    <3>1. ASSUME NEW d
          PROVE  (FileWritten(d, index) => FileWritten(d, index)') /\ (TableWritten(d, index) => TableWritten(d, index)')
      BY DEF FileWritten, TableWritten, Body
    <3>2. Before(dir)' = Before(dir)
      BY DEF Before
    <3> QED
      BY <3>1, <3>2 DEF Undisturbed
  <2>4. Delivered'
    BY DeliveredStays
  <2> QED
    BY <2>1, <2>2, <2>3, <2>4
<1>2. CASE Next
  BY <1>2, ChangeKeeps, saveKeeps, OpenKeeps, WriteRecordKeeps, WriteFailsKeeps, CloseFileKeeps,
     OpenTableKeeps, WriteTableKeeps, CrashKeeps DEF Next
<1> QED
  BY <1>1, <1>2

\* save: the invariant of the disk and of a save at work on it.
THEOREM DiskInvariant == Spec => []SaveInv
BY SaveInvStarts, SaveInvStays, PTL DEF Spec

-----------------------------------------------------------------------------
(***************************************************************************)
(* What is read back.                                                      *)
(***************************************************************************)
\* A table has a UUID, so the file it leads to is whole.
LEMMA FoundIsWhole ==
  ASSUME SaveInv, NEW d \in {"data", "graph"}, NEW f \in find_uuid(d)
  PROVE  /\ f \in Complete(d)
         /\ Source(f) \in Indexes
         /\ load_dataset(f) = WholeOf(Source(f))
<1>1. PICK t \in disk[d].table : f \in disk[d].file /\ f.uuid = t.uuid
  BY DEF find_uuid
<1>2. t \in Tables
  BY <1>1 DEF SaveInv, TypeOK, Directories
<1>3. f \in Complete(d)
  BY <1>1, <1>2 DEF Complete, Tables, ZeroUUID
<1>4. Source(f) \in Indexes /\ f.count = Source(f).size /\ f.body = WholeOf(Source(f))
  BY <1>3 DEF SaveInv, FilesWhole
<1> DEFINE n == Source(f).size
<1>5. n \in Nat
  BY <1>4 DEF Indexes
<1>6. Len(f.body) = n
  BY <1>4, <1>5 DEF WholeOf
<1>7. \A k \in 1 .. n : k <= Len(f.body)
  BY <1>5, <1>6
<1>8. load_dataset(f) = [k \in 1 .. n |-> f.body[k]]
  BY <1>4, <1>7 DEF load_dataset
<1>9. [k \in 1 .. n |-> f.body[k]] = WholeOf(Source(f))
  BY <1>4 DEF WholeOf
<1> QED
  BY <1>3, <1>4, <1>8, <1>9

LEMMA SourcesOfWhole ==
  ASSUME NEW i \in Indexes
  PROVE  Sources(WholeOf(i)) = {i} /\ Whole(WholeOf(i)) /\ Len(WholeOf(i)) = i.size
<1>1. 1 \in 1 .. i.size /\ i.size \in Nat
  BY DEF Indexes
<1>2. Sources(WholeOf(i)) = {i}
  BY <1>1 DEF Sources, WholeOf
<1>3. Whole(WholeOf(i))
  BY <1>2 DEF Whole, WholeOf
<1>4. Len(WholeOf(i)) = i.size
  BY <1>1 DEF WholeOf
<1> QED
  BY <1>2, <1>3, <1>4

LEMMA WholePartsAreRead == SaveInv => PartsAreWhole
<1> SUFFICES ASSUME SaveInv, NEW a \in Assembled
             PROVE  /\ Whole(a.data) /\ Whole(a.graph)
                    /\ \A i \in Sources(a.data), j \in Sources(a.graph) : a.table.gen >= i.gen /\ i.gen >= j.gen
  BY DEF PartsAreWhole, auto_dynamic_assemble
<1>1. PICK d \in find_uuid("data"), g \in find_uuid("graph"), t \in disk["config"].table :
        a.data = load_dataset(d) /\ a.graph = load_dataset(g) /\ a.table = t
  BY DEF Assembled
<1>2. /\ d \in Complete("data") /\ Source(d) \in Indexes /\ a.data = WholeOf(Source(d))
      /\ g \in Complete("graph") /\ Source(g) \in Indexes /\ a.graph = WholeOf(Source(g))
  BY <1>1, FoundIsWhole
<1>3. /\ Sources(a.data) = {Source(d)} /\ Whole(a.data)
      /\ Sources(a.graph) = {Source(g)} /\ Whole(a.graph)
  BY <1>2, SourcesOfWhole
<1>4. t.gen >= Source(d).gen /\ Source(d).gen >= Source(g).gen
  BY <1>1, <1>2 DEF SaveInv, ReplacedInOrder
<1> QED
  BY <1>1, <1>3, <1>4

\* save, auto_dynamic_assemble: data and graph that assemble are each of a single save
\* and complete, the parameters never older than the data, nor the data than the graph.
THEOREM NothingTornIsRead == Spec => []PartsAreWhole
BY DiskInvariant, WholePartsAreRead, PTL

-----------------------------------------------------------------------------
\* An order of the ids names each slot once.
LEMMA OrderNamesEverySlot ==
  ASSUME NEW n \in Nat, NEW s \in Enumerations(n), NEW i
  PROVE  LET pairs == {[slot |-> s[k], from |-> i] : k \in 1 .. n}
         IN  Cardinality(pairs) = n /\ {p.slot : p \in pairs} = 0 .. n - 1
<1> DEFINE pairs == {[slot |-> s[k], from |-> i] : k \in 1 .. n}
           slots == {p.slot : p \in pairs}
           pair == [k \in 1 .. n |-> [slot |-> s[k], from |-> i]]
           slot == [k \in 1 .. n |-> s[k]]
<1>1. s \in [1 .. n -> 0 .. n - 1] /\ \A j, k \in 1 .. n : j # k => s[j] # s[k]
  BY DEF Enumerations
<1>2. IsFiniteSet(1 .. n) /\ Cardinality(1 .. n) = n
  BY FS_Interval
<1>3. IsFiniteSet(0 .. n - 1) /\ Cardinality(0 .. n - 1) = n
  BY FS_Interval
<1>4. pair \in Bijection(1 .. n, pairs)
  <2>1. pair \in [1 .. n -> pairs]
    OBVIOUS
  <2>2. \A j, k \in 1 .. n : pair[j] = pair[k] => j = k
    BY <1>1
  <2>3. \A p \in pairs : \E k \in 1 .. n : pair[k] = p
    OBVIOUS
  <2> QED
    BY <2>1, <2>2, <2>3, Fun_IsBij
<1>5. Cardinality(pairs) = n
  <2> HIDE DEF pairs, pair
  <2> QED
    BY <1>2, <1>4, FS_Bijection DEF ExistsBijection
<1>6. slots = {s[k] : k \in 1 .. n}
  <2>1. \A k \in 1 .. n : [slot |-> s[k], from |-> i] \in pairs
    OBVIOUS
  <2>2. \A p \in pairs : \E k \in 1 .. n : p = [slot |-> s[k], from |-> i]
    OBVIOUS
  <2> HIDE DEF pairs
  <2>3. \A x \in slots : \E k \in 1 .. n : x = s[k]
    BY <2>2
  <2>4. ASSUME NEW k \in 1 .. n
        PROVE  s[k] \in slots
    <3> DEFINE p == [slot |-> s[k], from |-> i]
    <3>1. p \in pairs /\ p.slot = s[k]
      BY <2>1
    <3> HIDE DEF p
    <3> QED
      BY <3>1
  <2> HIDE DEF slots
  <2> QED
    BY <2>3, <2>4
<1>7. slot \in Bijection(1 .. n, slots)
  <2>1. slot \in [1 .. n -> slots]
    BY <1>6
  <2>2. \A j, k \in 1 .. n : slot[j] = slot[k] => j = k
    BY <1>1
  <2>3. \A x \in slots : \E k \in 1 .. n : slot[k] = x
    BY <1>6
  <2> QED
    BY <2>1, <2>2, <2>3, Fun_IsBij
<1>8. slots \subseteq 0 .. n - 1 /\ Cardinality(slots) = n
  <2>1. slots \subseteq 0 .. n - 1
    BY <1>1, <1>6
  <2> HIDE DEF slots, slot
  <2>2. Cardinality(slots) = n
    BY <1>2, <1>7, FS_Bijection DEF ExistsBijection
  <2> QED
    BY <2>1, <2>2
<1>9. slots = 0 .. n - 1
  BY <1>3, <1>8, FS_Subset
<1> QED
  BY <1>5, <1>9

\* The parts of an undisturbed save are the three parts of its index.
LEMMA DeliveredIsAssembled ==
  ASSUME SaveInv, NEW i \in latest
  PROVE  \E a \in Assembled :
           /\ a.data = WholeOf(i) /\ a.graph = WholeOf(i) /\ a.table.gen = i.gen
           /\ a.translation = {[slot |-> order[k], from |-> i] : k \in 1 .. i.size}
<1>1. i \in Indexes /\ i.size \in Nat \ {0}
  BY DEF SaveInv, TypeOK, Indexes
<1>2. /\ saves # 0 /\ order \in Enumerations(i.size)
      /\ \A d \in Directories : FileWritten(d, i) /\ TableWritten(d, i)
  BY DEF SaveInv, Delivered
<1> DEFINE t == [uuid |-> saves, num_points |-> i.size, gen |-> i.gen]
<1>3. ASSUME NEW d \in {"data", "graph"}
      PROVE  \E f \in find_uuid(d) : load_dataset(f) = WholeOf(i)
  <2>1. d \in Directories /\ d # "config"
    BY DEF Directories
  <2>2. PICK f \in disk[d].file : f.body = Body(d, i, i.size) /\ f.uuid = saves /\ f.count = i.size
    BY <1>2, <2>1 DEF FileWritten
  <2>3. t \in disk[d].table /\ t.uuid = saves
    BY <1>2, <2>1 DEF TableWritten
  <2>4. f \in find_uuid(d)
    BY <2>2, <2>3 DEF find_uuid
  <2>5. f.body = WholeOf(i)
    BY <2>1, <2>2, BodyOfPart
  <2>6. load_dataset(f) = WholeOf(i)
    BY <1>1, <2>4, <2>5, FoundIsWhole, WholeHasSource
  <2> QED
    BY <2>4, <2>6
<1>4. PICK d \in find_uuid("data") : load_dataset(d) = WholeOf(i)
  BY <1>3
<1>5. PICK g \in find_uuid("graph") : load_dataset(g) = WholeOf(i)
  BY <1>3
<1>6. PICK f \in disk["config"].file : f.body = Body("config", i, i.size)
  BY <1>2 DEF FileWritten, Directories
<1>7. t \in disk["config"].table /\ t.num_points = i.size /\ t.gen = i.gen
  BY <1>2 DEF TableWritten, Directories
<1>8. Len(f.body) = i.size /\ f.body # <<>>
  BY <1>1, <1>6 DEF Body
<1> HIDE DEF t
<1> DEFINE a == [data |-> load_dataset(d), graph |-> load_dataset(g), table |-> t,
                 translation |-> insert_translation(f, t.num_points)]
<1>9. a \in Assembled
  BY <1>7, <1>8 DEF Assembled
<1>10. insert_translation(f, i.size) = {[slot |-> order[k], from |-> i] : k \in 1 .. i.size}
  <2>1. insert_translation(f, i.size) = {f.body[k] : k \in 1 .. i.size}
    BY <1>1, <1>8 DEF insert_translation
  <2>2. \A k \in 1 .. i.size : f.body[k] = [slot |-> order[k], from |-> i]
    BY <1>6 DEF Body
  <2> QED
    BY <2>1, <2>2
<1>11. /\ a.data = WholeOf(i) /\ a.graph = WholeOf(i) /\ a.table.gen = i.gen
       /\ a.translation = {[slot |-> order[k], from |-> i] : k \in 1 .. i.size}
  BY <1>4, <1>5, <1>7, <1>10
<1> QED
  BY <1>9, <1>11

LEMMA DeliveredIsRead == SaveInv => RoundTrip
<1> SUFFICES ASSUME SaveInv, NEW i \in latest
             PROVE  \E a \in auto_dynamic_assemble :
                      /\ Len(a.data) = i.size /\ a.table.gen = i.gen
                      /\ Sources(a.data) \cup Sources(a.graph) \cup {p.from : p \in a.translation} = {i}
  BY DEF RoundTrip
<1> DEFINE pairs == {[slot |-> order[k], from |-> i] : k \in 1 .. i.size}
<1>1. PICK a \in Assembled :
        /\ a.data = WholeOf(i) /\ a.graph = WholeOf(i) /\ a.table.gen = i.gen
        /\ a.translation = pairs
  BY DeliveredIsAssembled
<1>2. i \in Indexes /\ i.size \in Nat \ {0} /\ order \in Enumerations(i.size)
  BY DEF SaveInv, TypeOK, Delivered, Indexes
<1>3. Sources(WholeOf(i)) = {i} /\ Len(WholeOf(i)) = i.size
  BY <1>2, SourcesOfWhole
<1>4. Cardinality(pairs) = i.size /\ {p.slot : p \in pairs} = 0 .. i.size - 1
  BY <1>2, OrderNamesEverySlot
<1>5. {p.from : p \in pairs} = {i}
  <2>1. \A p \in pairs : p.from = i
    OBVIOUS
  <2>2. pairs # {}
    <3>1. 1 \in 1 .. i.size
      BY <1>2
    <3>2. [slot |-> order[1], from |-> i] \in pairs
      BY <3>1
    <3> QED
      BY <3>2
  <2> HIDE DEF pairs
  <2> QED
    BY <2>1, <2>2
<1> HIDE DEF pairs
<1>6. a \in auto_dynamic_assemble
  BY <1>1, <1>3, <1>4 DEF auto_dynamic_assemble, Validated
<1> QED
  BY <1>1, <1>3, <1>5, <1>6

\* save, auto_dynamic_assemble: a save that met no fault gives back the index it saved,
\* whatever earlier saves left on the disk.
THEOREM SavedIsRead == Spec => []RoundTrip
BY DiskInvariant, DeliveredIsRead, PTL
=============================================================================
