------------------------------ MODULE FileFormats ------------------------------
(***************************************************************************)
(* Files of vectors: the vecs format, the binary format of DiskANN and the *)
(* native formats (include/svs/core/io), how they are written and read     *)
(* (lib/file.h, lib/readwrite.h, lib/file_iterator.h) and how a dataset is *)
(* saved to and loaded from one (core/data/io.h).  A file is a function    *)
(* from positions to bytes, and a native file is [magic, uuid, count,      *)
(* dims, body].  Elements are numbers of some width in bytes.  What is     *)
(* read is a set of at most one result, empty when the code throws.        *)
(***************************************************************************)
EXTENDS Partition, Sequences, FiniteSets

CONSTANT Garbage  \* what a vector holds that was never set

Byte(value, i) == IF i > 3 THEN 0 ELSE (value \div 256 ^ i) % 256

\* read_binary of an unsigned number of 4 bytes, of which the highest is 0; what the file
\* does not have stays 0.
ReadLength(file, at) ==
  LET b(i) == IF at + i \in DOMAIN file THEN file[at + i] ELSE 0 IN b(0) + 256 * b(1) + 65536 * b(2)

FileSize(file) == Cardinality(DOMAIN file)

\* check_file for reading: there is a file, and it is not empty.
check_file(file) == DOMAIN file # {}

\* The rows, each behind `prefix` bytes that hold its length, as elements of `width` bytes,
\* which they fit.
Lines(rows, prefix, width) ==
  LET dims == IF rows = <<>> THEN 0 ELSE Len(rows[1])
      line == prefix + width * dims
  IN  [at \in 0 .. Len(rows) * line - 1 |->
         LET row == rows[(at \div line) + 1]
             i == at % line
         IN  IF i < prefix THEN Byte(Len(row), i)
             ELSE Byte(row[((i - prefix) \div width) + 1], (i - prefix) % width)]

-----------------------------------------------------------------------------
\* VecsWriter: each vector follows its length.
vecs_write(rows, width) == Lines(rows, 4, width)

ALLOWED_ELEMENT_SIZES == {1, 2, 4, 8}

MAX_VECTORS_TO_INSPECT == 10

is_last_vec(file, offset) == offset + 4 > FileSize(file)

SameDims(file, dims, offset) == \A i \in 0 .. 3 : file[offset + i] = Byte(dims, i)

\* The first vectors are inspected up to the end of the file or one of other length.
Inspected(file, dims, line) ==
  LET Ends(n) == is_last_vec(file, line * n) \/ ~SameDims(file, dims, line * n)
      all == 0 .. MAX_VECTORS_TO_INSPECT - 1
  IN  \/ \A n \in all : ~Ends(n)
      \/ \E n \in all : line * n = FileSize(file) /\ \A m \in 0 .. n - 1 : ~Ends(m)

\* What the loop finds for an element size: the result, or -1 to go on.
Verdict(file, dims, size) ==
  LET line == 4 + size * dims
  IN  IF is_last_vec(file, line) THEN IF line = FileSize(file) THEN size ELSE 0
      ELSE IF SameDims(file, dims, line) /\ Inspected(file, dims, line) THEN size ELSE -1

deduce_element_size(file, dims) ==
  LET decided == {size \in ALLOWED_ELEMENT_SIZES : Verdict(file, dims, size) # -1}
      first == CHOOSE size \in decided : \A other \in decided : size <= other
  IN  IF decided = {} THEN 0 ELSE Verdict(file, dims, first)

\* A hint of 0 is none.
vecs_get_dims(file, elsize_hint) ==
  LET dims == ReadLength(file, 0)
      size == IF elsize_hint = 0 THEN deduce_element_size(file, dims) ELSE elsize_hint
      line == size * dims + 4
  IN  IF ~check_file(file) \/ size = 0 \/ FileSize(file) % line # 0 THEN {}
      ELSE {[count |-> FileSize(file) \div line, dims |-> dims]}

-----------------------------------------------------------------------------
\* A reader of elements of `width` bytes: the rows it yields.  A stream that has come to
\* its end fails, and the buffer keeps what it holds from earlier rows, or 0.
Yield(file, start, prefix, count, dims, width) ==
  LET line == prefix + width * dims
      Position(row, i) == start + line * (row - 1) + prefix + i
      Held(row, i) == LET whole == {r \in 1 .. row : Position(r, i) \in DOMAIN file}
                      IN  IF whole = {} THEN 0
                          ELSE file[Position(CHOOSE r \in whole : \A s \in whole : s <= r, i)]
      Element(row, j) == LET b(k) == IF k < width THEN Held(row, width * (j - 1) + k) ELSE 0
                         IN  b(0) + 256 * b(1) + 65536 * b(2)
  IN  [row \in 1 .. count |-> [j \in 1 .. dims |-> Element(row, j)]]

\* VecsReader: the rows, up to max_lines.
VecsReader(file, width, max_lines) ==
  {Yield(file, 0, 4, MinOf(max_lines, d.count), d.dims, width) : d \in vecs_get_dims(file, width)}

\* BinaryWriter: the header is the numbers of vectors and of dimensions.
binary_write(rows, dims, width) ==
  LET body == Lines(rows, 0, width)
  IN  [at \in 0 .. 7 + FileSize(body) |->
         IF at < 4 THEN Byte(Len(rows), at) ELSE IF at < 8 THEN Byte(dims, at - 4) ELSE body[at - 8]]

\* Without elements the element size is a division by zero, after which nothing runs.  In
\* a file that ends in its header, the number of bytes wraps around and fits no element.
binary_get_dims(file, elsize_hint) ==
  LET count == ReadLength(file, 0)
      dims == ReadLength(file, 4)
      bytes == FileSize(file) - 8
  IN  IF ~check_file(file) \/ bytes < 0 \/ count * dims = 0 \/ bytes % (count * dims) # 0
         \/ elsize_hint \notin {0, bytes \div (count * dims)}
      THEN {} ELSE {[count |-> count, dims |-> dims]}

BinaryReader(file, width, max_lines) ==
  {Yield(file, 8, 0, MinOf(max_lines, d.count), d.dims, width) : d \in binary_get_dims(file, width)}

-----------------------------------------------------------------------------
\* v1::Writer: a header of zeros, the vectors, and when it is destroyed the header.
v1_write(rows, dims, uuid, width) ==
  [magic |-> "v1", uuid |-> uuid, count |-> Len(rows), dims |-> dims, body |-> Lines(rows, 0, width)]

\* classify
from_magic_number(file) == {file.magic} \cap {"vtest", "v1", "database"}

\* NativeFile::resolve: the formats that hold vectors.
resolve(file) == from_magic_number(file) \cap {"vtest", "v1"}

native_get_dims(file) == {[count |-> file.count, dims |-> file.dims] : schema \in resolve(file)}

\* io::Reader behind the header, whose number of vectors is believed.
NativeReader(file, width, max_lines) ==
  {Yield(file.body, 0, 0, MinOf(max_lines, d.count), d.dims, width) : d \in native_get_dims(file)}

-----------------------------------------------------------------------------
reader(format, file, width, max_lines) ==
  CASE format = "vecs" -> VecsReader(file, width, max_lines)
    [] format = "bin" -> BinaryReader(file, width, max_lines)
    [] format = "svs" -> NativeReader(file, width, max_lines)

\* The dimensions a file says it has: no reader is involved, and so no element size.
get_dims(format, file) ==
  CASE format = "vecs" -> vecs_get_dims(file, 0)
    [] format = "bin" -> binary_get_dims(file, 0)
    [] format = "svs" -> native_get_dims(file)

\* No limit to the lines.
Unlimited == 1000000

\* populate: the rows of the reader go to the indices from the first on.
populate(size, rows) == [i \in 1 .. size |-> IF i <= Len(rows) THEN rows[i] ELSE Garbage]

\* load_dataset for elements of `width` bytes.
load_dataset(format, file, width) ==
  UNION {{populate(d.count, rows) : rows \in reader(format, file, width, Unlimited)} : d \in get_dims(format, file)}

\* auto_load: a file of another name is refused.
auto_load(extension, file, width) ==
  IF extension \in {"svs", "vecs", "bin"} THEN load_dataset(extension, file, width) ELSE {}

\* The writers of all formats, for elements that are converted to `width` bytes.
write(format, rows, dims, uuid, width) ==
  CASE format = "vecs" -> vecs_write(rows, width)
    [] format = "bin" -> binary_write(rows, dims, width)
    [] format = "svs" -> v1_write(rows, dims, uuid, width)
=============================================================================
