------------------------------ MODULE Packing ------------------------------
(***************************************************************************)
(* Codes of 1 to 8 bits packed into bytes: CompressedVectorBase, its       *)
(* strategies and the SIMD unpacking (include/svs/quantization/lvq/        *)
(* compressed.h), the encodings (encoding.h), and the conversion to the    *)
(* canonical form that is saved (datasets.h).  A vector is the function    *)
(* from the positions of its bits to 0 or 1, with byte 0 and the lowest    *)
(* bit of each byte first, as a little-endian load sees them.              *)
(* Also where the vectors are: dense arrays (include/svs/lib/array.h) and  *)
(* datasets that are one array or blocks of them                           *)
(* (include/svs/core/data/simple.h), by places in memory from 0 on.        *)
(***************************************************************************)
EXTENDS Partition, Sequences

\* A strategy: Sequential, or Turbo with its lanes and elements per lane.
Sequential == [lanes |-> 0, elements_per_lane |-> 0]

Turbo(lanes, elements) == [lanes |-> lanes, elements_per_lane |-> elements]

block_size(s) == s.lanes * s.elements_per_lane

compute_bytes(s, bits, length) ==
  IF s = Sequential THEN div_round_up(bits * length, 8)
  ELSE ((bits * block_size(s)) \div 8) * div_round_up(length, block_size(s))

\* Mutant: lanes and elements per lane are swapped.
LanesSwapped(s, i) ==
  IF s = Sequential THEN i
  ELSE LET entry == i % block_size(s)
       IN  i - entry + s.lanes * (entry % s.elements_per_lane) + (entry \div s.elements_per_lane)

logical_to_linear(s, i) ==
  IF s = Sequential THEN i
  ELSE LET entry == i % block_size(s)
       IN  i - entry + s.elements_per_lane * (entry % s.lanes) + (entry \div s.lanes)

\* detail::IndexRange: the first and last byte of a code, and its first and last bit
\* counted from the first byte.
IndexRange(bits, j) ==
  LET byte_start == (bits * j) \div 8
  IN  [byte_start |-> byte_start,
       byte_stop  |-> (bits * (j + 1) - 1) \div 8,
       bit_start  |-> bits * j - 8 * byte_start,
       bit_stop   |-> bits * (j + 1) - 8 * byte_start - 1]

\* The bits that get and set load: one byte, or two when the code is in two.
Loaded(s, bits, i) ==
  LET r == IndexRange(bits, logical_to_linear(s, i))
  IN  8 * r.byte_start .. 8 * r.byte_start + (IF r.byte_start = r.byte_stop THEN 7 ELSE 15)

\* The bits of the load that the mask keeps.
Code(s, bits, i) ==
  LET r == IndexRange(bits, logical_to_linear(s, i))
  IN  8 * r.byte_start + r.bit_start .. 8 * r.byte_start + r.bit_stop

\* The number in `bits` bits from `first` on; what is not loaded is 0.
Number(vector, loaded, first, bits) ==
  LET low[k \in 0 .. bits] ==
        IF k = 0 THEN 0
        ELSE low[k - 1] + (IF first + k - 1 \in loaded THEN vector[first + k - 1] * 2 ^ (k - 1) ELSE 0)
  IN  low[bits]

-----------------------------------------------------------------------------
\* Encoding<Sign, Bits>
smallest(signed, bits) == IF signed THEN -(2 ^ (bits - 1)) ELSE 0

largest(signed, bits) == IF signed THEN 2 ^ (bits - 1) - 1 ELSE 2 ^ bits - 1

\* Below 8 bits a signed value is stored with a bias, at 8 bits as it is.
encode(signed, bits, v) ==
  IF ~signed THEN v ELSE IF bits = 8 THEN v % 256 ELSE v - smallest(signed, bits)

decode(signed, bits, raw) ==
  IF ~signed THEN raw
  ELSE IF bits = 8 THEN (IF raw > 127 THEN raw - 256 ELSE raw)
  ELSE raw + smallest(signed, bits)

\* get and set
get(s, signed, bits, vector, i) ==
  LET code == Code(s, bits, i)
      first == CHOOSE p \in code : \A q \in code : p <= q
  IN  decode(signed, bits, Number(vector, Loaded(s, bits, i), first, bits))

set(s, signed, bits, vector, v, i) ==
  LET code == Code(s, bits, i)
      first == CHOOSE p \in code : \A q \in code : p <= q
  IN  [p \in DOMAIN vector |->
         IF p \in code THEN (encode(signed, bits, v) \div 2 ^ (p - first)) % 2 ELSE vector[p]]

-----------------------------------------------------------------------------
\* Lanes of a tail that the predicate keeps in its low or high half.
KeptOfHalf(kept, half) == IF half = 0 THEN MinOf(kept, 8) ELSE MaxOf(kept - 8, 0)

\* unpack of a Sequential vector: groups of 16 in two halves of 8 lanes.  The codes of
\* a half are loaded as one word and shifted by lane; in the tail only the bytes that the
\* kept lanes need are loaded.
UnpackSequential(signed, bits, length, vector, e) ==
  LET half  == (e % 16) \div 8
      base  == 8 * bits * (2 * (e \div 16) + half)
      word  == IF bits > 4 THEN 8 ELSE 4
      bytes == IF e \div 16 < length \div 16 THEN word
               ELSE div_round_up(bits * KeptOfHalf(length % 16, half), 8)
  IN  decode(signed, bits,
             Number(vector, base .. base + 8 * bytes - 1, base + bits * (e % 8), bits))

\* for_each_slice of a Turbo vector: a block is one register of 32-bit words, of which
\* the slices come out by shifting; the tail takes the slices that are left.
UnpackTurbo(s, bits, vector, e) ==
  LET block == e \div block_size(s)
      slice == (e % block_size(s)) \div s.lanes
      word  == s.lanes * block + (e % s.lanes)
  IN  Number(vector, 32 * word .. 32 * word + 31, 32 * word + bits * slice, bits)

\* Canonicalizer: the codes move one by one to a vector of the other strategy.
Repacked(from, to, bits, length, vector, scratch) ==
  LET moved[i \in 0 .. length] ==
        IF i = 0 THEN [p \in 0 .. 8 * compute_bytes(to, bits, length) - 1 |-> scratch]
        ELSE set(to, FALSE, bits, moved[i - 1], get(from, FALSE, bits, vector, i - 1), i - 1)
  IN  moved[length]

-----------------------------------------------------------------------------
(* DenseArray, with the dimensions `dims` of which the last changes first. *)

\* array_impl::strides
strides(dims) ==
  LET n == Len(dims)
      stride[i \in 1 .. n] == IF i = n THEN 1 ELSE stride[i + 1] * dims[i + 1]
  IN  stride

\* array_impl::size
array_size(dims) ==
  LET product[i \in 0 .. Len(dims)] == IF i = 0 THEN 1 ELSE product[i - 1] * dims[i]
  IN  product[Len(dims)]

\* array_impl::offset
array_offset(dims, inds) ==
  LET sum[i \in 0 .. Len(dims)] == IF i = 0 THEN 0 ELSE sum[i - 1] + strides(dims)[i] * inds[i]
  IN  sum[Len(dims)]

\* The places of the row that has the indices `inds` but for the last.
slice(dims, inds) ==
  LET o == array_offset(dims, Append(inds, 0))
  IN  [i \in 1 .. dims[Len(dims)] |-> o + i - 1]

-----------------------------------------------------------------------------
(* SimpleData.  A dataset is [size, dimensions, blocksize, memory], where  *)
(* blocksize is 0 for a dense one and the memory of the blocks follow on   *)
(* each other, as far as anybody can tell.                                 *)

\* The largest power of two up to n; there is none for 0, which is an exception.
prevpow2(n) == CHOOSE p \in {2 ^ k : k \in 0 .. n} : p <= n /\ n < 2 * p

\* SimpleData(n_elements, n_dimensions, allocator) with blocks of up to `bytes`, or 0 bytes
\* for dense memory.  What fresh memory holds is anybody's guess; here each place holds
\* another value.
NewDataset(n, d, bytes, element) ==
  LET b == IF bytes = 0 THEN 0 ELSE prevpow2(bytes \div (element * d))
      room == IF b = 0 THEN n ELSE b * div_round_up(n, b)
  IN  [size |-> n, dimensions |-> d, blocksize |-> b,
       memory |-> [p \in 0 .. room * d - 1 |-> p]]

resolve_index(data, i) == <<i \div data.blocksize, i % data.blocksize>>

\* get_datum: the places of the vector at i.
get_datum(data, i) ==
  IF data.blocksize = 0 THEN slice(<<data.size, data.dimensions>>, <<i>>)
  ELSE LET at    == resolve_index(data, i)
           block == <<data.blocksize, data.dimensions>>
           row   == slice(block, <<at[2]>>)
       IN  [j \in DOMAIN row |-> at[1] * array_size(block) + row[j]]

\* set_datum of a vector that has another length is an exception; blocks look only in a
\* build that checks bounds.
set_datum(data, i, v) ==
  IF Len(v) # data.dimensions THEN data
  ELSE LET row == get_datum(data, i)
       IN  [data EXCEPT !.memory = [p \in DOMAIN @ |->
              IF \E j \in DOMAIN row : row[j] = p THEN v[CHOOSE j \in DOMAIN row : row[j] = p] ELSE @[p]]]

Datum(data, i) == [j \in 1 .. data.dimensions |-> data.memory[get_datum(data, i)[j]]]

\* operator==, of a dense dataset with a blocked one too.
SameData(x, y) ==
  /\ x.size = y.size /\ x.dimensions = y.dimensions
  /\ \A i \in 0 .. x.size - 1 : Datum(x, i) = Datum(y, i)
=============================================================================
