------------------------------ MODULE Kernels ------------------------------
(***************************************************************************)
(* The distance kernels (include/svs/core/distance/: simd_utils.h,         *)
(* euclidean.h, inner_product.h, cosine.h): which one a distance, a pair   *)
(* of element types and an instruction set get, and the sums it computes   *)
(* in its unrolled part, its full-width part and its tail.  Sums of floats *)
(* are exact here; those of the integer kernels wrap.  A vector is a       *)
(* function on 0 .. n - 1; a load beyond it has no value.                  *)
(***************************************************************************)
EXTENDS Partition, FiniteSets

CONSTANT AccumulatorBits  \* of an integer accumulator: 32

ASSUME AccumulatorAssumption == AccumulatorBits \in 2 .. 32

\* The sums of a distance: one, or the product and the norm of the right argument.
Terms(distance) ==
  CASE distance = "L2" -> {"difference"}
    [] distance = "IP" -> {"product"}
    [] distance = "Cosine" -> {"product", "norm"}

Term(t, x, y) ==
  CASE t = "difference" -> (x - y) * (x - y)
    [] t = "product" -> x * y
    [] t = "norm" -> y * y

\* The sum of f over 0 .. n - 1.
SumOf(f, n) == LET s[i \in 0 .. n] == IF i = 0 THEN 0 ELSE s[i - 1] + f[i - 1] IN s[n]

\* generic_l2, generic_ip, generic_cosine_similarity
generic(t, a, b, n) == SumOf([i \in 0 .. n - 1 |-> Term(t, a[i], b[i])], n)

-----------------------------------------------------------------------------
\* MaybeStatic: the end of the last full step, what is left, and the last step.
upper(n, step) == step * (n \div step)

rest(n, step) == n - upper(n, step)

islast(n, step, i) == i = step * (div_round_up(n, step) - 1)

\* Mutant: no lanes when the length is a multiple of the width.
MaskOfRest(n, width) == n % width

\* The lanes that the mask of a length keeps: all of them for a multiple of the width.
create_mask(n, width) == IF n % width = 0 THEN width ELSE n % width

\* A load of `width` elements from `first` on, of which a mask keeps the first `kept`;
\* the others are not read and are zero.
load(v, first, kept, width) == [l \in 0 .. width - 1 |-> IF l < kept THEN v[first + l] ELSE 0]

\* L2FloatOp, IPFloatOp, CosineFloatOp, and L2VNNIOp, IPVNNIOp, where a lane of the
\* accumulator takes two elements.
FloatOp == [width |-> 16, pairs |-> FALSE]

VNNIOp == [width |-> 32, pairs |-> TRUE]

Wrapped(op, x) ==
  IF ~op.pairs THEN x
  ELSE ((x + 2 ^ (AccumulatorBits - 1)) % 2 ^ AccumulatorBits) - 2 ^ (AccumulatorBits - 1)

init(op) == [l \in 0 .. (IF op.pairs THEN op.width \div 2 ELSE op.width) - 1 |-> 0]

\* The masked form keeps the lanes below `kept`.  For pairs the mask of 32 elements is cut
\* to the 16 lanes: more lanes than hold elements are kept, and those add zeros.
accumulate(op, t, kept, s, a, b) ==
  [l \in DOMAIN s |->
     IF l >= kept THEN s[l]
     ELSE IF op.pairs
     THEN Wrapped(op, s[l] + Term(t, a[2 * l], b[2 * l]) + Term(t, a[2 * l + 1], b[2 * l + 1]))
     ELSE s[l] + Term(t, a[l], b[l])]

combine(op, x, y) == [l \in DOMAIN x |-> Wrapped(op, x[l] + y[l])]

reduce(op, s) == Wrapped(op, SumOf(s, Cardinality(DOMAIN s)))

\* Mutant: one of the four accumulators is left out.
CombineThree(op, s) == combine(op, combine(op, s[0], s[1]), s[2])

\* The four accumulators of the unrolled part.
combine_all(op, s) == combine(op, combine(op, s[0], s[1]), combine(op, s[2], s[3]))

generic_simd_op(op, t, a, b, n) ==
  LET Step(s, i, kept) ==
        accumulate(op, t, kept, s, load(a, i, kept, op.width), load(b, i, kept, op.width))
      main   == 4 * op.width
      rounds == n \div main
      s[k \in 0 .. 3, j \in 0 .. rounds] ==
        IF j = 0 THEN init(op) ELSE Step(s[k, j - 1], main * (j - 1) + k * op.width, op.width)
      unrolled == combine_all(op, [k \in 0 .. 3 |-> s[k, rounds]])
      steps == (n - main * rounds) \div op.width
      full[j \in 0 .. steps] ==
        IF j = 0 THEN unrolled ELSE Step(full[j - 1], main * rounds + (j - 1) * op.width, op.width)
      end == upper(n, op.width)
  IN  reduce(op, IF end < n THEN Step(full[steps], end, create_mask(n, op.width)) ELSE full[steps])

\* The AVX2 kernels: registers of 8, and the generic loop for the rest.
avx2(t, a, b, n) ==
  LET op == [width |-> 8, pairs |-> FALSE]
      sum[j \in 0 .. n \div 8] ==
        IF j = 0 THEN init(op)
        ELSE accumulate(op, t, 8, sum[j - 1], load(a, 8 * (j - 1), 8, 8), load(b, 8 * (j - 1), 8, 8))
      Rest(v) == [i \in 0 .. rest(n, 8) - 1 |-> v[upper(n, 8) + i]]
  IN  reduce(op, sum[n \div 8]) + generic(t, Rest(a), Rest(b), rest(n, 8))

\* Cosine similarity of small integers: every load has a mask, which is that of the tail
\* in the last step.
cosine_vnni(t, a, b, n) ==
  LET Kept(i) == IF islast(n, 32, i) THEN create_mask(n, 32) ELSE 32
      sum[j \in 0 .. div_round_up(n, 32)] ==
        IF j = 0 THEN init(VNNIOp)
        ELSE LET i == 32 * (j - 1)
             IN  accumulate(VNNIOp, t, 32, sum[j - 1], load(a, i, Kept(i), 32), load(b, i, Kept(i), 32))
  IN  reduce(VNNIOp, sum[div_round_up(n, 32)])

-----------------------------------------------------------------------------
SmallPairs == {<<"int8", "int8">>, <<"uint8", "uint8">>}

FloatPairs(distance) ==
  ({"float"} \X {"float", "Float16", "int8", "uint8"})
    \cup (IF distance = "Cosine" THEN {} ELSE {"Float16"} \X {"float", "Float16"})

AVX2Pairs(distance) ==
  IF distance = "Cosine" THEN {}
  ELSE SmallPairs \cup ({"float"} \X {"float", "Float16", "int8"}) \cup {<<"Float16", "Float16">>}

\* The specializations of L2Impl, IPImpl and CosineSimilarityImpl that are built for an
\* instruction set; the generic one has the rest, also small integers without VNNI.
Kernel(distance, ea, eb, level) ==
  CASE level = "VNNI" /\ <<ea, eb>> \in SmallPairs -> IF distance = "Cosine" THEN "cosine_vnni" ELSE "vnni"
    [] level \in {"VNNI", "AVX512"} /\ <<ea, eb>> \in FloatPairs(distance) -> "float"
    [] level = "AVX2" /\ <<ea, eb>> \in AVX2Pairs(distance) -> "avx2"
    [] OTHER -> "generic"

\* distance::compute, as its sums.
compute(distance, ea, eb, level, a, b, n) ==
  LET kernel == Kernel(distance, ea, eb, level)
  IN  [t \in Terms(distance) |->
         CASE kernel = "vnni" -> generic_simd_op(VNNIOp, t, a, b, n)
           [] kernel = "cosine_vnni" -> cosine_vnni(t, a, b, n)
           [] kernel = "float" -> generic_simd_op(FloatOp, t, a, b, n)
           [] kernel = "avx2" -> avx2(t, a, b, n)
           [] kernel = "generic" -> generic(t, a, b, n)]

-----------------------------------------------------------------------------
(***************************************************************************)
(* The conversions between float and Float16 that are done by bit          *)
(* manipulation (include/svs/lib/float16.h), and what the processor does   *)
(* where it can.  A number is its sign, biased exponent and mantissa, of 8 *)
(* and 23 bits for a float and of 5 and 10 bits for a Float16.             *)
(***************************************************************************)

ShiftedRight(x, n) == x \div 2 ^ n  \* x >> n

\* float16_to_float_untyped_slow: what has no exponent is zero, so subnormal numbers are
\* lost, and infinity is a number.
to_float(h) ==
  IF h.e = 0 THEN [sign |-> h.sign, e |-> 0, m |-> 0]
  ELSE [sign |-> h.sign, e |-> h.e + 112, m |-> h.m * 2 ^ 13]

\* The bits plus half of what is cut off; the carry of the mantissa goes to the exponent,
\* that of the exponent to the sign.
Rounded(f) ==
  LET m == f.m + 2 ^ 12
      e == f.e + (IF m >= 2 ^ 23 THEN 1 ELSE 0)
  IN  [sign |-> IF e = 256 THEN 1 - f.sign ELSE f.sign, e |-> e % 256, m |-> m % 2 ^ 23]

\* float_to_float16_untyped_slow: normal, subnormal, too large, too small.  A number of
\* the subnormal range that rounds up to the least normal one is that number.
to_half(f) ==
  LET b == Rounded(f)
      subnormal == ShiftedRight(ShiftedRight(2 ^ 23 - 2 ^ 12 + b.m, 125 - b.e) + 1, 1)
  IN  IF b.e > 143 THEN [sign |-> b.sign, e |-> 31, m |-> 1023]
      ELSE IF b.e > 112 THEN [sign |-> b.sign, e |-> b.e - 112, m |-> ShiftedRight(b.m, 13)]
      ELSE IF b.e > 101 THEN [sign |-> b.sign, e |-> ShiftedRight(subnormal, 10), m |-> subnormal % 1024]
      ELSE [sign |-> b.sign, e |-> 0, m |-> 0]

\* _mm_cvtps_ph for a number in the normal range: to the nearest, ties to even.
hardware_half(f) ==
  LET down == ShiftedRight(f.m, 13)
      left == f.m % 2 ^ 13
      m    == IF left > 2 ^ 12 \/ (left = 2 ^ 12 /\ down % 2 = 1) THEN down + 1 ELSE down
  IN  IF m = 1024 THEN [sign |-> f.sign, e |-> f.e - 111, m |-> 0]
      ELSE [sign |-> f.sign, e |-> f.e - 112, m |-> m]

\* The magnitude of a half, in units of 2 ^ -23 of the binade of float exponent e, from
\* one that is not far from it.
InBinade(h, e) ==
  IF h.e = 0 THEN h.m * 2 ^ (126 - e)
  ELSE IF h.e + 112 >= e THEN (1024 + h.m) * 2 ^ (13 + h.e + 112 - e)
  ELSE ShiftedRight((1024 + h.m) * 2 ^ 13, e - h.e - 112)
=============================================================================
