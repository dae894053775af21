------------------------------ MODULE Dispatch ------------------------------
(***************************************************************************)
(* Dispatcher (include/svs/lib/dispatcher.h): which of the registered      *)
(* methods is called, and what it is called with.  An argument is a value  *)
(* of some type, a variant, an ExtentArg or a DataType; a method is the    *)
(* sequence of the types it declares.  A match of a method is the sequence *)
(* of its scores, one per argument.  Also how an LVQ specialization scores *)
(* (include/svs/quantization/lvq/lvq.h).                                   *)
(***************************************************************************)
EXTENDS Integers, Sequences

CONSTANT Dynamic  \* stands for the extent that fits every dimension

invalid_match == -1

perfect_match == 0

imperfect_match == 1

implicit_match == 10000

is_valid_match(match) == \A i \in DOMAIN match : match[i] >= 0

\* Mutant: of two equal matches the later one is taken.
BetterOrEqual(x, y) ==
  x = y \/ \E i \in DOMAIN x : x[i] < y[i] /\ \A j \in 1 .. i - 1 : x[j] = y[j]

\* LexicographicResolver: the order of arrays.
Better(x, y) ==
  \E i \in DOMAIN x : x[i] < y[i] /\ \A j \in 1 .. i - 1 : x[j] = y[j]

\* The best of the matches: 0 stands for no match.
BestOf(matches) ==
  LET best[i \in 0 .. Len(matches)] ==
        IF i = 0 THEN 0
        ELSE IF is_valid_match(matches[i]) /\ (best[i - 1] = 0 \/ Better(matches[i], matches[best[i - 1]]))
             THEN i
             ELSE best[i - 1]
  IN  best[Len(matches)]

-----------------------------------------------------------------------------
(* Arguments.                                                              *)

\* A `from` can be given as a `to` of the same type without a copy.
ImplicitlyDispatchConvertible(from, to) ==
  /\ from.type = to.type
  /\ to.cat = "Value" => from.cat = "Value"
  /\ to.cat = "Ref" => from.cat = "Ref"

\* apply_t: an alternative is forwarded as the variant is.
Alternative(variant, type) == [kind |-> "type", cat |-> variant.cat, type |-> type]

\* Whether DispatchConverter is defined: a method that has no converter for one of its
\* arguments cannot be registered.
DispatchConvertible(arg, target) ==
  CASE arg.kind = "type" -> target.kind = "type" /\ ImplicitlyDispatchConvertible(arg, target)
    [] arg.kind = "variant" ->
         /\ target.kind = "type"
         /\ \E t \in arg.types : ImplicitlyDispatchConvertible(Alternative(arg, t), target)
    [] OTHER -> arg.kind = target.kind

\* DispatchConverter<ExtentArg, ExtentTag<N>>::match
MatchExtent(extent, dims, force) ==
  IF extent = dims THEN perfect_match
  ELSE IF extent = Dynamic /\ ~force THEN imperfect_match
  ELSE invalid_match

\* VariantDispatcher::match and convert look at the alternative that the variant holds;
\* convert throws "Invalid dispatch conversion!" where match was invalid.
MatchVariant(arg, target) ==
  IF DispatchConvertible(Alternative(arg, arg.holds), target) THEN implicit_match ELSE invalid_match

ConvertVariant(arg, target) ==
  IF DispatchConvertible(Alternative(arg, arg.holds), target) THEN Alternative(arg, arg.holds) ELSE "throws"

dispatch_match(arg, target) ==
  CASE arg.kind = "type" -> implicit_match
    [] arg.kind = "variant" -> MatchVariant(arg, target)
    [] arg.kind = "extent" -> MatchExtent(target.extent, arg.value, arg.force)
    [] arg.kind = "datatype" -> IF arg.name = target.name THEN perfect_match ELSE invalid_match

\* The conversions to tags assert that they match.
dispatch_convert(arg, target) ==
  CASE arg.kind = "variant" -> ConvertVariant(arg, target)
    [] arg.kind = "type" -> arg
    [] OTHER -> IF dispatch_match(arg, target) >= 0 THEN arg ELSE "asserts"

check_match(method, args) == [i \in DOMAIN args |-> dispatch_match(args[i], method[i])]

best_match(methods, args) == BestOf([m \in DOMAIN methods |-> check_match(methods[m], args)])

has_match(methods, args) == best_match(methods, args) # 0

\* The method that is called and what with; 0 for "Could not find a suitable method!".
invoke(methods, args) ==
  IF ~has_match(methods, args) THEN [method |-> 0, args |-> <<>>]
  ELSE LET m == best_match(methods, args)
       IN  [method |-> m, args |-> [i \in DOMAIN args |-> dispatch_convert(args[i], methods[m][i])]]

-----------------------------------------------------------------------------
(* Specializations of LVQ.                                                 *)

\* overload_match_strategy
MatchStrategy(turbo, strategy) ==
  CASE strategy = "Sequential" -> IF turbo THEN invalid_match ELSE perfect_match
    [] strategy = "Turbo"      -> IF turbo THEN perfect_match ELSE invalid_match
    [] strategy = "Auto"       -> IF turbo THEN 0 ELSE 1

\* overload_score of a method [primary, residual, extent, turbo] for a dataset
\* [primary, residual, dims] and the strategy asked for.
overload_score(method, data, strategy) ==
  LET extent == MatchExtent(method.extent, data.dims, FALSE)
      packing == MatchStrategy(method.turbo, strategy)
  IN  IF \/ method.primary # data.primary \/ method.residual # data.residual
         \/ extent < 0 \/ packing < 0
      THEN invalid_match
      ELSE packing + 1000 * extent
=============================================================================
