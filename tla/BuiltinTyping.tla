--------------------------- MODULE BuiltinTyping ---------------------------
(***************************************************************************)
(* The builtin functions: their signatures (toplevel/builtins.rs) and the  *)
(* calls that the inferencer types by rules of its own                     *)
(* (type_inferencer/mod.rs, try_fold_special_call).                        *)
(*                                                                         *)
(* An argument is a record: its type, the LLVM type its code has, its form *)
(* ("name", "const", or "list" for a list literal), and its value.         *)
(***************************************************************************)
EXTENDS ExprLowering

AnyType == {<<"any">>}
Nums == Ints \cup {Float, Bool}
Over(ts) == ts \cup {ND(t, d) : t \in ts, d \in Dims}
Enumerate_ == <<"enumerate">>
Option_(t) == <<"option", t>>

dtype(t) == IF IsND(t) THEN t[2] ELSE t
WithDtype(t, target) == IF IsND(t) THEN ND(target, t[3]) ELSE target

RECURSIVE arraylike_flatten_element_type(_), arraylike_get_ndims(_)
arraylike_flatten_element_type(t) ==
  CASE IsND(t) -> t[2] [] IsList(t) -> arraylike_flatten_element_type(t[2]) [] OTHER -> t
arraylike_get_ndims(t) ==
  CASE IsND(t) -> t[3] [] IsList(t) -> arraylike_get_ndims(t[2]) + 1 [] OTHER -> 0

(***************************************************************************)
(* Signatures.  `tys` are the types that a parameter admits, `same` says   *)
(* that all parameters are one type variable, and `ret` is a type, or      *)
(* "arg", the type of the first argument, or "open", left to the special   *)
(* rules.                                                                  *)
(***************************************************************************)
P(name, tys) == [name |-> name, tys |-> tys, default |-> FALSE]
Opt(name, tys) == [P(name, tys) EXCEPT !.default = TRUE]
Sig(params, same, ret) == [params |-> params, same |-> same, ret |-> ret]
Arg == <<"arg">>   Open == <<"open">>   DtypeOfArg == <<"dtype">>
One(name, tys, ret) == Sig(<<P(name, tys)>>, FALSE, ret)
float_2d == {ND(Float, 2)}

Classes == {"int32", "int64", "uint32", "uint64", "float", "bool"}
RoundedNames == [round |-> Int32, round64 |-> Int64, floor |-> Int32, floor64 |-> Int64,
                 ceil |-> Int32, ceil64 |-> Int64]
Creators == {"ndarray", "np_empty", "np_zeros", "np_ones"}
Unary1 == {"np_sin", "np_cos", "np_tan", "np_arcsin", "np_arccos", "np_arctan", "np_sinh", "np_cosh",
           "np_tanh", "np_arcsinh", "np_arccosh", "np_arctanh", "np_exp", "np_exp2", "np_expm1",
           "np_log", "np_log2", "np_log10", "np_sqrt", "np_cbrt", "np_fabs", "np_rint", "sp_spec_erf",
           "sp_spec_erfc", "sp_spec_gamma", "sp_spec_gammaln", "sp_spec_j0", "sp_spec_j1"}
Binary2 == {"np_arctan2", "np_copysign", "np_fmax", "np_fmin", "np_ldexp", "np_hypot", "np_nextafter"}
Linalg1 == {"np_linalg_cholesky", "np_linalg_inv", "np_linalg_pinv"}
Linalg2 == {"np_linalg_qr", "sp_linalg_lu", "sp_linalg_schur", "sp_linalg_hessenberg"}
Linalg == Linalg1 \cup Linalg2 \cup {"np_dot", "np_linalg_svd", "np_linalg_matrix_power", "np_linalg_det"}

build_range_class_related == Sig(<<P("start", {Int32}), Opt("stop", {Int32}), Opt("step", {Int32})>>, FALSE, Range_)
build_enumerate_class_related == Sig(<<P("iterable", AnyType), Opt("start", {Int32})>>, FALSE, Enumerate_)
build_option_class_related == One("n", AnyType, <<"option">>)
build_cast_function == One("n", Over(Nums), Open)
build_round_function == One("n", Over({Float}), Open)
build_ceil_floor_function == One("n", Over({Float}), Open)
build_ndarray_from_shape_factory_function == One("shape", AnyType, Open)
build_ndarray_other_factory_function(fn) ==
  CASE fn = "np_array" -> Sig(<<P("object", AnyType), Opt("copy", {Bool}), Opt("ndmin", {Int32})>>, FALSE, <<"ndarray">>)
    [] fn = "np_full" -> Sig(<<P("shape", {List(Int32)}), P("fill_value", AnyType)>>, FALSE, Open)
    [] fn = "np_eye" -> Sig(<<P("N", {Int32}), Opt("M", {Int32}), Opt("k", {Int32})>>, FALSE, ND(Float, 2))
    [] fn = "np_identity" -> One("n", {Int32}, ND(Float, 2))
build_ndarray_property_getter_function(fn) ==
  One("a", {ND(t, d) : t \in Nums, d \in Dims}, IF fn = "np_size" THEN Int32 ELSE Open)
build_ndarray_view_function(fn) ==
  LET x == P("x", {ND(t, d) : t \in Nums, d \in Dims})
  IN  IF fn = "np_transpose" THEN Sig(<<x>>, FALSE, Arg) ELSE Sig(<<x, P("shape", AnyType)>>, FALSE, Open)
build_str_function == One("s", {Str}, Str)
build_np_ceil_floor_function == One("n", Over({Float}), Arg)
build_np_round_function == One("n", Over({Float}), Arg)
build_len_function == One("obj", AnyType, Int32)
build_min_max_function == Sig(<<P("m", Nums), P("n", Nums)>>, TRUE, Arg)
build_np_max_min_function(fn) ==
  One("a", Over(Nums), IF fn \in {"np_argmin", "np_argmax"} THEN Int64 ELSE DtypeOfArg)
build_np_minimum_maximum_function == Sig(<<P("x1", Over(Nums)), P("x2", Over(Nums))>>, FALSE, Open)
build_abs_function == One("n", Over(Nums), Arg)
build_np_float_to_bool_function == One("x", {Float}, Bool)
build_np_any_all_function == One("a", Over(Nums), Bool)
build_np_sp_float_or_ndarray_1ary_function == One("x", Over({Float}), Arg)
build_np_2ary_function(fn) ==
  Sig(<<P("x1", Over({Float})), P("x2", Over({IF fn = "np_ldexp" THEN Int32 ELSE Float}))>>, FALSE, Open)
build_linalg_methods(fn) ==
  CASE fn = "np_dot" -> Sig(<<P("x1", Over(Nums)), P("x2", Over(Nums))>>, TRUE, DtypeOfArg)
    [] fn \in Linalg1 -> One("x1", float_2d, ND(Float, 2))
    [] fn \in Linalg2 -> One("x1", float_2d, Tuple_(<<ND(Float, 2), ND(Float, 2)>>))
    [] fn = "np_linalg_svd" -> One("x1", float_2d, Tuple_(<<ND(Float, 2), ND(Float, 1), ND(Float, 2)>>))
    [] fn = "np_linalg_matrix_power" ->
         Sig(<<P("x1", float_2d), P("power", {Int32})>>, FALSE, ND(Float, 2))
    [] fn = "np_linalg_det" -> One("x1", float_2d, Float)

build_builtin_of_prim(fn) ==
  CASE fn \in Classes -> build_cast_function
    [] fn = "range" -> build_range_class_related
    [] fn = "enumerate" -> build_enumerate_class_related
    [] fn = "Some" -> build_option_class_related
    [] fn \in {"round", "round64"} -> build_round_function
    [] fn \in {"ceil", "ceil64", "floor", "floor64"} -> build_ceil_floor_function
    [] fn \in Creators -> build_ndarray_from_shape_factory_function
    [] fn \in {"np_array", "np_full", "np_eye", "np_identity"} -> build_ndarray_other_factory_function(fn)
    [] fn \in {"np_size", "np_shape", "np_strides"} -> build_ndarray_property_getter_function(fn)
    [] fn \in {"np_transpose", "np_reshape", "np_broadcast_to"} -> build_ndarray_view_function(fn)
    [] fn = "str" -> build_str_function
    [] fn \in {"np_ceil", "np_floor"} -> build_np_ceil_floor_function
    [] fn = "np_round" -> build_np_round_function
    [] fn = "len" -> build_len_function
    [] fn \in {"min", "max"} -> build_min_max_function
    [] fn \in {"np_min", "np_max", "np_argmin", "np_argmax"} -> build_np_max_min_function(fn)
    [] fn \in {"np_minimum", "np_maximum"} -> build_np_minimum_maximum_function
    [] fn = "abs" -> build_abs_function
    [] fn \in {"np_isnan", "np_isinf"} -> build_np_float_to_bool_function
    [] fn \in {"np_any", "np_all"} -> build_np_any_all_function
    [] fn \in Unary1 -> build_np_sp_float_or_ndarray_1ary_function
    [] fn \in Binary2 -> build_np_2ary_function(fn)
    [] fn \in Linalg -> build_linalg_methods(fn)

\* The arguments in the order of the parameters, <<>> where the default is used;
\* a call that fits no parameter has no such sequence.
Bound(sig, c) ==
  [i \in DOMAIN sig.params |->
     IF i <= Len(c.args) THEN <<c.args[i]>>
     ELSE LET at == {k \in DOMAIN c.kws : c.kws[k].name = sig.params[i].name}
          IN  IF at = {} THEN <<>> ELSE <<c.kws[CHOOSE k \in at : TRUE].arg>>]
Fits(sig, c) ==
  LET n == Len(sig.params)
      bound == Bound(sig, c)
  IN  /\ Len(c.args) <= n
      /\ \A k \in DOMAIN c.kws : \E i \in Len(c.args) + 1..n : sig.params[i].name = c.kws[k].name
      /\ \A i \in 1..n : bound[i] = <<>> => sig.params[i].default
      /\ \A i \in 1..n : bound[i] # <<>> /\ sig.params[i].tys # AnyType => bound[i][1].ty \in sig.params[i].tys
      /\ sig.same => \A i, j \in 1..n : bound[i][1].ty = bound[j][1].ty

(***************************************************************************)
(* Folding a call: [ty, kws] with the keywords that are kept, or why not.  *)
(***************************************************************************)
Typed(t) == [ty |-> t, kws |-> <<>>]
Rejected == Typed(Error)
Panics(why) == Typed(Panic(why))

Int32Only(t) == IsTuple(t) /\ \A i \in DOMAIN t[2] : t[2][i] = Int32
\* The number of dimensions that a shape argument asks for, or -1.
fold_numpy_function_call_shape_argument(a) ==
  CASE IsList(a.ty) -> IF a.ty[2] = Int32 /\ a.form = "list" THEN Len(a.v) ELSE -1
    [] Int32Only(a.ty) -> Len(a.ty[2])
    [] a.ty = Int32 -> 1
    [] OTHER -> -1

fold_len(c) ==
  LET t == c.args[1].ty IN IF t = Range_ \/ IsList(t) \/ IsND(t) \/ IsTuple(t) THEN Typed(Int32) ELSE Rejected
fold_enumerate(c) ==
  LET t == c.args[1].ty IN IF IsList(t) \/ IsND(t) \/ t = Range_ THEN Typed(Enumerate_) ELSE Rejected

ConversionTarget(fn) ==
  CASE fn \in {"int32", "round", "floor", "ceil"} -> Int32
    [] fn \in {"round64", "floor64", "ceil64", "int64"} -> Int64
    [] fn = "float" -> Float
    [] fn \in {"bool", "np_isnan", "np_isinf"} -> Bool
    [] fn = "uint32" -> UInt32
    [] fn = "uint64" -> UInt64
fold_conversion(c) == Typed(WithDtype(c.args[1].ty, ConversionTarget(c.fn)))
fold_wide_conversion(c) ==
  LET a == c.args[1]
      target == ConversionTarget(c.fn)
  IN  IF a.form = "const" THEN IF InRange(a.v, target) THEN Typed(target) ELSE Rejected
      ELSE fold_conversion(c)

fold_shape_getter(c) ==
  Typed(Tuple_([i \in 1..arraylike_get_ndims(c.args[1].ty) |-> Int32]))
fold_dot(c) == IF Len(c.args) = 1 THEN Panics("no second operand") ELSE Typed(dtype(c.args[1].ty))
\* Mutant: the extremum of an array has the type of the array.
fold_extremum_OfArray(c) == Typed(c.args[1].ty)
fold_extremum(c) == Typed(dtype(c.args[1].ty))

fold_broadcast2(c) ==
  LET a == c.args[1].ty
      b == c.args[2].ty
      expected == IF c.fn = "np_ldexp" THEN Int32 ELSE dtype(a)
      target == IF c.fn \in {"np_minimum", "np_maximum"} THEN dtype(a) ELSE Float
      b_ == IF c.fn = "np_ldexp" THEN WithDtype(b, target) ELSE b
  IN  CASE dtype(b) # expected -> Rejected
        [] IsND(a) \/ IsND(b) -> Typed(typeof_ndarray_broadcast(a, b_))
        [] OTHER -> Typed(target)

OfShape(t, shape) ==
  LET n == fold_numpy_function_call_shape_argument(shape) IN IF n = -1 THEN Rejected ELSE Typed(ND(t, n))
fold_creation(c) == OfShape(Float, c.args[1])
fold_view(c) ==
  LET n == fold_numpy_function_call_shape_argument(c.args[2])
  IN  IF n # -1 /\ ~IsND(c.args[1].ty) THEN Panics("view of no array") ELSE OfShape(dtype(c.args[1].ty), c.args[2])
fold_full(c) == OfShape(c.args[2].ty, c.args[1])
fold_array(c) ==
  LET a == c.args[1].ty
      ndmin == {k \in DOMAIN c.kws : c.kws[k].name = "ndmin"}
      arg == c.kws[CHOOSE k \in ndmin : TRUE].arg
      own == arraylike_get_ndims(a)
      n == IF ndmin # {} /\ arg.form = "const" THEN MaxDim(arg.v, own) ELSE own
  IN  [ty |-> ND(arraylike_flatten_element_type(a), n), kws |-> c.kws]

fold_by_signature(c) ==
  LET sig == build_builtin_of_prim(c.fn)
  IN  CASE c.fn \in Classes -> Panics("no constructor")
        [] ~Fits(sig, c) -> Rejected
        [] OTHER ->
             [ty |-> CASE sig.ret = Arg -> c.args[1].ty
                       [] sig.ret = DtypeOfArg -> dtype(c.args[1].ty)
                       [] sig.ret = <<"option">> -> Option_(c.args[1].ty)
                       [] OTHER -> sig.ret,
              kws |-> c.kws]

try_fold_special_call(c) ==
  LET n == Len(c.args)
  IN  CASE c.fn = "len" /\ n = 1 -> fold_len(c)
        [] c.fn = "enumerate" /\ n >= 1 -> fold_enumerate(c)
        [] c.fn \in {"int32", "float", "bool", "np_isnan", "np_isinf"} \cup DOMAIN RoundedNames /\ n = 1 ->
             fold_conversion(c)
        [] c.fn \in {"np_shape", "np_strides"} /\ n = 1 -> fold_shape_getter(c)
        [] c.fn = "np_dot" /\ n >= 1 -> fold_dot(c)
        [] c.fn \in {"np_min", "np_max"} /\ n = 1 -> fold_extremum(c)
        [] c.fn \in Binary2 \cup {"np_minimum", "np_maximum"} /\ n = 2 -> fold_broadcast2(c)
        [] c.fn \in {"int64", "uint32", "uint64"} /\ n = 1 -> fold_wide_conversion(c)
        [] c.fn \in Creators /\ n = 1 -> fold_creation(c)
        [] c.fn \in {"np_reshape", "np_broadcast_to"} /\ n = 2 -> fold_view(c)
        [] c.fn = "np_full" /\ n = 2 -> fold_full(c)
        [] c.fn = "np_array" /\ n = 1 -> fold_array(c)
        [] OTHER -> fold_by_signature(c)
=============================================================================
