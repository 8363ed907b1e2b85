-------------------------- MODULE BuiltinLowering --------------------------
(***************************************************************************)
(* The code of the builtin functions: codegen/builtin_fns.rs,              *)
(* codegen/numpy.rs and the callbacks of toplevel/builtins.rs.             *)
(*                                                                         *)
(* An operation takes values [ty, sh, v] and gives [sh, v]: the LLVM type  *)
(* of the result, and its value.  An integer's value is the integer, a     *)
(* float's the number of halves in it, an array's the sequence of its      *)
(* elements.  Poison is what LLVM gives for a conversion out of range.     *)
(***************************************************************************)
EXTENDS BuiltinTyping

Poison == 100000
Unspecified == <<>>
IsIntShape(s) == s \in {I1, I8, <<"i32">>, <<"i64">>}
BitWidth(s) == CASE s = I1 -> 1 [] s = I8 -> 8 [] s = <<"i32">> -> Bits["int32"] [] OTHER -> Bits["int64"]
Val(s, v) == [sh |-> s, v |-> v]
unsupported_type == Val(Panic("unsupported type"), Unspecified)
ShapeOnly(s) == Val(s, Unspecified)

\* The number n kept in a register of the type t.
Wrapped(n, t) ==
  LET m == 2 ^ Bits[t[1]]
      u == n % m
  IN  IF n = Poison THEN Poison ELSE IF t \in SignedInts /\ u >= m \div 2 THEN u - m ELSE u
Trunc(h) == IF h >= 0 THEN h \div 2 ELSE -((-h) \div 2)
fptosi(h, t) == LET n == Trunc(h) IN IF InRange(n, t) THEN n ELSE Poison
fptoui(h, t) == LET n == Trunc(h) IN IF 0 <= n /\ n < 2 ^ Bits[t[1]] THEN n ELSE Poison
\* A bit pattern read as a number: an i1 that is set is -1 when it is signed.
Signed(a) == IF a.sh = I1 THEN -a.v ELSE a.v
Unsigned(a) == IF a.v < 0 THEN a.v + 2 ^ BitWidth(a.sh) ELSE a.v

Elements(a) == [i \in DOMAIN a.v |-> [ty |-> a.ty[2], sh |-> get_llvm_type(a.ty[2]), v |-> a.v[i]]]
\* An array of `op` of each element, when the scalar code gives the array's type.
Mapped(a, op(_), shape) ==
  LET rs == [i \in DOMAIN a.v |-> op(Elements(a)[i])]
  IN  IF \E i \in DOMAIN rs : Bad(rs[i].sh) THEN unsupported_type
      ELSE IF \E i \in DOMAIN rs : rs[i].sh # shape THEN ShapeOnly(Invalid("element of another type"))
      ELSE Val(Ptr, [i \in DOMAIN rs |-> rs[i].v])
PerElement(a, op(_), shape) == IF IsND(a.ty) THEN Mapped(a, op, shape) ELSE op(a)

calculate_len_for_slice_range(r) ==
  LET d == r[2] - r[1]
  IN  IF r[3] > 0 THEN IF d > 0 THEN (d + r[3] - 1) \div r[3] ELSE 0
      ELSE IF d < 0 THEN (-d - r[3] - 1) \div (-r[3]) ELSE 0

call_len(a) ==
  CASE a.ty = Range_ -> Val(<<"i32">>, calculate_len_for_slice_range(a.v))
    [] IsTuple(a.ty) \/ IsND(a.ty) \/ IsList(a.ty) -> Val(<<"i32">>, Len(a.v))
    [] OTHER -> unsupported_type

(***************************************************************************)
(* Conversions.                                                            *)
(***************************************************************************)
Int32Of(a) ==
  CASE a.sh \in {I1, I8} -> Val(<<"i32">>, Unsigned(a))
    [] IsIntShape(a.sh) -> Val(<<"i32">>, Wrapped(a.v, Int32))
    [] a.sh = F64 -> Val(<<"i32">>, Wrapped(fptosi(a.v, Int64), Int32))
    [] OTHER -> unsupported_type
call_int32(a) == PerElement(a, Int32Of, <<"i32">>)

Int64Of(a) ==
  CASE IsIntShape(a.sh) -> Val(<<"i64">>, Wrapped(IF a.ty \in SignedInts THEN a.v ELSE Unsigned(a), Int64))
    [] a.sh = F64 -> Val(<<"i64">>, fptosi(a.v, Int64))
    [] OTHER -> unsupported_type
call_int64(a) == PerElement(a, Int64Of, <<"i64">>)

\* Mutant: the conversion of a float does not look at its sign.
UInt32Of_NoSelect(a) ==
  CASE IsIntShape(a.sh) -> Val(<<"i32">>, Wrapped(a.v, UInt32))
    [] a.sh = F64 -> Val(<<"i32">>, Wrapped(fptoui(a.v, Int64), UInt32))
    [] OTHER -> unsupported_type
UInt32Of(a) ==
  CASE IsIntShape(a.sh) -> Val(<<"i32">>, Wrapped(a.v, UInt32))
    [] a.sh = F64 ->
         Val(<<"i32">>, Wrapped(IF a.v >= 0 THEN fptoui(a.v, UInt64) ELSE fptosi(a.v, Int32), UInt32))
    [] OTHER -> unsupported_type
call_uint32(a) == PerElement(a, UInt32Of, <<"i32">>)

UInt64Of(a) ==
  CASE IsIntShape(a.sh) -> Val(<<"i64">>, Wrapped(IF a.ty = Int32 THEN a.v ELSE Unsigned(a), UInt64))
    [] a.sh = F64 -> Val(<<"i64">>, Wrapped(IF a.v >= 0 THEN fptoui(a.v, UInt64) ELSE fptosi(a.v, Int64), UInt64))
    [] OTHER -> unsupported_type
call_uint64(a) == PerElement(a, UInt64Of, <<"i64">>)

FloatOf(a) ==
  CASE IsIntShape(a.sh) -> Val(F64, 2 * (IF a.ty \in SignedInts \cup {Bool} THEN Signed(a) ELSE Unsigned(a)))
    [] a.sh = F64 -> Val(F64, a.v)
    [] OTHER -> unsupported_type
call_float(a) == PerElement(a, FloatOf, F64)

BoolOf(a) ==
  CASE a.sh \in {I1, I8} -> Val(a.sh, a.v)
    [] IsIntShape(a.sh) \/ a.sh = F64 -> Val(I1, IF a.v # 0 THEN 1 ELSE 0)
    [] OTHER -> unsupported_type
BoolElement(a) == LET b == BoolOf(a) IN IF Bad(b.sh) THEN b ELSE Val(I8, b.v)
call_bool(a) == IF IsND(a.ty) THEN Mapped(a, BoolElement, I8) ELSE BoolOf(a)

\* Rounding: half away from zero, down, up, and half to even.
Away(h) == IF h >= 0 THEN (h + 1) \div 2 ELSE -((1 - h) \div 2)
Down(h) == h \div 2
Up(h) == -((-h) \div 2)
Even(h) == IF h % 4 = 3 THEN (h + 1) \div 2 ELSE h \div 2
ToInt(n, t) == IF InRange(n, t) THEN n ELSE Poison

RoundTo(a, t) == IF a.sh = F64 THEN Val(get_llvm_type(t), ToInt(Away(a.v), t)) ELSE unsupported_type
call_round(a, t) == LET op(e) == RoundTo(e, t) IN PerElement(a, op, get_llvm_type(t))
RintOf(a) == IF a.sh = F64 THEN Val(F64, 2 * Even(a.v)) ELSE unsupported_type
call_numpy_round(a) == PerElement(a, RintOf, F64)
FloorTo(a, t) ==
  IF a.sh # F64 THEN unsupported_type
  ELSE IF t = Float THEN Val(F64, 2 * Down(a.v)) ELSE Val(get_llvm_type(t), ToInt(Down(a.v), t))
call_floor(a, t) == LET op(e) == FloorTo(e, t) IN PerElement(a, op, get_llvm_type(t))
CeilTo(a, t) ==
  IF a.sh # F64 THEN unsupported_type
  ELSE IF t = Float THEN Val(F64, 2 * Up(a.v)) ELSE Val(get_llvm_type(t), ToInt(Up(a.v), t))
call_ceil(a, t) == LET op(e) == CeilTo(e, t) IN PerElement(a, op, get_llvm_type(t))

(***************************************************************************)
(* Extrema.                                                                *)
(***************************************************************************)
Smaller(a, b) == IF a.ty \in SignedInts \cup {Float} THEN a.v <= b.v ELSE Unsigned(a) <= Unsigned(b)

call_min(a, b) ==
  CASE a.ty # b.ty -> unsupported_type
    [] IsIntShape(a.sh) \/ a.sh = F64 ->
         IF a.sh # b.sh THEN ShapeOnly(Invalid("i1 and i8")) ELSE Val(a.sh, IF Smaller(a, b) THEN a.v ELSE b.v)
    [] OTHER -> unsupported_type
call_max(a, b) ==
  CASE a.ty # b.ty -> unsupported_type
    [] IsIntShape(a.sh) \/ a.sh = F64 ->
         IF a.sh # b.sh THEN ShapeOnly(Invalid("i1 and i8")) ELSE Val(a.sh, IF Smaller(a, b) THEN b.v ELSE a.v)
    [] OTHER -> unsupported_type

\* Arrays of the same length, or an array and a scalar: element by element.
Pairwise(a, b, op(_, _), shape) ==
  LET n == IF IsND(a.ty) THEN Len(a.v) ELSE Len(b.v)
      at(x, i) == IF IsND(x.ty) THEN Elements(x)[i] ELSE x
      rs == [i \in 1..n |-> op(at(a, i), at(b, i))]
  IN  IF \E i \in 1..n : Bad(rs[i].sh) THEN ShapeOnly(rs[CHOOSE i \in 1..n : Bad(rs[i].sh)].sh)
      ELSE IF \E i \in 1..n : rs[i].sh # shape THEN ShapeOnly(Invalid("element of another type"))
      ELSE Val(Ptr, [i \in 1..n |-> rs[i].v])
ElementShape(a) == IF IsND(a.ty) THEN get_llvm_type(a.ty[2]) ELSE a.sh

call_numpy_minimum(a, b) ==
  CASE IsND(a.ty) \/ IsND(b.ty) -> Pairwise(a, b, call_min, ElementShape(a))
    [] IsIntShape(a.sh) \/ a.sh = F64 -> call_min(a, b)
    [] OTHER -> unsupported_type
call_numpy_maximum(a, b) ==
  CASE IsND(a.ty) \/ IsND(b.ty) -> Pairwise(a, b, call_max, ElementShape(a))
    [] IsIntShape(a.sh) \/ a.sh = F64 -> call_max(a, b)
    [] OTHER -> unsupported_type

\* The extremum and where it was first found: the index moves when the extremum changes.
Extremum(es, op(_, _)) ==
  LET fold[i \in DOMAIN es] ==
        IF i = 1 THEN [v |-> es[1].v, at |-> 0]
        ELSE LET old == fold[i - 1]
                 new == op([es[i] EXCEPT !.v = old.v], es[i]).v
             IN  [v |-> new, at |-> IF new # old.v THEN i - 1 ELSE old.at]
  IN  fold[Len(es)]
call_numpy_max_min(fn, a) ==
  LET op(x, y) == IF fn \in {"np_min", "np_argmin"} THEN call_min(x, y) ELSE call_max(x, y)
      arg == fn \in {"np_argmin", "np_argmax"}
      e == Extremum(Elements(a), op)
  IN  CASE IsIntShape(a.sh) \/ a.sh = F64 -> IF arg THEN Val(<<"i64">>, 0) ELSE Val(a.sh, a.v)
        [] ~IsND(a.ty) -> unsupported_type
        [] Bad(op(Elements(a)[1], Elements(a)[1]).sh) -> unsupported_type
        [] OTHER -> IF arg THEN Val(<<"i64">>, e.at) ELSE Val(get_llvm_type(a.ty[2]), e.v)

(***************************************************************************)
(* Elementwise functions.                                                  *)
(***************************************************************************)
helper_call_numpy_unary_elementwise(a, op(_), shape) ==
  IF IsND(a.ty) THEN Mapped(a, op, shape) ELSE op(a)
AbsOf(a) ==
  IF IsIntShape(a.sh) \/ a.sh = F64
  THEN Val(a.sh, IF a.ty \in SignedInts \cup {Float} /\ a.v < 0
                 THEN IF a.sh = F64 THEN -a.v ELSE Wrapped(-a.v, a.ty) ELSE a.v)
  ELSE unsupported_type
call_abs(a) == helper_call_numpy_unary_elementwise(a, AbsOf, ElementShape(a))
NoNan(a) == IF a.sh = F64 THEN Val(I8, 0) ELSE unsupported_type
FloatToFloat(a) == IF a.sh = F64 THEN Val(F64, Poison) ELSE unsupported_type
create_helper_call_numpy_unary_elementwise_float_to_bool(a) == helper_call_numpy_unary_elementwise(a, NoNan, I8)
create_helper_call_numpy_unary_elementwise_float_to_float(a) == helper_call_numpy_unary_elementwise(a, FloatToFloat, F64)

BothFloat(a, b) == IF a.sh = F64 /\ b.sh = F64 THEN Val(F64, Poison) ELSE unsupported_type
FloatAndInt(a, b) == IF a.sh = F64 /\ IsIntShape(b.sh) THEN Val(F64, Poison) ELSE unsupported_type
broadcasting_starmap(a, b, op(_, _)) == IF IsND(a.ty) \/ IsND(b.ty) THEN Pairwise(a, b, op, F64) ELSE op(a, b)
call_numpy_2ary(fn, a, b) ==
  IF fn = "np_ldexp" THEN broadcasting_starmap(a, b, FloatAndInt) ELSE broadcasting_starmap(a, b, BothFloat)

\* The accumulator is an i1, and stops at the value that decides.
np_any_all(fn, a) ==
  LET es == IF IsND(a.ty) THEN Elements(a) ELSE <<a>>
      truth == BoolOf(es[1]).sh
      some == \E i \in DOMAIN es : es[i].v # 0
      every == \A i \in DOMAIN es : es[i].v # 0
  IN  CASE Bad(truth) -> unsupported_type
        [] truth # I1 -> ShapeOnly(Invalid("i1 and i8"))
        [] OTHER -> Val(I1, IF (IF fn = "np_any" THEN some ELSE every) THEN 1 ELSE 0)

(***************************************************************************)
(* Arrays and linear algebra.                                              *)
(***************************************************************************)
parse_numpy_int_sequence(a) == IF IsList(a.ty) \/ Int32Only(a.ty) THEN a.v ELSE <<a.v>>
ndarray_dot(a, b) ==
  CASE a.sh = Ptr /\ b.sh = Ptr ->
         CASE ~IsND(a.ty) \/ ~IsND(b.ty) -> unsupported_type
           [] a.ty[3] # 1 \/ b.ty[3] # 1 -> ShapeOnly(Panic("dot of matrices"))
           [] get_llvm_type(a.ty[2]) # get_llvm_type(b.ty[2]) -> unsupported_type
           [] OTHER -> ShapeOnly(get_llvm_type(a.ty[2]))
    [] IsIntShape(a.sh) /\ IsIntShape(b.sh) ->
         IF a.sh # b.sh THEN ShapeOnly(Invalid("i1 and i8")) ELSE ShapeOnly(a.sh)
    [] a.sh = F64 /\ b.sh = F64 -> ShapeOnly(F64)
    [] OTHER -> unsupported_type

\* A matrix of floats, or none.
Matrix(a, s) == IF IsND(a.ty) /\ a.ty[2] = Float THEN ShapeOnly(s) ELSE unsupported_type
call_np_linalg_cholesky(a) == Matrix(a, Ptr)
call_np_linalg_inv(a) == Matrix(a, Ptr)
call_np_linalg_pinv(a) == Matrix(a, Ptr)
call_np_linalg_qr(a) == Matrix(a, Struct(<<Ptr, Ptr>>))
call_sp_linalg_lu(a) == Matrix(a, Struct(<<Ptr, Ptr>>))
call_sp_linalg_schur(a) == IF IsND(a.ty) /\ a.ty[3] = 2 THEN Matrix(a, Struct(<<Ptr, Ptr>>)) ELSE unsupported_type
call_sp_linalg_hessenberg(a) == IF IsND(a.ty) /\ a.ty[3] = 2 THEN Matrix(a, Struct(<<Ptr, Ptr>>)) ELSE unsupported_type
call_np_linalg_svd(a) == Matrix(a, Struct(<<Ptr, Ptr, Ptr>>))
call_np_linalg_matrix_power(a, n) == IF Bad(call_float(n).sh) THEN unsupported_type ELSE Matrix(a, Ptr)
call_np_linalg_det(a) == Matrix(a, F64)

Shaped(shape) == Val(Ptr, parse_numpy_int_sequence(shape))
gen_ndarray_empty(shape) == Shaped(shape)
gen_ndarray_zeros(shape) == Shaped(shape)
gen_ndarray_ones(shape) == Shaped(shape)
gen_ndarray_full(shape, fill) == Shaped(shape)
construct_from(a) == IF IsList(a.ty) \/ IsND(a.ty) THEN ShapeOnly(Ptr) ELSE ShapeOnly(Panic("array of a scalar"))
Keyword(kws, name) == {k \in DOMAIN kws : kws[k].name = name}
\* The positional arguments after the first are not looked at.
gen_ndarray_array(args, kws) == construct_from(args[1])
gen_ndarray_eye(args, kws) ==
  LET m == Keyword(kws, "M")
      columns == IF m = {} THEN args[1].v ELSE kws[CHOOSE k \in m : TRUE].arg.v
  IN  Val(Ptr, <<args[1].v, columns>>)
gen_ndarray_identity(n) == Val(Ptr, <<n.v, n.v>>)

\* range(start, stop, step) with a stop that may be missing, by position or name.
FunRangeInit(args, kws) ==
  LET named(x, i) == IF Keyword(kws, x) # {} THEN <<kws[CHOOSE k \in Keyword(kws, x) : TRUE].arg.v>>
                     ELSE IF i <= Len(args) - Len(kws) THEN <<args[i].v>> ELSE <<>>
      start == named("start", 1)   stop == named("stop", 2)   step == named("step", 3)
      by == IF step = <<>> THEN 1 ELSE step[1]
  IN  IF by = 0 THEN Val(Ptr, <<"ValueError">>)
      ELSE IF stop = <<>> THEN Val(Ptr, <<0, start[1], by>>) ELSE Val(Ptr, <<start[1], stop[1], by>>)
FunEnumerateInit(args, kws) ==
  LET n == Len(args) - Len(kws)
      starts == {i \in DOMAIN args : i = 2 \/ (i > n /\ kws[i - n].name = "start")}
  IN  CASE \E i \in starts : ~IsIntShape(args[i].sh) -> ShapeOnly(Panic("start is no integer"))
        [] \E i \in starts : args[i].sh # <<"i32">> -> ShapeOnly(Invalid("start of another width"))
        [] OTHER -> ShapeOnly(Ptr)

TupleShape(n) == Struct([i \in 1..n |-> <<"i32">>])
NDim(a) == IF IsND(a.ty) THEN a.ty[3] ELSE 0
OfArray(a, s) == IF IsND(a.ty) THEN ShapeOnly(s) ELSE unsupported_type

\* The callback of a builtin, on the positional arguments and then the keywords',
\* which most callbacks take by their position.
gen_builtin(fn, args, kws) ==
  LET a == args[1]
      b == args[2]
  IN CASE fn = "len" -> call_len(a)
       [] fn = "int32" -> call_int32(a) [] fn = "int64" -> call_int64(a)
       [] fn = "uint32" -> call_uint32(a) [] fn = "uint64" -> call_uint64(a)
       [] fn = "float" -> call_float(a) [] fn = "bool" -> call_bool(a)
       [] fn \in {"round", "round64"} -> call_round(a, ConversionTarget(fn))
       [] fn \in {"floor", "floor64"} -> call_floor(a, ConversionTarget(fn))
       [] fn \in {"ceil", "ceil64"} -> call_ceil(a, ConversionTarget(fn))
       [] fn = "np_round" -> call_numpy_round(a)
       [] fn = "np_floor" -> call_floor(a, Float) [] fn = "np_ceil" -> call_ceil(a, Float)
       [] fn = "min" -> call_min(a, b) [] fn = "max" -> call_max(a, b)
       [] fn = "np_minimum" -> call_numpy_minimum(a, b) [] fn = "np_maximum" -> call_numpy_maximum(a, b)
       [] fn \in {"np_min", "np_max", "np_argmin", "np_argmax"} -> call_numpy_max_min(fn, a)
       [] fn = "abs" -> call_abs(a)
       [] fn \in {"np_isnan", "np_isinf"} -> create_helper_call_numpy_unary_elementwise_float_to_bool(a)
       [] fn \in Unary1 -> create_helper_call_numpy_unary_elementwise_float_to_float(a)
       [] fn \in Binary2 -> call_numpy_2ary(fn, a, b)
       [] fn \in {"np_any", "np_all"} -> np_any_all(fn, a)
       [] fn = "np_dot" -> ndarray_dot(a, b)
       [] fn = "np_linalg_cholesky" -> call_np_linalg_cholesky(a)
       [] fn = "np_linalg_inv" -> call_np_linalg_inv(a) [] fn = "np_linalg_pinv" -> call_np_linalg_pinv(a)
       [] fn = "np_linalg_qr" -> call_np_linalg_qr(a) [] fn = "sp_linalg_lu" -> call_sp_linalg_lu(a)
       [] fn = "sp_linalg_schur" -> call_sp_linalg_schur(a)
       [] fn = "sp_linalg_hessenberg" -> call_sp_linalg_hessenberg(a)
       [] fn = "np_linalg_svd" -> call_np_linalg_svd(a) [] fn = "np_linalg_det" -> call_np_linalg_det(a)
       [] fn = "np_linalg_matrix_power" -> call_np_linalg_matrix_power(a, b)
       [] fn \in {"ndarray", "np_empty"} -> gen_ndarray_empty(a)
       [] fn = "np_zeros" -> gen_ndarray_zeros(a) [] fn = "np_ones" -> gen_ndarray_ones(a)
       [] fn = "np_full" -> gen_ndarray_full(a, b) [] fn = "np_array" -> gen_ndarray_array(args, kws)
       [] fn = "np_eye" -> gen_ndarray_eye(args, kws) [] fn = "np_identity" -> gen_ndarray_identity(a)
       [] fn \in {"np_shape", "np_strides"} -> OfArray(a, TupleShape(NDim(a)))
       [] fn = "np_size" -> OfArray(a, <<"i32">>)
       [] fn \in {"np_transpose", "np_reshape", "np_broadcast_to"} -> OfArray(a, Ptr)
       [] fn = "range" -> FunRangeInit(args, kws) [] fn = "enumerate" -> FunEnumerateInit(args, kws)
       [] fn = "Some" -> ShapeOnly(Ptr)
       [] fn = "str" -> Val(a.sh, a.v)
=============================================================================
