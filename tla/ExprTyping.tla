----------------------------- MODULE ExprTyping -----------------------------
(***************************************************************************)
(* The types of expressions: typecheck/magic_methods.rs and the expression *)
(* half of typecheck/type_inferencer/mod.rs.                               *)
(*                                                                         *)
(* A type is a tuple headed by its name.  Names have their types, so the   *)
(* only unknown left is the result of comparing tuples of two types, which *)
(* is Fresh: it agrees with every type.  `Infer` is the type of an         *)
(* expression, Error when the inferencer reports one, or Panic when it     *)
(* panics.                                                                 *)
(***************************************************************************)
EXTENDS Integers, Sequences, FiniteSets, SequencesExt

CONSTANTS Dims,        \* the numbers of dimensions of the arrays considered
          Globals,     \* name -> type
          Functions,   \* name -> [params, ret, may]
          Bits         \* integer type -> its width

Error == <<"error">>
Panic(why) == <<"panic", why>>
Failed(t) == t[1] \in {"error", "panic"}
FirstFailed(ts) == ts[CHOOSE i \in DOMAIN ts : Failed(ts[i]) /\ \A j \in 1..(i - 1) : ~Failed(ts[j])]
Fresh == <<"?">>
Int32 == <<"int32">>   UInt32 == <<"uint32">>
Int64 == <<"int64">>   UInt64 == <<"uint64">>
Float == <<"float">>   Bool == <<"bool">>   Str == <<"str">>   Range_ == <<"range">>
List(t) == <<"list", t>>
ND(t, d) == <<"ndarray", t, d>>
Tuple_(ts) == <<"tuple", ts>>

Ints == {Int32, Int64, UInt32, UInt64}
SignedInts == {Int32, Int64}
IsList(t) == t[1] = "list"
IsND(t) == t[1] = "ndarray"
IsTuple(t) == t[1] = "tuple"
Agree(a, b) == a = b \/ Fresh \in {a, b}

Basic == {"+", "-", "*"}
Bitwise == {"&", "|", "^"}
Shifts == {"<<", ">>"}
Equality == {"==", "!="}
Order == {"<", "<=", ">", ">="}
Supported == Equality \cup Order

(***************************************************************************)
(* The methods of the primitive types: which right operands `op` takes on  *)
(* t, {} when t has no such method.                                        *)
(***************************************************************************)
OrArrayOf(t) == {t} \cup {ND(t, d) : d \in Dims}

IntMethod(t, op) ==
  CASE op \in Basic \cup {"**", "/", "//", "%"} \cup Supported -> OrArrayOf(t)
    [] op \in Bitwise -> {t}
    [] op \in Shifts -> Ints
    [] OTHER -> {}
FloatMethod(op) ==
  CASE op = "**" -> OrArrayOf(Float) \cup OrArrayOf(Int32)
    [] op \in Basic \cup {"/", "//", "%"} \cup Supported -> OrArrayOf(Float)
    [] OTHER -> {}
NDMethod(t, op) ==
  CASE op = "@" -> {ND(t[2], d) : d \in Dims}
    [] op = "/" -> {t, t[2]}
    [] op \in Basic \cup {"**", "//", "%"} \cup Supported -> OrArrayOf(t[2])
    [] OTHER -> {}
ListMethod(t, op) ==
  CASE op \in {"+"} \cup Equality -> {t}
    [] op = "*" -> {Int32, Int64}
    [] OTHER -> {}

Accepts(t, op) ==
  CASE t \in Ints -> IntMethod(t, op)
    [] t = Float -> FloatMethod(op)
    [] t = Bool -> IF op \in Equality THEN OrArrayOf(Bool) ELSE {}
    [] t = Str -> IF op \in Equality THEN {Str} ELSE {}
    [] IsList(t) -> ListMethod(t, op)
    [] IsND(t) -> NDMethod(t, op)
    [] OTHER -> {}

UnaryMethods(t) ==
  CASE t \in SignedInts -> {"pos", "neg", "~", "not"}
    [] t \in Ints -> {"~", "not"}
    [] t = Float -> {"pos", "neg", "not"}
    [] t = Bool -> {"pos", "neg", "~", "not"}
    [] IsND(t) -> {"pos", "neg", "~"}
    [] OTHER -> {}

(***************************************************************************)
(* What the operators return.  None leaves the result to the method.       *)
(***************************************************************************)
None == <<"none">>
MaxDim(a, b) == IF a >= b THEN a ELSE b

\* The element types of two arrays are asserted to be one.
typeof_ndarray_broadcast(l, r) ==
  IF IsND(l) /\ IsND(r)
  THEN IF l[2] = r[2] THEN ND(l[2], MaxDim(l[3], r[3])) ELSE Panic("arrays of different types")
  ELSE LET a == IF IsND(l) THEN l ELSE r
           s == IF IsND(l) THEN r ELSE l
       IN  IF a[2] = s THEN a ELSE Error

typeof_matmul(l, r) ==
  IF ~IsND(l) \/ ~IsND(r) THEN Error
  ELSE IF l[2] # Float \/ r[2] # Float \/ 0 \in {l[3], r[3]} THEN Error
  ELSE LET d == CASE l[3] = 1 -> r[3] - 1 [] r[3] = 1 -> l[3] - 1
                  [] OTHER -> MaxDim(l[3], r[3])
       IN  IF d = 0 THEN Float ELSE ND(Float, d)

typeof_binop(op, l, r) ==
  CASE op = "@" -> typeof_matmul(l, r)
    [] op \in {"+", "*", "-", "%", "//"} /\ (IsList(l) \/ IsList(r)) ->
         IF op \notin {"+", "*"} THEN Error ELSE IF IsList(l) THEN l ELSE r
    [] op \notin Shifts \cup Bitwise /\ (IsND(l) \/ IsND(r)) -> typeof_ndarray_broadcast(l, r)
    [] op = "/" -> IF l = r THEN Float ELSE None
    [] op = "**" -> IF l \in Ints \cup {Float} THEN l ELSE None
    [] op \in Shifts -> l
    [] OTHER -> IF l = r THEN l ELSE None

\* Mutant: the negation and the complement of a bool stay bools.
typeof_unaryop_KeepsBool(op, t) ==
  CASE op = "not" -> IF IsND(t) THEN Error ELSE IF IsTuple(t) THEN None ELSE Bool
    [] OTHER -> IF IsTuple(t) THEN None ELSE t

typeof_unaryop(op, t) ==
  CASE op = "not" -> IF IsND(t) THEN Error ELSE IF IsTuple(t) THEN None ELSE Bool
    [] IsTuple(t) -> None
    [] t = Bool -> Int32
    [] op # "~" /\ IsND(t) /\ t[2] = Bool -> Error
    [] OTHER -> t

\* Every tuple display makes a type of its own; a name has one.
unioned(l, r, le, re) == l = r /\ l # Fresh /\ (IsTuple(l) => le.k = "name" /\ le = re)

typeof_cmpop(l, r, one) ==
  IF IsND(l) \/ IsND(r)
  THEN LET b == typeof_ndarray_broadcast(l, r) IN IF Failed(b) THEN b ELSE ND(Bool, b[3])
  ELSE IF one THEN Bool ELSE None

(***************************************************************************)
(* The rules of the inferencer.                                            *)
(***************************************************************************)
InRange(v, t) ==
  LET half == 2 ^ (Bits[t[1]] - 1)
  IN  IF t \in SignedInts THEN -half <= v /\ v < half ELSE 0 <= v /\ v < 2 * half

infer_constant(e) == IF e.ty = Int32 /\ ~InRange(e.v, Int32) THEN Error ELSE e.ty

infer_bin_ops(op, l, r) ==
  LET ret == typeof_binop(op, l, r)
  IN  CASE Failed(ret) -> ret
        [] r \notin Accepts(l, op) -> Error
        [] OTHER -> IF ret = None THEN Fresh ELSE ret

infer_unary_ops(op, t) ==
  LET ret == typeof_unaryop(op, t)
  IN  IF ret = Error \/ op \notin UnaryMethods(t) THEN Error ELSE ret

\* Tuples have __eq__ and __ne__ with any other operand; the method of another type returns a bool.
CompareOne(op, l, r, one) ==
  LET ret == typeof_cmpop(l, r, one)
  IN  CASE op \notin Supported -> Error
        [] Failed(ret) -> ret
        [] IsTuple(l) -> IF op \notin Equality THEN Error ELSE IF ret = None THEN Fresh ELSE ret
        [] r \notin Accepts(l, op) -> Error
        [] OTHER -> IF ret = None THEN Fresh ELSE ret

infer_compare(ops, ts, es) ==
  LET one(i) == unioned(ts[i], ts[i + 1], es[i], es[i + 1])
      rets == [i \in DOMAIN ops |-> CompareOne(ops[i], ts[i], ts[i + 1], one(i))]
  IN  CASE Len(ops) > 1 /\ \E i \in DOMAIN ts : IsND(ts[i]) -> Error
        [] \E i \in DOMAIN rets : Failed(rets[i]) -> FirstFailed(rets)
        [] OTHER -> rets[Len(rets)]

infer_bool_ops(ts) == IF \A i \in DOMAIN ts : Agree(ts[i], Bool) THEN Bool ELSE Error

infer_if_expr(test, body, orelse) ==
  IF ~Agree(test, Bool) \/ ~Agree(body, orelse) THEN Error
  ELSE IF body = Fresh THEN orelse ELSE body

infer_list(ts) == IF \A i \in DOMAIN ts : ts[i] = ts[1] THEN List(ts[1]) ELSE Error

infer_list_subscript(t, key) == IF key = Int32 THEN t[2] ELSE Error
infer_ndarray_subscript(t, key) ==
  IF key # Int32 \/ t[3] = 0 THEN Error ELSE IF t[3] = 1 THEN t[2] ELSE ND(t[2], t[3] - 1)
infer_tuple_subscript(t, key) ==
  LET i == IF key.v < 0 THEN key.v + Len(t[2]) ELSE key.v
  IN  IF key.k # "const" \/ key.ty # Int32 THEN Error
      ELSE IF i \notin 0..(Len(t[2]) - 1) THEN Error ELSE t[2][i + 1]
infer_getitem(t, key, keyType) ==
  CASE IsList(t) -> infer_list_subscript(t, keyType)
    [] IsND(t) -> infer_ndarray_subscript(t, keyType)
    [] IsTuple(t) /\ key.k = "const" -> infer_tuple_subscript(t, key)
    [] OTHER -> Error

\* A call fits when every parameter gets one value, or has a default.
ParamOf(f, i) == Functions[f].params[i]
Names(f) == [i \in DOMAIN Functions[f].params |-> ParamOf(f, i).name]
Given(e, i) == i <= Len(e.args) \/ \E j \in DOMAIN e.kw : e.kw[j].name = Names(e.fn)[i]
fold_call(e, argTypes, kwTypes) ==
  LET n == Len(Names(e.fn))
      keyword(j) == {i \in 1..n : Names(e.fn)[i] = e.kw[j].name /\ i > Len(e.args)}
  IN  IF /\ Len(e.args) <= n
         /\ \A i \in 1..n : Given(e, i) \/ ParamOf(e.fn, i).default # <<>>
         /\ \A i \in DOMAIN argTypes : Agree(argTypes[i], ParamOf(e.fn, i).ty)
         /\ \A j \in DOMAIN e.kw : \E i \in keyword(j) : Agree(kwTypes[j], ParamOf(e.fn, i).ty)
      THEN Functions[e.fn].ret ELSE Error

(***************************************************************************)
(* The CatSeqInt32V1 profile: int32 and bool scalars, and no operation     *)
(* that the downstream target lacks.                                       *)
(***************************************************************************)
IsCatSeq(profile) == profile = "catseq"
admits_int32_binary_operator(op) == op \in {"+", "-", "*", "//", "%", "<<", ">>", "&"}
CatSeqConst(e) == e.ty \in {Int32, Bool}
admits_value_type(id) == id \in DOMAIN Globals => Globals[id] \in {Int32, Bool}
CatSeqUnary(op, t) == <<op, t>> \in {<<"pos", Int32>>, <<"neg", Int32>>, <<"not", Bool>>}

WrapTo(v, t) ==
  LET n == 2 ^ Bits[t[1]]
      r == v % n
  IN  IF t \in SignedInts /\ r >= n \div 2 THEN r - n ELSE r
Negative(v) == v < 0
TruncDiv(a, b) == LET q == (IF a < 0 THEN -a ELSE a) \div (IF b < 0 THEN -b ELSE b)
                  IN  IF Negative(a) # Negative(b) THEN -q ELSE q

\* Mutant: the quotient is truncated like that of the machine.
floor_divmod_Truncates(a, b) == LET q == TruncDiv(a, b) IN <<WrapTo(q, Int32), a - q * b>>
floor_divmod_i32(a, b) ==
  LET t == TruncDiv(a, b)
      rem == a - t * b
      q == IF rem # 0 /\ Negative(rem) # Negative(b) THEN t - 1 ELSE t
  IN  <<WrapTo(q, Int32), a - q * b>>

Unsigned32(v) == v % (2 ^ Bits["int32"])
ShiftLeft(a, n, bits) == IF n >= bits THEN 0 ELSE a * (2 ^ n)
ShiftRight(a, n, bits) == IF n >= bits THEN (IF a < 0 THEN -1 ELSE 0) ELSE a \div (2 ^ n)

RECURSIVE AndBits(_, _, _)
AndBits(a, b, n) ==
  IF n = 0 THEN 0 ELSE (a % 2) * (b % 2) + 2 * AndBits(a \div 2, b \div 2, n - 1)

NoValue == <<>>
ConstantBinary(op, a, b) ==
  CASE op = "+" -> <<WrapTo(a + b, Int32)>>
    [] op = "-" -> <<WrapTo(a - b, Int32)>>
    [] op = "*" -> <<WrapTo(a * b, Int32)>>
    [] op = "//" /\ b # 0 -> <<floor_divmod_i32(a, b)[1]>>
    [] op = "%" /\ b # 0 -> <<floor_divmod_i32(a, b)[2]>>
    [] op = "<<" -> <<WrapTo(ShiftLeft(a, Unsigned32(b), Bits["int32"]), Int32)>>
    [] op = ">>" -> <<ShiftRight(a, Unsigned32(b), Bits["int32"])>>
    [] op = "&" -> <<WrapTo(AndBits(a, b, Bits["int32"]), Int32)>>
    [] OTHER -> NoValue

RECURSIVE constant_int32_value(_)
constant_int32_value(e) ==
  CASE e.k = "const" /\ e.ty = Int32 /\ InRange(e.v, Int32) -> <<e.v>>
    [] e.k = "unary" /\ e.op \in {"pos", "neg"} ->
         LET v == constant_int32_value(e.e)
         IN  IF v = NoValue \/ e.op = "pos" THEN v ELSE <<WrapTo(-v[1], Int32)>>
    [] e.k = "bin" -> LET a == constant_int32_value(e.l)
                          b == constant_int32_value(e.r)
                      IN  IF NoValue \in {a, b} THEN NoValue ELSE ConstantBinary(e.op, a[1], b[1])
    [] OTHER -> NoValue

validate_source_profile_operators(e, ts) ==
  CASE e.k = "const" -> CatSeqConst(e)
    [] e.k = "name" -> admits_value_type(e.id)
    [] e.k = "bin" -> /\ ts = <<Int32, Int32>>
                      /\ admits_int32_binary_operator(e.op)
                      /\ e.op \in {"//", "%"} => constant_int32_value(e.r) # <<0>>
    [] e.k = "unary" -> CatSeqUnary(e.op, ts[1])
    [] e.k = "cmp" -> \A i \in DOMAIN ts : ts[i] = Int32
    [] OTHER -> e.k \notin {"list", "tuple", "comp"}

(***************************************************************************)
(* fold_expr: the operands, then the rule for the expression.              *)
(***************************************************************************)
Operands(e) ==
  CASE e.k = "bin" -> <<e.l, e.r>>
    [] e.k = "unary" -> <<e.e>>
    [] e.k \in {"cmp", "bool", "list", "tuple", "range"} -> e.es
    [] e.k = "if" -> <<e.test, e.body, e.orelse>>
    [] e.k = "sub" -> <<e.e, e.key>>
    [] e.k = "call" -> e.args \o [j \in DOMAIN e.kw |-> e.kw[j].e]
    [] OTHER -> <<>>

FoldOne(e, ts) ==
  CASE e.k = "bin" -> infer_bin_ops(e.op, ts[1], ts[2])
    [] e.k = "unary" -> infer_unary_ops(e.op, ts[1])
    [] e.k = "cmp" -> infer_compare(e.ops, ts, e.es)
    [] e.k = "bool" -> infer_bool_ops(ts)
    [] e.k = "if" -> infer_if_expr(ts[1], ts[2], ts[3])
    [] e.k = "list" -> infer_list(ts)
    [] e.k = "tuple" -> Tuple_(ts)
    [] e.k = "sub" -> infer_getitem(ts[1], e.key, ts[2])
    [] e.k = "range" -> IF \A i \in DOMAIN ts : ts[i] = Int32 THEN Range_ ELSE Error
    [] e.k = "call" -> fold_call(e, SubSeq(ts, 1, Len(e.args)), SubSeq(ts, Len(e.args) + 1, Len(ts)))

RECURSIVE Infer(_, _, _), fold_listcomp(_, _, _)
Infer(e, G, profile) ==
  LET ops == Operands(e)
      ts == [i \in DOMAIN ops |-> Infer(ops[i], G, profile)]
  IN  CASE \E i \in DOMAIN ts : Failed(ts[i]) -> FirstFailed(ts)
        [] IsCatSeq(profile) /\ ~validate_source_profile_operators(e, ts) -> Error
        [] e.k = "const" -> infer_constant(e)
        [] e.k = "name" -> IF e.id \in DOMAIN G THEN G[e.id] ELSE Error
        [] e.k = "comp" -> fold_listcomp(e, G, profile)
        [] OTHER -> FoldOne(e, ts)

\* The target lives in a copy of the mapping.
fold_listcomp(e, G, profile) ==
  LET iter == Infer(e.iter, G, profile)
      item == IF iter = Range_ THEN Int32 ELSE iter[2]
      inner == [x \in DOMAIN G \cup {e.target} |-> IF x = e.target THEN item ELSE G[x]]
      ifs == [i \in DOMAIN e.ifs |-> Infer(e.ifs[i], inner, profile)]
      elt == Infer(e.elt, inner, profile)
  IN  CASE Failed(iter) -> iter
        [] iter # Range_ /\ ~IsList(iter) -> Error
        [] \E i \in DOMAIN ifs : Failed(ifs[i]) -> FirstFailed(ifs)
        [] Failed(elt) -> elt
        [] OTHER -> IF \A i \in DOMAIN ifs : Agree(ifs[i], Bool) THEN List(elt) ELSE Error
=============================================================================
