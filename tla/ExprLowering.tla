---------------------------- MODULE ExprLowering ----------------------------
(***************************************************************************)
(* What codegen/expr.rs makes of an expression.                            *)
(*                                                                         *)
(* `Shape` is the LLVM type of the value that gen_expr builds, <<"panic">> *)
(* when code generation panics or gives up, <<"invalid">> when it builds   *)
(* an instruction whose operands have different types.  A bool is an i8 in *)
(* memory and mostly an i1 when an operation has just computed it.         *)
(*                                                                         *)
(* `Run` is what the generated code does: the value, or the exception, and *)
(* the calls it made.  Integers wrap to their width, lists and tuples are  *)
(* sequences, an array stands for one of its elements, and a float for the *)
(* fraction it is near.                                                    *)
(***************************************************************************)
EXTENDS ExprTyping

Invalid(why) == <<"invalid", why>>
Bad(s) == s[1] \in {"panic", "invalid"}
I1 == <<"i1">>   I8 == <<"i8">>   F64 == <<"f64">>   Ptr == <<"ptr">>
Struct(ss) == <<"struct", ss>>

RECURSIVE get_llvm_type(_)
get_llvm_type(t) ==
  CASE t = Bool -> I8
    [] t \in {Int32, UInt32} -> <<"i32">>
    [] t \in {Int64, UInt64} -> <<"i64">>
    [] t = Float -> F64
    [] IsTuple(t) -> Struct([i \in DOMAIN t[2] |-> get_llvm_type(t[2][i])])
    [] t = Str -> Struct(<<Ptr, <<"i64">>>>)
    [] OTHER -> Ptr

(***************************************************************************)
(* Shapes of operations.                                                   *)
(***************************************************************************)
gen_int_ops_shape(op, s) == CASE op = "@" -> Panic("matmul of integers") [] op = "/" -> F64 [] OTHER -> s
gen_float_ops_shape(op) ==
  IF op \in Basic \cup {"/", "%", "//", "**"} THEN F64 ELSE Panic("float operator")

RECURSIVE BinopShape(_, _, _), NDBinopShape(_, _, _)
NDBinopShape(op, l, r) ==
  LET dtype(t) == IF IsND(t) THEN t[2] ELSE t
      item == BinopShape(op, dtype(l), dtype(r))
  IN  CASE dtype(l) # dtype(r) -> Panic("inhomogeneous arrays")
        \* bool has no operator methods
        [] dtype(l) = Bool -> Panic("bool arrays")
        [] op = "@" -> IF typeof_matmul(l, r) = Float THEN F64 ELSE Ptr
        [] Bad(item) -> item
        \* the result array has elements of the left operand's type
        [] item # get_llvm_type(dtype(l)) -> Invalid("element wider than the array's")
        [] OTHER -> Ptr
BinopShape(op, l, r) ==
  CASE l = r /\ l \in Ints -> gen_int_ops_shape(op, get_llvm_type(l))
    [] op \in Shifts -> IF l \in Ints /\ r \in Ints THEN get_llvm_type(l) ELSE Panic("shift")
    [] l = r /\ l = Float -> gen_float_ops_shape(op)
    [] l = Float /\ r = Int32 -> IF op = "**" THEN F64 ELSE Panic("float and int")
    [] IsList(l) \/ IsList(r) ->
         CASE op = "+" -> IF IsList(l) /\ IsList(r) THEN Ptr ELSE Panic("list")
           [] op = "*" -> IF l \in Ints \/ r \in Ints THEN Ptr ELSE Panic("list")
           [] OTHER -> Panic("list operator")
    [] IsND(l) \/ IsND(r) -> NDBinopShape(op, l, r)
    [] OTHER -> Panic("operator method")

RECURSIVE UnaryShape(_, _, _)
UnaryShape(op, t, s) ==
  CASE t = Bool -> IF op = "not" THEN s ELSE <<"i32">>
    [] t \in Ints \cup {Float} -> IF op = "not" THEN I1 ELSE s
    [] IsND(t) /\ t[2] = Bool -> IF op = "~" THEN Ptr ELSE Panic("bool array")
    [] IsND(t) -> IF UnaryShape(op, t[2], get_llvm_type(t[2])) = get_llvm_type(t[2])
                  THEN Ptr ELSE Invalid("element wider than the array's")
    [] OTHER -> Panic("unary operator")

MinLen(a, b) == IF Len(a) <= Len(b) THEN Len(a) ELSE Len(b)

RECURSIVE CompareShape(_, _, _, _, _)
CompareShape(op, l, r, sl, sr) ==
  CASE IsND(l) \/ IsND(r) -> Ptr
    [] l \in Ints \cup {Bool, Float, Str} ->
         CASE l # r -> Panic("comparison of different types")
           [] l \in {Bool, Str} /\ op \notin Equality -> Panic("comparison of bool or str")
           [] sl # sr -> Invalid("icmp of i1 and i8")
           [] OTHER -> I1
    [] IsList(l) \/ IsList(r) ->
         IF l = r /\ op \notin Equality THEN Panic("comparison of lists") ELSE I8
    [] IsTuple(l) \/ IsTuple(r) ->
         IF ~IsTuple(l) \/ ~IsTuple(r) THEN Panic("tuple and other")
         ELSE LET n == MinLen(l[2], r[2])
                  each == {CompareShape("==", l[2][i], r[2][i], sl[2][i], sr[2][i]) : i \in 1..n}
              IN  CASE op \notin Equality -> Panic("comparison of tuples")
                    [] \E s \in each : Bad(s) -> CHOOSE s \in each : Bad(s)
                    [] \E s \in each : s = Ptr -> Panic("tuple of arrays")
                    [] OTHER -> I8
    [] OTHER -> Panic("comparison")

(***************************************************************************)
(* Shapes of expressions.  Every operand is generated, whether it will be  *)
(* evaluated or not.                                                       *)
(***************************************************************************)
TypeIn(e, G) == Infer(e, G, "default")
FirstBad(ss) == ss[CHOOSE i \in DOMAIN ss : Bad(ss[i]) /\ \A j \in 1..(i - 1) : ~Bad(ss[j])]

gen_cmpop_shape(e, ts, ss) ==
  LET each == [i \in DOMAIN e.ops |-> CompareShape(e.ops[i], ts[i], ts[i + 1], ss[i], ss[i + 1])]
  IN  CASE \E i \in DOMAIN each : Bad(each[i]) -> FirstBad(each)
        [] \E i \in DOMAIN each : each[i] # each[1] -> Invalid("and of i1 and i8")
        [] OTHER -> each[1]
gen_boolop_shape(ss) == I8
gen_ifexp_shape(t) == get_llvm_type(t)
gen_subscript_shape(e, t, s) ==
  CASE IsList(t) -> get_llvm_type(t[2])
    [] IsND(t) -> IF t[3] = 1 THEN get_llvm_type(t[2]) ELSE Ptr
    [] IsTuple(t) -> IF e.key.v < 0 THEN Panic("negative tuple index") ELSE s[2][e.key.v + 1]
gen_call_shape(f) == IF Functions[f].ret = Bool THEN I1 ELSE get_llvm_type(Functions[f].ret)

ShapeOne(e, t, ts, ss) ==
  CASE e.k = "bin" -> BinopShape(e.op, ts[1], ts[2])
    [] e.k = "unary" -> UnaryShape(e.op, ts[1], ss[1])
    [] e.k = "cmp" -> gen_cmpop_shape(e, ts, ss)
    [] e.k = "bool" -> gen_boolop_shape(ss)
    [] e.k = "if" -> gen_ifexp_shape(t)
    [] e.k \in {"list", "range"} -> Ptr
    [] e.k = "tuple" -> Struct(ss)
    [] e.k = "sub" -> gen_subscript_shape(e, ts[1], ss[1])
    [] e.k = "call" -> gen_call_shape(e.fn)
    [] OTHER -> get_llvm_type(t)

ItemType(t) == IF t = Range_ THEN Int32 ELSE t[2]
Bind(G, x, t) == [y \in DOMAIN G \cup {x} |-> IF y = x THEN t ELSE G[y]]
CompParts(e) == <<e.elt>> \o e.ifs

RECURSIVE Shape(_, _)
Shape(e, G) ==
  LET ops == Operands(e)
      ts == [i \in DOMAIN ops |-> TypeIn(ops[i], G)]
      ss == [i \in DOMAIN ops |-> Shape(ops[i], G)]
      inner == Bind(G, e.target, ItemType(TypeIn(e.iter, G)))
      parts == [i \in DOMAIN CompParts(e) |-> Shape(CompParts(e)[i], inner)]
  IN  CASE \E i \in DOMAIN ss : Bad(ss[i]) -> FirstBad(ss)
        [] e.k = "comp" -> IF Bad(Shape(e.iter, G)) THEN Shape(e.iter, G)
                           ELSE IF \E i \in DOMAIN parts : Bad(parts[i]) THEN FirstBad(parts) ELSE Ptr
        [] OTHER -> ShapeOne(e, TypeIn(e, G), ts, ss)

(***************************************************************************)
(* Fractions.                                                              *)
(***************************************************************************)
Abs(n) == IF n < 0 THEN -n ELSE n
RECURSIVE Gcd(_, _)
Gcd(a, b) == IF b = 0 THEN a ELSE Gcd(b, a % b)
Frac(n, d) ==
  IF d = 0 THEN <<0, 0>>
  ELSE LET g == Gcd(Abs(n), Abs(d))
       IN  IF d < 0 THEN <<(-n) \div g, (-d) \div g>> ELSE <<n \div g, d \div g>>
FloorOf(x) == IF x[2] = 0 THEN x ELSE <<x[1] \div x[2], 1>>
TruncOf(x) == IF x[2] = 0 THEN x ELSE <<TruncDiv(x[1], x[2]), 1>>
FracMinus(x, y) == Frac(x[1] * y[2] - y[1] * x[2], x[2] * y[2])
FracTimes(x, y) == Frac(x[1] * y[1], x[2] * y[2])
FracOver(x, y) == Frac(x[1] * y[2], x[2] * y[1])
FracLess(x, y) == x[1] * y[2] < y[1] * x[2]
RECURSIVE FracPower(_, _)
FracPower(x, n) == IF n <= 0 THEN <<1, 1>> ELSE FracTimes(x, FracPower(x, n - 1))
FracPow(x, n) == IF n < 0 THEN FracOver(<<1, 1>>, FracPower(x, -n)) ELSE FracPower(x, n)

(***************************************************************************)
(* Operations.  An operation gives a value, raises, or is undefined.       *)
(***************************************************************************)
Ok(v) == [v |-> v, out |-> "ok"]
Raises(x) == [v |-> 0, out |-> x]
Undefined == Raises("undefined")

Width(t) == Bits[t[1]]
Pattern(v, n) == v % (2 ^ n)
Minimum(t) == IF t \in SignedInts THEN -(2 ^ (Width(t) - 1)) ELSE 0
Overflows(t, a, b) == t \in SignedInts /\ a = Minimum(t) /\ b = -1
BitOp(op, t, a, b) ==
  LET both == AndBits(a, b, Width(t))
      sum == Pattern(a, Width(t)) + Pattern(b, Width(t))
  IN  WrapTo(CASE op = "&" -> both [] op = "|" -> sum - both [] op = "^" -> sum - 2 * both, t)

RECURSIVE PowerMod(_, _, _)
PowerMod(a, n, t) == IF n = 0 THEN 1 ELSE WrapTo(a * PowerMod(a, n - 1, t), t)
integer_power(t, a, b) ==
  IF Pattern(b, Width(t)) >= 2 ^ (Width(t) - 1) THEN Raises("ValueError") ELSE Ok(PowerMod(a, b, t))

\* Mutant: a shift count is taken modulo the width, like the machine does.
IntShift_Masks(op, t, a, u, n) ==
  LET count == Pattern(n, Width(u)) % Width(t)
  IN  IF op = "<<" THEN WrapTo(ShiftLeft(a, count, Width(t)), t) ELSE ShiftRight(a, count, Width(t))

\* The count is unsigned, and shifts everything out from the width on.
IntShift(op, t, a, u, n) ==
  LET count == Pattern(n, Width(u))
  IN  IF op = "<<" THEN WrapTo(ShiftLeft(a, count, Width(t)), t) ELSE ShiftRight(a, count, Width(t))

gen_int_ops(op, t, a, b) ==
  CASE op = "+" -> Ok(WrapTo(a + b, t))
    [] op = "-" -> Ok(WrapTo(a - b, t))
    [] op = "*" -> Ok(WrapTo(a * b, t))
    [] op = "/" -> Ok(Frac(a, b))
    [] op \in {"//", "%"} ->
         IF b = 0 \/ Overflows(t, a, b) THEN Undefined
         ELSE Ok(IF op = "//" THEN TruncDiv(a, b) ELSE a - b * TruncDiv(a, b))
    [] op = "**" -> integer_power(t, a, b)
    [] op \in Bitwise -> Ok(BitOp(op, t, a, b))
gen_float_ops(op, x, y) ==
  CASE op = "+" -> FracMinus(x, <<-y[1], y[2]>>)
    [] op = "-" -> FracMinus(x, y)
    [] op = "*" -> FracTimes(x, y)
    [] op = "/" -> FracOver(x, y)
    [] op = "//" -> FloorOf(FracOver(x, y))
    [] op = "%" -> FracMinus(x, FracTimes(y, TruncOf(FracOver(x, y))))
    [] op = "**" -> IF y[2] = 1 THEN FracPow(x, y[1]) ELSE <<0, 0>>

RECURSIVE Repeat(_, _)
Repeat(xs, n) == IF n <= 0 THEN <<>> ELSE xs \o Repeat(xs, n - 1)
ListOp(op, l, a, b) ==
  CASE op = "+" -> a \o b
    [] IsList(l) -> Repeat(a, b)
    [] OTHER -> Repeat(b, a)

Dtype(t) == IF IsND(t) THEN t[2] ELSE t
gen_binop_expr_with_values(op, l, r, a, b) ==
  CASE IsList(l) \/ IsList(r) -> Ok(ListOp(op, l, a, b))
    [] op \in Shifts -> Ok(IntShift(op, l, a, r, b))
    [] Dtype(l) = Float /\ r = Int32 -> Ok(FracPow(a, b))
    [] Dtype(l) = Float -> Ok(gen_float_ops(IF op = "@" THEN "*" ELSE op, a, b))
    [] OTHER -> gen_int_ops(op, Dtype(l), a, b)

Flag(p) == IF p THEN 1 ELSE 0
IsZero(t, v) == IF t = Float THEN v[1] = 0 ELSE v = 0
gen_unaryop_expr_with_values(op, t, v) ==
  CASE op = "not" \/ (IsND(t) /\ t[2] = Bool) -> Flag(IsZero(t, v))
    [] t = Bool -> CASE op = "neg" -> WrapTo(-v, Int32) [] op = "~" -> -1 - v [] OTHER -> v
    [] Dtype(t) = Float -> IF op = "neg" THEN <<-v[1], v[2]>> ELSE v
    [] op = "neg" -> WrapTo(-v, Dtype(t))
    [] op = "~" -> WrapTo(-1 - v, Dtype(t))
    [] OTHER -> v

\* Lists are equal with all the bits of a byte set.
AllOnes == 2 ^ Bits["i8"] - 1
RECURSIVE CompareValue(_, _, _, _, _), ListsEqual(_, _, _), TuplesEqual(_, _, _, _)
ListsEqual(t, a, b) ==
  Len(a) = Len(b) /\ \A i \in DOMAIN a : CompareValue("==", t[2], t[2], a[i], b[i]) # 0
TuplesEqual(l, r, a, b) ==
  Len(a) = Len(b) /\ \A i \in DOMAIN a : CompareValue("==", l[2][i], r[2][i], a[i], b[i]) # 0
CompareValue(op, l, r, a, b) ==
  CASE IsList(l) \/ IsList(r) -> LET eq == l = r /\ ListsEqual(l, a, b)
                                  IN  IF eq <=> (op = "==") THEN AllOnes ELSE 0
    [] IsTuple(l) -> Flag(TuplesEqual(l, r, a, b) <=> (op = "=="))
    [] op \in Equality -> Flag((a = b) <=> (op = "=="))
    [] Dtype(l) = Float -> Flag(CASE op = "<" -> FracLess(a, b) [] op = "<=" -> ~FracLess(b, a)
                                  [] op = ">" -> FracLess(b, a) [] op = ">=" -> ~FracLess(a, b))
    [] OTHER -> Flag(CASE op = "<" -> a < b [] op = "<=" -> a <= b
                       [] op = ">" -> a > b [] op = ">=" -> a >= b)
\* The results of a chain are and-ed bit by bit.
gen_cmpop_expr_with_values(ops, ts, vs) ==
  LET each == {CompareValue(ops[i], ts[i], ts[i + 1], vs[i], vs[i + 1]) : i \in DOMAIN ops}
  IN  CHOOSE v \in each : \A w \in each : v <= w

gen_subscript_expr(t, v, i) ==
  LET at == IF i < 0 THEN i + Len(v) ELSE i
  IN  CASE IsND(t) -> Ok(v)
        [] IsTuple(t) -> Ok(v[i + 1])
        [] OTHER -> IF at \in 0..(Len(v) - 1) THEN Ok(v[at + 1]) ELSE Raises("IndexError")

(***************************************************************************)
(* Evaluation.  A machine has the variables, the calls made and how the    *)
(* evaluation ended; v is the last value.                                  *)
(***************************************************************************)
Start(env) == [env |-> env, log |-> <<>>, out |-> "ok", v |-> 0]
Result(m, r) == [m EXCEPT !.v = r.v, !.out = r.out]
Value(m, v) == [m EXCEPT !.v = v]

RECURSIVE Run(_, _, _), RunAll(_, _, _, _), gen_boolop_expr(_, _, _), gen_ifexp_expr(_, _, _), gen_call_expr(_, _, _),
          gen_comprehension(_, _, _)
RunAll(es, G, m, vs) ==
  IF es = <<>> \/ m.out # "ok" THEN Value(m, vs)
  ELSE LET r == Run(Head(es), G, m)
       IN  RunAll(Tail(es), G, r, Append(vs, IF r.out = "ok" THEN r.v ELSE 0))

\* Only the first two operands are generated.
gen_boolop_expr(e, G, m) ==
  LET l == Run(e.es[1], G, m)
      r == Run(e.es[2], G, l)
  IN  CASE l.out # "ok" -> l
        [] (l.v # 0) = (e.op = "or") -> Value(l, Flag(e.op = "or"))
        [] OTHER -> IF r.out # "ok" THEN r ELSE Value(r, Flag(r.v # 0))

gen_ifexp_expr(e, G, m) ==
  LET t == Run(e.test, G, m)
  IN  IF t.out # "ok" THEN t ELSE Run(IF t.v # 0 THEN e.body ELSE e.orelse, G, t)

ParamValue(e, vs, i) ==
  IF i <= Len(e.args) THEN vs[i]
  ELSE IF \E j \in DOMAIN e.kw : e.kw[j].name = Names(e.fn)[i]
       THEN vs[Len(e.args) + CHOOSE j \in DOMAIN e.kw : e.kw[j].name = Names(e.fn)[i]]
       ELSE ParamOf(e.fn, i).default[1]
AsArgument(t, v) == IF t = Bool THEN Flag(v # 0) ELSE v
gen_call(e, m, vs, raising) ==
  LET ps == [i \in DOMAIN Names(e.fn) |-> AsArgument(ParamOf(e.fn, i).ty, ParamValue(e, vs, i))]
      called == [m EXCEPT !.log = Append(@, <<e.fn, ps>>)]
  IN  IF e.fn \in raising THEN Result(called, Raises("A")) ELSE Value(called, Functions[e.fn].value)

\* The receiver comes after the arguments.
gen_call_expr(e, G, m) ==
  LET args == RunAll(Operands(e), G, m, <<>>)
      all == RunAll(e.recv, G, args, <<>>)
  IN  IF all.out # "ok" THEN all ELSE gen_call(e, all, args.v, m.env.raising)

ApplyOne(e, ts, vs) ==
  CASE e.k = "bin" -> gen_binop_expr_with_values(e.op, ts[1], ts[2], vs[1], vs[2])
    [] e.k = "unary" -> Ok(gen_unaryop_expr_with_values(e.op, ts[1], vs[1]))
    [] e.k = "cmp" -> Ok(gen_cmpop_expr_with_values(e.ops, ts, vs))
    [] e.k = "sub" -> gen_subscript_expr(ts[1], vs[1], vs[2])
    [] e.k = "range" -> IF vs[3] = 0 THEN Raises("ValueError") ELSE Ok(vs)
    [] OTHER -> Ok(vs)

(***************************************************************************)
(* List comprehensions.  The list is allocated for the number of elements  *)
(* that (stop - start) / step + 1 gives in int32; `room` is what is left   *)
(* of it.  The target is a variable of the function.                       *)
(***************************************************************************)
gen_in_range_check(i, r) == IF r[3] > 0 THEN i < r[2] ELSE i > r[2]
ComprehensionRoom(r) ==
  LET n == WrapTo(TruncDiv(WrapTo(r[2] - r[1], Int32), r[3]) + 1, Int32) IN IF n > 0 THEN n ELSE 0
Assign(m, x, v) == [m EXCEPT !.env.vars = [y \in DOMAIN @ \cup {x} |-> IF y = x THEN v ELSE @[y]]]

RECURSIVE Filtered(_, _, _), Turn(_, _, _, _, _), RangeLoop(_, _, _, _, _, _), ListLoop(_, _, _, _, _)
Filtered(ifs, G, m) ==
  IF ifs = <<>> THEN Value(m, 1)
  ELSE LET c == Run(Head(ifs), G, m)
       IN  IF c.out # "ok" \/ c.v = 0 THEN c ELSE Filtered(Tail(ifs), G, c)
\* One turn of the loop, with the target assigned: xs is what has been stored.
Turn(e, G, m, xs, room) ==
  LET c == Filtered(e.ifs, G, m)
      x == Run(e.elt, G, c)
  IN  CASE c.out # "ok" -> c
        [] c.v = 0 -> Value(c, xs)
        [] Len(xs) >= room -> Result(c, Raises("overrun"))
        [] x.out # "ok" -> x
        [] OTHER -> Value(x, Append(xs, x.v))
\* After as many turns as int32 has values the loop has come round to where it was.
RangeLoop(e, G, m, r, xs, turns) ==
  LET i == WrapTo(m.env.vars[e.target] + r[3], Int32)
      next == Assign(m, e.target, i)
      t == Turn(e, G, next, xs, ComprehensionRoom(r))
  IN  CASE turns = 0 -> Result(next, Raises("endless"))
        [] ~gen_in_range_check(i, r) -> Value(next, xs)
        [] t.out # "ok" -> t
        [] OTHER -> RangeLoop(e, G, t, r, t.v, turns - 1)
ListLoop(e, G, m, items, xs) ==
  IF items = <<>> THEN Value(m, xs)
  ELSE LET t == Turn(e, G, Assign(m, e.target, Head(items)), xs, Len(xs) + Len(items))
       IN  IF t.out # "ok" THEN t ELSE ListLoop(e, G, t, Tail(items), t.v)

gen_comprehension(e, G, m) ==
  LET iter == Run(e.iter, G, m)
      t == TypeIn(e.iter, G)
      inner == Bind(G, e.target, ItemType(t))
      r == iter.v
      first == Assign(iter, e.target, WrapTo(r[1] - r[3], Int32))
  IN  CASE iter.out # "ok" -> iter
        [] t # Range_ -> ListLoop(e, inner, iter, iter.v, <<>>)
        [] ~gen_in_range_check(r[1], r) -> Value(first, <<>>)
        [] OTHER -> RangeLoop(e, inner, first, r, <<>>, 2 ^ Width(Int32))

Run(e, G, m) ==
  LET ops == Operands(e)
      r == RunAll(ops, G, m, <<>>)
      ts == [i \in DOMAIN ops |-> TypeIn(ops[i], G)]
  IN  CASE e.k = "const" -> Value(m, e.v)
        [] e.k = "name" -> Value(m, m.env.vars[e.id])
        [] e.k = "bool" -> gen_boolop_expr(e, G, m)
        [] e.k = "if" -> gen_ifexp_expr(e, G, m)
        [] e.k = "call" -> gen_call_expr(e, G, m)
        [] e.k = "comp" -> gen_comprehension(e, G, m)
        [] OTHER -> IF r.out # "ok" THEN r ELSE Result(r, ApplyOne(e, ts, r.v))
=============================================================================
