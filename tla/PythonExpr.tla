----------------------------- MODULE PythonExpr -----------------------------
(***************************************************************************)
(* The reference: what Python evaluates an expression to.                  *)
(*                                                                         *)
(* The language is a subset of Python with integers of a fixed width, so   *)
(* the evaluator also notes what takes the evaluation out of the part on   *)
(* which the two should agree.  An evaluation without notes should go the  *)
(* same way.                                                               *)
(***************************************************************************)
EXTENDS ExprLowering

PyStart(env) == Start(env) @@ [notes |-> {}]
PyOk(v, notes) == [v |-> v, out |-> "ok", notes |-> notes]
PyRaises(x, notes) == [v |-> 0, out |-> x, notes |-> notes]
PyResult(m, r) == [m EXCEPT !.v = r.v, !.out = r.out, !.notes = @ \cup r.notes]
Note(p, n) == IF p THEN {n} ELSE {}

\* An integer that the type of the expression cannot hold.
Fitting(t, v) == IF InRange(v, t) THEN PyOk(v, {}) ELSE PyOk(WrapTo(v, t), {"width"})
RECURSIVE CappedPower(_, _)
CappedPower(a, n) ==
  IF n = 0 THEN 1
  ELSE LET r == CappedPower(a, n - 1) IN IF Abs(r) > 1000 THEN r ELSE a * r

FloorMod(a, b) == IF b > 0 THEN a % b ELSE -((-a) % (-b))
FloorQuotient(a, b) == IF b > 0 THEN a \div b ELSE (-a) \div (-b)
Floors(a, b) == Note(FloorQuotient(a, b) # TruncDiv(a, b), "floor")
PowerArgument(b, t) == IF b >= 2 ^ (Width(t) - 1) THEN -1 ELSE b
PyInt(op, t, a, b) ==
  CASE op = "+" -> Fitting(t, a + b)
    [] op = "-" -> Fitting(t, a - b)
    [] op = "*" -> Fitting(t, a * b)
    [] op \in {"/", "//", "%"} /\ b = 0 -> PyRaises("ZeroDivisionError", {"zero divisor"})
    [] op = "/" -> PyOk(Frac(a, b), {})
    [] op = "//" -> LET r == Fitting(t, FloorQuotient(a, b)) IN [r EXCEPT !.notes = @ \cup Floors(a, b)]
    [] op = "%" -> PyOk(FloorMod(a, b), Floors(a, b) \cup Note(Overflows(t, a, b), "width"))
    [] op = "**" -> IF b < 0 THEN PyOk(0, {"negative power"})
                    ELSE LET r == Fitting(t, CappedPower(a, b))
                         IN  [r EXCEPT !.notes = @ \cup Note(PowerArgument(b, t) < 0, "unsigned power")]
    [] op \in Bitwise -> PyOk(BitOp(op, t, a, b), {})
PyShift(op, t, a, n) ==
  CASE n < 0 -> PyRaises("ValueError", {"negative shift"})
    [] op = "<<" -> IF n < Width(t) THEN Fitting(t, a * 2 ^ n) ELSE PyOk(0, Note(a # 0, "width"))
    [] OTHER -> PyOk(IF n < Width(t) THEN a \div 2 ^ n ELSE IF a < 0 THEN -1 ELSE 0, {})
PyFloat(op, x, y) ==
  CASE 0 \in {x[2], y[2]} -> PyOk(x, {"not a number"})
    [] op \in {"/", "//", "%"} /\ y[1] = 0 -> PyRaises("ZeroDivisionError", {"zero divisor"})
    [] op = "%" -> PyOk(FracMinus(x, FracTimes(y, FloorOf(FracOver(x, y)))),
                        Note(Negative(x[1]) # Negative(y[1]), "floor"))
    [] op = "**" -> PyOk(IF y[2] = 1 THEN FracPow(x, y[1]) ELSE x,
                         Note(y[2] # 1 \/ (x[1] = 0 /\ y[1] < 0), "not a number"))
    [] OTHER -> PyOk(gen_float_ops(IF op = "@" THEN "*" ELSE op, x, y), {})
PyBinary(op, l, r, a, b) ==
  CASE IsList(l) \/ IsList(r) -> PyOk(ListOp(op, l, a, b), {})
    [] op \in Shifts -> PyShift(op, l, a, b)
    [] Dtype(l) = Float /\ r = Int32 -> PyFloat(op, a, <<b, 1>>)
    [] Dtype(l) = Float -> PyFloat(op, a, b)
    [] OTHER -> PyInt(op, Dtype(l), a, b)

PyUnary(op, t, v) ==
  CASE op = "not" \/ (IsND(t) /\ t[2] = Bool) -> PyOk(Flag(IsZero(t, v)), {})
    [] Dtype(t) = Float -> PyOk(IF op = "neg" THEN <<-v[1], v[2]>> ELSE v, Note(op = "~", "type"))
    [] op = "pos" -> PyOk(v, {})
    [] OTHER -> LET it == IF t = Bool THEN Int32 ELSE Dtype(t)
                IN  Fitting(it, IF op = "neg" THEN -v ELSE IF it \in SignedInts THEN -1 - v
                                                           ELSE 2 ^ Width(it) - 1 - v)

PyCompare(op, l, r, a, b) ==
  IF IsList(l) \/ IsList(r) THEN Flag((l = r /\ a = b) <=> (op = "==")) ELSE CompareValue(op, l, r, a, b)

\* Does evaluating the expression have an effect, or may it raise?
RECURSIVE Effect(_)
Effect(e) == \/ e.k \in {"call", "sub", "comp", "range"}
             \/ e.k = "bin" /\ e.op \in {"**", "//", "%"}
             \/ \E i \in DOMAIN Operands(e) : Effect(Operands(e)[i])

\* The value of a comparison of lists before anything normalises it.
RECURSIVE RawEquality(_, _)
RawEquality(e, G) ==
  CASE e.k = "cmp" -> \E i \in DOMAIN e.es : IsList(TypeIn(e.es[i], G))
    [] e.k = "if" -> RawEquality(e.body, G) \/ RawEquality(e.orelse, G)
    [] e.k = "sub" -> RawEquality(e.e, G)
    [] e.k \in {"list", "tuple"} -> \E i \in DOMAIN e.es : RawEquality(e.es[i], G)
    [] OTHER -> FALSE
RawNote(es, G) == Note(\E i \in DOMAIN es : RawEquality(es[i], G), "all ones")

RECURSIVE Py(_, _, _), PyAll(_, _, _, _), PyChain(_, _, _, _), PyBool(_, _, _), PyLoop(_, _, _, _, _), PyCall(_, _, _),
          PyComprehension(_, _, _)
PyAll(es, G, m, vs) ==
  IF es = <<>> \/ m.out # "ok" THEN Value(m, vs)
  ELSE LET r == Py(Head(es), G, m) IN PyAll(Tail(es), G, r, Append(vs, r.v))

\* `i` comparisons have held, the last operand's value is in m.v.
PyChain(e, G, m, i) ==
  LET r == Py(e.es[i + 1], G, m)
      holds == PyCompare(e.ops[i], TypeIn(e.es[i], G), TypeIn(e.es[i + 1], G), m.v, r.v)
      rest == SubSeq(e.es, i + 2, Len(e.es))
      skipped == Note(\E k \in DOMAIN rest : Effect(rest[k]), "chain")
  IN  CASE m.out # "ok" -> m
        [] r.out # "ok" -> r
        [] i = Len(e.ops) -> Value(r, holds)
        [] holds = 0 -> [Value(r, 0) EXCEPT !.notes = @ \cup skipped]
        [] OTHER -> PyChain(e, G, r, i + 1)

PyBool(e, G, m) ==
  LET l == Py(e.es[1], G, m)
      rest == [e EXCEPT !.es = Tail(@)]
  IN  IF l.out # "ok" \/ Len(e.es) = 1 \/ (l.v # 0) = (e.op = "or") THEN l ELSE PyBool(rest, G, l)

PyCall(e, G, m) ==
  LET recv == PyAll(e.recv, G, m, <<>>)
      args == PyAll(Operands(e), G, recv, <<>>)
      swapped == Note(/\ \E i \in DOMAIN e.recv : Effect(e.recv[i])
                      /\ \E i \in DOMAIN Operands(e) : Effect(Operands(e)[i]), "receiver")
      noted == [args EXCEPT !.notes = @ \cup swapped]
  IN  IF args.out # "ok" THEN noted ELSE gen_call(e, noted, args.v, m.env.raising)

\* The elements of a range, in Python.
PyRange(r) == LET n == IF r[3] > 0 THEN (r[2] - r[1] + r[3] - 1) \div r[3]
                       ELSE (r[1] - r[2] - r[3] - 1) \div (-r[3])
              IN  [i \in 1..n |-> r[1] + (i - 1) * r[3]]
RangeNotes(r) ==
  LET xs == PyRange(r)
  IN  Note(\/ ~InRange(r[2] - r[1], Int32)
           \/ ~InRange(r[1] - r[3], Int32)
           \/ xs # <<>> /\ ~InRange(xs[Len(xs)] + r[3], Int32), "width")
PyLoop(e, G, m, items, xs) ==
  IF items = <<>> THEN Value(m, xs)
  ELSE LET c == PyAll(e.ifs, G, Assign(m, e.target, Head(items)), <<>>)
           x == Py(e.elt, G, c)
       IN  CASE c.out # "ok" -> c
             [] \E i \in DOMAIN c.v : c.v[i] = 0 -> PyLoop(e, G, c, Tail(items), xs)
             [] x.out # "ok" -> x
             [] OTHER -> PyLoop(e, G, x, Tail(items), Append(xs, x.v))
PyComprehension(e, G, m) ==
  LET iter == Py(e.iter, G, m)
      t == TypeIn(e.iter, G)
      shadows == Note(e.target \in DOMAIN G, "target")
      noted == [iter EXCEPT !.notes = @ \cup shadows \cup IF t = Range_ THEN RangeNotes(iter.v) ELSE {}]
      r == PyLoop(e, Bind(G, e.target, ItemType(t)), noted,
                  IF t = Range_ THEN PyRange(iter.v) ELSE iter.v, <<>>)
  IN  IF iter.out # "ok" THEN iter ELSE [r EXCEPT !.env = m.env]

PyOne(e, ts, vs) ==
  CASE e.k = "bin" -> PyBinary(e.op, ts[1], ts[2], vs[1], vs[2])
    [] e.k = "unary" -> PyUnary(e.op, ts[1], vs[1])
    [] OTHER -> ApplyOne(e, ts, vs) @@ [notes |-> {}]

Py(e, G, m) ==
  LET ops == Operands(e)
      r == PyAll(ops, G, m, <<>>)
      raw == IF e.k \in {"unary", "cmp", "list"} THEN RawNote(ops, G) ELSE {}
      n == [r EXCEPT !.notes = @ \cup raw]
      ts == [i \in DOMAIN ops |-> TypeIn(ops[i], G)]
  IN  CASE e.k = "const" -> Value(m, e.v)
        [] e.k = "name" -> Value(m, m.env.vars[e.id])
        [] e.k = "cmp" -> LET c == PyChain(e, G, Py(e.es[1], G, m), 1)
                          IN  [c EXCEPT !.notes = @ \cup raw]
        [] e.k = "bool" -> LET b == PyBool(e, G, m)
                           IN  [b EXCEPT !.notes = @ \cup Note(Len(e.es) > 2, "operands")]
        [] e.k = "if" -> LET t == Py(e.test, G, m)
                         IN  IF t.out # "ok" THEN t ELSE Py(IF t.v # 0 THEN e.body ELSE e.orelse, G, t)
        [] e.k = "call" -> PyCall(e, G, m)
        [] e.k = "comp" -> PyComprehension(e, G, m)
        [] OTHER -> IF n.out # "ok" THEN n ELSE PyResult(n, PyOne(e, ts, r.v))
=============================================================================
