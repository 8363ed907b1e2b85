---------------------------- MODULE Expressions ----------------------------
(***************************************************************************)
(* An expression on its way: folded by the inferencer, generated, executed.*)
(***************************************************************************)
EXTENDS PythonExpr

CONSTANTS Programs,   \* name -> expression
          Envs,       \* the values of the variables, and the calls that raise
          Profiles    \* subset of {"default", "catseq"}

VARIABLES prog, profile, env, phase, ty, shape, run
vars == <<prog, profile, env, phase, ty, shape, run>>

Expr == Programs[prog]
NoRun == Start([vars |-> <<>>, raising |-> {}])

Init ==
  /\ prog \in DOMAIN Programs
  /\ profile \in Profiles
  /\ env \in Envs
  /\ phase = "parsed"
  /\ ty = None /\ shape = None /\ run = NoRun

fold_expr ==
  /\ phase = "parsed"
  /\ ty' = Infer(Expr, Globals, profile)
  /\ phase' = CASE ty' = Error -> "rejected" [] Failed(ty') -> "panicked" [] OTHER -> "typed"
  /\ UNCHANGED <<prog, profile, env, shape, run>>

gen_expr ==
  /\ phase = "typed"
  /\ shape' = Shape(Expr, Globals)
  /\ phase' = IF Bad(shape') THEN "stopped" ELSE "generated"
  /\ UNCHANGED <<prog, profile, env, ty, run>>

Execute ==
  /\ phase = "generated"
  /\ run' = Run(Expr, Globals, Start(env))
  /\ phase' = "executed"
  /\ UNCHANGED <<prog, profile, env, ty, shape>>

Next == fold_expr \/ gen_expr \/ Execute
Spec == Init /\ [][Next]_vars

(***************************************************************************)
(* Properties.                                                             *)
(***************************************************************************)

\* Where the inferencer, or code generation on what it accepts, is known to fail.
KnownGaps == {Panic("arrays of different types"), Invalid("icmp of i1 and i8"), Invalid("element wider than the array's"),
              Panic("comparison of different types"), Panic("tuple and other"),
              Panic("tuple of arrays"), Panic("bool arrays")}

\* An expression is rejected or generated: no panic, no ill-typed instruction, and a
\* value of the LLVM type that its type has, or of i1 for a bool.
Emitted ==
  /\ phase = "panicked" => ty \in KnownGaps
  /\ phase = "stopped" => shape \in KnownGaps
  /\ phase = "generated" /\ ty # Fresh => shape \in {get_llvm_type(ty), I1} \/ IsTuple(ty)

\* The generated code does what Python does: the same value or exception after the
\* same calls with the same arguments in the same order, for every evaluation
\* without notes.
SameValue(t, a, b) == IF t \in {Bool, Fresh} THEN (a # 0) = (b # 0) ELSE a = b
SameEvaluation(py) ==
  py.notes = {} => /\ run.out = py.out
                   /\ run.log = py.log
                   /\ run.out = "ok" => SameValue(ty, run.v, py.v)
                   /\ \A x \in DOMAIN Globals : run.env.vars[x] = env.vars[x]
SameAsPython == phase = "executed" => SameEvaluation(Py(Expr, Globals, PyStart(env)))

\* The value of a constant expression by what the comment of CatSeqInt32V1 says of its
\* arithmetic (composer.rs): +, - and * wrap, // and % floor, shifts saturate.
RECURSIVE ProfileValue(_)
ProfileValue(e) ==
  LET vs == [i \in DOMAIN Operands(e) |-> ProfileValue(Operands(e)[i])]
      a == vs[1][1]
      b == IF e.op \in Shifts /\ vs[2][1] < 0 THEN Width(Int32) ELSE vs[2][1]
      defined == NoValue \notin ToSet(vs) /\ (e.op \in {"//", "%"} => b # 0)
  IN  CASE e.k = "const" /\ e.ty = Int32 -> <<e.v>>
        [] e.k = "unary" /\ e.op \in {"pos", "neg"} ->
             IF NoValue \in ToSet(vs) THEN NoValue ELSE <<PyUnary(e.op, Int32, a).v>>
        [] e.k = "bin" /\ admits_int32_binary_operator(e.op) ->
             IF defined THEN <<PyBinary(e.op, Int32, Int32, a, b).v>> ELSE NoValue
        [] OTHER -> NoValue

Divides(e) == e.k = "bin" /\ e.op \in {"//", "%"}
RECURSIVE Divisors(_)
Divisors(e) ==
  (IF Divides(e) THEN {e.r} ELSE {}) \cup UNION {Divisors(Operands(e)[i]) : i \in DOMAIN Operands(e)}

\* In the CatSeqInt32V1 profile a division is refused when, and only when, its divisor is a
\* constant whose value by the profile's arithmetic is zero (toplevel/test.rs, "a compile-time
\* proven zero divisor must be rejected").  This is about what the inferencer has folded; what
\* the generated division does is CatSeqDivides.
ZeroDivisorsRefused ==
  profile = "catseq" /\ phase # "parsed" =>
    /\ phase # "rejected" => \A d \in Divisors(Expr) : ProfileValue(d) # <<0>>
    /\ Divides(Expr) /\ (\A e \in {Expr.l, Expr.r} : Infer(e, Globals, profile) = Int32) =>
         (phase = "rejected" <=> ProfileValue(Expr.r) = <<0>>)

\* In that profile an accepted expression whose divisors are all constant never divides by
\* zero when it runs (composer.rs, "`//` and `%` retain Python floor-division semantics").
\* The code does not keep this: it truncates, so that a divisor may become 0 after it was
\* folded to another value.
CatSeqDivides ==
  (/\ phase = "executed" /\ profile = "catseq"
   /\ \A d \in Divisors(Expr) : ProfileValue(d) # NoValue
   /\ "width" \notin Py(Expr, Globals, PyStart(env)).notes)
  => run.out # "undefined"
=============================================================================
