------------------------------ MODULE Builtins ------------------------------
(***************************************************************************)
(* A call of a builtin function: typed, generated, executed, and what the  *)
(* interpreter of the demos (nac3standalone/demo/interpret_demo.py) gives  *)
(* for it.                                                                 *)
(***************************************************************************)
EXTENDS BuiltinLowering

CONSTANTS Calls      \* name -> call: [fn, args, kws]
VARIABLES call, phase, ty, out
vars == <<call, phase, ty, out>>

Init == (\E n \in DOMAIN Calls : call = Calls[n]) /\ phase = "parsed" /\ ty = None /\ out = ShapeOnly(None)

FoldCall ==
  /\ phase = "parsed"
  /\ LET f == try_fold_special_call(call)
     IN  /\ ty' = f.ty
         /\ phase' = CASE f.ty = Error -> "rejected" [] Bad(f.ty) -> "panicked" [] OTHER -> "typed"
         /\ call' = [call EXCEPT !.kws = f.kws]
  /\ UNCHANGED out

\* An integer constant of int64, uint32 and uint64 is typed as the constant it is.
GenCallExpr ==
  /\ phase = "typed"
  /\ LET folded == call.fn \in {"int64", "uint32", "uint64"} /\ call.args[1].form = "const"
         args == call.args \o [k \in DOMAIN call.kws |-> call.kws[k].arg]
     IN  out' = IF folded THEN Val(get_llvm_type(ty), call.args[1].v) ELSE gen_builtin(call.fn, args, call.kws)
  /\ phase' = IF Bad(out'.sh) THEN "stopped" ELSE "generated"
  /\ UNCHANGED <<call, ty>>

Next == FoldCall \/ GenCallExpr
Spec == Init /\ [][Next]_vars

(***************************************************************************)
(* The interpreter.                                                        *)
(***************************************************************************)
\* A float is converted when it fits the width, signed or unsigned.
Representable(n, t) == LET m == 2 ^ Bits[t[1]] IN -(m \div 2) <= n /\ n < m
HostScalar(fn, a) ==
  LET n == IF a.ty = Float THEN Trunc(a.v) ELSE a.v
  IN  CASE fn \in {"int32", "int64", "uint32", "uint64"} ->
             IF a.ty = Float /\ ~Representable(n, ConversionTarget(fn)) THEN Poison
             ELSE Wrapped(n, ConversionTarget(fn))
        [] fn = "float" -> IF a.ty = Float THEN a.v ELSE 2 * a.v
        [] fn = "bool" -> IF a.v = 0 THEN 0 ELSE 1
        [] fn \in {"round", "round64"} -> IF a.v < 0 THEN Up(a.v - 1) ELSE Down(a.v + 1)
        [] fn \in {"floor", "floor64"} -> CHOOSE k \in -50..50 : 2 * k <= a.v /\ a.v < 2 * k + 2
        [] fn \in {"ceil", "ceil64"} -> CHOOSE k \in -50..50 : 2 * k >= a.v /\ a.v > 2 * k - 2
        [] fn = "np_floor" -> a.v - (a.v % 2)
        [] fn = "np_ceil" -> a.v + (a.v % 2)
        [] fn = "np_round" -> CHOOSE h \in {2 * k : k \in -50..50} :
             /\ h - a.v \in -1..1
             /\ h - a.v \in {-1, 1} => h % 4 = 0
        [] fn = "abs" -> IF a.v < 0 THEN -a.v ELSE a.v

Converts == Classes \cup DOMAIN RoundedNames \cup {"np_floor", "np_ceil", "np_round", "abs"}
Least(S) == CHOOSE x \in S : \A y \in S : x <= y
Most(S) == CHOOSE x \in S : \A y \in S : x >= y
Values(a) == IF IsND(a.ty) THEN a.v ELSE <<a.v>>
First(s, x) == CHOOSE i \in DOMAIN s : s[i] = x /\ \A j \in DOMAIN s : s[j] = x => i <= j
Host(fn, args) ==
  LET a == args[1]
      s == Values(a)
      pick(S) == IF fn \in {"min", "np_minimum", "np_min", "np_argmin"} THEN Least(S) ELSE Most(S)
      all == {s[i] : i \in DOMAIN s}
  IN  CASE fn \in Converts ->
             IF IsND(a.ty) THEN [i \in DOMAIN a.v |-> HostScalar(fn, Elements(a)[i])] ELSE HostScalar(fn, a)
        [] fn \in {"min", "max"} -> pick({a.v, args[2].v})
        [] fn \in {"np_minimum", "np_maximum"} ->
             IF IsND(a.ty) \/ IsND(args[2].ty)
             THEN LET t == Values(args[2])
                      n == IF IsND(a.ty) THEN Len(s) ELSE Len(t)
                      at(q, i) == IF Len(q) = 1 THEN q[1] ELSE q[i]
                  IN  [i \in 1..n |-> pick({at(s, i), at(t, i)})]
             ELSE pick({a.v, args[2].v})
        [] fn \in {"np_min", "np_max"} -> pick(all)
        [] fn \in {"np_argmin", "np_argmax"} -> First(s, pick(all)) - 1
        [] fn = "np_any" -> IF all = {0} THEN 0 ELSE 1
        [] fn = "np_all" -> IF 0 \in all THEN 0 ELSE 1
        [] fn = "len" ->
             IF a.ty # Range_ THEN Len(a.v)
             ELSE Cardinality({x \in -50..50 :
                    \E k \in 0..50 : x = a.v[1] + k * a.v[3] /\ IF a.v[3] > 0 THEN x < a.v[2] ELSE x > a.v[2]})
        [] fn = "range" -> IF Len(args) = 1 THEN <<0, a.v, 1>>
                           ELSE IF Len(args) = 2 THEN <<a.v, args[2].v, 1>>
                           ELSE IF args[3].v = 0 THEN <<"ValueError">> ELSE <<a.v, args[2].v, args[3].v>>
        [] fn = "np_eye" -> IF Len(args) = 1 THEN <<a.v, a.v>> ELSE <<a.v, args[2].v>>
        [] fn = "np_identity" -> <<a.v, a.v>>
Emulated == Converts \cup {"min", "max", "np_minimum", "np_maximum", "np_min", "np_max", "np_argmin",
                           "np_argmax", "np_any", "np_all", "len", "range", "np_eye", "np_identity"}

(***************************************************************************)
(* Properties.                                                             *)
(***************************************************************************)
InSignature == Fits(build_builtin_of_prim(call.fn), call)

\* The signature in builtins.rs, which most special calls never look at, is what the
\* generated code relies on: a call by position whose arguments fit it never stops
\* the compiler and has the LLVM type of its type.  Left out: two bools of which one
\* was computed and one loaded, the product of matrices by np_dot, arrays of scalars.
KnownGaps == {Invalid("i1 and i8"), Panic("dot of matrices"), Panic("array of a scalar")}
SignatureSuffices ==
  InSignature /\ call.kws = <<>> =>
    /\ phase # "panicked"
    /\ phase = "stopped" => out.sh \in KnownGaps
    /\ phase = "generated" => out.sh = get_llvm_type(ty) \/ (ty = Bool /\ out.sh = I1)

\* A call by position gives what the demos' interpreter gives, wherever its result
\* fits its type, except that float() of a computed bool is -1 and that np_eye does
\* not see a second positional argument.
Exempt ==
  \/ call.fn = "float" /\ call.args[1].sh = I1
  \/ call.fn = "np_eye" /\ Len(call.args) > 1
  \/ call.fn \in {"min", "max", "np_minimum", "np_maximum"} /\ I1 \in {call.args[1].sh, call.args[2].sh}
Fitting(v, t) == v # Poison /\ (t \in Ints => InRange(v, t))
SameAsHost ==
  phase = "generated" /\ InSignature /\ call.kws = <<>> /\ call.fn \in Emulated /\ ~Exempt =>
    LET v == Host(call.fn, call.args)
    IN  (IF IsND(ty) THEN call.fn \in {"np_eye", "np_identity"} \/ \A i \in DOMAIN v : Fitting(v[i], ty[2])
         ELSE ty \in Ints => Fitting(v, ty)) => out.v = v
=============================================================================
