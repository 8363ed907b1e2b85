----------------------------- MODULE MCBuiltins -----------------------------
(***************************************************************************)
(* Every builtin on every one and every two of the arguments below, with   *)
(* no argument, with three integers, and with some keywords.               *)
(***************************************************************************)
EXTENDS Builtins

MCBits == [int32 |-> 4, uint32 |-> 4, int64 |-> 6, uint64 |-> 6]
MCGlobals == <<>>
MCFunctions == <<>>

A(t, v) == [ty |-> t, sh |-> get_llvm_type(t), form |-> "name", v |-> v]
Computed(v) == [A(Bool, v) EXCEPT !.sh = I1]
Const(v) == [A(Int32, v) EXCEPT !.form = "const"]
Literal(v) == [A(List(Int32), v) EXCEPT !.form = "list"]
Arguments ==
  <<A(Int32, -3), A(Int32, 5), A(UInt32, 13), A(UInt32, 2), A(Int64, -20), A(UInt64, 50), A(Float, 5),
   A(Float, -3), A(Float, -40), A(Bool, 1), A(Bool, 0), Computed(1), A(Str, 0), A(Range_, <<5, -2, -3>>),
   A(Range_, <<0, 5, 2>>), A(List(Int32), <<1, 2>>), Literal(<<2, 3>>), A(List(List(Float)), <<0>>),
   A(Tuple_(<<Int32, Int32>>), <<2, 3>>), A(Tuple_(<<Int32, Float>>), <<2, 3>>), Const(3), Const(-1),
   A(ND(Int32, 1), <<2, -3, -3>>), A(ND(UInt32, 1), <<13, 2, 2>>), A(ND(Float, 1), <<5, -3, 3>>),
   A(ND(Float, 2), <<1, 2, 2>>), A(ND(Bool, 1), <<1, 0, 1>>)>>
Builtin ==
  Classes \cup DOMAIN RoundedNames \cup Creators \cup Unary1 \cup Binary2 \cup Linalg
    \cup {"range", "enumerate", "Some", "np_array", "np_full", "np_eye", "np_identity", "np_size", "np_shape",
          "np_strides", "np_transpose", "np_reshape", "np_broadcast_to", "str", "np_ceil", "np_floor", "np_round",
          "len", "min", "max", "np_min", "np_max", "np_argmin", "np_argmax", "np_minimum", "np_maximum", "abs",
          "np_isnan", "np_isinf", "np_any", "np_all"}
Kw(name, a) == [name |-> name, arg |-> a]
Num(n) == A(Int32, n)
First_ == <<Num(5), A(ND(Float, 2), <<1, 2, 2>>), A(List(Int32), <<1, 2>>), A(Float, 3)>>
Given_ == <<Num(-3), Const(3), A(Bool, 1)>>
N == DOMAIN Arguments
Numbers ==
  (Builtin \X {0} \X {0}) \cup (Builtin \X N \X ({0} \cup N))
    \cup ({"range", "np_eye", "min"} \X (-3..3) \X {-3, 0, 5} \X {-2, 0, 3})
    \cup ({"range", "np_eye", "np_array", "enumerate", "np_dot", "float", "min", "np_linalg_matrix_power"}
           \X (0..4) \X {"start", "stop", "step", "M", "k", "ndmin", "copy", "x2", "n", "power"} \X (1..3) \X {""})
    \cup ({"np_linalg_matrix_power"} \X {0} \X {"power"} \X {2} \X {"x1"})
CallOf(n) ==
  CASE Len(n) = 3 -> [fn |-> n[1], kws |-> <<>>,
                      args |-> IF n[2] = 0 THEN <<>> ELSE IF n[3] = 0 THEN <<Arguments[n[2]]>>
                               ELSE <<Arguments[n[2]], Arguments[n[3]]>>]
    [] Len(n) = 4 -> [fn |-> n[1], kws |-> <<>>, args |-> <<Num(n[2]), Num(n[3]), Num(n[4])>>]
    [] n[5] = "" -> [fn |-> n[1], kws |-> <<Kw(n[3], Given_[n[4]])>>,
                    args |-> IF n[2] = 0 THEN <<>> ELSE <<First_[n[2]]>>]
    [] OTHER -> [fn |-> n[1], args |-> <<>>, kws |-> <<Kw(n[3], Given_[n[4]]), Kw(n[5], First_[2])>>]
MCCalls == [n \in Numbers |-> CallOf(n)]
=============================================================================
