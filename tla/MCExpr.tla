------------------------------- MODULE MCExpr -------------------------------
(***************************************************************************)
(* The expressions of the run: every operator on operands that are names,  *)
(* constants, calls, and expressions of their own.                         *)
(***************************************************************************)
EXTENDS Expressions

MCBits == [int32 |-> 4, uint32 |-> 4, int64 |-> 5, uint64 |-> 5, i8 |-> 2]
MCGlobals == [i |-> Int32, j |-> Int32, u |-> UInt32, l |-> Int64, x |-> Float, y |-> Float,
              p |-> Bool, s |-> Str, xs |-> List(Int32), ys |-> List(Bool),
              t |-> Tuple_(<<Int32, Float>>), a |-> ND(Int32, 1), b |-> ND(Float, 1),
              c |-> ND(Bool, 1), d |-> ND(Float, 2)]
Param(name, t, default) == [name |-> name, ty |-> t, default |-> default]
MCFunctions ==
  [f |-> [params |-> <<Param("m", Int32, <<>>), Param("n", Int32, <<2>>)>>, ret |-> Int32, value |-> 3],
   g |-> [params |-> <<Param("m", Bool, <<>>), Param("n", Float, <<>>)>>, ret |-> Bool, value |-> 1],
   obj |-> [params |-> <<>>, ret |-> Int32, value |-> 1]]

Vars(i, j, u, x, p, xs) ==
  [i |-> i, j |-> j, u |-> u, l |-> i, x |-> x, y |-> <<2, 1>>, p |-> p, s |-> <<"text", 1>>, xs |-> xs,
   ys |-> <<p, 1>>, t |-> <<j, x>>, a |-> j, b |-> x, c |-> p, d |-> x]
MCEnvs ==
  {[vars |-> Vars(7, 2, 5, <<3, 2>>, 1, <<1, 0, 4>>), raising |-> {}],
   [vars |-> Vars(-8, -1, 0, <<-1, 1>>, 0, <<2>>), raising |-> {"f"}],
   [vars |-> Vars(0, 3, 9, <<0, 1>>, 1, <<>>), raising |-> {"g"}]}

Name(id) == [k |-> "name", id |-> id]
Const(t, v) == [k |-> "const", ty |-> t, v |-> v]
Num(v) == Const(Int32, v)
Bin(op, l, r) == [k |-> "bin", op |-> op, l |-> l, r |-> r]
Unary(op, e) == [k |-> "unary", op |-> op, e |-> e]
Cmp(ops, es) == [k |-> "cmp", ops |-> ops, es |-> es]
BoolOp(op, es) == [k |-> "bool", op |-> op, es |-> es]
IfExp(test, body, orelse) == [k |-> "if", test |-> test, body |-> body, orelse |-> orelse]
Seq_(k, es) == [k |-> k, es |-> es]
Sub(e, key) == [k |-> "sub", e |-> e, key |-> key]
CallWith(fn, recv, args, kw) == [k |-> "call", fn |-> fn, recv |-> recv, args |-> args, kw |-> kw]
CallF(args) == CallWith("f", <<>>, args, <<>>)
Kw(name, e) == [name |-> name, e |-> e]
Comp(elt, target, iter, ifs) == [k |-> "comp", elt |-> elt, target |-> target, iter |-> iter, ifs |-> ifs]

Operand ==
  <<Name("i"), Name("j"), Name("u"), Name("l"), Name("x"), Name("y"), Name("p"), Name("s"),
    Name("xs"), Name("ys"), Name("t"), Name("a"), Name("b"), Name("c"), Name("d"), Num(2),
    Num(8), Const(Bool, 1), CallF(<<Name("i")>>), CallWith("g", <<>>, <<Name("p"), Name("x")>>, <<>>),
    Bin("-", Name("i"), Num(3)), Bin("/", Name("i"), Name("j")), Bin("<<", Name("u"), Name("j")),
    Bin("**", Name("i"), Num(2)), Unary("neg", Num(1)), Unary("not", Name("i")),
    Cmp(<<"<">>, <<Name("i"), Name("j")>>), Cmp(<<"==">>, <<Name("xs"), Name("xs")>>),
    BoolOp("and", <<Name("p"), Cmp(<<"!=">>, <<Name("i"), Num(0)>>)>>),
    IfExp(Name("p"), Name("i"), CallF(<<Num(1)>>)), Seq_("list", <<Name("i"), Num(2)>>),
    Seq_("tuple", <<Name("i"), Name("y")>>), Seq_("tuple", <<Name("p"), Cmp(<<"<">>, <<Name("i"), Name("j")>>)>>),
    Sub(Name("xs"), Name("j")), Sub(Name("t"), Num(0)), Bin("//", Unary("neg", Num(1)), Num(2)),
    Bin("%", Name("i"), Num(3)), Bin("+", Bin("//", Unary("neg", Num(1)), Num(2)), Num(1))>>
Small == <<Name("i"), Name("j"), Name("p"), Name("x"), CallF(<<Name("j")>>), Name("c"), Name("ys"),
           CallWith("g", <<>>, <<Cmp(<<"==">>, <<Name("ys"), Name("ys")>>), Name("x")>>, <<>>),
           Cmp(<<"<=">>, <<Name("i"), Num(2)>>), Name("t")>>
Operators == <<"+", "-", "*", "/", "//", "%", "**", "<<", ">>", "&", "|", "^", "@">>
Comparisons == <<"<", "==", "!=", ">=", "in">>
UnaryOperators == <<"pos", "neg", "~", "not">>
Obj == CallWith("obj", <<>>, <<>>, <<>>)
Iterables == <<Name("xs"), Name("ys"), Seq_("range", <<Num(0), Num(3), Num(1)>>),
               Seq_("range", <<Num(0), Name("i"), Num(2)>>), Seq_("range", <<Name("i"), Name("j"), Unary("neg", Num(2))>>),
               Seq_("range", <<Num(1), Num(2), Name("j")>>), Name("x"), CallF(<<Name("i")>>)>>

\* The operands of constant divisors; the parser makes a constant of a negated literal.
Constants == <<Num(0), Num(1), Num(2), Num(7), Num(-1), Num(-2), Num(-8)>>

O(k) == Operand[k]   S(k) == Small[k]
N == 1..Len(Operand)   M == 1..Len(Small)
Expression(n) ==
  CASE n[1] = "bin" -> Bin(Operators[n[2]], O(n[3]), O(n[4]))
    [] n[1] = "divisor" -> Bin(<<"//", "%">>[n[2]], Name("i"), Bin(Operators[n[3]], Constants[n[4]], Constants[n[5]]))
    [] n[1] = "unary" -> Unary(UnaryOperators[n[2]], O(n[3]))
    [] n[1] = "cmp" -> Cmp(<<Comparisons[n[2]]>>, <<O(n[3]), O(n[4])>>)
    [] n[1] = "chain" -> Cmp(<<"<", Comparisons[n[2]]>>, <<S(n[3]), S(n[4]), S(n[5])>>)
    [] n[1] = "bool" -> BoolOp(<<"and", "or">>[n[2]], <<S(n[3]), S(n[4])>>)
    [] n[1] = "bool3" -> BoolOp("and", <<S(3), S(n[2]), S(n[3])>>)
    [] n[1] = "if" -> IfExp(S(n[2]), S(n[3]), S(n[4]))
    [] n[1] = "sub" -> Sub(O(n[2]), O(n[3]))
    [] n[1] = "seq" -> Seq_(<<"list", "tuple">>[n[2]], <<S(n[3]), S(n[4])>>)
    [] n[1] = "call" -> CallWith(<<"f", "g">>[n[2]], <<>>, <<S(n[3]), S(n[4])>>, <<>>)
    [] n[1] = "keyword" -> CallWith("f", <<>>, <<S(n[2])>>, <<Kw("n", S(n[3]))>>)
    [] n[1] = "keywords" -> CallWith("g", <<>>, <<>>, <<Kw("n", S(n[2])), Kw("m", S(n[3]))>>)
    [] n[1] = "twice" -> CallWith("f", <<>>, <<S(n[2])>>, <<Kw("m", S(n[3]))>>)
    [] n[1] = "method" -> CallWith("f", <<Obj>>, <<S(n[2])>>, <<>>)
    [] n[1] = "comp" -> Comp(<<Name("k"), Bin("+", Name("k"), Name("i")), CallF(<<Name("k")>>),
                               Cmp(<<"<">>, <<Name("k"), Name("j")>>)>>[n[2]],
                             <<"k", "i">>[n[3]], Iterables[n[4]],
                             <<<<>>, <<Cmp(<<"!=">>, <<Name("i"), Num(7)>>)>>, <<Name("i")>>>>[n[5]])
Numbers ==
  ({"bin"} \X (1..13) \X N \X N) \cup ({"unary"} \X (1..4) \X N) \cup ({"cmp"} \X (1..5) \X N \X N)
    \cup ({"chain"} \X (1..2) \X M \X M \X M) \cup ({"bool"} \X (1..2) \X M \X M)
    \cup ({"bool3", "keyword", "keywords", "twice"} \X M \X M) \cup ({"if"} \X M \X M \X M)
    \cup ({"sub"} \X N \X N) \cup ({"seq", "call"} \X (1..2) \X M \X M) \cup ({"method"} \X M)
    \cup ({"comp"} \X (1..4) \X (1..2) \X (1..8) \X (1..3))
    \cup ({"divisor"} \X (1..2) \X (1..11) \X (1..7) \X (1..7))
MCPrograms == [n \in Numbers |-> Expression(n)]

\* Divisions by an operator on two constants, the programs that violate CatSeqDivides.
MCDivisions == [n \in {m \in Numbers : m[1] = "divisor"} |-> Expression(n)]
=============================================================================
