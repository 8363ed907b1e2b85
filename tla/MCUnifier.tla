----------------------------- MODULE MCUnifier -----------------------------
(* Programs for Unifier: the types registered, in the order of their keys. *)
EXTENDS UnifierReference

Field(ty) == [ty |-> ty, mutable |-> FALSE]
MutableField(ty) == [ty |-> ty, mutable |-> TRUE]
Arg(name, ty) == [name |-> name, ty |-> ty, required |-> TRUE, vararg |-> FALSE]
DefaultArg(name, ty) == [Arg(name, ty) EXCEPT !.required = FALSE]
Call(posargs, kwargs, ret, fun) ==
    [posargs |-> posargs, kwargs |-> kwargs, ret |-> ret, fun |-> fun, operator |-> FALSE]
NoKeywords == [k \in {} |-> None]

Prim(id) == TObj(id, <<>>, NoFields)
Var(id) == TVar(id, FALSE, <<>>)
ListOf(k) == TObj("list", <<k>>, NoFields)

\* Variables, lists and tuples.
FirstOrder ==
    [types |-> <<Var(1), Var(2), Prim("int32"), Prim("float"), ListOf(1), ListOf(2),
                 TTuple(<<1, 3>>, FALSE), TTuple(<<4, 2>>, FALSE), TRigidVar(9),
                 Var(10), Var(11), TTuple(<<1, 10, 1, 11, 3>>, FALSE), TTuple(<<2, 11, 10, 2, 4>>, FALSE)>>,
     calls |-> <<>>,
     pairs |-> {<<1, 3>>, <<1, 2>>, <<4, 2>>, <<5, 6>>, <<6, 5>>, <<7, 8>>, <<1, 5>>, <<2, 7>>, <<9, 2>>, <<12, 13>>}]

\* Attributes used on variables before their objects are known: x.f, x.f = .., x[0], x[-1].
Attributes ==
    [types |-> <<Var(1), Var(2), Prim("int32"), Prim("float"),
                 TRecord(5, Str("f") :> Field(1)), TRecord(6, Str("f") :> MutableField(2)),
                 TObj("A", <<>>, Str("f") :> MutableField(3)), TObj("B", <<>>, Str("f") :> Field(4)),
                 TRecord(9, Int_(-1) :> Field(1)), TTuple(<<3, 4>>, FALSE), ListOf(2)>>,
     calls |-> <<>>,
     pairs |-> {<<5, 6>>, <<5, 7>>, <<8, 5>>, <<6, 7>>, <<6, 8>>, <<1, 3>>, <<9, 10>>, <<11, 9>>, <<2, 4>>}]

\* A call of f(x: int32, y: float = ..) -> int32 with a keyword, one with too few arguments, and
\* a call through a parameter whose function is not known yet.
Calls ==
    [types |-> <<Var(1), Var(2), Prim("int32"), Prim("float"), Var(5), Var(6),
                 TFunc(<<Arg("x", 3), DefaultArg("y", 4)>>, 3, <<>>),
                 TCall(<<1>>), TCall(<<2>>), Var(10), Var(11), TFunc(<<Arg("h", 7)>>, 1, <<>>), TCall(<<3>>)>>,
     calls |-> <<Call(<<1>>, "y" :> 2, 5, 10), Call(<<>>, "y" :> 2, 1, 11), Call(<<6>>, NoKeywords, 2, 11)>>,
     pairs |-> {<<6, 8>>, <<6, 9>>, <<6, 7>>, <<7, 8>>, <<1, 4>>, <<1, 3>>, <<12, 13>>, <<2, 4>>, <<5, 3>>}]

\* Variables with ranges, and a list of one.
Ranges ==
    [types |-> <<Prim("int32"), Prim("float"), Prim("bool"), TVar(4, TRUE, <<1, 2>>), TVar(5, FALSE, <<3, 2>>),
                 ListOf(4), ListOf(5), TVar(8, FALSE, <<1, 2, 3>>), Var(9), TVar(10, FALSE, <<1>>),
                 TTuple(<<4, 1>>, FALSE), TTuple(<<5, 2>>, FALSE)>>,
     calls |-> <<>>,
     pairs |-> {<<4, 5>>, <<5, 4>>, <<6, 7>>, <<4, 1>>, <<3, 5>>, <<8, 4>>, <<9, 8>>, <<9, 2>>, <<10, 4>>, <<8, 10>>, <<11, 12>>}]

\* def f(x: T, l: list[T]) -> list[T], called with int32 and with float, directly and through a
\* variable, and a result that is used as something else.
Polymorphic ==
    [types |-> <<Prim("int32"), Prim("float"), TVar(3, TRUE, <<>>), ListOf(3),
                 TFunc(<<Arg("x", 3), Arg("l", 4)>>, 4, <<[id |-> 3, ty |-> 3]>>),
                 Var(6), Var(7), Var(8), Var(9), Var(10), TCall(<<1>>), TCall(<<2>>), ListOf(1), Var(14)>>,
     calls |-> <<Call(<<1, 13>>, NoKeywords, 7, 9), Call(<<2, 14>>, NoKeywords, 8, 10)>>,
     pairs |-> {<<6, 11>>, <<6, 12>>, <<6, 5>>, <<5, 11>>, <<12, 5>>, <<7, 13>>, <<8, 13>>, <<14, 13>>}]

\* class V has `def __add__(self, other: V) -> float`, and the program adds two of them.
Operator ==
    [types |-> <<Prim("float"), TObj("V", <<>>, Str("__add__") :> Field(3)), TFunc(<<Arg("other", 2)>>, 1, <<>>),
                 Var(4), TCall(<<1>>), TRecord(6, Str("__add__") :> Field(5))>>,
     calls |-> <<[Call(<<2>>, NoKeywords, 2, 4) EXCEPT !.operator = TRUE]>>,
     pairs |-> {<<2, 6>>}]

OperatorPrograms == {Operator}
AllPrograms == {FirstOrder, Attributes, Calls, Ranges, Polymorphic}
=============================================================================
