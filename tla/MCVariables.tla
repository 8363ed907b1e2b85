------------------------------ MODULE MCVariables ------------------------------
(***************************************************************************)
(* Bodies over the locals x (an object), n (an int), i and e, in a module  *)
(* with the objects A and B, the int g, the exception class E, its         *)
(* instance h and the context manager cm: a start, a compound statement    *)
(* whose blocks are every choice of two statements, and an end; and a list *)
(* of bodies with the statements that have no place in those.              *)
(***************************************************************************)
EXTENDS Variables

MCHostType == [A |-> Obj("C"), B |-> Obj("C"), g |-> Int32, E |-> <<"exc">>, h |-> <<"exc">>,
               cm |-> <<"cm", Obj("C")>>, C |-> <<"constructor", Obj("C")>>, M |-> <<"module", "M">>]
MCHostValue == [A |-> <<"obj", "A">>, B |-> <<"obj", "B">>, g |-> IntV(1), E |-> <<"class", "E">>,
                h |-> <<"host exc">>, cm |-> <<"cm", <<"obj", "B">>>>, C |-> <<"class", "C">>, M |-> <<"module", "M">>]
MCFieldsOf ==
  (Obj("C") :> [k |-> [ty |-> Int32, kind |-> "immutable"], m |-> [ty |-> Int32, kind |-> "mutable"],
                c |-> [ty |-> Int32, kind |-> "class"]])
  @@ (<<"module", "M">> :> [w |-> [ty |-> Int32, kind |-> "immutable"]])
MCSymbols == <<"module", "M">> :> [v |-> Int32]
MCKnownField == (<<"obj", "A">> :> [k |-> IntV(1), c |-> IntV(7)]) @@ (<<"obj", "B">> :> [k |-> IntV(2), c |-> IntV(7)])
                @@ (<<"class", "C">> :> [c |-> IntV(7)]) @@ (<<"module", "M">> :> [w |-> IntV(3), v |-> IntV(4)])
MCHeapStart == (<<"obj", "A">> :> IntV(5)) @@ (<<"obj", "B">> :> IntV(6))
MCReturns == {NoReturn, Int32}

Name(id) == [k |-> "name", id |-> id, kids |-> <<>>]
Node(k, kids) == [k |-> k, kids |-> kids]
Num(i) == [k |-> "const", ty |-> Int32, v |-> IntV(i), kids |-> <<>>]
x == Name("x")  n == Name("n")  i_ == Name("i")  e_ == Name("e")
Attr(v, attr) == [k |-> "attr", attr |-> attr, kids |-> <<v>>]
Coin == Node("coin", <<>>)
Assign(t, v) == [k |-> "assign", targets |-> <<t>>, value |-> v]
Use(v) == [k |-> "expr", value |-> Node("use", <<v>>)]
Return(v) == [k |-> "return", value |-> v]
Raise == [k |-> "raise", exc |-> Name("E")]
Simple(k) == [k |-> k]
Inc == Assign(n, Node("add", <<n, Num(1)>>))
If(b, o) == [k |-> "if", test |-> Coin, body |-> b, orelse |-> o]
While(t, b, o) == [k |-> "while", test |-> t, body |-> b, orelse |-> o]
For(t, it, b, o) == [k |-> "for", target |-> t, iter |-> it, body |-> b, orelse |-> o]
Handler(name, b) == [type |-> "E", name |-> name, body |-> b, slot |-> 0]
Try(b, hs, o, f) == [k |-> "try", body |-> b, handlers |-> hs, orelse |-> o, finalbody |-> f, raised |-> f]
With(v, b) == [k |-> "with", item |-> Name("cm"), var |-> v, body |-> b]

Goes == {Assign(x, Name("B")), Use(x), Inc, Assign(n, Attr(x, "k")), Assign(Attr(x, "m"), n)}
Ends == {Return(n), Raise}
Leaves == Ends \cup {Simple("break"), Simple("continue")}
Blocks(ends) == {<<a>> : a \in Goes \cup ends} \cup {<<a, b>> : a \in Goes, b \in Goes \cup ends}
Others == {<<>>, <<Assign(x, Name("A"))>>, <<Use(x)>>, <<Inc>>, <<Return(n)>>, <<Raise>>}

Objects == Node("list", <<Name("A"), Name("B")>>)
Loops(b, o) == {While(Node("less", <<n, Num(2)>>), b, o), While(Coin, b, o), For(i_, Node("range", <<Num(2)>>), b, o),
                For(x, Objects, b, o), For(Node("tuple", <<i_, x>>), Node("enumerate", <<Objects>>), b, o)}
Compounds ==
  UNION {Loops(b, o) : b \in Blocks(Leaves), o \in Others}
  \cup {If(b, o) : b \in Blocks(Ends), o \in Others}
  \cup {Try(b, <<Handler("e", o)>>, <<>>, <<>>) : b \in Blocks(Ends), o \in Others \ {<<>>}}
  \cup {Try(b, <<>>, <<>>, o) : b \in Blocks(Ends), o \in Others \ {<<>>}}
  \cup {With(v, b) : b \in Blocks(Ends), v \in {NoExpr, x}}

Starts == {<<>>, <<Assign(x, Name("A"))>>, <<Assign(n, Name("g"))>>, <<Assign(x, Name("A")), Assign(n, Num(1))>>,
           <<Assign(n, Name("g")), Assign(x, Name("A"))>>}
Finals == {<<>>, <<Use(x)>>, <<Use(Attr(x, "m"))>>, <<Use(n)>>, <<Return(n)>>}

Pair(a, b) == Node("tuple", <<a, b>>)
Star(p) == Node("star", <<p>>)
Ints(k) == Node("list", [j \in 1..k |-> Num(j)])
Unpackings ==
  {<<Assign(Pair(a, b), v), Use(x), Use(n)>>
     : a, b \in {x, n, Star(x), Star(n)}, v \in {Pair(Num(1), Num(2)), Ints(1), Ints(2), Ints(3),
                                                 Node("tuple", <<Num(1), Num(2), Num(3)>>), Node("tuple", <<Num(1)>>)}}
Others_ ==
  {<<Assign(Attr(o, a), Num(9)), Use(Attr(o, a))>> : o \in {Name("A"), Name("C"), Name("M"), Name("g")}, a \in {"k", "m", "c", "w", "v", "z"}}
  \cup {<<Use(Attr(o, a))>> : o \in {Name("A"), Name("C"), Name("M"), Name("g")}, a \in {"k", "m", "c", "w", "v", "z"}}
  \cup
  {<<[k |-> "aug", target |-> n, value |-> Num(1)], Use(n)>>,
   <<If(<<Assign(n, Num(1))>>, <<>>), [k |-> "aug", target |-> n, value |-> Num(1)], Use(n)>>,
   <<Assign(n, Num(1)), [k |-> "aug", target |-> n, value |-> Num(1)], Use(n)>>,
   <<[k |-> "assert", test |-> Node("less", <<Name("g"), Num(2)>>)], Use(Name("g"))>>,
   <<[k |-> "annassign", target |-> n, ann |-> Int32, value |-> Num(1)], Use(n)>>,
   <<[k |-> "annassign", target |-> n, ann |-> Bool, value |-> Num(1)], Use(n)>>,
   <<[k |-> "annassign", target |-> n, ann |-> Int32, value |-> n], Use(n)>>,
   <<[k |-> "annassign", target |-> x, ann |-> Obj("C"), value |-> Attr(x, "k")], Use(x)>>,
   <<With(x, <<Use(Attr(x, "c"))>>)>>, <<With(x, <<Assign(Attr(x, "k"), Num(1))>>)>>,
   <<With(x, <<Assign(n, Attr(x, "k")), Assign(n, Name("A"))>>), Use(n)>>,
   <<With(x, <<Assign(n, Attr(x, "m")), Inc, Assign(Attr(x, "m"), n)>>), Use(n), Use(Attr(x, "m"))>>,
   <<Simple("global")>>, <<Simple("pass"), Simple("delete")>>,
   <<Assign(e_, Name("h")), Try(<<Simple("pass")>>, <<Handler("e", <<Use(e_)>>)>>, <<>>, <<>>), Use(e_)>>,
   <<Try(<<Raise>>, <<Handler("e", <<Use(e_), [k |-> "raise", exc |-> NoExpr]>>)>>, <<>>, <<Use(Name("g"))>>)>>,
   <<Try(<<Raise>>, <<Handler("e", <<[k |-> "raise", exc |-> e_]>>)>>, <<>>, <<>>)>>,
   <<Try(<<If(<<Raise>>, <<>>)>>, <<Handler("", <<>>)>>, <<Use(Name("g"))>>, <<>>)>>,
   <<[k |-> "raise", exc |-> NoExpr]>>,
   <<Assign(Name("xs"), Ints(2)), Assign(Node("getitem", <<Name("xs"), Num(0)>>), Num(5)),
     Use(Node("getitem", <<Name("xs"), Num(0)>>))>>,
   <<Assign(x, Pair(Num(1), Num(2))), Use(Node("getitem", <<x, Num(1)>>))>>,
   <<Assign(x, Pair(Num(1), Num(2))), Assign(Node("getitem", <<x, Num(0)>>), Num(5)), Use(x)>>,
   <<Assign(x, Node("use", <<Name("g")>>))>>, <<Return(NoExpr)>>, <<Assign(Name("x"), n)>>,
   <<For(i_, Name("g"), <<Use(i_)>>, <<>>)>>, <<With(x, <<With(NoExpr, <<Use(x)>>)>>)>>,
   <<If(<<While(Coin, <<Assign(n, Num(1)), Use(n)>>, <<>>), Return(Num(1))>>, <<Raise>>)>>,
   <<Assign(x, Name("A")), If(<<If(<<Assign(x, Name("B"))>>, <<Use(x)>>)>>, <<Use(x)>>), Use(x)>>,
   <<Assign(x, Name("A")), If(<<Assign(x, Name("B")), If(<<Use(x)>>, <<>>)>>, <<Use(x)>>), Use(x)>>}

MCPrograms == {s \o <<c>> \o f : s \in Starts, c \in Compounds, f \in Finals} \cup Unpackings \cup Others_
=============================================================================
