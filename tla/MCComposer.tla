------------------------------ MODULE MCComposer ------------------------------
(***************************************************************************)
(* Small programs for the composer: hierarchies of three classes with      *)
(* overriding, constructors that call each other, generics with ranges,    *)
(* exceptions, virtual checks, the ARTIQ driver with two modules and the   *)
(* CatSeq profile; and families of them, one per body of a constructor.    *)
(***************************************************************************)
EXTENDS ComposerReference

MCParseArgument(env, locked, e) == A!parse_ast(env, locked, e)
MCResolveClass(env, e) == A!resolve_class_to_id(env, e)
MCParseInBody(env, e) == A!parse_type_annotation(env, e)
MCGetType(env, a) == A!get_type(env, a)
MCVarsContained(a) == A!get_type_var_contained(a)
MCOverloadCompatible(a, b) == A!check_overload_compatible(a, b)
MCDefaultValue(given, e) == A!parse_parameter_default_value(given, e)
MCDefaultCompatible(found, expect) == A!is_compatible(found, expect)
MCInstantiations(ranges, ty) == A!get_instantiations(ranges, ty)
MCAllAssigned(list, id, stmts, depth) == A!get_all_assigned_field(list, id, stmts, depth)

Name(n) == [k |-> "name", id |-> n]
Sub(n, args) == [k |-> "sub", of |-> Name(n), args |-> args]
Attr(m, n) == [k |-> "attr", of |-> Name(m), attr |-> n]
Const(v) == [k |-> "const", v |-> v]
int32 == Name("int32")
T == Name("T")
Value(t) == [k |-> "value", ty |-> Prim(t)]

P(n, ann) == [name |-> n, ann |-> ann]
self == P("self", Absent)
Def(n, params, ret, body) ==
  [k |-> "def", mod |-> "", name |-> n, decs |-> {}, static |-> FALSE, params |-> params, defaults |-> <<>>,
   vararg |-> Absent, other_kinds |-> FALSE, ret |-> ret, extern |-> FALSE, infers |-> TRUE, returns |-> TRUE,
   virtuals |-> {}, body |-> body]
Class(n, bases, body) == [k |-> "class", mod |-> "", name |-> n, bases |-> bases, body |-> body]
Field(n, ann) == [k |-> "ann", target |-> n, ann |-> ann, value |-> Absent]
Constant(n, ann, kind) == [k |-> "ann", target |-> n, ann |-> ann, value |-> [k |-> kind]]
Assign(n, range) == [k |-> "assign", mod |-> "", name |-> n, range |-> range, value |-> Absent]
Global(n, value) == [k |-> "assign", mod |-> "", name |-> n, range |-> <<>>, value |-> value]
Program(registry, items) == [registry |-> registry, items |-> items, auto |-> <<>>]
Plain(items) == Program("default", items)
In(mod, item) == [item EXCEPT !.mod = mod]

\* Statements of a body.
Sets(fs) == [k |-> "assign", fields |-> fs]
If(a, b) == [k |-> "if", body |-> a, orelse |-> b]
Loop(a) == [k |-> "loop", body |-> a, orelse |-> <<>>]
Call(r, m) == [k |-> "call", recv |-> r, m |-> m]
Pass == [k |-> "pass"]
Return == [k |-> "return"]
With(a) == [k |-> "with", body |-> a]
Try(a, hs, c, d) == [k |-> "try", body |-> a, handlers |-> hs, orelse |-> c, finalbody |-> d]

Init_(body) == Def("__init__", <<self>>, Absent, body)
Method_(n, body) == Def(n, <<self>>, Absent, body)

\* A has the field f, B(A) the field g; what B's constructor does varies.
Constructors == {
  <<Sets(<<"f", "g">>)>>, <<Sets(<<"g">>)>>, <<Call("A", "__init__"), Sets(<<"g">>)>>,
  <<Call("A", "__init__"), If(<<Sets(<<"g">>)>>, <<Pass>>)>>,
  <<If(<<Sets(<<"f">>), Sets(<<"g">>)>>, <<Sets(<<"g", "f">>)>>)>>,
  <<Call("self", "setup")>>, <<Call("self", "missing")>>, <<Call("A", "__init__"), With(<<Call("self", "setup")>>)>>,
  <<Loop(<<Sets(<<"f", "g">>)>>)>>, <<Try(<<Sets(<<"f", "g">>)>>, <<<<Pass>>>>, <<Sets(<<"f", "g">>)>>, <<>>)>>,
  <<Call("A", "__init__"), If(<<Call("self", "setup")>>, <<Sets(<<"g">>)>>)>>,
  <<Sets(<<"f", "g">>), Return>>, <<[k |-> "annself"]>>, <<Call("B", "__init__")>>, <<Call("other", "m")>> }
ParentConstructors == { <<Sets(<<"f">>)>>, <<Call("self", "reset")>> }
Setups == { <<Sets(<<"g">>)>>, <<Sets(<<"f", "g">>)>> }
Hierarchy(a, b, s) ==
  Plain(<<Class("A", <<>>, <<Field("f", int32), Init_(a), Method_("reset", <<Sets(<<"f">>)>>), Method_("setup", <<Pass>>)>>),
          Class("B", <<Name("A")>>, <<Field("g", int32), Init_(b), Method_("setup", s)>>)>>)

Getter(n, t, ret) == Def(n, <<self, P("x", t)>>, ret, <<Pass>>)
\* Three generations: the middle one may override m, the last one n; the constructor is inherited or not.
Chains == {Plain(<<Class("A", <<>>, <<Field("f", int32), Init_(<<Sets(<<"f">>)>>), Getter("m", int32, int32), Getter("n", int32, T2)>>),
                   Class("B", <<Name("A")>>, mid), Class("C", <<Name("B")>>, last),
                   [Def("f", <<P("c", Name("C")), P("t", Sub("tuple", <<Name("A"), int32>>))>>, Absent, <<>>)
                      EXCEPT !.virtuals = {[sub |-> Name("C"), base |-> Name("A")]}]>>) :
             T2 \in {Absent, int32},
             mid \in {<<>>, <<Getter("m", int32, int32)>>, <<Getter("m", Name("bool"), int32)>>, <<Field("g", int32)>>, <<Field("f", int32)>>},
             last \in {<<Getter("n", int32, int32)>>, <<Def("__init__", <<self, P("y", int32)>>, Absent, <<Call("A", "__init__")>>)>>,
                       <<Field("h", Name("B"))>>, <<Constant("k", int32, "constant")>>, <<Constant("k", int32, "call")>>}}

Bound == Assign("T", <<int32, Name("bool")>>)
Generics == {
  Plain(<<Bound, Assign("U", <<>>), Class("G", <<Sub("Generic", <<T, Name("U")>>)>>,
            <<Field("f", T), Init_(<<Sets(<<"f">>)>>), Getter("m", Name("U"), T)>>),
          Class("H", <<Sub("G", <<int32, Name("float")>>)>>, <<Init_(<<Call("G", "__init__")>>)>>),
          Def("use", <<P("g", Sub("G", <<T, int32>>)), P("v", Sub("virtual", <<Name("H")>>)), P("l", Sub("list", <<T>>))>>, T, <<>>)>>),
  Plain(<<Bound, Class("G", <<Sub("Generic", <<T>>)>>, <<Field("f", Name("V"))>>), Assign("V", <<>>)>>),
  Plain(<<Bound, Class("G", <<>>, <<Field("f", T)>>)>>),
  Plain(<<Bound, Class("G", <<Sub("Generic", <<T>>)>>, <<>>), Class("H", <<Name("G")>>, <<>>)>>),
  Plain(<<Bound, Class("G", <<Sub("Generic", <<T>>), Sub("Generic", <<T>>)>>, <<>>)>>),
  Plain(<<Bound, Class("G", <<Sub("Generic", <<T>>)>>, <<>>), Def("f", <<P("g", Sub("G", <<Name("float")>>))>>, Absent, <<>>)>>),
  Plain(<<Class("G", <<Sub("Generic", <<int32>>)>>, <<>>)>>),
  Plain(<<Assign("S", <<int32>>)>>),
  Plain(<<Assign("T", <<Sub("tuple", <<int32, Name("bool")>>), Sub("list", <<int32>>)>>),
          Def("f", <<P("x", T), P("o", Sub("Option", <<T>>))>>, Sub("tuple", <<T, T>>), <<>>)>>) }

Some(e) == [k |-> "Some", of |-> e]
WithDefault(ann, e) == Def("f", <<P("x", int32), P("y", ann)>>, Absent, <<>>)
Functions_ == {Plain(<<Global("N", Value("int32")), [WithDefault(d[1], d[2]) EXCEPT !.defaults = <<d[2]>>]>>) :
                 d \in {<<int32, Value("int32")>>, <<int32, Value("bool")>>, <<int32, [k |-> "global", id |-> "N"]>>,
                        <<int32, [k |-> "global", id |-> "M"]>>, <<Sub("Option", <<int32>>), [k |-> "none"]>>,
                        <<Sub("Option", <<int32>>), Some(Value("int32"))>>, <<Sub("Option", <<int32>>), Some(Value("bool"))>>,
                        <<Sub("tuple", <<int32, Name("bool")>>), [k |-> "tuple", elts |-> <<Value("int32"), Value("bool")>>]>>,
                        <<int32, [k |-> "None"]>>, <<int32, [k |-> "unsupported constant"]>>}}
  \cup {Plain(<<f>>) : f \in {
          Def("f", <<P("x", Name("f"))>>, Absent, <<>>), Def("f", <<P("x", Absent)>>, Absent, <<>>),
          Def("f", <<P("x", int32), P("x", int32)>>, Absent, <<>>), [Def("f", <<>>, int32, <<>>) EXCEPT !.returns = FALSE],
          [Def("f", <<>>, Absent, <<>>) EXCEPT !.infers = FALSE], [Def("f", <<>>, Absent, <<>>) EXCEPT !.extern = TRUE, !.infers = FALSE],
          [Def("f", <<>>, Absent, <<>>) EXCEPT !.vararg = P("xs", int32)],
          [Def("f", <<>>, Absent, <<>>) EXCEPT !.virtuals = {[sub |-> int32, base |-> Name("Exception")]}]}}
  \cup {Plain(<<Def("f", <<>>, Absent, <<>>), Def("f", <<>>, Absent, <<>>)>>),
        Plain(<<Class("A", <<>>, <<>>), Class("A", <<>>, <<>>)>>),
        Plain(<<Class("A", <<>>, <<Method_("m", <<>>), Method_("m", <<>>)>>)>>), Plain(<<[k |-> "other", mod |-> ""]>>)}

Shapes == {Plain(<<Class("A", <<>>, <<m>>)>>) : m \in {
    Def("m", <<>>, Absent, <<>>), [Def("m", <<self>>, Absent, <<>>) EXCEPT !.static = TRUE],
    [Def("m", <<P("x", int32)>>, Absent, <<>>) EXCEPT !.static = TRUE],
    [Def("m", <<P("x", int32)>>, Absent, <<>>) EXCEPT !.static = TRUE, !.vararg = P("xs", int32)], Def("m", <<P("self", int32)>>, Absent, <<>>),
    [Def("m", <<self, P("x", int32)>>, Absent, <<>>) EXCEPT !.defaults = <<Value("int32"), Value("int32")>>],
    [Def("m", <<self, P("x", int32)>>, Absent, <<>>) EXCEPT !.defaults = <<Value("int32")>>],
    Def("m", <<self, P("x", Absent)>>, Absent, <<>>), Def("m", <<self, P("x", Name("A"))>>, Name("A"), <<>>),
    Field("", int32), [k |-> "other"], [k |-> "expr"], Field("f", Name("tuple"))}}
  \cup {Plain(<<Class("A", <<>>, <<Field("f", int32), Field("f", int32)>>)>>)}

Exceptions == {
  Plain(<<Class("E", <<Name("Exception")>>, <<[k |-> "pass"]>>), Class("F", <<Name("E")>>, <<>>)>>),
  Plain(<<Class("E", <<Name("Exception")>>, <<Method_("m", <<>>)>>)>>) }
Bases == {Plain(<<Class("A", <<b>>, <<>>)>>) : b \in {int32, Name("A"), Attr("m", "C"), [k |-> "other"], Name("tuple")}}
  \cup {Plain(<<Class("A", <<>>, <<>>), Class("B", <<Name("A"), Name("A")>>, <<>>)>>)}

Kernel(t) == Sub("Kernel", <<t>>)
Invariant_(t) == Sub("KernelInvariant", <<t>>)
Auto == Name("Auto")
Artiq(items) == [Program("artiq", items) EXCEPT !.auto = <<"D", "a">> :> CustomClass(PrimId("int32"), <<>>)]
Decorated(m, d) == [m EXCEPT !.decs = {d}]
Modules == {Artiq(<<In("lib", Class("C", <<>>, <<Field("x", Kernel(int32)), Field("host", int32), Decorated(Init_(<<Sets(<<"x">>)>>), "kernel")>>)),
                    In("lib", Decorated(Def("g", <<P("x", int32)>>, Absent, <<>>), "kernel")),
                    [k |-> "import", mod |-> "main", name |-> "lib"],
                    In("main", Class("D", <<>>, <<Field("c", Invariant_(Attr("lib", "C"))), Field("a", Kernel(Auto)),
                                                  Field("l", Kernel(Sub("list", <<Auto>>))), Decorated(Method_("run", <<Pass>>), d)>>)),
                    In("main", [Decorated(Def("f", <<P("d", Name("D")), P("c", Attr("lib", "C"))>>, Absent, <<>>), "kernel")
                       EXCEPT !.virtuals = {[sub |-> Name("D"), base |-> Name("D")]}])>>) : d \in {"kernel", "rpc", "unknown"}}
  \cup {Artiq(<<In("main", Class("C", <<>>, <<Decorated(Init_(<<>>), "rpc")>>))>>)}

CatSeq == {Program("catseq", <<f>>) : f \in {
    Def("f", <<P("x", int32), P("y", Name("bool"))>>, int32, <<>>), Def("f", <<>>, int32, <<>>), Def("f", <<>>, Absent, <<>>),
    [Def("f", <<P("x", int32)>>, int32, <<>>) EXCEPT !.defaults = <<Value("int64")>>],
    [Def("f", <<>>, int32, <<>>) EXCEPT !.vararg = P("xs", int32)], [Def("f", <<>>, int32, <<>>) EXCEPT !.other_kinds = TRUE],
    Def("f", <<P("x", Name("float"))>>, int32, <<>>)}}

MCPrograms == {Hierarchy(a, b, s) : a \in ParentConstructors, b \in Constructors, s \in Setups}
              \cup Chains \cup Generics \cup Functions_ \cup Shapes \cup Exceptions \cup Bases \cup Modules \cup CatSeq
MCAnnotations == {int32, Name("A"), Name("B"), Name("G"), Name("H"), Name("C"), Name("D"), T, Name("U"), Name("Exception"), Name("f"),
                  Name("range"), Name("list"), Sub("list", <<int32>>), Sub("list", <<Name("A")>>), Sub("Option", <<T>>),
                  Sub("tuple", <<int32, Name("B")>>), Sub("virtual", <<Name("A")>>), Sub("G", <<int32, Name("float")>>),
                  Sub("G", <<Name("float"), int32>>), Sub("G", <<T>>), Sub("Literal", <<Const("one")>>), Attr("lib", "C"), Auto}
================================================================================
