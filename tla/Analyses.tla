-------------------------------- MODULE Analyses --------------------------------
(***************************************************************************)
(* The analyses that recur over the syntax of a program, which the         *)
(* composer calls: the kind of an annotation, its type variables, its type *)
(* (toplevel/type_annotation.rs) and the other parser of annotations       *)
(* (symbol_resolver.rs), the values of default parameters, the instances   *)
(* of a type, and the fields that a constructor assigns.  `env` is what a  *)
(* parse looks at (Env of Composer).                                       *)
(***************************************************************************)
EXTENDS TypeAnnotations

(***************************************************************************)
(* type_annotation.rs                                                      *)
(***************************************************************************)
RECURSIVE get_type_var_contained(_)
get_type_var_contained(a) ==
  CASE a[1] \in {"tvar", "auto"} -> {a}
    [] a[1] = "virtual" -> get_type_var_contained(a[2])
    [] a[1] = "class" -> UNION {get_type_var_contained(p) : p \in Range(a[3])}
    [] a[1] = "tuple" -> UNION {get_type_var_contained(p) : p \in Range(a[2])}
    [] OTHER -> {}

\* `m.C`: the attribute is looked up by the resolver of the module.
RECURSIVE resolve_class_to_id(_, _)
resolve_class_to_id(env, e) ==
  CASE e.k = "name" -> IF e.id \in DOMAIN env.ids THEN <<"id", env.ids[e.id]>> ELSE Error
    [] e.k = "attr" ->
         LET m == resolve_class_to_id(env, e.of)
         IN IF Failed(m) THEN m
            ELSE IF m[2] \notin DOMAIN env.defs THEN Error
            ELSE IF env.defs[m[2]].k # "module" THEN Panic
            ELSE IF e.attr \in DOMAIN env.defs[m[2]].scope THEN <<"id", env.defs[m[2]].scope[e.attr]>> ELSE Error
    [] OTHER -> Error

RECURSIVE parse_ast(_, _, _)
ParsedArguments(env, locked, e, resolved, parts, params) ==
  AnnotationOf(env, locked, e, resolved, parts, params, UNION {get_type_var_contained(p) : p \in Range(params)})
ResolvedAnnotation(env, locked, e, resolved) ==
  ParsedArguments(env, locked, e, resolved, [i \in DOMAIN e.args |-> parse_ast(env, locked, e.args[i])],
    [i \in DOMAIN e.args |-> parse_ast(env, WithClass(env, locked, ClassNamed(env, e, resolved)[2]), e.args[i])])
parse_ast(env, locked, e) == ResolvedAnnotation(env, locked, e, resolve_class_to_id(env, IF e.k = "attr" THEN e ELSE e.of))

\* unify(fresh variable with the range, p) succeeds.
Compatible(env, range, p) ==
  \/ range = <<>> \/ p[1] = "auto"
  \/ p \in Range(range)
  \/ p[1] = "tvar" /\ (env.tvars[p[2]] = <<>> \/ Range(env.tvars[p[2]]) \cap Range(range) # {})

RECURSIVE get_type(_, _)
get_type(env, a) ==
  CASE a[1] = "class" ->
         LET def == env.defs[a[2]]
             tys == [i \in DOMAIN a[3] |-> get_type(env, a[3][i])]
         IN IF Len(def.type_vars) # Len(a[3]) THEN Error
            ELSE Then(FirstFailure(tys),
                      IF a[2] <= builtin_num THEN CustomClass(a[2], tys)
                      ELSE IF \E v \in Range(def.type_vars) : v[1] # "tvar" THEN Panic
                      ELSE IF \A i \in DOMAIN tys : \/ tys[i] = def.type_vars[i]
                                                    \/ Compatible(env, env.tvars[def.type_vars[i][2]], tys[i])
                           THEN CustomClass(a[2], tys) ELSE Error)
    [] a[1] = "prim" -> CustomClass(PrimId(a[2]), [i \in DOMAIN Params(a[2]) |-> TypeVar(Params(a[2])[i])])
    [] a[1] = "virtual" -> LET t == get_type(env, a[2]) IN Then(t, Virtual(t))
    [] a[1] = "tuple" -> LET ts == [i \in DOMAIN a[2] |-> get_type(env, a[2][i])]
                         IN Then(FirstFailure(ts), Tuple_(ts))
    [] OTHER -> a

\* The attributes of the object type; of a name that is both a field and a method, the field.
Kind(f) == IF f.mutable THEN "mutable field" ELSE "field"
FieldKinds(def) == [n \in {f.name : f \in Range(def.fields)} |->
                      Kind(CHOOSE f \in Range(def.fields) : f.name = n)]
MethodKinds(def) == [n \in {m.name : m \in Range(def.methods)} |-> "method"]
Attributes(env, id) == IF id <= builtin_num THEN make_unifier(PrimDefs[id])
                       ELSE LET def == env.defs[id]
                                f == FieldKinds(def)  m == MethodKinds(def)
                            IN [n \in DOMAIN f \cup DOMAIN m |-> IF n \in DOMAIN f THEN f[n] ELSE m[n]]

RECURSIVE check_overload_compatible(_, _)
check_overload_compatible(a, b) ==
  /\ a[1] = b[1]
  /\ CASE a[1] \in {"prim", "tvar"} -> a = b
       [] a[1] = "virtual" -> check_overload_compatible(a[2], b[2])
       [] a[1] = "tuple" -> /\ Len(a[2]) = Len(b[2])
                            /\ \A i \in DOMAIN a[2] : check_overload_compatible(a[2][i], b[2][i])
       [] a[1] = "class" -> /\ a[2] = b[2] /\ Len(a[3]) = Len(b[3])
                            /\ \A i \in DOMAIN a[3] : check_overload_compatible(a[3][i], b[3][i])
       [] OTHER -> FALSE

(***************************************************************************)
(* symbol_resolver.rs: the parser of the annotations in function bodies    *)
(* and of Generic[...].                                                    *)
(***************************************************************************)
RECURSIVE parse_type_annotation(_, _), name_handling(_, _), subscript_name_handle(_, _)
name_handling(env, e) ==
  LET n == match_builtin(e)
  IN IF n \notin {"", "len"} THEN Then(get_ty_fn(n), get_type(env, get_ty_fn(n)))
     ELSE IF e.id \in DOMAIN env.ids
     THEN CASE env.ids[e.id] \notin DOMAIN env.defs -> Panic
            [] env.defs[env.ids[e.id]].k # "class" -> Error
            [] env.defs[env.ids[e.id]].type_vars # <<>> -> Error
            [] OTHER -> CustomClass(env.ids[e.id], <<>>)
     ELSE IF e.id \in DOMAIN env.tvars THEN TypeVar(e.id) ELSE Error

subscript_name_handle(env, e) ==
  LET n == match_builtin(e.of)
      parts == [i \in DOMAIN e.args |-> parse_type_annotation(env, e.args[i])]
      all == FirstFailure(parts)
      id == IF n # "" THEN PrimId(n) ELSE env.ids[e.of.id]
  IN CASE n = "virtual" -> Then(all, Virtual(parts[1]))
       [] n = "tuple" -> IF Len(e.args) = 1 THEN Error ELSE Then(all, Tuple_(parts))
       [] n = "Literal" -> Then(all, IF \E i \in DOMAIN parts : parts[i][1] # "literal" THEN Error
                                     ELSE Literal(FlattenSeq([i \in DOMAIN parts |-> parts[i][2]])))
       [] n \notin {"virtual", "tuple", "Literal"} ->
            Then(all, IF n = "" /\ e.of.id \notin DOMAIN env.ids THEN Error
                      ELSE IF id \notin DOMAIN env.defs THEN Panic
                      ELSE IF env.defs[id].k # "class" THEN Error
                      ELSE IF Len(env.defs[id].type_vars) # Len(parts) THEN Error
                      ELSE CustomClass(id, parts))

parse_type_annotation(env, e) ==
  CASE ~admits_type_annotation(env.registry, e) -> Error
    [] e.k = "name" -> name_handling(env, e)
    [] e.k = "sub" -> IF e.of.k = "name" THEN subscript_name_handle(env, e) ELSE Error
    [] e.k = "const" -> Literal(<<e.v>>)
    [] OTHER -> Error

\* Mutant: the type made here says of no field that it can be assigned.
NameAttributes_Immutable(env, e, id) ==
  IF e.k = "name" /\ id <= builtin_num THEN make_unifier(PrimDefs[id])
  ELSE LET f == {x.name : x \in Range(env.defs[id].fields)}
           m == MethodKinds(env.defs[id])
       IN [n \in f \cup DOMAIN m |-> IF n \in DOMAIN m THEN m[n] ELSE "field"]

\* The attributes the type made here has; of a name that is both, the method.
NameAttributes(env, e, id) ==
  IF e.k = "name" /\ id <= builtin_num THEN make_unifier(PrimDefs[id])
  ELSE LET def == env.defs[id]
           f == FieldKinds(def)  m == MethodKinds(def)
       IN [n \in DOMAIN f \cup DOMAIN m |-> IF n \in DOMAIN m THEN m[n] ELSE f[n]]

(***************************************************************************)
(* toplevel/helper.rs, Unifier::get_instantiations.                        *)
(***************************************************************************)
\* The value of a default parameter or of a global, as the annotation of its type.
RECURSIVE parse_parameter_default_value(_, _)
parse_parameter_default_value(globals, e) ==
  CASE e.k = "value" -> e.ty                      \* a constant, or int64(c), uint32(c), uint64(c): the type says which
    [] e.k \in {"None", "bad"} -> Error             \* None, a constant out of range, any other expression
    [] e.k = "unsupported constant" -> Panic
    [] e.k = "Some" -> LET r == parse_parameter_default_value(globals, e.of) IN Then(r, CustomClass(PrimId("Option"), <<r>>))
    [] e.k = "none" -> CustomClass(PrimId("Option"), <<>>)
    [] e.k = "tuple" -> LET rs == [i \in DOMAIN e.elts |-> parse_parameter_default_value(globals, e.elts[i])]
                        IN Then(FirstFailure(rs), Tuple_(rs))
    [] e.k = "global" -> IF e.id \in DOMAIN globals THEN globals[e.id] ELSE Error

RECURSIVE is_compatible(_, _)
is_compatible(found, expect) ==
  CASE found[1] = "prim" -> found = expect
    [] found[1] = "class" -> /\ expect[1] = "class" /\ found[2] = PrimId("Option") /\ expect[2] = found[2]
                             /\ \/ found[3] = <<>>
                                \/ /\ Len(found[3]) = 1 /\ Len(expect[3]) = 1
                                   /\ is_compatible(found[3][1], expect[3][1])
    [] found[1] = "tuple" -> /\ expect[1] = "tuple" /\ Len(found[2]) = Len(expect[2])
                             /\ \A i \in DOMAIN found[2] : is_compatible(found[2][i], expect[2][i])
    [] OTHER -> FALSE

\* {} where get_instantiations returns None.
RECURSIVE get_instantiations(_, _)
InstancesOf(tvars, ty) == IF get_instantiations(tvars, ty) = {} THEN {ty} ELSE get_instantiations(tvars, ty)
get_instantiations(tvars, ty) ==
  CASE ty[1] = "tvar" -> UNION {InstancesOf(tvars, t) : t \in Range(tvars[ty[2]])}
    [] ty[1] = "class" /\ ty[2] = PrimId("list") -> {CustomClass(ty[2], <<t>>) : t \in get_instantiations(tvars, ty[3][1])}
    [] ty[1] = "virtual" -> {Virtual(t) : t \in get_instantiations(tvars, ty[2])}
    [] ty[1] = "tuple" -> LET ts == multi_cartesian_product([i \in DOMAIN ty[2] |-> InstancesOf(tvars, ty[2][i])])
                          IN IF Cardinality(ts) = 1 THEN {} ELSE {Tuple_(t) : t \in ts}
    [] ty[1] = "class" /\ ty[2] # PrimId("list") ->
         LET ps == multi_cartesian_product([i \in DOMAIN ty[3] |-> InstancesOf(tvars, ty[3][i])])
         IN IF Cardinality(ps) <= 1 THEN {} ELSE {CustomClass(ty[2], p) : p \in ps}
    [] OTHER -> {}

(***************************************************************************)
(* Which fields a constructor assigns: get_all_assigned_field of           *)
(* toplevel/helper.rs, and the assignments its compiled code really makes. *)
(*                                                                         *)
(* A statement is a record whose k is assign (its `self.f` targets),       *)
(* annself, if, loop (for and while), try, with, call (`recv.m(...)` as a  *)
(* statement), pass (also assert and the expressions without a call),      *)
(* return or raise; the other kinds behave as return does here.            *)
(***************************************************************************)
Fields(s) == <<"fields", s>>
Union(rs) == Then(FirstFailure(rs), Fields(UNION {r[2] : r \in Range(rs)}))
\* Mutant: one branch is enough.
Both_Either(a, b) == Then(FirstFailure(<<a, b>>), Fields(a[2] \cup b[2]))

Both(a, b) == Then(FirstFailure(<<a, b>>), Fields(a[2] \cap b[2]))

\* The first class of the list with this simple name whose own body has the method.
parent_method(defs, name, m) ==
  {i \in DOMAIN defs : IsClass(defs[i]) /\ HasAst(defs[i]) /\ defs[i].ast.name = name /\ Defines(defs[i].ast, m)}

RECURSIVE get_all_assigned_field(_, _, _, _), AssignedBy(_, _, _, _), AssignedByCall(_, _, _, _)
AssignedByCall(defs, id, s, depth) ==
  LET name == IF s.recv = "self" THEN defs[id].ast.name ELSE s.recv
      found == parent_method(defs, name, s.m)
      class == CHOOSE i \in found : \A j \in found : i <= j
  IN IF found = {} THEN Error
     ELSE IF depth = 0 THEN Panic
     ELSE get_all_assigned_field(defs, class, BodyOf(defs[class].ast, s.m), depth - 1)
AssignedBy(defs, id, s, depth) ==
  LET In(b) == get_all_assigned_field(defs, id, b, depth)
  IN CASE s.k = "assign" -> Fields(Range(s.fields))
       [] s.k = "annself" -> Error
       [] s.k = "loop" -> Union(<<In(s.body), In(s.orelse)>>)
       [] s.k = "if" -> Both(In(s.body), In(s.orelse))
       [] s.k = "try" -> Union(<<Both(In(s.body), In(s.orelse)), In(s.finalbody)>>)
       [] s.k = "with" -> In(s.body)
       [] s.k = "call" -> AssignedByCall(defs, id, s, depth)
       [] s.k = "pass" -> Fields({})
       [] OTHER -> Panic
get_all_assigned_field(defs, id, stmts, depth) ==
  Union([i \in DOMAIN stmts |-> AssignedBy(defs, id, stmts[i], depth)])

(***************************************************************************)
(* What the compiled constructor does.  A method is compiled once, for the *)
(* class it is defined in: its `self` has that class, and self.m() is the  *)
(* m that class has.  A way is how a block ends with the fields assigned.  *)
(***************************************************************************)
Way(s, end) == [set |-> s, end |-> end]
RECURSIVE Ways(_, _, _, _, _), StatementWays(_, _, _, _, _), CallWays(_, _, _, _, _)
After(ways, next) ==
  {w \in ways : w.end # "next"} \cup UNION {{Way(w.set \cup v.set, v.end) : v \in next} : w \in {w \in ways : w.end = "next"}}
CallWays(defs, owner, method_class, s, depth) ==
  LET class == IF s.recv = "self" THEN owner
               ELSE CHOOSE i \in DOMAIN defs : IsClass(defs[i]) /\ HasAst(defs[i]) /\ defs[i].ast.name = s.recv
      m == MethodId(defs[class], s.m)
  IN IF m = 0 \/ depth = 0 THEN {Way({}, "next")}
     ELSE {Way(w.set, IF w.end = "raise" THEN "raise" ELSE "next") :
           w \in Ways(defs, method_class[m], method_class, defs[m].ast.body, depth - 1)}
StatementWays(defs, owner, method_class, s, depth) ==
  LET In(b) == Ways(defs, owner, method_class, b, depth)
  IN CASE s.k = "assign" -> {Way(Range(s.fields), "next")}
       [] s.k = "if" -> In(s.body) \cup In(s.orelse)
       [] s.k = "loop" -> After({Way({}, "next")} \cup In(s.body), In(s.orelse))
       [] s.k = "try" -> After(In(s.body), In(s.orelse)) \cup UNION {In(h) : h \in Range(s.handlers)}
       [] s.k = "with" -> In(s.body)
       [] s.k = "call" -> CallWays(defs, owner, method_class, s, depth)
       [] s.k \in {"return", "raise"} -> {Way({}, s.k)}
       [] OTHER -> {Way({}, "next")}
Ways(defs, owner, method_class, stmts, depth) ==
  FoldLeft(LAMBDA ws, s : After(ws, StatementWays(defs, owner, method_class, s, depth)), {Way({}, "next")}, stmts)

\* The statements the comparison leaves out: the source counts a loop's body as run and a try's handlers as never run.
RECURSIVE Straight(_)
Straight(stmts) ==
  \A s \in Range(stmts) : /\ s.k \notin {"loop", "try"}
                          /\ s.k \in {"if", "with"} => Straight(s.body)
                          /\ s.k = "if" => Straight(s.orelse)
RECURSIVE CallsSelf(_)
CallsSelf(stmts) ==
  \E s \in Range(stmts) : \/ s.k = "call" /\ s.recv = "self"
                          \/ s.k \in {"if", "with"} /\ CallsSelf(s.body)
                          \/ s.k = "if" /\ CallsSelf(s.orelse)
=================================================================================
