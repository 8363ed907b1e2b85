-------------------------------- MODULE Composer --------------------------------
(***************************************************************************)
(* The top-level composer (toplevel/composer.rs, helper.rs) under its two  *)
(* drivers: definitions are registered one by one, then start_analysis     *)
(* resolves the bases of the classes, their fields and methods, the        *)
(* signatures of the functions, the constructors, and infers every         *)
(* instance of every function.                                             *)
(*                                                                         *)
(* A program is a record: registry, items (the top level statements, as    *)
(* records with the kind k) and auto (what a host object says of a field   *)
(* annotated Auto: <<class, field>> -> type).  Inference of a body is the  *)
(* subject of other modules: an item says whether it succeeds (infers),    *)
(* whether every path returns (returns) and which conversions to a virtual *)
(* class it asks for (virtuals).  A signature holds annotations where the  *)
(* source holds dummy types that are unified with them later.              *)
(***************************************************************************)
EXTENDS TypeAnnotations

CONSTANTS
  Programs,
  MaxInline,      \* calls inlined into calls before the stack is taken to overflow
  \* The analyses that recur over the syntax (module Analyses has them):
  ParseArgument(_, _, _),      \* parse_ast again, on the arguments of an annotation
  ResolveClass(_, _),          \* resolve_class_to_id
  VarsContained(_),            \* get_type_var_contained
  GetType(_, _),               \* get_type
  ParseInBody(_, _),           \* parse_type_annotation, the other parser
  OverloadCompatible(_, _),    \* check_overload_compatible
  DefaultValue(_, _),          \* parse_parameter_default_value
  DefaultCompatible(_, _),     \* is_compatible
  AllAssigned(_, _, _, _),     \* get_all_assigned_field
  Instantiations(_, _)         \* get_instantiations
ASSUME ProgramsAssumption ==
  \A p \in Programs :
    /\ p.items \in Seq(Range(p.items))
    /\ \A i \in Range(p.items) : i.k = "class" =>
         /\ i.bases \in Seq(Range(i.bases)) /\ i.body \in Seq(Range(i.body))
         /\ \A b \in Range(i.bases) : b.k = "sub" => b.args \in Seq(Range(b.args))
ASSUME MaxInlineAssumption == MaxInline \in Nat

VARIABLES prog,          \* the program, chosen once
          pc, at,        \* the step, and the next item or definition of it
          defs,          \* definition_ast_list
          defined_names,
          method_class,  \* DefinitionId of a method -> of its class
          scopes,        \* module -> name -> DefinitionId: what its resolver finds
          typed,         \* the names that got a type: classes that can be called, and functions
          tvars, globals,
          errors,        \* of the step under way
          extension      \* the constructors of exceptions, appended together
vars == <<prog, pc, at, defs, defined_names, method_class, scopes, typed, tvars, globals, errors, extension>>

Absent == [k |-> "absent"]
NoSignature == [known |-> FALSE]
Signature(args, ret, vs) == [known |-> TRUE, args |-> args, ret |-> ret, vars |-> vs]
Arg(name, ann, default, vararg) == [name |-> name, ann |-> ann, default |-> default, vararg |-> vararg]
Method(name, id) == [name |-> name, id |-> id]

make_top_level_class_def(name, mod, ast) ==
  [k |-> "class", name |-> name, mod |-> mod, type_vars |-> <<>>, fields |-> <<>>, attributes |-> <<>>,
   methods |-> <<>>, ancestors |-> <<>>, constructor |-> NoSignature, ast |-> ast]
make_top_level_function_def(name, mod, static, ast) ==
  [k |-> "function", name |-> name, mod |-> mod, static |-> static, sig |-> NoSignature, var_id |-> {},
   instances |-> {}, symbol |-> "", ast |-> ast]
make_class_method_name(class, m) == Append(class, m)
Qualified(mod, name) == IF mod = "" THEN <<name>> ELSE <<mod, name>>

\* The builtin classes; the fields of Exception stand for make_exception_fields.
BuiltinClass(n) ==
  [make_top_level_class_def(<<n>>, "", Absent) EXCEPT
     !.type_vars = [i \in DOMAIN Params(n) |-> TypeVar(Params(n)[i])],
     !.methods = SetToSeq({Method(m, 0) : m \in Methods(n)}),
     !.fields = IF n = "Exception" THEN << [name |-> "__message__", ann |-> Prim("str"), mutable |-> TRUE],
                                           [name |-> "__param0__", ann |-> Prim("int64"), mutable |-> TRUE] >>
                ELSE <<>>,
     !.ancestors = IF n = "Option" THEN <<CustomClass(PrimId(n), <<>>)>> ELSE <<>>]
Builtins == [i \in 1..builtin_num |-> IF PrimDefs[i] = "len" THEN make_top_level_function_def(<<"len">>, "", FALSE, Absent)
                                      ELSE BuiltinClass(PrimDefs[i])]

Env(list, mod, writing) ==
  [defs |-> list, ids |-> IF mod \in DOMAIN scopes THEN scopes[mod] ELSE <<>>,
   tvars |-> tvars, writing |-> writing, registry |-> prog.registry]
ParsedArguments(env, locked, e, resolved, parts, params) ==
  AnnotationOf(env, locked, e, resolved, parts, params, UNION {VarsContained(p) : p \in Range(params)})
ResolvedAnnotation(env, locked, e, resolved) ==
  ParsedArguments(env, locked, e, resolved, [i \in DOMAIN e.args |-> ParseArgument(env, locked, e.args[i])],
    [i \in DOMAIN e.args |-> ParseArgument(env, WithClass(env, locked, ClassNamed(env, e, resolved)[2]), e.args[i])])
parse_ast(env, locked, e) == ResolvedAnnotation(env, locked, e, ResolveClass(env, IF e.k = "attr" THEN e ELSE e.of))
Put(f, x, v) == [y \in DOMAIN f \cup {x} |-> IF y = x THEN v ELSE f[y]]
supports_kernel_decorators == prog.registry = "artiq"
Unbounded(v) == v = AutoVar \/ tvars[v[2]] = <<>>
Step(next) == pc' = next /\ at' = IF next = "register" THEN 1 ELSE builtin_num + 1
Stop(why) == pc' = why /\ at' = 0

(***************************************************************************)
(* Registration.                                                           *)
(***************************************************************************)
TypesOf(mods) == [n \in mods |-> <<>>]
new == /\ defs = Builtins
       /\ defined_names = {} /\ method_class = <<>> /\ typed = {} /\ extension = <<>>
Init == /\ prog \in Programs
        /\ pc = "register" /\ at = 1
        /\ new
        /\ scopes = TypesOf({i.mod : i \in Range(prog.items)})
        /\ tvars = [v \in UNION {Range(Params(PrimDefs[i])) : i \in 1..builtin_num} |-> <<>>]
        /\ globals = <<>> /\ errors = {}

HasException(bases) == \E b \in Range(bases) : match_builtin(b) = "Exception"
FirstRepeated(ns) == {i \in DOMAIN ns : \E j \in 1..(i - 1) : ns[j] = ns[i]}

register_class(item) ==
  LET name == Qualified(item.mod, item.name)
      id == Len(defs) + 1
      ms == MethodsIn(item)
      names == [i \in DOMAIN ms |-> make_class_method_name(name, ms[i].name)]
      twice == FirstRepeated(names) \cup {i \in DOMAIN names : names[i] \in defined_names}
      class == [make_top_level_class_def(name, item.mod, item) EXCEPT
                  !.methods = [i \in DOMAIN ms |-> Method(ms[i].name, id + i)]]
  IN IF name \in defined_names \/ twice # {}
     THEN /\ defined_names' = defined_names \cup {name} \cup {names[i] : i \in {i \in DOMAIN names : \A j \in twice : i <= j}}
          /\ Stop("failed")
          /\ UNCHANGED <<defs, method_class, scopes, typed>>
     ELSE /\ defined_names' = defined_names \cup {name} \cup Range(names)
          /\ defs' = defs \o <<class>> \o
                     [i \in DOMAIN ms |-> make_top_level_function_def(names[i], item.mod, ms[i].static, ms[i])]
          /\ method_class' = [m \in DOMAIN method_class \cup {id + i : i \in DOMAIN ms} |->
                                IF m > id THEN id ELSE method_class[m]]
          /\ scopes' = [scopes EXCEPT ![item.mod] = Put(@, item.name, id)]
          /\ typed' = IF prog.registry # "artiq" \/ HasException(item.bases) \/ Defines(item, "__init__")
                      THEN typed \cup {id} ELSE typed
          /\ at' = at + 1 /\ UNCHANGED pc

register_function(item) ==
  LET name == Qualified(item.mod, item.name)
  IN /\ defined_names' = defined_names \cup {name}
     /\ IF name \in defined_names THEN Stop("failed") /\ UNCHANGED <<defs, scopes, typed>>
        ELSE /\ defs' = Append(defs, make_top_level_function_def(name, item.mod, FALSE, item))
             /\ scopes' = [scopes EXCEPT ![item.mod] = Put(@, item.name, Len(defs) + 1)]
             /\ typed' = typed \cup {Len(defs) + 1}
             /\ at' = at + 1 /\ UNCHANGED pc
     /\ UNCHANGED method_class

\* The decorators are checked by the ARTIQ driver after the definition has been registered.
KnownDecorators == {"kernel", "portable", "rpc", "staticmethod"}
BadDecorators(item) ==
  /\ prog.registry = "artiq"
  /\ CASE item.k = "def" -> ~(item.decs \subseteq KnownDecorators \cup {"extern"})
       [] item.k = "class" -> \E m \in Range(MethodsIn(item)) : \/ ~(m.decs \subseteq KnownDecorators)
                                                                \/ m.name = "__init__" /\ "rpc" \in m.decs
       [] OTHER -> FALSE
Register ==
  /\ pc = "register" /\ at <= Len(prog.items)
  /\ LET item == prog.items[at]
     IN /\ item.k \in {"class", "def"}
        /\ IF BadDecorators(item) THEN Stop("failed") /\ UNCHANGED <<defs, defined_names, method_class, scopes, typed>>
           ELSE IF item.k = "class" THEN register_class(item) ELSE register_function(item)
  /\ UNCHANGED <<prog, tvars, globals, errors, extension>>

\* T = TypeVar("T", constraints...), or a constant; the standalone driver gives up on anything else.
handle_assignment_pattern ==
  /\ pc = "register" /\ at <= Len(prog.items)
  /\ LET item == prog.items[at]
         env == Env(defs, item.mod, {})
         parsed == [i \in DOMAIN item.range |-> parse_ast(env, <<>>, item.range[i])]
         tys == [i \in DOMAIN parsed |-> IF Failed(parsed[i]) THEN parsed[i] ELSE GetType(env, parsed[i])]
         value == DefaultValue(globals, item.value)
     IN /\ item.k = "assign"
        /\ IF item.value = Absent /\ ~Failed(FirstFailure(tys)) /\ Len(tys) # 1
           THEN tvars' = Put(tvars, item.name, tys) /\ at' = at + 1 /\ UNCHANGED <<pc, globals>>
           ELSE IF item.value # Absent /\ ~Failed(value)
           THEN globals' = Put(globals, item.name, value) /\ at' = at + 1 /\ UNCHANGED <<pc, tvars>>
           ELSE Stop("failed") /\ UNCHANGED <<tvars, globals>>
  /\ UNCHANGED <<prog, defs, defined_names, method_class, scopes, typed, errors, extension>>

\* `import m`: the ARTIQ driver only notes the module; any other statement is refused.
register_other ==
  /\ pc = "register" /\ at <= Len(prog.items)
  /\ prog.items[at].k \notin {"class", "def", "assign"}
  /\ IF prog.registry = "artiq" /\ prog.items[at].k = "import" THEN at' = at + 1 /\ UNCHANGED pc ELSE Stop("failed")
  /\ UNCHANGED <<prog, defs, defined_names, method_class, scopes, typed, tvars, globals, errors, extension>>

\* A module is a definition of its own, made after everything else; the modules that import it find it from then on.
register_top_level_module ==
  /\ pc = "register" /\ at > Len(prog.items) /\ prog.registry = "artiq"
  /\ \E m \in DOMAIN scopes :
       LET named == {n \in DOMAIN scopes[m] : Qualified(m, n) \in defined_names}
           module == [k |-> "module", name |-> m, scope |-> scopes[m], ast |-> Absent,
                      classes |-> {scopes[m][n] : n \in {n \in named : IsClass(defs[scopes[m][n]])}},
                      functions |-> {scopes[m][n] : n \in {n \in named : IsFunction(defs[scopes[m][n]])}}]
           importers == {i.mod : i \in {i \in Range(prog.items) : i.k = "import" /\ i.name = m}}
       IN /\ \A d \in Range(defs) : d.k = "module" => d.name # m
          /\ defs' = Append(defs, module)
          /\ scopes' = [n \in DOMAIN scopes |-> IF n \in importers THEN Put(scopes[n], m, Len(defs) + 1) ELSE scopes[n]]
  /\ UNCHANGED <<prog, pc, at, defined_names, method_class, typed, tvars, globals, errors, extension>>

Registered == at > Len(prog.items)
              /\ (prog.registry = "artiq" => \A m \in DOMAIN scopes : \E d \in Range(defs) : d.k = "module" /\ d.name = m)
start_analysis ==
  /\ pc = "register" /\ Registered
  /\ Step("bases")
  /\ UNCHANGED <<prog, defs, defined_names, method_class, scopes, typed, tvars, globals, errors, extension>>

(***************************************************************************)
(* Step 1: the bases and ancestors of the classes, in program order.  A    *)
(* class sees the definitions before its own.                              *)
(***************************************************************************)
has_generic_ann(b) == match_builtin(b) = "Generic"
WithBase(env, id, acc, b) ==
  CASE Failed(acc.r) -> acc
    [] ~Failed(acc.r) /\ b.k = "sub" /\ has_generic_ann(b) ->
         LET vs == [i \in DOMAIN b.args |-> ParseInBody(env, b.args[i])]
         IN IF acc.is_generic THEN [acc EXCEPT !.r = Error]
            ELSE [acc EXCEPT !.is_generic = TRUE, !.r = FirstFailure(vs),
                             !.type_vars = IF Failed(FirstFailure(vs)) THEN @ ELSE @ \o vs]
    [] ~Failed(acc.r) /\ b.k \in {"name", "sub"} /\ ~has_generic_ann(b) ->
         LET ty == parse_ast(env, [c \in {id} |-> acc.type_vars], b)
         IN IF acc.has_base \/ Failed(ty) THEN [acc EXCEPT !.has_base = TRUE, !.r = IF acc.has_base THEN Error ELSE ty]
            ELSE IF ty[1] = "class" THEN [acc EXCEPT !.has_base = TRUE, !.ancestors = Append(@, ty)]
            ELSE [acc EXCEPT !.has_base = TRUE, !.r = Error]
    [] OTHER -> [acc EXCEPT !.r = Error]
analyze_class_bases(env, id) ==
  LET bases == defs[id].ast.bases
      after[n \in 0..Len(bases)] ==
        IF n = 0 THEN [r |-> <<"ok">>, is_generic |-> FALSE, has_base |-> FALSE, type_vars |-> <<>>, ancestors |-> <<>>]
        ELSE WithBase(env, id, after[n - 1], bases[n])
  IN after[Len(bases)]

make_self(vs, id) == CustomClass(id, vs)
\* Mutant: the parent's own ancestors are left out.
analyze_class_ancestors_ParentOnly(id, bases) == {<<make_self(bases.type_vars, id)>> \o bases.ancestors}

\* The parent's ancestors go through a hash map: their order is not kept.
analyze_class_ancestors(id, bases) ==
  {<<make_self(bases.type_vars, id)>> \o bases.ancestors \o rest :
     rest \in IF bases.ancestors = <<>> THEN {<<>>}
              ELSE LET parents == defs[bases.ancestors[1][2]].ancestors
                   IN SetToSeqs(Range(IF parents = <<>> THEN <<>> ELSE Tail(parents)))}

IsException(ancestors) == \E a \in Range(ancestors) : a[1] = "class" /\ a[2] = PrimId("Exception")
analyze_top_level_class_definition ==
  /\ pc = "bases" /\ at <= Len(defs)
  /\ at' = at + 1
  /\ IF ~IsClass(defs[at]) \/ ~HasAst(defs[at]) THEN UNCHANGED <<pc, defs, errors>>
     ELSE LET bases == analyze_class_bases(Env(SubSeq(defs, 1, at - 1), defs[at].mod, {at}), at)
          IN \E ancestors \in analyze_class_ancestors(at, bases) :
               LET has_members == IsException(ancestors) /\ \E s \in Range(defs[at].ast.body) : s.k \in {"def", "ann"}
               IN /\ defs' = [defs EXCEPT ![at].type_vars = bases.type_vars, ![at].ancestors = ancestors]
                  /\ errors' = errors \cup {e \in {"base"} : Failed(bases.r)} \cup {e \in {"exception"} : has_members}
                  /\ pc' = IF bases.r = Panic THEN "panic" ELSE pc
  /\ UNCHANGED <<prog, defined_names, method_class, scopes, typed, tvars, globals, extension>>

\* Exception becomes its own ancestor only now.
end_class_definition ==
  /\ pc = "bases" /\ at > Len(defs)
  /\ defs' = [defs EXCEPT ![PrimId("Exception")].ancestors = Append(@, make_self(<<>>, PrimId("Exception")))]
  /\ IF errors # {} THEN Stop("failed") ELSE Step("members")
  /\ UNCHANGED <<prog, defined_names, method_class, scopes, typed, tvars, globals, errors, extension>>

(***************************************************************************)
(* Step 2: the members of a class, and what it takes from its parent.  An  *)
(* analysis is folded over the body; what it wrote before it fails is not  *)
(* kept here, as start_analysis returns and nobody reads it.               *)
(***************************************************************************)
check_default_param_type(found, expect) == IF DefaultCompatible(found, expect) THEN <<"ok">> ELSE Error

source_value_error(found) == prog.registry = "catseq" /\ found \notin {Prim("int32"), Prim("bool")}
CheckedDefault(e, ann) ==
  IF e = Absent THEN <<"ok">>
  ELSE LET found == DefaultValue(globals, e)
       IN Then(found, check_default_param_type(found, ann))
Annotation(env, locked, p) == IF p.ann = Absent THEN Error ELSE parse_ast(env, locked, p.ann)
DefaultOf(params, defaults, i) == IF i + Len(defaults) > Len(params) THEN defaults[i + Len(defaults) - Len(params)] ELSE Absent
Returned(env, locked, ret) == IF ret = Absent THEN Prim("none") ELSE parse_ast(env, locked, ret)
Repeated(ps) == \E i, j \in DOMAIN ps : i # j /\ ps[i].name = ps[j].name
Bounded(vs) == {v \in vs : ~Unbounded(v)}

BadReceiver(m) == IF m.static THEN m.params # <<>> /\ m.params[1].name = "self"
                  ELSE \/ m.params = <<>> \/ m.params[1].name # "self"
                       \/ Len(m.params) = Len(m.defaults) \/ m.params[1].ann # Absent
CheckedMethod(id, acc, m, params, anns, ret, r) ==
  IF Failed(r) THEN [acc EXCEPT !.r = r]
  ELSE LET vs == UNION {VarsContained(a) : a \in Range(anns) \cup {ret}}
           args == [i \in DOMAIN params |-> Arg(params[i].name, anns[i], DefaultOf(params, m.defaults, i), FALSE)]
       IN [acc EXCEPT !.sigs = Put(@, MethodId(defs[id], m.name), Signature(args, ret, vs)),
                      !.new = @ \cup Range(anns) \cup {ret}]
ParsedMethod(id, acc, m, params, anns, ret) ==
  CheckedMethod(id, acc, m, params, anns, ret,
    FirstFailure(Append([i \in DOMAIN params |-> Then(anns[i], CheckedDefault(DefaultOf(params, m.defaults, i), anns[i]))], ret)))
analyze_method(env, id, acc, m) ==
  LET locked == [c \in {id} |-> defs[id].type_vars]
      params == IF m.static THEN m.params ELSE Tail(m.params)
  IN IF BadReceiver(m) \/ (m.params # <<>> /\ Repeated(Tail(m.params))) THEN [acc EXCEPT !.r = Error]
     ELSE ParsedMethod(id, acc, m, params, [i \in DOMAIN params |-> Annotation(env, locked, params[i])],
                       Returned(env, locked, m.ret))

\* Kernel[T] and KernelInvariant[T]; other fields are the host's alone under ARTIQ.
Slice(e) == IF Len(e.args) = 1 THEN e.args[1] ELSE [k |-> "other"]
has_invariant_ann(e) == e.k = "sub" /\ match_builtin(e) = "KernelInvariant"
has_kernel_ann(e) == e.k = "sub" /\ match_builtin(e) = "Kernel"
FieldAnnotation(s) ==
  CASE s.value = Absent /\ has_invariant_ann(s.ann) -> [ann |-> Slice(s.ann), kind |-> "field", mutable |-> FALSE]
    [] s.value = Absent /\ has_kernel_ann(s.ann) -> [ann |-> Slice(s.ann), kind |-> "field", mutable |-> TRUE]
    [] s.value # Absent /\ s.ann.k = "sub" -> [ann |-> Slice(s.ann), kind |-> "attribute", mutable |-> FALSE]
    [] OTHER -> IF supports_kernel_decorators THEN [kind |-> "ignored"]
                ELSE [ann |-> s.ann, kind |-> IF s.value = Absent THEN "field" ELSE "attribute", mutable |-> TRUE]

resolve_auto_field_type(id, name) ==
  LET key == <<defs[id].ast.name, name>> IN IF key \in DOMAIN prog.auto THEN <<"resolved", prog.auto[key]>> ELSE <<"none">>
HasAuto(parsed, vs, declared) == \E v \in vs : Unbounded(v) /\ (parsed = v \/ v \notin declared)
WithField(acc, s, f, ann) ==
  IF f.kind = "field"
  THEN [acc EXCEPT !.seen = @ \cup {s.target}, !.fields = Append(@, [name |-> s.target, ann |-> ann, mutable |-> f.mutable])]
  ELSE [acc EXCEPT !.seen = @ \cup {s.target}, !.attributes = Append(@, [name |-> s.target, ann |-> ann, value |-> s.value])]
AnnotatedField(acc, s, f, parsed, vs, declared, resolved) ==
  CASE Failed(parsed) -> [acc EXCEPT !.r = parsed]
    [] ~Failed(parsed) /\ HasAuto(parsed, vs, declared) /\ resolved # <<"none">> -> WithField(acc, s, f, resolved[2])
    [] ~Failed(parsed) /\ ~(HasAuto(parsed, vs, declared) /\ resolved # <<"none">>) ->
         IF Bounded(vs) \subseteq declared THEN [WithField(acc, s, f, parsed) EXCEPT !.new = @ \cup {parsed}]
         ELSE [acc EXCEPT !.r = Error]
ParsedField(id, acc, s, f, parsed) ==
  AnnotatedField(acc, s, f, parsed, VarsContained(parsed), Range(defs[id].type_vars), resolve_auto_field_type(id, s.target))
DeclaredField(env, id, acc, s, f) ==
  IF s.target = "" \/ s.target \in acc.seen THEN [acc EXCEPT !.r = Error]
  ELSE IF f.kind = "ignored" THEN [acc EXCEPT !.seen = @ \cup {s.target}]
  ELSE IF f.kind = "attribute" /\ s.value.k # "constant" THEN [acc EXCEPT !.r = Error]
  ELSE ParsedField(id, acc, s, f, parse_ast(env, [c \in {id} |-> defs[id].type_vars], f.ann))
analyze_field(env, id, acc, s) == DeclaredField(env, id, acc, s, FieldAnnotation(s))

WithMember(env, id, acc, s) ==
  CASE Failed(acc.r) -> acc
    [] ~Failed(acc.r) /\ s.k = "def" -> analyze_method(env, id, acc, s)
    [] ~Failed(acc.r) /\ s.k = "ann" -> analyze_field(env, id, acc, s)
    [] ~Failed(acc.r) /\ s.k \in {"assign", "expr", "pass"} -> acc
    [] OTHER -> [acc EXCEPT !.r = Error]
analyze_single_class_methods_fields(env, id) ==
  LET body == defs[id].ast.body
      after[n \in 0..Len(body)] ==
        IF n = 0 THEN [r |-> <<"ok">>, sigs |-> <<>>, fields |-> <<>>, attributes |-> <<>>, seen |-> {}, new |-> {}]
        ELSE WithMember(env, id, after[n - 1], body[n])
  IN after[Len(body)]

\* zip: parameters one of the two does not have are not looked at.
check_overload_function_type(this, other) ==
  /\ \A i \in DOMAIN this.args \cap DOMAIN other.args :
       /\ this.args[i].name = other.args[i].name
       /\ OverloadCompatible(this.args[i].ann, other.args[i].ann)
  /\ OverloadCompatible(this.ret, other.ret)

NamesOf(s) == {x.name : x \in Range(s)}
\* Mutant: the parent's entries are kept.
Overridden_Never(parents, own) == parents \o Selected(own, {m \in Range(own) : m.name \notin NamesOf(parents)})

\* An IndexMap filled with the parent's entries, then the child's: an entry that is overridden keeps its place.
Overridden(parents, own) ==
  [i \in DOMAIN parents |-> IF parents[i].name \in NamesOf(own)
                            THEN CHOOSE m \in Range(own) : m.name = parents[i].name ELSE parents[i]]
    \o Selected(own, {m \in Range(own) : m.name \notin NamesOf(parents)})
analyze_single_class_ancestors(list, id) ==
  LET class == list[id]
      parent == list[class.ancestors[2][2]]
      sig(m) == list[m.id].sig
      ok == \A m \in Range(class.methods), p \in Range(parent.methods) :
              m.name = p.name /\ m.name # "__init__" => check_overload_function_type(sig(m), sig(p))
      members == NamesOf(parent.fields) \cup NamesOf(parent.attributes)
  IN IF ~ok \/ (NamesOf(class.fields) \cup NamesOf(class.attributes)) \cap members # {} THEN <<"error", list>>
     ELSE <<"ok", [list EXCEPT ![id].methods = Overridden(parent.methods, @),
                               ![id].fields = parent.fields \o @,
                               ![id].attributes = parent.attributes \o @]>>

WithMembers(id, members) ==
  [i \in DOMAIN defs |->
     CASE i = id -> [defs[i] EXCEPT !.fields = members.fields, !.attributes = members.attributes]
       [] i # id /\ i \in DOMAIN members.sigs -> [defs[i] EXCEPT !.sig = members.sigs[i], !.var_id = Bounded(members.sigs[i].vars)]
       [] OTHER -> defs[i]]
Inherited(list, id) == IF Len(list[id].ancestors) > 1 THEN analyze_single_class_ancestors(list, id) ELSE <<"ok", list>>
WriteMembers(inherited, tys) ==
  IF Panic \in tys THEN Stop("panic") /\ UNCHANGED <<defs, errors>>
  ELSE /\ defs' = inherited[2]
       /\ errors' = errors \cup {e \in {"ancestors"} : inherited[1] = "error"} \cup {e \in {"annotation"} : Error \in tys}
       /\ at' = at + 1 /\ UNCHANGED pc
TypesIn(list, mod, anns) == {GetType(Env(list, mod, {}), a) : a \in anns}
InheritMembers(members, inherited) ==
  IF Failed(members.r) \/ errors # {}
  THEN Stop(IF members.r = Panic THEN "panic" ELSE "failed") /\ UNCHANGED <<defs, errors>>
  ELSE WriteMembers(inherited, TypesIn(inherited[2], defs[at].mod, members.new))
ClassMembers(members) == InheritMembers(members, Inherited(WithMembers(at, members), at))
analyze_top_level_class_fields_methods ==
  /\ pc = "members" /\ at <= Len(defs)
  /\ IF IsClass(defs[at]) /\ HasAst(defs[at])
     THEN ClassMembers(analyze_single_class_methods_fields(Env(defs, defs[at].mod, {at}), at))
     ELSE at' = at + 1 /\ UNCHANGED <<pc, defs, errors>>
  /\ UNCHANGED <<prog, defined_names, method_class, scopes, typed, tvars, globals, extension>>
EndOf(step, next) ==
  /\ pc = step /\ at > Len(defs)
  /\ IF errors # {} THEN Stop("failed") ELSE Step(next)
  /\ UNCHANGED <<prog, defs, defined_names, method_class, scopes, typed, tvars, globals, errors, extension>>
end_class_fields_methods == EndOf("members", "functions")

(***************************************************************************)
(* Step 3: the signatures of the functions that are not methods.           *)
(***************************************************************************)
admits_value_type(ty) == prog.registry = "catseq" => ty \in {CustomClass(PrimId("int32"), <<>>), CustomClass(PrimId("bool"), <<>>)}
UnsupportedKind(f) == prog.registry = "catseq" /\ f.other_kinds
Defaults(f) == [i \in DOMAIN f.params |-> DefaultOf(f.params, f.defaults, i)]
CheckedValue(e, ann) ==
  IF e = Absent THEN <<"ok">>
  ELSE LET v == DefaultValue(globals, e)
       IN Then(v, IF source_value_error(v) THEN Error ELSE check_default_param_type(v, ann))
TypedAll(env, anns) == [i \in DOMAIN anns |-> Then(anns[i], GetType(env, anns[i]))]
FunctionSignature(f, anns, vararg, ret) ==
  Signature([i \in DOMAIN anns |-> Arg(f.params[i].name, anns[i], Defaults(f)[i], FALSE)]
              \o [i \in DOMAIN vararg |-> Arg(f.vararg.name, vararg[i], Absent, TRUE)],
            ret, UNION {VarsContained(a) : a \in Range(anns) \cup Range(vararg) \cup {ret}})
TypedFunction(f, anns, vararg, ret, tys, varargs, returned) ==
  LET r == FirstFailure(varargs \o (IF Repeated(f.params) THEN <<Error>> ELSE <<>>)
                        \o [i \in DOMAIN tys |-> Then(tys[i], CheckedValue(Defaults(f)[i], anns[i]))] \o returned)
      admitted == /\ prog.registry = "catseq" => varargs = <<>>
                  /\ \A ty \in Range(tys \o varargs \o returned) : admits_value_type(ty)
  IN Then(r, IF admitted THEN <<"signature", FunctionSignature(f, anns, vararg, ret)>> ELSE Error)
ParsedFunction(env, f, anns, vararg, ret) ==
  TypedFunction(f, anns, vararg, ret, TypedAll(env, anns), TypedAll(env, vararg), TypedAll(env, <<ret>>))
analyze_function(env, f) ==
  IF UnsupportedKind(f) THEN Error
  ELSE ParsedFunction(env, f, [i \in DOMAIN f.params |-> Annotation(env, <<>>, f.params[i])],
                      IF f.vararg = Absent THEN <<>> ELSE <<Annotation(env, <<>>, f.vararg)>>, Returned(env, <<>>, f.ret))

WriteSignature(r) ==
  \/ /\ r[1] = "signature"
     /\ defs' = [defs EXCEPT ![at].sig = r[2], ![at].var_id = Bounded(r[2].vars)]
     /\ at' = at + 1 /\ UNCHANGED <<pc, errors>>
  \/ r = Error /\ errors' = errors \cup {"signature"} /\ at' = at + 1 /\ UNCHANGED <<pc, defs>>
  \/ r = Panic /\ Stop("panic") /\ UNCHANGED <<defs, errors>>
\* Mutant: the signatures that methods already have are made again.
analyze_top_level_function_Again ==
  /\ pc = "functions" /\ at <= Len(defs)
  /\ IF ~IsFunction(defs[at]) \/ ~HasAst(defs[at])
     THEN at' = at + 1 /\ UNCHANGED <<pc, defs, errors>>
     ELSE WriteSignature(analyze_function(Env(defs, defs[at].mod, {at}), defs[at].ast))
  /\ UNCHANGED <<prog, defined_names, method_class, scopes, typed, tvars, globals, extension>>

\* The definition is locked for writing: a function named in its own annotations cannot be read.
analyze_top_level_function ==
  /\ pc = "functions" /\ at <= Len(defs)
  /\ IF ~IsFunction(defs[at]) \/ ~HasAst(defs[at]) \/ defs[at].sig.known
     THEN at' = at + 1 /\ UNCHANGED <<pc, defs, errors>>
     ELSE WriteSignature(analyze_function(Env(defs, defs[at].mod, {at}), defs[at].ast))
  /\ UNCHANGED <<prog, defined_names, method_class, scopes, typed, tvars, globals, extension>>
end_functions == EndOf("functions", "constructors")

(***************************************************************************)
(* Step 4: the constructors, with the check that they assign every field.  *)
(***************************************************************************)
exn_constructor_args ==
  <<Arg("msg", Prim("str"), [k |-> "value", ty |-> Prim("str")], FALSE)>> \o
  [i \in 1..3 |-> Arg(<<"param0", "param1", "param2">>[i], Prim("int64"), [k |-> "value", ty |-> Prim("int64")], FALSE)]
exn_constructor(id) ==
  [make_top_level_function_def(make_class_method_name(defs[id].name, "__init__"), defs[id].mod, FALSE, Absent)
     EXCEPT !.sig = Signature(exn_constructor_args, make_self(<<>>, id), {})]
Inits(d) == Selected(d.methods, {m \in Range(d.methods) : m.name = "__init__"})
FieldsAssigned(id, inits) ==
  IF inits = <<>> \/ defs[id].fields = <<>> THEN <<"ok">>
  ELSE LET all == AllAssigned(defs, id, defs[Last(inits).id].ast.body, MaxInline)
       IN Then(all, IF NamesOf(defs[id].fields) \subseteq all[2] THEN <<"ok">> ELSE Error)
analyze_constructor ==
  /\ pc = "constructors" /\ at <= Len(defs)
  /\ IF ~IsClass(defs[at]) \/ ~HasAst(defs[at]) THEN at' = at + 1 /\ UNCHANGED <<pc, defs, errors, extension>>
     ELSE LET class == defs[at]
              self == make_self(class.type_vars, at)
              made == GetType(Env(defs, class.mod, {}), self)
              inits == Inits(class)
              args == FlattenSeq([i \in DOMAIN inits |-> defs[inits[i].id].sig.args])
              vs == UNION {defs[m.id].sig.vars : m \in Range(inits)}
              exception == IsException(class.ancestors)
              r == Then(made, IF exception THEN <<"ok">> ELSE FieldsAssigned(at, inits))
          IN IF r = Panic THEN Stop("panic") /\ UNCHANGED <<defs, errors, extension>>
             ELSE /\ extension' = IF exception /\ ~Failed(r)
                                  THEN Append(extension, [class |-> at, def |-> exn_constructor(at)]) ELSE extension
                  /\ defs' = IF Failed(made) THEN defs
                             ELSE [defs EXCEPT ![at].constructor =
                                     IF exception THEN exn_constructor(at).sig ELSE Signature(args, self, vs)]
                  /\ errors' = errors \cup {e \in {"constructor"} : Failed(r)}
                  /\ at' = at + 1 /\ UNCHANGED pc
  /\ UNCHANGED <<prog, defined_names, method_class, scopes, typed, tvars, globals>>
\* The constructors of the exceptions become definitions together.
end_constructors ==
  /\ pc = "constructors" /\ at > Len(defs)
  /\ IF errors # {} THEN Stop("failed") /\ UNCHANGED <<defs, extension>>
     ELSE /\ defs' = [i \in DOMAIN defs |->
                        IF \E e \in DOMAIN extension : extension[e].class = i
                        THEN [defs[i] EXCEPT !.methods = Append(@, Method("__init__",
                                Len(defs) + CHOOSE e \in DOMAIN extension : extension[e].class = i))]
                        ELSE defs[i]]
                     \o [e \in DOMAIN extension |-> extension[e].def]
          /\ extension' = <<>> /\ Step("instances")
  /\ UNCHANGED <<prog, defined_names, method_class, scopes, typed, tvars, globals, errors>>

(***************************************************************************)
(* The instances: one for each choice of a type from the range of every    *)
(* type variable of the function and of its class.                         *)
(***************************************************************************)
Rigid(v) == <<"rigid", v>>
\* get_subst_key: the substitution itself.
type_var_subst_comb(vs) ==
  multi_cartesian_product([v \in vs |-> IF Instantiations(tvars, v) = {} THEN {Rigid(v)} ELSE Instantiations(tvars, v)])

\* virtual[...] of an expression: the class the host or the program gives must have the base among its ancestors.
VirtualCheck(env, v) ==
  LET base == GetType(env, parse_ast(env, <<>>, v.base))
      sub == GetType(env, parse_ast(env, <<>>, v.sub))
  IN /\ base[1] = "class" /\ sub[1] = "class"
     /\ \E a \in Range(env.defs[sub[2]].ancestors) : a[1] = "class" /\ a[2] = base[2]
analyze_function_instance ==
  /\ pc = "instances" /\ at <= Len(defs)
  /\ at' = at + 1
  /\ IF ~IsFunction(defs[at]) \/ ~HasAst(defs[at]) THEN UNCHANGED <<defs, errors>>
     ELSE LET f == defs[at]
              env == Env(defs, f.mod, {})
              own == IF at \in DOMAIN method_class THEN Range(defs[method_class[at]].type_vars) ELSE {}
              ok == /\ f.ast.infers
                    /\ \A v \in f.ast.virtuals : VirtualCheck(env, v)
                    /\ f.sig.ret # Prim("none") => f.ast.returns
          IN CASE f.ast.extern -> defs' = [defs EXCEPT ![at].symbol = f.ast.name] /\ UNCHANGED errors
               [] ~f.ast.extern /\ ok ->
                    defs' = [defs EXCEPT ![at].instances = type_var_subst_comb(f.sig.vars \cup own)] /\ UNCHANGED errors
               [] ~f.ast.extern /\ ~ok -> errors' = errors \cup {"instance"} /\ UNCHANGED defs
  /\ UNCHANGED <<prog, pc, defined_names, method_class, scopes, typed, tvars, globals, extension>>
end_instances == /\ pc = "instances" /\ at > Len(defs)
                 /\ Stop(IF errors # {} THEN "failed" ELSE "done")
                 /\ UNCHANGED <<prog, defs, defined_names, method_class, scopes, typed, tvars, globals, errors, extension>>

Next == \/ Register \/ handle_assignment_pattern \/ register_other \/ register_top_level_module \/ start_analysis
        \/ analyze_top_level_class_definition \/ end_class_definition
        \/ analyze_top_level_class_fields_methods \/ end_class_fields_methods
        \/ analyze_top_level_function \/ end_functions
        \/ analyze_constructor \/ end_constructors
        \/ analyze_function_instance \/ end_instances
Spec == Init /\ [][Next]_vars

(***************************************************************************)
(* What holds of the definitions at every step.                            *)
(***************************************************************************)
\* A definition of the program itself: not a builtin, a module or a constructor made for an exception.
Declared(d) == d.k \in {"class", "function"} /\ HasAst(d)

\* Two definitions of a program never have the same name.
NamesUnique ==
  \A i, j \in DOMAIN defs :
    Declared(defs[i]) /\ Declared(defs[j]) /\ defs[i].name = defs[j].name => i = j

\* method_class gives a method the class that declares it, registered before it.
MethodsOwned ==
  \A f \in DOMAIN method_class :
    LET c == method_class[f]
    IN /\ f \in DOMAIN defs /\ IsFunction(defs[f]) /\ HasAst(defs[f])
       /\ c \in DOMAIN defs /\ IsClass(defs[c]) /\ HasAst(defs[c]) /\ c < f
       /\ defs[f].name = make_class_method_name(defs[c].name, defs[f].ast.name)

\* What a resolver finds under a name is a definition of its module with that name, or the module it imports.
ScopesRight ==
  \A mod \in DOMAIN scopes : \A n \in DOMAIN scopes[mod] :
    LET id == scopes[mod][n]
    IN /\ id \in DOMAIN defs
       /\ \/ defs[id].k = "module" /\ defs[id].name = n
          \/ Declared(defs[id]) /\ defs[id].mod = mod /\ defs[id].name = Qualified(mod, n)

AncestorIds(c) == {a[2] : a \in Range(defs[c].ancestors)}
\* The ancestors of a class are classes registered before it, or itself, and those of its ancestors.
HierarchyOrdered ==
  \A c \in DOMAIN defs : IsClass(defs[c]) =>
    \A a \in AncestorIds(c) : /\ a \in 1..c /\ IsClass(defs[a])
                              /\ AncestorIds(a) \subseteq AncestorIds(c)

\* Every method of a class is declared by it or by an ancestor, under the same name; the others
\* are those of a builtin ancestor and the constructor of an exception.
MethodsInherited ==
  \A c \in DOMAIN defs : IsClass(defs[c]) =>
    \A m \in Range(defs[c].methods) :
      \/ /\ m.id \in DOMAIN method_class /\ defs[m.id].ast.name = m.name
         /\ method_class[m.id] \in AncestorIds(c) \cup {c}
      \/ m.id = 0 /\ \E b \in AncestorIds(c) \cup {c} : b <= builtin_num /\ m.name \in Methods(PrimDefs[b])
      \/ /\ m.name = "__init__" /\ m.id \in DOMAIN defs /\ IsFunction(defs[m.id]) /\ ~HasAst(defs[m.id])
         /\ defs[m.id].name = make_class_method_name(defs[c].name, "__init__")

\* The constructors take their arguments, and the instances their types, from signatures that are there; when
\* the analysis is done without an error, nothing of the program is left without one.
SignaturesGiven ==
  \A i \in DOMAIN defs : HasAst(defs[i]) =>
    /\ pc \in {"constructors", "instances", "done"} /\ IsFunction(defs[i]) => defs[i].sig.known
    /\ pc \in {"instances", "done"} /\ IsClass(defs[i]) => defs[i].constructor.known

\* An object of a class can stand for one of its parent, from when the members of the class are analysed on
\* (helper.rs, analyze_single_class_ancestors): its fields and attributes begin with the parent's, and every
\* method of the parent is there, but for a constructor.
HasMembers(c) == \/ pc \in {"functions", "constructors", "instances", "done"}
                 \/ pc = "members" /\ errors = {} /\ c < at
Extends(child, parent) ==
  /\ IsPrefix(parent.fields, child.fields) /\ IsPrefix(parent.attributes, child.attributes)
  /\ NamesOf(parent.methods) \ {"__init__"} \subseteq NamesOf(child.methods)
ParentId(c) == defs[c].ancestors[2][2]
Subclass(c) == IsClass(defs[c]) /\ HasAst(defs[c]) /\ Len(defs[c].ancestors) > 1
ExtendsParent ==
  \A c \in DOMAIN defs : Subclass(c) /\ HasMembers(c) => Extends(defs[c], defs[ParentId(c)])

DefinitionsAgree ==
  /\ NamesUnique /\ MethodsOwned /\ ScopesRight
  /\ HierarchyOrdered /\ MethodsInherited /\ ExtendsParent
  /\ SignaturesGiven

\* A DefinitionId denotes the same definition for ever, and a signature is written once.
DefinitionsStable ==
  [][\A i \in DOMAIN defs :
       /\ i \in DOMAIN defs'
       /\ defs'[i].k = defs[i].k /\ defs'[i].name = defs[i].name /\ defs'[i].ast = defs[i].ast
       /\ IsFunction(defs[i]) /\ defs[i].sig.known => defs'[i].sig = defs[i].sig]_vars
================================================================================
