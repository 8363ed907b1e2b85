---------------------------- MODULE TypeAnnotations ----------------------------
(***************************************************************************)
(* What annotations, types and definitions are: the builtin names of       *)
(* toplevel/composer.rs and the definitions of toplevel/mod.rs.            *)
(*                                                                         *)
(* An annotation is a tuple headed by its constructor; <<"error">> stands  *)
(* for every error, <<"panic">> for unreachable!, unimplemented! and a     *)
(* missing key.  A type is written the same way, with the primitives       *)
(* written as classes.                                                     *)
(***************************************************************************)
EXTENDS Integers, Sequences, FiniteSets, SequencesExt

Error == <<"error">>
Panic == <<"panic">>
Prim(n) == <<"prim", n>>
CustomClass(id, ps) == <<"class", id, ps>>
TypeVar(n) == <<"tvar", n>>
AutoVar == <<"auto">>                           \* a fresh variable without a range
Virtual(a) == <<"virtual", a>>
Tuple_(as) == <<"tuple", as>>
Literal(vs) == <<"literal", vs>>

Failed(a) == a[1] \in {"error", "panic"}
\* The first failure of a sequence of results, which `?` and collect() return.
FirstFailure(rs) == IF \E i \in DOMAIN rs : Failed(rs[i])
                    THEN rs[CHOOSE i \in DOMAIN rs : Failed(rs[i]) /\ \A j \in 1..(i - 1) : ~Failed(rs[j])]
                    ELSE <<"ok">>
Then(r, result) == IF Failed(r) THEN r ELSE result

(***************************************************************************)
(* Builtins.  The DefinitionId of a builtin is its place in PrimDef.       *)
(***************************************************************************)
PrimDefs == <<"int32", "bool", "float", "none", "range", "list", "ndarray", "Option", "Exception", "tuple", "virtual",
              "Auto", "Kernel", "KernelInvariant", "ConstGeneric", "Generic", "Literal", "len">>
PrimId(n) == CHOOSE i \in DOMAIN PrimDefs : PrimDefs[i] = n
builtin_num == Len(PrimDefs)
\* details(): these are classes whose get_ty_fn is unimplemented!(); "len" is a function.
Keywords == {"tuple", "virtual", "Auto", "Kernel", "KernelInvariant", "ConstGeneric", "Generic", "Literal"}
get_ty_fn(n) == IF n \in Keywords THEN Panic ELSE Prim(n)

builtin_name(e) == CASE e.k = "name" -> e.id
                     [] e.k = "sub" /\ e.of.k = "name" -> e.of.id
                     [] OTHER -> ""
match_builtin(e) == IF builtin_name(e) \in Range(PrimDefs) THEN builtin_name(e) ELSE ""
admits_type_annotation(registry, e) == registry = "catseq" => match_builtin(e) \in {"int32", "bool"}

\* The attributes of the primitive types: only these have any that differ from their definition's.
Params(n) == CASE n = "list" -> <<"list_elem">>
               [] n = "Option" -> <<"option_type_var">>
               [] n = "ndarray" -> <<"ndarray_dtype", "ndarray_ndims">>
               [] OTHER -> <<>>
Methods(n) == CASE n = "Option" -> {"is_some", "is_none", "unwrap"}
                [] n = "ndarray" -> {"copy", "fill"}
                [] OTHER -> {}
make_unifier(n) == CASE n = "range" -> [a \in {"start", "stop", "step"} |-> "field"]
                     [] n = "Exception" -> [a \in {"__message__", "__param0__"} |-> "mutable field"]
                     [] OTHER -> [a \in Methods(n) |-> "method"]

(***************************************************************************)
(* Definitions.                                                            *)
(***************************************************************************)
IsClass(d) == d.k = "class"
IsFunction(d) == d.k = "function"
HasAst(d) == d.ast.k # "absent"
\* The elements of s that are in T, in their order.
Selected(s, T) ==
  LET kept[n \in 0..Len(s)] == IF n = 0 THEN <<>> ELSE IF s[n] \in T THEN Append(kept[n - 1], s[n]) ELSE kept[n - 1]
  IN kept[Len(s)]
MethodsIn(ast) == Selected(ast.body, {m \in Range(ast.body) : m.k = "def"})
Defines(ast, m) == \E x \in Range(MethodsIn(ast)) : x.name = m
BodyOf(ast, m) == LET ms == MethodsIn(ast)
                  IN ms[CHOOSE i \in DOMAIN ms : ms[i].name = m /\ \A j \in 1..(i - 1) : ms[j].name # m].body
MethodId(d, m) == LET e == {x \in Range(d.methods) : x.name = m}
                  IN IF e = {} THEN 0 ELSE (CHOOSE x \in e : TRUE).id
multi_cartesian_product(sets) == {f \in [DOMAIN sets -> UNION Range(sets)] : \A i \in DOMAIN sets : f[i] \in sets[i]}

(***************************************************************************)
(* The composer's parser of annotations (type_annotation.rs), given what   *)
(* recurs: the class that `m.C` resolves to (resolved), and for a          *)
(* subscript the arguments as parsed where it stands (parts), as parsed    *)
(* for the class it names (params), and the type variables of the latter   *)
(* (vs).  `env` is what a parse looks at:                                  *)
(*   defs     the definitions, indexed by DefinitionId                     *)
(*   ids      what the resolver finds: name -> DefinitionId                *)
(*   tvars    type variable -> its range, a sequence of types              *)
(*   writing  the definitions that are locked for writing                  *)
(*   registry "default", "artiq" or "catseq"                               *)
(* Const generic variables are left out; so is the narrowing of a class's  *)
(* variable to the range of the variable it is applied to.                 *)
(***************************************************************************)
\* The type variables of a class, from `locked` when the class is being analysed.
TypeVarsOf(env, locked, id) ==
  CASE id \notin env.writing -> IF env.defs[id].k = "class" THEN <<"vars", env.defs[id].type_vars>> ELSE Error
    [] id \in env.writing /\ id \in DOMAIN locked -> <<"vars", locked[id]>>
    [] OTHER -> Panic
\* What is locked while the arguments of a class are parsed.
WithClass(env, locked, id) ==
  [c \in DOMAIN locked \cup {id} |-> IF c = id THEN TypeVarsOf(env, locked, id)[2] ELSE locked[c]]
\* A type variable without a bound counts as in scope wherever it stands.
InScope(env, vs, locked) ==
  \A v \in vs : \/ v = AutoVar \/ env.tvars[v[2]] = <<>>
                \/ \E c \in DOMAIN locked : v \in Range(locked[c])

class_def_id(env, locked, id, params, vs) ==
  IF id \notin DOMAIN env.defs THEN Error
  ELSE LET vars == TypeVarsOf(env, locked, id)
       IN IF Failed(vars) THEN vars
          ELSE IF Len(vars[2]) # Len(params) THEN Error
          ELSE Then(FirstFailure(params), IF InScope(env, vs, WithClass(env, locked, id)) THEN CustomClass(id, params) ELSE Error)

parse_name(env, locked, e) ==
  LET n == match_builtin(e)
  IN CASE n = "Auto" -> AutoVar
       [] n = "Exception" -> CustomClass(PrimId(n), <<>>)
       [] n # "" /\ n # "len" /\ n \notin {"Auto", "Exception"} -> get_ty_fn(n)
       [] OTHER -> IF e.id \in DOMAIN env.ids THEN class_def_id(env, locked, env.ids[e.id], <<>>, {})
                   ELSE IF e.id \in DOMAIN env.tvars THEN TypeVar(e.id) ELSE Error

\* The class that a subscript names.
ClassNamed(env, e, resolved) ==
  CASE e.of.k = "attr" -> resolved
    [] e.of.k # "attr" /\ match_builtin(e.of) # "" -> <<"id", PrimId(match_builtin(e.of))>>
    [] OTHER -> IF e.of.id \in DOMAIN env.ids THEN <<"id", env.ids[e.of.id]>> ELSE Error
parse_class_id(env, locked, e, resolved, params, vs) ==
  IF match_builtin(e.of) \in {"Auto", "Kernel", "KernelInvariant", "ConstGeneric", "none"} THEN Error
  ELSE Then(ClassNamed(env, e, resolved), class_def_id(env, locked, ClassNamed(env, e, resolved)[2], params, vs))

parse_subscript(env, locked, e, resolved, parts, params, vs) ==
  LET n == match_builtin(e.of)
      all == FirstFailure(parts)
  IN CASE n = "virtual" -> Then(all, IF parts[1][1] = "class" THEN Virtual(parts[1]) ELSE Panic)
       [] n = "Option" -> Then(all, CustomClass(PrimId(n), <<parts[1]>>))
       [] n = "tuple" -> Then(all, Tuple_(parts))
       [] n = "Literal" ->
            Then(all, IF \E i \in DOMAIN parts : parts[i][1] # "literal" THEN Panic
                      ELSE IF Len(parts) = 1 THEN parts[1] ELSE Error)
       [] n \notin {"virtual", "Option", "tuple", "Literal"} /\ e.of.k \in {"name", "attr"} ->
            parse_class_id(env, locked, e, resolved, params, vs)
       [] OTHER -> Error

AnnotationOf(env, locked, e, resolved, parts, params, vs) ==
  IF ~admits_type_annotation(env.registry, e) THEN Error
  ELSE CASE e.k = "name" -> parse_name(env, locked, e)
         [] e.k = "sub" -> parse_subscript(env, locked, e, resolved, parts, params, vs)
         [] e.k = "const" -> Literal(<<e.v>>)
         [] e.k = "attr" -> Then(resolved, class_def_id(env, locked, resolved[2], <<>>, {}))
         [] OTHER -> Error
================================================================================
