--------------------------- MODULE ComposerReference ---------------------------
(***************************************************************************)
(* What Python does with the classes of a program the composer accepts.    *)
(***************************************************************************)
EXTENDS Composer

A == INSTANCE Analyses

CONSTANT Annotations      \* expressions that both parsers of annotations are given

Classes == {i \in DOMAIN defs : IsClass(defs[i]) /\ HasAst(defs[i])}
PythonBase(id) ==
  LET bs == SelectSeq(defs[id].ast.bases, LAMBDA b : ~has_generic_ann(b))
      n == builtin_name(bs[1])
      found == scopes[defs[id].mod]
  IN IF bs = <<>> THEN 0 ELSE IF n \in DOMAIN found THEN found[n] ELSE PrimId(n)
RECURSIVE PythonMRO(_)
PythonMRO(id) == IF id \notin Classes \/ PythonBase(id) = 0 THEN <<id>> ELSE <<id>> \o PythonMRO(PythonBase(id))

\* Where Python finds a method: the nearest class that defines it, 0 if none does.
PythonOwner(id, m) == LET owners == SelectSeq(PythonMRO(id), LAMBDA c : c \in Classes /\ Defines(defs[c].ast, m))
                      IN IF owners = <<>> THEN 0 ELSE owners[1]
DefinedHere(c, m) == CHOOSE f \in DOMAIN method_class : method_class[f] = c /\ defs[f].ast.name = m

\* Every class the composer accepts has the ancestors Python gives it; it finds
\* each method in the nearest class of the chain that defines it; the fields of
\* its parent come first in its layout (a virtual call passes a child where the
\* parent is expected); its constructor takes what the nearest __init__ takes.
ClassesAsPython ==
  pc = "done" =>
    \A c \in Classes :
      LET ancestors == {a[2] : a \in Range(defs[c].ancestors)}
          parent == PythonBase(c)
          exception == PrimId("Exception") \in ancestors
          init == PythonOwner(c, "__init__")
          seen == NamesOf(defs[c].methods) \cup UNION {NamesOf(MethodsIn(defs[b].ast)) : b \in Range(PythonMRO(c)) \cap Classes}
      IN /\ ancestors = Range(PythonMRO(c))
         /\ \A m \in seen \ (IF exception THEN {"__init__"} ELSE {}) :
              /\ PythonOwner(c, m) # 0
              /\ MethodId(defs[c], m) = DefinedHere(PythonOwner(c, m), m)
         /\ parent # 0 => IsPrefix(defs[parent].fields, defs[c].fields)
         /\ ~exception => defs[c].constructor.args = IF init = 0 THEN <<>> ELSE defs[DefinedHere(init, "__init__")].sig.args
         /\ exception => Len(Inits(defs[c])) = 1

\* A constructor the composer accepts leaves no field unassigned on any path that
\* does not raise.  Left out: the bodies with loops and try statements, of which
\* the source says that the body runs and the handlers do not; a method looked up
\* by a class name that two modules use; and an inherited __init__ that calls a
\* method of self, which the source looks up in the child and the compiled code
\* in the parent.
Bodies == {defs[f].ast.body : f \in DOMAIN method_class}
Comparable(c, init) ==
  /\ \A b \in Bodies : A!Straight(b)
  /\ \A d, e \in Classes : d # e => defs[d].ast.name # defs[e].ast.name
  /\ method_class[init] = c \/ ~A!CallsSelf(defs[init].ast.body)
FieldsInitialised ==
  pc = "done" =>
    \A c \in Classes :
      LET init == MethodId(defs[c], "__init__")
      IN init \in DOMAIN method_class /\ Comparable(c, init) =>
           \A w \in A!Ways(defs, method_class[init], method_class, defs[init].ast.body, MaxInline + 1) :
             w.end # "raise" => NamesOf(defs[c].fields) \subseteq w.set

\* The two parsers of annotations agree on what both accept: an object made in the
\* body of a function has the type its class's own fields and parameters name, with
\* the same attributes.  A name that is both a field and a method is left out: each
\* parser fills the map of attributes in its own order.
AnnotationsAgree ==
  pc = "done" =>
    \A mod \in DOMAIN scopes, e \in Annotations :
      LET env == Env(defs, mod, {})
          kind == parse_ast(env, <<>>, e)
          this == A!get_type(env, kind)
          other == A!parse_type_annotation(env, e)
          id == this[2]
      IN ~Failed(kind) /\ ~Failed(this) /\ ~Failed(other) =>
           /\ this = other
           /\ this[1] = "class" /\ IsClass(defs[id]) /\ NamesOf(defs[id].fields) \cap NamesOf(defs[id].methods) = {} =>
                A!Attributes(env, id) = A!NameAttributes(env, e, id)
================================================================================
