-------------------------- MODULE UnifierReference --------------------------
(***************************************************************************)
(* What unification promises: after every call the table stands for the    *)
(* least equivalence of types that contains every pair it agreed to, and   *)
(* it refuses a pair exactly when there is no such equivalence.  The       *)
(* reference is computed from the types as they were registered and from   *)
(* the history alone, by congruence closure, without the table.            *)
(***************************************************************************)
EXTENDS Unifier

types == program.types
Original == DOMAIN types

\* The rules for tuples, from the comment in unify_impl.
TupleConsequences(x, y) ==
    IF x.vararg = y.vararg THEN {<<x.ty[i], y.ty[i]>> : i \in DOMAIN Zip(x.ty, y.ty)}
    ELSE IF y.vararg THEN {<<x.ty[i], y.ty[1]>> : i \in DOMAIN x.ty} ELSE {}

FieldConsequences(x, y) == {<<x.fields[k].ty, y.fields[k].ty>> : k \in DOMAIN x.fields \cap DOMAIN y.fields}

IndexConsequences(x, y) ==
    IF IsList(y) THEN {<<x.fields[k].ty, y.params[1]>> : k \in {f \in DOMAIN x.fields : IsIndex(f)}}
    ELSE {<<x.fields[k].ty, y.ty[(k.index % Len(y.ty)) + 1]>> :
              k \in {f \in DOMAIN x.fields : IsIndex(f) /\ Len(y.ty) > 0}}

\* How the arguments of a call are bound: the parameter of each argument, by position or name.
Bound(call, f) ==
    {<<f.args[i].ty, call.posargs[i]>> : i \in DOMAIN Zip(f.args, call.posargs)}
      \cup {<<Last(f.args).ty, call.posargs[i]>> : i \in {j \in DOMAIN call.posargs : j > Len(f.args) /\ Len(f.args) > 0}}
      \cup {<<f.args[i].ty, call.kwargs[f.args[i].name]>> :
                i \in {j \in DOMAIN f.args : f.args[j].name \in DOMAIN call.kwargs}}

\* ProgramReturns: whether the result of a call is the function's result, for operators too.
CallConsequences(call, key, f, ProgramReturns) ==
    Bound(call, f) \cup {<<call.fun, key>>}
      \cup (IF ProgramReturns \/ ~call.operator THEN {<<call.ret, f.ret>>} ELSE {})

BadCall(call, f) ==
    LET n == Len(f.args)
        Given == {f.args[i].name : i \in 1..Len(Zip(f.args, call.posargs))}
        Names == {f.args[i].name : i \in DOMAIN f.args}
    IN  \/ Len(call.posargs) > n /\ \A i \in DOMAIN f.args : ~f.args[i].vararg
        \/ DOMAIN call.kwargs \ Names # {} \/ DOMAIN call.kwargs \cap Given # {}
        \/ \E i \in DOMAIN f.args : f.args[i].required /\ f.args[i].name \notin Given \cup DOMAIN call.kwargs

\* The equations that follow from the equality of the types registered as i and j.
Consequences(i, j, ProgramReturns) ==
    LET x == types[i]
        y == types[j]
        Tags(s, t) == x.tag = s /\ y.tag = t
    IN  CASE Tags("TObj", "TObj") -> IF x.id = y.id THEN ToSet(Zip(x.params, y.params)) ELSE {}
          [] Tags("TTuple", "TTuple") -> TupleConsequences(x, y)
          [] Tags("TVirtual", "TVirtual") -> {<<x.ty, y.ty>>}
          [] Tags("TFunc", "TFunc") -> {<<x.ret, y.ret>>}
                \cup {<<x.args[k].ty, y.args[k].ty>> : k \in DOMAIN Zip(x.args, y.args)}
          [] IsRecord(x) /\ IsRecord(y) -> FieldConsequences(x, y)
          [] IsRecord(x) /\ y.tag = "TObj" -> FieldConsequences(x, y) \cup IF IsList(y) THEN IndexConsequences(x, y) ELSE {}
          [] IsRecord(x) /\ y.tag = "TTuple" -> IndexConsequences(x, y)
          [] IsRecord(x) /\ y.tag = "TVirtual" -> FieldConsequences(x, types[y.ty])
          [] Tags("TCall", "TFunc") /\ y.vars = <<>> ->
                UNION {CallConsequences(program.calls[c], j, y, ProgramReturns) : c \in ToSet(x.calls)}
          [] OTHER -> {}

BadTuples(x, y) == ~x.vararg /\ ~y.vararg /\ Len(x.ty) # Len(y.ty)

BadUse(x, y, k) ==
    CASE y.tag = "TObj" -> IF IsIndex(k) THEN ~IsList(y)
                           ELSE k \in DOMAIN y.fields => x.fields[k].mutable /\ ~y.fields[k].mutable
      [] y.tag = "TTuple" -> IF IsIndex(k) THEN x.fields[k].mutable \/ k.index \notin -Len(y.ty)..Len(y.ty) - 1
                             ELSE k.name \notin {"__eq__", "__ne__"}
      [] y.tag = "TVirtual" -> IF IsIndex(k) THEN TRUE
                               ELSE \/ k \notin DOMAIN types[y.ty].fields \/ x.fields[k].mutable
                                    \/ types[types[y.ty].fields[k].ty].tag # "TFunc"
      [] OTHER -> TRUE

\* Two types that cannot be equal, whatever their parts are.
Clash(i, j) ==
    LET x == types[i]
        y == types[j]
    IN  IF IsRecord(x) /\ ~IsVar(y) THEN \E k \in DOMAIN x.fields : BadUse(x, y, k)
        ELSE IF IsVar(x) \/ IsVar(y) THEN FALSE
        ELSE CASE x.tag = "TTuple" /\ y.tag = "TTuple" -> BadTuples(x, y)
               [] x.tag = "TObj" /\ y.tag = "TObj" -> x.id # y.id
               [] x.tag = "TCall" /\ y.tag = "TFunc" -> y.vars = <<>> /\ \E c \in ToSet(x.calls) : BadCall(program.calls[c], y)
               [] {x.tag, y.tag} = {"TCall", "TFunc"} -> FALSE
               [] OTHER -> x.tag # y.tag \/ (x.tag = "TRigidVar" /\ i # j)

-----------------------------------------------------------------------------
(* Congruence closure.  A partition is the set of its classes.             *)

Join(p, classes) ==
    LET Touched == {c \in classes : p[1] \in c \/ p[2] \in c}
    IN  (classes \ Touched) \cup {UNION Touched}

RECURSIVE Closed(_, _)
Closed(classes, ProgramReturns) ==
    LET Implied == UNION {Consequences(p[1], p[2], ProgramReturns) : p \in UNION {c \X c : c \in classes}}
        Pending == {q \in Implied : \A c \in classes : q[1] \in c => q[2] \notin c}
    IN  IF Pending = {} THEN classes ELSE Closed(FoldSet(Join, classes, Pending), ProgramReturns)

Least(pairs, ProgramReturns) == Closed(FoldSet(Join, {{k} : k \in Original}, pairs), ProgramReturns)

\* A type in the range of a variable can be the type that the class of k stands for.
RECURSIVE Fits(_, _, _)
Fits(classes, r, k) ==
    LET Concrete == {m \in UNION {c \in classes : k \in c} : ~IsVar(types[m])}
        Same(m) == LET x == types[r]
                       y == types[m]
                   IN  IF x.tag # y.tag THEN FALSE
                       ELSE IF x.tag = "TObj" THEN x.id = y.id /\ \A i \in DOMAIN x.params : Fits(classes, x.params[i], y.params[i])
                       ELSE IF x.tag = "TTuple" THEN Len(x.ty) = Len(y.ty) /\ \A i \in DOMAIN x.ty : Fits(classes, x.ty[i], y.ty[i])
                       ELSE r = m
    IN  \A m \in Concrete : Same(m)

\* Every class has a type that the range of each of its variables admits.
InRange(classes) ==
    \A c \in classes :
        LET Ranged == {v \in c : IsVar(types[v]) /\ types[v].range # <<>>}
        IN  Ranged # {} =>
              \E r \in UNION {ToSet(types[v].range) : v \in Ranged} :
                  /\ Fits(classes, r, CHOOSE k \in c : TRUE)
                  /\ \A v \in Ranged : \E q \in ToSet(types[v].range) : Fits(classes, q, r)

Consistent(classes) ==
    /\ \A c \in classes : \A i, j \in c : ~Clash(i, j)
    /\ InRange(classes)

-----------------------------------------------------------------------------
(* Properties.                                                             *)

Table == unifier.table

\* What the code takes for granted of operator calls is whether their result is the method's;
\* the first properties leave that out, OperatorsAreCalls is about it.
Agreed == Least(agreed, FALSE)

\* The reference knows no instances of polymorphic functions: they are the matter of
\* CallsInstantiate.
Monomorphic == \A k \in Original : types[k].tag = "TFunc" => types[k].vars = <<>>

\* Every pair `unify` has agreed to, and everything that follows from it (the elements of equal
\* lists, the arguments and results of calls, the attributes used), is equal in the table; a
\* type that is known stays known; and what has been agreed to has no contradiction.
Sound ==
    /\ \A c \in Agreed : \A x, y \in c : Unioned(Table, x, y)
    /\ \A x \in Original : types[x].tag \in {"TObj", "TTuple", "TVirtual", "TFunc"} =>
           ValueOf(Table, x).tag = types[x].tag
    /\ Consistent(Agreed)

\* The table equates no two registered types without a reason: they follow from what was agreed.
MostGeneral ==
    LET classes == Agreed
    IN  Monomorphic => \A x, y \in Original : Unioned(Table, x, y) => \E c \in classes : x \in c /\ y \in c

\* `unify` refuses only what contradicts what it has agreed to before.
Complete ==
    Monomorphic /\ unifier.status = "Err" => ~Consistent(Least(agreed \cup {Last(asked)}, FALSE))

\* A failed `unify`, however deep the failure, leaves every type as it was, the log as well,
\* though finds, unions and nested calls have changed the table on the way.
RollbackExact ==
    [][asked' # asked /\ unifier'.status = "Err" =>
          /\ SameMeaning(Table, Table', Keys(Table))
          /\ Table'.log = Table.log]_vars

\* Moving the unifier to another thread, which drops every value but the roots', keeps what
\* every type stands for; so does path splitting.
ShareKeepsMeaning ==
    [][asked' = asked => SameMeaning(Table, Table', Keys(Table))]_vars

\* Between two calls no snapshot is open and the log holds no marker, so that the next
\* outermost snapshot is the only one that can be restored; every find ends and finds a value;
\* and neither the assertions of the snapshots nor an index or an unwrap fails.
Quiescent ==
    /\ unifier.snapshot = NoSnapshot
    /\ \A i \in DOMAIN Table.log : Table.log[i].kind # "Marker"
    /\ RanksGrow(Table)
    /\ \A k \in Keys(Table) : ValueOf(Table, k) # NoValue
    /\ unifier.status # "panic"

\* A function with type variables is used through instances: once its calls have been checked,
\* each call has a signature of its own that mirrors the function's, with one type for each
\* variable, and whose parameters and result are the call's; the variables of the function
\* itself stay free, so that the next call is not bound by the last.
RECURSIVE Mirrors(_, _, _)
Mirrors(f, g, p) ==
    LET x == ValueOf(Table, p[1])
        y == ValueOf(Table, p[2])
    IN  \/ \E i \in DOMAIN f.vars : Unioned(Table, p[1], f.vars[i].ty) /\ Unioned(Table, p[2], g.vars[i].ty)
        \/ x = y
        \/ IsList(x) /\ IsList(y) /\ Mirrors(f, g, <<x.params[1], y.params[1]>>)
        \/ x.tag = "TTuple" /\ y.tag = "TTuple" /\ \A q \in ToSet(Zip(x.ty, y.ty)) : Mirrors(f, g, q)

Instantiates(call, f) ==
    LET g == ValueOf(Table, call.fun)
    IN  /\ g.tag = "TFunc"
        /\ Mirrors(f, g, <<f.ret, g.ret>>)
        /\ \A i \in DOMAIN f.args : Mirrors(f, g, <<f.args[i].ty, g.args[i].ty>>)
        /\ \A q \in Bound(call, g) \cup {<<call.ret, g.ret>>} : Unioned(Table, q[1], q[2])

CallsInstantiate ==
    \A k, m \in Original :
        types[k].tag = "TCall" /\ types[m].tag = "TFunc" /\ Unioned(Table, k, m) =>
            /\ \A c \in ToSet(types[k].calls) : Instantiates(program.calls[c], types[m])
            /\ \A i \in DOMAIN types[m].vars : ValueOf(Table, types[m].vars[i].ty) = types[types[m].vars[i].ty]

-----------------------------------------------------------------------------
(* What a comment of the code promises and the code does not do.           *)

\* A binary operation is the call of the method it is written for, result included
\* (typedef/mod.rs:760-761).
OperatorsAreCalls == Consistent(Least(agreed, TRUE))
=============================================================================
