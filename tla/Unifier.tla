------------------------------ MODULE Unifier ------------------------------
(***************************************************************************)
(* The unification engine of the type checker                              *)
(* (nac3core/src/typecheck/typedef/mod.rs) over UnificationTable.          *)
(*                                                                         *)
(* A type is a key of the table; the value of its class is a TypeEnum.     *)
(* The engine runs on one thread, so that one call of `unify` is one step; *)
(* its recursion passes the unifier along as a record, the way the code    *)
(* passes &mut self.  The inputs are programs: the types and calls that    *)
(* type inference has registered, in the order of their keys.              *)
(***************************************************************************)
EXTENDS UnificationTable, Integers

CONSTANTS
    Programs,        \* programs: the types and calls registered, the pairs constrained
    List,            \* the object id of the primitive `list`
    MaxUnifies,      \* bound on the calls of `unify` in one behaviour
    MaxLog           \* bound on the log that probes outside `unify` leave

None == 0            \* Option<Type>::None; keys start at 1
Incompatible == -1   \* Err of get_intersection and check_var_compatibility

-----------------------------------------------------------------------------
(* The variants of TypeEnum this module knows (TLiteral and the constant   *)
(* generics, which need the values of literals, are left out).             *)

Str(s) == [name |-> s, index |-> 0]       \* RecordKey::Str
Int_(i) == [name |-> "", index |-> i]     \* RecordKey::Int
IsIndex(k) == k.name = ""

NoFields == [k \in {} |-> None]

TVar(id, named, range) ==
    [tag |-> "TVar", id |-> id, named |-> named, range |-> range, record |-> FALSE, fields |-> NoFields]
TRecord(id, fields) ==
    [tag |-> "TVar", id |-> id, named |-> FALSE, range |-> <<>>, record |-> TRUE, fields |-> fields]
TRigidVar(id) == [tag |-> "TRigidVar", id |-> id]
TObj(id, params, fields) == [tag |-> "TObj", id |-> id, params |-> params, fields |-> fields]
TTuple(ty, vararg) == [tag |-> "TTuple", ty |-> ty, vararg |-> vararg]
TVirtual(ty) == [tag |-> "TVirtual", ty |-> ty]
TFunc(args, ret, vars) ==   \* vars: pairs of a variable's id and its type
    [tag |-> "TFunc", args |-> args, ret |-> ret, vars |-> vars]
TCall(calls) == [tag |-> "TCall", calls |-> calls]

IsVar(v) == v.tag = "TVar"
IsPlainVar(v) == IsVar(v) /\ ~v.record
IsRecord(v) == IsVar(v) /\ v.record
IsList(v) == v.tag = "TObj" /\ v.id = List

VARIABLES
    unifier,   \* table, calls, var_id_counter, unify_cache and snapshot of the Unifier,
               \* and how the last call ended: Ok, Err or panic
    program,   \* what type inference asks of it
    asked,     \* history: the pairs `unify` was called with, in order
    agreed     \* history: those of them it returned Ok for

vars == <<unifier, program, asked, agreed>>

NoSnapshot == [log_len |-> 0, generation |-> 0]

Ok(u) == u.status = "Ok"
Fail(u) == [u EXCEPT !.status = "Err"]
Panic(u) == [u EXCEPT !.status = "panic"]
\* `.map_err(..)` and `if .. .is_err() { return Err(..) }` keep an Err an Err.

Type(u, k) == ValueOf(u.table, k)
Probe(u, k) == [u EXCEPT !.table = find(@, k)]
add_ty(u, v) == [u EXCEPT !.table = new_key(@, v)]
Newest(u) == Len(u.table.parents)

set_a_to_b(u, a, b) ==
    [u EXCEPT !.table = set_value(table_unify(find(@, b), a, b), a, ValueOf(@, b))]

\* A sequence of fallible steps, left at the first that does not return Ok.
Each(step(_, _), u, seq) ==
    FoldLeft(LAMBDA v, x : IF Ok(v) THEN step(v, x) ELSE v, u, seq)

\* What a check that r passes, or not, makes of it; and how most arms end.
Require(r, passes) == IF Ok(r) /\ ~passes THEN Fail(r) ELSE r
Equate(r, a, b) == IF Ok(r) THEN set_a_to_b(r, a, b) ELSE r

RECURSIVE unify_impl(_, _, _, _), get_intersection(_, _, _), subst_impl(_, _, _)

UnifyPairs(u, pairs) == Each(LAMBDA v, p : unify_impl(v, p[1], p[2], FALSE), u, pairs)

-----------------------------------------------------------------------------
(* Ranges.  get_intersection returns the unifier, since it registers       *)
(* types, and Incompatible, None (the first type will do) or a type.       *)

Answer(u, ty) == [u |-> u, ty |-> ty]
OrElse(ty, other) == IF ty = None THEN other ELSE ty
AnswerNew(u, v) == Answer(add_ty(u, v), Newest(u) + 1)

\* The first member of range whose intersection, taken by meet, is Ok.
FirstOk(meet(_, _), u, range) ==
    FoldLeft(LAMBDA r, t : IF r.ty = Incompatible /\ Ok(r.u) THEN meet(r.u, t) ELSE r,
             Answer(u, Incompatible), range)

\* Mutant: only the first type of a range is tried.
check_var_compatibility_FirstOnly(u, b, range) ==
    IF range = <<>> THEN Answer(u, None) ELSE get_intersection(u, range[1], b)

check_var_compatibility(u, b, range) ==
    IF range = <<>> THEN Answer(u, None)
    ELSE FirstOk(LAMBDA v, t : get_intersection(v, t, b), u, range)

\* The element-wise intersection of pairs, Incompatible when one of them is.
IntersectAll(u, pairs) ==
    FoldLeft(LAMBDA r, p :
                 IF r.failed \/ ~Ok(r.u) THEN r
                 ELSE LET one == get_intersection(r.u, p[1], p[2])
                      IN  [u |-> one.u, failed |-> one.ty = Incompatible, tys |-> Append(r.tys, one.ty)],
             [u |-> u, failed |-> FALSE, tys |-> <<>>], pairs)

\* The types in the range of x that meet one in the range of y, as far as they meet.
MeetRanges(u, x, y) ==
    FoldLeft(LAMBDA r, p : LET one == get_intersection(r.u, p[1], p[2])
                           IN  [u |-> one.u, range |-> IF one.ty = Incompatible THEN r.range
                                                       ELSE Append(r.range, OrElse(one.ty, p[1]))],
             [u |-> u, range |-> <<>>],
             FlattenSeq([i \in DOMAIN y.range |-> [j \in DOMAIN x.range |-> <<y.range[i], x.range[j]>>]]))

Unique(seq) == FoldLeft(LAMBDA s, t : IF t \in ToSet(s) THEN s ELSE Append(s, t), <<>>, seq)

NewRange(u, x, y, range) ==
    IF range = <<>> THEN Answer(u, Incompatible)
    ELSE AnswerNew([u EXCEPT !.var_id = @ + 1],
                   [y EXCEPT !.id = u.var_id + 1, !.range = range, !.named = y.named \/ x.named])

IntersectRanges(u, a, b, x, y) ==
    IF x.range = <<>> THEN Answer(u, b)
    ELSE IF y.range = <<>> THEN Answer(u, a)
    ELSE LET met == MeetRanges(u, x, y) IN NewRange(met.u, x, y, Unique(met.range))

\* The pairs whose intersections make up the intersection of two tuples.
TuplePairs(x, y) ==
    IF x.vararg THEN [i \in DOMAIN y.ty |-> <<x.ty[1], y.ty[i]>>]
    ELSE IF ~y.vararg THEN [i \in DOMAIN x.ty |-> <<x.ty[i], y.ty[1]>>]
    ELSE Zip(x.ty, y.ty)

\* The intersection of two wholes from that of their parts: the same answer unless it is a type,
\* which is wrapped again.
Wrapped(inner, wrap(_)) ==
    IF inner.ty \in {None, Incompatible} THEN inner ELSE AnswerNew(inner.u, wrap(inner.ty))

TupleMeet(all, x) ==
    IF all.failed THEN Answer(all.u, Incompatible)
    ELSE IF ToSet(all.tys) \subseteq {None} THEN Answer(all.u, None)
    ELSE AnswerNew(all.u, TTuple([i \in DOMAIN Zip(all.tys, x.ty) |-> OrElse(all.tys[i], x.ty[i])], FALSE))

IntersectTuples(u, x, y) ==
    CASE x.vararg /\ y.vararg ->
            Wrapped(get_intersection(u, x.ty[1], y.ty[1]), LAMBDA t : TTuple(<<t>>, TRUE))
      [] ~x.vararg /\ ~y.vararg /\ y.ty = <<>> -> Answer(Panic(u), Incompatible)
      [] ~x.vararg /\ y.vararg /\ Len(x.ty) # Len(y.ty) -> Answer(u, Incompatible)
      [] OTHER -> TupleMeet(IntersectAll(u, TuplePairs(x, y)), x)

IntersectValues(u, a, b, x, y) ==
    CASE IsVar(x) /\ IsVar(y) -> IntersectRanges(u, a, b, x, y)
      [] ~IsVar(x) /\ IsVar(y) ->
            IF y.range = <<>> THEN Answer(u, a)
            ELSE [FirstOk(LAMBDA v, t : get_intersection(v, a, t), u, y.range) EXCEPT !.ty = OrElse(@, a)]
      [] IsVar(x) /\ ~IsVar(y) -> check_var_compatibility(u, b, x.range)
      [] x.tag = "TTuple" /\ y.tag = "TTuple" -> IntersectTuples(u, x, y)
      [] IsList(x) /\ IsList(y) ->
            Wrapped(get_intersection(u, x.params[1], y.params[1]), LAMBDA t : [x EXCEPT !.params = <<t>>])
      [] x.tag = "TVirtual" /\ y.tag = "TVirtual" -> Wrapped(get_intersection(u, x.ty, y.ty), TVirtual)
      [] x.tag = "TObj" /\ y.tag = "TObj" /\ x.id = y.id /\ ~IsList(x) -> Answer(u, None)
      [] OTHER -> Answer(u, Incompatible)

get_intersection(u0, a, b) ==
    LET u == Probe(Probe(u0, a), b) IN IntersectValues(u, a, b, Type(u, a), Type(u, b))

-----------------------------------------------------------------------------
(* Instantiation of a polymorphic signature: every type variable of the    *)
(* function that is still itself is replaced by a fresh one.  mapping is a *)
(* function from variable ids to types; subst answers with None where      *)
(* nothing has to be replaced.  u.subst is the cache of the call: a key    *)
(* mapped to None is an object whose copy is being made.                   *)

fresh_var(u, named, range) ==
    [add_ty(u, TVar(u.var_id + 1, named, range)) EXCEPT !.var_id = @ + 1]

SubstEach(u, mapping, tys) ==
    FoldLeft(LAMBDA r, t : LET one == subst_impl(r.u, t, mapping)
                           IN  [u |-> one.u, new |-> r.new \/ one.ty # None,
                                tys |-> Append(r.tys, OrElse(one.ty, t))],
             [u |-> u, new |-> FALSE, tys |-> <<>>], tys)

FieldSeq(fields) == SetToSeq(DOMAIN fields)

\* The types a type is made of, in the order subst_impl visits them, and the type rebuilt from others.
Parts(ty) ==
    CASE ty.tag = "TTuple" -> ty.ty
      [] ty.tag = "TVirtual" -> <<ty.ty>>
      [] ty.tag = "TObj" -> ty.params \o [i \in DOMAIN FieldSeq(ty.fields) |-> ty.fields[FieldSeq(ty.fields)[i]].ty]
      [] ty.tag = "TFunc" -> [i \in DOMAIN ty.vars |-> ty.vars[i].ty] \o <<ty.ret>>
                                \o [i \in DOMAIN ty.args |-> ty.args[i].ty]
      [] OTHER -> <<>>

Rebuilt(ty, parts) ==
    LET n == CASE ty.tag = "TObj" -> Len(ty.params) [] ty.tag = "TFunc" -> Len(ty.vars) [] OTHER -> 0
        FieldPart(k) == parts[n + CHOOSE i \in DOMAIN FieldSeq(ty.fields) : FieldSeq(ty.fields)[i] = k]
    IN  CASE ty.tag = "TTuple" -> [ty EXCEPT !.ty = parts]
          [] ty.tag = "TVirtual" -> TVirtual(parts[1])
          [] ty.tag = "TObj" -> [ty EXCEPT !.params = SubSeq(parts, 1, n),
                                           !.fields = [k \in DOMAIN @ |-> [@[k] EXCEPT !.ty = FieldPart(k)]]]
          [] ty.tag = "TFunc" -> [ty EXCEPT !.vars = [i \in DOMAIN @ |-> [@[i] EXCEPT !.ty = parts[i]]],
                                            !.ret = parts[n + 1],
                                            !.args = [i \in DOMAIN @ |-> [@[i] EXCEPT !.ty = parts[n + 1 + i]]]]

\* A parameter asks for substitution when it is a mapped variable or itself generic.
NeedsSubst(u, mapping, p) ==
    LET v == Type(u, p)
    IN  \/ IsVar(v) /\ v.id \in DOMAIN mapping
        \/ v.tag = "TObj" /\ v.params # <<>>

\* An object is cached before its parts are visited: a part that refers to it gets a variable,
\* which is unified with the copy in the end.
CloseCopy(u, a, copy) ==
    LET closed == unify_impl(u, copy, u.subst[a], FALSE)
    IN  IF u.subst[a] = None THEN Answer([u EXCEPT !.subst[a] = copy], copy)
        ELSE Answer(IF Ok(closed) THEN closed ELSE Panic(closed), copy)

SubstObject(u, a, ty, mapping) ==
    LET parts == SubstEach([FoldLeft(Probe, u, ty.params) EXCEPT !.subst = @ @@ (a :> None)], mapping, Parts(ty))
    IN  CloseCopy(add_ty(parts.u, Rebuilt(ty, parts.tys)), a, Newest(parts.u) + 1)

SubstParts(parts, ty) == IF parts.new THEN AnswerNew(parts.u, Rebuilt(ty, parts.tys)) ELSE Answer(parts.u, None)

SubstValue(u, a, ty, mapping) ==
    CASE ty.tag = "TRigidVar" -> Answer(u, None)
      [] ty.tag = "TVar" -> Answer(u, IF ty.id \in DOMAIN mapping THEN mapping[ty.id] ELSE None)
      [] ty.tag = "TObj" /\ \E i \in DOMAIN ty.params : NeedsSubst(u, mapping, ty.params[i]) ->
            SubstObject(u, a, ty, mapping)
      [] ty.tag = "TObj" /\ \A i \in DOMAIN ty.params : ~NeedsSubst(u, mapping, ty.params[i]) ->
            Answer(FoldLeft(Probe, u, ty.params), None)
      [] ty.tag \in {"TTuple", "TVirtual", "TFunc"} -> SubstParts(SubstEach(u, mapping, Parts(ty)), ty)
      [] OTHER -> Answer(Panic(u), None)

\* A type whose copy is being made is answered by a variable, which the cache keeps.
subst_impl(u, a, mapping) ==
    CASE a \in DOMAIN u.subst /\ u.subst[a] # None -> Answer(u, u.subst[a])
      [] a \in DOMAIN u.subst /\ u.subst[a] = None ->
            Answer([fresh_var(u, FALSE, <<>>) EXCEPT !.subst[a] = Newest(u) + 1], Newest(u) + 1)
      [] OTHER -> SubstValue(Probe(u, a), a, Type(u, a), mapping)

\* Mutant: calls use the polymorphic signature itself.
instantiate_fun_Shared(u0, ty, signature) == Answer(u0, ty)

\* A variable of the signature is uninstantiated while its value is a TVar of its own id.
Uninstantiated(u, params) == SelectSeq(params, LAMBDA x : IsVar(Type(u, x.ty)) /\ Type(u, x.ty).id = x.id)

Freshened(u, params) ==
    FoldLeft(LAMBDA r, x : LET v == Type(r.u, x.ty)
                           IN  [u |-> fresh_var(r.u, v.named, v.range), mapping |-> (x.id :> Newest(r.u) + 1) @@ r.mapping],
             [u |-> u, mapping |-> [j \in {} |-> None]], params)

SubstSignature(fresh, ty) ==
    [subst_impl([Probe(fresh.u, ty) EXCEPT !.subst = [k \in {} |-> None]], Root(fresh.u.table, ty), fresh.mapping)
        EXCEPT !.ty = OrElse(@, ty)]

InstantiateVars(u, ty, params) ==
    IF params = <<>> THEN Answer(u, ty) ELSE SubstSignature(Freshened(u, params), ty)

instantiate_fun(u0, ty, signature) ==
    LET u == FoldLeft(LAMBDA v, x : Probe(v, x.ty), u0, signature.vars)
    IN  InstantiateVars(u, ty, Uninstantiated(u, signature.vars))

-----------------------------------------------------------------------------
(* unify_impl, one operator per pattern of the two values.                 *)

\* An attribute of x is used as an attribute of y: the arms of a record and a known type.
RecordOnTuple(u, x, y) ==
    LET Index(k) == IF k.index < 0 THEN Len(y.ty) + k.index ELSE k.index
        Use(v, k) == IF ~IsIndex(k) THEN IF k.name \in {"__eq__", "__ne__"} THEN v ELSE Fail(v)
                     ELSE IF x.fields[k].mutable \/ Index(k) \notin 0..Len(y.ty) - 1 THEN Fail(v)
                     ELSE unify_impl(v, x.fields[k].ty, y.ty[Index(k) + 1], FALSE)
    IN  Each(Use, u, FieldSeq(x.fields))

RecordOnObject(u, x, y) ==
    LET Use(v, k) == IF IsIndex(k) THEN IF IsList(y) THEN unify_impl(v, x.fields[k].ty, y.params[1], FALSE)
                                        ELSE Fail(v)
                     ELSE IF k \notin DOMAIN y.fields THEN Fail(v)
                     ELSE IF x.fields[k].mutable /\ ~y.fields[k].mutable THEN Fail(v)
                     ELSE unify_impl(v, x.fields[k].ty, y.fields[k].ty, FALSE)
    IN  Each(Use, u, FieldSeq(x.fields))

RecordOnVirtual(u, x, y) ==
    LET object == Type(u, y.ty)
        Use(v, k) == IF IsIndex(k) \/ k \notin DOMAIN object.fields \/ x.fields[k].mutable THEN Fail(v)
                     ELSE IF Type(v, object.fields[k].ty).tag # "TFunc" THEN Fail(v)
                     ELSE unify_impl(v, x.fields[k].ty, object.fields[k].ty, FALSE)
    IN  IF object.tag = "TObj" THEN Each(Use, u, FieldSeq(x.fields)) ELSE Fail(u)

\* A type variable takes b, narrowed to its range.
NarrowTo(compatible, a, b) ==
    IF ~Ok(compatible.u) THEN compatible.u
    ELSE IF compatible.ty = Incompatible THEN Fail(compatible.u)
    ELSE LET x == OrElse(compatible.ty, b) IN Equate(unify_impl(compatible.u, x, b, FALSE), a, x)

Constrain(u, a, b, range) == IF Ok(u) THEN NarrowTo(check_var_compatibility(u, b, range), a, b) ELSE u

\* Two variables become one, with the range both admit.
JoinVars(met, a, b, x, y, new_fields) ==
    LET v == Probe(met.u, met.ty)
        new == [tag |-> "TVar", id |-> IF x.named THEN x.id ELSE y.id, named |-> x.named \/ y.named,
                range |-> Type(v, met.ty).range, record |-> y.record, fields |-> new_fields]
    IN  IF ~Ok(met.u) THEN met.u
        ELSE IF met.ty = Incompatible THEN Fail(met.u)
        ELSE [v EXCEPT !.table = set_value(table_unify(@, a, b), a, new)]

IntersectVars(u, a, b, x, y, new_fields) ==
    IF Ok(u) THEN JoinVars(get_intersection(u, a, b), a, b, x, y, new_fields) ELSE u

\* Mutant: the attributes used of one of two variables are forgotten.
UnifyVars_FieldsOfB(u, a, b, x, y) ==
    IF x.record /\ ~y.record THEN unify_impl(u, b, a, TRUE) ELSE IntersectVars(u, a, b, x, y, y.fields)

UnifyVars(u, a, b, x, y) ==
    LET Common == SelectSeq(FieldSeq(x.fields), LAMBDA k : k \in DOMAIN y.fields)
        Merged(k) == IF k \notin DOMAIN x.fields THEN y.fields[k]
                     ELSE IF k \notin DOMAIN y.fields THEN x.fields[k]
                     ELSE [x.fields[k] EXCEPT !.mutable = @ \/ y.fields[k].mutable]
    IN  IF x.record /\ ~y.record THEN unify_impl(u, b, a, TRUE)
        ELSE IntersectVars(Each(LAMBDA v, k : unify_impl(v, x.fields[k].ty, y.fields[k].ty, FALSE), u, Common),
                           a, b, x, y, [k \in DOMAIN x.fields \cup DOMAIN y.fields |-> Merged(k)])

\* The pairs of elements two tuples are compared by.
ElementPairs(x, y) ==
    IF ~x.vararg /\ y.vararg THEN [i \in DOMAIN y.ty |-> <<x.ty[1], y.ty[i]>>] ELSE Zip(x.ty, y.ty)

UnifyTuples(u, a, b, x, y) ==
    IF x.vararg /\ ~y.vararg THEN Fail(u)
    ELSE IF ~x.vararg /\ ~y.vararg /\ Len(x.ty) # Len(y.ty) THEN Fail(u)
    ELSE IF ~x.vararg /\ y.vararg /\ x.ty = <<>> THEN Panic(u)
    ELSE Equate(UnifyPairs(u, ElementPairs(x, y)), a, b)

UnifyObjects(u, a, b, x, y) ==
    IF x.id # y.id THEN Fail(u) ELSE Equate(UnifyPairs(u, Zip(x.params, y.params)), a, b)

UnifyFunctions(u, a, b, x, y) ==
    LET Compare(v, p) == IF p[1].name # p[2].name \/ p[1].required # p[2].required THEN Fail(v)
                         ELSE unify_impl(v, p[1].ty, p[2].ty, FALSE)
    IN  IF x.vars # <<>> \/ y.vars # <<>> \/ Len(x.args) # Len(y.args) THEN Fail(u)
        ELSE Equate(UnifyPairs(Each(Compare, u, Zip(x.args, y.args)), <<<<x.ret, y.ret>>>>), a, b)

-----------------------------------------------------------------------------
(* Snapshots of the unifier: only the outermost one is kept.               *)

TakeSnapshot(u) ==
    [u EXCEPT !.table = get_snapshot(@),
              !.snapshot = IF @ = NoSnapshot THEN snapshot_of(u.table) ELSE @]

\* Mutant: a failure forgets its snapshot.
Restore_Forgotten(u) == [u EXCEPT !.snapshot = NoSnapshot]

Restore(u) ==
    IF u.snapshot = NoSnapshot THEN u
    ELSE IF ~SnapshotValid(u.table, u.snapshot) THEN Panic(u)
    ELSE [u EXCEPT !.table = restore_snapshot(@, u.snapshot), !.snapshot = NoSnapshot]

\* Mutant: a nested call discards the log of the outermost one.
Discard_Always(u, snapshot) ==
    IF ~SnapshotValid(u.table, snapshot) THEN Panic(u)
    ELSE [u EXCEPT !.table = discard_snapshot(@), !.snapshot = NoSnapshot]

Discard(u, snapshot) ==
    IF u.snapshot # snapshot \/ u.status = "panic" THEN u
    ELSE IF ~SnapshotValid(u.table, snapshot) THEN Panic(u)
    ELSE [u EXCEPT !.table = discard_snapshot(@), !.snapshot = NoSnapshot]

-----------------------------------------------------------------------------
(* A call meets the signature of a function.                               *)

CheckOperand(u, call, signature) ==
    IF Len(call.posargs) # 1 \/ DOMAIN call.kwargs # {} \/ Len(signature.args) # 1 THEN Panic(u)
    ELSE unify_impl(u, signature.args[1].ty, call.posargs[1], FALSE)

CheckArguments(u, call, signature) ==
    LET args == signature.args
        positional == Zip(args, call.posargs)
        extra == SubSeq(call.posargs, Len(args) + 1, Len(call.posargs))
        Supplied == {positional[i][1].name : i \in DOMAIN positional}
        Named(k) == {i \in DOMAIN args : args[i].name = k}
        Keyword(v, k) == IF Named(k) = {} \/ k \in Supplied THEN Fail(v)
                         ELSE unify_impl(v, args[CHOOSE i \in Named(k) : TRUE].ty, call.kwargs[k], FALSE)
        Missing == \E i \in DOMAIN args : args[i].required /\ args[i].name \notin Supplied \cup DOMAIN call.kwargs
    IN  IF extra # <<>> /\ \A i \in DOMAIN args : ~args[i].vararg THEN Fail(u)
        ELSE UnifyPairs(Require(Each(Keyword,
                                     UnifyPairs(u, [i \in DOMAIN positional |-> <<positional[i][1].ty, positional[i][2]>>]
                                                   \o [i \in DOMAIN extra |-> <<Last(args).ty, extra[i]>>]),
                                     SetToSeq(DOMAIN call.kwargs)),
                                ~Missing),
                        <<<<call.ret, signature.ret>>>>)

\* How a call that has been checked ends; a failure restores the snapshot, if it is still open.
EndCall(checked, call, instance, snapshot) ==
    IF Ok(checked) THEN Discard(set_a_to_b(checked, call.fun, instance), snapshot)
    ELSE IF checked.status = "Err" THEN Restore(checked) ELSE checked

CheckCall(u, call, signature) ==
    IF ~Ok(u) THEN u
    ELSE IF call.operator THEN CheckOperand(u, call, signature)
    ELSE CheckArguments(u, call, signature)

unify_call(u, call, b, declared) ==
    LET instance == instantiate_fun(TakeSnapshot(u), b, declared)
    IN  EndCall(CheckCall(Probe(instance.u, instance.ty), call, Type(instance.u, instance.ty)),
                call, instance.ty, snapshot_of(u.table))

UnifyCalls(u, a, b, x, y) ==
    Equate(Each(LAMBDA v, c : unify_call(v, v.calls[c], b, y), u, x.calls), a, b)

JoinCalls(u, a, b, x, y) ==
    [set_a_to_b(u, a, b) EXCEPT !.table = set_value(@, b, TCall(x.calls \o y.calls))]

UnifyValues(u, a, b, x, y, swapped) ==
    LET Tags(s, t) == x.tag = s /\ y.tag = t
    IN  CASE IsVar(x) /\ IsVar(y) -> UnifyVars(u, a, b, x, y)
          [] IsPlainVar(x) /\ ~IsVar(y) -> Constrain(u, a, b, x.range)
          [] IsRecord(x) /\ y.tag = "TTuple" -> Constrain(RecordOnTuple(u, x, y), a, b, x.range)
          [] IsRecord(x) /\ y.tag = "TObj" -> Constrain(RecordOnObject(u, x, y), a, b, x.range)
          [] IsRecord(x) /\ y.tag = "TVirtual" -> Constrain(RecordOnVirtual(u, x, y), a, b, x.range)
          [] IsRecord(x) /\ y.tag \in {"TRigidVar", "TCall", "TFunc"} -> Fail(u)
          [] Tags("TTuple", "TTuple") -> UnifyTuples(u, a, b, x, y)
          [] Tags("TObj", "TObj") -> UnifyObjects(u, a, b, x, y)
          [] Tags("TVirtual", "TVirtual") -> Equate(unify_impl(u, x.ty, y.ty, FALSE), a, b)
          [] Tags("TCall", "TCall") -> JoinCalls(u, a, b, x, y)
          [] Tags("TCall", "TFunc") -> UnifyCalls(u, a, b, x, y)
          [] Tags("TFunc", "TFunc") -> UnifyFunctions(u, a, b, x, y)
          [] OTHER -> IF swapped THEN Fail(u) ELSE unify_impl(u, b, a, TRUE)

UnifyPair(u0, a, b, swapped) ==
    LET u == Probe(Probe(u0, a), b) IN UnifyValues(u, a, b, Type(u, a), Type(u, b), swapped)

\* The cache holds the pairs whose unification has begun.
UnifyRoots(u, a, b, ra, rb) ==
    IF ra = rb \/ <<ra, rb>> \in u.cache THEN u
    ELSE UnifyPair([u EXCEPT !.cache = @ \cup {<<ra, rb>>}], a, b, FALSE)

unify_impl(u, a, b, swapped) ==
    IF swapped THEN UnifyPair(u, a, b, TRUE)
    ELSE UnifyRoots(Probe(Probe(u, a), b), a, b, Root(u.table, a), Root(u.table, b))

Begun(u, a, b) == Probe(Probe([TakeSnapshot(u) EXCEPT !.cache = {}], a), b)
RestoreFailed(u) == IF u.status = "Err" THEN Restore(u) ELSE u

unify(u0, a, b) ==
    LET u == Begun(u0, a, b)
    IN  Discard(IF Unioned(u0.table, a, b) THEN u ELSE RestoreFailed(unify_impl(u, a, b, FALSE)),
                snapshot_of(u0.table))

-----------------------------------------------------------------------------
(* The program: every type is registered, then pairs of types are          *)
(* constrained to be equal, in any order.                                  *)

Init ==
    /\ program \in Programs
    /\ unifier = [table |-> FoldLeft(new_key, EmptyTable, program.types), calls |-> program.calls,
                  var_id |-> Len(program.types), cache |-> {}, subst |-> [k \in {} |-> None],
                  snapshot |-> NoSnapshot, status |-> "Ok"]
    /\ asked = <<>>
    /\ agreed = {}

Unify(a, b) ==
    /\ unifier.status # "panic" /\ Len(asked) < MaxUnifies
    /\ unifier' = unify([unifier EXCEPT !.status = "Ok"], a, b)
    /\ asked' = Append(asked, <<a, b>>)
    /\ agreed' = IF unifier'.status = "Ok" THEN agreed \cup {<<a, b>>} ELSE agreed
    /\ UNCHANGED program

\* get_representative, get_ty: outside `unify` their path splitting is logged, too.
get_representative(a) ==
    /\ unifier.status # "panic" /\ Len(unifier.table.log) < MaxLog
    /\ unifier' = Probe(unifier, a)
    /\ UNCHANGED <<program, asked, agreed>>

\* get_shared_unifier and from_shared_unifier: the unifier moves to another thread.
Share ==
    /\ unifier.status # "panic"
    /\ unifier' = [unifier EXCEPT !.table = get_send(@), !.cache = {}, !.subst = [k \in {} |-> None],
                                  !.snapshot = NoSnapshot]
    /\ UNCHANGED <<program, asked, agreed>>

Next ==
    \/ \E p \in program.pairs : Unify(p[1], p[2])
    \/ \E a \in Keys(unifier.table) : get_representative(a)
    \/ Share

Spec == Init /\ [][Next]_vars
=============================================================================
