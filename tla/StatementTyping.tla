---------------------------- MODULE StatementTyping ----------------------------
(***************************************************************************)
(* The types of a function's variables: the statement half of              *)
(* typecheck/type_inferencer/mod.rs.                                       *)
(*                                                                         *)
(* st is the inferencer: var is variable_mapping, def defined_identifiers, *)
(* checks the virtual checks left for later.  A type is a tuple headed by  *)
(* its name; Unknown is the fresh variable of a name whose value has not   *)
(* been seen, and FieldOf the type of its field, which `wants` keeps until *)
(* the name has a type: the record that the name must fit.                 *)
(* An error stops the folding: nothing follows a st with err.              *)
(***************************************************************************)
EXTENDS Integers, Sequences, FiniteSets, SequencesExt, TLC

CONSTANTS HostType,     \* name of the host module -> its type
          FieldsOf,     \* class or module type -> name -> [ty, kind]
          Symbols,      \* module type -> the names of the module that are not its fields
          Returns       \* the declared return types considered

Unknown == <<"?">>
Int32 == <<"int32">>   Int64 == <<"int64">>   Bool == <<"bool">>
NoneTy == <<"none">>
RangeTy == <<"range">>
Obj(c) == <<"obj", c>>
List(t) == <<"list", t>>
Enumerate(t) == <<"enumerate", t>>
Tuple_(ts) == <<"tuple", ts>>
NoExpr == [k |-> "absent"]
NoReturn == <<"no return">>

Start(ret) == [var |-> <<>>, def |-> {}, in_handler |-> FALSE, checks |-> {}, wants |-> {},
               ret |-> ret, err |-> FALSE]
Fail(st) == [st EXCEPT !.err = TRUE]
Require(st, p) == IF p THEN st ELSE Fail(st)
FieldOf(id, attr) == <<"?", id, attr>>
IsFresh(ty) == ty[1] = "?"
IsField(ty) == IsFresh(ty) /\ ty # Unknown
Agree(a, b) == a = b \/ IsFresh(a) \/ IsFresh(b)
SetVar(st, id, ty) == [st EXCEPT !.var = (id :> ty) @@ @]

(***************************************************************************)
(* Attributes.  kind is "mutable", "immutable", or "class" for a class     *)
(* attribute or a static method, which an instance and the constructor     *)
(* both have.                                                              *)
(***************************************************************************)
IsModule(ty) == ty[1] = "module"
Has(ty, attr, kinds) == attr \in DOMAIN FieldsOf[ty] /\ FieldsOf[ty][attr].kind \in kinds

\* A name of the module that is not a kernel field is looked up whether it is loaded or stored.
infer_module_attribute(ty, attr, store) ==
  CASE Has(ty, attr, {"mutable"}) \/ (Has(ty, attr, {"immutable"}) /\ ~store) -> FieldsOf[ty][attr].ty
    [] attr \notin DOMAIN FieldsOf[ty] /\ attr \in DOMAIN Symbols[ty] -> Symbols[ty][attr]
    [] OTHER -> <<"error">>

\* A name without a type yet may turn out to have the field; a type that has no fields does not.
infer_general_attribute(e, ty) ==
  IF ty = Unknown /\ e.kids[1].k = "name" THEN FieldOf(e.kids[1].id, e.attr) ELSE <<"error">>

infer_attribute(e, ty, store) ==
  CASE IsModule(ty) -> infer_module_attribute(ty, e.attr, store)
    [] ty[1] = "obj" ->
         IF Has(ty, e.attr, {"mutable"}) \/ (Has(ty, e.attr, {"immutable", "class"}) /\ ~store)
         THEN FieldsOf[ty][e.attr].ty ELSE <<"error">>
    [] ty[1] = "constructor" ->
         IF Has(ty[2], e.attr, {"class"}) /\ ~store THEN FieldsOf[ty[2]][e.attr].ty
         ELSE infer_general_attribute(e, ty)
    [] OTHER -> infer_general_attribute(e, ty)

\* The field is added to the record of the name, or agreed with `ty` when it is there.
Want(st, field, store, ty) ==
  [st EXCEPT !.wants = @ \cup {[id |-> field[2], attr |-> field[3], store |-> store, ty |-> ty]}]
add_record(st, ty, store) == IF IsField(ty) THEN Want(st, ty, store, Unknown) ELSE st

\* An object fits a record by its own fields, not by its class's.
FitsRecord(ty, w) ==
  /\ IsModule(ty) \/ ty[1] = "obj"
  /\ Has(ty, w.attr, {"mutable"}) \/ (Has(ty, w.attr, {"immutable"}) /\ ~w.store)
  /\ Agree(FieldsOf[ty][w.attr].ty, w.ty)

\* A name gets its type, and what had the type of one of its fields gets that.
set_type(st, id, ty) ==
  LET own == {w \in st.wants : w.id = id}
      Filled(t) == IF IsField(t) /\ t[2] = id THEN FieldsOf[ty][t[3]].ty ELSE t
  IN  IF IsFresh(ty) THEN SetVar(st, id, ty)
      ELSE IF \E w \in own : ~FitsRecord(ty, w) THEN Fail(st)
      ELSE [st EXCEPT !.var = [y \in DOMAIN @ \cup {id} |-> IF y = id THEN ty ELSE Filled(@[y])],
                      !.wants = {[w EXCEPT !.ty = Filled(@)] : w \in @ \ own}]

constrain(st, a, b) ==
  CASE IsField(a) -> Want(st, a, FALSE, b)
    [] IsField(b) -> Want(st, b, FALSE, a)
    [] OTHER -> Require(st, Agree(a, b))
unify_name(st, id, ty) ==
  LET old == IF id \in DOMAIN st.var THEN st.var[id] ELSE Unknown
      c == constrain(st, old, ty)
  IN  IF c.err \/ ~IsFresh(old) THEN c ELSE set_type(c, id, ty)

(***************************************************************************)
(* Names and patterns.                                                     *)
(***************************************************************************)
RECURSIVE infer_pattern(_, _)
infer_pattern(st, p) ==
  CASE p.k = "name" -> [st EXCEPT !.def = @ \cup {p.id}]
    [] p.k \in {"tuple", "list", "star"} -> FoldLeft(infer_pattern, st, p.kids)
    [] OTHER -> st

infer_identifier(st, id) ==
  CASE id \in DOMAIN st.var -> [st |-> st, ty |-> st.var[id]]
    [] id \in DOMAIN HostType -> [st |-> st, ty |-> HostType[id]]
    [] OTHER -> [st |-> SetVar(st, id, Unknown), ty |-> Unknown]

\* The type of a pattern is agreed with `ty`: fresh variables take it.
RECURSIVE unify(_, _, _)
unify(st, p, ty) ==
  CASE p.k = "name" ->
         IF p.id \in DOMAIN st.var THEN unify_name(st, p.id, ty) ELSE constrain(st, HostType[p.id], ty)
    [] p.k = "tuple" ->
         IF ty[1] # "tuple" \/ Len(p.kids) # Len(ty[2]) THEN Fail(st)
         ELSE FoldLeft(LAMBDA s, i : unify(s, p.kids[i], ty[2][i]), st,
                       [i \in 1..Len(p.kids) |-> i])
    [] OTHER -> Fail(st)

(***************************************************************************)
(* Expressions, left to right: reading a name defines it when the host     *)
(* module has it.                                                          *)
(***************************************************************************)
infer_getitem(ty, key) ==
  CASE ty[1] = "list" -> ty[2]
    [] ty[1] = "tuple" /\ key.k = "const" /\ key.v[2] < Len(ty[2]) -> ty[2][key.v[2] + 1]
    [] OTHER -> <<"error">>

TypeOfOne(e, tys) ==
  LET Error == <<"error">>
  IN  CASE e.k = "const" -> e.ty
        [] e.k = "tuple" -> Tuple_(tys)
        [] e.k = "list" -> IF \A i \in DOMAIN tys : tys[i] = tys[1] THEN List(tys[1]) ELSE Error
        [] e.k = "add" -> IF tys = <<Int32, Int32>> THEN Int32 ELSE Error
        [] e.k = "less" -> IF tys = <<Int32, Int32>> THEN Bool ELSE Error
        [] e.k = "attr" -> infer_attribute(e, tys[1], FALSE)
        [] e.k = "getitem" -> infer_getitem(tys[1], e.kids[2])
        [] e.k = "range" -> IF tys[1] = Int32 THEN RangeTy ELSE Error
        [] e.k = "enumerate" -> IF tys[1][1] = "list" THEN Enumerate(tys[1]) ELSE Error
        [] e.k = "coin" -> Bool
        [] e.k = "use" -> NoneTy
        [] OTHER -> Error

\* The operators and range take integers: the field of a name without a type must be one.
IntOperands(e, r) ==
  LET fields == IF e.k \in {"add", "less", "range", "aug"} THEN {t \in ToSet(r.tys) : IsField(t)} ELSE {}
  IN  [st |-> FoldLeft(LAMBDA s, f : Want(s, f, FALSE, Int32), r.st, SetToSeq(fields)),
       tys |-> [i \in DOMAIN r.tys |-> IF r.tys[i] \in fields THEN Int32 ELSE r.tys[i]]]

RECURSIVE fold_expr(_, _), fold_exprs(_, _)
fold_exprs(st, es) ==
  FoldLeft(LAMBDA acc, e :
             IF acc.st.err THEN acc
             ELSE LET r == fold_expr(acc.st, e)
                  IN  [st |-> r.st, tys |-> Append(acc.tys, r.ty)],
           [st |-> st, tys |-> <<>>], es)

fold_expr(st, e) ==
  IF e.k = "name"
  THEN IF e.id \notin st.def /\ e.id \notin DOMAIN HostType
       THEN [st |-> Fail(st), ty |-> Unknown]
       ELSE infer_identifier([st EXCEPT !.def = @ \cup {e.id}], e.id)
  ELSE LET r == IntOperands(e, fold_exprs(st, e.kids))
           t == TypeOfOne(e, r.tys)
       IN  IF r.st.err THEN [st |-> r.st, ty |-> Unknown]
           ELSE [st |-> Require(add_record(r.st, t, FALSE), t # <<"error">>), ty |-> t]

(***************************************************************************)
(* What a `for` takes its target from.                                     *)
(***************************************************************************)
get_iterable_element_type(target, ty) ==
  CASE ty = RangeTy -> Int32
    [] ty[1] = "enumerate" ->
         IF target.k = "name" \/ (target.k = "tuple" /\ Len(target.kids) = 2)
         THEN Tuple_(<<Int32, ty[2][2]>>) ELSE <<"error">>
    [] ty[1] = "list" -> ty[2]
    [] ty[1] = "tuple" -> IF \A i \in DOMAIN ty[2] : ty[2][i] = ty[2][1] THEN ty[2][1] ELSE <<"error">>
    [] OTHER -> <<"error">>

check_iterable(st, target, ty) ==
  LET t == get_iterable_element_type(target, ty)
  IN  IF t = <<"error">> THEN Fail(st) ELSE unify(st, target, t)

(***************************************************************************)
(* Assignment targets.                                                     *)
(***************************************************************************)
Stars(ts) == {i \in DOMAIN ts : ts[i].k = "star"}

RECURSIVE fold_assign_target(_, _, _), FoldTargets(_, _, _), fold_tuple_targets(_, _, _),
          fold_list_targets(_, _, _), fold_assign_target_list(_, _, _)
FoldTargets(st, ts, tys) ==
  FoldLeft(LAMBDA s, i : IF s.err THEN s ELSE fold_assign_target(s, ts[i], tys[i]), st,
           [i \in 1..Len(ts) |-> i])

\* A tuple gives its star a list of what the other targets leave, of int64 when nothing is left.
TypesOfTargets(ts, tys) ==
  LET star == CHOOSE i \in Stars(ts) : TRUE
      left == Len(tys) - (Len(ts) - 1)
      mid == SubSeq(tys, star, star + left - 1)
      elem == IF mid = <<>> THEN Int64 ELSE mid[1]
  IN  IF Stars(ts) = {} THEN tys
      ELSE SubSeq(tys, 1, star - 1) \o <<List(elem)>> \o SubSeq(tys, star + left, Len(tys))

fold_tuple_targets(st, ts, tys) ==
  LET star == CHOOSE i \in Stars(ts) : TRUE
      left == Len(tys) - (Len(ts) - 1)
  IN  CASE Cardinality(Stars(ts)) > 1 -> Fail(st)
        [] Stars(ts) = {} /\ Len(ts) # Len(tys) -> Fail(st)
        [] Stars(ts) # {} /\ left < 0 -> Fail(st)
        [] Stars(ts) # {} /\ \E i, j \in star .. star + left - 1 : tys[i] # tys[j] -> Fail(st)
        [] OTHER -> FoldTargets(st, ts, TypesOfTargets(ts, tys))

\* The length of a list is not known, and its second star is not seen.
fold_list_targets(st, ts, ty) ==
  FoldTargets(st, ts, [i \in 1..Len(ts) |-> IF ts[i].k = "star" THEN ty ELSE ty[2]])

fold_assign_target_list(st, ts, ty) ==
  CASE ty[1] = "tuple" -> fold_tuple_targets(st, ts, ty[2])
    [] ty[1] = "list" -> fold_list_targets(st, ts, ty)
    [] OTHER -> Fail(st)

\* A constant index of a tuple passes here: the check of the body rejects it.
infer_setitem_value_type(ty, key) == infer_getitem(ty, key)

fold_assign_target(st, t, ty) ==
  CASE t.k = "name" -> unify_name(st, t.id, ty)
    [] t.k = "getitem" ->
         LET r == fold_exprs(st, t.kids)
         IN  IF r.st.err THEN r.st
             ELSE constrain(r.st, infer_setitem_value_type(r.tys[1], t.kids[2]), ty)
    [] t.k = "attr" ->
         LET r == fold_exprs(st, t.kids)
             expected == infer_attribute(t, r.tys[1], TRUE)
         IN  IF r.st.err \/ expected = <<"error">> THEN Fail(r.st)
             ELSE constrain(add_record(r.st, expected, TRUE), expected, ty)
    [] t.k \in {"tuple", "list"} -> fold_assign_target_list(st, t.kids, ty)
    [] t.k = "star" -> fold_assign_target(st, t.kids[1], ty)
    [] OTHER -> Fail(st)

(***************************************************************************)
(* Statements.                                                             *)
(***************************************************************************)
fold_ann_assign(st, s) ==
  LET t == fold_expr(infer_pattern(st, s.target), s.target)
      v == fold_expr(t.st, s.value)
  IN  IF t.st.err \/ s.value = NoExpr THEN Fail(t.st)
      ELSE IF v.st.err THEN v.st
      ELSE LET u == unify(v.st, s.target, v.ty)
           IN  IF u.err THEN u ELSE unify(u, s.target, s.ann)

fold_assign(st, s) ==
  LET v == fold_expr(st, s.value)
      ts == FoldLeft(LAMBDA a, t : IF a.err THEN a ELSE fold_assign_target(a, t, v.ty), v.st, s.targets)
  IN  IF v.st.err THEN v.st ELSE IF ts.err THEN ts ELSE FoldLeft(infer_pattern, ts, s.targets)

fold_return(st, s) ==
  CASE s.value = NoExpr -> Require(st, st.ret = NoReturn)
    [] st.ret = NoReturn -> Fail(st)
    [] OTHER -> LET v == fold_expr(st, s.value)
                IN  IF v.st.err THEN v.st ELSE constrain(v.st, v.ty, st.ret)

fold_raise(st, s) ==
  IF s.exc = NoExpr THEN Require(st, st.in_handler)
  ELSE LET v == fold_expr(st, s.exc)
       IN  IF v.st.err THEN v.st ELSE [v.st EXCEPT !.checks = @ \cup {v.ty}]

\* A context manager has an __enter__ and an __exit__ without arguments.
fold_with_item(st, s) ==
  LET p == IF s.var = NoExpr THEN st ELSE infer_pattern(st, s.var)
      v == fold_expr(p, s.item)
      t == fold_expr(v.st, s.var)
  IN  IF v.st.err THEN [st |-> v.st, enter |-> <<"error">>]
      ELSE IF s.var = NoExpr THEN [st |-> v.st, enter |-> v.ty]
      ELSE [st |-> t.st, enter |-> v.ty]

RECURSIVE fold_stmt(_, _), fold_block(_, _), fold_for(_, _), fold_handler(_, _), fold_try(_, _),
          fold_with(_, _)
fold_block(st, b) == FoldLeft(LAMBDA a, s : IF a.err THEN a ELSE fold_stmt(a, s), st, b)

fold_for(st, s) ==
  LET t == fold_expr(infer_pattern(st, s.target), s.target)
      it == fold_expr(t.st, s.iter)
      c == check_iterable(it.st, s.target, it.ty)
  IN  IF t.st.err THEN t.st ELSE IF it.st.err THEN it.st ELSE IF c.err THEN c
      ELSE fold_block(fold_block(c, s.body), s.orelse)

fold_test(st, e) ==
  LET r == fold_expr(st, e) IN IF r.st.err THEN r.st ELSE Require(r.st, r.ty = Bool)

\* The handler's name takes the handler's type, which must agree with the one it had.
fold_handler(st, h) ==
  LET typ == HostType[h.type]
      named == IF h.name = "" THEN st ELSE unify_name([st EXCEPT !.def = @ \cup {h.name}], h.name, typ)
  IN  IF st.err THEN st ELSE fold_block([named EXCEPT !.checks = @ \cup {typ}], h.body)

fold_try(st, s) ==
  LET b == fold_block(st, s.body)
      hs == FoldLeft(fold_handler, [b EXCEPT !.in_handler = TRUE], s.handlers)
      o == fold_block([hs EXCEPT !.in_handler = st.in_handler], s.orelse)
  IN  fold_block(o, s.finalbody)

fold_with(st, s) ==
  LET r == fold_with_item(st, s)
      b == fold_block(r.st, s.body)
  IN  IF b.err THEN b
      ELSE IF r.enter[1] # "cm" THEN Fail(b)
      ELSE IF s.var = NoExpr THEN b ELSE unify(b, s.var, r.enter[2])

fold_stmt(st, s) ==
  CASE s.k \in {"pass", "break", "continue"} -> st
    [] s.k = "expr" -> fold_expr(st, s.value).st
    [] s.k = "assign" -> fold_assign(st, s)
    [] s.k = "annassign" -> fold_ann_assign(st, s)
    [] s.k = "aug" ->
         LET r == IntOperands(s, fold_exprs(st, <<s.target, s.value>>))
         IN  IF r.st.err THEN r.st ELSE Require(r.st, r.tys = <<Int32, Int32>>)
    [] s.k = "assert" -> fold_test(st, s.test)
    [] s.k = "if" -> LET t == fold_test(st, s.test)
                     IN  IF t.err THEN t ELSE fold_block(fold_block(t, s.body), s.orelse)
    [] s.k = "while" -> LET t == fold_test(st, s.test)
                        IN  IF t.err THEN t ELSE fold_block(fold_block(t, s.body), s.orelse)
    [] s.k = "for" -> fold_for(st, s)
    [] s.k = "try" -> fold_try(st, s)
    [] s.k = "with" -> fold_with(st, s)
    [] s.k = "return" -> fold_return(st, s)
    [] s.k = "raise" -> fold_raise(st, s)
    [] OTHER -> Fail(st)
=============================================================================
