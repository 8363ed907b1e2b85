----------------------------- MODULE FunctionCheck -----------------------------
(***************************************************************************)
(* The check of a typed body: typecheck/function_check.rs.  ck is the set  *)
(* of identifiers defined so far, whether an error was reported, and       *)
(* whether the statements seen return on every path.                       *)
(*                                                                         *)
(* `values` gives the type of the names, for should_have_value.            *)
(***************************************************************************)
EXTENDS StatementTyping

Unchecked == [defined |-> {}, err |-> FALSE, returned |-> FALSE]
Define(ck, id) == [ck EXCEPT !.defined = @ \cup {id}]
CheckFail(ck) == [ck EXCEPT !.err = TRUE]

\* The identifiers of a scope are dropped at its end, its errors are not.
Scope(ck, inner) == [ck EXCEPT !.err = @ \/ inner.err]
\* A statement other than return, raise and `if` does not return.
Falls(ck) == [ck EXCEPT !.returned = FALSE]

\* The only expressions of this language without a value are calls of `use`.
HasNone(e, values) == e.k = "use" \/ (e.k = "name" /\ e.id \in DOMAIN values /\ values[e.id] = NoneTy)
should_have_value(ck, e, values) == IF HasNone(e, values) THEN CheckFail(ck) ELSE ck

RECURSIVE check_expr(_, _, _), check_valued(_, _, _)
check_valued(ck, e, values) ==
  IF ck.err THEN ck ELSE should_have_value(check_expr(ck, e, values), e, values)

\* A name must have a type by now, and one never defined in the function must be the host's.
check_name(ck, e, values) ==
  IF \/ HasNone(e, values) \/ (e.id \in DOMAIN values /\ IsFresh(values[e.id]))
     \/ (e.id \notin ck.defined /\ e.id \notin DOMAIN HostType)
  THEN CheckFail(ck) ELSE Define(ck, e.id)

check_expr(ck, e, values) ==
  CASE ck.err -> ck
    [] e.k = "name" -> check_name(ck, e, values)
    [] e.k = "ifexp" -> FoldLeft(LAMBDA c, x : check_expr(c, x, values), ck, e.kids)
    [] OTHER -> FoldLeft(LAMBDA c, x : check_valued(c, x, values), ck, e.kids)

IsTupleVar(e, values) == e.k = "name" /\ e.id \in DOMAIN values /\ values[e.id][1] = "tuple"

RECURSIVE check_pattern(_, _, _)
check_pattern(ck, p, values) ==
  CASE ck.err -> ck
    [] p.k = "name" -> should_have_value(Define(ck, p.id), p, values)
    [] p.k \in {"list", "tuple", "star"} ->
         FoldLeft(LAMBDA c, x : check_pattern(c, x, values), ck, p.kids)
    [] p.k = "const" -> CheckFail(ck)
    [] p.k = "getitem" /\ IsTupleVar(p.kids[1], values) -> CheckFail(ck)
    [] OTHER -> check_expr(ck, p, values)

RECURSIVE check_stmt(_, _, _), check_block(_, _, _), check_for(_, _, _), check_if(_, _, _),
          check_while(_, _, _), check_with(_, _, _), check_handler(_, _, _), check_try(_, _, _)

\* A block returns when one of its statements does.
check_block(ck, b, values) ==
  FoldLeft(LAMBDA c, s :
             IF c.err THEN c
             ELSE LET d == check_stmt(c, s, values)
                  IN  [d EXCEPT !.returned = @ \/ c.returned],
           Falls(ck), b)

check_for(ck, s, values) ==
  LET it == check_valued(ck, s.iter, values)
      orelse == check_block(it, s.orelse, values)
      body == check_block(check_pattern(it, s.target, values), s.body, values)
  IN  IF it.err THEN it ELSE Falls(Scope(Scope(it, orelse), body))

\* Mutant: what one branch defines is taken for defined.
check_if_Either(ck, s, values) ==
  LET t == check_valued(ck, s.test, values)
      body == check_block(t, s.body, values)
      orelse == check_block(t, s.orelse, values)
  IN  IF t.err THEN t
      ELSE [defined |-> t.defined \cup body.defined \cup orelse.defined,
            err |-> body.err \/ orelse.err, returned |-> body.returned /\ orelse.returned]

\* Mutant: a branch that returns is enough.
check_if_ReturnsOnce(ck, s, values) ==
  LET t == check_valued(ck, s.test, values)
      body == check_block(t, s.body, values)
      orelse == check_block(t, s.orelse, values)
  IN  IF t.err THEN t
      ELSE [defined |-> t.defined \cup (body.defined \cap orelse.defined),
            err |-> body.err \/ orelse.err, returned |-> body.returned \/ orelse.returned]

check_if(ck, s, values) ==
  LET t == check_valued(ck, s.test, values)
      body == check_block(t, s.body, values)
      orelse == check_block(t, s.orelse, values)
  IN  IF t.err THEN t
      ELSE [defined |-> t.defined \cup (body.defined \cap orelse.defined),
            err |-> body.err \/ orelse.err, returned |-> body.returned /\ orelse.returned]

\* The body and the else block of a `while` share one scope.
check_while(ck, s, values) ==
  LET t == check_valued(ck, s.test, values)
      inner == check_block(check_block(t, s.body, values), s.orelse, values)
  IN  IF t.err THEN t ELSE Falls(Scope(t, inner))

check_with(ck, s, values) ==
  LET item == check_expr(ck, s.item, values)
      vars == IF s.var = NoExpr THEN item ELSE check_pattern(item, s.var, values)
  IN  IF item.err THEN item ELSE Falls(Scope(item, check_block(vars, s.body, values)))

check_handler(ck, h, values) ==
  LET named == IF h.name = "" THEN ck ELSE Define(ck, h.name)
  IN  Scope(ck, check_block(named, h.body, values))

check_try(ck, s, values) ==
  LET body == Scope(ck, check_block(ck, s.body, values))
      orelse == Scope(body, check_block(body, s.orelse, values))
      handled == FoldLeft(LAMBDA c, h : IF c.err THEN c ELSE check_handler(c, h, values), orelse, s.handlers)
  IN  Falls(check_block(handled, s.finalbody, values))

check_assign(ck, s, values) ==
  Falls(FoldLeft(LAMBDA c, t : check_pattern(c, t, values), check_valued(ck, s.value, values),
                 IF s.k = "assign" THEN s.targets ELSE <<s.target>>))

check_return(ck, s, values) ==
  [(IF s.value = NoExpr THEN ck ELSE check_valued(ck, s.value, values)) EXCEPT !.returned = TRUE]

check_raise(ck, s, values) ==
  [(IF s.exc = NoExpr THEN ck ELSE check_expr(ck, s.exc, values)) EXCEPT !.returned = TRUE]

\* The names an augmented assignment and an assertion read are not looked at.
check_stmt(ck, s, values) ==
  CASE s.k = "for" -> check_for(ck, s, values)
    [] s.k = "if" -> check_if(ck, s, values)
    [] s.k = "while" -> check_while(ck, s, values)
    [] s.k = "with" -> check_with(ck, s, values)
    [] s.k = "try" -> check_try(ck, s, values)
    [] s.k = "expr" -> Falls(check_expr(ck, s.value, values))
    [] s.k \in {"assign", "annassign"} -> check_assign(ck, s, values)
    [] s.k = "return" -> check_return(ck, s, values)
    [] s.k = "raise" -> check_raise(ck, s, values)
    [] s.k = "global" -> CheckFail(ck)
    [] OTHER -> Falls(ck)
=============================================================================
