------------------------------ MODULE VariableCode ------------------------------
(***************************************************************************)
(* The code of a function's variables: codegen/stmt.rs over                *)
(* CodeGenContext::var_assignment.                                         *)
(*                                                                         *)
(* A variable has a slot, a counter of its assignments and the host object *)
(* it is known to hold (NoStatic when it is not).  Code is the statement   *)
(* with its names replaced: "static" is a host object the generator knows, *)
(* "load" a read of a slot.                                                *)
(***************************************************************************)
EXTENDS Integers, Sequences, FiniteSets, SequencesExt, TLC

CONSTANTS HostValue,    \* name of the host module -> its object
          KnownField    \* object -> its immutable fields and class attributes -> value

NoStatic == <<>>
Blank == [vars |-> <<>>, slots |-> 0, err |-> FALSE, code |-> <<>>, terminated |-> FALSE]

Static(v) == [k |-> "static", v |-> v, kids |-> <<>>]
Load(slot) == [k |-> "load", slot |-> slot, kids |-> <<>>]
Emit(ctx, code) == [ctx EXCEPT !.code = code]
\* The code of ctx goes to the end of the code so far.
Then(code, ctx) == Emit(ctx, Append(code, ctx.code))
Bail(ctx) == [ctx EXCEPT !.err = TRUE]

SetVariable(ctx, id, v) == [ctx EXCEPT !.vars = (id :> v) @@ @]
NewVar(ctx, id) ==
  [SetVariable(ctx, id, [slot |-> ctx.slots + 1, static |-> NoStatic, counter |-> 0]) EXCEPT !.slots = @ + 1]

(***************************************************************************)
(* Expressions: a name without a slot is the host's.  The code is in       *)
(* `code`, and the static value, if any, can be read off it.               *)
(***************************************************************************)
StaticOf(code) == IF code.k = "static" THEN code.v ELSE NoStatic

gen_name(ctx, id) ==
  IF id \notin DOMAIN ctx.vars THEN Static(HostValue[id])
  ELSE IF ctx.vars[id].static = NoStatic THEN Load(ctx.vars[id].slot)
  ELSE Static(ctx.vars[id].static)

\* An immutable field of a known object is known as well; other fields are loaded.
gen_attr_expr(e, obj) ==
  IF StaticOf(obj) # NoStatic /\ e.attr \in DOMAIN KnownField[obj.v]
  THEN Static(KnownField[obj.v][e.attr]) ELSE [e EXCEPT !.kids = <<obj>>]

RECURSIVE gen_expr(_, _)
gen_expr(ctx, e) ==
  CASE e.k = "name" -> gen_name(ctx, e.id)
    [] e.k = "attr" -> gen_attr_expr(e, gen_expr(ctx, e.kids[1]))
    [] OTHER -> [e EXCEPT !.kids = [i \in DOMAIN @ |-> gen_expr(ctx, @[i])]]

(***************************************************************************)
(* Stores.                                                                 *)
(***************************************************************************)
gen_store_name(ctx, id) ==
  LET c == IF id \in DOMAIN ctx.vars THEN SetVariable(ctx, id, [ctx.vars[id] EXCEPT !.static = NoStatic])
           ELSE NewVar(ctx, id)
  IN  Emit(c, Load(c.vars[id].slot))

CountAssignment(ctx, id, static) ==
  SetVariable(ctx, id, [ctx.vars[id] EXCEPT !.counter = @ + 1,
                                            !.static = IF static = NoStatic THEN @ ELSE static])
gen_assign_name(ctx, id, static) == CountAssignment(gen_store_name(ctx, id), id, static)

\* The addresses of a pattern, without an assignment: the target of a `for`.
AsTuple(ctx) == Emit(ctx, [k |-> "tuple", kids |-> ctx.code])
RECURSIVE gen_store_target(_, _)
gen_store_target(ctx, p) ==
  IF p.k = "name" THEN gen_store_name(ctx, p.id)
  ELSE AsTuple(FoldLeft(LAMBDA c, x : Then(c.code, gen_store_target(c, x)), Emit(ctx, <<>>), p.kids))

\* Only an object has an index for the attribute.
gen_store_attr(ctx, p) ==
  LET obj == gen_expr(ctx, p.kids[1])
      c == Emit(ctx, [p EXCEPT !.kids = <<obj>>])
  IN  IF StaticOf(obj) # NoStatic /\ StaticOf(obj)[1] = "module" THEN Bail(c) ELSE c

RECURSIVE gen_assign(_, _, _, _), gen_assign_target_list(_, _, _)

WithKids(p, ctx) == Emit(ctx, [p EXCEPT !.kids = ctx.code])
Starred(p, ctx) == Emit(ctx, [p EXCEPT !.kids = <<ctx.code>>])
gen_element(ctx, p) ==
  IF p.k = "star" THEN Starred(p, gen_store_target(ctx, p.kids[1])) ELSE gen_assign(ctx, p, NoStatic, 0)

\* Taking a tuple apart asks for as many values as targets, the star's included.
gen_assign_target_list(ctx, p, size) ==
  LET c == WithKids(p, FoldLeft(LAMBDA d, x : Then(d.code, gen_element(d, x)), Emit(ctx, <<>>), p.kids))
  IN  IF \/ Cardinality({i \in DOMAIN p.kids : p.kids[i].k = "star"}) > 1
         \/ (size > 0 /\ size < Len(p.kids))
      THEN Bail(c) ELSE c

\* `size` is the number of elements of a tuple that is assigned, 0 for another value.
gen_assign(ctx, p, static, size) ==
  CASE p.k = "name" -> gen_assign_name(ctx, p.id, static)
    [] p.k \in {"tuple", "list"} -> gen_assign_target_list(ctx, p, size)
    [] p.k = "attr" -> gen_store_attr(ctx, p)
    [] OTHER -> Emit(ctx, gen_expr(ctx, p))

SizeOf(e) == IF e.k = "tuple" THEN Len(e.kids) ELSE 0

(***************************************************************************)
(* What a branch or a loop body did to a variable is not known after it.   *)
(***************************************************************************)
\* Mutant: the counters are not compared.
restore_var_assignment_Never(ctx, old) == ctx

restore_var_assignment(ctx, old) ==
  [ctx EXCEPT !.vars = [x \in DOMAIN @ |->
                          IF x \in DOMAIN old /\ old[x].counter # ctx.vars[x].counter
                          THEN [ctx.vars[x] EXCEPT !.static = NoStatic] ELSE ctx.vars[x]]]

(***************************************************************************)
(* Statements.                                                             *)
(***************************************************************************)
RECURSIVE gen_stmt(_, _), gen_block(_, _)

Open(ctx) == [ctx EXCEPT !.terminated = FALSE]

\* Nothing is generated after a terminator.
gen_block(ctx, b) ==
  FoldLeft(LAMBDA c, s : IF c.terminated \/ c.err THEN c ELSE Then(c.code, gen_stmt(c, s)),
           Open(Emit(ctx, <<>>)), b)

\* A compound statement is generated part after part: it is the code of ctx meanwhile.
Into(ctx, x, part) == Emit(ctx, [x EXCEPT ![part] = ctx.code])
gen_part(ctx, part) == Into(gen_block(ctx, ctx.code[part]), ctx.code, part)
Reopen(ctx, old) == restore_var_assignment(Open(ctx), old)

build_branching(ctx) ==
  Reopen(gen_part(Reopen(gen_part(ctx, "body"), ctx.vars), "orelse"), ctx.vars)

gen_if(ctx, x) == build_branching(Emit(ctx, [x EXCEPT !.test = gen_expr(ctx, @)]))

\* The test, the body and the else block are generated once, with what is known on entry.
build_loop(ctx, old) == Reopen(gen_part(Open(gen_part(ctx, "body")), "orelse"), old)

gen_while(ctx, x) == build_loop(Emit(ctx, [x EXCEPT !.test = gen_expr(ctx, @)]), ctx.vars)

\* A range and an enumeration store to the target before the loop, a list assigns it in the body.
StoredAhead(x) == x.iter.k \in {"range", "enumerate"}
gen_for_target(ctx, x) ==
  Into(IF StoredAhead(x) THEN gen_store_target(ctx, x.target) ELSE gen_assign(ctx, x.target, NoStatic, 0),
       [x EXCEPT !.iter = gen_expr(ctx, @)], "target")
build_for(ctx, target, x) == build_loop(target, IF StoredAhead(x) THEN target.vars ELSE ctx.vars)
gen_for(ctx, x) == build_for(ctx, gen_for_target(ctx, x), x)

\* The name of a handler gets a slot of its own, whatever the name was before.
WithSlot(ctx, h) == Emit(ctx, [h EXCEPT !.slot = ctx.slots])
gen_handler(ctx, h) ==
  Open(gen_part(IF h.name = "" THEN Emit(ctx, h) ELSE WithSlot(NewVar(ctx, h.name), h), "body"))

gen_handlers(ctx) ==
  Into(FoldLeft(LAMBDA c, h : Then(c.code, gen_handler(c, h)), Open(Emit(ctx, <<>>)), ctx.code.handlers),
       ctx.code, "handlers")

gen_try_orelse(ctx) ==
  IF ctx.terminated THEN Emit(ctx, [ctx.code EXCEPT !.orelse = <<>>]) ELSE gen_part(ctx, "orelse")

\* The final block is generated twice, for the exception and for the normal path.
gen_finally(ctx) ==
  Open(gen_part(Into(gen_block(ctx, ctx.code.finalbody), ctx.code, "raised"), "finalbody"))

\* Nothing is restored: each part starts from what the part before it left.
gen_try(ctx, x) == gen_finally(gen_handlers(gen_try_orelse(gen_part(Emit(ctx, x), "body"))))

gen_with(ctx, x) ==
  Open(gen_part(Into(IF x.var.k = "absent" THEN Emit(ctx, x.var) ELSE gen_assign(ctx, x.var, NoStatic, 0),
                     [x EXCEPT !.item = gen_expr(ctx, @)], "var"),
                "body"))

AssignTargets(ctx, ts, v, size) ==
  FoldLeft(LAMBDA c, t : Then(c.code, gen_assign(c, t, StaticOf(v), size)), Emit(ctx, <<>>), ts)
Assigned(c, v) == Emit(c, [k |-> "assign", targets |-> c.code, value |-> v])
gen_assign_value(ctx, s, v) ==
  Assigned(AssignTargets(ctx, IF s.k = "assign" THEN s.targets ELSE <<s.target>>, v, SizeOf(s.value)), v)
gen_assign_stmt(ctx, s) == gen_assign_value(ctx, s, gen_expr(ctx, s.value))

gen_aug_assign(ctx, s) ==
  LET v == gen_expr(ctx, [k |-> "add", kids |-> <<s.target, s.value>>])
      c == gen_assign(ctx, s.target, NoStatic, 0)
  IN  Emit(c, [k |-> "assign", targets |-> <<c.code>>, value |-> v])

GenValue(ctx, e) == IF e.k = "absent" THEN e ELSE gen_expr(ctx, e)
Terminate(ctx) == [ctx EXCEPT !.terminated = TRUE]
gen_return(ctx, s) == Terminate(Emit(ctx, [s EXCEPT !.value = GenValue(ctx, s.value)]))

\* `raise` and a name is the short form for an exception class: no variable can be raised.
gen_raise(ctx, s) ==
  IF s.exc.k = "name" /\ s.exc.id \notin DOMAIN HostValue THEN Bail(Emit(ctx, s))
  ELSE Terminate(Emit(ctx, [s EXCEPT !.exc = GenValue(ctx, s.exc)]))

gen_stmt(ctx, s) ==
  CASE s.k = "pass" -> Emit(ctx, s)
    [] s.k = "expr" -> Emit(ctx, [s EXCEPT !.value = gen_expr(ctx, @)])
    [] s.k \in {"assign", "annassign"} -> gen_assign_stmt(ctx, s)
    [] s.k = "aug" -> gen_aug_assign(ctx, s)
    [] s.k = "assert" -> Emit(ctx, [s EXCEPT !.test = gen_expr(ctx, @)])
    [] s.k = "if" -> gen_if(ctx, s)
    [] s.k = "while" -> gen_while(ctx, s)
    [] s.k = "for" -> gen_for(ctx, s)
    [] s.k = "try" -> gen_try(ctx, s)
    [] s.k = "with" -> gen_with(ctx, s)
    [] s.k = "return" -> gen_return(ctx, s)
    [] s.k = "raise" -> gen_raise(ctx, s)
    [] OTHER -> Terminate(Emit(ctx, s))
=============================================================================
