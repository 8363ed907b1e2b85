------------------------------- MODULE Variables -------------------------------
(***************************************************************************)
(* A function's variables from the source to the run: the body is typed    *)
(* (fold), checked for definite assignment and return (check_block),       *)
(* generated (gen_block) and executed, beside Python's own execution.      *)
(*                                                                         *)
(* An execution is the sequence of values shown by `use` and how it ended; *)
(* `coin` is a test of unknown outcome, so a program has a set of them.    *)
(* Python's names and the code's slots are both keys of env.               *)
(***************************************************************************)
EXTENDS FunctionCheck, VariableCode, TLC

CONSTANTS Programs,     \* bodies: sequences of statements
          HeapStart,    \* object -> its mutable field
          LoopBound     \* iterations followed of one loop

VARIABLES body, ret, phase, typed, checked, generated, python, compiled
vars == <<body, ret, phase, typed, checked, generated, python, compiled>>

(***************************************************************************)
(* Execution.                                                              *)
(***************************************************************************)
Unbound == <<"unbound">>
IntV(i) == <<"int", i>>
Key(t) == IF t.k = "name" THEN t.id ELSE t.slot
Read(env, key) == IF key \in DOMAIN env THEN env[key] ELSE Unbound

\* How an operator or a display computes its value from its operands'.
Field(v, attr, heap) == IF attr \in DOMAIN KnownField[v] THEN KnownField[v][attr] ELSE heap[v]
Apply(e, vs, heap) ==
  CASE e.k = "const" -> e.v
    [] e.k = "add" -> IntV(vs[1][2] + vs[2][2])
    [] e.k = "less" -> <<"bool", vs[1][2] < vs[2][2]>>
    [] e.k \in {"tuple", "list"} -> <<e.k, vs>>
    [] e.k = "attr" -> Field(vs[1], e.attr, heap)
    [] e.k = "getitem" -> vs[1][2][vs[2][2] + 1]
    [] e.k = "range" -> <<"list", [i \in 1..vs[1][2] |-> IntV(i - 1)]>>
    [] e.k = "enumerate" -> <<"list", [i \in 1..Len(vs[1][2]) |-> <<"tuple", <<IntV(i - 1), vs[1][2][i]>>>>]>>
    [] OTHER -> <<"none">>

RECURSIVE Eval(_, _)
Eval(e, s) ==
  CASE e.k = "static" -> e.v
    [] e.k \in {"name", "load"} -> Read(s.env, Key(e))
    [] OTHER -> LET vs == [i \in DOMAIN e.kids |-> Eval(e.kids[i], s)]
                IN  IF \E i \in DOMAIN vs : vs[i] = Unbound THEN Unbound ELSE Apply(e, vs, s.heap)

End(out, s) == [s EXCEPT !.out = out]
Next_(s) == End("next", s)
Abort(s) == {End("unbound", s)}
SetEnv(s, env) == [s EXCEPT !.env = env]

\* Unpacking gives the star the list of what the other targets leave.
Parts(ts, vs) ==
  LET left == Len(vs) - (Len(ts) - 1)
      star == CHOOSE i \in Stars(ts) : TRUE
  IN  IF Stars(ts) = {} THEN vs
      ELSE SubSeq(vs, 1, star - 1) \o <<<<"list", SubSeq(vs, star, star + left - 1)>>>>
             \o SubSeq(vs, star + left, Len(vs))

RECURSIVE Store(_, _, _)
Store(s, t, v) ==
  CASE t.k \in {"name", "load"} -> SetEnv(s, (Key(t) :> v) @@ s.env)
    [] t.k = "star" -> Store(s, t.kids[1], v)
    [] t.k = "attr" -> [s EXCEPT !.heap[Eval(t.kids[1], s)] = v]
    [] t.k = "getitem" ->
         LET key == Key(t.kids[1])
             at == Eval(t.kids[2], s)[2] + 1
             items == s.env[key][2]
         IN  SetEnv(s, (key :> <<"list", [i \in DOMAIN items |-> IF i = at THEN v ELSE items[i]]>>) @@ s.env)
    [] OTHER -> FoldLeft(LAMBDA r, i : Store(r, t.kids[i], Parts(t.kids, v[2])[i]), s,
                         [i \in 1..Len(t.kids) |-> i])

RECURSIVE Run(_, _), RunBlock(_, _), RunIf(_, _), RunHandler(_, _, _), RunTry(_, _), RunWith(_, _)
RunBlock(b, s) ==
  FoldLeft(LAMBDA ends, x : UNION {IF e.out = "next" THEN Run(x, e) ELSE {e} : e \in ends},
           {Next_(s)}, b)

Fits(t, v) ==
  t.k \in {"tuple", "list"} =>
    IF Stars(t.kids) = {} THEN Len(v[2]) = Len(t.kids) ELSE Len(v[2]) >= Len(t.kids) - 1

RunAssign(x, s) ==
  LET v == Eval(x.value, s)
  IN  IF v = Unbound THEN Abort(s)
      ELSE IF \E i \in DOMAIN x.targets : ~Fits(x.targets[i], v) THEN {End("raise", s)}
      ELSE {Next_(FoldLeft(LAMBDA e, t : Store(e, t, v), s, x.targets))}

\* Which of the two branches of a test are taken; none when it reads an unbound variable.
Outcomes(test, s) ==
  IF test.k = "coin" THEN {TRUE, FALSE}
  ELSE LET v == Eval(test, s) IN IF v = Unbound THEN {} ELSE {v[2]}

RunIf(x, s) ==
  LET os == Outcomes(x.test, s)
  IN  IF os = {} THEN Abort(s)
      ELSE UNION {RunBlock(IF o THEN x.body ELSE x.orelse, s) : o \in os}

\* The ends of an iteration: those that go on, and those that leave the loop.
GoesOn(e) == e.out \in {"next", "continue"}
Left(ends) == {IF e.out = "break" THEN [e EXCEPT !.out = "next"] ELSE e : e \in {d \in ends : ~GoesOn(d)}}

RECURSIVE RunWhile(_, _, _)
RunWhile(x, s, n) ==
  LET os == Outcomes(x.test, s)
      ends == RunBlock(x.body, s)
  IN  IF os = {} THEN Abort(s)
      ELSE (IF FALSE \in os THEN RunBlock(x.orelse, s) ELSE {})
           \cup (IF TRUE \in os /\ n > 0
                 THEN Left(ends) \cup UNION {RunWhile(x, e, n - 1) : e \in {d \in ends : GoesOn(d)}}
                 ELSE {})

RECURSIVE RunFor(_, _, _)
RunFor(x, s, vs) ==
  LET ends == RunBlock(x.body, Store(s, x.target, Head(vs)))
  IN  IF vs = <<>> THEN RunBlock(x.orelse, s)
      ELSE Left(ends) \cup UNION {RunFor(x, e, Tail(vs)) : e \in {d \in ends : GoesOn(d)}}

\* Python forgets the name of a handler at its end; a slot stays.
RunHandler(h, s, exc) ==
  LET bound == IF h.name = "" THEN s
               ELSE SetEnv(s, (IF h.slot = 0 THEN h.name :> exc ELSE h.slot :> exc) @@ s.env)
      Forget(e) == IF h.name = "" \/ h.slot # 0 THEN e
                   ELSE [e EXCEPT !.env = [x \in DOMAIN @ \ {h.name} |-> @[x]]]
  IN  {Forget(e) : e \in RunBlock(h.body, bound)}

RunTry(x, s) ==
  LET After(e) == CASE e.out = "raise" /\ x.handlers # <<>> -> RunHandler(x.handlers[1], e, <<"exc">>)
                    [] e.out = "next" -> RunBlock(x.orelse, e)
                    [] OTHER -> {e}
      Finally(e) ==
        IF e.out = "unbound" THEN {e}
        ELSE {IF f.out = "next" THEN [f EXCEPT !.out = e.out] ELSE f
                : f \in RunBlock(IF e.out = "raise" THEN x.raised ELSE x.finalbody, e)}
  IN  UNION {Finally(e) : e \in UNION {After(b) : b \in RunBlock(x.body, s)}}

RunWith(x, s) ==
  LET v == Eval(x.item, s)
  IN  RunBlock(x.body, IF x.var.k = "absent" THEN s ELSE Store(s, x.var, v[2]))

Show(s, v) == [s EXCEPT !.shown = Append(@, v)]

Run(x, s) ==
  CASE x.k = "pass" -> {Next_(s)}
    [] x.k = "expr" -> LET v == Eval(x.value.kids[1], s)
                       IN  IF v = Unbound THEN Abort(s) ELSE {Next_(Show(s, v))}
    [] x.k = "assign" -> RunAssign(x, s)
    [] x.k = "annassign" -> RunAssign([k |-> "assign", targets |-> <<x.target>>, value |-> x.value], s)
    [] x.k = "aug" -> RunAssign([k |-> "assign", targets |-> <<x.target>>,
                                 value |-> [k |-> "add", kids |-> <<x.target, x.value>>]], s)
    [] x.k = "assert" -> LET os == Outcomes(x.test, s)
                         IN  IF os = {} THEN Abort(s)
                             ELSE {End(IF o THEN "next" ELSE "raise", s) : o \in os}
    [] x.k = "if" -> RunIf(x, s)
    [] x.k = "while" -> RunWhile(x, s, LoopBound)
    [] x.k = "for" -> LET v == Eval(x.iter, s)
                      IN  IF v = Unbound THEN Abort(s) ELSE RunFor(x, s, v[2])
    [] x.k = "try" -> RunTry(x, s)
    [] x.k = "with" -> RunWith(x, s)
    [] x.k = "return" -> IF x.value.k = "absent" THEN {End("return", s)}
                         ELSE LET v == Eval(x.value, s)
                              IN  IF v = Unbound THEN Abort(s) ELSE {End("return", Show(s, v))}
    [] x.k = "raise" -> {End("raise", s)}
    [] OTHER -> {End(x.k, s)}

Execution(ends) == {[out |-> e.out, shown |-> e.shown] : e \in ends}
Entry(env) == [out |-> "next", env |-> env, heap |-> HeapStart, shown |-> <<>>]
InPython(b) == Execution(RunBlock(b, Entry(HostValue)))
InMachine(b) == Execution(RunBlock(b, Entry(<<>>)))

(***************************************************************************)
(* The stages of a function.                                               *)
(***************************************************************************)
Init ==
  /\ body \in Programs /\ ret \in Returns
  /\ phase = "source"
  /\ typed = Start(ret) /\ checked = Unchecked /\ generated = Blank
  /\ python = {} /\ compiled = {}

fold ==
  /\ phase = "source"
  /\ typed' = fold_block(Start(ret), body)
  /\ phase' = IF typed'.err THEN "rejected" ELSE "typed"
  /\ UNCHANGED <<body, ret, checked, generated, python, compiled>>

\* A function with a return type must return on every path.
check ==
  /\ phase = "typed"
  /\ checked' = check_block(Unchecked, body, typed.var)
  /\ phase' = IF checked'.err \/ (ret # NoReturn /\ ~checked'.returned) THEN "rejected" ELSE "checked"
  /\ UNCHANGED <<body, ret, typed, generated, python, compiled>>

generate ==
  /\ phase = "checked"
  /\ generated' = gen_block(Blank, body)
  /\ phase' = IF generated'.err THEN "not generated" ELSE "generated"
  /\ UNCHANGED <<body, ret, typed, checked, python, compiled>>

execute ==
  /\ phase = "generated"
  /\ python' = InPython(body) /\ compiled' = InMachine(generated.code)
  /\ phase' = "executed"
  /\ UNCHANGED <<body, ret, typed, checked, generated>>

Next == fold \/ check \/ generate \/ execute
Spec == Init /\ [][Next]_vars

(***************************************************************************)
(* The parts of a statement, and the names a block stores to.              *)
(***************************************************************************)
Parts_(x) ==
  CASE x.k \in {"if", "while", "for"} -> <<x.body, x.orelse>>
    [] x.k = "with" -> <<x.body>>
    [] x.k = "try" -> <<x.body, x.orelse, x.finalbody>> \o [i \in DOMAIN x.handlers |-> x.handlers[i].body]
    [] OTHER -> <<>>

RECURSIVE NamesOf(_)
NamesOf(p) ==
  CASE p.k = "name" -> {p.id}
    [] p.k \in {"tuple", "list", "star"} -> UNION {NamesOf(p.kids[i]) : i \in DOMAIN p.kids}
    [] OTHER -> {}

Targets(x) ==
  CASE x.k = "assign" -> ToSet(x.targets)
    [] x.k \in {"annassign", "aug", "for"} -> {x.target}
    [] x.k = "with" -> {x.var}
    [] OTHER -> {}

RECURSIVE Within(_)
Within(b) == UNION {{x} \cup UNION {Within(Parts_(x)[i]) : i \in DOMAIN Parts_(x)} : x \in ToSet(b)}
Stored(b) == UNION {UNION {NamesOf(t) : t \in Targets(x)} : x \in Within(b)}
HandlerNames(b) == UNION {{h.name : h \in ToSet(x.handlers)} : x \in {y \in Within(b) : y.k = "try"}}

(***************************************************************************)
(* The properties.                                                         *)
(***************************************************************************)
\* No path of an accepted function reads a local variable before it is assigned
\* (function_check.rs, "check statements for proper identifier def-use").  Left out are the
\* three ways in which the check is known to let one through: the reads of augmented assignments
\* and assertions, the else block of a `while`, and a handler's name that is a variable too.
NoUnboundRead ==
  (/\ phase = "executed"
   /\ \A x \in Within(body) : x.k \notin {"aug", "assert"} /\ (x.k = "while" => x.orelse = <<>>)
   /\ HandlerNames(body) \cap Stored(body) = {})
  => \A e \in python : e.out # "unbound"

\* No path of an accepted function with a return type reaches the end of its body
\* (function_check.rs, "return on all paths").
ReturnsChecked ==
  (phase = "executed" /\ ret # NoReturn) => \A e \in python : e.out # "next"

\* The names that are given a host object the generator knows.
HostFed(b) ==
  UNION {UNION {NamesOf(t) : t \in Targets(x)}
           : x \in {y \in Within(b) : y.k \in {"assign", "annassign"} /\ y.value.k \in {"name", "attr"}}}
Known(i) == UNION {UNION {NamesOf(t) : t \in Targets(body[j])} : j \in 1..i - 1}

\* What is known of a variable is true where the variable is used: no loop and no `try` stores
\* to a variable that is given a host object, and none is first given one in a branch.
TrulyStatic ==
  \A i \in DOMAIN body :
    LET inside == Stored(<<body[i]>>) \cap HostFed(body)
    IN  CASE body[i].k \in {"while", "for", "try"} -> inside = {}
          [] body[i].k \in {"if", "with"} -> inside \subseteq Known(i)
          [] OTHER -> TRUE

\* The machine shows the values that Python shows, and ends as Python ends, on every path
\* (stmt.rs, restore_var_assignment: "var_assignment static values may be changed in another
\* branch; if so, remove the static value").
SameUses ==
  (/\ phase = "executed" /\ TrulyStatic
   /\ HandlerNames(body) \cap Stored(body) = {}
   /\ \A e \in python : e.out # "unbound")
  => compiled = python

\* The same without TrulyStatic: the code shows Python's values wherever a static value came
\* from.  The code does not keep this: a value known on entry of a loop is used in all of it.
StaticKept ==
  (phase = "executed" /\ \A e \in python : e.out # "unbound") => compiled = python
=============================================================================
