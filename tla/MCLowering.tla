----------------------------- MODULE MCLowering -----------------------------
(***************************************************************************)
(* The programs of the runs: two statements nested in each other in every  *)
(* way, with a leaf inside, in a loop or not.                              *)
(***************************************************************************)
EXTENDS LoweredRun

May == {"A", "B"}
Do(name) == Call(<<"do", name>>, May)
Quiet(name) == Call(<<"do", name>>, {})

Try(body, handlers, orelse, final) ==
  [op |-> "try", body |-> body, handlers |-> handlers, orelse |-> orelse, final |-> final]
On(x, body) == [exn |-> x, body |-> body]
With(name, enter, body) ==
  [op |-> "with", body |-> body,
   items |-> <<[name |-> name, eval |-> {"A"}, enter |-> enter, exit |-> {"B"}]>>]
If(test, body, orelse) == [op |-> "if", test |-> test, body |-> body, orelse |-> orelse]
While(test, body, orelse) == [op |-> "while", test |-> test, body |-> body, orelse |-> orelse]
For(test, body, orelse) ==
  [op |-> "for", iter |-> <<"do", test>>, may |-> {"A"}, test |-> test, body |-> body,
   orelse |-> orelse]
Plain(op) == [op |-> op]
Throw(x) == [op |-> "raise", exn |-> x]

\* Statements with the block h in each of their places; d tells the levels apart.
Around(d, h) ==
  LET b == <<Do(<<d, "body">>)>>
      q == <<Quiet(<<d, "quiet">>)>>
      f == <<Do(<<d, "final">>)>>
  IN  <<Try(h, <<On("A", q)>>, <<>>, <<>>),
        Try(h, <<On("A", b), On("B", q)>>, q, <<>>),
        Try(h, <<On("B", q), On(AnyExn, b)>>, q, <<>>),
        Try(b, <<On("A", h), On("B", q)>>, <<>>, <<>>),
        Try(q, <<On("A", q)>>, h, <<>>),
        Try(h, <<>>, <<>>, f),
        Try(b, <<>>, <<>>, h),
        Try(h, <<On("A", b)>>, q, f),
        Try(b, <<On("B", h)>>, q, f),
        Try(b, <<On(AnyExn, q)>>, <<>>, h),
        Try(b, <<On(AnyExn, h \o <<Plain("reraise")>>)>>, <<>>, f),
        With(<<d, "item">>, {}, h),
        If(<<d, "if">>, h, b),
        While(<<d, "while">>, h, q),
        While(<<d, "while">>, q, h),
        For(<<d, "for">>, h, b)>>

Leaves == <<Do(<<0, "leaf">>), Plain("return"), Throw("A"), Plain("break"), Plain("continue")>>

(***************************************************************************)
(* What a block may raise, and which exceptions a try statement lets pass. *)
(***************************************************************************)
RECURSIVE MayRaise(_), StatementMayRaise(_)
MayRaise(stmts) == UNION {StatementMayRaise(stmts[i]) : i \in DOMAIN stmts}
PassesOf(s, E) == {x \in E : \A i \in DOMAIN s.handlers : s.handlers[i].exn \notin {x, AnyExn}}
StatementMayRaise(s) ==
  CASE s.op = "call" -> s.may
    [] s.op = "raise" -> {s.exn}
    [] s.op = "reraise" -> May
    [] s.op \in {"if", "while"} -> MayRaise(s.body) \cup MayRaise(s.orelse)
    [] s.op = "for" -> s.may \cup MayRaise(s.body) \cup MayRaise(s.orelse)
    [] s.op = "try" -> PassesOf(s, MayRaise(s.body)) \cup MayRaise(s.orelse) \cup MayRaise(s.final)
                         \cup UNION {MayRaise(s.handlers[i].body) : i \in DOMAIN s.handlers}
    [] s.op = "with" -> May
    [] OTHER -> {}

\* Is there a break or continue of a loop around the statements?
RECURSIVE Jumps(_)
Jumps(stmts) ==
  \E i \in DOMAIN stmts :
    LET s == stmts[i]
    IN  CASE s.op \in {"break", "continue"} -> TRUE
          [] s.op = "if" -> Jumps(s.body) \/ Jumps(s.orelse)
          [] s.op \in {"while", "for"} -> Jumps(s.orelse)
          [] s.op = "try" -> \/ Jumps(s.body) \/ Jumps(s.orelse) \/ Jumps(s.final)
                             \/ \E k \in DOMAIN s.handlers : Jumps(s.handlers[k].body)
          [] s.op = "with" -> Jumps(s.body)
          [] OTHER -> FALSE

(***************************************************************************)
(* Where the lowering is known to differ from Python.  `cleanup`: a region *)
(* with a finalizer is around the statements in this function.             *)
(***************************************************************************)
RECURSIVE Agreeing(_, _)
Agreeing(stmts, cleanup) ==
  \A i \in DOMAIN stmts :
    LET s == stmts[i]
    IN  CASE s.op = "try" ->
               LET inside == cleanup \/ s.final # <<>>
               IN  /\ Agreeing(s.body, inside)
                   /\ Agreeing(s.orelse, inside)
                   /\ \A k \in DOMAIN s.handlers : Agreeing(s.handlers[k].body, inside)
                   /\ Agreeing(s.final, cleanup)
                   \* an exception that this landing pad does not stop skips the
                   \* finalizers around it
                   /\ cleanup /\ s.final = <<>> => PassesOf(s, MayRaise(s.body)) = {}
                   \* the else clause is under the handlers
                   /\ s.handlers # <<>> => MayRaise(s.orelse) = {}
          [] s.op = "with" -> /\ Agreeing(s.body, TRUE)
                              /\ Len(s.items) = 1
                              /\ s.items[1].enter = {}
          [] s.op = "if" -> Agreeing(s.body, cleanup) /\ Agreeing(s.orelse, cleanup)
          [] s.op \in {"while", "for"} -> /\ Agreeing(s.body, cleanup)
                                          /\ Agreeing(s.orelse, cleanup)
                                          \* the else clause is inside the loop
                                          /\ ~Jumps(s.orelse)
          [] OTHER -> TRUE

\* Program <<i, j, k, l>>: statement i with j inside, which has leaf k inside; in a
\* loop if l = 2.
Nest(i, j, k) == <<Around(1, <<Around(2, <<Leaves[k]>>)[j]>>)[i]>>
Program(n) ==
  LET p == Nest(n[1], n[2], n[3])
  IN  (IF n[4] = 1 THEN p ELSE <<While(<<0, "loop">>, p \o <<Quiet(<<0, "again">>)>>, <<>>)>>)
        \o <<Quiet(<<0, "after">>)>>

ManyPrograms ==
  LET Numbers == (1..16) \X (1..16) \X (1..5) \X (1..2)
  IN  [n \in {m \in Numbers : ~Jumps(Program(m)) /\ Agreeing(Program(m), FALSE)} |-> Program(n)]

\* Two exceptions that __nac3_ctrc_exit misses.  A handler for another exception
\* inside the block:
\*   with critical: try: f() except A: ...            where f raises B
\* and one outside it and inside it:
\*   try: with critical: try: f() except A: ...
\*   except B: ...
Critical(body) == With(<<0, "critical">>, {}, body)
TryF(x) == Try(<<Do(<<0, "f">>)>>, <<On(x, <<Quiet(<<0, "handler">>)>>)>>, <<>>, <<>>)
CriticalPrograms ==
  << <<Critical(<<TryF("A")>>)>>,
     <<Try(<<Critical(<<TryF("A")>>)>>, <<On("B", <<>>)>>, <<>>, <<>>)>> >>

\* Three try statements inside each other, none of which catches everything.
ThreeTries ==
  LET Nested(body) == <<Try(<<Do(<<0, "f">>)>> \o body, <<On("A", <<>>)>>, <<>>, <<>>)>>
  IN  <<Nested(Nested(Nested(<<>>)))>>
=============================================================================
