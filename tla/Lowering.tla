------------------------------- MODULE Lowering -------------------------------
(***************************************************************************)
(* How statements become basic blocks: nac3core/src/codegen/stmt.rs.       *)
(*                                                                         *)
(* A generator `g` is the control part of CodeGenContext: the blocks of    *)
(* the function so far, the block the builder is in, and the targets that  *)
(* break, continue, return and exceptions go to at this point.  The        *)
(* operators take a generator and return the one that has generated the    *)
(* statement.  Statements keep what decides control: a call has the set of *)
(* exceptions it may raise, a test is an event with two outcomes.          *)
(***************************************************************************)
EXTENDS Naturals, Sequences, FiniteSets

NoBlock == 0
NoPad == [clauses |-> <<>>, cleanup |-> FALSE]
NoTerm == [op |-> "none"]
NoLoop == [next |-> NoBlock, exit |-> NoBlock]
NoCatch == [clauses |-> <<>>, disp |-> NoBlock]
AnyExn == "Exception"

EmptyBlock == [pad |-> NoPad, phi |-> {}, ins |-> <<>>, term |-> NoTerm]

Grow(g, n) == [g EXCEPT !.code = @ \o [i \in 1..n |-> EmptyBlock]]
At(g, b) == [g EXCEPT !.at = b]
Terminated(g) == g.code[g.at].term # NoTerm
Terminate(g, term) == [g EXCEPT !.code[g.at].term = term]
Emit(g, i) == [g EXCEPT !.code[g.at].ins = Append(@, i)]
Br(b) == [op |-> "br", to |-> b]
JumpIfOpen(g, b) == IF Terminated(g) THEN g ELSE Terminate(g, Br(b))

(***************************************************************************)
(* Calls.  A call under an unwind target is an invoke: it ends its block   *)
(* and goes on in a new one, or in the landing pad.                        *)
(***************************************************************************)
InvokeTo(g, ev, may, next) ==
  At(Terminate(g, [op |-> "invoke", ev |-> ev, may |-> may, to |-> next, unwind |-> g.unwind]),
     next)
Invoke(g, ev, may) == InvokeTo(Grow(g, 1), ev, may, Len(g.code) + 1)

EndCatch == [op |-> "end_catch"]
Resume(g) == Terminate(g, [op |-> "resume", unwind |-> g.unwind])

\* `raise X` calls __nac3_raise, `raise` calls __nac3_resume; neither returns.
GenRaise(g, s) ==
  IF s.op = "reraise" THEN Resume(g)
  ELSE Terminate(g, [op |-> "raise", exn |-> s.exn, unwind |-> g.unwind])

RECURSIVE GenBlock(_, _), GenStmt(_, _)

Arm(g, stmts, end) == JumpIfOpen(GenBlock(g, stmts), end)

(***************************************************************************)
(* Branches and loops.  The blocks of an `if` are then, else, end; those   *)
(* of a loop are cond, update, end and the arms of its test, the second of *)
(* which holds the `else` clause.                                          *)
(***************************************************************************)
BranchOn(g, test, b) ==
  At(Terminate(g, [op |-> "test", test |-> test, yes |-> b, no |-> b + 1]), b)

IfFrom(g, s, n) ==
  At(Arm(At(Arm(BranchOn(g, s.test, n + 1), s.body, n + 3), n + 2), s.orelse, n + 3), n + 3)
GenIf(g, s) == IfFrom(Grow(g, 3), s, Len(g.code))

LoopHeader(g, n) ==
  [At(Terminate(g, Br(n + 1)), n + 1) EXCEPT !.loop = [next |-> n + 2, exit |-> n + 3]]
LoopArms(g, s, n) ==
  Arm(At(Arm(BranchOn(g, s.test, n + 4), s.body, n + 2), n + 5), s.orelse, n + 3)
LoopEnd(g, n, outer) == [At(JumpIfOpen(At(g, n + 2), n + 1), n + 3) EXCEPT !.loop = outer]
BuildLoop(g, s, n, outer) == LoopEnd(LoopArms(LoopHeader(g, n), s, n), n, outer)

GenWhile(g, s) == BuildLoop(Grow(g, 5), s, Len(g.code), g.loop)

\* Every kind of iterable is a loop whose test is "one more element"; what may
\* raise, such as the step of a range, is evaluated before it.
GenFor(g, s) == GenWhile(Invoke(g, s.iter, s.may), s)

(***************************************************************************)
(* try and with.  A region has a body, handlers, and statements to run on  *)
(* every way out; `t` numbers its blocks, and `o` is the generator before  *)
(* it, whose targets are restored.  break, continue and return inside a    *)
(* region with a finalizer go to proxies that store where to go afterwards *)
(* and branch to the finalizer.                                            *)
(***************************************************************************)
RegionBlocks(r, loop) ==
  <<"landing", "dispatch", "tail", "catch_return">>
    \o (IF r.final = <<>> THEN <<>> ELSE <<"return", "cleanup", "catch_final", "finally">>)
    \o (IF loop = NoLoop THEN <<>> ELSE <<"catch_break", "catch_continue">>)
    \o (IF r.final = <<>> \/ loop = NoLoop THEN <<>> ELSE <<"break", "continue">>)

Number(names, n) == [b \in {names[i] : i \in DOMAIN names} |-> n + CHOOSE i \in DOMAIN names : names[i] = b]

FinalProxy(g, target, block, t) ==
  [g EXCEPT !.code[block].ins = Append(@, [op |-> "store", slot |-> t.tail, to |-> target]),
            !.code[block].term = Br(t.finally)]
Redirect(g, target, block, t, r) ==
  IF r.final # <<>> THEN FinalProxy(g, target, block, t)
  ELSE [g EXCEPT !.code[block].term = Br(target)]

ProxyReturn(g, block, t, r) == [Redirect(g, g.ret, block, t, r) EXCEPT !.ret = block]
ProxyLoop(g, next, exit, t, r) ==
  [Redirect(Redirect(g, g.loop.exit, exit, t, r), g.loop.next, next, t, r)
     EXCEPT !.loop = [next |-> next, exit |-> exit]]

\* The end of the body or of a handler goes to the statement after, by way of
\* the finalizer.
LeaveFrom(g, t, r) == JumpIfOpen(IF r.final = <<>> \/ Terminated(g) THEN g
                                 ELSE FinalProxy(g, t.tail, g.at, t), t.tail)

\* Mutant: a return after the region still goes to the region's proxy.
RestoreTargets_KeepsReturn(g, o) ==
  [g EXCEPT !.loop = o.loop, !.unwind = o.unwind, !.catch = o.catch]

RestoreTargets(g, o) ==
  [g EXCEPT !.loop = o.loop, !.ret = o.ret, !.unwind = o.unwind, !.catch = o.catch]

\* The clauses up to the first that catches everything; the landing pad also
\* has those of the enclosing regions, whose dispatchers come after this one.
RECURSIVE Clauses(_)
Clauses(hs) == IF hs = <<>> THEN <<>>
               ELSE IF Head(hs).exn = AnyExn THEN <<AnyExn>>
               ELSE <<Head(hs).exn>> \o Clauses(Tail(hs))
CatchesAll(r) == \E i \in DOMAIN r.handlers : r.handlers[i].exn = AnyExn
AllClauses(r, o) ==
  Clauses(r.handlers) \o (IF CatchesAll(r) THEN <<>> ELSE o.catch.clauses)

BodyTargets(g, t, r) ==
  IF r.final = <<>> THEN g
  ELSE ProxyReturn(IF g.loop = NoLoop THEN g ELSE ProxyLoop(g, t.continue, t.break, t, r),
                   t.return, t, r)
Guarded(g, t, r, o) ==
  [g EXCEPT !.unwind = t.landing,
            !.catch = IF r.with THEN @ ELSE [clauses |-> AllClauses(r, o), disp |-> t.dispatch]]
OrElse(g, r) == IF Terminated(g) THEN g ELSE GenBlock(g, r.orelse)
RegionBody(g, t, r, o) ==
  RestoreTargets(LeaveFrom(OrElse(GenBlock(Guarded(BodyTargets(g, t, r), t, r, o), r.body), r),
                           t, r), o)

\* In a handler: exceptions go to the finalizer, and the other ways out end the
\* handling of the exception first.
HandlerUnwind(g, t, r) ==
  IF r.final = <<>> THEN g
  ELSE [g EXCEPT !.code[t.catch_final] =
                    [@ EXCEPT !.pad = [clauses |-> <<>>, cleanup |-> TRUE], !.term = Br(t.cleanup)],
                 !.unwind = t.catch_final]
EndCatchIn(g, b) == [g EXCEPT !.code[b].ins = Append(@, EndCatch)]
HandlerReturn(g, t, r) == ProxyReturn(EndCatchIn(g, t.catch_return), t.catch_return, t, r)
HandlerLoop(g, t, r) ==
  IF g.loop = NoLoop THEN g
  ELSE ProxyLoop(EndCatchIn(EndCatchIn(g, t.catch_break), t.catch_continue),
                 t.catch_continue, t.catch_break, t, r)
HandlerTargets(g, t, r) == HandlerReturn(HandlerLoop(HandlerUnwind(g, t, r), t, r), t, r)

\* The handlers and the chain of tests that selects one; the builder ends in the
\* last block of the chain.
RECURSIVE GenHandlers(_, _, _, _)
EndHandler(g, t, r) == IF Terminated(g) THEN g ELSE LeaveFrom(Emit(g, EndCatch), t, r)
SelectHandler(g, h, t, b) ==
  Terminate(g, IF h.exn = AnyExn THEN Br(b)
               ELSE [op |-> "match", dispatch |-> t.dispatch, exn |-> h.exn, yes |-> b, no |-> b + 1])
NextHandlers(g, hs, t, r, b, last) ==
  IF Head(hs).exn = AnyExn THEN At(g, last) ELSE GenHandlers(At(g, b + 1), Tail(hs), t, r)
HandlerFrom(g, hs, t, r, b) ==
  NextHandlers(EndHandler(GenBlock(At(SelectHandler(g, Head(hs), t, b), b), Head(hs).body), t, r),
               hs, t, r, b, g.at)
GenHandlers(g, hs, t, r) ==
  IF hs = <<>> THEN g
  ELSE HandlerFrom(Grow(g, IF Head(hs).exn = AnyExn THEN 1 ELSE 2), hs, t, r, Len(g.code) + 1)

LandingPad(g, t, r, o) ==
  [g EXCEPT !.code[t.landing] =
               [@ EXCEPT !.pad = [clauses |-> IF r.final = <<>> THEN AllClauses(r, o)
                                              ELSE Clauses(r.handlers),
                                  cleanup |-> r.final # <<>>],
                         !.term = Br(t.dispatch)],
            !.code[t.dispatch].phi = @ \cup {[from |-> t.landing, pad |-> t.landing]}]

\* No clause matches: to the finalizer, to the dispatcher of the enclosing
\* region, or out of the function.
\* Mutants: the enclosing dispatcher gets the exception of its own landing pad,
\* or does not know of this predecessor.
PassOn_OuterException(g, t, disp) ==
  Terminate([g EXCEPT !.code[disp].phi = @ \cup {[from |-> g.at, pad |-> g.unwind]}], Br(disp))
PassOn_NoIncoming(g, t, disp) == Terminate(g, Br(disp))

PassOn(g, t, disp) ==
  Terminate([g EXCEPT !.code[disp].phi = @ \cup {[from |-> g.at, pad |-> t.landing]}], Br(disp))
NoMatch(g, t, r) ==
  IF Terminated(g) THEN g
  ELSE IF r.final # <<>> THEN Terminate(g, Br(t.cleanup))
  ELSE IF g.catch # NoCatch THEN PassOn(g, t, g.catch.disp)
  ELSE Resume(g)

\* The finalizer is generated twice: after an exception, and for the other ways.
ExceptionPath(g) == IF Terminated(g) THEN g ELSE Resume(g)
NormalPath(g, t) == IF Terminated(g) THEN g ELSE Terminate(g, [op |-> "ibr", slot |-> t.tail])
Finalizers(g, t, r) ==
  IF r.final = <<>> THEN g
  ELSE NormalPath(GenBlock(At(ExceptionPath(GenBlock(At(g, t.cleanup), r.final)), t.finally),
                           r.final), t)

RegionHandlers(g, t, r, o) ==
  RestoreTargets(GenHandlers(At(HandlerTargets(g, t, r), t.dispatch), r.handlers, t, r), o)
RegionFrom(g, t, r, o) ==
  At(Finalizers(NoMatch(LandingPad(RegionHandlers(RegionBody(g, t, r, o), t, r, o), t, r, o),
                        t, r), t, r), t.tail)
GenRegion(g, r, names) == RegionFrom(Grow(g, Len(names)), Number(names, Len(g.code)), r, g)

GenTry(g, s) ==
  LET r == [with |-> FALSE, body |-> s.body, handlers |-> s.handlers, orelse |-> s.orelse,
            final |-> s.final]
  IN  GenRegion(g, r, RegionBlocks(r, g.loop))

(***************************************************************************)
(* with: the items are evaluated before the region, entered at the head of *)
(* its body, and left in the reverse order in its finalizer.               *)
(***************************************************************************)
Call(ev, may) == [op |-> "call", ev |-> ev, may |-> may]
RECURSIVE EvalItems(_, _)
EvalItems(g, items) ==
  IF items = <<>> THEN g
  ELSE EvalItems(Invoke(g, <<"eval", Head(items).name>>, Head(items).eval), Tail(items))
Enters(items) == [i \in DOMAIN items |-> Call(<<"enter", items[i].name>>, items[i].enter)]
Exits(items) ==
  [i \in DOMAIN items |-> LET it == items[Len(items) + 1 - i] IN Call(<<"exit", it.name>>, it.exit)]

GenWith(g, s) ==
  LET r == [with |-> TRUE, body |-> Enters(s.items) \o s.body, handlers |-> <<>>, orelse |-> <<>>,
            final |-> Exits(s.items)]
  IN  GenRegion(EvalItems(g, s.items), r, RegionBlocks(r, g.loop))

GenStmt(g, s) ==
  CASE s.op = "call" -> Invoke(g, s.ev, s.may)
    [] s.op = "return" -> Terminate(g, Br(g.ret))
    [] s.op = "break" -> Terminate(g, Br(g.loop.exit))
    [] s.op = "continue" -> Terminate(g, Br(g.loop.next))
    [] s.op \in {"raise", "reraise"} -> GenRaise(g, s)
    [] s.op = "if" -> GenIf(g, s)
    [] s.op = "while" -> GenWhile(g, s)
    [] s.op = "for" -> GenFor(g, s)
    [] s.op = "try" -> GenTry(g, s)
    [] s.op = "with" -> GenWith(g, s)

\* Statements after one that ends the block are not generated.
RestOfBlock(g, stmts) == IF Terminated(g) THEN g ELSE GenBlock(g, stmts)
GenBlock(g, stmts) ==
  IF stmts = <<>> THEN g ELSE RestOfBlock(GenStmt(g, Head(stmts)), Tail(stmts))

(***************************************************************************)
(* A function: body, finalize (releases the locals and returns), and the   *)
(* landing pad of the function (releases them and resumes).                *)
(***************************************************************************)
Entry == 1
Finalize == 2
FunctionPad == 3
NewFunction ==
  [code |-> <<EmptyBlock,
              [EmptyBlock EXCEPT !.term = [op |-> "ret"]],
              [EmptyBlock EXCEPT !.pad = [clauses |-> <<>>, cleanup |-> TRUE],
                                 !.term = [op |-> "resume", unwind |-> NoBlock]]>>,
   at |-> Entry, loop |-> NoLoop, ret |-> Finalize, unwind |-> FunctionPad, catch |-> NoCatch]
GenFunc(body) == Arm(NewFunction, body, Finalize)
=============================================================================
