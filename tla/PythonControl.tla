---------------------------- MODULE PythonControl ----------------------------
(***************************************************************************)
(* Reference: what Python's statements do, by a stack of frames.  `how` is *)
(* the way the innermost frame is being left ("normal" when it goes on).   *)
(* A reference state is settled when its next step is an event: a call, a  *)
(* test, or the end of the handling of an exception.                       *)
(***************************************************************************)
EXTENDS Naturals, Sequences

Normal == [kind |-> "normal"]
Raising(x) == [kind |-> "raise", exn |-> x]

Seq1(stmts) == [k |-> "seq", rest |-> stmts]
Push(r, fs) == [how |-> Normal, frames |-> fs \o r.frames]
Pop(r) == [r EXCEPT !.frames = Tail(@)]

\* with a, b: body  ==  a; enter a; try: (with b: body) finally: exit a
AsTry(s) ==
  IF s.items = <<>> THEN s.body
  ELSE LET it == Head(s.items)
       IN  <<[op |-> "call", ev |-> <<"eval", it.name>>, may |-> it.eval],
             [op |-> "call", ev |-> <<"enter", it.name>>, may |-> it.enter],
             [op |-> "try", body |-> <<[s EXCEPT !.items = Tail(@)]>>, handlers |-> <<>>,
              orelse |-> <<>>,
              final |-> <<[op |-> "call", ev |-> <<"exit", it.name>>, may |-> it.exit]>>]>>

Finally(s) == IF s.final = <<>> THEN <<>> ELSE <<[k |-> "finally", body |-> s.final]>>

Handled(r) ==
  LET i == CHOOSE i \in DOMAIN r.frames :
             /\ r.frames[i].k = "handling"
             /\ \A j \in 1..(i - 1) : r.frames[j].k # "handling"
  IN  r.frames[i].exn

\* The first statement s of the innermost block, when it is no event.
Execute(s, r) ==
  CASE s.op = "try" -> Push(r, <<Seq1(s.body), [k |-> "try", s |-> s]>> \o Finally(s))
    [] s.op = "with" -> Push(r, <<Seq1(AsTry(s))>>)
    [] s.op = "raise" -> [r EXCEPT !.how = Raising(s.exn)]
    [] s.op = "reraise" -> [r EXCEPT !.how = Raising(Handled(r))]
    [] OTHER -> [r EXCEPT !.how = [kind |-> s.op]]

Matching(s, x) == {i \in DOMAIN s.handlers : s.handlers[i].exn \in {x, "Exception"}}
First(S) == CHOOSE i \in S : \A j \in S : i <= j
Handle(s, x, r) ==
  IF Matching(s, x) = {} THEN r
  ELSE Push(r, <<Seq1(s.handlers[First(Matching(s, x))].body), [k |-> "handling", exn |-> x]>>)

\* One step of a state that is not settled, by the innermost frame f; `r` has
\* f removed.
LeaveFrame(f, r) ==
  CASE f.k = "seq" -> IF r.how # Normal \/ f.rest = <<>> THEN r
                      ELSE Execute(Head(f.rest), Push(r, <<Seq1(Tail(f.rest))>>))
    [] f.k = "loop" -> CASE r.how.kind \in {"normal", "continue"} -> Push(r, <<Seq1(<<f.s>>)>>)
                         [] r.how.kind = "break" -> [r EXCEPT !.how = Normal]
                         [] OTHER -> r
    [] f.k = "try" -> CASE r.how = Normal -> Push(r, <<Seq1(f.s.orelse)>>)
                        [] r.how.kind = "raise" -> Handle(f.s, r.how.exn, r)
                        [] OTHER -> r
    [] f.k = "finally" -> Push(r, <<Seq1(f.body), [k |-> "after", how |-> r.how]>>)
    [] f.k = "after" -> IF r.how = Normal THEN [r EXCEPT !.how = f.how] ELSE r
    [] f.k = "handling" -> r

AtEvent(r) ==
  LET f == Head(r.frames)
  IN  \/ /\ f.k = "seq"
         /\ r.how = Normal
         /\ f.rest # <<>>
         /\ Head(f.rest).op \in {"call", "if", "while", "for"}
      \/ f.k = "handling" /\ r.how.kind # "raise"

RECURSIVE Settle(_)
Settle(r) == IF r.frames = <<>> \/ AtEvent(r) THEN r ELSE Settle(LeaveFrame(Head(r.frames), Pop(r)))

Start(body) == Settle([how |-> Normal, frames |-> <<Seq1(body)>>])

\* The event the program does next.
EventOf(s) == CASE s.op = "call" -> <<"call", s.ev>>
                [] s.op = "for" -> <<"call", s.iter>>
                [] OTHER -> <<"test", s.test>>
Done(how) == IF how.kind = "raise" THEN <<"raised", how.exn>> ELSE <<"returned">>
Expected(r) ==
  IF r.frames = <<>> THEN Done(r.how)
  ELSE IF Head(r.frames).k = "handling" THEN <<"end_catch">>
  ELSE EventOf(Head(Head(r.frames).rest))

\* The states after the event: a call returns or raises, a test is true or false.
Statement(r) == Head(Head(r.frames).rest)
Passed(r) == [r EXCEPT !.frames[1].rest = Tail(@)]
AsWhile(s) == [op |-> "while", test |-> s.test, body |-> s.body, orelse |-> s.orelse]

Returns(r) ==
  Settle(IF Statement(r).op = "for" THEN Push(Passed(r), <<Seq1(<<AsWhile(Statement(r))>>)>>)
         ELSE Passed(r))
Raises(r, x) == Settle([r EXCEPT !.how = Raising(x)])
Tested(r, yes) ==
  LET s == Statement(r)
  IN  Settle(Push(Passed(r), IF ~yes THEN <<Seq1(s.orelse)>>
                             ELSE IF s.op = "if" THEN <<Seq1(s.body)>>
                             ELSE <<Seq1(s.body), [k |-> "loop", s |-> s]>>))
Caught(r) == Settle(Pop(r))
=============================================================================
