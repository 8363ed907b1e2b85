----------------------------- MODULE LoweredRun -----------------------------
(***************************************************************************)
(* Runs the blocks of Lowering beside the reference of PythonControl.  A   *)
(* step is one instruction.  Calls return or raise, and tests go either    *)
(* way, as they like; the reference is told what happened, and says which  *)
(* event the program does next.                                            *)
(*                                                                         *)
(* The unwinder is external: a landing pad stops an exception that one of  *)
(* its clauses names, and any if it has the cleanup flag; another one is   *)
(* passed over and the function with it.  The run-time keeps the           *)
(* exceptions being handled on a stack: __nac3_resume raises the top again *)
(* and __nac3_end_catch removes it.                                        *)
(***************************************************************************)
EXTENDS Lowering, SequencesExt

CONSTANTS
  Programs,  \* sequence of function bodies
  MaxTests   \* bound: tests that come out true in a run

P == INSTANCE PythonControl

VARIABLES
  prog,    \* index of the program
  at,      \* block
  ip,      \* next instruction of the block
  slot,    \* final_state of each region: where to go after the finalizer
  caught,  \* per landing pad, the exception it got last
  exn,     \* per dispatcher, its phi
  active,  \* exceptions being handled
  entered, \* items of with statements that were entered and not left
  how,     \* running, or how the function was left
  tests,
  ref      \* the reference

vars == <<prog, at, ip, slot, caught, exn, active, entered, how, tests, ref>>

\* (@@ makes TLC compute the function once.)
Generated == [p \in DOMAIN Programs |-> GenFunc(Programs[p])] @@ <<>>
Code == Generated[prog].code
Block == Code[at]
AtTerm == ip > Len(Block.ins)
Undefined == "undefined"
Running == <<"running">>
Init ==
  /\ prog \in DOMAIN Programs
  /\ at = Entry
  /\ ip = 1
  /\ slot = <<>>
  /\ caught = <<>>
  /\ exn = <<>>
  /\ active = <<>>
  /\ entered = {}
  /\ how = Running
  /\ tests = 0
  /\ ref = P!Start(Programs[prog])

(***************************************************************************)
(* Events.                                                                 *)
(***************************************************************************)
Pending ==
  IF how # Running THEN how
  ELSE IF ~AtTerm THEN <<Block.ins[ip].op>>
  ELSE CASE Block.term.op = "invoke" -> <<"call", Block.term.ev>>
         [] Block.term.op = "test" -> <<"test", Block.term.test>>
         [] OTHER -> <<"silent">>
Visible == Pending[1] \in {"call", "test", "end_catch", "returned", "raised"}
InStep == Pending = P!Expected(ref)

(***************************************************************************)
(* Control.                                                                *)
(***************************************************************************)
Set(f, x, v) == [y \in DOMAIN f \cup {x} |-> IF y = x THEN v ELSE f[y]]
Get(f, x) == IF x \in DOMAIN f THEN f[x] ELSE Undefined

Incoming(b) == {e \in Code[b].phi : e.from = at}
Goto(b) ==
  /\ at' = b
  /\ ip' = 1
  /\ exn' = IF Code[b].phi = {} THEN exn
            ELSE Set(exn, b, IF Incoming(b) = {} THEN Undefined
                             ELSE Get(caught, (CHOOSE e \in Incoming(b) : TRUE).pad))

Stops(pad, x) == pad.cleanup \/ \E i \in DOMAIN pad.clauses : pad.clauses[i] \in {x, AnyExn}
Unwind(x, b) ==
  IF b # NoBlock /\ Stops(Code[b].pad, x)
  THEN Goto(b) /\ caught' = Set(caught, b, x) /\ UNCHANGED how
  ELSE how' = <<"raised", x>> /\ UNCHANGED <<at, ip, caught, exn>>

AtTerminator(op) == how = Running /\ AtTerm /\ Block.term.op = op

Store ==
  /\ how = Running
  /\ ~AtTerm
  /\ Block.ins[ip].op = "store"
  /\ slot' = Set(slot, Block.ins[ip].slot, Block.ins[ip].to)
  /\ ip' = ip + 1
  /\ UNCHANGED <<prog, at, caught, exn, active, entered, how, tests, ref>>

EndsCatch ==
  /\ how = Running
  /\ ~AtTerm
  /\ Block.ins[ip].op = "end_catch"
  /\ active # <<>>
  /\ active' = Front(active)
  /\ ip' = ip + 1
  /\ ref' = IF InStep THEN P!Caught(ref) ELSE ref
  /\ UNCHANGED <<prog, at, slot, caught, exn, entered, how, tests>>

Branch ==
  /\ AtTerminator("br")
  /\ Goto(Block.term.to)
  /\ UNCHANGED <<prog, slot, caught, active, entered, how, tests, ref>>

IndirectBranch ==
  /\ AtTerminator("ibr")
  /\ Goto(slot[Block.term.slot])
  /\ UNCHANGED <<prog, slot, caught, active, entered, how, tests, ref>>

Match ==
  /\ AtTerminator("match")
  /\ Goto(IF exn[Block.term.dispatch] = Block.term.exn THEN Block.term.yes ELSE Block.term.no)
  /\ UNCHANGED <<prog, slot, caught, active, entered, how, tests, ref>>

Test ==
  /\ AtTerminator("test")
  /\ \E yes \in BOOLEAN :
       /\ yes => tests < MaxTests
       /\ Goto(IF yes THEN Block.term.yes ELSE Block.term.no)
       /\ tests' = IF yes THEN tests + 1 ELSE tests
       /\ ref' = IF InStep THEN P!Tested(ref, yes) ELSE ref
  /\ UNCHANGED <<prog, slot, caught, active, entered, how>>

\* An enter that returns opens its item; calling exit closes it, however it ends.
CallReturns ==
  /\ AtTerminator("invoke")
  /\ Goto(Block.term.to)
  /\ entered' = CASE Block.term.ev[1] = "enter" -> entered \cup {Block.term.ev[2]}
                  [] Block.term.ev[1] = "exit" -> entered \ {Block.term.ev[2]}
                  [] OTHER -> entered
  /\ ref' = IF InStep THEN P!Returns(ref) ELSE ref
  /\ UNCHANGED <<prog, slot, caught, active, how, tests>>

CallRaises ==
  /\ AtTerminator("invoke")
  /\ \E x \in Block.term.may :
       /\ Unwind(x, Block.term.unwind)
       /\ active' = Append(active, x)
       /\ ref' = IF InStep THEN P!Raises(ref, x) ELSE ref
  /\ entered' = IF Block.term.ev[1] = "exit" THEN entered \ {Block.term.ev[2]} ELSE entered
  /\ UNCHANGED <<prog, slot, tests>>

Raise ==
  /\ AtTerminator("raise")
  /\ Unwind(Block.term.exn, Block.term.unwind)
  /\ active' = Append(active, Block.term.exn)
  /\ UNCHANGED <<prog, slot, entered, tests, ref>>

Resumes ==
  /\ AtTerminator("resume")
  /\ active # <<>>
  /\ Unwind(Last(active), Block.term.unwind)
  /\ UNCHANGED <<prog, slot, active, entered, tests, ref>>

Return ==
  /\ AtTerminator("ret")
  /\ how' = <<"returned">>
  /\ UNCHANGED <<prog, at, ip, slot, caught, exn, active, entered, tests, ref>>

Next == \/ Store \/ EndsCatch \/ Branch \/ IndirectBranch \/ Match \/ Test
        \/ CallReturns \/ CallRaises \/ Raise \/ Resumes \/ Return

Spec == Init /\ [][Next]_vars

(***************************************************************************)
(* Properties.                                                             *)
(***************************************************************************)

\* (stmt.rs:1666, 2072) The generated code does the calls, the tests and the ends of handling that
\* Python does, in its order, on every way through: whatever raises where and
\* whatever is tested, finalizers run once, handlers are the right ones, and the
\* function is left as it should be.
SameAsPython == Visible => InStep

\* (stmt.rs:1833, 1914) A dispatcher that compares the exception, or hands it to a
\* handler, has the one being handled, and not an earlier one or none, by whatever
\* landing pads and inner dispatchers control came to it.
DispatchesCurrent ==
  AtTerminator("match") => /\ active # <<>>
                           /\ Get(exn, Block.term.dispatch) = Last(active)

\* Blocks that control can go to by falling through, branching and unwinding.
Stores(code) == UNION {ToSet(code[b].ins) : b \in DOMAIN code} \ {EndCatch}
Stored(code, s) == {i.to : i \in {j \in Stores(code) : j.slot = s}}
Flow(code, t) ==
  CASE t.op \in {"br", "invoke"} -> {t.to}
    [] t.op \in {"test", "match"} -> {t.yes, t.no}
    [] t.op = "ibr" -> Stored(code, t.slot)
    [] OTHER -> {}
Unwinds(t) == IF t.op \in {"invoke", "raise", "resume"} THEN {t.unwind} \ {NoBlock} ELSE {}

RECURSIVE Reach(_, _, _)
Reach(code, from, avoid) ==
  LET to == UNION {Flow(code, code[b].term) \cup Unwinds(code[b].term) : b \in from} \ avoid
  IN  IF to \subseteq from THEN from ELSE Reach(code, from \cup to, avoid)

\* A phi entry is the value of a landing pad that every way to it goes through.
DefinedFor(code, e) == e.from \notin Reach(code, {Entry}, {e.pad})
VerifiedBlock(code, b) ==
  /\ code[b].term # NoTerm
  /\ \A c \in Flow(code, code[b].term) :
       /\ code[c].pad = NoPad
       /\ code[c].phi # {} => \E e \in code[c].phi : e.from = b
  /\ \A c \in Unwinds(code[b].term) : code[c].pad # NoPad
  /\ \A e \in code[b].phi : b \in Flow(code, code[e.from].term) /\ DefinedFor(code, e)

\* The module would pass LLVM's verification, which panics otherwise: blocks end,
\* dispatchers know each of their predecessors, a landing pad is reached by
\* unwinding only, and an exception taken from a landing pad is taken on paths
\* that have been through it (mod.rs:488).  Every statement gives the generator
\* its targets back.
Verified ==
  at = Entry =>
    /\ \A b \in DOMAIN Code : VerifiedBlock(Code, b)
    /\ Generated[prog].loop = NoLoop
    /\ Generated[prog].catch = NoCatch
    /\ <<Generated[prog].ret, Generated[prog].unwind>> = <<Finalize, FunctionPad>>

\* When the function is left, every item of a with statement that was entered was
\* left (docs/ctrc.md:240: __nac3_ctrc_exit runs on every exit path).
ExitOnEveryPath == how # Running => entered = {}
=============================================================================
