---------------------------- MODULE Compilation ----------------------------
(***************************************************************************)
(* What the code-generation pool promises its caller, with no threads,     *)
(* queue or locks: starting from the root, every instance that is called   *)
(* is requested once and built once, and the compilation succeeds only     *)
(* with all of them built and only if nothing failed on the way.           *)
(***************************************************************************)
CONSTANTS Instances, Root, Calls

VARIABLES
    requested,  \* the instances that have been asked for
    built,      \* the instances whose code will reach the linker
    outcome     \* "running", "failing", "ok" or "failed"

vars == <<requested, built, outcome>>

Init == requested = {Root} /\ built = {} /\ outcome = "running"

Request(k) ==
    /\ outcome # "ok"
    /\ k \notin requested
    /\ \E j \in requested : k \in Calls[j]
    /\ requested' = requested \cup {k}
    /\ UNCHANGED <<built, outcome>>

Build(k) ==
    /\ outcome # "ok"
    /\ k \in requested \ built
    /\ Calls[k] \subseteq requested
    /\ built' = built \cup {k}
    /\ UNCHANGED <<requested, outcome>>

\* A failure may lose code that was built, and is never forgotten
Fail ==
    /\ outcome # "ok"
    /\ built' \in SUBSET built
    /\ outcome' \in {"failing", "failed"} /\ (outcome = "failed" => outcome' = "failed")
    /\ UNCHANGED requested

Succeed ==
    /\ outcome = "running" /\ built = requested
    /\ outcome' = "ok"
    /\ UNCHANGED <<requested, built>>

Next == (\E k \in Instances : Request(k) \/ Build(k)) \/ Fail \/ Succeed

Spec == Init /\ [][Next]_vars
=============================================================================
