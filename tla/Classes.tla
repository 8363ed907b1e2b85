------------------------------ MODULE Classes ------------------------------
(***************************************************************************)
(* What the type checker relies on in its unification table: keys in       *)
(* classes, a value for each class, and one point in time to go back to.   *)
(* There are no parents, no ranks and no log.                              *)
(***************************************************************************)
EXTENDS Naturals, Sequences

CONSTANT Values

VARIABLES
    class,   \* class[k]: the keys equal to k
    value,   \* value[k]: what k stands for, the same for all keys of a class
    back     \* the classes and values to return to: a sequence of at most one point

vars == <<class, value, back>>

Keys == DOMAIN class

Init == class = <<>> /\ value = <<>> /\ back = <<>>

\* A key made after Mark stays, alone.
New(v) ==
    LET alone == {Len(class) + 1} IN
    /\ class' = Append(class, alone)
    /\ value' = Append(value, v)
    /\ back' = [i \in DOMAIN back |->
                   [class |-> Append(back[i].class, alone), value |-> Append(back[i].value, v)]]

\* The values of two classes are reconciled by the caller, before or after.
Merge(a, b) ==
    LET both == class[a] \cup class[b] IN
    /\ class[a] # class[b]
    /\ class' = [k \in Keys |-> IF k \in both THEN both ELSE class[k]]
    /\ \E v \in {value[a], value[b]} : value' = [k \in Keys |-> IF k \in both THEN v ELSE value[k]]
    /\ UNCHANGED back

Assign(a, v) ==
    /\ value' = [k \in Keys |-> IF k \in class[a] THEN v ELSE value[k]]
    /\ UNCHANGED <<class, back>>

Mark ==
    /\ back = <<>>
    /\ back' = <<[class |-> class, value |-> value]>>
    /\ UNCHANGED <<class, value>>

Return ==
    /\ back # <<>>
    /\ class' = back[1].class /\ value' = back[1].value /\ back' = <<>>

Forget == back # <<>> /\ back' = <<>> /\ UNCHANGED <<class, value>>

Next ==
    \/ \E v \in Values : New(v)
    \/ \E a, b \in Keys : Merge(a, b)
    \/ \E a \in Keys, v \in Values : Assign(a, v)
    \/ Mark \/ Return \/ Forget

Spec == Init /\ [][Next]_vars
=============================================================================
