----------------------------- MODULE TableUse -----------------------------
(***************************************************************************)
(* The unification table under any caller that keeps to the protocol of    *)
(* the unifier (nac3core/src/typecheck/typedef/mod.rs): of nested          *)
(* snapshots only the outermost is kept, and restored or discarded.        *)
(***************************************************************************)
EXTENDS UnificationTable

CONSTANT Values   \* what a key can stand for

VARIABLES
    table,
    snapshot,   \* the snapshot that is open
    saved       \* the table when it was taken, and the keys made since (history)

vars == <<table, snapshot, saved>>

\* the None of the unifier's snapshot; a snapshot has a log behind it
NoSnapshot == [log_len |-> 0, generation |-> 0]

Init == table = EmptyTable /\ snapshot = NoSnapshot /\ saved = EmptyTable

Open == snapshot # NoSnapshot

NewKey(v) ==
    /\ table' = new_key(table, v)
    /\ saved' = new_key(saved, v)
    /\ UNCHANGED snapshot

\* probe_value, unioned, get_representative
Find(k) == table' = find(table, k) /\ UNCHANGED <<snapshot, saved>>

Unify(a, b) == table' = table_unify(table, a, b) /\ UNCHANGED <<snapshot, saved>>

SetValue(k, v) == table' = set_value(table, k, v) /\ UNCHANGED <<snapshot, saved>>

\* a nested call of the unifier leaves its marker in the log and forgets the snapshot
TakeSnapshot ==
    /\ table' = get_snapshot(table)
    /\ IF Open THEN UNCHANGED <<snapshot, saved>>
       ELSE snapshot' = snapshot_of(table) /\ saved' = table

RestoreSnapshot ==
    /\ Open
    /\ table' = restore_snapshot(table, snapshot)
    /\ snapshot' = NoSnapshot /\ UNCHANGED saved

DiscardSnapshot ==
    /\ Open
    /\ table' = discard_snapshot(table)
    /\ snapshot' = NoSnapshot /\ UNCHANGED saved

\* the table moves to another thread
Share ==
    /\ ~Open
    /\ table' = get_send(table) /\ UNCHANGED <<snapshot, saved>>

Next ==
    \/ \E v \in Values : NewKey(v)
    \/ \E k \in Keys(table) : Find(k) \/ \E v \in Values : SetValue(k, v)
    \/ \E a, b \in Keys(table) : Unify(a, b)
    \/ TakeSnapshot \/ RestoreSnapshot \/ DiscardSnapshot \/ Share

Spec == Init /\ [][Next]_vars

-----------------------------------------------------------------------------
(* Properties *)

\* Whatever was linked, split, valued and nested since: the assertions of restore_snapshot
\* hold, and it brings back the forest, the ranks, the values and the log of that time.
RestoreExact ==
    Open => /\ SnapshotValid(table, snapshot)
            /\ restore_snapshot(table, snapshot) = [saved EXCEPT !.generation = table.generation]

\* The value that probe_value unwraps is there: no root is without one, whatever was linked,
\* restored or sent to another thread. NoValue is none of Values.
Probed == \A k \in Keys(table) : ValueOf(table, k) \in Values

ClassOf(t) == [k \in Keys(t) |-> {x \in Keys(t) : Root(t, x) = Root(t, k)}]
ValuesOf(t) == [k \in Keys(t) |-> ValueOf(t, k)]

\* what a snapshot would return to
Point == IF Open THEN <<[class |-> ClassOf(saved), value |-> ValuesOf(saved)]>> ELSE <<>>

Abstract == INSTANCE Classes WITH
    class <- ClassOf(table), value <- ValuesOf(table), back <- Point

\* The table is a set of classes with values: look-ups and moves to another thread change none,
\* a union merges two, and restoring returns to the classes and values of the snapshot.
ImplementsClasses == Abstract!Spec
=============================================================================
