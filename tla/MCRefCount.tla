----------------------------- MODULE MCRefCount -----------------------------
(* Few objects, so that cells and heap blocks refer to each other in every   *)
(* way.                                                                      *)
EXTENDS RefCount, TLC

CONSTANTS h1, g1, g2

OneSlot == {h1}
OnePage == {1}

\* host objects: g1 refers to g2
HostObjects == {g1, g2}
HostInit == [g \in HostObjects |-> [i \in Fields |-> IF g = g1 THEN g2 ELSE Null]]
=============================================================================
