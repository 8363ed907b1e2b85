------------------------------ MODULE CellPool ------------------------------
(***************************************************************************)
(* What the slab promises: a pool of cells that only a reservation grows.  *)
(* A cell is handed out only while nobody has it, and a request is refused *)
(* only when no cell is available.                                         *)
(***************************************************************************)
CONSTANT AllCells

VARIABLES
    available,  \* the cells an allocation may return
    taken,      \* the cells that hold a live object
    refused     \* the last request found no cell

vars == <<available, taken, refused>>

Init == available = {} /\ taken = {} /\ refused = FALSE

\* some cells nobody has, possibly none, become available
Reserve ==
    /\ UNCHANGED taken
    /\ refused' = FALSE
    /\ available \subseteq available' /\ available' \subseteq AllCells \ taken

Take(c) ==
    /\ c \notin taken
    /\ taken' = taken \cup {c}
    /\ refused' = FALSE
    /\ c \in available
    /\ available' = available \ {c}

Refuse ==
    /\ refused' = TRUE
    /\ UNCHANGED <<taken, available>>
    /\ available = {}

Give(c) ==
    /\ c \in taken
    /\ taken' = taken \ {c}
    /\ refused' = FALSE
    /\ available' = available \cup {c}

Next ==
    \/ Reserve
    \/ \E c \in AllCells : Take(c) \/ Give(c)
    \/ Refuse

Spec == Init /\ [][Next]_vars
=============================================================================
