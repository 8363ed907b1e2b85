------------------------------ MODULE CtrcSlab ------------------------------
(***************************************************************************)
(* The CTRC slab allocator as its clients see it: entering and leaving     *)
(* `with critical` blocks, allocating cells, dropping objects.             *)
(*                                                                         *)
(* The clients are any program: an object is dropped at any time, with or  *)
(* without refcounted fields.  The child drops that pop_free performs when *)
(* it recycles a cell come after all of its bookkeeping, so that they are  *)
(* further Drop steps here; RefCount has the objects and their fields.     *)
(***************************************************************************)
EXTENDS CtrcPages

CONSTANTS
    PageRequests,  \* the page counts programs ask for in `with critical(n)`
    MaxDepth       \* bound on the nesting of `with critical` blocks

ASSUME ClientAssumption == PageRequests \subseteq Nat /\ MaxDepth \in Nat

VARIABLES
    slab,             \* the pages, see CtrcPages
    ctrc_mode_depth,  \* the CTRC-mode nesting depth
    live,             \* the cells that hold an object
    has_fields,       \* whether the Typeinfo of a cell's object lists refcounted fields
    refused,          \* the last allocation raised MemoryError
    promised          \* cells the enclosing blocks may still count on (history)

vars == <<slab, ctrc_mode_depth, live, has_fields, refused, promised>>

Init ==
    /\ slab = EmptySlab
    /\ ctrc_mode_depth = 0
    /\ live = {}
    /\ has_fields = [c \in Cells |-> FALSE]
    /\ refused = FALSE
    /\ promised = 0

in_ctrc_mode == ctrc_mode_depth > 0

AtLeast(m, n) == IF m >= n THEN m ELSE n

\* __nac3_ctrc_enter: the result of reserve is ignored, the depth is raised all the same
Enter(n, malloc_ok) ==
    /\ ctrc_mode_depth < MaxDepth
    /\ slab' = reserve(slab, n, malloc_ok)
    /\ ctrc_mode_depth' = ctrc_mode_depth + 1
    /\ promised' = IF reserve_ok(slab, n, malloc_ok)
                   THEN AtLeast(promised, n * CellsPerPage) ELSE promised
    /\ refused' = FALSE
    /\ UNCHANGED <<live, has_fields>>

\* __nac3_ctrc_exit
Exit ==
    /\ in_ctrc_mode
    /\ ctrc_mode_depth' = ctrc_mode_depth - 1
    /\ promised' = IF ctrc_mode_depth = 1 THEN 0 ELSE promised
    /\ refused' = FALSE
    /\ UNCHANGED <<slab, live, has_fields>>

\* __nac3_alloc in CTRC mode, for a request that fits a cell; the header that
\* object_header_init writes into it has refcount 1
Alloc(fields) ==
    /\ in_ctrc_mode
    /\ slab.last_page # NoPage
    /\ LET c == Popped(slab).cell IN
         /\ slab' = [pop_free(slab) EXCEPT !.refcount[c] = 1]
         /\ live' = live \cup {c}
         /\ has_fields' = [has_fields EXCEPT ![c] = fields]
    /\ promised' = IF promised > 0 THEN promised - 1 ELSE 0
    /\ refused' = FALSE
    /\ UNCHANGED ctrc_mode_depth

\* pop_free returns nullptr and __nac3_alloc raises MemoryError
AllocFails ==
    /\ in_ctrc_mode
    /\ slab.last_page = NoPage
    /\ refused' = TRUE
    /\ UNCHANGED <<slab, ctrc_mode_depth, live, has_fields, promised>>

\* refcount_decr takes an object's refcount to zero, inside or outside critical blocks
Drop(c) ==
    /\ c \in live
    /\ slab' = defer_drop(slab, c, has_fields[c])
    /\ live' = live \ {c}
    /\ refused' = FALSE
    /\ UNCHANGED <<ctrc_mode_depth, has_fields, promised>>

Next ==
    \/ \E n \in PageRequests, malloc_ok \in BOOLEAN : Enter(n, malloc_ok)
    \/ Exit
    \/ \E fields \in BOOLEAN : Alloc(fields)
    \/ AllocFails
    \/ \E c \in Cells : Drop(c)

Spec == Init /\ [][Next]_vars

-----------------------------------------------------------------------------
(* Properties *)

\* The slab has its type, of which the count within size_t is not obvious.
TypeOK ==
    /\ slab \in SlabType
    /\ ctrc_mode_depth \in 0..MaxDepth
    /\ live \in SUBSET Cells
    /\ has_fields \in [Cells -> BOOLEAN]
    /\ refused \in BOOLEAN
    /\ promised \in Nat

\* Each cell of a reserved page is in exactly one place: it holds an object, or it is on the
\* free list, on the drop list, or still virgin.  No cell is handed out twice, and none is
\* lost, although the lists live in the refcount words of the very cells they chain.
EveryCellOnce ==
    /\ ListsEnd(slab)
    /\ (1..slab.reserved) \X Indices = live \cup Available(slab)
    /\ live \cap Available(slab) = {}
    /\ OnFreeList(slab) \cap OnDropList(slab) = {}
    /\ Virgin(slab) \cap (OnFreeList(slab) \cup OnDropList(slab)) = {}

\* num_free_cells is "the number of cells currently available for allocation across all pages":
\* reserve compares it with the request, and every other function only counts along.
CellCountExact == slab.num_free_cells = Cardinality(Available(slab))

\* The stack headed by last_page ends and holds exactly the pages a cell can be popped from:
\* an exhausted page is unlinked at once, and linked again by the first drop into it, once.
StackExact ==
    /\ Ends(slab.last_page, slab.next_page, NoPage)
    /\ PageStack(slab) = {p \in 1..slab.reserved : ~PageExhausted(slab, p)}

\* An object with refcounted fields is recycled through the drop list only, so that its
\* children are always dropped, and an object without them never pays for a walk.
ChildrenNotForgotten ==
    /\ \A c \in OnDropList(slab) : has_fields[c]
    /\ \A c \in OnFreeList(slab) : ~has_fields[c]

\* The lists and the page stack, which live in the memory they manage, stay what they are for
\* through every pop, drop and reserve.
SlabInv == TypeOK /\ EveryCellOnce /\ CellCountExact /\ StackExact /\ ChildrenNotForgotten

\* A block whose reserve(n) succeeded finds n pages worth of cells: they are still there after
\* any drops and any other allocations but its own, whatever n, size_t and the pool were.
PromiseKept == promised <= Cardinality(Available(slab))

Pool == INSTANCE CellPool WITH
    AllCells <- Cells, available <- Available(slab), taken <- live

\* The slab is a pool of cells: an allocation returns a cell that was available and is refused
\* only when there is none, and a dropped cell is available again.
ImplementsCellPool == Pool!Spec
=============================================================================
