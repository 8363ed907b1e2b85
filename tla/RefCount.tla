------------------------------ MODULE RefCount ------------------------------
(***************************************************************************)
(* Reference counting at run time (nac3core/irrt/irrt/reference) over the  *)
(* two allocators it can meet: malloc, and the CTRC slab of CtrcPages.     *)
(*                                                                         *)
(* The program is the code nac3core emits: it allocates objects, copies    *)
(* references, stores them into fields and lets them go, inside and        *)
(* outside `with critical` blocks.  refcount_decr recurses through heap    *)
(* objects; its C++ call stack is the variable part heap.walks, one frame  *)
(* per walk_children in progress, and a step is one call of refcount_decr. *)
(* The program goes on when the stack is empty again.                      *)
(***************************************************************************)
EXTENDS CtrcPages, Sequences, Functions

CONSTANTS
    HeapSlots,     \* addresses malloc can return
    Globals,       \* host objects a kernel may embed, with refcount 0
    HostField,     \* HostField[g][i]: the initializer of field i of host object g
    StoresIntoHost,\* whether the kernel assigns attributes of host objects
    Null,          \* the null pointer
    NumFields,     \* refcounted fields of an object whose Typeinfo lists any
    PageRequests,  \* the page counts programs ask for in `with critical(n)`
    MaxDepth,      \* bound on the nesting of `with critical` blocks
    MaxNames       \* bound on the names in scope: counted references and host objects

Objects == Cells \cup HeapSlots \cup Globals
Fields == 1..NumFields

ASSUME RefCountAssumption ==
    /\ NumFields \in Nat \ {0}
    /\ HostField \in [Globals -> [Fields -> Globals \cup {Null}]]
    /\ StoresIntoHost \in BOOLEAN
    /\ Null \notin Objects
    /\ HeapSlots \cap Globals = {} /\ Cells \cap (HeapSlots \cup Globals) = {}
    /\ IsFiniteSet(HeapSlots) /\ IsFiniteSet(Globals)
    /\ PageRequests \subseteq Nat /\ MaxDepth \in Nat

VARIABLES
    heap,             \* headers, fields, allocators and the walks in progress
    ctrc_mode_depth,  \* the CTRC-mode nesting depth
    held              \* held[o]: references to o in locals, arguments and temporaries

vars == <<heap, ctrc_mode_depth, held>>

NoFields == [i \in Fields |-> Null]

\* A kernel embeds the host objects it uses.
Init ==
    /\ \E hosts \in {{}, Globals} :
         heap = [slab |-> EmptySlab,
                 refcount |-> [o \in HeapSlots \cup Globals |-> 0],
                 ctrc_bit |-> [o \in Objects |-> FALSE],
                 has_fields |-> [o \in Objects |-> o \in Globals],
                 field |-> [o \in Objects |-> IF o \in Globals THEN HostField[o] ELSE NoFields],
                 live |-> hosts,
                 walks |-> <<>>]
    /\ ctrc_mode_depth = 0
    /\ held = [o \in Objects |-> 0]

Embedded(h) == h.live \cap Globals

in_ctrc_mode == ctrc_mode_depth > 0

-----------------------------------------------------------------------------
(* The header: for a cell the refcount word is the slab's, which reuses it *)

Refcount(h, o) == IF o \in Cells THEN h.slab.refcount[o] ELSE h.refcount[o]

SetRefcount(h, o, n) ==
    IF o \in Cells THEN [h EXCEPT !.slab.refcount[o] = n] ELSE [h EXCEPT !.refcount[o] = n]

\* object_header_init with is_refcounted, then the memset of the fields
object_header_init(h, o, in_mode, with_fields) ==
    [SetRefcount(h, o, 1) EXCEPT
        !.ctrc_bit[o] = in_mode,
        !.has_fields[o] = with_fields,
        !.field[o] = NoFields,
        !.live = @ \cup {o}]

refcount_incr(h, o) ==
    IF o # Null /\ Refcount(h, o) # 0 THEN SetRefcount(h, o, Refcount(h, o) + 1) ELSE h

\* a frame of walk_children: the next field, and what its caller does afterwards
Frame(o, then, with_fields) == [obj |-> o, next |-> 1, then |-> then, new |-> with_fields]
Push(h, frame) == [h EXCEPT !.walks = Append(@, frame)]

\* __nac3_ctrc_defer_drop: from here on the cell belongs to the slab
ctrc_defer_drop(h, o) ==
    [h EXCEPT !.slab = defer_drop(h.slab, o, h.has_fields[o]), !.live = @ \ {o}]

refcount_zero(h, o) ==
    IF h.ctrc_bit[o] THEN ctrc_defer_drop(h, o) ELSE Push(h, Frame(o, "free", FALSE))

refcount_decr(h, o) ==
    IF o = Null THEN h
    ELSE CASE Refcount(h, o) > 1 -> SetRefcount(h, o, Refcount(h, o) - 1)
           [] Refcount(h, o) = 1 -> refcount_zero(SetRefcount(h, o, 0), o)
           [] Refcount(h, o) = 0 -> Push(h, Frame(o, "return", FALSE))

-----------------------------------------------------------------------------
(* The program                                                             *)

Running == heap.walks = <<>>

\* what a name of the program, or a field of such an object, can evaluate to
Named == {o \in Objects : held[o] > 0} \cup Embedded(heap)
Loadable == Named \cup {heap.field[o][i] : o \in {q \in Named : heap.has_fields[q]}, i \in Fields}
Values == Loadable \ {Null}

CanName == FoldFunction(+, 0, held) + Cardinality(Embedded(heap)) < MaxNames
Hold(o) == held' = [held EXCEPT ![o] = @ + 1]

\* a constructor outside critical blocks: malloc, then the header
NewHeap(o, with_fields) ==
    /\ Running /\ ~in_ctrc_mode /\ CanName
    /\ o \in HeapSlots \ heap.live
    /\ heap' = object_header_init(heap, o, in_ctrc_mode, with_fields)
    /\ Hold(o)
    /\ UNCHANGED ctrc_mode_depth

\* a constructor inside a critical block, when pop_free finds a cell that owes nothing
NewCell(with_fields) ==
    /\ Running /\ in_ctrc_mode /\ CanName
    /\ heap.slab.last_page # NoPage /\ Popped(heap.slab).source # "drop"
    /\ LET c == Popped(heap.slab).cell
           popped == [heap EXCEPT !.slab = pop_free(heap.slab)]
       IN  /\ heap' = object_header_init(popped, c, in_ctrc_mode, with_fields)
           /\ Hold(c)
    /\ UNCHANGED ctrc_mode_depth

\* ... and when the cell comes from the drop list: drop_fields runs first
RecycleCell(with_fields) ==
    /\ Running /\ in_ctrc_mode /\ CanName
    /\ heap.slab.last_page # NoPage /\ Popped(heap.slab).source = "drop"
    /\ heap' = Push([heap EXCEPT !.slab = pop_free(heap.slab)],
                    Frame(Popped(heap.slab).cell, "recycle", with_fields))
    /\ UNCHANGED <<ctrc_mode_depth, held>>

\* Mutant: the new reference is not counted
Copy_Uncounted(o) ==
    /\ Running
    /\ o \in Values \ Globals /\ CanName
    /\ Hold(o)
    /\ UNCHANGED <<heap, ctrc_mode_depth>>

\* gen_assign to a new local, an argument of a call: the new reference is counted
Copy(o) ==
    /\ Running
    /\ o \in Values \ Globals /\ CanName
    /\ heap' = refcount_incr(heap, o)
    /\ Hold(o)
    /\ UNCHANGED ctrc_mode_depth

\* Mutant: the old value is released before the new one is counted
Store_DecrFirst(o, i, v) ==
    /\ Running
    /\ o \in Named /\ heap.has_fields[o]
    /\ o \in Globals => StoresIntoHost
    /\ v \in Values \cup {Null}
    /\ heap' = [refcount_incr(refcount_decr(heap, heap.field[o][i]), v) EXCEPT !.field[o][i] = v]
    /\ UNCHANGED <<ctrc_mode_depth, held>>

\* Mutant: the new value is not counted
Store_Uncounted(o, i, v) ==
    /\ Running
    /\ o \in Named /\ heap.has_fields[o]
    /\ o \in Globals => StoresIntoHost
    /\ v \in Values \cup {Null}
    /\ heap' = refcount_decr([heap EXCEPT !.field[o][i] = v], heap.field[o][i])
    /\ UNCHANGED <<ctrc_mode_depth, held>>

\* gen_assign to an attribute: count the new value, store it, release the old one
Store(o, i, v) ==
    /\ Running
    /\ o \in Named /\ heap.has_fields[o]
    /\ o \in Globals => StoresIntoHost
    /\ v \in Values \cup {Null}
    /\ heap' = refcount_decr([refcount_incr(heap, v) EXCEPT !.field[o][i] = v], heap.field[o][i])
    /\ UNCHANGED <<ctrc_mode_depth, held>>

\* a local of a finished function or the old value of a reassigned one
Release(o) ==
    /\ Running
    /\ held[o] > 0
    /\ heap' = refcount_decr(heap, o)
    /\ held' = [held EXCEPT ![o] = @ - 1]
    /\ UNCHANGED ctrc_mode_depth

\* the same when the local, such as `self`, names a host object
ReleaseGlobal(o) ==
    /\ Running
    /\ o \in Embedded(heap)
    /\ heap' = refcount_decr(heap, o)
    /\ UNCHANGED <<ctrc_mode_depth, held>>

Enter(n, malloc_ok) ==
    /\ Running
    /\ ctrc_mode_depth < MaxDepth
    /\ heap' = [heap EXCEPT !.slab = reserve(heap.slab, n, malloc_ok)]
    /\ ctrc_mode_depth' = ctrc_mode_depth + 1
    /\ UNCHANGED held

Exit ==
    /\ Running /\ in_ctrc_mode
    /\ ctrc_mode_depth' = ctrc_mode_depth - 1
    /\ UNCHANGED <<heap, held>>

-----------------------------------------------------------------------------
(* walk_children                                                           *)

Depth == Len(heap.walks)
Top == heap.walks[Depth]
Walked == [heap EXCEPT !.walks = SubSeq(@, 1, Depth - 1)]

\* Mutant: the loop over the fields does not advance
WalkChild_Stuck ==
    /\ ~Running
    /\ heap.has_fields[Top.obj] /\ Top.next <= NumFields
    /\ heap' = refcount_decr(heap, heap.field[Top.obj][Top.next])
    /\ UNCHANGED <<ctrc_mode_depth, held>>

\* the next child is passed to refcount_decr
WalkChild ==
    /\ ~Running
    /\ heap.has_fields[Top.obj] /\ Top.next <= NumFields
    /\ heap' = refcount_decr([heap EXCEPT !.walks[Depth].next = @ + 1],
                             heap.field[Top.obj][Top.next])
    /\ UNCHANGED <<ctrc_mode_depth, held>>

\* the walk is over: free the block, or hand the cell to the allocation that popped it
WalkEnds ==
    /\ ~Running
    /\ heap.has_fields[Top.obj] => Top.next > NumFields
    /\ \/ /\ Top.then = "return"
          /\ heap' = Walked
          /\ UNCHANGED held
       \/ /\ Top.then = "free"
          /\ heap' = [Walked EXCEPT !.live = @ \ {Top.obj}]
          /\ UNCHANGED held
       \/ /\ Top.then = "recycle"
          /\ heap' = object_header_init(Walked, Top.obj, in_ctrc_mode, Top.new)
          /\ Hold(Top.obj)
    /\ UNCHANGED ctrc_mode_depth

Walk == WalkChild \/ WalkEnds

Next ==
    \/ \E with_fields \in BOOLEAN :
          NewCell(with_fields) \/ RecycleCell(with_fields)
            \/ \E o \in HeapSlots : NewHeap(o, with_fields)
    \/ \E o \in Objects : Copy(o) \/ Release(o) \/ ReleaseGlobal(o)
    \/ \E o \in Objects, i \in Fields, v \in Objects \cup {Null} : Store(o, i, v)
    \/ \E n \in PageRequests, malloc_ok \in BOOLEAN : Enter(n, malloc_ok)
    \/ Exit
    \/ Walk

Spec == Init /\ [][Next]_vars

\* walk_children is ordinary code: it runs to its end
FairSpec == Spec /\ WF_vars(Walk)

-----------------------------------------------------------------------------
(* Properties *)

LiveCells(h) == h.live \cap Cells

\* the objects of the walks that end in a given way
Walking(h, then) == {h.walks[k].obj : k \in {j \in DOMAIN h.walks : h.walks[j].then = then}}
Popping(h) == Walking(h, "recycle")
Freeing(h) == Walking(h, "free")

\* field i of o has been released by the walk over a reclaimed o
Released(h, o, i) ==
    \E k \in DOMAIN h.walks :
        h.walks[k].obj = o /\ h.walks[k].then # "return" /\ i < h.walks[k].next

\* the objects whose fields are references: live ones and those that owe their child drops
Owners(h) == {o \in h.live \cup OnDropList(h.slab) \cup Popping(h) : h.has_fields[o]}
OwnedFields(h) == {s \in Owners(h) \X Fields : ~Released(h, s[1], s[2])}
FieldsOnto(h, o) == {s \in OwnedFields(h) : h.field[s[1]][s[2]] = o}

Counted(h) == h.live \ (Globals \cup Freeing(h))

\* A refcount is the number of references: what the program holds, plus the fields of live
\* objects, plus the fields of dropped cells that still owe their child drops, at every point
\* of every walk and across both allocators.  An object that nobody refers to any more is
\* reclaimed at once: freed, or in the slab's hands.
RefcountExact ==
    \A o \in Counted(heap) :
        /\ Refcount(heap, o) = held[o] + Cardinality(FieldsOnto(heap, o))
        /\ Refcount(heap, o) > 0

\* Nothing the program holds, and nothing a live or half-dropped object refers to, has been
\* freed or handed out again as a cell.
NoDangling ==
    /\ \A o \in Objects : held[o] > 0 => o \in Counted(heap)
    /\ \A s \in OwnedFields(heap) :
          heap.field[s[1]][s[2]] \in Counted(heap) \cup Embedded(heap) \cup {Null}

\* Re-entrant drops during pop_free, onto the page being popped too, leave every cell in
\* exactly one place: an object, the free list, the drop list, virgin, or being recycled.
CellsSurviveWalks ==
    LET owned == LiveCells(heap) \cup Popping(heap) IN
    /\ ListsEnd(heap.slab)
    /\ (1..heap.slab.reserved) \X Indices = owned \cup Available(heap.slab)
    /\ owned \cap Available(heap.slab) = {}
    /\ LiveCells(heap) \cap Popping(heap) = {}
    /\ heap.slab.num_free_cells = Cardinality(Available(heap.slab))

\* The recursion of refcount_decr ends, through heap objects, re-deferred cells and host
\* objects: every release and every allocation gives control back to the program.
WalksEnd == []<>Running

\* No object is walked while it is being walked: the C++ call stack is bounded by the number
\* of objects, whatever the references between them, cycles among counted objects included.
RecursionBounded ==
    \A j, k \in 1..Depth : heap.walks[j].obj = heap.walks[k].obj => j = k
=============================================================================
