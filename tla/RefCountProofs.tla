--------------------------- MODULE RefCountProofs ---------------------------
(***************************************************************************)
(* The refcounts of RefCount are exact, nothing dangles, every cell has    *)
(* one place, and the recursion of refcount_decr is bounded, for any       *)
(* number of objects, cells, pages and fields, any nesting of critical     *)
(* blocks and any requests, when the kernel assigns no attributes of host  *)
(* objects.                                                                *)
(*                                                                         *)
(* IInv holds at every point of every walk, because a walk owes nothing    *)
(* between two steps: the field it has passed is no longer owned, and what *)
(* it referred to is released in the same step.                            *)
(***************************************************************************)
EXTENDS RefCountHeapProofs

-----------------------------------------------------------------------------
(* The invariant                                                           *)

\* The heap is well-formed, nothing is owed, and a cell is recycled in critical blocks only.
IInv ==
    /\ Structure(heap, {}) /\ Refs(heap, held, Null)
    /\ ctrc_mode_depth \in 0..MaxDepth
    /\ Popping(heap) # {} => in_ctrc_mode

\* Initially the slab is empty, nothing is held, and only the host objects are live.
LEMMA IInvInit == Init => IInv
<1>. SUFFICES ASSUME Init PROVE IInv
  OBVIOUS
<1>1. PICK hosts \in {{}, Globals} :
         heap = [slab |-> EmptySlab,
                 refcount |-> [o \in HeapSlots \cup Globals |-> 0],
                 ctrc_bit |-> [o \in Objects |-> FALSE],
                 has_fields |-> [o \in Objects |-> o \in Globals],
                 field |-> [o \in Objects |-> IF o \in Globals THEN HostField[o] ELSE NoFields],
                 live |-> hosts,
                 walks |-> <<>>]
  BY DEF Init
<1>. DEFINE h == heap
<1>2. /\ IsHeap(h) /\ h.slab = EmptySlab /\ h.refcount = [o \in HeapSlots \cup Globals |-> 0]
      /\ h.ctrc_bit = [o \in Objects |-> FALSE]
      /\ h.has_fields = [o \in Objects |-> o \in Globals]
      /\ h.field = [o \in Objects |-> IF o \in Globals THEN HostField[o] ELSE NoFields]
      /\ h.live = hosts /\ h.walks = <<>>
  BY <1>1 DEF IsHeap
<1>3. /\ ctrc_mode_depth = 0 /\ held = [o \in Objects |-> 0]
  BY DEF Init
<1>. HIDE DEF h
<1>4. \A e : Walking(h, e) = {}
  BY <1>2 DEF Walking
<1>5. /\ Freeing(h) = {} /\ Popping(h) = {} /\ Embedded(h) = hosts /\ LiveCells(h) = {}
      /\ Counted(h) = {}
  BY <1>2, <1>4, Kinds DEF Freeing, Popping, Embedded, LiveCells, Counted
<1>6. /\ \A c \in Cells : CellFields(h)[c] = FALSE
      /\ CellFields(h) \in [Cells -> BOOLEAN]
  <2>1. \A c \in Cells : ~h.has_fields[c]
    BY <1>2, Kinds
  <2>2. \A c \in Cells : h.has_fields[c] = FALSE
    <3>1. \A c \in Cells : h.has_fields[c] \in BOOLEAN
      BY <1>2, Kinds
    <3>. QED
      BY <2>1, <3>1
  <2>. QED
    BY <2>2 DEF CellFields
<1>7. Good(EmptySlab, {}, CellFields(h)) /\ Available(EmptySlab) = {}
  BY <1>6, EmptyIsGood
<1>8. SlabOK(h, {})
  <2>1. LiveCells(h) \cup Popping(h) \cup {} = {}
    BY <1>5
  <2>. QED
    BY <1>2, <1>7, <2>1 DEF SlabOK
<1>9. h \in HeapType
  <2>1. h.slab \in SlabType
    BY <1>2, <1>7 DEF Good
  <2>2. h.field \in [Objects -> [Fields -> Objects \cup {Null}]]
    <3>1. \A g \in Globals : HostField[g] \in [Fields -> Objects \cup {Null}]
      BY RefCountAssumption, Kinds
    <3>2. NoFields \in [Fields -> Objects \cup {Null}]
      BY DEF NoFields
    <3>. QED
      BY <1>2, <3>1, <3>2
  <2>3. /\ h.refcount \in [HeapSlots \cup Globals -> Nat]
        /\ h.ctrc_bit \in [Objects -> BOOLEAN] /\ h.has_fields \in [Objects -> BOOLEAN]
        /\ h.live \in SUBSET Objects /\ h.walks \in Seq(Frames)
    BY <1>2, Kinds
  <2>. QED
    BY <1>2, <2>1, <2>2, <2>3, HeapTyped
<1>10. WalksOK(h)
  BY <1>2, <1>4, <1>5 DEF WalksOK, OneReclaim
<1>11. HostsOK(h)
  <2>1. \A g \in Globals : h.refcount[g] = 0 /\ h.has_fields[g] /\ h.field[g] = HostField[g]
    BY <1>2, Kinds
  <2>2. \A g \in hosts, i \in Fields : HostField[g][i] \in hosts \cup {Null}
    BY RefCountAssumption
  <2>. QED
    BY <1>5, <2>1, <2>2 DEF HostsOK
<1>12. BitsOK(h)
  BY <1>2, Kinds DEF BitsOK
<1>13. Structure(h, {})
  BY <1>8, <1>9, <1>10, <1>11, <1>12 DEF Structure
<1>14. Refs(h, held, Null)
  <2>1. Owners(h) = hosts
    <3>1. OnDropList(h.slab) = {}
      BY <1>2, <1>7 DEF Available
    <3>. QED
      BY <1>2, <1>5, <3>1, Kinds DEF Owners
  <2>2. ASSUME NEW s \in OwnedFields(h)
        PROVE  h.field[s[1]][s[2]] \in Referable(h)
    <3>1. s[1] \in hosts /\ s[2] \in Fields
      BY <2>1 DEF OwnedFields
    <3>. QED
      BY <1>5, <1>11, <3>1 DEF HostsOK, Referable, Embedded
  <2>3. SafeOwing(h, held, Null)
    BY <1>3, <2>2 DEF SafeOwing, Referable
  <2>4. ExactOwing(h, held, Null)
    BY <1>5 DEF ExactOwing
  <2>5. held \in [Objects -> Nat]
    BY <1>3
  <2>. QED
    BY <2>3, <2>4, <2>5 DEF Refs
<1>. QED
  BY <1>3, <1>5, <1>13, <1>14, RefCountAssumption DEF IInv, h

\* What the program can name or load is a live object, or null.
LEMMA ValuesReferable ==
  ASSUME IInv, NEW v \in Values \cup {Null}
  PROVE  v \in Referable(heap) /\ (v \notin Globals \cup {Null} => v \in Counted(heap))
<1>1. \A o \in Objects : held[o] > 0 => o \in Counted(heap)
  BY DEF IInv, Refs, SafeOwing
<1>2. ASSUME NEW o \in Named, heap.has_fields[o], NEW i \in Fields
      PROVE  heap.field[o][i] \in Referable(heap)
  <2>1. CASE o \in Embedded(heap)
    BY <2>1 DEF IInv, Structure, HostsOK, Referable, Embedded
  <2>2. CASE held[o] > 0
    <3>1. o \in Counted(heap) /\ o \in heap.live /\ heap.walks \in Seq(Frames)
      BY <1>1, <2>2, StructureFacts DEF Named, IInv, Embedded, Counted
    <3>2. o \notin Freeing(heap) \cup Popping(heap)
      BY <3>1 DEF Counted, IInv, Structure, WalksOK
    <3>3. <<o, i>> \in OwnedFields(heap)
      BY <1>2, <3>1, <3>2, NotReleased DEF OwnedFields, Owners
    <3>. QED
      BY <3>3 DEF IInv, Refs, SafeOwing
  <2>. QED
    BY <2>1, <2>2 DEF Named
<1>3. \A o \in Named : o \in Referable(heap)
  BY <1>1 DEF Named, Referable
<1>4. v \in Referable(heap)
  BY <1>2, <1>3 DEF Values, Loadable, Referable
<1>. QED
  BY <1>4 DEF Referable, Embedded

\* No walk, no cell between two owners
LEMMA RunningFacts ==
  ASSUME Running
  PROVE  Popping(heap) = {}
BY DEF Running, Popping, Walking

\* An allocation outside of critical blocks keeps the invariant.
LEMMA NewHeapKeeps ==
  ASSUME IInv, NEW o \in HeapSlots, NEW w \in BOOLEAN, NewHeap(o, w)
  PROVE  IInv'
<1>. DEFINE m == in_ctrc_mode
<1>1. /\ heap' = object_header_init(heap, o, m, w) /\ o \notin heap.live /\ m = FALSE
      /\ held' = [held EXCEPT ![o] = held[o] + 1] /\ ctrc_mode_depth' = ctrc_mode_depth
      /\ Popping(heap) = {}
  BY RunningFacts DEF NewHeap, Hold, in_ctrc_mode
<1>2. o \notin Cells /\ {o} \cap Cells = {}
  BY Kinds
<1>3. /\ Structure(heap, {o} \cap Cells) /\ Refs(heap, held, Null)
      /\ o \in HeapSlots \cup Cells /\ o \notin heap.live \cup Popping(heap)
      /\ m \in BOOLEAN /\ (m <=> o \in Cells)
  BY <1>1, <1>2 DEF IInv
<1>. HIDE DEF m
<1>4. Structure(heap', {}) /\ Refs(heap', held', Null) /\ Popping(heap') = Popping(heap)
  <2>1. Born(heap, held, o, heap')
    BY <1>1, <1>3, Birth
  <2>. QED
    BY <1>1, <2>1 DEF Born
<1>. QED
  BY <1>1, <1>4 DEF IInv

\* An allocation in a critical block, from the free list or a virgin cell, keeps it.
LEMMA NewCellKeeps ==
  ASSUME IInv, NEW w \in BOOLEAN, NewCell(w)
  PROVE  IInv'
<1>. DEFINE m == in_ctrc_mode
            c == Popped(heap.slab).cell
            u == WithSlab(heap, pop_free(heap.slab))
<1>1. /\ heap' = object_header_init(u, c, m, w) /\ m = TRUE
      /\ held' = [held EXCEPT ![c] = held[c] + 1] /\ ctrc_mode_depth' = ctrc_mode_depth
      /\ Popping(heap) = {}
      /\ heap.slab.last_page # NoPage /\ Popped(heap.slab).source # "drop"
  BY RunningFacts DEF NewCell, Hold, in_ctrc_mode, WithSlab
<1>2. Structure(heap, {}) /\ Refs(heap, held, Null)
  BY DEF IInv
<1>3. /\ c \in Cells /\ c \notin u.live \cup Popping(u)
      /\ Structure(u, {c}) /\ Refs(u, held, Null) /\ Popping(u) = Popping(heap)
  BY <1>1, <1>2, PopStructure
<1>. HIDE DEF m, c, u
<1>4. {c} \cap Cells = {c} /\ m \in BOOLEAN /\ (m <=> c \in Cells) /\ c \in HeapSlots \cup Cells
  BY <1>1, <1>3
<1>5. Structure(heap', {}) /\ Refs(heap', held', Null) /\ Popping(heap') = Popping(u)
  <2>1. Born(u, held, c, heap')
    BY <1>1, <1>3, <1>4, Birth
  <2>. QED
    BY <1>1, <2>1 DEF Born
<1>. QED
  BY <1>1, <1>3, <1>5 DEF IInv

\* An allocation that pops a cell with drops to do keeps it.
LEMMA RecycleCellKeeps ==
  ASSUME IInv, NEW w \in BOOLEAN, RecycleCell(w)
  PROVE  IInv'
<1>. DEFINE c == Popped(heap.slab).cell
<1>1. /\ heap' = Push(WithSlab(heap, pop_free(heap.slab)), Frame(c, "recycle", w))
      /\ held' = held /\ ctrc_mode_depth' = ctrc_mode_depth /\ in_ctrc_mode
      /\ heap.slab.last_page # NoPage /\ Popped(heap.slab).source = "drop"
  BY DEF RecycleCell, WithSlab
<1>2. Structure(heap, {}) /\ Refs(heap, held, Null)
  BY DEF IInv
<1>3. Structure(heap', {}) /\ Refs(heap', held, Null)
  BY <1>1, <1>2, RecycleStep
<1>. QED
  BY <1>1, <1>3 DEF IInv, in_ctrc_mode

\* A copy of a reference keeps it.
LEMMA CopyKeeps ==
  ASSUME IInv, NEW o \in Objects, Copy(o)
  PROVE  IInv'
<1>1. /\ heap' = refcount_incr(heap, o)
      /\ held' = [held EXCEPT ![o] = held[o] + 1] /\ ctrc_mode_depth' = ctrc_mode_depth
      /\ Popping(heap) = {} /\ o \in Values \ Globals /\ o # Null
  BY RunningFacts, Kinds DEF Copy, Hold
<1>2. o \in Referable(heap) /\ o \in Counted(heap)
  BY <1>1, ValuesReferable
<1>3. Structure(heap, {}) /\ Refs(heap, held, Null)
  BY DEF IInv
<1>4. Structure(heap', {}) /\ Refs(heap', held, o) /\ SameView(heap, heap')
  BY <1>1, <1>2, <1>3, Incr
<1>5. /\ IsFiniteSet(OwnedFields(heap')) /\ Counted(heap') \subseteq Objects
      /\ Null \notin Counted(heap')
  BY <1>4, StructureFacts
<1>6. o \in Counted(heap') /\ Popping(heap') = Popping(heap)
  BY <1>2, <1>4, ViewSame DEF SameReferable, Popping
<1>7. Refs(heap', held', Null)
  BY <1>1, <1>4, <1>5, <1>6, RefsHeld
<1>. QED
  BY <1>1, <1>4, <1>6, <1>7 DEF IInv

\* The release of a local keeps it.
LEMMA ReleaseKeeps ==
  ASSUME IInv, NEW o \in Objects, Release(o)
  PROVE  IInv'
<1>1. /\ heap' = refcount_decr(heap, o) /\ held[o] > 0
      /\ held' = [held EXCEPT ![o] = held[o] - 1] /\ ctrc_mode_depth' = ctrc_mode_depth
      /\ Popping(heap) = {}
  BY RunningFacts DEF Release
<1>2. Structure(heap, {}) /\ Refs(heap, held, Null)
  BY DEF IInv
<1>3. /\ IsFiniteSet(OwnedFields(heap)) /\ Counted(heap) \subseteq Objects
      /\ Null \notin Counted(heap)
  BY <1>2, StructureFacts
<1>4. Refs(heap, held', o)
  BY <1>1, <1>2, <1>3, RefsReleased
<1>5. Structure(heap', {}) /\ Refs(heap', held', Null) /\ Popping(heap') = Popping(heap)
  BY <1>1, <1>2, <1>4, Decr
<1>. QED
  BY <1>1, <1>5 DEF IInv

\* The release of a local that names a host object keeps it.
LEMMA ReleaseGlobalKeeps ==
  ASSUME IInv, NEW o \in Objects, ReleaseGlobal(o)
  PROVE  IInv'
<1>1. /\ heap' = refcount_decr(heap, o) /\ o \in Embedded(heap)
      /\ held' = held /\ ctrc_mode_depth' = ctrc_mode_depth /\ Popping(heap) = {}
  BY RunningFacts DEF ReleaseGlobal
<1>2. Structure(heap, {}) /\ Refs(heap, held, Null)
  BY DEF IInv
<1>3. Null \notin Counted(heap) /\ o \in Referable(heap) \ Counted(heap)
  BY <1>1, <1>2, StructureFacts DEF Referable, Counted, Embedded
<1>4. Refs(heap, held, o)
  BY <1>2, <1>3, RefsUncounted
<1>5. Structure(heap', {}) /\ Refs(heap', held, Null) /\ Popping(heap') = Popping(heap)
  BY <1>1, <1>2, <1>4, Decr
<1>. QED
  BY <1>1, <1>5 DEF IInv

\* An assignment to an attribute keeps it: increment, store, decrement.
LEMMA StoreKeeps ==
  ASSUME ~StoresIntoHost, IInv, NEW o \in Objects, NEW i \in Fields,
         NEW v \in Objects \cup {Null}, Store(o, i, v)
  PROVE  IInv'
<1>. DEFINE u == refcount_incr(heap, v)
            z == Stored(u, o, i, v)
<1>1. /\ heap' = refcount_decr(z, heap.field[o][i])
      /\ held' = held /\ ctrc_mode_depth' = ctrc_mode_depth /\ Popping(heap) = {}
      /\ o \in Named /\ heap.has_fields[o] /\ o \notin Globals
      /\ v \in Values \cup {Null}
  BY RunningFacts DEF Store, Stored
<1>2. Structure(heap, {}) /\ Refs(heap, held, Null)
  BY DEF IInv
<1>3. v \in Referable(heap) /\ o \in Counted(heap)
  BY <1>1, <1>2, ValuesReferable DEF Named, Embedded, Refs, SafeOwing
<1>4. Structure(u, {}) /\ Refs(u, held, v) /\ SameView(heap, u)
  BY <1>2, <1>3, Incr
<1>. HIDE DEF u
<1>5. /\ o \in Counted(u) /\ u.has_fields[o] /\ u.field = heap.field
      /\ Popping(u) = Popping(heap)
  BY <1>1, <1>3, <1>4, ViewSame DEF SameReferable, SameView, Popping
<1>6. Structure(z, {}) /\ Refs(z, held, u.field[o][i]) /\ Popping(z) = Popping(u)
  BY <1>4, <1>5, StoreStep
<1>. HIDE DEF z
<1>7. Structure(heap', {}) /\ Refs(heap', held, Null) /\ Popping(heap') = Popping(z)
  BY <1>1, <1>5, <1>6, Decr
<1>. QED
  BY <1>1, <1>5, <1>6, <1>7 DEF IInv

\* The start of a critical block keeps it, whatever reserve answers.
LEMMA EnterKeeps ==
  ASSUME IInv, NEW n \in PageRequests, NEW m \in BOOLEAN, Enter(n, m)
  PROVE  IInv'
<1>1. /\ heap' = WithSlab(heap, reserve(heap.slab, n, m)) /\ n \in Nat
      /\ held' = held /\ Popping(heap) = {}
      /\ ctrc_mode_depth < MaxDepth /\ ctrc_mode_depth' = ctrc_mode_depth + 1
  BY RunningFacts, RefCountAssumption DEF Enter, WithSlab
<1>2. Structure(heap, {}) /\ Refs(heap, held, Null)
  BY DEF IInv
<1>3. Structure(heap', {}) /\ Refs(heap', held, Null) /\ Popping(heap') = Popping(heap)
  BY <1>1, <1>2, ReserveStep
<1>4. ctrc_mode_depth' \in 0..MaxDepth
  BY <1>1, RefCountAssumption DEF IInv
<1>. QED
  BY <1>1, <1>3, <1>4 DEF IInv

\* The end of a critical block keeps it.
LEMMA ExitKeeps ==
  ASSUME IInv, Exit
  PROVE  IInv'
<1>1. /\ heap' = heap /\ held' = held /\ Popping(heap) = {}
      /\ ctrc_mode_depth > 0 /\ ctrc_mode_depth' = ctrc_mode_depth - 1
  BY RunningFacts DEF Exit, in_ctrc_mode
<1>2. ctrc_mode_depth' \in 0..MaxDepth
  BY <1>1, RefCountAssumption DEF IInv
<1>. QED
  BY <1>1, <1>2 DEF IInv

\* The release of one child keeps it.
LEMMA WalkChildKeeps ==
  ASSUME IInv, WalkChild
  PROVE  IInv'
<1>. DEFINE u == [heap EXCEPT !.walks[Len(heap.walks)].next = @ + 1]
            x == heap.field[TopOf(heap).obj][TopOf(heap).next]
<1>1. /\ heap' = refcount_decr(u, x) /\ heap.walks # <<>>
      /\ heap.has_fields[TopOf(heap).obj] /\ TopOf(heap).next <= NumFields
      /\ held' = held /\ ctrc_mode_depth' = ctrc_mode_depth
  BY DEF WalkChild, Running, Top, Depth, TopOf
<1>2. Structure(heap, {}) /\ Refs(heap, held, Null)
  BY DEF IInv
<1>3. Structure(u, {}) /\ Refs(u, held, x) /\ Popping(u) = Popping(heap)
  BY <1>1, <1>2, AdvanceStep
<1>. HIDE DEF u, x
<1>4. Structure(heap', {}) /\ Refs(heap', held, Null) /\ Popping(heap') = Popping(u)
  BY <1>1, <1>3, Decr
<1>. QED
  BY <1>1, <1>3, <1>4 DEF IInv, in_ctrc_mode

\* The end of a walk keeps it: return, free, or hand the cell out.
LEMMA WalkEndsKeeps ==
  ASSUME IInv, WalkEnds
  PROVE  IInv'
<1>. DEFINE f == TopOf(heap)
            o == f.obj
            m == in_ctrc_mode
            u == Walked
<1>1. /\ heap.walks # <<>> /\ ctrc_mode_depth' = ctrc_mode_depth
      /\ heap.has_fields[o] => f.next > NumFields
      /\ \/ f.then = "return" /\ heap' = u /\ held' = held
         \/ f.then = "free" /\ heap' = [u EXCEPT !.live = @ \ {o}] /\ held' = held
         \/ /\ f.then = "recycle" /\ heap' = object_header_init(u, o, m, f.new)
            /\ held' = [held EXCEPT ![o] = held[o] + 1]
  BY DEF WalkEnds, Running, Top, Depth, TopOf, Hold
<1>2. Structure(heap, {}) /\ Refs(heap, held, Null) /\ heap \in HeapType
  BY DEF IInv, Structure
<1>3. /\ IsHeap(u)
      /\ u.slab = heap.slab /\ u.refcount = heap.refcount
      /\ u.ctrc_bit = heap.ctrc_bit /\ u.has_fields = heap.has_fields /\ u.field = heap.field
      /\ u.live = heap.live /\ PoppedWalk(heap, u)
  <2>1. u = [heap EXCEPT !.walks = SubSeq(heap.walks, 1, Len(heap.walks) - 1)]
    BY <1>2 DEF Walked, Depth
  <2>2. u.walks = SubSeq(heap.walks, 1, Len(heap.walks) - 1)
    BY <1>2, <2>1 DEF HeapType
  <2>. HIDE DEF u
  <2>3. PoppedWalk(heap, u)
    BY <2>2 DEF PoppedWalk
  <2>. QED
    BY <1>2, <2>1, <2>3 DEF HeapType, IsHeap
<1>. HIDE DEF u
<1>4. CASE f.then = "return"
  <2>1. Finished(heap, u) /\ heap' = u /\ held' = held
    BY <1>1, <1>3, <1>4 DEF Finished
  <2>2. Structure(u, {}) /\ Refs(u, held, Null) /\ Popping(u) \subseteq Popping(heap)
    BY <1>1, <1>2, <1>4, <2>1, EndStep
  <2>. QED
    BY <1>1, <2>1, <2>2 DEF IInv, in_ctrc_mode
<1>5. CASE f.then = "free"
  <2>1. Finished(heap, heap') /\ held' = held
    BY <1>1, <1>3, <1>5 DEF Finished, IsHeap, PoppedWalk
  <2>2. Structure(heap', {}) /\ Refs(heap', held, Null) /\ Popping(heap') \subseteq Popping(heap)
    BY <1>1, <1>2, <1>5, <2>1, EndStep
  <2>. QED
    BY <1>1, <2>1, <2>2 DEF IInv, in_ctrc_mode
<1>6. CASE f.then = "recycle"
  <2>1. Finished(heap, u)
    BY <1>1, <1>3, <1>6 DEF Finished
  <2>2. /\ Structure(u, {o}) /\ Refs(u, held, Null) /\ Popping(u) \subseteq Popping(heap)
        /\ o \in Cells /\ o \in Popping(heap) /\ o \notin u.live \cup Popping(u)
    BY <1>1, <1>2, <1>6, <2>1, EndStep
  <2>3. m = TRUE /\ f.new \in BOOLEAN
    <3>1. f \in Frames
      BY <1>1, <1>2, HeapFields, TopFrame
    <3>. QED
      BY <2>2, <3>1 DEF IInv, Frames, in_ctrc_mode
  <2>. DEFINE w == f.new
  <2>4. /\ Structure(u, {o} \cap Cells) /\ w \in BOOLEAN
        /\ m \in BOOLEAN /\ (m <=> o \in Cells) /\ o \in HeapSlots \cup Cells
    <3>1. {o} \cap Cells = {o}
      BY <2>2
    <3>. QED
      BY <2>2, <2>3, <3>1
  <2>5. heap' = object_header_init(u, o, m, w) /\ held' = [held EXCEPT ![o] = held[o] + 1]
    BY <1>1, <1>6
  <2>. HIDE DEF o, f, m, w
  <2>6. Structure(heap', {}) /\ Refs(heap', held', Null) /\ Popping(heap') = Popping(u)
    <3>1. Born(u, held, o, heap')
      BY <2>2, <2>4, <2>5, Birth
    <3>. QED
      BY <2>5, <3>1 DEF Born
  <2>. QED
    BY <1>1, <2>2, <2>6 DEF IInv, in_ctrc_mode
<1>. QED
  BY <1>1, <1>4, <1>5, <1>6

\* Every step of the program and of the walks keeps the invariant, as long as no kernel
\* assigns attributes of host objects.
LEMMA IInvNext ==
  ASSUME ~StoresIntoHost
  PROVE  IInv /\ [Next]_vars => IInv'
<1>. SUFFICES ASSUME IInv, [Next]_vars PROVE IInv'
  OBVIOUS
<1>1. ASSUME NEW w \in BOOLEAN, NewCell(w) PROVE IInv'
  BY <1>1, NewCellKeeps
<1>2. ASSUME NEW w \in BOOLEAN, RecycleCell(w) PROVE IInv'
  BY <1>2, RecycleCellKeeps
<1>3. ASSUME NEW w \in BOOLEAN, NEW o \in HeapSlots, NewHeap(o, w) PROVE IInv'
  BY <1>3, NewHeapKeeps
<1>4. ASSUME NEW o \in Objects, Copy(o) PROVE IInv'
  BY <1>4, CopyKeeps
<1>5. ASSUME NEW o \in Objects, Release(o) PROVE IInv'
  BY <1>5, ReleaseKeeps
<1>6. ASSUME NEW o \in Objects, ReleaseGlobal(o) PROVE IInv'
  BY <1>6, ReleaseGlobalKeeps
<1>7. ASSUME NEW o \in Objects, NEW i \in Fields, NEW v \in Objects \cup {Null}, Store(o, i, v)
      PROVE  IInv'
  BY <1>7, StoreKeeps
<1>8. ASSUME NEW n \in PageRequests, NEW m \in BOOLEAN, Enter(n, m) PROVE IInv'
  BY <1>8, EnterKeeps
<1>9. CASE Exit
  BY <1>9, ExitKeeps
<1>10. CASE WalkChild
  BY <1>10, WalkChildKeeps
<1>11. CASE WalkEnds
  BY <1>11, WalkEndsKeeps
<1>12. CASE UNCHANGED vars
  BY <1>12 DEF IInv, vars, in_ctrc_mode
<1>. QED
  BY <1>1, <1>2, <1>3, <1>4, <1>5, <1>6, <1>7, <1>8, <1>9, <1>10, <1>11, <1>12 DEF Next, Walk

\* The invariant holds in every state the program reaches.
THEOREM CountingInvariance ==
  ASSUME ~StoresIntoHost
  PROVE  Spec => []IInv
<1>1. Init => IInv
  BY IInvInit
<1>2. IInv /\ [Next]_vars => IInv'
  BY IInvNext
<1>. QED
  BY <1>1, <1>2, PTL DEF Spec

-----------------------------------------------------------------------------
(* What the invariant says                                                 *)

\* RefcountExact: the counts are the references, at every point of every walk.
THEOREM CountsAreExact ==
  ASSUME ~StoresIntoHost
  PROVE  Spec => []RefcountExact
<1>1. IInv => RefcountExact
  <2>. SUFFICES ASSUME IInv, NEW o \in Counted(heap)
                PROVE  /\ Refcount(heap, o) = held[o] + Cardinality(FieldsOnto(heap, o))
                       /\ Refcount(heap, o) > 0
    BY DEF RefcountExact
  <2>1. /\ o \in Objects /\ o # Null /\ IsFiniteSet(OwnedFields(heap))
    BY StructureFacts DEF IInv
  <2>2. held[o] \in Nat /\ Cardinality(FieldsOnto(heap, o)) \in Nat
    BY <2>1, CountsAreNumbers DEF IInv, Refs
  <2>3. /\ Refcount(heap, o) = held[o] + Cardinality(FieldsOnto(heap, o)) + 0
        /\ Refcount(heap, o) > 0
    BY <2>1 DEF IInv, Refs, ExactOwing
  <2>. QED
    BY <2>2, <2>3
<1>. QED
  BY <1>1, CountingInvariance, PTL

\* NoDangling: what the program and the objects refer to is still there.
THEOREM NothingDangles ==
  ASSUME ~StoresIntoHost
  PROVE  Spec => []NoDangling
<1>1. IInv => NoDangling
  BY DEF IInv, Refs, SafeOwing, NoDangling, Referable
<1>. QED
  BY <1>1, CountingInvariance, PTL

\* CellsSurviveWalks: every cell has one owner or one place in the slab.
THEOREM CellsHaveOnePlace ==
  ASSUME ~StoresIntoHost
  PROVE  Spec => []CellsSurviveWalks
<1>1. IInv => CellsSurviveWalks
  <2>. SUFFICES ASSUME IInv PROVE CellsSurviveWalks
    OBVIOUS
  <2>1. Good(heap.slab, LiveCells(heap) \cup Popping(heap) \cup {}, CellFields(heap))
    BY DEF IInv, Structure, SlabOK
  <2>2. LiveCells(heap) \cap Popping(heap) = {}
    BY DEF IInv, Structure, WalksOK, LiveCells
  <2>. QED
    BY <2>1, <2>2 DEF Good, CellsSurviveWalks
<1>. QED
  BY <1>1, CountingInvariance, PTL

-----------------------------------------------------------------------------
(* The depth of the recursion                                              *)

\* The host objects refer to each other without cycles.
Ranked(rank) ==
    /\ rank \in [Globals -> Nat]
    /\ \A g \in Globals, i \in Fields :
          HostField[g][i] \in Globals => rank[HostField[g][i]] < rank[g]

\* The objects a kernel embeds can be ordered so that each refers to earlier ones only.
HostAcyclic == \E rank \in [Globals -> Nat] : Ranked(rank)

\* Above a walk over a host object there are only walks over host objects of lower rank.
Chain(w, rank) ==
    \A k \in DOMAIN w, j \in DOMAIN w :
        j < k /\ w[j].then = "return" =>
            w[k].then = "return" /\ rank[w[k].obj] < rank[w[j].obj]

\* A chain goes on with any walk above a reclaimed object, and with a host object of lower rank
\* above a host object.
LEMMA ChainPush ==
  ASSUME NEW w \in Seq(Frames), NEW rank \in [Globals -> Nat], Chain(w, rank), NEW f \in Frames,
         \A k \in DOMAIN w : w[k].then = "return" => w[k].obj \in Globals,
         w # <<>> /\ w[Len(w)].then = "return" =>
           /\ f.then = "return" /\ f.obj \in Globals
           /\ rank[f.obj] < rank[w[Len(w)].obj],
         NEW v, v = Append(w, f)
  PROVE  Chain(v, rank)
<1>. DEFINE n == Len(w)
<1>1. n \in Nat /\ DOMAIN w = 1..n
  OBVIOUS
<1>2. /\ DOMAIN v = 1..(n + 1) /\ \A k \in 1..n : v[k] = w[k]
      /\ v[n + 1] = f
  OBVIOUS
<1>. HIDE DEF n
<1>3. ASSUME NEW k \in DOMAIN v, NEW j \in DOMAIN v, j < k, v[j].then = "return"
      PROVE  v[k].then = "return" /\ rank[v[k].obj] < rank[v[j].obj]
  <2>1. j \in 1..n /\ v[j] = w[j] /\ w # <<>>
    BY <1>1, <1>2, <1>3
  <2>2. CASE k \in 1..n
    BY <1>1, <1>2, <1>3, <2>1, <2>2 DEF Chain
  <2>3. CASE k = n + 1
    <3>1. n \in DOMAIN w /\ w[n] = w[Len(w)] /\ v[k] = f
      BY <1>1, <1>2, <2>1, <2>3 DEF n
    <3>2. CASE j = n
      BY <1>3, <2>1, <3>1, <3>2
    <3>3. CASE j # n
      <4>1. j < n
        BY <1>1, <2>1, <3>3
      <4>2. w[n].then = "return" /\ rank[w[n].obj] < rank[w[j].obj]
        BY <1>1, <1>3, <2>1, <3>1, <4>1 DEF Chain
      <4>3. f.then = "return" /\ rank[f.obj] < rank[w[n].obj]
        BY <2>1, <3>1, <4>2
      <4>4. rank[f.obj] \in Nat /\ rank[w[n].obj] \in Nat /\ rank[w[j].obj] \in Nat
        BY <1>1, <1>3, <2>1, <3>1, <4>2
      <4>. QED
        BY <3>1, <2>1, <4>2, <4>3, <4>4
    <3>. QED
      BY <3>2, <3>3
  <2>. QED
    BY <1>1, <1>2, <2>2, <2>3
<1>. QED
  BY <1>3 DEF Chain

\* refcount_decr starts at most one walk: over a host object, or over the object it reclaims.
LEMMA DecrWalks ==
  ASSUME NEW h, Structure(h, {}), NEW d, NEW x, Refs(h, d, x), NEW t, t = refcount_decr(h, x)
  PROVE  \/ t.walks = h.walks
         \/ x \in Embedded(h) /\ PushedWalk(h, t, Frame(x, "return", FALSE))
         \/ x \in Counted(h) /\ PushedWalk(h, t, Frame(x, "free", FALSE))
<1>1. x \in Counted(h) \/ x \in Embedded(h) \/ x = Null
  BY DEF Refs, SafeOwing, Referable
<1>2. h \in HeapType
  BY StructureFacts
<1>3. CASE x = Null
  BY <1>3 DEF refcount_decr
<1>4. CASE x \in Embedded(h)
  <2>1. x # Null /\ Refcount(h, x) = 0
    BY <1>4, Kinds DEF Embedded, Refcount, Structure, HostsOK
  <2>2. t = Push(h, Frame(x, "return", FALSE))
    BY <2>1 DEF refcount_decr
  <2>. QED
    BY <1>2, <1>4, <2>2, PushFields DEF PushedWalk, AfterPush
<1>5. CASE x \in Counted(h)
  <2>1. x # Null /\ x \in h.live \ Globals /\ Refcount(h, x) \in Nat \ {0}
    <3>1. /\ x # Null /\ x \in Objects /\ x \in h.live /\ x \notin Globals
          /\ IsFiniteSet(OwnedFields(h))
      BY <1>5, StructureFacts DEF Counted
    <3>2. d[x] \in Nat /\ Cardinality(FieldsOnto(h, x)) \in Nat
      BY <3>1, CountsAreNumbers DEF Refs
    <3>3. Refcount(h, x) = d[x] + Cardinality(FieldsOnto(h, x)) + 1
      BY <1>5 DEF Refs, ExactOwing
    <3>. QED
      BY <3>1, <3>2, <3>3
  <2>2. CASE Refcount(h, x) > 1
    <3>. DEFINE n == Refcount(h, x) - 1
    <3>1. t = SetRefcount(h, x, n) /\ n \in Nat
      BY <2>1, <2>2 DEF refcount_decr
    <3>. HIDE DEF n
    <3>2. SameShape(h, t)
      BY <2>1, <3>1, SetShape
    <3>. QED
      BY <3>2 DEF SameShape
  <2>3. CASE Refcount(h, x) = 1
    <3>. DEFINE z == SetRefcount(h, x, 0)
    <3>1. t = refcount_zero(z, x) /\ 0 \in Nat
      BY <2>1, <2>3 DEF refcount_decr
    <3>2. SameShape(h, z) /\ Structure(z, {})
      BY <2>1, SetShape
    <3>. HIDE DEF z
    <3>3. z \in HeapType /\ z.walks = h.walks
      BY <3>2, StructureFacts DEF SameShape
    <3>4. CASE z.ctrc_bit[x]
      <4>1. t = ctrc_defer_drop(z, x)
        BY <3>1, <3>4 DEF refcount_zero
      <4>2. t.walks = z.walks
        BY <3>3, <4>1 DEF ctrc_defer_drop, HeapType
      <4>. QED
        BY <3>3, <4>2
    <3>5. CASE ~z.ctrc_bit[x]
      <4>1. t = Push(z, Frame(x, "free", FALSE))
        BY <3>1, <3>5 DEF refcount_zero
      <4>2. t.walks = Append(z.walks, Frame(x, "free", FALSE))
        BY <3>3, <4>1 DEF Push, HeapType
      <4>. QED
        BY <1>5, <3>3, <4>2 DEF PushedWalk
    <3>. QED
      BY <3>4, <3>5
  <2>4. Refcount(h, x) > 1 \/ Refcount(h, x) = 1
    BY <2>1
  <2>. QED
    BY <2>2, <2>3, <2>4
<1>. QED
  BY <1>1, <1>3, <1>4, <1>5

\* A call of refcount_decr from the program starts a chain.
LEMMA ChainStarts ==
  ASSUME NEW h, Structure(h, {}), NEW d, NEW x, Refs(h, d, x), NEW t, t = refcount_decr(h, x),
         h.walks = <<>>, NEW rank
  PROVE  Chain(t.walks, rank)
<1>1. t.walks = <<>> \/ \E f : t.walks = Append(<<>>, f)
  <2>1. \/ t.walks = h.walks
        \/ x \in Embedded(h) /\ PushedWalk(h, t, Frame(x, "return", FALSE))
        \/ x \in Counted(h) /\ PushedWalk(h, t, Frame(x, "free", FALSE))
    BY DecrWalks
  <2>2. ASSUME NEW f, PushedWalk(h, t, f)
        PROVE  t.walks = Append(<<>>, f)
    BY <2>2 DEF PushedWalk
  <2>. QED
    BY <2>1, <2>2
<1>2. ASSUME NEW f, t.walks = Append(<<>>, f)
      PROVE  Chain(t.walks, rank)
  BY <1>2 DEF Chain
<1>3. CASE t.walks = <<>>
  BY <1>3 DEF Chain
<1>. QED
  BY <1>1, <1>2, <1>3

\* The frames keep their objects and their ends when the top walk advances.
LEMMA ChainAdvance ==
  ASSUME NEW h, h.walks \in Seq(Frames), h.walks # <<>>, NEW rank, Chain(h.walks, rank),
         NEW t, AdvancedWalk(h, t)
  PROVE  /\ Chain(t.walks, rank) /\ Len(t.walks) = Len(h.walks)
         /\ TopOf(t).obj = TopOf(h).obj /\ TopOf(t).then = TopOf(h).then
<1>. DEFINE w == h.walks
            n == Len(w)
            f == TopOf(h)
            g == [f EXCEPT !.next = f.next + 1]
<1>1. n \in DOMAIN w /\ f \in Frames /\ f = w[n] /\ n \in Nat /\ DOMAIN w = 1..n
  BY TopFrame DEF TopOf
<1>2. g.obj = f.obj /\ g.then = f.then
  BY <1>1 DEF Frames
<1>3. t.walks = [w EXCEPT ![n] = g]
  BY DEF AdvancedWalk, TopOf
<1>4. Len(t.walks) = n
  BY <1>1, <1>3
<1>. HIDE DEF g, f, n
<1>5. DOMAIN t.walks = DOMAIN w /\ t.walks[n] = g /\ \A k \in DOMAIN w : k # n => t.walks[k] = w[k]
  BY <1>1, <1>3
<1>6. \A k \in DOMAIN w : t.walks[k].obj = w[k].obj /\ t.walks[k].then = w[k].then
  BY <1>1, <1>2, <1>5
<1>7. Chain(t.walks, rank)
  BY <1>5, <1>6 DEF Chain
<1>8. TopOf(t).obj = f.obj /\ TopOf(t).then = f.then
  BY <1>2, <1>4, <1>5 DEF TopOf
<1>. QED
  BY <1>4, <1>7, <1>8 DEF n, f

\* What is left of a chain is a chain.
LEMMA ChainPop ==
  ASSUME NEW h, h.walks \in Seq(Frames), h.walks # <<>>, NEW rank, Chain(h.walks, rank),
         NEW t, PoppedWalk(h, t)
  PROVE  Chain(t.walks, rank)
<1>. DEFINE w == h.walks
            n == Len(w)
<1>1. n \in Nat \ {0} /\ DOMAIN w = 1..n
  BY TopFrame, LenProperties
<1>2. /\ DOMAIN t.walks = 1..(n - 1)
      /\ \A k \in 1..(n - 1) : t.walks[k] = w[k]
  <2>1. 1 \in 1..n + 1 /\ n - 1 \in (1 - 1)..n /\ \A k \in 1..(n - 1) : k \in 1..n
    BY <1>1
  <2>. QED
    BY <1>1, <2>1 DEF PoppedWalk
<1>3. DOMAIN t.walks \subseteq DOMAIN w /\ \A k \in DOMAIN t.walks : t.walks[k] = w[k]
  BY <1>1, <1>2
<1>. QED
  BY <1>3 DEF Chain

\* The child of a host object is a host object of lower rank: the chain goes on.
LEMMA ChainWalkChild ==
  ASSUME IInv, WalkChild, NEW rank, Ranked(rank), Chain(heap.walks, rank)
  PROVE  Chain(heap'.walks, rank)
<1>. DEFINE u == [heap EXCEPT !.walks[Len(heap.walks)].next = @ + 1]
            o == TopOf(heap).obj
            i == TopOf(heap).next
            x == heap.field[o][i]
<1>1. /\ heap' = refcount_decr(u, x) /\ heap.walks # <<>>
      /\ heap.has_fields[o] /\ i <= NumFields
  BY DEF WalkChild, Running, Top, Depth, TopOf
<1>2. /\ Structure(heap, {}) /\ Refs(heap, held, Null) /\ heap \in HeapType
      /\ heap.walks \in Seq(Frames)
  BY StructureFacts DEF IInv
<1>3. Structure(u, {}) /\ Refs(u, held, x)
  BY <1>1, <1>2, AdvanceStep
<1>4. AdvancedWalk(heap, u) /\ u.live = heap.live
  BY <1>2 DEF HeapType, AdvancedWalk
<1>5. TopOf(heap) \in Frames /\ o \in Walking(heap, TopOf(heap).then)
  BY <1>1, <1>2, TopFrame
<1>6. i \in Fields
  <2>1. i \in 1..(NumFields + 1)
    BY <1>5 DEF Frames
  <2>. QED
    BY <1>1, <2>1, RefCountAssumption DEF Fields
<1>. HIDE DEF u
<1>7. /\ Chain(u.walks, rank) /\ Len(u.walks) = Len(heap.walks)
      /\ TopOf(u).obj = o /\ TopOf(u).then = TopOf(heap).then
  BY <1>1, <1>2, <1>4, ChainAdvance
<1>8. u.walks \in Seq(Frames) /\ Null \notin Counted(u) /\ Counted(u) \cap Globals = {}
  BY <1>3, StructureFacts DEF Counted
<1>9. \A k \in DOMAIN u.walks : u.walks[k].then = "return" => u.walks[k].obj \in Globals
  BY <1>3 DEF Structure, WalksOK, Walking, Embedded
<1>10. TopOf(heap).then = "return" => o \in Globals /\ x \in Globals \cup {Null}
                                      /\ (x \in Globals => rank[x] < rank[o])
  <2>1. TopOf(heap).then = "return" => o \in Embedded(heap)
    BY <1>5 DEF IInv, Structure, WalksOK
  <2>2. o \in Embedded(heap) => x = HostField[o][i] /\ x \in Globals \cup {Null} /\ o \in Globals
    BY <1>2, <1>6 DEF Structure, HostsOK, Embedded
  <2>. QED
    BY <1>6, <2>1, <2>2 DEF Ranked
<1>. HIDE DEF x, o
<1>11. ASSUME NEW f \in Frames, PushedWalk(u, heap', f), f.obj = x,
              TopOf(heap).then = "return" => f.then = "return" /\ x \in Globals
       PROVE  Chain(heap'.walks, rank)
  <2>. DEFINE w == u.walks
              v == heap'.walks
  <2>1. w # <<>> /\ w[Len(w)].then = "return" =>
           /\ f.then = "return" /\ f.obj \in Globals
           /\ rank[f.obj] < rank[w[Len(w)].obj]
    BY <1>7, <1>10, <1>11 DEF TopOf
  <2>2. v = Append(w, f) /\ w \in Seq(Frames) /\ Chain(w, rank) /\ rank \in [Globals -> Nat]
    BY <1>7, <1>8, <1>11 DEF PushedWalk, Ranked
  <2>3. \A k \in DOMAIN w : w[k].then = "return" => w[k].obj \in Globals
    BY <1>9
  <2>. HIDE DEF w, v
  <2>4. Chain(v, rank)
    BY <2>1, <2>2, <2>3, ChainPush
  <2>. QED
    BY <2>4 DEF v
<1>12. \/ heap'.walks = u.walks
       \/ x \in Embedded(u) /\ PushedWalk(u, heap', Frame(x, "return", FALSE))
       \/ x \in Counted(u) /\ PushedWalk(u, heap', Frame(x, "free", FALSE))
  BY <1>1, <1>3, DecrWalks
<1>13. CASE heap'.walks = u.walks
  BY <1>7, <1>13
<1>14. CASE x \in Embedded(u) /\ PushedWalk(u, heap', Frame(x, "return", FALSE))
  <2>. DEFINE f == Frame(x, "return", FALSE)
  <2>1. f \in Frames /\ f.obj = x /\ f.then = "return" /\ x \in Globals
    BY <1>14, Kinds, RefCountAssumption DEF Frame, Frames, Endings, Embedded
  <2>2. PushedWalk(u, heap', f)
    BY <1>14
  <2>. HIDE DEF f
  <2>. QED
    BY <1>11, <2>1, <2>2
<1>15. CASE x \in Counted(u) /\ PushedWalk(u, heap', Frame(x, "free", FALSE))
  <2>. DEFINE f == Frame(x, "free", FALSE)
  <2>1. f \in Frames /\ f.obj = x
    <3>1. x \in Objects
      BY <1>3, <1>15, StructureFacts
    <3>. QED
      BY <3>1, RefCountAssumption DEF Frame, Frames, Endings
  <2>2. PushedWalk(u, heap', f) /\ TopOf(heap).then # "return"
    BY <1>8, <1>10, <1>15
  <2>. HIDE DEF f
  <2>. QED
    BY <1>11, <2>1, <2>2
<1>. QED
  BY <1>12, <1>13, <1>14, <1>15

\* The other steps start a chain, leave it alone or end its last walk.
LEMMA ChainNext ==
  ASSUME ~StoresIntoHost, NEW rank, Ranked(rank), IInv, Chain(heap.walks, rank), [Next]_vars
  PROVE  Chain(heap'.walks, rank)
<1>0. /\ Structure(heap, {}) /\ Refs(heap, held, Null) /\ heap \in HeapType
      /\ heap.walks \in Seq(Frames)
  BY StructureFacts DEF IInv
<1>1. ASSUME NEW w \in BOOLEAN, NewCell(w) PROVE Chain(heap'.walks, rank)
  <2>. DEFINE u == WithSlab(heap, pop_free(heap.slab))
              c == Popped(heap.slab).cell
              m == in_ctrc_mode
  <2>1. heap' = object_header_init(u, c, m, w) /\ m \in BOOLEAN
        /\ heap.slab.last_page # NoPage /\ Popped(heap.slab).source # "drop"
    BY <1>1 DEF NewCell, WithSlab, in_ctrc_mode
  <2>2. c \in Cells /\ Structure(u, {c})
    BY <1>0, <2>1, PopStructure
  <2>3. u.walks = heap.walks
    BY <1>0, SlabFields
  <2>. HIDE DEF u, c, m
  <2>4. u \in HeapType /\ c \in HeapSlots \cup Cells
    BY <2>2, StructureFacts
  <2>5. heap'.walks = u.walks
    BY <2>1, <2>4 DEF object_header_init, SetRefcount, HeapType
  <2>. QED
    BY <2>3, <2>5
<1>2. ASSUME NEW w \in BOOLEAN, RecycleCell(w) PROVE Chain(heap'.walks, rank)
  <2>. DEFINE u == WithSlab(heap, pop_free(heap.slab))
              f == Frame(Popped(heap.slab).cell, "recycle", w)
  <2>1. heap' = Push(u, f) /\ heap.walks = <<>>
    BY <1>2 DEF RecycleCell, WithSlab, Running
  <2>2. heap' = [u EXCEPT !.walks = Append(<<>>, f)]
    <3>1. u.walks = <<>>
      BY <1>0, <2>1, SlabFields
    <3>. QED
      BY <2>1, <3>1 DEF Push
  <2>3. heap'.walks = Append(<<>>, f)
    BY <1>0, <2>2 DEF HeapType, WithSlab
  <2>. HIDE DEF f
  <2>. QED
    BY <2>3 DEF Chain
<1>3. ASSUME NEW w \in BOOLEAN, NEW o \in HeapSlots, NewHeap(o, w)
      PROVE  Chain(heap'.walks, rank)
  <2>. DEFINE m == in_ctrc_mode
  <2>1. heap' = object_header_init(heap, o, m, w) /\ m \in BOOLEAN
    BY <1>3 DEF NewHeap, in_ctrc_mode
  <2>. HIDE DEF m
  <2>2. heap'.walks = heap.walks
    BY <1>0, <2>1 DEF object_header_init, SetRefcount, HeapType
  <2>. QED
    BY <2>2
<1>4. ASSUME NEW o \in Objects, Copy(o) PROVE Chain(heap'.walks, rank)
  <2>1. heap' = refcount_incr(heap, o) /\ o \in Referable(heap)
    BY <1>4, ValuesReferable DEF Copy
  <2>2. SameView(heap, heap')
    BY <1>0, <2>1, Incr
  <2>. QED
    BY <2>2 DEF SameView
<1>5. ASSUME NEW o \in Objects, Release(o) PROVE Chain(heap'.walks, rank)
  <2>1. /\ heap' = refcount_decr(heap, o) /\ held[o] > 0 /\ heap.walks = <<>>
    BY <1>5 DEF Release, Running
  <2>2. /\ IsFiniteSet(OwnedFields(heap)) /\ Counted(heap) \subseteq Objects
        /\ Null \notin Counted(heap)
    BY <1>0, StructureFacts
  <2>3. Refs(heap, [held EXCEPT ![o] = held[o] - 1], o)
    BY <1>0, <2>1, <2>2, RefsReleased
  <2>. QED
    BY <1>0, <2>1, <2>3, ChainStarts
<1>6. ASSUME NEW o \in Objects, ReleaseGlobal(o) PROVE Chain(heap'.walks, rank)
  <2>1. /\ heap' = refcount_decr(heap, o) /\ o \in Embedded(heap) /\ heap.walks = <<>>
    BY <1>6 DEF ReleaseGlobal, Running
  <2>2. Null \notin Counted(heap) /\ o \in Referable(heap) \ Counted(heap)
    BY <1>0, <2>1, StructureFacts DEF Referable, Counted, Embedded
  <2>3. Refs(heap, held, o)
    BY <1>0, <2>2, RefsUncounted
  <2>. QED
    BY <1>0, <2>1, <2>3, ChainStarts
<1>7. ASSUME NEW o \in Objects, NEW i \in Fields, NEW v \in Objects \cup {Null}, Store(o, i, v)
      PROVE  Chain(heap'.walks, rank)
  <2>. DEFINE u == refcount_incr(heap, v)
              z == Stored(u, o, i, v)
  <2>1. /\ heap' = refcount_decr(z, heap.field[o][i]) /\ heap.walks = <<>>
        /\ o \in Named /\ heap.has_fields[o] /\ o \notin Globals
        /\ v \in Values \cup {Null}
    BY <1>7 DEF Store, Stored, Running
  <2>2. v \in Referable(heap) /\ o \in Counted(heap)
    BY <1>0, <2>1, ValuesReferable DEF Named, Embedded, Refs, SafeOwing
  <2>3. Structure(u, {}) /\ Refs(u, held, v) /\ SameView(heap, u)
    BY <1>0, <2>2, Incr
  <2>. HIDE DEF u
  <2>4. /\ o \in Counted(u) /\ u.has_fields[o] /\ u.field = heap.field /\ u.walks = <<>>
        /\ u \in HeapType
    BY <2>1, <2>2, <2>3, ViewSame, StructureFacts DEF SameReferable, SameView
  <2>5. Structure(z, {}) /\ Refs(z, held, u.field[o][i])
    BY <2>3, <2>4, StoreStep
  <2>6. z.walks = <<>>
    BY <2>4 DEF Stored, HeapType
  <2>. HIDE DEF z
  <2>. QED
    BY <2>1, <2>4, <2>5, <2>6, ChainStarts
<1>8. ASSUME NEW n \in PageRequests, NEW m \in BOOLEAN, Enter(n, m)
      PROVE  Chain(heap'.walks, rank)
  <2>1. heap' = WithSlab(heap, reserve(heap.slab, n, m))
    BY <1>8 DEF Enter, WithSlab
  <2>. QED
    BY <1>0, <2>1, SlabFields
<1>9. CASE Exit
  BY <1>9 DEF Exit
<1>10. CASE WalkChild
  BY <1>10, ChainWalkChild
<1>11. CASE WalkEnds
  <2>. DEFINE u == Walked
  <2>1. /\ heap.walks # <<>>
        /\ \/ heap' = u
           \/ heap' = [u EXCEPT !.live = @ \ {TopOf(heap).obj}]
           \/ /\ TopOf(heap).then = "recycle"
              /\ heap' = object_header_init(u, TopOf(heap).obj, in_ctrc_mode, TopOf(heap).new)
    BY <1>11 DEF WalkEnds, Running, Top, Depth, TopOf
  <2>2. /\ PoppedWalk(heap, u) /\ IsHeap(u)
        /\ u.slab = heap.slab /\ u.refcount = heap.refcount
        /\ u.ctrc_bit = heap.ctrc_bit /\ u.has_fields = heap.has_fields /\ u.field = heap.field
        /\ u.live = heap.live
    <3>1. u = [heap EXCEPT !.walks = SubSeq(heap.walks, 1, Len(heap.walks) - 1)]
      BY <1>0 DEF Walked, Depth
    <3>2. u.walks = SubSeq(heap.walks, 1, Len(heap.walks) - 1)
      BY <1>0, <3>1 DEF HeapType
    <3>. HIDE DEF u
    <3>3. PoppedWalk(heap, u)
      BY <3>2 DEF PoppedWalk
    <3>. QED
      BY <1>0, <3>1, <3>3 DEF HeapType, IsHeap
  <2>. HIDE DEF u
  <2>3. Chain(u.walks, rank)
    BY <1>0, <2>1, <2>2, ChainPop
  <2>4. heap'.walks = u.walks
    <3>1. CASE heap' = u
      BY <3>1
    <3>2. CASE heap' = [u EXCEPT !.live = @ \ {TopOf(heap).obj}]
      BY <2>2, <3>2 DEF IsHeap
    <3>3. CASE /\ TopOf(heap).then = "recycle"
               /\ heap' = object_header_init(u, TopOf(heap).obj, in_ctrc_mode, TopOf(heap).new)
      <4>1. TopOf(heap).obj \in Popping(heap) /\ TopOf(heap) \in Frames
        BY <1>0, <2>1, <3>3, TopFrame DEF Popping
      <4>. DEFINE o == TopOf(heap).obj
                  m == in_ctrc_mode
                  w == TopOf(heap).new
      <4>2. o \in HeapSlots \cup Cells /\ w \in BOOLEAN /\ m \in BOOLEAN
        BY <1>0, <4>1 DEF Structure, WalksOK, Frames, in_ctrc_mode
      <4>3. u \in HeapType
        <5>1. u.walks \in Seq(Frames)
          BY <1>0, <2>1, <2>2, WalkPop DEF WalkPopped, Structure, WalksOK
        <5>. QED
          BY <1>0, <2>2, <5>1, HeapFields, HeapTyped
      <4>4. heap' = object_header_init(u, o, m, w)
        BY <3>3
      <4>. HIDE DEF o, m, w
      <4>. QED
        BY <4>2, <4>3, <4>4 DEF object_header_init, SetRefcount, HeapType
    <3>. QED
      BY <2>1, <3>1, <3>2, <3>3
  <2>. QED
    BY <2>3, <2>4
<1>12. CASE UNCHANGED vars
  BY <1>12 DEF vars
<1>. QED
  BY <1>1, <1>2, <1>3, <1>4, <1>5, <1>6, <1>7, <1>8, <1>9, <1>10, <1>11, <1>12 DEF Next, Walk

\* In a chain of walks that reclaim each object once no object is walked twice.
LEMMA ChainBounds ==
  ASSUME IInv, NEW rank, Ranked(rank), Chain(heap.walks, rank)
  PROVE  RecursionBounded
<1>. DEFINE w == heap.walks
<1>1. /\ Structure(heap, {}) /\ w \in Seq(Frames)
  BY StructureFacts DEF IInv
<1>2. /\ 1..Depth = DOMAIN w /\ DOMAIN w \subseteq Nat
  BY <1>1 DEF Depth
<1>3. \A k \in DOMAIN w : w[k] \in Frames
  BY <1>1
<1>4. ASSUME NEW j \in DOMAIN w, NEW k \in DOMAIN w, w[j].obj = w[k].obj
      PROVE  j = k
  <2>1. ASSUME NEW q \in DOMAIN w
        PROVE  w[q].then = "return" <=> w[q].obj \in Globals
    <3>1. w[q].then \in Endings
      BY <1>3 DEF Frames
    <3>2. w[q].then = "return" => w[q].obj \in Globals
      BY <1>1 DEF Structure, WalksOK, Walking, Embedded
    <3>3. w[q].then = "free" => w[q].obj \in HeapSlots
      BY <1>1 DEF Structure, WalksOK, Walking, Freeing
    <3>4. w[q].then = "recycle" => w[q].obj \in Cells
      BY <1>1 DEF Structure, WalksOK, Walking, Popping
    <3>. QED
      BY <3>1, <3>2, <3>3, <3>4, Kinds DEF Endings
  <2>2. CASE w[j].then # "return"
    BY <1>1, <1>4, <2>1, <2>2 DEF Structure, WalksOK, OneReclaim
  <2>3. CASE w[j].then = "return"
    <3>1. w[k].then = "return" /\ w[j].obj \in Globals /\ w[k].obj = w[j].obj
      BY <1>4, <2>1, <2>3
    <3>2. rank[w[j].obj] \in Nat
      BY <3>1 DEF Ranked
    <3>3. ~(j < k)
      BY <2>3, <3>1, <3>2 DEF Chain
    <3>4. ~(k < j)
      BY <2>3, <3>1, <3>2 DEF Chain
    <3>. QED
      BY <1>2, <3>3, <3>4
  <2>. QED
    BY <2>2, <2>3
<1>. QED
  BY <1>2, <1>4 DEF RecursionBounded

\* RecursionBounded: no object is walked while it is being walked, whatever the references
\* between counted objects, as long as the host objects have no cycles.
THEOREM RecursionIsBounded ==
  ASSUME ~StoresIntoHost, HostAcyclic
  PROVE  Spec => []RecursionBounded
<1>1. PICK rank \in [Globals -> Nat] : Ranked(rank)
  BY DEF HostAcyclic
<1>. DEFINE C == Chain(heap.walks, rank)
<1>2. Init => C
  <2>1. Init => heap.walks = <<>>
    BY DEF Init
  <2>. QED
    BY <2>1 DEF Chain
<1>3. IInv /\ C /\ [Next]_vars => C'
  BY <1>1, ChainNext
<1>4. IInv /\ C => RecursionBounded
  BY <1>1, ChainBounds
<1>. HIDE DEF C
<1>. QED
  BY <1>2, <1>3, <1>4, CountingInvariance, PTL DEF Spec

=============================================================================
