------------------------- MODULE RefCountHeapProofs -------------------------
(***************************************************************************)
(* What the operations of the reference counting runtime do to the heap,   *)
(* for any number of objects, cells, pages and fields.                     *)
(*                                                                         *)
(* Structure(h, P) is what must be true of a heap whatever its refcounts,  *)
(* Refs(h, d, x) what must be true of its refcounts when the program holds *)
(* the references d and owes the release of one more, to x.  refcount_incr *)
(* creates that debt, a store and the advance of a walk move it, and       *)
(* refcount_decr settles it.                                               *)
(***************************************************************************)
EXTENDS RefCount, CtrcPagesProofs, SequenceTheorems

-----------------------------------------------------------------------------
(* A well-formed heap                                                      *)

\* What a walk ends with
Endings == {"free", "recycle", "return"}
\* A frame of walk_children
Frames == [obj : Objects, next : 1..(NumFields + 1), then : Endings, new : BOOLEAN]

\* Every part of the heap holds values of its C++ type.
HeapType ==
    [slab : SlabType,
     refcount : [HeapSlots \cup Globals -> Nat],
     ctrc_bit : [Objects -> BOOLEAN],
     has_fields : [Objects -> BOOLEAN],
     field : [Objects -> [Fields -> Objects \cup {Null}]],
     live : SUBSET Objects,
     walks : Seq(Frames)]

\* An object is reclaimed by one walk.
OneReclaim(h) ==
    \A j, k \in DOMAIN h.walks :
        h.walks[j].then # "return" /\ h.walks[k].then # "return"
          /\ h.walks[j].obj = h.walks[k].obj => j = k

\* A walk is over a heap object to be freed, a cell being recycled, or a host object.
WalksOK(h) ==
    /\ Freeing(h) \subseteq HeapSlots \cap h.live
    /\ Popping(h) \subseteq {c \in Cells \ h.live : h.has_fields[c]}
    /\ Walking(h, "return") \subseteq Embedded(h)
    /\ OneReclaim(h)

\* The host objects are as the host left them.
HostsOK(h) ==
    /\ \A g \in Globals : h.refcount[g] = 0 /\ h.has_fields[g] /\ h.field[g] = HostField[g]
    /\ \A g \in Embedded(h), i \in Fields : HostField[g][i] \in Embedded(h) \cup {Null}

\* The CTRC bit tells the allocator of an object.
BitsOK(h) == \A o \in h.live : h.ctrc_bit[o] <=> o \in Cells

\* Which cells hold an object with fields, or one that still owes their release
CellFields(h) == [c \in Cells |-> h.has_fields[c]]

\* The slab, when cells P are between two owners
SlabOK(h, P) == Good(h.slab, LiveCells(h) \cup Popping(h) \cup P, CellFields(h))

\* The heap, whatever its refcounts
Structure(h, P) == h \in HeapType /\ WalksOK(h) /\ HostsOK(h) /\ BitsOK(h) /\ SlabOK(h, P)

\* What a reference may point at
Referable(h) == Counted(h) \cup Embedded(h) \cup {Null}

\* RefcountExact, when one more reference, to x, is about to be released
ExactOwing(h, d, x) ==
    \A o \in Counted(h) :
        /\ Refcount(h, o) = d[o] + Cardinality(FieldsOnto(h, o)) + (IF o = x THEN 1 ELSE 0)
        /\ Refcount(h, o) > 0

\* NoDangling, when one more reference, to x, is about to be released
SafeOwing(h, d, x) ==
    /\ \A o \in Objects : d[o] > 0 => o \in Counted(h)
    /\ \A s \in OwnedFields(h) : h.field[s[1]][s[2]] \in Referable(h)
    /\ x \in Referable(h)

\* The references, when the program holds d and owes the release of x
Refs(h, d, x) == d \in [Objects -> Nat] /\ ExactOwing(h, d, x) /\ SafeOwing(h, d, x)

-----------------------------------------------------------------------------
(* Field by field                                                          *)

\* t is its own record of parts.
IsHeap(t) ==
    t = [slab |-> t.slab, refcount |-> t.refcount, ctrc_bit |-> t.ctrc_bit,
         has_fields |-> t.has_fields, field |-> t.field, live |-> t.live, walks |-> t.walks]

\* A heap has its type when its parts have.
LEMMA HeapTyped ==
  ASSUME NEW t, IsHeap(t), t.slab \in SlabType,
         t.refcount \in [HeapSlots \cup Globals -> Nat],
         t.ctrc_bit \in [Objects -> BOOLEAN], t.has_fields \in [Objects -> BOOLEAN],
         t.field \in [Objects -> [Fields -> Objects \cup {Null}]],
         t.live \in SUBSET Objects, t.walks \in Seq(Frames)
  PROVE  t \in HeapType
BY DEF HeapType, IsHeap

\* The parts of a heap have their types.
LEMMA HeapFields ==
  ASSUME NEW h \in HeapType
  PROVE  /\ IsHeap(h)
         /\ h.slab \in SlabType /\ h.refcount \in [HeapSlots \cup Globals -> Nat]
         /\ h.ctrc_bit \in [Objects -> BOOLEAN] /\ h.has_fields \in [Objects -> BOOLEAN]
         /\ h.field \in [Objects -> [Fields -> Objects \cup {Null}]]
         /\ h.live \in SUBSET Objects /\ h.walks \in Seq(Frames)
BY DEF HeapType, IsHeap

\* The fields a refcount is not kept in
SameBody(h, t) ==
    /\ IsHeap(t)
    /\ t.ctrc_bit = h.ctrc_bit /\ t.has_fields = h.has_fields /\ t.field = h.field
    /\ t.live = h.live /\ t.walks = h.walks

\* A write to a refcount, part by part: a cell keeps its count in the slab.
LEMMA SetFields ==
  ASSUME NEW h \in HeapType, NEW o \in HeapSlots \cup Cells, NEW n \in Nat,
         NEW t, t = SetRefcount(h, o, n)
  PROVE  /\ SameBody(h, t)
         /\ t.slab = IF o \in Cells THEN Written(h.slab, o, n) ELSE h.slab
         /\ t.refcount = IF o \in Cells THEN h.refcount ELSE [h.refcount EXCEPT ![o] = n]
<1>1. CASE o \in Cells
  BY <1>1 DEF SetRefcount, HeapType, IsHeap, SameBody, Written
<1>2. CASE o \notin Cells
  BY <1>2 DEF SetRefcount, HeapType, IsHeap, SameBody
<1>. QED
  BY <1>1, <1>2

\* t is h with the walk f.
AfterPush(h, f, t) ==
    /\ IsHeap(t)
    /\ t.slab = h.slab /\ t.refcount = h.refcount
    /\ t.ctrc_bit = h.ctrc_bit /\ t.has_fields = h.has_fields /\ t.field = h.field
    /\ t.live = h.live /\ t.walks = Append(h.walks, f)

\* The start of a walk, part by part.
LEMMA PushFields ==
  ASSUME NEW h \in HeapType, NEW f, NEW t, t = Push(h, f)
  PROVE  AfterPush(h, f, t)
BY DEF Push, HeapType, IsHeap, AfterPush

\* ctrc_defer_drop, part by part.
LEMMA DeferFields ==
  ASSUME NEW h \in HeapType, NEW o, NEW t, t = ctrc_defer_drop(h, o)
  PROVE  /\ IsHeap(t)
         /\ t.slab = defer_drop(h.slab, o, h.has_fields[o]) /\ t.refcount = h.refcount
         /\ t.ctrc_bit = h.ctrc_bit /\ t.has_fields = h.has_fields /\ t.field = h.field
         /\ t.live = h.live \ {o} /\ t.walks = h.walks
BY DEF ctrc_defer_drop, HeapType, IsHeap

\* The heap after a store
Stored(h, o, i, v) == [h EXCEPT !.field[o][i] = v]

\* A store into a field, part by part.
LEMMA StoreFields ==
  ASSUME NEW h \in HeapType, NEW o \in Objects, NEW i \in Fields, NEW v,
         NEW t, t = Stored(h, o, i, v)
  PROVE  /\ IsHeap(t)
         /\ t.slab = h.slab /\ t.refcount = h.refcount
         /\ t.ctrc_bit = h.ctrc_bit /\ t.has_fields = h.has_fields
         /\ t.field = [h.field EXCEPT ![o] = [h.field[o] EXCEPT ![i] = v]]
         /\ t.live = h.live /\ t.walks = h.walks
BY DEF HeapType, IsHeap, Stored

\* t is h with the new object o.
AfterInit(h, o, m, w, t) ==
    /\ IsHeap(t)
    /\ t.slab = IF o \in Cells THEN Written(h.slab, o, 1) ELSE h.slab
    /\ t.refcount = IF o \in Cells THEN h.refcount ELSE [h.refcount EXCEPT ![o] = 1]
    /\ t.ctrc_bit = [h.ctrc_bit EXCEPT ![o] = m]
    /\ t.has_fields = [h.has_fields EXCEPT ![o] = w]
    /\ t.field = [h.field EXCEPT ![o] = NoFields]
    /\ t.live = h.live \cup {o} /\ t.walks = h.walks

\* object_header_init, part by part.
LEMMA InitFields ==
  ASSUME NEW h \in HeapType, NEW o \in HeapSlots \cup Cells, NEW m \in BOOLEAN, NEW w \in BOOLEAN,
         NEW t, t = object_header_init(h, o, m, w)
  PROVE  AfterInit(h, o, m, w, t)
<1>1. CASE o \in Cells
  BY <1>1 DEF object_header_init, SetRefcount, HeapType, IsHeap, Written, AfterInit
<1>2. CASE o \notin Cells
  BY <1>2 DEF object_header_init, SetRefcount, HeapType, IsHeap, AfterInit
<1>. QED
  BY <1>1, <1>2

-----------------------------------------------------------------------------
(* The stack of walks                                                      *)

\* The stack of t is that of h with f on top, with its top walk at the next field, or without
\* its top.
PushedWalk(h, t, f) == t.walks = Append(h.walks, f)
AdvancedWalk(h, t) ==
    t.walks = [h.walks EXCEPT ![Len(h.walks)] =
                  [h.walks[Len(h.walks)] EXCEPT !.next = h.walks[Len(h.walks)].next + 1]]
PoppedWalk(h, t) == t.walks = SubSeq(h.walks, 1, Len(h.walks) - 1)
\* The walk that goes on first
TopOf(h) == h.walks[Len(h.walks)]

\* What a new walk changes
WalkPushed(h, t, f) ==
    /\ t.walks \in Seq(Frames)
    /\ \A e : Walking(t, e) = Walking(h, e) \cup (IF f.then = e THEN {f.obj} ELSE {})
    /\ \A o : \A i \in Fields : Released(t, o, i) <=> Released(h, o, i)
    /\ OneReclaim(h) /\ (f.then = "return" \/ f.obj \notin Freeing(h) \cup Popping(h))
         => OneReclaim(t)

\* A new walk adds its object to those being walked and has released nothing.
LEMMA WalkPush ==
  ASSUME NEW h, h.walks \in Seq(Frames), NEW t, NEW f \in Frames, f.next = 1, PushedWalk(h, t, f)
  PROVE  WalkPushed(h, t, f)
<1>. DEFINE w == h.walks
            n == Len(w)
<1>1. n \in Nat /\ DOMAIN w = 1..n
  OBVIOUS
<1>2. /\ t.walks \in Seq(Frames) /\ DOMAIN t.walks = 1..(n + 1)
      /\ \A k \in 1..n : t.walks[k] = w[k]
      /\ t.walks[n + 1] = f
  BY DEF PushedWalk
<1>3. DOMAIN t.walks = DOMAIN w \cup {n + 1} /\ n + 1 \notin DOMAIN w
  BY <1>1, <1>2
<1>4. \A k \in DOMAIN w : t.walks[k] = w[k]
  BY <1>1, <1>2
<1>. HIDE DEF n
<1>5. ASSUME NEW e
      PROVE  Walking(t, e) = Walking(h, e) \cup (IF f.then = e THEN {f.obj} ELSE {})
  BY <1>2, <1>3, <1>4 DEF Walking
<1>6. ASSUME NEW o, NEW i \in Fields
      PROVE  Released(t, o, i) <=> Released(h, o, i)
  <2>1. ~(i < f.next)
    BY DEF Fields
  <2>. QED
    BY <1>2, <1>3, <1>4, <2>1 DEF Released
<1>7. ASSUME OneReclaim(h), f.then = "return" \/ f.obj \notin Freeing(h) \cup Popping(h)
      PROVE  OneReclaim(t)
  <2>1. \A k \in DOMAIN w : w[k].then # "return" /\ f.then # "return" => w[k].obj # f.obj
    <3>1. \A k \in DOMAIN w : w[k] \in Frames
      BY <1>1
    <3>2. \A k \in DOMAIN w : w[k].then \in Endings
      BY <3>1 DEF Frames
    <3>. QED
      BY <1>7, <3>2 DEF Freeing, Popping, Walking, Endings
  <2>. QED
    BY <1>2, <1>3, <1>4, <1>7, <2>1 DEF OneReclaim
<1>. QED
  BY <1>2, <1>5, <1>6, <1>7 DEF WalkPushed

\* The top of a stack that is not empty is a frame, over an object being walked.
LEMMA TopFrame ==
  ASSUME NEW h, h.walks \in Seq(Frames), h.walks # <<>>
  PROVE  /\ Len(h.walks) \in DOMAIN h.walks /\ Len(h.walks) \in Nat \ {0}
         /\ TopOf(h) \in Frames
         /\ TopOf(h).obj \in Walking(h, TopOf(h).then)
<1>1. Len(h.walks) \in DOMAIN h.walks /\ Len(h.walks) \in Nat \ {0}
  BY EmptySeq, LenProperties
<1>2. TopOf(h) \in Frames
  BY <1>1, ElementOfSeq, LenProperties DEF TopOf
<1>. QED
  BY <1>1, <1>2 DEF Walking, TopOf

\* What the advance of the top walk changes
WalkAdvanced(h, t) ==
    /\ t.walks \in Seq(Frames)
    /\ \A e : Walking(t, e) = Walking(h, e)
    /\ \A o : \A i \in Fields :
         Released(t, o, i) <=>
           \/ Released(h, o, i)
           \/ TopOf(h).then # "return" /\ o = TopOf(h).obj /\ i = TopOf(h).next
    /\ OneReclaim(h) => OneReclaim(t)

\* The advance of the top walk releases the field it was at, if it reclaims its object.
LEMMA WalkAdvance ==
  ASSUME NEW h, h.walks \in Seq(Frames), h.walks # <<>>, NEW t, AdvancedWalk(h, t),
         TopOf(h).next <= NumFields
  PROVE  WalkAdvanced(h, t)
<1>. DEFINE w == h.walks
            n == Len(w)
            f == TopOf(h)
            g == [f EXCEPT !.next = f.next + 1]
<1>1. n \in DOMAIN w /\ f \in Frames /\ f = w[n]
  BY TopFrame DEF TopOf
<1>2. f.next \in Nat /\ g \in Frames /\ g.next = f.next + 1
      /\ g.obj = f.obj /\ g.then = f.then
  <2>1. f.next \in Nat /\ f.next + 1 \in 1..(NumFields + 1)
    <3>1. f.next \in 1..(NumFields + 1)
      BY <1>1 DEF Frames
    <3>. QED
      BY <3>1, RefCountAssumption
  <2>. QED
    BY <1>1, <2>1 DEF Frames
<1>3. t.walks = [w EXCEPT ![n] = g]
  BY DEF AdvancedWalk, TopOf
<1>. HIDE DEF g, f, n
<1>4. t.walks \in Seq(Frames) /\ DOMAIN t.walks = DOMAIN w
  BY <1>1, <1>2, <1>3, ExceptSeq
<1>5. t.walks[n] = g /\ \A k \in DOMAIN w : k # n => t.walks[k] = w[k]
  BY <1>1, <1>3
<1>6. \A k \in DOMAIN w : t.walks[k].obj = w[k].obj /\ t.walks[k].then = w[k].then
  BY <1>1, <1>2, <1>5
<1>7. ASSUME NEW e
      PROVE  Walking(t, e) = Walking(h, e)
  BY <1>4, <1>6 DEF Walking
<1>8. ASSUME NEW o, NEW i \in Fields
      PROVE  Released(t, o, i) <=>
                \/ Released(h, o, i)
                \/ f.then # "return" /\ o = f.obj /\ i = f.next
  <2>1. i < g.next <=> i < f.next \/ i = f.next
    BY <1>2 DEF Fields
  <2>2. Released(t, o, i) <=>
          \/ \E k \in DOMAIN w : k # n /\ w[k].obj = o /\ w[k].then # "return" /\ i < w[k].next
          \/ f.obj = o /\ f.then # "return" /\ i < g.next
    BY <1>1, <1>2, <1>4, <1>5 DEF Released
  <2>3. Released(h, o, i) <=>
          \/ \E k \in DOMAIN w : k # n /\ w[k].obj = o /\ w[k].then # "return" /\ i < w[k].next
          \/ f.obj = o /\ f.then # "return" /\ i < f.next
    BY <1>1 DEF Released
  <2>. QED
    BY <2>1, <2>2, <2>3
<1>9. OneReclaim(h) => OneReclaim(t)
  BY <1>4, <1>6 DEF OneReclaim
<1>. QED
  BY <1>4, <1>7, <1>8, <1>9 DEF WalkAdvanced, f

\* What the end of the top walk changes
WalkPopped(h, t) ==
    /\ t.walks \in Seq(Frames)
    /\ \A e \in Endings : Walking(t, e) \subseteq Walking(h, e)
    /\ \A e \in {"free", "recycle"} :
         Walking(t, e) = Walking(h, e) \ (IF TopOf(h).then = e THEN {TopOf(h).obj} ELSE {})
    /\ \A o : \A i \in Fields :
         Released(t, o, i) <=>
           Released(h, o, i) /\ ~(TopOf(h).then # "return" /\ o = TopOf(h).obj)
    /\ \A i \in Fields :
         TopOf(h).then # "return" =>
           (Released(h, TopOf(h).obj, i) <=> i < TopOf(h).next)
    /\ OneReclaim(t)

\* The end of the top walk forgets what it has released.
LEMMA WalkPop ==
  ASSUME NEW h, h.walks \in Seq(Frames), h.walks # <<>>, OneReclaim(h), NEW t, PoppedWalk(h, t)
  PROVE  WalkPopped(h, t)
<1>. DEFINE w == h.walks
            n == Len(w)
            f == TopOf(h)
<1>1. n \in DOMAIN w /\ f \in Frames /\ f = w[n] /\ n \in Nat \ {0} /\ DOMAIN w = 1..n
  BY TopFrame, LenProperties DEF TopOf
<1>2. /\ t.walks \in Seq(Frames) /\ DOMAIN t.walks = 1..(n - 1)
      /\ \A k \in 1..(n - 1) : t.walks[k] = w[k]
  <2>1. 1 \in 1..n + 1 /\ n - 1 \in (1 - 1)..n /\ \A k \in 1..(n - 1) : k \in 1..n
    BY <1>1
  <2>. QED
    BY <1>1, <2>1 DEF PoppedWalk
<1>3. DOMAIN t.walks = DOMAIN w \ {n}
  BY <1>1, <1>2
<1>4. \A k \in DOMAIN w \ {n} : t.walks[k] = w[k]
  BY <1>2, <1>3
<1>. HIDE DEF n, f
<1>5. \A k \in DOMAIN w \ {n} : ~(w[k].then # "return" /\ f.then # "return" /\ w[k].obj = f.obj)
  BY <1>1 DEF OneReclaim
<1>6. ASSUME NEW e \in Endings
      PROVE  Walking(t, e) \subseteq Walking(h, e)
  BY <1>3, <1>4 DEF Walking
<1>7. ASSUME NEW e \in {"free", "recycle"}
      PROVE  Walking(t, e) = Walking(h, e) \ (IF f.then = e THEN {f.obj} ELSE {})
  <2>1. e # "return"
    OBVIOUS
  <2>2. Walking(t, e) = {w[k].obj : k \in {j \in DOMAIN w \ {n} : w[j].then = e}}
    BY <1>3, <1>4 DEF Walking
  <2>3. CASE f.then = e
    BY <1>1, <1>5, <2>1, <2>2, <2>3 DEF Walking
  <2>4. CASE f.then # e
    BY <1>1, <2>2, <2>4 DEF Walking
  <2>. QED
    BY <2>3, <2>4
<1>8. ASSUME NEW o, NEW i \in Fields
      PROVE  Released(t, o, i) <=> Released(h, o, i) /\ ~(f.then # "return" /\ o = f.obj)
  BY <1>1, <1>3, <1>4, <1>5 DEF Released
<1>9. ASSUME NEW i \in Fields, f.then # "return"
      PROVE  Released(h, f.obj, i) <=> i < f.next
  BY <1>1, <1>5, <1>9 DEF Released
<1>10. OneReclaim(t)
  BY <1>3, <1>4 DEF OneReclaim
<1>. QED
  BY <1>2, <1>6, <1>7, <1>8, <1>9, <1>10 DEF WalkPopped, f

-----------------------------------------------------------------------------
(* The references, as the state changes                                    *)

\* The same references, from the same objects
SameOwned(h, t) ==
    /\ OwnedFields(t) = OwnedFields(h)
    /\ \A s \in OwnedFields(h) : t.field[s[1]][s[2]] = h.field[s[1]][s[2]]

\* The same objects can be referred to.
SameReferable(h, t) == Counted(t) = Counted(h) /\ Embedded(t) = Embedded(h)

\* Objects S keep their refcounts.
SameCounts(h, t, S) == \A o \in S : Refcount(t, o) = Refcount(h, o)

\* Everything the references depend on, but the refcounts
SameView(h, t) ==
    /\ t.field = h.field /\ t.has_fields = h.has_fields /\ t.live = h.live /\ t.walks = h.walks
    /\ OnDropList(t.slab) = OnDropList(h.slab)

\* With the same view of the heap the same objects refer to the same objects.
LEMMA ViewSame ==
  ASSUME NEW h, NEW t, SameView(h, t)
  PROVE  /\ SameOwned(h, t) /\ SameReferable(h, t)
         /\ LiveCells(t) = LiveCells(h) /\ \A e : Walking(t, e) = Walking(h, e)
<1>1. \A e : Walking(t, e) = Walking(h, e)
  BY DEF SameView, Walking
<1>2. Owners(t) = Owners(h)
  BY <1>1 DEF SameView, Owners, Popping
<1>3. \A o, i : Released(t, o, i) <=> Released(h, o, i)
  BY DEF SameView, Released
<1>4. OwnedFields(t) = OwnedFields(h)
  BY <1>2, <1>3 DEF OwnedFields
<1>. QED
  BY <1>1, <1>4 DEF SameView, SameOwned, SameReferable, Counted, Freeing, Embedded, LiveCells

\* The same references refer to each object.
LEMMA SameFieldsOnto ==
  ASSUME NEW h, NEW t, SameOwned(h, t), NEW o
  PROVE  FieldsOnto(t, o) = FieldsOnto(h, o)
BY DEF SameOwned, FieldsOnto

\* The references stay right when nothing they depend on changes.
LEMMA RefsSame ==
  ASSUME NEW h, NEW t, NEW d, NEW x, Refs(h, d, x), SameOwned(h, t), SameReferable(h, t),
         SameCounts(h, t, Counted(h))
  PROVE  Refs(t, d, x)
<1>1. \A o : FieldsOnto(t, o) = FieldsOnto(h, o)
  BY SameFieldsOnto
<1>2. Counted(t) = Counted(h) /\ Referable(t) = Referable(h)
  BY DEF SameReferable, Referable
<1>3. ExactOwing(t, d, x)
  BY <1>1, <1>2 DEF Refs, ExactOwing, SameCounts
<1>4. SafeOwing(t, d, x)
  BY <1>2 DEF Refs, SafeOwing, SameOwned
<1>. QED
  BY <1>3, <1>4 DEF Refs

\* A reference to a host object, or none, counts for nothing.
LEMMA RefsUncounted ==
  ASSUME NEW h, NEW d, NEW x, NEW y, Refs(h, d, x), x \notin Counted(h),
         y \in Referable(h) \ Counted(h)
  PROVE  Refs(h, d, y)
BY DEF Refs, ExactOwing, SafeOwing

\* The references to an object can be counted.
LEMMA CountsAreNumbers ==
  ASSUME NEW h, IsFiniteSet(OwnedFields(h)), NEW o
  PROVE  IsFiniteSet(FieldsOnto(h, o)) /\ Cardinality(FieldsOnto(h, o)) \in Nat
BY FS_Subset, FS_CardinalityType DEF FieldsOnto

\* refcount_incr makes room for one more reference to v.
LEMMA RefsIncremented ==
  ASSUME NEW h, NEW t, NEW d, NEW n, NEW v \in Counted(h), Refs(h, d, n), n \notin Counted(h),
         IsFiniteSet(OwnedFields(h)),
         SameOwned(h, t), SameReferable(h, t), SameCounts(h, t, Counted(h) \ {v}),
         Refcount(t, v) = Refcount(h, v) + 1, Counted(h) \subseteq Objects
  PROVE  Refs(t, d, v)
<1>1. \A o : FieldsOnto(t, o) = FieldsOnto(h, o)
  BY SameFieldsOnto
<1>2. Counted(t) = Counted(h) /\ Referable(t) = Referable(h)
  BY DEF SameReferable, Referable
<1>3. ASSUME NEW o \in Counted(h)
      PROVE  /\ Refcount(t, o) = d[o] + Cardinality(FieldsOnto(t, o)) + (IF o = v THEN 1 ELSE 0)
             /\ Refcount(t, o) > 0
  <2>1. d[o] \in Nat /\ Cardinality(FieldsOnto(h, o)) \in Nat
    BY CountsAreNumbers DEF Refs
  <2>2. Refcount(h, o) = d[o] + Cardinality(FieldsOnto(h, o)) + 0 /\ Refcount(h, o) > 0
    BY DEF Refs, ExactOwing
  <2>3. CASE o = v
    BY <1>1, <2>1, <2>2, <2>3
  <2>4. CASE o # v
    BY <1>1, <2>1, <2>2, <2>4 DEF SameCounts
  <2>. QED
    BY <2>3, <2>4
<1>4. ExactOwing(t, d, v)
  BY <1>2, <1>3 DEF ExactOwing
<1>5. SafeOwing(t, d, v)
  BY <1>2 DEF Refs, SafeOwing, SameOwned, Referable
<1>. QED
  BY <1>4, <1>5 DEF Refs

\* refcount_decr settles the release of x when other references remain.
LEMMA RefsDecremented ==
  ASSUME NEW h, NEW t, NEW d, NEW x \in Counted(h), Refs(h, d, x),
         IsFiniteSet(OwnedFields(h)),
         SameOwned(h, t), SameReferable(h, t), SameCounts(h, t, Counted(h) \ {x}),
         Refcount(h, x) > 1, Refcount(t, x) = Refcount(h, x) - 1,
         Counted(h) \subseteq Objects, Null \notin Counted(h)
  PROVE  Refs(t, d, Null)
<1>1. \A o : FieldsOnto(t, o) = FieldsOnto(h, o)
  BY SameFieldsOnto
<1>2. Counted(t) = Counted(h) /\ Referable(t) = Referable(h)
  BY DEF SameReferable, Referable
<1>3. ASSUME NEW o \in Counted(h)
      PROVE  /\ Refcount(t, o) = d[o] + Cardinality(FieldsOnto(t, o)) + 0
             /\ Refcount(t, o) > 0
  <2>1. d[o] \in Nat /\ Cardinality(FieldsOnto(h, o)) \in Nat
    BY CountsAreNumbers DEF Refs
  <2>2. /\ Refcount(h, o) = d[o] + Cardinality(FieldsOnto(h, o)) + (IF o = x THEN 1 ELSE 0)
        /\ Refcount(h, o) > 0
    BY DEF Refs, ExactOwing
  <2>3. CASE o = x
    BY <1>1, <2>1, <2>2, <2>3
  <2>4. CASE o # x
    BY <1>1, <2>1, <2>2, <2>4 DEF SameCounts
  <2>. QED
    BY <2>3, <2>4
<1>4. ExactOwing(t, d, Null)
  BY <1>2, <1>3 DEF ExactOwing
<1>5. SafeOwing(t, d, Null)
  BY <1>2 DEF Refs, SafeOwing, SameOwned, Referable
<1>. QED
  BY <1>4, <1>5 DEF Refs

\* The last reference goes: nothing refers to x any more.
LEMMA RefsGone ==
  ASSUME NEW h, NEW t, NEW d, NEW x \in Counted(h), Refs(h, d, x),
         IsFiniteSet(OwnedFields(h)),
         SameOwned(h, t), Counted(t) = Counted(h) \ {x}, Embedded(t) = Embedded(h),
         SameCounts(h, t, Counted(h) \ {x}),
         Refcount(h, x) = 1, Counted(h) \subseteq Objects, Null \notin Counted(h)
  PROVE  Refs(t, d, Null)
<1>1. \A o : FieldsOnto(t, o) = FieldsOnto(h, o)
  BY SameFieldsOnto
<1>2. d[x] = 0 /\ FieldsOnto(h, x) = {}
  <2>1. d[x] \in Nat /\ Cardinality(FieldsOnto(h, x)) \in Nat
    BY CountsAreNumbers DEF Refs
  <2>2. 1 = d[x] + Cardinality(FieldsOnto(h, x)) + 1
    BY DEF Refs, ExactOwing
  <2>3. d[x] = 0 /\ Cardinality(FieldsOnto(h, x)) = 0
    BY <2>1, <2>2
  <2>. QED
    BY <2>3, CountsAreNumbers, FS_EmptySet
<1>3. ASSUME NEW o \in Counted(t)
      PROVE  /\ Refcount(t, o) = d[o] + Cardinality(FieldsOnto(t, o)) + 0
             /\ Refcount(t, o) > 0
  <2>1. o \in Counted(h) /\ o # x
    OBVIOUS
  <2>. QED
    BY <1>1, <2>1 DEF SameCounts, Refs, ExactOwing
<1>4. ExactOwing(t, d, Null)
  BY <1>3 DEF ExactOwing
<1>5. \A o \in Objects : d[o] > 0 => o \in Counted(t)
  BY <1>2 DEF Refs, SafeOwing
<1>6. ASSUME NEW s \in OwnedFields(t)
      PROVE  t.field[s[1]][s[2]] \in Referable(t)
  <2>1. s \in OwnedFields(h) /\ t.field[s[1]][s[2]] = h.field[s[1]][s[2]]
    BY DEF SameOwned
  <2>2. h.field[s[1]][s[2]] # x
    BY <1>2, <2>1 DEF FieldsOnto
  <2>. QED
    BY <2>1, <2>2 DEF Refs, SafeOwing, Referable
<1>7. SafeOwing(t, d, Null)
  BY <1>5, <1>6 DEF SafeOwing, Referable
<1>. QED
  BY <1>4, <1>7 DEF Refs

\* The program takes over a reference, or gives one up.
LEMMA RefsHeld ==
  ASSUME NEW h, NEW d, NEW v \in Counted(h), Refs(h, d, v), IsFiniteSet(OwnedFields(h)),
         Counted(h) \subseteq Objects, Null \notin Counted(h)
  PROVE  Refs(h, [d EXCEPT ![v] = d[v] + 1], Null)
<1>. DEFINE e == [d EXCEPT ![v] = d[v] + 1]
<1>1. d \in [Objects -> Nat] /\ v \in Objects
  BY DEF Refs
<1>2. e \in [Objects -> Nat] /\ e[v] = d[v] + 1 /\ \A o \in Objects \ {v} : e[o] = d[o]
  BY <1>1
<1>. HIDE DEF e
<1>3. ASSUME NEW o \in Counted(h)
      PROVE  /\ Refcount(h, o) = e[o] + Cardinality(FieldsOnto(h, o)) + 0
             /\ Refcount(h, o) > 0
  <2>1. d[o] \in Nat /\ Cardinality(FieldsOnto(h, o)) \in Nat
    BY <1>1, CountsAreNumbers
  <2>2. /\ Refcount(h, o) = d[o] + Cardinality(FieldsOnto(h, o)) + (IF o = v THEN 1 ELSE 0)
        /\ Refcount(h, o) > 0
    BY DEF Refs, ExactOwing
  <2>3. CASE o = v
    BY <1>2, <2>1, <2>2, <2>3
  <2>4. CASE o # v
    BY <1>2, <2>1, <2>2, <2>4
  <2>. QED
    BY <2>3, <2>4
<1>4. ExactOwing(h, e, Null)
  BY <1>3 DEF ExactOwing
<1>5. SafeOwing(h, e, Null)
  BY <1>1, <1>2 DEF Refs, SafeOwing, Referable
<1>6. Refs(h, e, Null)
  BY <1>2, <1>4, <1>5 DEF Refs
<1>. QED
  BY <1>6 DEF e

\* The program gives up a reference and owes its release.
LEMMA RefsReleased ==
  ASSUME NEW h, NEW d, NEW v \in Objects, Refs(h, d, Null), d[v] > 0, IsFiniteSet(OwnedFields(h)),
         Counted(h) \subseteq Objects, Null \notin Counted(h)
  PROVE  Refs(h, [d EXCEPT ![v] = d[v] - 1], v)
<1>. DEFINE e == [d EXCEPT ![v] = d[v] - 1]
<1>1. d \in [Objects -> Nat] /\ v \in Counted(h)
  BY DEF Refs, SafeOwing
<1>2. e \in [Objects -> Nat] /\ e[v] = d[v] - 1 /\ \A o \in Objects \ {v} : e[o] = d[o]
  BY <1>1
<1>. HIDE DEF e
<1>3. ASSUME NEW o \in Counted(h)
      PROVE  /\ Refcount(h, o) = e[o] + Cardinality(FieldsOnto(h, o)) + (IF o = v THEN 1 ELSE 0)
             /\ Refcount(h, o) > 0
  <2>1. d[o] \in Nat /\ Cardinality(FieldsOnto(h, o)) \in Nat
    BY <1>1, CountsAreNumbers
  <2>2. /\ Refcount(h, o) = d[o] + Cardinality(FieldsOnto(h, o)) + 0
        /\ Refcount(h, o) > 0
    BY DEF Refs, ExactOwing
  <2>3. CASE o = v
    BY <1>2, <2>1, <2>2, <2>3
  <2>4. CASE o # v
    BY <1>2, <2>1, <2>2, <2>4
  <2>. QED
    BY <2>3, <2>4
<1>4. ExactOwing(h, e, v)
  BY <1>3 DEF ExactOwing
<1>5. \A o \in Objects : e[o] > 0 => o \in Counted(h)
  BY <1>1, <1>2 DEF Refs, SafeOwing
<1>6. SafeOwing(h, e, v)
  BY <1>1, <1>5 DEF Refs, SafeOwing, Referable
<1>7. Refs(h, e, v)
  BY <1>2, <1>4, <1>6 DEF Refs
<1>. QED
  BY <1>7 DEF e

\* Value v replaces what field i of o held.
StoredAt(h, t, o, i, v) ==
    /\ OwnedFields(t) = OwnedFields(h) /\ <<o, i>> \in OwnedFields(h)
    /\ \A s \in OwnedFields(h) \ {<<o, i>>} : t.field[s[1]][s[2]] = h.field[s[1]][s[2]]
    /\ t.field[o][i] = v

\* A store moves what is owed from the new value to the old one.
LEMMA RefsStored ==
  ASSUME NEW h, NEW t, NEW d, NEW o, NEW i, NEW v, Refs(h, d, v), StoredAt(h, t, o, i, v),
         SameReferable(h, t), SameCounts(h, t, Counted(h)), IsFiniteSet(OwnedFields(h)),
         Null \notin Counted(h), Counted(h) \subseteq Objects
  PROVE  Refs(t, d, h.field[o][i])
<1>. DEFINE s == <<o, i>>
            u == h.field[o][i]
<1>1. Counted(t) = Counted(h) /\ Referable(t) = Referable(h)
  BY DEF SameReferable, Referable
<1>2. s \in OwnedFields(h) /\ OwnedFields(t) = OwnedFields(h) /\ s[1] = o /\ s[2] = i
  BY DEF StoredAt
<1>3. u \in Referable(h)
  BY <1>2 DEF Refs, SafeOwing
<1>4. \A r \in OwnedFields(h) \ {s} : t.field[r[1]][r[2]] = h.field[r[1]][r[2]]
  BY DEF StoredAt
<1>5. t.field[s[1]][s[2]] = v /\ h.field[s[1]][s[2]] = u
  BY <1>2 DEF StoredAt
<1>. HIDE DEF s, u
<1>6. ASSUME NEW q \in Counted(h)
      PROVE  /\ Refcount(t, q) = d[q] + Cardinality(FieldsOnto(t, q)) + (IF q = u THEN 1 ELSE 0)
             /\ Refcount(t, q) > 0
  <2>. DEFINE A == FieldsOnto(h, q)
              B == FieldsOnto(t, q)
              a == Cardinality(A)
              b == Cardinality(B)
  <2>1. IsFiniteSet(A) /\ a \in Nat /\ d[q] \in Nat
    BY CountsAreNumbers DEF Refs
  <2>2. Refcount(t, q) = d[q] + a + (IF q = v THEN 1 ELSE 0) /\ Refcount(t, q) > 0
    BY DEF Refs, ExactOwing, SameCounts
  <2>3. B = (A \ {s}) \cup (IF v = q THEN {s} ELSE {})
    BY <1>2, <1>4, <1>5 DEF FieldsOnto
  <2>4. s \in A <=> u = q
    BY <1>2, <1>5 DEF FieldsOnto
  <2>. HIDE DEF A, B
  <2>5. CASE u = q /\ v = q
    <3>1. B = A
      BY <2>3, <2>4, <2>5
    <3>. QED
      BY <2>1, <2>2, <2>5, <3>1 DEF A, B
  <2>6. CASE u = q /\ v # q
    <3>1. B = A \ {s} /\ s \in A
      BY <2>3, <2>4, <2>6
    <3>2. b = a - 1
      BY <2>1, <3>1, FS_RemoveElement
    <3>. QED
      BY <2>1, <2>2, <2>6, <3>2 DEF B
  <2>7. CASE u # q /\ v = q
    <3>1. B = A \cup {s} /\ s \notin A
      BY <2>3, <2>4, <2>7
    <3>2. b = a + 1
      BY <2>1, <3>1, FS_AddElement
    <3>. QED
      BY <2>1, <2>2, <2>7, <3>2 DEF B
  <2>8. CASE u # q /\ v # q
    <3>1. B = A
      BY <2>3, <2>4, <2>8
    <3>. QED
      BY <2>1, <2>2, <2>8, <3>1 DEF A, B
  <2>. QED
    BY <2>5, <2>6, <2>7, <2>8
<1>7. ExactOwing(t, d, u)
  BY <1>1, <1>6 DEF ExactOwing
<1>8. SafeOwing(t, d, u)
  <2>1. \A r \in OwnedFields(t) : t.field[r[1]][r[2]] \in Referable(t)
    BY <1>1, <1>2, <1>4, <1>5 DEF Refs, SafeOwing
  <2>. QED
    BY <1>1, <1>3, <2>1 DEF Refs, SafeOwing
<1>. QED
  BY <1>7, <1>8 DEF Refs, u

\* Field i of o is no longer owned: what it refers to is to be released.
OwedFrom(h, t, o, i) ==
    /\ <<o, i>> \in OwnedFields(h)
    /\ OwnedFields(t) = OwnedFields(h) \ {<<o, i>>}
    /\ t.field = h.field

\* A field that a walk passes becomes a reference the walk has to release.
LEMMA RefsOwed ==
  ASSUME NEW h, NEW t, NEW d, NEW n, Refs(h, d, n), n \notin Counted(h),
         NEW o, NEW i, OwedFrom(h, t, o, i),
         SameReferable(h, t), SameCounts(h, t, Counted(h)), IsFiniteSet(OwnedFields(h)),
         Counted(h) \subseteq Objects
  PROVE  Refs(t, d, h.field[o][i])
<1>. DEFINE s == <<o, i>>
            u == h.field[o][i]
<1>1. Counted(t) = Counted(h) /\ Referable(t) = Referable(h)
  BY DEF SameReferable, Referable
<1>2. s \in OwnedFields(h) /\ OwnedFields(t) = OwnedFields(h) \ {s} /\ s[1] = o /\ s[2] = i
  BY DEF OwedFrom
<1>3. u \in Referable(h)
  BY <1>2 DEF Refs, SafeOwing
<1>4. t.field = h.field /\ h.field[s[1]][s[2]] = u
  BY <1>2 DEF OwedFrom
<1>. HIDE DEF s, u
<1>5. ASSUME NEW q \in Counted(h)
      PROVE  /\ Refcount(t, q) = d[q] + Cardinality(FieldsOnto(t, q)) + (IF q = u THEN 1 ELSE 0)
             /\ Refcount(t, q) > 0
  <2>. DEFINE A == FieldsOnto(h, q)
              B == FieldsOnto(t, q)
              a == Cardinality(A)
              b == Cardinality(B)
  <2>1. IsFiniteSet(A) /\ a \in Nat /\ d[q] \in Nat
    BY CountsAreNumbers DEF Refs
  <2>2. Refcount(t, q) = d[q] + a + 0 /\ Refcount(t, q) > 0
    BY DEF Refs, ExactOwing, SameCounts
  <2>3. B = A \ {s} /\ (s \in A <=> u = q)
    BY <1>2, <1>4 DEF FieldsOnto
  <2>. HIDE DEF A, B
  <2>4. CASE u = q
    <3>1. b = a - 1
      BY <2>1, <2>3, <2>4, FS_RemoveElement
    <3>. QED
      BY <2>1, <2>2, <2>4, <3>1 DEF B
  <2>5. CASE u # q
    <3>1. B = A
      BY <2>3, <2>5
    <3>. QED
      BY <2>1, <2>2, <2>5, <3>1 DEF A, B
  <2>. QED
    BY <2>4, <2>5
<1>6. ExactOwing(t, d, u)
  BY <1>1, <1>5 DEF ExactOwing
<1>7. SafeOwing(t, d, u)
  BY <1>1, <1>2, <1>3, <1>4 DEF Refs, SafeOwing
<1>. QED
  BY <1>6, <1>7 DEF Refs, u

\* The references of t are those of h and null ones.
WithNulls(h, t) ==
    /\ OwnedFields(h) \subseteq OwnedFields(t)
    /\ \A s \in OwnedFields(h) : t.field[s[1]][s[2]] = h.field[s[1]][s[2]]
    /\ \A s \in OwnedFields(t) \ OwnedFields(h) : t.field[s[1]][s[2]] = Null

\* A new object has the one reference of the program, and its fields are null.
LEMMA RefsBorn ==
  ASSUME NEW h, NEW t, NEW d, Refs(h, d, Null), NEW o \in Objects, o \notin Referable(h),
         WithNulls(h, t), IsFiniteSet(OwnedFields(t)),
         Counted(t) = Counted(h) \cup {o}, Embedded(t) = Embedded(h),
         SameCounts(h, t, Counted(h)), Refcount(t, o) = 1,
         Counted(h) \subseteq Objects, Null \notin Objects
  PROVE  Refs(t, [d EXCEPT ![o] = d[o] + 1], Null)
<1>1. \A q \in Counted(t) : FieldsOnto(t, q) = FieldsOnto(h, q)
  BY DEF WithNulls, FieldsOnto
<1>2. FieldsOnto(t, o) = {}
  <2>1. FieldsOnto(h, o) = {}
    BY DEF FieldsOnto, Refs, SafeOwing
  <2>. QED
    BY <1>1, <2>1
<1>3. d[o] = 0 /\ Cardinality(FieldsOnto(t, o)) = 0
  BY <1>2, FS_EmptySet DEF Refs, SafeOwing, Referable
<1>4. ExactOwing(t, d, o)
  <2>1. ASSUME NEW q \in Counted(h)
        PROVE  /\ Refcount(t, q) = d[q] + Cardinality(FieldsOnto(t, q)) + 0
               /\ Refcount(t, q) > 0
    BY <1>1 DEF Refs, ExactOwing, SameCounts
  <2>2. o \notin Counted(h)
    BY DEF Referable
  <2>. QED
    BY <1>3, <2>1, <2>2 DEF ExactOwing
<1>5. SafeOwing(t, d, o)
  <2>1. Referable(t) = Referable(h) \cup {o}
    BY DEF Referable
  <2>2. \A s \in OwnedFields(t) : t.field[s[1]][s[2]] \in Referable(t)
    BY <2>1 DEF WithNulls, Refs, SafeOwing, Referable
  <2>. QED
    BY <2>1, <2>2 DEF Refs, SafeOwing
<1>6. Refs(t, d, o) /\ o \in Counted(t)
  BY <1>4, <1>5 DEF Refs
<1>7. Counted(t) \subseteq Objects /\ Null \notin Counted(t)
  OBVIOUS
<1>. QED
  BY <1>6, <1>7, RefsHeld

-----------------------------------------------------------------------------
(* The structure of the heap, as the state changes                         *)

\* There are finitely many fields.
LEMMA ObjectsFinite == IsFiniteSet(Objects \X Fields)
<1>1. IsFiniteSet(Pages) /\ IsFiniteSet(Indices) /\ IsFiniteSet(Fields)
  BY FS_Interval, SlabAssumption, RefCountAssumption DEF Pages, Indices, Fields
<1>2. IsFiniteSet(Cells)
  BY <1>1, FS_Product DEF Cells
<1>3. IsFiniteSet(Objects)
  BY <1>2, FS_Union, RefCountAssumption DEF Objects
<1>. QED
  BY <1>1, <1>3, FS_Product

\* Cells, heap blocks and host objects are different things, and none is null.
LEMMA Kinds ==
  /\ Null \notin Objects
  /\ Cells \cap HeapSlots = {} /\ Cells \cap Globals = {} /\ HeapSlots \cap Globals = {}
  /\ Objects = (HeapSlots \cup Cells) \cup Globals
BY RefCountAssumption DEF Objects

\* What is used of a well-formed heap everywhere.
LEMMA StructureFacts ==
  ASSUME NEW h, NEW P, Structure(h, P)
  PROVE  /\ h \in HeapType /\ h.walks \in Seq(Frames) /\ h.has_fields \in [Objects -> BOOLEAN]
         /\ Counted(h) \subseteq Objects /\ Null \notin Counted(h)
         /\ Counted(h) \subseteq h.live /\ h.live \subseteq Objects
         /\ Counted(h) \subseteq HeapSlots \cup Cells
         /\ OnDropList(h.slab) \subseteq Cells \ (LiveCells(h) \cup Popping(h) \cup P)
         /\ IsFiniteSet(OwnedFields(h))
<1>1. /\ h \in HeapType /\ h.walks \in Seq(Frames) /\ h.live \subseteq Objects
      /\ h.has_fields \in [Objects -> BOOLEAN]
  BY HeapFields DEF Structure
<1>2. /\ Counted(h) \subseteq Objects /\ Null \notin Counted(h)
      /\ Counted(h) \subseteq h.live
      /\ Counted(h) \subseteq HeapSlots \cup Cells
  BY <1>1, Kinds DEF Counted
<1>3. OnDropList(h.slab) \subseteq Cells \ (LiveCells(h) \cup Popping(h) \cup P)
  BY GoodCells DEF Structure, SlabOK, Available
<1>4. Owners(h) \subseteq Objects
  BY <1>1, <1>3, Kinds DEF Owners, Structure, WalksOK
<1>5. OwnedFields(h) \subseteq Objects \X Fields
  BY <1>4 DEF OwnedFields
<1>6. IsFiniteSet(OwnedFields(h))
  BY <1>5, ObjectsFinite, FS_Subset
<1>. QED
  BY <1>1, <1>2, <1>3, <1>6

\* Fields, headers and walks are as before.
SameShape(h, t) ==
    /\ t.ctrc_bit = h.ctrc_bit /\ t.has_fields = h.has_fields /\ t.field = h.field
    /\ t.live = h.live /\ t.walks = h.walks
    /\ \A g \in Globals : t.refcount[g] = h.refcount[g]

\* With the same shape the parts of the structure that do not read the slab are kept.
LEMMA ShapeKept ==
  ASSUME NEW h, NEW P, Structure(h, P), NEW t \in HeapType, SameShape(h, t)
  PROVE  WalksOK(t) /\ HostsOK(t) /\ BitsOK(t) /\ CellFields(t) = CellFields(h)
<1>1. \A e : Walking(t, e) = Walking(h, e)
  BY DEF SameShape, Walking
<1>2. Embedded(t) = Embedded(h)
  BY DEF SameShape, Embedded
<1>3. WalksOK(t)
  BY <1>1, <1>2 DEF Structure, WalksOK, SameShape, Freeing, Popping, OneReclaim
<1>4. HostsOK(t)
  BY <1>2 DEF Structure, HostsOK, SameShape
<1>5. BitsOK(t)
  BY DEF Structure, BitsOK, SameShape
<1>. QED
  BY <1>3, <1>4, <1>5 DEF SameShape, CellFields

\* Writing the refcount of a live object changes nothing else.
LEMMA SetShape ==
  ASSUME NEW h, NEW P, Structure(h, P), NEW o \in h.live \ Globals, NEW n \in Nat,
         NEW t, t = SetRefcount(h, o, n)
  PROVE  /\ Structure(t, P) /\ SameView(h, t) /\ SameShape(h, t)
         /\ Refcount(t, o) = n /\ SameCounts(h, t, Objects \ {o})
<1>1. h \in HeapType /\ o \in HeapSlots \cup Cells /\ o \in Objects
  BY StructureFacts, Kinds
<1>2. /\ SameBody(h, t)
      /\ t.slab = IF o \in Cells THEN Written(h.slab, o, n) ELSE h.slab
      /\ t.refcount = IF o \in Cells THEN h.refcount ELSE [h.refcount EXCEPT ![o] = n]
  BY <1>1, SetFields
<1>. DEFINE L == LiveCells(h) \cup Popping(h) \cup P
<1>3. Good(h.slab, L, CellFields(h)) /\ CellFields(h) \in [Cells -> BOOLEAN]
  BY <1>1, HeapFields DEF Structure, SlabOK, CellFields, Objects
<1>4. h.refcount \in [HeapSlots \cup Globals -> Nat]
  BY <1>1, HeapFields
<1>5. /\ Good(t.slab, L, CellFields(h)) /\ OnDropList(t.slab) = OnDropList(h.slab)
      /\ o \in Cells => t.slab.refcount[o] = n
      /\ \A c \in Cells \ {o} : t.slab.refcount[c] = h.slab.refcount[c]
  <2>1. CASE o \in Cells
    <3>1. o \in L
      BY <2>1 DEF LiveCells
    <3>2. OtherFields(CellFields(h), CellFields(h), o)
      BY DEF OtherFields
    <3>. HIDE DEF L
    <3>. QED
      BY <1>2, <1>3, <2>1, <3>1, <3>2, GoodWrite
  <2>2. CASE o \notin Cells
    BY <1>2, <1>3, <2>2
  <2>. QED
    BY <2>1, <2>2
<1>6. t.slab \in SlabType
  BY <1>5 DEF Good
<1>7. /\ t.refcount \in [HeapSlots \cup Globals -> Nat]
      /\ o \notin Cells => t.refcount[o] = n
      /\ \A q \in (HeapSlots \cup Globals) \ {o} : t.refcount[q] = h.refcount[q]
  BY <1>1, <1>2, <1>4
<1>8. t \in HeapType
  BY <1>1, <1>2, <1>6, <1>7, HeapFields, HeapTyped DEF SameBody
<1>9. SameShape(h, t)
  BY <1>2, <1>7 DEF SameBody, SameShape
<1>10. SameView(h, t)
  BY <1>5, <1>9 DEF SameShape, SameView
<1>11. LiveCells(t) = LiveCells(h) /\ Popping(t) = Popping(h)
  BY <1>10, ViewSame DEF Popping
<1>12. SlabOK(t, P)
  BY <1>5, <1>8, <1>9, <1>11, ShapeKept DEF SlabOK
<1>13. Structure(t, P)
  BY <1>8, <1>9, <1>12, ShapeKept DEF Structure
<1>14. Refcount(t, o) = n
  BY <1>5, <1>7 DEF Refcount
<1>15. SameCounts(h, t, Objects \ {o})
  BY <1>5, <1>7 DEF SameCounts, Refcount, Objects
<1>. QED
  BY <1>9, <1>10, <1>13, <1>14, <1>15

\* A new walk releases nothing yet.
LEMMA PushStructure ==
  ASSUME NEW h, Structure(h, {}), NEW x, NEW e \in {"free", "return"}, NEW t,
         t = Push(h, Frame(x, e, FALSE)),
         e = "free" => x \in (HeapSlots \cap h.live) \ Freeing(h),
         e = "return" => x \in Embedded(h)
  PROVE  /\ Structure(t, {}) /\ SameOwned(h, t) /\ Embedded(t) = Embedded(h)
         /\ Counted(t) = Counted(h) \ (IF e = "free" THEN {x} ELSE {})
         /\ SameCounts(h, t, Objects) /\ Popping(t) = Popping(h)
<1>. DEFINE f == Frame(x, e, FALSE)
<1>1. h \in HeapType /\ h.walks \in Seq(Frames) /\ x \in Objects
  BY StructureFacts, Kinds DEF Embedded
<1>2. /\ IsHeap(t)
      /\ t.slab = h.slab /\ t.refcount = h.refcount
      /\ t.ctrc_bit = h.ctrc_bit /\ t.has_fields = h.has_fields /\ t.field = h.field
      /\ t.live = h.live /\ t.walks = Append(h.walks, f)
  <2>1. AfterPush(h, f, t)
    BY <1>1, PushFields
  <2>. QED
    BY <2>1 DEF AfterPush
<1>3. f \in Frames /\ f.next = 1 /\ f.then = e /\ f.obj = x
  BY <1>1, RefCountAssumption DEF Frame, Frames, Endings
<1>4. PushedWalk(h, t, f)
  BY <1>2 DEF PushedWalk
<1>. HIDE DEF f
<1>5. WalkPushed(h, t, f)
  BY <1>1, <1>3, <1>4, WalkPush
<1>6. /\ Freeing(t) = Freeing(h) \cup (IF e = "free" THEN {x} ELSE {})
      /\ Popping(t) = Popping(h)
      /\ Walking(t, "return") = Walking(h, "return") \cup (IF e = "return" THEN {x} ELSE {})
  BY <1>3, <1>5 DEF WalkPushed, Freeing, Popping
<1>7. OneReclaim(t)
  BY <1>3, <1>5, Kinds DEF WalkPushed, Structure, WalksOK
<1>8. t \in HeapType
  <2>1. t.walks \in Seq(Frames)
    BY <1>5 DEF WalkPushed
  <2>. QED
    BY <1>1, <1>2, <2>1, HeapFields, HeapTyped
<1>9. Embedded(t) = Embedded(h) /\ LiveCells(t) = LiveCells(h) /\ CellFields(t) = CellFields(h)
  BY <1>2 DEF Embedded, LiveCells, CellFields
<1>10. WalksOK(t)
  BY <1>2, <1>6, <1>7, <1>9 DEF Structure, WalksOK
<1>11. HostsOK(t) /\ BitsOK(t) /\ SlabOK(t, {})
  BY <1>2, <1>6, <1>9 DEF Structure, HostsOK, BitsOK, SlabOK
<1>12. Structure(t, {})
  BY <1>8, <1>10, <1>11 DEF Structure
<1>13. Owners(t) = Owners(h)
  BY <1>2, <1>6 DEF Owners
<1>14. SameOwned(h, t)
  BY <1>2, <1>5, <1>13 DEF WalkPushed, SameOwned, OwnedFields
<1>15. SameCounts(h, t, Objects)
  BY <1>2 DEF SameCounts, Refcount
<1>16. Counted(t) = Counted(h) \ (IF e = "free" THEN {x} ELSE {})
  BY <1>2, <1>6 DEF Counted
<1>. QED
  BY <1>6, <1>9, <1>12, <1>14, <1>15, <1>16

\* A dropped cell leaves the live objects and, when it has fields, keeps them on the drop list.
LEMMA DeferStructure ==
  ASSUME NEW h, Structure(h, {}), NEW x \in h.live \cap Cells, NEW t, t = ctrc_defer_drop(h, x)
  PROVE  /\ Structure(t, {}) /\ SameOwned(h, t) /\ Embedded(t) = Embedded(h)
         /\ Counted(t) = Counted(h) \ {x}
         /\ SameCounts(h, t, Objects \ {x}) /\ Popping(t) = Popping(h)
<1>1. /\ h \in HeapType /\ x \in Objects /\ x \notin Globals /\ x \notin HeapSlots
      /\ x \notin Popping(h)
  BY StructureFacts, Kinds DEF Structure, WalksOK
<1>2. /\ IsHeap(t)
      /\ t.slab = defer_drop(h.slab, x, h.has_fields[x]) /\ t.refcount = h.refcount
      /\ t.ctrc_bit = h.ctrc_bit /\ t.has_fields = h.has_fields /\ t.field = h.field
      /\ t.live = h.live \ {x} /\ t.walks = h.walks
  BY <1>1, DeferFields
<1>. DEFINE L == LiveCells(h) \cup Popping(h) \cup {}
            F == CellFields(h)
<1>3. Good(h.slab, L, F) /\ F[x] = h.has_fields[x] /\ x \in L
  BY DEF Structure, SlabOK, CellFields, LiveCells
<1>4. t.slab = Dropped(h.slab, x, F)
  BY <1>2, <1>3 DEF Dropped
<1>. HIDE DEF L, F
<1>5. /\ Good(t.slab, L \ {x}, F)
      /\ OnDropList(t.slab) = OnDropList(h.slab) \cup (IF F[x] THEN {x} ELSE {})
      /\ \A d \in Cells \ {x} : t.slab.refcount[d] = h.slab.refcount[d]
  <2>1. AfterDrop(h.slab, L, F, x, t.slab)
    BY <1>3, <1>4, GoodDrop
  <2>. QED
    BY <2>1 DEF AfterDrop
<1>6. \A e : Walking(t, e) = Walking(h, e)
  BY <1>2 DEF Walking
<1>7. /\ Popping(t) = Popping(h) /\ Freeing(t) = Freeing(h) /\ Embedded(t) = Embedded(h)
      /\ LiveCells(t) = LiveCells(h) \ {x} /\ CellFields(t) = F
  BY <1>1, <1>2, <1>6 DEF Popping, Freeing, Embedded, LiveCells, CellFields, F
<1>8. t \in HeapType
  <2>1. t.slab \in SlabType
    BY <1>5 DEF Good
  <2>. QED
    BY <1>1, <1>2, <2>1, HeapFields, HeapTyped
<1>9. L \ {x} = LiveCells(t) \cup Popping(t) \cup {}
  BY <1>1, <1>7 DEF L
<1>10. SlabOK(t, {})
  BY <1>5, <1>7, <1>9 DEF SlabOK
<1>11. WalksOK(t)
  BY <1>1, <1>2, <1>6, <1>7 DEF Structure, WalksOK, OneReclaim
<1>12. HostsOK(t) /\ BitsOK(t)
  BY <1>2, <1>7 DEF Structure, HostsOK, BitsOK
<1>13. Structure(t, {})
  BY <1>8, <1>10, <1>11, <1>12 DEF Structure
<1>14. Owners(t) = Owners(h)
  BY <1>2, <1>3, <1>5, <1>7 DEF Owners
<1>15. SameOwned(h, t)
  BY <1>2, <1>14 DEF SameOwned, OwnedFields, Released
<1>16. SameCounts(h, t, Objects \ {x})
  BY <1>2, <1>5 DEF SameCounts, Refcount
<1>17. Counted(t) = Counted(h) \ {x}
  BY <1>2, <1>7 DEF Counted
<1>. QED
  BY <1>7, <1>13, <1>15, <1>16, <1>17

-----------------------------------------------------------------------------
(* The operations of the runtime                                           *)

\* One more reference, to v, which the program now owes or takes over.
LEMMA Incr ==
  ASSUME NEW h, Structure(h, {}), NEW d, Refs(h, d, Null), NEW v \in Referable(h),
         NEW t, t = refcount_incr(h, v)
  PROVE  Structure(t, {}) /\ Refs(t, d, v) /\ SameView(h, t)
<1>1. /\ Counted(h) \subseteq Objects /\ Counted(h) \subseteq h.live \ Globals
      /\ Null \notin Counted(h) /\ IsFiniteSet(OwnedFields(h))
  BY StructureFacts DEF Counted
<1>2. CASE v \in Counted(h)
  <2>1. Refcount(h, v) > 0 /\ Refcount(h, v) \in Nat
    <3>1. d[v] \in Nat /\ Cardinality(FieldsOnto(h, v)) \in Nat
      BY <1>1, <1>2, CountsAreNumbers DEF Refs
    <3>2. Refcount(h, v) = d[v] + Cardinality(FieldsOnto(h, v)) + 0 /\ Refcount(h, v) > 0
      BY <1>1, <1>2 DEF Refs, ExactOwing
    <3>. QED
      BY <3>1, <3>2
  <2>. DEFINE n == Refcount(h, v) + 1
  <2>2. t = SetRefcount(h, v, n) /\ n \in Nat
    BY <1>1, <1>2, <2>1 DEF refcount_incr
  <2>3. v \in h.live \ Globals
    BY <1>1, <1>2
  <2>. HIDE DEF n
  <2>4. /\ Structure(t, {}) /\ SameView(h, t)
        /\ Refcount(t, v) = n /\ SameCounts(h, t, Objects \ {v})
    BY <2>2, <2>3, SetShape
  <2>5. SameOwned(h, t) /\ SameReferable(h, t) /\ SameCounts(h, t, Counted(h) \ {v})
    BY <1>1, <2>4, ViewSame DEF SameCounts
  <2>6. Refs(t, d, v)
    BY <1>1, <1>2, <2>4, <2>5, RefsIncremented DEF n
  <2>. QED
    BY <2>4, <2>6
<1>3. CASE v \notin Counted(h)
  <2>1. t = h
    <3>1. v \in Globals => Refcount(h, v) = 0
      BY Kinds DEF Structure, HostsOK, Refcount
    <3>. QED
      BY <1>3, <3>1 DEF refcount_incr, Referable, Embedded
  <2>2. Refs(h, d, v)
    BY <1>1, <1>3, RefsUncounted
  <2>. QED
    BY <2>1, <2>2 DEF SameView
<1>. QED
  BY <1>2, <1>3

\* refcount_decr(h, x) when x is a host object: a walk that returns
LEMMA DecrHost ==
  ASSUME NEW h, Structure(h, {}), NEW d, NEW x \in Embedded(h), Refs(h, d, x),
         NEW t, t = Push(h, Frame(x, "return", FALSE))
  PROVE  Structure(t, {}) /\ Refs(t, d, Null) /\ Popping(t) = Popping(h)
<1>. DEFINE e == "return"
<1>1. e \in {"free", "return"} /\ e # "free" /\ t = Push(h, Frame(x, e, FALSE))
  OBVIOUS
<1>. HIDE DEF e
<1>2. /\ Structure(t, {}) /\ SameOwned(h, t) /\ Embedded(t) = Embedded(h)
      /\ Counted(t) = Counted(h) \ (IF e = "free" THEN {x} ELSE {})
      /\ SameCounts(h, t, Objects) /\ Popping(t) = Popping(h)
  BY <1>1, PushStructure
<1>3. SameReferable(h, t) /\ SameCounts(h, t, Counted(h))
  BY <1>1, <1>2, StructureFacts DEF SameReferable, SameCounts
<1>4. x \notin Counted(h) /\ Null \in Referable(h) \ Counted(h)
  BY StructureFacts DEF Embedded, Counted, Referable
<1>5. Refs(h, d, Null)
  BY <1>4, RefsUncounted
<1>6. Refs(t, d, Null)
  BY <1>2, <1>3, <1>5, RefsSame
<1>. QED
  BY <1>2, <1>6

\* ... when there are more references to x
LEMMA DecrMore ==
  ASSUME NEW h, Structure(h, {}), NEW d, NEW x \in Counted(h), Refs(h, d, x),
         Refcount(h, x) > 1, NEW t, t = SetRefcount(h, x, Refcount(h, x) - 1)
  PROVE  Structure(t, {}) /\ Refs(t, d, Null) /\ Popping(t) = Popping(h)
<1>1. /\ Counted(h) \subseteq Objects /\ Counted(h) \subseteq h.live \ Globals
      /\ Null \notin Counted(h) /\ IsFiniteSet(OwnedFields(h))
  BY StructureFacts DEF Counted
<1>2. Refcount(h, x) - 1 \in Nat
  <2>1. d[x] \in Nat /\ Cardinality(FieldsOnto(h, x)) \in Nat
    BY <1>1, CountsAreNumbers DEF Refs
  <2>2. Refcount(h, x) = d[x] + Cardinality(FieldsOnto(h, x)) + 1
    BY <1>1 DEF Refs, ExactOwing
  <2>. QED
    BY <2>1, <2>2
<1>3. x \in h.live \ Globals
  BY <1>1
<1>4. /\ Structure(t, {}) /\ SameView(h, t)
      /\ Refcount(t, x) = Refcount(h, x) - 1 /\ SameCounts(h, t, Objects \ {x})
  BY <1>2, <1>3, SetShape
<1>5. SameOwned(h, t) /\ SameReferable(h, t) /\ SameCounts(h, t, Counted(h) \ {x})
  BY <1>1, <1>4, ViewSame DEF SameCounts
<1>6. Refs(t, d, Null)
  BY <1>1, <1>4, <1>5, RefsDecremented
<1>. QED
  BY <1>4, <1>6, ViewSame DEF Popping

\* ... when there is no other reference to x: it is dropped, or walked and then freed
LEMMA DecrLast ==
  ASSUME NEW h, Structure(h, {}), NEW d, NEW x \in Counted(h), Refs(h, d, x),
         Refcount(h, x) = 1, NEW t, t = refcount_zero(SetRefcount(h, x, 0), x)
  PROVE  Structure(t, {}) /\ Refs(t, d, Null) /\ Popping(t) = Popping(h)
<1>1. /\ Counted(h) \subseteq Objects /\ Counted(h) \subseteq h.live \ Globals
      /\ Null \notin Counted(h) /\ IsFiniteSet(OwnedFields(h))
      /\ x \in HeapSlots \cup Cells
  BY StructureFacts DEF Counted
<1>. DEFINE z == SetRefcount(h, x, 0)
<1>2. x \in h.live \ Globals /\ 0 \in Nat
  BY <1>1
<1>3. /\ Structure(z, {}) /\ SameView(h, z) /\ SameShape(h, z)
      /\ SameCounts(h, z, Objects \ {x})
  BY <1>2, SetShape
<1>4. t = refcount_zero(z, x)
  OBVIOUS
<1>. HIDE DEF z
<1>5. SameOwned(h, z) /\ SameReferable(h, z) /\ Popping(z) = Popping(h)
  BY <1>3, ViewSame DEF Popping
<1>6. x \in z.live /\ x \in Counted(z) /\ (z.ctrc_bit[x] <=> x \in Cells)
  BY <1>2, <1>3, <1>5 DEF SameShape, SameReferable, Structure, BitsOK
<1>7. /\ Structure(t, {}) /\ SameOwned(z, t) /\ Embedded(t) = Embedded(z)
      /\ Counted(t) = Counted(z) \ {x}
      /\ SameCounts(z, t, Objects \ {x}) /\ Popping(t) = Popping(z)
  <2>1. CASE x \in Cells
    <3>1. t = ctrc_defer_drop(z, x) /\ x \in z.live \cap Cells
      BY <1>4, <1>6, <2>1 DEF refcount_zero
    <3>. QED
      BY <1>3, <3>1, DeferStructure
  <2>2. CASE x \notin Cells
    <3>. DEFINE e == "free"
    <3>1. e \in {"free", "return"} /\ e = "free" /\ t = Push(z, Frame(x, e, FALSE))
      BY <1>4, <1>6, <2>2 DEF refcount_zero
    <3>2. x \in (HeapSlots \cap z.live) \ Freeing(z)
      BY <1>1, <1>6, <2>2 DEF Counted
    <3>. HIDE DEF e
    <3>3. /\ Structure(t, {}) /\ SameOwned(z, t) /\ Embedded(t) = Embedded(z)
          /\ Counted(t) = Counted(z) \ (IF e = "free" THEN {x} ELSE {})
          /\ SameCounts(z, t, Objects) /\ Popping(t) = Popping(z)
      BY <1>3, <3>1, <3>2, PushStructure
    <3>. QED
      BY <3>1, <3>3 DEF SameCounts
  <2>. QED
    BY <2>1, <2>2
<1>8. SameOwned(h, t) /\ Counted(t) = Counted(h) \ {x} /\ Embedded(t) = Embedded(h)
  BY <1>5, <1>7 DEF SameOwned, SameReferable
<1>9. SameCounts(h, t, Counted(h) \ {x})
  BY <1>1, <1>3, <1>7 DEF SameCounts
<1>10. Refs(t, d, Null)
  BY <1>1, <1>8, <1>9, RefsGone
<1>. QED
  BY <1>5, <1>7, <1>10

\* refcount_decr releases the reference that is owed, whatever it refers to.
LEMMA Decr ==
  ASSUME NEW h, Structure(h, {}), NEW d, NEW x, Refs(h, d, x), NEW t, t = refcount_decr(h, x)
  PROVE  Structure(t, {}) /\ Refs(t, d, Null) /\ Popping(t) = Popping(h)
<1>1. x \in Counted(h) \/ x \in Embedded(h) \/ x = Null
  BY DEF Refs, SafeOwing, Referable
<1>2. CASE x = Null
  BY <1>2 DEF refcount_decr
<1>3. CASE x \in Embedded(h)
  <2>1. x # Null /\ Refcount(h, x) = 0
    BY <1>3, Kinds DEF Embedded, Refcount, Structure, HostsOK
  <2>2. t = Push(h, Frame(x, "return", FALSE))
    BY <2>1 DEF refcount_decr
  <2>. QED
    BY <1>3, <2>2, DecrHost
<1>4. CASE x \in Counted(h)
  <2>1. x # Null /\ Refcount(h, x) \in Nat \ {0}
    <3>1. /\ x # Null /\ x \in Objects /\ IsFiniteSet(OwnedFields(h))
      BY <1>4, StructureFacts
    <3>2. d[x] \in Nat /\ Cardinality(FieldsOnto(h, x)) \in Nat
      BY <3>1, CountsAreNumbers DEF Refs
    <3>3. Refcount(h, x) = d[x] + Cardinality(FieldsOnto(h, x)) + 1
      BY <1>4 DEF Refs, ExactOwing
    <3>. QED
      BY <3>1, <3>2, <3>3
  <2>2. CASE Refcount(h, x) > 1
    <3>1. t = SetRefcount(h, x, Refcount(h, x) - 1)
      BY <2>1, <2>2 DEF refcount_decr
    <3>. QED
      BY <1>4, <2>2, <3>1, DecrMore
  <2>3. CASE Refcount(h, x) = 1
    <3>1. t = refcount_zero(SetRefcount(h, x, 0), x)
      BY <2>1, <2>3 DEF refcount_decr
    <3>. QED
      BY <1>4, <2>3, <3>1, DecrLast
  <2>. QED
    BY <2>1, <2>2, <2>3
<1>. QED
  BY <1>1, <1>2, <1>3, <1>4

\* An object that no walk reclaims has all its fields.
LEMMA NotReleased ==
  ASSUME NEW h, h.walks \in Seq(Frames), NEW o, o \notin Freeing(h) \cup Popping(h), NEW i
  PROVE  ~Released(h, o, i)
<1>1. \A k \in DOMAIN h.walks : h.walks[k] \in Frames
  OBVIOUS
<1>2. \A k \in DOMAIN h.walks : h.walks[k].then \in Endings
  BY <1>1 DEF Frames
<1>. QED
  BY <1>2 DEF Released, Freeing, Popping, Walking, Endings

\* A store into a field hands its old value over to the program, which owes its release.
LEMMA StoreStep ==
  ASSUME NEW h, Structure(h, {}), NEW d, NEW v \in Objects \cup {Null}, Refs(h, d, v),
         NEW o \in Counted(h), h.has_fields[o], NEW i \in Fields,
         NEW t, t = Stored(h, o, i, v)
  PROVE  Structure(t, {}) /\ Refs(t, d, h.field[o][i]) /\ Popping(t) = Popping(h)
<1>1. /\ h \in HeapType /\ o \in Objects /\ o \in h.live /\ o \notin Globals
      /\ h.walks \in Seq(Frames)
      /\ Counted(h) \subseteq Objects /\ Null \notin Counted(h) /\ IsFiniteSet(OwnedFields(h))
  BY StructureFacts DEF Counted
<1>2. /\ IsHeap(t)
      /\ t.slab = h.slab /\ t.refcount = h.refcount
      /\ t.ctrc_bit = h.ctrc_bit /\ t.has_fields = h.has_fields
      /\ t.field = [h.field EXCEPT ![o] = [h.field[o] EXCEPT ![i] = v]]
      /\ t.live = h.live /\ t.walks = h.walks
  BY <1>1, StoreFields
<1>3. h.field \in [Objects -> [Fields -> Objects \cup {Null}]]
  BY <1>1, HeapFields
<1>4. /\ t.field \in [Objects -> [Fields -> Objects \cup {Null}]]
      /\ t.field[o][i] = v
      /\ \A q \in Objects \ {o} : t.field[q] = h.field[q]
      /\ \A j \in Fields \ {i} : t.field[o][j] = h.field[o][j]
  BY <1>1, <1>2, <1>3
<1>5. t \in HeapType
  BY <1>1, <1>2, <1>4, HeapFields, HeapTyped
<1>6. \A e : Walking(t, e) = Walking(h, e)
  BY <1>2 DEF Walking
<1>7. /\ Popping(t) = Popping(h) /\ Freeing(t) = Freeing(h) /\ Embedded(t) = Embedded(h)
      /\ LiveCells(t) = LiveCells(h) /\ CellFields(t) = CellFields(h)
  BY <1>2, <1>6 DEF Popping, Freeing, Embedded, LiveCells, CellFields
<1>8. WalksOK(t)
  BY <1>2, <1>6, <1>7 DEF Structure, WalksOK, OneReclaim
<1>9. HostsOK(t)
  <2>1. \A g \in Globals : t.field[g] = h.field[g]
    BY <1>1, <1>4, Kinds
  <2>. QED
    BY <1>2, <1>7, <2>1 DEF Structure, HostsOK
<1>10. BitsOK(t) /\ SlabOK(t, {})
  BY <1>2, <1>7 DEF Structure, BitsOK, SlabOK
<1>11. Structure(t, {})
  BY <1>5, <1>8, <1>9, <1>10 DEF Structure
<1>12. OwnedFields(t) = OwnedFields(h)
  BY <1>2, <1>7 DEF OwnedFields, Owners, Released
<1>13. o \notin Freeing(h) \cup Popping(h)
  BY <1>1 DEF Counted, Structure, WalksOK
<1>14. <<o, i>> \in OwnedFields(h)
  BY <1>1, <1>13, NotReleased DEF OwnedFields, Owners
<1>15. OwnedFields(h) \subseteq Objects \X Fields
  <2>1. Owners(h) \subseteq Objects
    BY <1>1, StructureFacts, Kinds DEF Owners, Structure, WalksOK
  <2>. QED
    BY <2>1 DEF OwnedFields
<1>16. StoredAt(h, t, o, i, v)
  <2>1. ASSUME NEW s \in OwnedFields(h) \ {<<o, i>>}
        PROVE  t.field[s[1]][s[2]] = h.field[s[1]][s[2]]
    <3>1. PICK q \in Objects, j \in Fields : s = <<q, j>>
      BY <1>15
    <3>2. q # o \/ j # i
      BY <3>1
    <3>. QED
      BY <1>4, <3>1, <3>2
  <2>. QED
    BY <1>4, <1>12, <1>14, <2>1 DEF StoredAt
<1>17. SameReferable(h, t) /\ SameCounts(h, t, Counted(h))
  BY <1>2, <1>7 DEF SameReferable, SameCounts, Counted, Refcount
<1>18. Refs(t, d, h.field[o][i])
  BY <1>1, <1>16, <1>17, RefsStored
<1>. QED
  BY <1>7, <1>11, <1>18

\* The top walk, when it reclaims its object, has released the fields before its next one.
LEMMA TopReleased ==
  ASSUME NEW h, h.walks \in Seq(Frames), h.walks # <<>>, OneReclaim(h),
         TopOf(h).then # "return", NEW i
  PROVE  Released(h, TopOf(h).obj, i) <=> i < TopOf(h).next
<1>1. Len(h.walks) \in DOMAIN h.walks
  BY TopFrame
<1>. QED
  BY <1>1 DEF Released, OneReclaim, TopOf

\* The walk goes on to its next field: the program owes the release of what it refers to.
LEMMA AdvanceStep ==
  ASSUME NEW h, Structure(h, {}), NEW d, Refs(h, d, Null), h.walks # <<>>,
         h.has_fields[TopOf(h).obj], TopOf(h).next <= NumFields,
         NEW t, t = [h EXCEPT !.walks[Len(h.walks)].next = @ + 1]
  PROVE  /\ Structure(t, {}) /\ Popping(t) = Popping(h)
         /\ Refs(t, d, h.field[TopOf(h).obj][TopOf(h).next])
<1>. DEFINE o == TopOf(h).obj
            i == TopOf(h).next
<1>1. /\ h \in HeapType /\ h.walks \in Seq(Frames)
      /\ Counted(h) \subseteq Objects /\ Null \notin Counted(h) /\ IsFiniteSet(OwnedFields(h))
  BY StructureFacts
<1>2. /\ TopOf(h) \in Frames /\ o \in Walking(h, TopOf(h).then) /\ OneReclaim(h)
  BY <1>1, TopFrame DEF Structure, WalksOK
<1>3. TopOf(h).then \in Endings /\ i \in Fields
  <2>1. TopOf(h).then \in Endings /\ i \in 1..(NumFields + 1)
    BY <1>2 DEF Frames
  <2>. QED
    BY <2>1, RefCountAssumption DEF Fields
<1>4. /\ IsHeap(t)
      /\ t.slab = h.slab /\ t.refcount = h.refcount
      /\ t.ctrc_bit = h.ctrc_bit /\ t.has_fields = h.has_fields /\ t.field = h.field
      /\ t.live = h.live
  BY <1>1 DEF HeapType, IsHeap
<1>5. AdvancedWalk(h, t)
  BY <1>1 DEF HeapType, AdvancedWalk
<1>6. WalkAdvanced(h, t)
  BY <1>1, <1>5, WalkAdvance
<1>7. /\ Popping(t) = Popping(h) /\ Freeing(t) = Freeing(h) /\ Embedded(t) = Embedded(h)
      /\ Walking(t, "return") = Walking(h, "return")
      /\ LiveCells(t) = LiveCells(h) /\ CellFields(t) = CellFields(h)
  <2>1. \A e : Walking(t, e) = Walking(h, e)
    BY <1>6 DEF WalkAdvanced
  <2>2. /\ Popping(t) = Popping(h) /\ Freeing(t) = Freeing(h)
        /\ Walking(t, "return") = Walking(h, "return")
    BY <2>1 DEF Popping, Freeing
  <2>. QED
    BY <1>4, <2>2 DEF Embedded, LiveCells, CellFields
<1>8. t \in HeapType
  <2>1. t.walks \in Seq(Frames)
    BY <1>6 DEF WalkAdvanced
  <2>. QED
    BY <1>1, <1>4, <2>1, HeapFields, HeapTyped
<1>9. WalksOK(t)
  BY <1>2, <1>4, <1>6, <1>7 DEF WalkAdvanced, Structure, WalksOK
<1>10. HostsOK(t) /\ BitsOK(t) /\ SlabOK(t, {})
  BY <1>4, <1>7 DEF Structure, HostsOK, BitsOK, SlabOK
<1>11. Structure(t, {})
  BY <1>8, <1>9, <1>10 DEF Structure
<1>12. Owners(t) = Owners(h)
  BY <1>4, <1>7 DEF Owners
<1>13. SameReferable(h, t) /\ SameCounts(h, t, Counted(h))
  BY <1>4, <1>7 DEF SameReferable, SameCounts, Counted, Refcount
<1>14. CASE TopOf(h).then = "return"
  <2>1. o \in Embedded(h)
    BY <1>2, <1>14 DEF Structure, WalksOK
  <2>2. h.field[o][i] = HostField[o][i] /\ HostField[o][i] \in Embedded(h) \cup {Null}
    BY <1>3, <2>1 DEF Structure, HostsOK, Embedded
  <2>3. h.field[o][i] \in Referable(h) \ Counted(h)
    BY <1>1, <2>2 DEF Referable, Counted, Embedded
  <2>4. Refs(h, d, h.field[o][i])
    BY <1>1, <2>3, RefsUncounted
  <2>5. OwnedFields(t) = OwnedFields(h)
    BY <1>6, <1>12, <1>14 DEF WalkAdvanced, OwnedFields
  <2>6. SameOwned(h, t)
    BY <1>4, <2>5 DEF SameOwned
  <2>7. Refs(t, d, h.field[o][i])
    BY <1>13, <2>4, <2>6, RefsSame
  <2>. QED
    BY <1>7, <1>11, <2>7
<1>15. CASE TopOf(h).then # "return"
  <2>1. o \in Freeing(h) \cup Popping(h)
    BY <1>2, <1>3, <1>15 DEF Freeing, Popping, Endings
  <2>2. o \in Owners(h)
    BY <2>1 DEF Owners, Structure, WalksOK
  <2>3. ~Released(h, o, i)
    <3>1. ~(i < i)
      BY <1>3 DEF Fields
    <3>. QED
      BY <1>1, <1>2, <1>15, <3>1, TopReleased
  <2>4. <<o, i>> \in OwnedFields(h)
    BY <1>3, <2>2, <2>3 DEF OwnedFields
  <2>5. ASSUME NEW q \in Owners(h), NEW j \in Fields
        PROVE  <<q, j>> \in OwnedFields(t) <=> <<q, j>> \in OwnedFields(h) /\ <<q, j>> # <<o, i>>
    BY <1>6, <1>12, <1>15 DEF WalkAdvanced, OwnedFields
  <2>6. OwnedFields(t) = OwnedFields(h) \ {<<o, i>>}
    <3>1. /\ OwnedFields(t) \subseteq Owners(h) \X Fields
          /\ OwnedFields(h) \subseteq Owners(h) \X Fields
      BY <1>12 DEF OwnedFields
    <3>. QED
      BY <2>5, <3>1
  <2>. HIDE DEF o, i
  <2>7. OwedFrom(h, t, o, i)
    BY <1>4, <2>4, <2>6 DEF OwedFrom
  <2>8. Refs(t, d, h.field[o][i])
    BY <1>1, <1>13, <2>7, RefsOwed
  <2>. QED
    BY <1>7, <1>11, <2>8 DEF o, i
<1>. QED
  BY <1>14, <1>15

\* t is h with the new object o, which the program that holds d holds once.
Born(h, d, o, t) ==
    /\ Structure(t, {}) /\ Popping(t) = Popping(h)
    /\ Refs(t, [d EXCEPT ![o] = d[o] + 1], Null)

\* A new object, or a recycled cell, is held once and refers to nothing.
LEMMA Birth ==
  ASSUME NEW h, NEW d, Refs(h, d, Null), NEW o \in HeapSlots \cup Cells,
         Structure(h, {o} \cap Cells), o \notin h.live \cup Popping(h),
         NEW m \in BOOLEAN, m <=> o \in Cells, NEW w \in BOOLEAN,
         NEW t, t = object_header_init(h, o, m, w)
  PROVE  Born(h, d, o, t)
<1>. DEFINE P == {o} \cap Cells
            L == LiveCells(h) \cup Popping(h) \cup P
<1>1. /\ h \in HeapType /\ o \in Objects /\ o \notin Globals /\ h.walks \in Seq(Frames)
      /\ Counted(h) \subseteq h.live /\ h.live \subseteq Objects /\ Null \notin Objects
      /\ Counted(h) \subseteq Objects
      /\ OnDropList(h.slab) \subseteq Cells \ L
  BY StructureFacts, Kinds
<1>2. /\ IsHeap(t)
      /\ t.slab = IF o \in Cells THEN Written(h.slab, o, 1) ELSE h.slab
      /\ t.refcount = IF o \in Cells THEN h.refcount ELSE [h.refcount EXCEPT ![o] = 1]
      /\ t.ctrc_bit = [h.ctrc_bit EXCEPT ![o] = m]
      /\ t.has_fields = [h.has_fields EXCEPT ![o] = w]
      /\ t.field = [h.field EXCEPT ![o] = NoFields]
      /\ t.live = h.live \cup {o} /\ t.walks = h.walks
  <2>1. AfterInit(h, o, m, w, t)
    BY <1>1, InitFields
  <2>. QED
    BY <2>1 DEF AfterInit
<1>3. /\ h.refcount \in [HeapSlots \cup Globals -> Nat]
      /\ h.ctrc_bit \in [Objects -> BOOLEAN] /\ h.has_fields \in [Objects -> BOOLEAN]
      /\ h.field \in [Objects -> [Fields -> Objects \cup {Null}]]
      /\ NoFields \in [Fields -> Objects \cup {Null}]
  BY <1>1, HeapFields DEF NoFields
<1>4. /\ t.ctrc_bit \in [Objects -> BOOLEAN] /\ t.has_fields \in [Objects -> BOOLEAN]
      /\ t.field \in [Objects -> [Fields -> Objects \cup {Null}]]
      /\ t.ctrc_bit[o] = m /\ t.has_fields[o] = w /\ t.field[o] = NoFields
      /\ \A q \in Objects \ {o} : /\ t.ctrc_bit[q] = h.ctrc_bit[q]
                                  /\ t.has_fields[q] = h.has_fields[q]
                                  /\ t.field[q] = h.field[q]
  BY <1>1, <1>2, <1>3
<1>5. /\ t.refcount \in [HeapSlots \cup Globals -> Nat]
      /\ o \notin Cells => t.refcount[o] = 1
      /\ \A q \in (HeapSlots \cup Globals) \ {o} : t.refcount[q] = h.refcount[q]
  BY <1>1, <1>2, <1>3
<1>6. /\ CellFields(t) \in [Cells -> BOOLEAN]
      /\ OtherFields(CellFields(t), CellFields(h), o)
      /\ o \notin Cells => CellFields(t) = CellFields(h)
  BY <1>4, Kinds DEF CellFields, OtherFields
<1>7. /\ Good(t.slab, L, CellFields(t)) /\ OnDropList(t.slab) = OnDropList(h.slab)
      /\ o \in Cells => t.slab.refcount[o] = 1
      /\ \A c \in Cells \ {o} : t.slab.refcount[c] = h.slab.refcount[c]
  <2>1. Good(h.slab, L, CellFields(h))
    BY DEF Structure, SlabOK
  <2>2. CASE o \in Cells
    <3>1. o \in L /\ 1 \in Nat
      BY <2>2
    <3>. HIDE DEF L
    <3>. QED
      BY <1>2, <1>6, <2>1, <2>2, <3>1, GoodWrite
  <2>3. CASE o \notin Cells
    BY <1>2, <1>6, <2>1, <2>3
  <2>. QED
    BY <2>2, <2>3
<1>8. t \in HeapType
  <2>1. t.slab \in SlabType
    BY <1>7 DEF Good
  <2>2. t.live \in SUBSET Objects /\ t.walks \in Seq(Frames)
    BY <1>1, <1>2
  <2>. QED
    BY <1>2, <1>4, <1>5, <2>1, <2>2, HeapTyped
<1>9. \A e : Walking(t, e) = Walking(h, e)
  BY <1>2 DEF Walking
<1>10. /\ Popping(t) = Popping(h) /\ Freeing(t) = Freeing(h) /\ Embedded(t) = Embedded(h)
       /\ LiveCells(t) = LiveCells(h) \cup P
  BY <1>1, <1>2, <1>9 DEF Popping, Freeing, Embedded, LiveCells
<1>11. o \notin Freeing(h) \cup Popping(h)
  BY DEF Structure, WalksOK
<1>12. WalksOK(t)
  <2>1. Popping(t) \subseteq {c \in Cells \ t.live : t.has_fields[c]}
    <3>1. Popping(h) \subseteq {c \in Cells \ h.live : h.has_fields[c]}
      BY DEF Structure, WalksOK
    <3>2. Popping(t) \subseteq Cells \ t.live
      BY <1>2, <1>10, <1>11, <3>1
    <3>3. \A c \in Popping(t) : t.has_fields[c]
      BY <1>4, <1>10, <1>11, <3>1, Kinds
    <3>. QED
      BY <3>2, <3>3
  <2>. QED
    BY <1>2, <1>9, <1>10, <2>1 DEF Structure, WalksOK, OneReclaim
<1>13. HostsOK(t)
  <2>1. \A g \in Globals : /\ t.field[g] = h.field[g] /\ t.has_fields[g] = h.has_fields[g]
                           /\ t.refcount[g] = h.refcount[g]
    BY <1>1, <1>4, <1>5, Kinds
  <2>. QED
    BY <1>10, <2>1 DEF Structure, HostsOK
<1>14. BitsOK(t)
  BY <1>1, <1>2, <1>4 DEF Structure, BitsOK
<1>15. SlabOK(t, {})
  <2>1. L = LiveCells(t) \cup Popping(t) \cup {}
    BY <1>10
  <2>. QED
    BY <1>7, <2>1 DEF SlabOK
<1>16. Structure(t, {})
  BY <1>8, <1>12, <1>13, <1>14, <1>15 DEF Structure
<1>17. o \notin Owners(h) /\ Owners(h) \subseteq Objects
  <2>1. o \notin OnDropList(h.slab)
    BY <1>1
  <2>2. Popping(h) \subseteq Objects /\ OnDropList(h.slab) \subseteq Objects
    BY <1>1, Kinds DEF Structure, WalksOK
  <2>. QED
    BY <1>1, <1>11, <2>1, <2>2 DEF Owners
<1>18. Owners(t) = Owners(h) \cup (IF w THEN {o} ELSE {})
  BY <1>1, <1>2, <1>4, <1>7, <1>10, <1>17 DEF Owners
<1>19. \A q, j : Released(t, q, j) <=> Released(h, q, j)
  BY <1>2 DEF Released
<1>20. WithNulls(h, t)
  <2>1. OwnedFields(h) \subseteq OwnedFields(t)
    BY <1>18, <1>19 DEF OwnedFields
  <2>2. \A s \in OwnedFields(h) : t.field[s[1]][s[2]] = h.field[s[1]][s[2]]
    BY <1>4, <1>17 DEF OwnedFields
  <2>3. ASSUME NEW s \in OwnedFields(t) \ OwnedFields(h)
        PROVE  t.field[s[1]][s[2]] = Null
    <3>1. s[1] = o /\ s[2] \in Fields
      BY <1>18, <1>19 DEF OwnedFields
    <3>. QED
      BY <1>4, <3>1 DEF NoFields
  <2>. QED
    BY <2>1, <2>2, <2>3 DEF WithNulls
<1>21. Counted(t) = Counted(h) \cup {o} /\ o \notin Referable(h)
  BY <1>1, <1>2, <1>10, <1>11 DEF Counted, Referable, Embedded
<1>22. Refcount(t, o) = 1 /\ SameCounts(h, t, Counted(h))
  <2>1. Refcount(t, o) = 1
    BY <1>5, <1>7 DEF Refcount
  <2>2. SameCounts(h, t, Counted(h))
    <3>1. Counted(h) \subseteq (HeapSlots \cup Cells) \ {o}
      BY <1>1, StructureFacts
    <3>. QED
      BY <1>5, <1>7, <3>1 DEF SameCounts, Refcount
  <2>. QED
    BY <2>1, <2>2
<1>23. IsFiniteSet(OwnedFields(t))
  BY <1>16, StructureFacts
<1>24. Refs(t, [d EXCEPT ![o] = d[o] + 1], Null)
  BY <1>1, <1>10, <1>20, <1>21, <1>22, <1>23, RefsBorn
<1>. QED
  BY <1>10, <1>16, <1>24 DEF Born

\* The heap with another slab
WithSlab(h, s) == [h EXCEPT !.slab = s]

\* Another slab, part by part.
LEMMA SlabFields ==
  ASSUME NEW h \in HeapType, NEW s, NEW t, t = WithSlab(h, s)
  PROVE  /\ IsHeap(t)
         /\ t.slab = s /\ t.refcount = h.refcount
         /\ t.ctrc_bit = h.ctrc_bit /\ t.has_fields = h.has_fields /\ t.field = h.field
         /\ t.live = h.live /\ t.walks = h.walks
BY DEF HeapType, IsHeap, WithSlab

\* A slab with the same drop lists and the same refcounts, for the same owners
LEMMA SlabStep ==
  ASSUME NEW h, Structure(h, {}), NEW d, Refs(h, d, Null), NEW s, NEW P,
         Good(s, LiveCells(h) \cup Popping(h) \cup P, CellFields(h)),
         OnDropList(s) = OnDropList(h.slab), s.refcount = h.slab.refcount,
         NEW t, t = WithSlab(h, s)
  PROVE  Structure(t, P) /\ Refs(t, d, Null) /\ SameView(h, t) /\ Popping(t) = Popping(h)
<1>1. h \in HeapType
  BY StructureFacts
<1>2. /\ IsHeap(t)
      /\ t.slab = s /\ t.refcount = h.refcount
      /\ t.ctrc_bit = h.ctrc_bit /\ t.has_fields = h.has_fields /\ t.field = h.field
      /\ t.live = h.live /\ t.walks = h.walks
  BY <1>1, SlabFields
<1>3. SameShape(h, t) /\ SameView(h, t)
  BY <1>2 DEF SameShape, SameView
<1>4. t \in HeapType
  <2>1. s \in SlabType
    BY DEF Good
  <2>. QED
    BY <1>1, <1>2, <2>1, HeapFields, HeapTyped
<1>5. /\ SameOwned(h, t) /\ SameReferable(h, t)
      /\ LiveCells(t) = LiveCells(h) /\ Popping(t) = Popping(h)
  BY <1>3, ViewSame DEF Popping
<1>6. WalksOK(t) /\ HostsOK(t) /\ BitsOK(t) /\ CellFields(t) = CellFields(h)
  BY <1>3, <1>4, ShapeKept
<1>7. Structure(t, P)
  BY <1>2, <1>4, <1>5, <1>6 DEF Structure, SlabOK
<1>8. SameCounts(h, t, Counted(h))
  BY <1>2 DEF SameCounts, Refcount
<1>9. Refs(t, d, Null)
  BY <1>5, <1>8, RefsSame
<1>. QED
  BY <1>3, <1>5, <1>7, <1>9

\* reserve adds cells and touches no other.
LEMMA ReserveStep ==
  ASSUME NEW h, Structure(h, {}), NEW d, Refs(h, d, Null), NEW n \in Nat, NEW m \in BOOLEAN,
         NEW t, t = WithSlab(h, reserve(h.slab, n, m))
  PROVE  Structure(t, {}) /\ Refs(t, d, Null) /\ Popping(t) = Popping(h)
<1>. DEFINE s == reserve(h.slab, n, m)
            L == LiveCells(h) \cup Popping(h) \cup {}
<1>1. Good(h.slab, L, CellFields(h))
  BY DEF Structure, SlabOK
<1>. HIDE DEF L
<1>2. /\ Good(s, L, CellFields(h))
      /\ OnDropList(s) = OnDropList(h.slab) /\ s.refcount = h.slab.refcount
  BY <1>1, GoodReserve
<1>3. Good(s, LiveCells(h) \cup Popping(h) \cup {}, CellFields(h)) /\ t = WithSlab(h, s)
  BY <1>2 DEF L
<1>. HIDE DEF s
<1>. QED
  BY <1>2, <1>3, SlabStep

\* A pop that does not come from the drop list leaves the cell to the allocation.
LEMMA PopStructure ==
  ASSUME NEW h, Structure(h, {}), NEW d, Refs(h, d, Null), h.slab.last_page # NoPage,
         Popped(h.slab).source # "drop", NEW c, c = Popped(h.slab).cell,
         NEW t, t = WithSlab(h, pop_free(h.slab))
  PROVE  /\ c \in Cells /\ c \notin t.live \cup Popping(t)
         /\ Structure(t, {c}) /\ Refs(t, d, Null) /\ Popping(t) = Popping(h)
<1>. DEFINE s == pop_free(h.slab)
            L == LiveCells(h) \cup Popping(h) \cup {}
<1>1. Good(h.slab, L, CellFields(h))
  BY DEF Structure, SlabOK
<1>2. L = LiveCells(h) \cup Popping(h)
  OBVIOUS
<1>. HIDE DEF L
<1>3. /\ Good(s, L \cup {c}, CellFields(h))
      /\ c \in Available(h.slab)
      /\ OnDropList(s) = OnDropList(h.slab) \ {c}
      /\ Popped(h.slab).source = "drop" <=> c \in OnDropList(h.slab)
      /\ s.refcount = h.slab.refcount
  BY <1>1, GoodPop
<1>4. OnDropList(s) = OnDropList(h.slab) /\ t = WithSlab(h, s)
  BY <1>3
<1>5. c \in Cells /\ c \notin L
  BY <1>1, <1>3, GoodCells
<1>. HIDE DEF s
<1>6. Good(s, LiveCells(h) \cup Popping(h) \cup {c}, CellFields(h))
  BY <1>2, <1>3
<1>7. Structure(t, {c}) /\ Refs(t, d, Null) /\ SameView(h, t) /\ Popping(t) = Popping(h)
  BY <1>3, <1>4, <1>6, SlabStep
<1>8. c \notin t.live \cup Popping(t)
  BY <1>2, <1>5, <1>7 DEF SameView, LiveCells
<1>. QED
  BY <1>5, <1>7, <1>8

\* A cell popped from the drop list keeps its fields until the walk over them is over.
LEMMA RecycleStep ==
  ASSUME NEW h, Structure(h, {}), NEW d, Refs(h, d, Null), h.slab.last_page # NoPage,
         Popped(h.slab).source = "drop", NEW c, c = Popped(h.slab).cell, NEW w \in BOOLEAN,
         NEW t, t = Push(WithSlab(h, pop_free(h.slab)), Frame(c, "recycle", w))
  PROVE  Structure(t, {}) /\ Refs(t, d, Null)
<1>. DEFINE s == pop_free(h.slab)
            u == WithSlab(h, s)
            L == LiveCells(h) \cup Popping(h) \cup {}
            f == Frame(c, "recycle", w)
<1>1. /\ h \in HeapType /\ h.walks \in Seq(Frames)
      /\ Good(h.slab, L, CellFields(h)) /\ L = LiveCells(h) \cup Popping(h)
  BY StructureFacts DEF Structure, SlabOK
<1>2. /\ IsHeap(u)
      /\ u.slab = s /\ u.refcount = h.refcount
      /\ u.ctrc_bit = h.ctrc_bit /\ u.has_fields = h.has_fields /\ u.field = h.field
      /\ u.live = h.live /\ u.walks = h.walks
  BY <1>1, SlabFields
<1>. HIDE DEF L
<1>3. /\ Good(s, L \cup {c}, CellFields(h))
      /\ c \in Available(h.slab)
      /\ OnDropList(s) = OnDropList(h.slab) \ {c}
      /\ Popped(h.slab).source = "drop" <=> c \in OnDropList(h.slab)
      /\ s.refcount = h.slab.refcount
  <2>. DEFINE F == CellFields(h)
              r == h.slab
  <2>1. Good(r, L, F) /\ r.last_page # NoPage /\ c = Popped(r).cell /\ s = pop_free(r)
    BY <1>1
  <2>. HIDE DEF s, F, r
  <2>2. /\ Good(s, L \cup {c}, F)
        /\ c \in Available(r)
        /\ OnDropList(s) = OnDropList(r) \ {c}
        /\ Popped(r).source = "drop" <=> c \in OnDropList(r)
        /\ s.refcount = r.refcount
    BY <2>1, GoodPop
  <2>. QED
    BY <2>2 DEF F, r
<1>4. c \in Cells /\ c \notin L /\ h.has_fields[c]
  <2>1. c \in Cells /\ c \notin L
    BY <1>1, <1>3, GoodCells
  <2>2. CellFields(h)[c]
    BY <1>1, <1>3 DEF Good
  <2>. QED
    BY <2>1, <2>2 DEF CellFields
<1>5. c \notin h.live /\ c \notin Popping(h) /\ c \notin Freeing(h) /\ c \in Objects
  BY <1>1, <1>4, Kinds DEF LiveCells, Structure, WalksOK
<1>6. f \in Frames /\ f.next = 1 /\ f.then = "recycle" /\ f.obj = c
  BY <1>5, RefCountAssumption DEF Frame, Frames, Endings
<1>. HIDE DEF s, f
<1>7. u \in HeapType
  <2>1. s \in SlabType
    BY <1>3 DEF Good
  <2>. QED
    BY <1>1, <1>2, <2>1, HeapFields, HeapTyped
<1>8. t = Push(u, f)
  BY DEF s, f
<1>. HIDE DEF u
<1>9. /\ IsHeap(t)
      /\ t.slab = s /\ t.refcount = h.refcount
      /\ t.ctrc_bit = h.ctrc_bit /\ t.has_fields = h.has_fields /\ t.field = h.field
      /\ t.live = h.live /\ t.walks = Append(h.walks, f)
  <2>1. AfterPush(u, f, t)
    BY <1>7, <1>8, PushFields
  <2>. QED
    BY <1>2, <2>1 DEF AfterPush
<1>10. WalkPushed(h, t, f)
  <2>1. PushedWalk(h, t, f)
    BY <1>9 DEF PushedWalk
  <2>. QED
    BY <1>1, <1>6, <2>1, WalkPush
<1>11. \A e : Walking(t, e) = Walking(h, e) \cup (IF f.then = e THEN {f.obj} ELSE {})
  BY <1>10 DEF WalkPushed
<1>12. /\ Popping(t) = Popping(h) \cup {c} /\ Freeing(t) = Freeing(h)
       /\ Walking(t, "return") = Walking(h, "return")
       /\ Embedded(t) = Embedded(h) /\ LiveCells(t) = LiveCells(h) /\ CellFields(t) = CellFields(h)
  <2>1. Popping(t) = Popping(h) \cup {c}
    BY <1>6, <1>11 DEF Popping
  <2>2. f.then # "free" /\ f.then # "return"
    BY <1>6
  <2>3. Walking(t, "free") = Walking(h, "free") /\ Walking(t, "return") = Walking(h, "return")
    <3>1. /\ Walking(t, "free") = Walking(h, "free") \cup (IF f.then = "free" THEN {f.obj} ELSE {})
          /\ Walking(t, "return")
               = Walking(h, "return") \cup (IF f.then = "return" THEN {f.obj} ELSE {})
      BY <1>11, ZenonT(30)
    <3>. QED
      BY <2>2, <3>1
  <2>4. Freeing(t) = Freeing(h)
    BY <2>3 DEF Freeing
  <2>. QED
    BY <1>9, <2>1, <2>3, <2>4 DEF Embedded, LiveCells, CellFields
<1>13. OneReclaim(t)
  BY <1>5, <1>6, <1>10 DEF WalkPushed, Structure, WalksOK
<1>14. WalksOK(t)
  BY <1>4, <1>5, <1>9, <1>12, <1>13 DEF Structure, WalksOK
<1>15. t \in HeapType
  <2>1. t.walks \in Seq(Frames) /\ t.slab \in SlabType
    BY <1>2, <1>7, <1>9, <1>10, HeapFields DEF WalkPushed
  <2>. QED
    BY <1>1, <1>9, <2>1, HeapFields, HeapTyped
<1>16. SlabOK(t, {})
  <2>1. L \cup {c} = LiveCells(t) \cup Popping(t) \cup {}
    BY <1>1, <1>12
  <2>. QED
    BY <1>3, <1>9, <1>12, <2>1 DEF SlabOK
<1>17. HostsOK(t) /\ BitsOK(t)
  BY <1>9, <1>12 DEF Structure, HostsOK, BitsOK
<1>18. Structure(t, {})
  BY <1>14, <1>15, <1>16, <1>17 DEF Structure
<1>19. Owners(t) = Owners(h)
  <2>1. t.live \cup OnDropList(t.slab) \cup Popping(t)
          = h.live \cup OnDropList(h.slab) \cup Popping(h)
    BY <1>3, <1>9, <1>12
  <2>. QED
    BY <1>9, <2>1 DEF Owners
<1>20. SameOwned(h, t)
  <2>1. OwnedFields(t) = OwnedFields(h)
    BY <1>10, <1>19 DEF WalkPushed, OwnedFields
  <2>. QED
    BY <1>9, <2>1 DEF SameOwned
<1>21. SameReferable(h, t) /\ SameCounts(h, t, Counted(h))
  BY <1>3, <1>9, <1>12 DEF SameReferable, SameCounts, Counted, Refcount
<1>22. Refs(t, d, Null)
  BY <1>20, <1>21, RefsSame
<1>. QED
  BY <1>18, <1>22

\* t is h at the end of its top walk; only a walk that frees its object changes the live ones.
Finished(h, t) ==
    /\ IsHeap(t)
    /\ t.slab = h.slab /\ t.refcount = h.refcount
    /\ t.ctrc_bit = h.ctrc_bit /\ t.has_fields = h.has_fields /\ t.field = h.field
    /\ PoppedWalk(h, t)
    /\ t.live = h.live \ (IF TopOf(h).then = "free" THEN {TopOf(h).obj} ELSE {})

\* The walked object owns no field any more: it can be freed, or handed out.
LEMMA EndStep ==
  ASSUME NEW h, Structure(h, {}), NEW d, Refs(h, d, Null), h.walks # <<>>,
         h.has_fields[TopOf(h).obj] => TopOf(h).next > NumFields,
         NEW t, Finished(h, t)
  PROVE  /\ Structure(t, IF TopOf(h).then = "recycle" THEN {TopOf(h).obj} ELSE {})
         /\ Refs(t, d, Null) /\ Popping(t) \subseteq Popping(h)
         /\ TopOf(h).then = "recycle" =>
              /\ TopOf(h).obj \in Cells /\ TopOf(h).obj \in Popping(h)
              /\ TopOf(h).obj \notin t.live \cup Popping(t)
<1>. DEFINE f == TopOf(h)
            o == f.obj
<1>1. /\ h \in HeapType /\ h.walks \in Seq(Frames)
      /\ h.live \subseteq Objects /\ IsFiniteSet(OwnedFields(h))
      /\ OnDropList(h.slab) \subseteq Cells \ (LiveCells(h) \cup Popping(h) \cup {})
  BY StructureFacts
<1>2. f \in Frames /\ o \in Walking(h, f.then) /\ OneReclaim(h)
  BY <1>1, TopFrame DEF Structure, WalksOK
<1>3. f.then \in Endings /\ f.next \in Nat
  <2>1. f.then \in Endings /\ f.next \in 1..(NumFields + 1)
    BY <1>2 DEF Frames
  <2>. QED
    BY <2>1, RefCountAssumption
<1>4. WalkPopped(h, t)
  BY <1>1, <1>2, WalkPop DEF Finished
<1>5. \A i \in Fields : f.then # "return" /\ h.has_fields[o] => Released(h, o, i)
  <2>1. \A i \in Fields : h.has_fields[o] => i < f.next
    BY <1>3, RefCountAssumption DEF Fields
  <2>. QED
    BY <1>1, <1>2, <2>1, TopReleased
<1>6. /\ IsHeap(t)
      /\ t.slab = h.slab /\ t.refcount = h.refcount
      /\ t.ctrc_bit = h.ctrc_bit /\ t.has_fields = h.has_fields /\ t.field = h.field
      /\ t.live = h.live \ (IF f.then = "free" THEN {o} ELSE {})
  BY DEF Finished
<1>7. /\ f.then = "free" => o \in HeapSlots \cap h.live /\ o \in Freeing(h)
      /\ f.then = "recycle" => o \in Cells \ h.live /\ o \in Popping(h)
  BY <1>2 DEF Structure, WalksOK, Freeing, Popping
<1>. HIDE DEF f, o
<1>8. /\ Freeing(t) = Freeing(h) \ (IF f.then = "free" THEN {o} ELSE {})
      /\ Popping(t) = Popping(h) \ (IF f.then = "recycle" THEN {o} ELSE {})
      /\ Walking(t, "return") \subseteq Walking(h, "return")
      /\ OneReclaim(t) /\ t.walks \in Seq(Frames)
  <2>1. \A e \in {"free", "recycle"} :
          Walking(t, e) = Walking(h, e) \ (IF f.then = e THEN {o} ELSE {})
    BY <1>4 DEF WalkPopped, f, o
  <2>2. Walking(t, "return") \subseteq Walking(h, "return")
        /\ OneReclaim(t) /\ t.walks \in Seq(Frames)
    BY <1>4 DEF WalkPopped, Endings
  <2>. QED
    BY <2>1, <2>2 DEF Freeing, Popping
<1>9. \A q : \A i \in Fields :
        Released(t, q, i) <=> Released(h, q, i) /\ ~(f.then # "return" /\ q = o)
  BY <1>4 DEF WalkPopped, f, o
<1>10. /\ Embedded(t) = Embedded(h) /\ LiveCells(t) = LiveCells(h)
       /\ CellFields(t) = CellFields(h)
  BY <1>6, <1>7, Kinds DEF Embedded, LiveCells, CellFields
<1>11. t \in HeapType
  BY <1>1, <1>6, <1>8, HeapFields, HeapTyped
<1>12. WalksOK(t)
  <2>1. Freeing(t) \subseteq HeapSlots \cap t.live
    BY <1>6, <1>8 DEF Structure, WalksOK
  <2>2. Popping(t) \subseteq {c \in Cells \ t.live : t.has_fields[c]}
    BY <1>6, <1>8 DEF Structure, WalksOK
  <2>. QED
    BY <1>8, <1>10, <2>1, <2>2 DEF Structure, WalksOK
<1>13. HostsOK(t) /\ BitsOK(t)
  BY <1>6, <1>10 DEF Structure, HostsOK, BitsOK
<1>. DEFINE P == IF f.then = "recycle" THEN {o} ELSE {}
<1>14. SlabOK(t, P)
  <2>1. LiveCells(t) \cup Popping(t) \cup P = LiveCells(h) \cup Popping(h) \cup {}
    BY <1>7, <1>8, <1>10
  <2>. QED
    BY <1>6, <1>10, <2>1 DEF Structure, SlabOK
<1>15. Structure(t, P)
  BY <1>11, <1>12, <1>13, <1>14 DEF Structure
<1>16. ASSUME NEW q, q # o \/ f.then = "return"
       PROVE  q \in Owners(t) <=> q \in Owners(h)
  BY <1>3, <1>6, <1>8, <1>16 DEF Owners, Endings
<1>17. f.then # "return" => o \notin Owners(t)
  <2>1. CASE f.then = "free"
    BY <1>1, <1>6, <1>7, <1>8, <2>1, Kinds DEF Owners, Structure, WalksOK
  <2>2. CASE f.then = "recycle"
    BY <1>1, <1>6, <1>7, <1>8, <2>2 DEF Owners
  <2>. QED
    BY <1>3, <2>1, <2>2 DEF Endings
<1>18. ASSUME NEW q, NEW i \in Fields
       PROVE  <<q, i>> \in OwnedFields(t) <=> <<q, i>> \in OwnedFields(h)
  <2>1. CASE q # o \/ f.then = "return"
    BY <1>9, <1>16, <2>1 DEF OwnedFields
  <2>2. CASE q = o /\ f.then # "return"
    <3>1. <<o, i>> \notin OwnedFields(t)
      BY <1>17, <2>2 DEF OwnedFields
    <3>2. <<o, i>> \notin OwnedFields(h)
      BY <1>5, <2>2 DEF OwnedFields, Owners
    <3>. QED
      BY <2>2, <3>1, <3>2
  <2>. QED
    BY <2>1, <2>2
<1>19. SameOwned(h, t)
  <2>1. OwnedFields(t) = OwnedFields(h)
    <3>1. \A s \in OwnedFields(t) \cup OwnedFields(h) : \E i \in Fields : s = <<s[1], i>>
      BY DEF OwnedFields
    <3>. QED
      BY <1>18, <3>1
  <2>. QED
    BY <1>6, <2>1 DEF SameOwned
<1>20. SameReferable(h, t) /\ SameCounts(h, t, Counted(h))
  BY <1>6, <1>7, <1>8, <1>10 DEF SameReferable, SameCounts, Counted, Refcount
<1>21. Refs(t, d, Null)
  BY <1>19, <1>20, RefsSame
<1>. QED
  BY <1>6, <1>7, <1>8, <1>15, <1>21 DEF f, o

=============================================================================
