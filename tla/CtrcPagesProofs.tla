--------------------------- MODULE CtrcPagesProofs --------------------------
(***************************************************************************)
(* What defer_drop, pop_free and reserve do to a slab, for any page size,  *)
(* any number of pages and any requests.                                   *)
(*                                                                         *)
(* Each operation is first described field by field (DropStep, PopStep,    *)
(* GrowStep), then by what it does to the lists of one page, to the sets   *)
(* of cells, to the stack and to the count.  Good gathers what must be     *)
(* true of a slab, of the cells its clients own, and of their fields.      *)
(***************************************************************************)
EXTENDS CtrcPages, FiniteSetTheorems, WellFoundedInduction, TLAPS

-----------------------------------------------------------------------------
(* Linked lists: what pushing a cell, popping the head, and writing a link *)
(* elsewhere do to the set of elements of a list.  They hold for any links:*)
(* the free and drop lists of a page share the refcount words of its       *)
(* cells, and the page stack lies in the page headers.                     *)

\* A set of numbers has a least element.
LEMMA LeastNatural ==
  ASSUME NEW S \in SUBSET Nat, S # {}
  PROVE  \E m \in S : \A k \in S : m <= k
<1>. DEFINE R == OpToRel(<, Nat)
<1>1. \E m \in S : \A k \in S : <<k, m>> \notin R
  BY NatLessThanWellFounded, WFMin
<1>2. PICK m \in S : \A k \in S : <<k, m>> \notin R
  BY <1>1
<1>3. ASSUME NEW k \in S PROVE m <= k
  <2>1. m \in Nat /\ k \in Nat
    OBVIOUS
  <2>2. ~(k < m)
    BY <1>2, <2>1 DEF OpToRel
  <2>. QED
    BY <2>1, <2>2
<1>. QED
  BY <1>3

\* A list that stays within some set of elements is closed, and is the least such set.
LEMMA ListWithin ==
  ASSUME NEW next, NEW none, NEW first, NEW S \in SUBSET DOMAIN next,
         Closed(S, first, next, none)
  PROVE  /\ Following(first, next, none) \subseteq S
         /\ Closed(Following(first, next, none), first, next, none)
<1>. DEFINE L == Following(first, next, none)
<1>1. L \subseteq S
  BY DEF Following
<1>2. first \in L \cup {none}
  BY DEF Following, Closed
<1>3. ASSUME NEW i \in L PROVE next[i] \in L \cup {none}
  BY <1>1, <1>3 DEF Following, Closed
<1>. QED
  BY <1>1, <1>2, <1>3 DEF Closed

\* The empty list
LEMMA ListEmpty ==
  ASSUME NEW next, NEW none
  PROVE  Following(none, next, none) = {} /\ Ends(none, next, none)
<1>1. Closed({}, none, next, none)
  BY DEF Closed
<1>. QED
  BY <1>1, ListWithin DEF Ends

\* The last element of a list
LEMMA ListLast ==
  ASSUME NEW next, NEW none, NEW h \in DOMAIN next, next[h] = none
  PROVE  Following(h, next, none) \subseteq {h}
<1>1. Closed({h}, h, next, none)
  BY DEF Closed
<1>. QED
  BY <1>1, ListWithin

\* The head of a list that is not empty is on it.
LEMMA ListHead ==
  ASSUME NEW next, NEW none, NEW h, Ends(h, next, none), h # none
  PROVE  h \in Following(h, next, none) /\ h \in DOMAIN next
BY DEF Ends, Closed, Following

\* A list runs through the links of its members only.
LEMMA ListFrame ==
  ASSUME NEW next, NEW new, NEW none, NEW first, DOMAIN new = DOMAIN next,
         Ends(first, next, none),
         \A i \in Following(first, next, none) : new[i] = next[i]
  PROVE  /\ Following(first, new, none) = Following(first, next, none)
         /\ Ends(first, new, none)
<1>. DEFINE L == Following(first, next, none)
            M == Following(first, new, none)
<1>1. L \subseteq DOMAIN next /\ Closed(L, first, next, none)
  BY DEF Ends, Following
<1>2. Closed(L, first, new, none)
  BY <1>1 DEF Closed
<1>3. M \subseteq L /\ Closed(M, first, new, none)
  BY <1>1, <1>2, ListWithin
<1>4. Closed(M, first, next, none)
  BY <1>3 DEF Closed
<1>5. L \subseteq M
  BY <1>1, <1>3, <1>4, ListWithin
<1>. QED
  BY <1>3, <1>5 DEF Ends

\* An element that is not on a list and links to its head is the head of a longer list.
LEMMA ListCons ==
  ASSUME NEW next, NEW none, NEW h \in DOMAIN next, h # none,
         Ends(next[h], next, none), h \notin Following(next[h], next, none)
  PROVE  /\ Following(h, next, none) = {h} \cup Following(next[h], next, none)
         /\ Ends(h, next, none)
<1>. DEFINE L == Following(next[h], next, none)
            M == Following(h, next, none)
<1>1. L \subseteq DOMAIN next /\ Closed(L, next[h], next, none)
  BY DEF Ends, Following
<1>2. Closed({h} \cup L, h, next, none)
  BY <1>1 DEF Closed
<1>3. M \subseteq {h} \cup L /\ Closed(M, h, next, none)
  BY <1>1, <1>2, ListWithin
<1>4. h \in M /\ Closed(M, next[h], next, none)
  BY <1>3 DEF Closed
<1>5. L \subseteq M
  BY <1>1, <1>3, <1>4, ListWithin
<1>6. next[h] = none \/ \E i \in L : next[i] = none
  BY DEF Ends
<1>. QED
  BY <1>3, <1>4, <1>5, <1>6 DEF Ends

\* Pushing: a cell that is not on the list gets a link to the old head and becomes the head.
LEMMA ListPush ==
  ASSUME NEW next, NEW none, NEW first, NEW h \in DOMAIN next, h # none,
         Ends(first, next, none), h \notin Following(first, next, none),
         NEW new, DOMAIN new = DOMAIN next, new[h] = first,
         \A i \in DOMAIN next : i # h => new[i] = next[i]
  PROVE  /\ Following(h, new, none) = {h} \cup Following(first, next, none)
         /\ Ends(h, new, none)
<1>1. \A i \in Following(first, next, none) : new[i] = next[i]
  BY DEF Following
<1>2. /\ Following(first, new, none) = Following(first, next, none)
      /\ Ends(first, new, none)
  BY <1>1, ListFrame
<1>. QED
  BY <1>2, ListCons

\* The links after the numbers r + 1 to r + g are pushed on a list within 1..r
PushesRange(next, new, none, first, r, g) ==
    /\ Following(first, next, none) \subseteq 1..r
    /\ DOMAIN new = DOMAIN next /\ (r + 1)..(r + g) \subseteq DOMAIN next
    /\ none \notin (r + 1)..(r + g)
    /\ new[r + 1] = first
    /\ \A p \in (r + 2)..(r + g) : new[p] = p - 1
    /\ \A p \in 1..r : p \in DOMAIN next => new[p] = next[p]

\* Pushing the numbers r + 1 to r + g, one after the other
LEMMA ListPushRange ==
  ASSUME NEW next, NEW none, NEW first, NEW r \in Nat, NEW g \in Nat \ {0},
         Ends(first, next, none), NEW new, PushesRange(next, new, none, first, r, g)
  PROVE  /\ Following(r + g, new, none) = (r + 1)..(r + g) \cup Following(first, next, none)
         /\ Ends(r + g, new, none)
<1>. DEFINE L == Following(first, next, none)
            Pushed(j) == /\ Following(r + j, new, none) = (r + 1)..(r + j) \cup L
                         /\ Ends(r + j, new, none)
            S == {j \in 1..g : ~Pushed(j)}
<1>1. Following(first, new, none) = L /\ Ends(first, new, none)
  <2>1. \A i \in L : new[i] = next[i]
    BY DEF PushesRange, Following
  <2>. QED
    BY <2>1, ListFrame DEF PushesRange
<1>2. Pushed(1)
  <2>1. r + 1 \in DOMAIN new /\ r + 1 # none /\ r + 1 \notin L /\ new[r + 1] = first
    BY DEF PushesRange
  <2>2. Following(r + 1, new, none) = {r + 1} \cup L /\ Ends(r + 1, new, none)
    BY <1>1, <2>1, ListCons
  <2>. QED
    BY <2>2
<1>3. ASSUME NEW j \in 1..g, j + 1 \in 1..g, Pushed(j) PROVE Pushed(j + 1)
  <2>1. /\ r + (j + 1) \in DOMAIN new /\ r + (j + 1) # none
        /\ new[r + (j + 1)] = r + j /\ r + (j + 1) \notin (r + 1)..(r + j) \cup L
    BY <1>3 DEF PushesRange
  <2>2. /\ Following(r + (j + 1), new, none) = {r + (j + 1)} \cup ((r + 1)..(r + j) \cup L)
        /\ Ends(r + (j + 1), new, none)
    BY <1>3, <2>1, ListCons
  <2>3. {r + (j + 1)} \cup (r + 1)..(r + j) = (r + 1)..(r + (j + 1))
    OBVIOUS
  <2>. QED
    BY <2>2, <2>3
<1>. HIDE DEF Pushed
<1>4. S = {}
  <2>. SUFFICES ASSUME S # {} PROVE FALSE
    OBVIOUS
  <2>1. S \in SUBSET Nat
    OBVIOUS
  <2>2. PICK m \in S : \A k \in S : m <= k
    BY <2>1, LeastNatural
  <2>3. m # 1 /\ m - 1 \in 1..g /\ m - 1 \notin S /\ (m - 1) + 1 = m
    BY <1>2, <2>2
  <2>. QED
    BY <1>3, <2>2, <2>3
<1>. QED
  BY <1>4 DEF Pushed

\* Popping: the list behind the head is the list without it; the head does not come again,
\* because a list that came back to its head would never end.
LEMMA ListPop ==
  ASSUME NEW next, NEW none, none \notin DOMAIN next, NEW h, h # none, Ends(h, next, none)
  PROVE  /\ Following(next[h], next, none) = Following(h, next, none) \ {h}
         /\ Ends(next[h], next, none)
<1>. DEFINE R(i) == Following(i, next, none)
            L == R(h)
            k == next[h]
<1>1. h \in L /\ h \in DOMAIN next /\ L \subseteq DOMAIN next /\ Closed(L, h, next, none)
  BY ListHead DEF Ends, Following
<1>2. ASSUME NEW j \in L
      PROVE  /\ next[j] \in L \cup {none}
             /\ R(next[j]) \subseteq L
             /\ Closed(R(next[j]), next[j], next, none)
             /\ R(j) \subseteq {j} \cup R(next[j])
  <2>1. next[j] \in L \cup {none} /\ Closed(L, next[j], next, none)
    BY <1>1 DEF Closed
  <2>2. R(next[j]) \subseteq L /\ Closed(R(next[j]), next[j], next, none)
    BY <1>1, <2>1, ListWithin
  <2>3. Closed({j} \cup R(next[j]), j, next, none)
    BY <2>2 DEF Closed
  <2>4. R(j) \subseteq {j} \cup R(next[j])
    BY <1>1, <2>2, <2>3, ListWithin
  <2>. QED
    BY <2>1, <2>2, <2>4
<1>3. PICK e \in L : next[e] = none
  BY DEF Ends
<1>4. h \notin R(k)
  <2>. SUFFICES ASSUME h \in R(k) PROVE FALSE
    OBVIOUS
  <2>. DEFINE C == {j \in L : h \in R(j)}
  <2>1. k # none
    BY ListEmpty
  <2>2. h \in C
    BY <1>1
  <2>3. ASSUME NEW j \in C PROVE next[j] \in C
    <3>1. next[j] # none
      <4>1. CASE next[j] = none
        <5>1. h = j
          BY <1>1, <4>1, ListLast
        <5>. QED
          BY <2>1, <4>1, <5>1
      <4>. QED
        BY <4>1
    <3>2. h \in R(next[j])
      BY <1>2
    <3>. QED
      BY <1>2, <3>1, <3>2
  <2>4. Closed(C, h, next, none)
    BY <2>2, <2>3 DEF Closed
  <2>5. e \in C
    BY <1>1, <2>4, ListWithin
  <2>. QED
    BY <1>1, <1>3, <2>3, <2>5
<1>5. R(k) = L \ {h}
  BY <1>1, <1>2, <1>4
<1>6. k = none \/ \E i \in R(k) : next[i] = none
  BY <1>3, <1>5
<1>. QED
  BY <1>1, <1>2, <1>5, <1>6 DEF Ends

\* A write to the link of an element that is not on the list
LEMMA ListOff ==
  ASSUME NEW next, NEW new, NEW none, NEW first, NEW h, DOMAIN new = DOMAIN next,
         Ends(first, next, none), h \notin Following(first, next, none),
         \A i \in DOMAIN next : i # h => new[i] = next[i]
  PROVE  /\ Following(first, new, none) = Following(first, next, none)
         /\ Ends(first, new, none)
<1>1. \A i \in Following(first, next, none) : new[i] = next[i]
  BY DEF Following
<1>. QED
  BY <1>1, ListFrame

-----------------------------------------------------------------------------
(* Field by field                                                          *)

\* t is its own record of fields
IsSlab(t) ==
    t = [last_page |-> t.last_page, num_free_cells |-> t.num_free_cells,
         reserved |-> t.reserved, free_ptr |-> t.free_ptr, drop_ptr |-> t.drop_ptr,
         free_counter |-> t.free_counter, next_page |-> t.next_page, refcount |-> t.refcount]

\* t is s after the drop of cell <<p, i>>, whose object has fields (h) or none
DropStep(s, t, p, i, h) ==
    /\ IsSlab(t)
    /\ t.reserved = s.reserved /\ t.num_free_cells = s.num_free_cells + 1
    /\ t.free_counter = s.free_counter
    /\ t.free_ptr = IF h THEN s.free_ptr ELSE [s.free_ptr EXCEPT ![p] = i]
    /\ t.drop_ptr = IF h THEN [s.drop_ptr EXCEPT ![p] = i] ELSE s.drop_ptr
    /\ t.refcount = [s.refcount EXCEPT ![<<p, i>>] = IF h THEN s.drop_ptr[p] ELSE s.free_ptr[p]]
    /\ t.last_page = IF PageExhausted(s, p) THEN p ELSE s.last_page
    /\ t.next_page = IF PageExhausted(s, p) THEN [s.next_page EXCEPT ![p] = s.last_page]
                     ELSE s.next_page

\* defer_drop, field by field, in each of its four cases
LEMMA DropFields ==
  ASSUME NEW s \in SlabType, NEW p \in Pages, NEW i \in Indices, NEW h \in BOOLEAN,
         NEW t, t = defer_drop(s, <<p, i>>, h)
  PROVE  DropStep(s, t, p, i, h)
<1>1. CASE h /\ PageExhausted(s, p)
  BY <1>1 DEF SlabType, defer_drop, Link, page_of, cell_index, DropStep, IsSlab
<1>2. CASE h /\ ~PageExhausted(s, p)
  BY <1>2 DEF SlabType, defer_drop, Link, page_of, cell_index, DropStep, IsSlab
<1>3. CASE ~h /\ PageExhausted(s, p)
  BY <1>3 DEF SlabType, defer_drop, Link, page_of, cell_index, DropStep, IsSlab
<1>4. CASE ~h /\ ~PageExhausted(s, p)
  BY <1>4 DEF SlabType, defer_drop, Link, page_of, cell_index, DropStep, IsSlab
<1>. QED
  BY <1>1, <1>2, <1>3, <1>4

\* t is s after cell c was popped from page p, the top of the stack
PopStep(s, t, p, from, c) ==
    /\ IsSlab(t)
    /\ t.reserved = s.reserved /\ t.num_free_cells = s.num_free_cells - 1
    /\ t.refcount = s.refcount
    /\ t.free_ptr = IF from = "free" THEN [s.free_ptr EXCEPT ![p] = s.refcount[c]] ELSE s.free_ptr
    /\ t.drop_ptr = IF from = "drop" THEN [s.drop_ptr EXCEPT ![p] = s.refcount[c]] ELSE s.drop_ptr
    /\ t.free_counter = IF from = "virgin" THEN [s.free_counter EXCEPT ![p] = s.free_counter[p] - 1]
                        ELSE s.free_counter
    /\ t.next_page = s.next_page
    /\ t.last_page = IF PageExhausted(t, p) THEN s.next_page[p] ELSE p

\* pop_free, field by field, for each of the three sources
LEMMA PopFields ==
  ASSUME NEW s \in SlabType, NEW p \in Pages, s.last_page = p,
         NEW c, c = Popped(s).cell, NEW t, t = pop_free(s),
         NEW from, from = Popped(s).source
  PROVE  PopStep(s, t, p, from, c)
<1>1. CASE from = "free"
  BY <1>1 DEF SlabType, pop_free, Unlink, Taken, PageExhausted, PopStep, IsSlab
<1>2. CASE from = "virgin"
  BY <1>2 DEF SlabType, pop_free, Unlink, Taken, PageExhausted, PopStep, IsSlab
<1>3. CASE from = "drop"
  BY <1>3 DEF SlabType, pop_free, Unlink, Taken, PageExhausted, PopStep, IsSlab
<1>4. from \in {"free", "virgin", "drop"}
  BY DEF Popped
<1>. QED
  BY <1>1, <1>2, <1>3, <1>4

\* t is s with g new pages
GrowStep(s, t, g) ==
    LET new == (s.reserved + 1)..(s.reserved + g) IN
    /\ IsSlab(t)
    /\ t.reserved = s.reserved + g
    /\ t.num_free_cells = s.num_free_cells + g * CellsPerPage
    /\ t.refcount = s.refcount
    /\ t.free_ptr = [p \in Pages |-> IF p \in new THEN CTRC_NO_CELL ELSE s.free_ptr[p]]
    /\ t.drop_ptr = [p \in Pages |-> IF p \in new THEN CTRC_NO_CELL ELSE s.drop_ptr[p]]
    /\ t.free_counter = [p \in Pages |-> IF p \in new THEN CellsPerPage ELSE s.free_counter[p]]
    /\ t.next_page = [p \in Pages |-> IF p \notin new THEN s.next_page[p]
                                      ELSE IF p = s.reserved + 1 THEN s.last_page ELSE p - 1]
    /\ t.last_page = s.reserved + g

\* reserve with a shortfall of g pages
LEMMA GrowFields ==
  ASSUME NEW s \in SlabType, NEW g \in Nat, NEW t, t = Grown(s, g)
  PROVE  GrowStep(s, t, g)
  BY DEF SlabType, Grown, GrowStep, IsSlab

\* A slab has its type when its fields have.
LEMMA SlabTyped ==
  ASSUME NEW t, IsSlab(t),
         t.last_page \in Pages \cup {NoPage}, t.num_free_cells \in 0..SizeMax,
         t.reserved \in 0..MaxPages,
         t.free_ptr \in [Pages -> Indices \cup {CTRC_NO_CELL}],
         t.drop_ptr \in [Pages -> Indices \cup {CTRC_NO_CELL}],
         t.free_counter \in [Pages -> 0..CellsPerPage],
         t.next_page \in [Pages -> Pages \cup {NoPage}],
         t.refcount \in [Cells -> Nat]
  PROVE  t \in SlabType
  BY DEF SlabType, IsSlab

\* The end marks are no index and no page.
LEMMA Marks ==
  /\ Indices \subseteq Nat /\ CTRC_NO_CELL \in Nat /\ CTRC_NO_CELL \notin Indices
  /\ NoPage \notin Pages /\ Pages \subseteq Nat
  BY SlabAssumption DEF Indices, CTRC_NO_CELL, NoPage, Pages

\* defer_drop leaves a slab of its type: the link it writes is an index or the end mark.
LEMMA DropTyped ==
  ASSUME NEW s \in SlabType, NEW t, NEW p \in Pages, NEW i \in Indices, NEW h \in BOOLEAN,
         DropStep(s, t, p, i, h), t.num_free_cells \in 0..SizeMax
  PROVE  t \in SlabType
<1>1. /\ IsSlab(t) /\ t.reserved \in 0..MaxPages
      /\ t.free_counter \in [Pages -> 0..CellsPerPage]
  BY DEF DropStep, SlabType
<1>2. /\ t.free_ptr \in [Pages -> Indices \cup {CTRC_NO_CELL}]
      /\ t.drop_ptr \in [Pages -> Indices \cup {CTRC_NO_CELL}]
  BY DEF DropStep, SlabType
<1>3. /\ t.last_page \in Pages \cup {NoPage}
      /\ t.next_page \in [Pages -> Pages \cup {NoPage}]
  BY DEF DropStep, SlabType
<1>4. s.drop_ptr[p] \in Nat /\ s.free_ptr[p] \in Nat /\ s.refcount \in [Cells -> Nat]
  BY Marks DEF SlabType
<1>5. t.refcount \in [Cells -> Nat]
  BY <1>4 DEF DropStep
<1>. QED
  BY <1>1, <1>2, <1>3, <1>5, SlabTyped

\* pop_free leaves a slab of its type, given that the word it reads as a link is one.
LEMMA PopTyped ==
  ASSUME NEW s \in SlabType, NEW t, NEW p \in Pages, NEW from, NEW c \in Cells,
         PopStep(s, t, p, from, c),
         from \in {"free", "drop"} => s.refcount[c] \in Indices \cup {CTRC_NO_CELL},
         from = "virgin" => s.free_counter[p] > 0,
         t.num_free_cells \in 0..SizeMax
  PROVE  t \in SlabType
<1>1. /\ IsSlab(t) /\ t.reserved \in 0..MaxPages
      /\ t.next_page \in [Pages -> Pages \cup {NoPage}]
  BY DEF PopStep, SlabType
<1>2. /\ t.free_ptr \in [Pages -> Indices \cup {CTRC_NO_CELL}]
      /\ t.drop_ptr \in [Pages -> Indices \cup {CTRC_NO_CELL}]
  BY DEF PopStep, SlabType
<1>3. t.free_counter \in [Pages -> 0..CellsPerPage]
  BY SlabAssumption DEF PopStep, SlabType
<1>4. t.last_page \in Pages \cup {NoPage}
  BY DEF PopStep, SlabType
<1>5. t.refcount \in [Cells -> Nat]
  BY DEF PopStep, SlabType
<1>. QED
  BY <1>1, <1>2, <1>3, <1>4, <1>5, SlabTyped

\* reserve leaves a slab of its type as long as the pages fit.
LEMMA GrowTyped ==
  ASSUME NEW s \in SlabType, NEW t, NEW g \in Nat \ {0}, s.reserved + g <= MaxPages,
         GrowStep(s, t, g), t.num_free_cells \in 0..SizeMax
  PROVE  t \in SlabType
<1>1. IsSlab(t) /\ t.refcount \in [Cells -> Nat]
  BY DEF GrowStep, SlabType
<1>2. t.reserved \in 0..MaxPages /\ t.last_page \in Pages \cup {NoPage}
  BY SlabAssumption DEF GrowStep, SlabType, Pages
<1>3. /\ t.free_ptr \in [Pages -> Indices \cup {CTRC_NO_CELL}]
      /\ t.drop_ptr \in [Pages -> Indices \cup {CTRC_NO_CELL}]
  BY DEF GrowStep, SlabType
<1>4. t.free_counter \in [Pages -> 0..CellsPerPage]
  BY SlabAssumption DEF GrowStep, SlabType
<1>5. t.next_page \in [Pages -> Pages \cup {NoPage}]
  BY SlabAssumption DEF GrowStep, SlabType, Pages
<1>. QED
  BY <1>1, <1>2, <1>3, <1>4, <1>5, SlabTyped

-----------------------------------------------------------------------------
(* Where a cell is                                                         *)

\* Membership in the three kinds of available cells, page by page
LEMMA PlaceOfCell ==
  ASSUME NEW s, s.reserved \in 0..MaxPages
  PROVE  /\ \A p, i : <<p, i>> \in OnFreeList(s) <=> p \in 1..s.reserved /\ i \in FreeIndices(s, p)
         /\ \A p, i : <<p, i>> \in OnDropList(s) <=> p \in 1..s.reserved /\ i \in DropIndices(s, p)
         /\ \A p, i : <<p, i>> \in Virgin(s) <=>
               p \in 1..s.reserved /\ i \in Indices /\ i < s.free_counter[p]
         /\ OnFreeList(s) \subseteq (1..s.reserved) \X Indices
         /\ OnDropList(s) \subseteq (1..s.reserved) \X Indices
         /\ Virgin(s) \subseteq (1..s.reserved) \X Indices
         /\ (1..s.reserved) \X Indices \subseteq Cells
<1>1. \A p : FreeIndices(s, p) \subseteq Indices /\ DropIndices(s, p) \subseteq Indices
  BY DEF FreeIndices, DropIndices, Following, Links
<1>2. \A p, i : <<p, i>> \in OnFreeList(s) <=> p \in 1..s.reserved /\ i \in FreeIndices(s, p)
  BY DEF OnFreeList
<1>3. \A p, i : <<p, i>> \in OnDropList(s) <=> p \in 1..s.reserved /\ i \in DropIndices(s, p)
  BY DEF OnDropList
<1>4. \A p, i : <<p, i>> \in Virgin(s) <=>
               p \in 1..s.reserved /\ i \in Indices /\ i < s.free_counter[p]
  BY DEF Virgin, page_of, cell_index
<1>5. OnFreeList(s) \subseteq (1..s.reserved) \X Indices
  BY <1>1 DEF OnFreeList
<1>6. OnDropList(s) \subseteq (1..s.reserved) \X Indices
  BY <1>1 DEF OnDropList
<1>7. Virgin(s) \subseteq (1..s.reserved) \X Indices
  BY DEF Virgin
<1>8. (1..s.reserved) \X Indices \subseteq Cells
  BY SlabAssumption DEF Cells, Pages
<1>. QED
  BY <1>2, <1>3, <1>4, <1>5, <1>6, <1>7, <1>8

\* both lists of the page end
PageEnds(s, p) ==
    /\ Ends(s.free_ptr[p], Links(s, p), CTRC_NO_CELL)
    /\ Ends(s.drop_ptr[p], Links(s, p), CTRC_NO_CELL)

\* A page whose heads and refcount words stay keeps its lists.
LEMMA PageUntouched ==
  ASSUME NEW s, NEW t, NEW p, PageEnds(s, p),
         t.free_ptr[p] = s.free_ptr[p], t.drop_ptr[p] = s.drop_ptr[p],
         \A i \in Indices : t.refcount[<<p, i>>] = s.refcount[<<p, i>>]
  PROVE  /\ FreeIndices(t, p) = FreeIndices(s, p)
         /\ DropIndices(t, p) = DropIndices(s, p)
         /\ PageEnds(t, p)
<1>1. Links(t, p) = Links(s, p)
  BY DEF Links
<1>. QED
  BY <1>1 DEF FreeIndices, DropIndices, PageEnds

\* Dropping a cell that is on no list pushes it on one list of its page; the other list,
\* linked through the same words, and the other pages stay.
LEMMA PageDrop ==
  ASSUME NEW s \in SlabType, NEW p \in Pages, NEW i \in Indices, NEW h \in BOOLEAN,
         NEW t, DropStep(s, t, p, i, h), PageEnds(s, p),
         i \notin FreeIndices(s, p), i \notin DropIndices(s, p)
  PROVE  /\ FreeIndices(t, p) = FreeIndices(s, p) \cup (IF h THEN {} ELSE {i})
         /\ DropIndices(t, p) = DropIndices(s, p) \cup (IF h THEN {i} ELSE {})
         /\ PageEnds(t, p)
         /\ \A q \in Pages \ {p} : PageEnds(s, q) =>
               /\ FreeIndices(t, q) = FreeIndices(s, q)
               /\ DropIndices(t, q) = DropIndices(s, q)
               /\ PageEnds(t, q)
<1>. DEFINE old == Links(s, p)
            new == Links(t, p)
<1>1. /\ DOMAIN old = Indices /\ DOMAIN new = Indices
      /\ new[i] = IF h THEN s.drop_ptr[p] ELSE s.free_ptr[p]
      /\ \A j \in Indices : j # i => new[j] = old[j]
  BY DEF DropStep, Links, SlabType, Cells
<1>. HIDE DEF old, new
<1>2. ASSUME h
      PROVE  /\ FreeIndices(t, p) = FreeIndices(s, p) \cup (IF h THEN {} ELSE {i})
             /\ DropIndices(t, p) = DropIndices(s, p) \cup (IF h THEN {i} ELSE {})
             /\ PageEnds(t, p)
  <2>1. t.drop_ptr[p] = i /\ t.free_ptr[p] = s.free_ptr[p]
    BY <1>2 DEF DropStep, SlabType
  <2>2. /\ Following(i, new, CTRC_NO_CELL) = {i} \cup DropIndices(s, p)
        /\ Ends(i, new, CTRC_NO_CELL)
    BY <1>1, <1>2, Marks, ListPush DEF DropIndices, PageEnds, old
  <2>3. /\ Following(s.free_ptr[p], new, CTRC_NO_CELL) = FreeIndices(s, p)
        /\ Ends(s.free_ptr[p], new, CTRC_NO_CELL)
    <3>1. \A j \in FreeIndices(s, p) : new[j] = old[j]
      BY <1>1 DEF FreeIndices, Following, old
    <3>. QED
      BY <1>1, <3>1, ListFrame DEF FreeIndices, PageEnds, old
  <2>. QED
    <3>1. DropIndices(t, p) = {i} \cup DropIndices(s, p) /\ FreeIndices(t, p) = FreeIndices(s, p)
      BY <2>1, <2>2, <2>3 DEF FreeIndices, DropIndices, new
    <3>2. PageEnds(t, p)
      BY <2>1, <2>2, <2>3 DEF PageEnds, new
    <3>. QED
      BY <1>2, <3>1, <3>2
<1>3. ASSUME ~h
      PROVE  /\ FreeIndices(t, p) = FreeIndices(s, p) \cup (IF h THEN {} ELSE {i})
             /\ DropIndices(t, p) = DropIndices(s, p) \cup (IF h THEN {i} ELSE {})
             /\ PageEnds(t, p)
  <2>1. t.free_ptr[p] = i /\ t.drop_ptr[p] = s.drop_ptr[p]
    BY <1>3 DEF DropStep, SlabType
  <2>2. /\ Following(i, new, CTRC_NO_CELL) = {i} \cup FreeIndices(s, p)
        /\ Ends(i, new, CTRC_NO_CELL)
    BY <1>1, <1>3, Marks, ListPush DEF FreeIndices, PageEnds, old
  <2>3. /\ Following(s.drop_ptr[p], new, CTRC_NO_CELL) = DropIndices(s, p)
        /\ Ends(s.drop_ptr[p], new, CTRC_NO_CELL)
    <3>1. \A j \in DropIndices(s, p) : new[j] = old[j]
      BY <1>1 DEF DropIndices, Following, old
    <3>. QED
      BY <1>1, <3>1, ListFrame DEF DropIndices, PageEnds, old
  <2>. QED
    <3>1. FreeIndices(t, p) = {i} \cup FreeIndices(s, p) /\ DropIndices(t, p) = DropIndices(s, p)
      BY <2>1, <2>2, <2>3 DEF FreeIndices, DropIndices, new
    <3>2. PageEnds(t, p)
      BY <2>1, <2>2, <2>3 DEF PageEnds, new
    <3>. QED
      BY <1>3, <3>1, <3>2
<1>4. ASSUME NEW q \in Pages \ {p}, PageEnds(s, q)
      PROVE  /\ FreeIndices(t, q) = FreeIndices(s, q)
             /\ DropIndices(t, q) = DropIndices(s, q)
             /\ PageEnds(t, q)
  <2>1. /\ t.free_ptr[q] = s.free_ptr[q] /\ t.drop_ptr[q] = s.drop_ptr[q]
        /\ \A j \in Indices : t.refcount[<<q, j>>] = s.refcount[<<q, j>>]
    BY DEF DropStep, SlabType, Cells
  <2>. QED
    BY <1>4, <2>1, PageUntouched
<1>. QED
  BY <1>2, <1>3, <1>4

\* the cells of the page never handed out
VirginIndices(s, p) == {i \in Indices : i < s.free_counter[p]}

\* the source of the next cell of page p
PopFrom(s, p, from, c) ==
    \/ from = "free" /\ s.free_ptr[p] # CTRC_NO_CELL /\ c = <<p, s.free_ptr[p]>>
    \/ /\ from = "virgin" /\ s.free_ptr[p] = CTRC_NO_CELL /\ s.free_counter[p] > 0
       /\ c = <<p, s.free_counter[p] - 1>>
    \/ /\ from = "drop" /\ s.free_ptr[p] = CTRC_NO_CELL /\ s.free_counter[p] = 0
       /\ c = <<p, s.drop_ptr[p]>>

\* pop_free takes the head of the free list, else a virgin cell, else the head of the drop
\* list.
LEMMA PopSource ==
  ASSUME NEW s \in SlabType, NEW p \in Pages, s.last_page = p
  PROVE  PopFrom(s, p, Popped(s).source, Popped(s).cell)
<1>1. s.free_counter[p] \in Nat
  BY SlabAssumption DEF SlabType
<1>. QED
  BY <1>1 DEF Popped, PopFrom

\* the three kinds of available cells of a page are disjoint
PageDisjoint(s, p) ==
    /\ FreeIndices(s, p) \cap DropIndices(s, p) = {}
    /\ VirginIndices(s, p) \cap (FreeIndices(s, p) \cup DropIndices(s, p)) = {}

\* c is an available cell of page p and just leaves the list it is on
PagePopped(s, t, p, from, c) ==
    \E i \in Indices :
        /\ c = <<p, i>>
        /\ i \in FreeIndices(s, p) \cup DropIndices(s, p) \cup VirginIndices(s, p)
        /\ from = "drop" <=> i \in DropIndices(s, p)
        /\ FreeIndices(t, p) = FreeIndices(s, p) \ {i}
        /\ DropIndices(t, p) = DropIndices(s, p) \ {i}
        /\ VirginIndices(t, p) = VirginIndices(s, p) \ {i}
        /\ PageEnds(t, p)
        /\ from \in {"free", "drop"} => s.refcount[c] \in Indices \cup {CTRC_NO_CELL}
        /\ from = "virgin" => s.free_counter[p] > 0

\* Popping takes one available cell of the page off its list.
LEMMA PagePop ==
  ASSUME NEW s \in SlabType, NEW p \in Pages, NEW from, NEW c, NEW t,
         ~PageExhausted(s, p), PopFrom(s, p, from, c), PopStep(s, t, p, from, c),
         PageEnds(s, p), PageDisjoint(s, p)
  PROVE  PagePopped(s, t, p, from, c)
<1>. DEFINE next == Links(s, p)
<1>1. DOMAIN next = Indices /\ Links(t, p) = next
  BY DEF Links, PopStep
<1>2. \A i \in Indices : next[i] = s.refcount[<<p, i>>]
  BY DEF Links
<1>3. /\ FreeIndices(s, p) = Following(s.free_ptr[p], next, CTRC_NO_CELL)
      /\ DropIndices(s, p) = Following(s.drop_ptr[p], next, CTRC_NO_CELL)
      /\ FreeIndices(t, p) = Following(t.free_ptr[p], next, CTRC_NO_CELL)
      /\ DropIndices(t, p) = Following(t.drop_ptr[p], next, CTRC_NO_CELL)
      /\ Ends(s.free_ptr[p], next, CTRC_NO_CELL) /\ Ends(s.drop_ptr[p], next, CTRC_NO_CELL)
      /\ PageEnds(t, p) <=> /\ Ends(t.free_ptr[p], next, CTRC_NO_CELL)
                            /\ Ends(t.drop_ptr[p], next, CTRC_NO_CELL)
  BY <1>1 DEF FreeIndices, DropIndices, PageEnds
<1>4. /\ s.free_ptr[p] \in Indices \cup {CTRC_NO_CELL}
      /\ s.drop_ptr[p] \in Indices \cup {CTRC_NO_CELL}
  BY DEF SlabType
<1>5. CTRC_NO_CELL \notin DOMAIN next
  BY <1>1, Marks
<1>. HIDE DEF next
<1>6. CASE from = "free"
  <2>. DEFINE i == s.free_ptr[p]
  <2>1. i # CTRC_NO_CELL /\ i \in Indices /\ c = <<p, i>>
    BY <1>4, <1>6 DEF PopFrom
  <2>2. /\ t.free_ptr[p] = next[i] /\ t.drop_ptr[p] = s.drop_ptr[p]
        /\ t.free_counter = s.free_counter
    BY <1>2, <1>6, <2>1 DEF PopStep, SlabType
  <2>3. Ends(i, next, CTRC_NO_CELL) /\ FreeIndices(s, p) = Following(i, next, CTRC_NO_CELL)
    BY <1>3
  <2>. HIDE DEF i
  <2>4. /\ FreeIndices(t, p) = FreeIndices(s, p) \ {i}
        /\ Ends(t.free_ptr[p], next, CTRC_NO_CELL)
    BY <1>3, <1>5, <2>1, <2>2, <2>3, ListPop
  <2>5. i \in FreeIndices(s, p)
    BY <2>1, <2>3, ListHead
  <2>6. next[i] \in Indices \cup {CTRC_NO_CELL}
    BY <1>1, <2>2, <2>4 DEF Ends, Closed, Following
  <2>7. i \notin DropIndices(s, p) /\ VirginIndices(t, p) = VirginIndices(s, p) \ {i}
    BY <2>2, <2>5 DEF PageDisjoint, VirginIndices
  <2>. QED
    BY <1>2, <1>3, <1>6, <2>1, <2>2, <2>4, <2>5, <2>6, <2>7 DEF PagePopped
<1>7. CASE from = "virgin"
  <2>. DEFINE i == s.free_counter[p] - 1
  <2>1. i \in Indices /\ c = <<p, i>> /\ s.free_counter[p] \in Nat \ {0}
    BY <1>7, SlabAssumption DEF PopFrom, SlabType, Indices
  <2>2. /\ t.free_ptr[p] = s.free_ptr[p] /\ t.drop_ptr[p] = s.drop_ptr[p]
        /\ t.free_counter[p] = i
    BY <1>7, <2>1 DEF PopStep, SlabType
  <2>3. i \in VirginIndices(s, p) /\ VirginIndices(t, p) = VirginIndices(s, p) \ {i}
    <3>. DEFINE n == s.free_counter[p]
    <3>1. n \in Nat \ {0} /\ i = n - 1
      BY <2>1
    <3>. HIDE DEF i, n
    <3>2. ASSUME NEW j \in Nat PROVE j < n <=> j < i \/ j = i
      BY <3>1
    <3>3. i \in Nat /\ ~(i < i)
      BY <3>1
    <3>. QED
      BY <2>1, <2>2, <3>2, <3>3, Marks DEF VirginIndices, n
  <2>. HIDE DEF i
  <2>4. i \notin DropIndices(s, p) /\ i \notin FreeIndices(s, p)
    BY <2>3 DEF PageDisjoint
  <2>. QED
    BY <1>3, <1>7, <2>1, <2>2, <2>3, <2>4 DEF PagePopped
<1>8. CASE from = "drop"
  <2>. DEFINE i == s.drop_ptr[p]
  <2>1. i # CTRC_NO_CELL /\ i \in Indices /\ c = <<p, i>>
    BY <1>4, <1>8 DEF PopFrom, PageExhausted
  <2>2. /\ t.drop_ptr[p] = next[i] /\ t.free_ptr[p] = s.free_ptr[p]
        /\ t.free_counter = s.free_counter
    BY <1>2, <1>8, <2>1 DEF PopStep, SlabType
  <2>3. Ends(i, next, CTRC_NO_CELL) /\ DropIndices(s, p) = Following(i, next, CTRC_NO_CELL)
    BY <1>3
  <2>. HIDE DEF i
  <2>4. /\ DropIndices(t, p) = DropIndices(s, p) \ {i}
        /\ Ends(t.drop_ptr[p], next, CTRC_NO_CELL)
    BY <1>3, <1>5, <2>1, <2>2, <2>3, ListPop
  <2>5. i \in DropIndices(s, p)
    BY <2>1, <2>3, ListHead
  <2>6. next[i] \in Indices \cup {CTRC_NO_CELL}
    BY <1>1, <2>2, <2>4 DEF Ends, Closed, Following
  <2>7. i \notin FreeIndices(s, p) /\ VirginIndices(t, p) = VirginIndices(s, p) \ {i}
    BY <2>2, <2>5 DEF PageDisjoint, VirginIndices
  <2>. QED
    BY <1>2, <1>3, <1>8, <2>1, <2>2, <2>4, <2>5, <2>6, <2>7 DEF PagePopped
<1>. QED
  BY <1>6, <1>7, <1>8 DEF PopFrom

\* Two sets of cells with the same members, page by page, are equal.
LEMMA SameCells ==
  ASSUME NEW X, NEW Y, NEW A \in SUBSET (X \X Y), NEW B \in SUBSET (X \X Y),
         \A p \in X, i \in Y : <<p, i>> \in A <=> <<p, i>> \in B
  PROVE  A = B
OBVIOUS

\* What defer_drop does to the cells of the slab
LEMMA DropCells ==
  ASSUME NEW s \in SlabType, NEW p \in 1..s.reserved, NEW i \in Indices, NEW h \in BOOLEAN,
         NEW t, DropStep(s, t, p, i, h), ListsEnd(s), <<p, i>> \notin Available(s)
  PROVE  /\ ListsEnd(t)
         /\ OnFreeList(t) = OnFreeList(s) \cup (IF h THEN {} ELSE {<<p, i>>})
         /\ OnDropList(t) = OnDropList(s) \cup (IF h THEN {<<p, i>>} ELSE {})
         /\ Virgin(t) = Virgin(s)
<1>1. s.reserved \in 0..MaxPages /\ t.reserved = s.reserved /\ t.free_counter = s.free_counter
  BY DEF DropStep, SlabType
<1>2. 1..s.reserved \subseteq Pages
  BY <1>1, SlabAssumption DEF Pages
<1>. DEFINE R == 1..s.reserved
<1>3. \A q \in R : PageEnds(s, q)
  BY DEF ListsEnd, PageEnds
<1>4. i \notin FreeIndices(s, p) /\ i \notin DropIndices(s, p)
  BY <1>1, PlaceOfCell DEF Available
<1>5. /\ FreeIndices(t, p) = FreeIndices(s, p) \cup (IF h THEN {} ELSE {i})
      /\ DropIndices(t, p) = DropIndices(s, p) \cup (IF h THEN {i} ELSE {})
      /\ PageEnds(t, p)
      /\ \A q \in R \ {p} : /\ FreeIndices(t, q) = FreeIndices(s, q)
                            /\ DropIndices(t, q) = DropIndices(s, q)
                            /\ PageEnds(t, q)
  BY <1>2, <1>3, <1>4, PageDrop
<1>6. ListsEnd(t)
  BY <1>1, <1>5 DEF ListsEnd, PageEnds
<1>7. OnFreeList(t) = OnFreeList(s) \cup (IF h THEN {} ELSE {<<p, i>>})
  <2>. DEFINE B == OnFreeList(s) \cup (IF h THEN {} ELSE {<<p, i>>})
  <2>1. OnFreeList(t) \subseteq R \X Indices /\ B \subseteq R \X Indices
    BY <1>1, PlaceOfCell
  <2>2. ASSUME NEW q \in R, NEW j \in Indices PROVE <<q, j>> \in OnFreeList(t) <=> <<q, j>> \in B
    BY <1>1, <1>5, PlaceOfCell
  <2>. QED
    BY <2>1, <2>2, SameCells
<1>8. OnDropList(t) = OnDropList(s) \cup (IF h THEN {<<p, i>>} ELSE {})
  <2>. DEFINE B == OnDropList(s) \cup (IF h THEN {<<p, i>>} ELSE {})
  <2>1. OnDropList(t) \subseteq R \X Indices /\ B \subseteq R \X Indices
    BY <1>1, PlaceOfCell
  <2>2. ASSUME NEW q \in R, NEW j \in Indices PROVE <<q, j>> \in OnDropList(t) <=> <<q, j>> \in B
    BY <1>1, <1>5, PlaceOfCell
  <2>. QED
    BY <2>1, <2>2, SameCells
<1>9. Virgin(t) = Virgin(s)
  BY <1>1 DEF Virgin
<1>. QED
  BY <1>6, <1>7, <1>8, <1>9

\* the three kinds of available cells are disjoint
Disjoint(s) ==
    /\ OnFreeList(s) \cap OnDropList(s) = {}
    /\ Virgin(s) \cap (OnFreeList(s) \cup OnDropList(s)) = {}

\* pop_free finds the lists of the top page disjoint, as PagePop needs them.
LEMMA PopPage ==
  ASSUME NEW s \in SlabType, NEW p \in 1..s.reserved, NEW from, NEW c, NEW t,
         ~PageExhausted(s, p), PopFrom(s, p, from, c), PopStep(s, t, p, from, c),
         ListsEnd(s), Disjoint(s)
  PROVE  PagePopped(s, t, p, from, c)
<1>1. s.reserved \in 0..MaxPages
  BY DEF SlabType
<1>2. p \in Pages /\ PageEnds(s, p)
  BY <1>1, SlabAssumption DEF Pages, ListsEnd, PageEnds
<1>3. \A j \in VirginIndices(s, p) : <<p, j>> \in Virgin(s)
  BY <1>1, PlaceOfCell DEF VirginIndices
<1>4. \A j \in FreeIndices(s, p) : <<p, j>> \in OnFreeList(s)
  BY <1>1, PlaceOfCell
<1>5. \A j \in DropIndices(s, p) : <<p, j>> \in OnDropList(s)
  BY <1>1, PlaceOfCell
<1>6. PageDisjoint(s, p)
  BY <1>3, <1>4, <1>5 DEF PageDisjoint, Disjoint
<1>. QED
  BY <1>2, <1>6, PagePop

\* What pop_free does to the cells of the slab
LEMMA PopCells ==
  ASSUME NEW s \in SlabType, NEW p \in 1..s.reserved, NEW from, NEW c, NEW t,
         PopStep(s, t, p, from, c), ListsEnd(s), PagePopped(s, t, p, from, c)
  PROVE  /\ c \in Available(s)
         /\ from = "drop" <=> c \in OnDropList(s)
         /\ ListsEnd(t)
         /\ OnFreeList(t) = OnFreeList(s) \ {c}
         /\ OnDropList(t) = OnDropList(s) \ {c}
         /\ Virgin(t) = Virgin(s) \ {c}
<1>. DEFINE R == 1..s.reserved
<1>1. s.reserved \in 0..MaxPages /\ t.reserved = s.reserved
  BY DEF PopStep, SlabType
<1>2. R \subseteq Pages
  BY <1>1, SlabAssumption DEF Pages
<1>3. PICK i \in Indices :
        /\ c = <<p, i>>
        /\ i \in FreeIndices(s, p) \cup DropIndices(s, p) \cup VirginIndices(s, p)
        /\ from = "drop" <=> i \in DropIndices(s, p)
        /\ FreeIndices(t, p) = FreeIndices(s, p) \ {i}
        /\ DropIndices(t, p) = DropIndices(s, p) \ {i}
        /\ VirginIndices(t, p) = VirginIndices(s, p) \ {i}
        /\ PageEnds(t, p)
  BY DEF PagePopped
<1>4. ASSUME NEW q \in R \ {p}
      PROVE  /\ FreeIndices(t, q) = FreeIndices(s, q)
             /\ DropIndices(t, q) = DropIndices(s, q)
             /\ VirginIndices(t, q) = VirginIndices(s, q)
             /\ PageEnds(t, q)
  <2>1. /\ t.free_ptr[q] = s.free_ptr[q] /\ t.drop_ptr[q] = s.drop_ptr[q]
        /\ t.free_counter[q] = s.free_counter[q]
        /\ \A j \in Indices : t.refcount[<<q, j>>] = s.refcount[<<q, j>>]
    BY <1>2, <1>3 DEF PopStep, SlabType, Cells
  <2>2. PageEnds(s, q)
    BY DEF ListsEnd, PageEnds
  <2>. QED
    BY <2>1, <2>2, PageUntouched DEF VirginIndices
<1>5. ListsEnd(t)
  BY <1>1, <1>3, <1>4 DEF ListsEnd, PageEnds
<1>6. c \in Available(s) /\ (from = "drop" <=> c \in OnDropList(s))
  BY <1>1, <1>3, PlaceOfCell DEF Available, VirginIndices
<1>7. OnFreeList(t) = OnFreeList(s) \ {c}
  <2>1. OnFreeList(t) \subseteq R \X Indices /\ OnFreeList(s) \ {c} \subseteq R \X Indices
    BY <1>1, PlaceOfCell
  <2>2. ASSUME NEW q \in R, NEW j \in Indices
        PROVE  <<q, j>> \in OnFreeList(t) <=> <<q, j>> \in OnFreeList(s) \ {c}
    BY <1>1, <1>3, <1>4, PlaceOfCell
  <2>. QED
    BY <2>1, <2>2, SameCells
<1>8. OnDropList(t) = OnDropList(s) \ {c}
  <2>1. OnDropList(t) \subseteq R \X Indices /\ OnDropList(s) \ {c} \subseteq R \X Indices
    BY <1>1, PlaceOfCell
  <2>2. ASSUME NEW q \in R, NEW j \in Indices
        PROVE  <<q, j>> \in OnDropList(t) <=> <<q, j>> \in OnDropList(s) \ {c}
    BY <1>1, <1>3, <1>4, PlaceOfCell
  <2>. QED
    BY <2>1, <2>2, SameCells
<1>9. Virgin(t) = Virgin(s) \ {c}
  <2>1. Virgin(t) \subseteq R \X Indices /\ Virgin(s) \ {c} \subseteq R \X Indices
    BY <1>1, PlaceOfCell
  <2>2. ASSUME NEW q \in R, NEW j \in Indices
        PROVE  <<q, j>> \in Virgin(t) <=> <<q, j>> \in Virgin(s) \ {c}
    <3>1. <<q, j>> \in Virgin(s) <=> j \in VirginIndices(s, q)
      BY <1>1, PlaceOfCell DEF VirginIndices
    <3>2. <<q, j>> \in Virgin(t) <=> j \in VirginIndices(t, q)
      BY <1>1, PlaceOfCell DEF VirginIndices
    <3>. QED
      BY <1>3, <1>4, <3>1, <3>2
  <2>. QED
    BY <2>1, <2>2, SameCells
<1>. QED
  BY <1>5, <1>6, <1>7, <1>8, <1>9

\* reserve adds virgin cells and nothing else.
LEMMA GrowCells ==
  ASSUME NEW s \in SlabType, NEW g \in Nat, s.reserved + g <= MaxPages,
         NEW t, GrowStep(s, t, g), ListsEnd(s)
  PROVE  /\ ListsEnd(t)
         /\ OnFreeList(t) = OnFreeList(s)
         /\ OnDropList(t) = OnDropList(s)
         /\ Virgin(t) = Virgin(s) \cup (((s.reserved + 1)..(s.reserved + g)) \X Indices)
<1>. DEFINE r == s.reserved
            R == 1..r
            N == (r + 1)..(r + g)
            Q == 1..t.reserved
<1>1. r \in 0..MaxPages /\ t.reserved = r + g /\ t.reserved \in 0..MaxPages
  BY SlabAssumption DEF GrowStep, SlabType
<1>2. Q = R \cup N /\ R \cap N = {} /\ Q \subseteq Pages
  BY <1>1, SlabAssumption DEF Pages
<1>. HIDE DEF r, R, N, Q
<1>3. ASSUME NEW q \in N
      PROVE  FreeIndices(t, q) = {} /\ DropIndices(t, q) = {} /\ PageEnds(t, q)
             /\ t.free_counter[q] = CellsPerPage
  <2>1. t.free_ptr[q] = CTRC_NO_CELL /\ t.drop_ptr[q] = CTRC_NO_CELL
        /\ t.free_counter[q] = CellsPerPage
    BY <1>2 DEF GrowStep, N, r
  <2>. QED
    BY <2>1, ListEmpty DEF FreeIndices, DropIndices, PageEnds
<1>4. ASSUME NEW q \in R
      PROVE  /\ FreeIndices(t, q) = FreeIndices(s, q)
             /\ DropIndices(t, q) = DropIndices(s, q)
             /\ PageEnds(t, q)
             /\ t.free_counter[q] = s.free_counter[q]
  <2>1. /\ t.free_ptr[q] = s.free_ptr[q] /\ t.drop_ptr[q] = s.drop_ptr[q]
        /\ t.free_counter[q] = s.free_counter[q]
        /\ \A j \in Indices : t.refcount[<<q, j>>] = s.refcount[<<q, j>>]
    BY <1>2 DEF GrowStep, N, r
  <2>2. PageEnds(s, q)
    BY DEF ListsEnd, PageEnds, R, r
  <2>. QED
    BY <2>1, <2>2, PageUntouched
<1>5. ListsEnd(t)
  BY <1>2, <1>3, <1>4 DEF ListsEnd, PageEnds, Q
<1>6. /\ \A p, i : <<p, i>> \in OnFreeList(s) <=> p \in R /\ i \in FreeIndices(s, p)
      /\ \A p, i : <<p, i>> \in OnDropList(s) <=> p \in R /\ i \in DropIndices(s, p)
      /\ \A p, i : <<p, i>> \in Virgin(s) <=> p \in R /\ i \in Indices /\ i < s.free_counter[p]
      /\ OnFreeList(s) \subseteq R \X Indices /\ OnDropList(s) \subseteq R \X Indices
      /\ Virgin(s) \subseteq R \X Indices
  BY <1>1, PlaceOfCell DEF R, r
<1>7. /\ \A p, i : <<p, i>> \in OnFreeList(t) <=> p \in Q /\ i \in FreeIndices(t, p)
      /\ \A p, i : <<p, i>> \in OnDropList(t) <=> p \in Q /\ i \in DropIndices(t, p)
      /\ \A p, i : <<p, i>> \in Virgin(t) <=> p \in Q /\ i \in Indices /\ i < t.free_counter[p]
      /\ OnFreeList(t) \subseteq Q \X Indices /\ OnDropList(t) \subseteq Q \X Indices
      /\ Virgin(t) \subseteq Q \X Indices
  BY <1>1, PlaceOfCell DEF Q
<1>8. OnFreeList(t) = OnFreeList(s)
  <2>1. OnFreeList(s) \subseteq Q \X Indices /\ OnFreeList(t) \subseteq Q \X Indices
    BY <1>2, <1>6, <1>7
  <2>2. ASSUME NEW q \in Q, NEW j \in Indices
        PROVE  <<q, j>> \in OnFreeList(t) <=> <<q, j>> \in OnFreeList(s)
    BY <1>2, <1>3, <1>4, <1>6, <1>7
  <2>. QED
    BY <2>1, <2>2, SameCells
<1>9. OnDropList(t) = OnDropList(s)
  <2>1. OnDropList(s) \subseteq Q \X Indices /\ OnDropList(t) \subseteq Q \X Indices
    BY <1>2, <1>6, <1>7
  <2>2. ASSUME NEW q \in Q, NEW j \in Indices
        PROVE  <<q, j>> \in OnDropList(t) <=> <<q, j>> \in OnDropList(s)
    BY <1>2, <1>3, <1>4, <1>6, <1>7
  <2>. QED
    BY <2>1, <2>2, SameCells
<1>10. Virgin(t) = Virgin(s) \cup (N \X Indices)
  <2>1. Virgin(s) \cup (N \X Indices) \subseteq Q \X Indices
    BY <1>2, <1>6
  <2>2. \A j \in Indices : j < CellsPerPage
    BY SlabAssumption DEF Indices
  <2>3. ASSUME NEW q \in Q, NEW j \in Indices
        PROVE  <<q, j>> \in Virgin(t) <=> <<q, j>> \in Virgin(s) \cup (N \X Indices)
    BY <1>2, <1>3, <1>4, <1>6, <1>7, <2>2
  <2>. QED
    BY <1>7, <2>1, <2>3, SameCells
<1>. QED
  BY <1>5, <1>8, <1>9, <1>10 DEF N, r

-----------------------------------------------------------------------------
(* The stack of pages                                                      *)

\* StackExact, of any slab
Stack(s) ==
    /\ Ends(s.last_page, s.next_page, NoPage)
    /\ PageStack(s) = {p \in 1..s.reserved : ~PageExhausted(s, p)}

\* A drop into an exhausted page pushes the page, and no other drop touches the stack.
LEMMA DropStack ==
  ASSUME NEW s \in SlabType, NEW p \in 1..s.reserved, NEW i \in Indices, NEW h \in BOOLEAN,
         NEW t, DropStep(s, t, p, i, h), Stack(s)
  PROVE  Stack(t)
<1>1. t.reserved = s.reserved /\ p \in Pages
  BY SlabAssumption DEF DropStep, SlabType, Pages
<1>2. ~PageExhausted(t, p)
  BY <1>1, Marks DEF DropStep, SlabType, PageExhausted
<1>3. \A q \in (1..s.reserved) \ {p} : PageExhausted(t, q) <=> PageExhausted(s, q)
  <2>. SUFFICES ASSUME NEW q \in (1..s.reserved) \ {p}
                PROVE  PageExhausted(t, q) <=> PageExhausted(s, q)
    OBVIOUS
  <2>1. /\ t.free_ptr[q] = s.free_ptr[q] /\ t.drop_ptr[q] = s.drop_ptr[q]
        /\ t.free_counter[q] = s.free_counter[q]
    BY SlabAssumption DEF DropStep, SlabType, Pages
  <2>. QED
    BY <2>1 DEF PageExhausted
<1>4. CASE PageExhausted(s, p)
  <2>1. /\ t.last_page = p /\ t.next_page[p] = s.last_page
        /\ DOMAIN s.next_page = Pages /\ DOMAIN t.next_page = Pages
        /\ \A q \in Pages : q # p => t.next_page[q] = s.next_page[q]
    BY <1>1, <1>4 DEF DropStep, SlabType
  <2>. DEFINE first == s.last_page
              next == s.next_page
              new == t.next_page
  <2>2. /\ p \in DOMAIN next /\ p # NoPage /\ Ends(first, next, NoPage)
        /\ p \notin Following(first, next, NoPage)
        /\ DOMAIN new = DOMAIN next /\ new[p] = first
        /\ \A q \in DOMAIN next : q # p => new[q] = next[q]
    BY <1>1, <1>4, <2>1, Marks DEF Stack, PageStack
  <2>. HIDE DEF first, next, new
  <2>3. /\ Following(p, new, NoPage) = {p} \cup Following(first, next, NoPage)
        /\ Ends(p, new, NoPage)
    BY <2>2, ListPush
  <2>4. PageStack(t) = {p} \cup PageStack(s) /\ Ends(t.last_page, t.next_page, NoPage)
    BY <2>1, <2>3 DEF PageStack, first, next, new
  <2>. QED
    BY <1>1, <1>2, <1>3, <2>4 DEF Stack
<1>5. CASE ~PageExhausted(s, p)
  <2>1. t.last_page = s.last_page /\ t.next_page = s.next_page
    BY <1>5 DEF DropStep
  <2>. QED
    BY <1>1, <1>2, <1>3, <1>5, <2>1 DEF Stack, PageStack
<1>. QED
  BY <1>4, <1>5

\* The top page leaves the stack exactly when the pop exhausts it.
LEMMA PopStack ==
  ASSUME NEW s \in SlabType, NEW p \in 1..s.reserved, s.last_page = p,
         NEW from, NEW c, NEW t, PopStep(s, t, p, from, c), Stack(s)
  PROVE  Stack(t)
<1>1. t.reserved = s.reserved /\ p \in Pages /\ NoPage \notin Pages /\ DOMAIN s.next_page = Pages
  BY SlabAssumption, Marks DEF PopStep, SlabType, Pages
<1>2. \A q \in (1..s.reserved) \ {p} : PageExhausted(t, q) <=> PageExhausted(s, q)
  <2>. SUFFICES ASSUME NEW q \in (1..s.reserved) \ {p}
                PROVE  PageExhausted(t, q) <=> PageExhausted(s, q)
    OBVIOUS
  <2>1. /\ t.free_ptr[q] = s.free_ptr[q] /\ t.drop_ptr[q] = s.drop_ptr[q]
        /\ t.free_counter[q] = s.free_counter[q]
    BY SlabAssumption DEF PopStep, SlabType, Pages
  <2>. QED
    BY <2>1 DEF PageExhausted
<1>3. p \in PageStack(s) /\ ~PageExhausted(s, p)
  BY <1>1, ListHead DEF Stack, PageStack
<1>4. CASE PageExhausted(t, p)
  <2>1. t.last_page = s.next_page[p] /\ t.next_page = s.next_page
    BY <1>4 DEF PopStep
  <2>2. /\ Following(s.next_page[p], s.next_page, NoPage) = PageStack(s) \ {p}
        /\ Ends(s.next_page[p], s.next_page, NoPage)
    BY <1>1, ListPop DEF Stack, PageStack
  <2>3. PageStack(t) = PageStack(s) \ {p} /\ Ends(t.last_page, t.next_page, NoPage)
    BY <2>1, <2>2 DEF PageStack
  <2>. QED
    BY <1>1, <1>2, <1>4, <2>3 DEF Stack
<1>5. CASE ~PageExhausted(t, p)
  <2>1. t.last_page = s.last_page /\ t.next_page = s.next_page
    BY <1>5 DEF PopStep
  <2>. QED
    BY <1>1, <1>2, <1>3, <1>5, <2>1 DEF Stack, PageStack
<1>. QED
  BY <1>4, <1>5

\* The new pages are pushed one after the other, none of them exhausted.
LEMMA GrowStack ==
  ASSUME NEW s \in SlabType, NEW g \in Nat \ {0}, s.reserved + g <= MaxPages,
         NEW t, GrowStep(s, t, g), Stack(s)
  PROVE  Stack(t)
<1>. DEFINE r == s.reserved
            R == 1..r
            N == (r + 1)..(r + g)
<1>1. r \in Nat /\ t.reserved = r + g /\ t.last_page = r + g
  BY SlabAssumption DEF GrowStep, SlabType
<1>2. 1..t.reserved = R \cup N /\ R \cap N = {} /\ R \subseteq Pages /\ N \subseteq Pages
  BY <1>1, SlabAssumption DEF Pages
<1>3. /\ DOMAIN t.next_page = Pages /\ DOMAIN s.next_page = Pages
      /\ t.next_page[r + 1] = s.last_page
      /\ \A q \in (r + 2)..(r + g) : t.next_page[q] = q - 1
      /\ \A q \in R : t.next_page[q] = s.next_page[q]
  <2>1. DOMAIN t.next_page = Pages /\ DOMAIN s.next_page = Pages
    BY DEF GrowStep, SlabType
  <2>2. \A q \in Pages : t.next_page[q] = IF q \notin N THEN s.next_page[q]
                                          ELSE IF q = r + 1 THEN s.last_page ELSE q - 1
    BY DEF GrowStep
  <2>3. r + 1 \in N /\ \A q \in (r + 2)..(r + g) : q \in N /\ q # r + 1
    BY <1>1
  <2>. QED
    BY <1>2, <2>1, <2>2, <2>3
<1>4. \A q \in R : PageExhausted(t, q) <=> PageExhausted(s, q)
  <2>. SUFFICES ASSUME NEW q \in R PROVE PageExhausted(t, q) <=> PageExhausted(s, q)
    OBVIOUS
  <2>1. /\ t.free_ptr[q] = s.free_ptr[q] /\ t.drop_ptr[q] = s.drop_ptr[q]
        /\ t.free_counter[q] = s.free_counter[q]
    BY <1>2 DEF GrowStep
  <2>. QED
    BY <2>1 DEF PageExhausted
<1>5. \A q \in N : ~PageExhausted(t, q)
  <2>. SUFFICES ASSUME NEW q \in N PROVE ~PageExhausted(t, q)
    OBVIOUS
  <2>1. t.free_counter[q] = CellsPerPage
    BY <1>2 DEF GrowStep
  <2>. QED
    BY <2>1, SlabAssumption DEF PageExhausted
<1>6. /\ Ends(s.last_page, s.next_page, NoPage)
      /\ Following(s.last_page, s.next_page, NoPage) \subseteq R
  BY DEF Stack, PageStack
<1>. HIDE DEF r
<1>7. NoPage \notin N
  BY <1>2, Marks
<1>8. /\ Following(r + g, t.next_page, NoPage) = N \cup Following(s.last_page, s.next_page, NoPage)
      /\ Ends(r + g, t.next_page, NoPage)
  <2>. DEFINE first == s.last_page
              next == s.next_page
              new == t.next_page
  <2>1. Ends(first, next, NoPage)
    BY <1>6
  <2>2. PushesRange(next, new, NoPage, first, r, g)
    BY <1>2, <1>3, <1>6, <1>7 DEF PushesRange
  <2>. HIDE DEF first, next, new
  <2>3. /\ Following(r + g, new, NoPage) = (r + 1)..(r + g) \cup Following(first, next, NoPage)
        /\ Ends(r + g, new, NoPage)
    BY <1>1, <2>1, <2>2, ListPushRange
  <2>. QED
    BY <2>3 DEF first, next, new
<1>9. PageStack(t) = N \cup PageStack(s) /\ Ends(t.last_page, t.next_page, NoPage)
  BY <1>1, <1>8 DEF PageStack
<1>10. PageStack(s) = {q \in R : ~PageExhausted(s, q)}
  BY DEF Stack, r
<1>. QED
  BY <1>2, <1>4, <1>5, <1>9, <1>10 DEF Stack

-----------------------------------------------------------------------------
(* Counting                                                                *)

\* Quotient and remainder
LEMMA Division ==
  ASSUME NEW d \in Nat, NEW n \in Nat \ {0}
  PROVE  d = (n * (d \div n)) + (d % n) /\ d % n \in 0..(n - 1) /\ d \div n \in Nat
OBVIOUS

\* More pages have more cells.
LEMMA ProductMonotone ==
  ASSUME NEW a \in Nat, NEW b \in Nat, NEW n \in Nat, a <= b
  PROVE  a * n <= b * n /\ a * n \in Nat /\ b * n \in Nat
OBVIOUS

\* The cells of g new pages
LEMMA CellsOfPages ==
  ASSUME NEW a \in Nat, NEW g \in Nat
  PROVE  /\ IsFiniteSet(((a + 1)..(a + g)) \X Indices)
         /\ Cardinality(((a + 1)..(a + g)) \X Indices) = g * CellsPerPage
<1>. DEFINE N == (a + 1)..(a + g)
<1>1. IsFiniteSet(N) /\ Cardinality(N) = g
  BY FS_Interval
<1>2. IsFiniteSet(Indices) /\ Cardinality(Indices) = CellsPerPage
  BY FS_Interval, SlabAssumption DEF Indices
<1>. HIDE DEF N
<1>3. IsFiniteSet(N \X Indices) /\ Cardinality(N \X Indices) = g * CellsPerPage
  BY <1>1, <1>2, FS_Product
<1>. QED
  BY <1>3 DEF N

\* Any cells of the reserved pages can be counted in a size_t.
LEMMA CellsCount ==
  ASSUME NEW r \in 0..MaxPages, NEW S \in SUBSET ((1..r) \X Indices)
  PROVE  IsFiniteSet(S) /\ Cardinality(S) \in 0..SizeMax
<1>. DEFINE A == (1..r) \X Indices
<1>1. r \in Nat /\ MaxPages \in Nat /\ SizeMax \in Nat /\ CellsPerPage \in Nat
  BY SlabAssumption
<1>2. IsFiniteSet(A) /\ Cardinality(A) = r * CellsPerPage
  <2>1. 0 + 1 = 1 /\ 0 + r = r /\ 0 \in Nat
    BY <1>1
  <2>2. IsFiniteSet(((0 + 1)..(0 + r)) \X Indices)
        /\ Cardinality(((0 + 1)..(0 + r)) \X Indices) = r * CellsPerPage
    BY <1>1, <2>1, CellsOfPages
  <2>. QED
    BY <2>1, <2>2
<1>3. r * CellsPerPage <= MaxPages * CellsPerPage
  BY <1>1, ProductMonotone
<1>. HIDE DEF A
<1>4. IsFiniteSet(S) /\ Cardinality(S) <= Cardinality(A) /\ Cardinality(S) \in Nat
  BY <1>2, FS_Subset, FS_CardinalityType DEF A
<1>5. MaxPages * CellsPerPage <= SizeMax
  BY SlabAssumption
<1>6. r * CellsPerPage \in Nat /\ MaxPages * CellsPerPage \in Nat
  BY <1>1, ProductMonotone
<1>. QED
  BY <1>1, <1>2, <1>3, <1>4, <1>5, <1>6

-----------------------------------------------------------------------------
(* One operation at a time                                                 *)

\* SlabInv, of any slab, set of live cells and fields of theirs
Good(s, L, F) ==
    /\ s \in SlabType
    /\ F \in [Cells -> BOOLEAN]
    /\ ListsEnd(s)
    /\ (1..s.reserved) \X Indices = L \cup Available(s)
    /\ L \cap Available(s) = {}
    /\ Disjoint(s)
    /\ s.num_free_cells = Cardinality(Available(s))
    /\ Stack(s)
    /\ \A c \in OnDropList(s) : F[c]
    /\ \A c \in OnFreeList(s) : ~F[c]

\* What Drop(c) makes of the slab
Dropped(s, c, F) == defer_drop(s, c, F[c])

\* t is s with one more available cell.
AfterDrop(s, L, F, c, t) ==
    /\ Good(t, L \ {c}, F)
    /\ Available(t) = Available(s) \cup {c}
    /\ OnDropList(t) = OnDropList(s) \cup (IF F[c] THEN {c} ELSE {})
    /\ \A d \in Cells \ {c} : t.refcount[d] = s.refcount[d]

\* A drop keeps the slab good and makes the dropped cell available.
LEMMA GoodDrop ==
  ASSUME NEW s, NEW L, NEW F, Good(s, L, F), NEW c \in L, NEW t, t = Dropped(s, c, F)
  PROVE  AfterDrop(s, L, F, c, t)
<1>1. /\ s \in SlabType /\ s.reserved \in 0..MaxPages /\ F \in [Cells -> BOOLEAN]
      /\ (1..s.reserved) \X Indices \subseteq Cells
  <2>1. s \in SlabType /\ s.reserved \in 0..MaxPages
    BY DEF Good, SlabType
  <2>. QED
    BY <2>1, PlaceOfCell DEF Good
<1>2. c \in (1..s.reserved) \X Indices /\ c \notin Available(s) /\ F[c] \in BOOLEAN
  BY <1>1 DEF Good
<1>3. PICK p \in 1..s.reserved, i \in Indices : c = <<p, i>>
  BY <1>2
<1>. DEFINE h == F[c]
<1>4. DropStep(s, t, p, i, h)
  <2>1. p \in Pages
    BY <1>1, <1>2, <1>3 DEF Cells
  <2>. QED
    BY <1>1, <1>2, <1>3, <2>1, DropFields DEF Dropped
<1>5. h \in BOOLEAN
  BY <1>2
<1>. HIDE DEF h
<1>6. /\ ListsEnd(t)
      /\ OnFreeList(t) = OnFreeList(s) \cup (IF h THEN {} ELSE {c})
      /\ OnDropList(t) = OnDropList(s) \cup (IF h THEN {c} ELSE {})
      /\ Virgin(t) = Virgin(s)
  BY <1>1, <1>2, <1>3, <1>4, <1>5, DropCells DEF Good
<1>7. Available(t) = Available(s) \cup {c}
  BY <1>6 DEF Available
<1>8. t.reserved = s.reserved /\ t.num_free_cells = s.num_free_cells + 1
  BY <1>4 DEF DropStep
<1>9. /\ (1..t.reserved) \X Indices = (L \ {c}) \cup Available(t)
      /\ (L \ {c}) \cap Available(t) = {}
  BY <1>7, <1>8 DEF Good
<1>10. t.num_free_cells = Cardinality(Available(t)) /\ t.num_free_cells \in 0..SizeMax
  <2>1. IsFiniteSet(Available(s))
    BY <1>1, CellsCount DEF Good
  <2>2. Cardinality(Available(t)) = Cardinality(Available(s)) + 1
    BY <1>2, <1>7, <2>1, FS_AddElement
  <2>3. Cardinality(Available(t)) \in 0..SizeMax
    BY <1>1, <1>8, <1>9, CellsCount
  <2>. QED
    BY <1>8, <2>2, <2>3 DEF Good
<1>11. t \in SlabType
  <2>1. p \in Pages
    BY <1>1, <1>2, <1>3 DEF Cells
  <2>. QED
    BY <1>1, <1>4, <1>5, <1>10, <2>1, DropTyped
<1>12. Disjoint(t)
  BY <1>2, <1>6 DEF Disjoint, Good, Available
<1>13. Stack(t)
  BY <1>1, <1>3, <1>4, <1>5, DropStack DEF Good
<1>14. (\A d \in OnDropList(t) : F[d]) /\ (\A d \in OnFreeList(t) : ~F[d])
  BY <1>5, <1>6 DEF Good, h
<1>15. \A d \in Cells \ {c} : t.refcount[d] = s.refcount[d]
  BY <1>1, <1>3, <1>4 DEF DropStep, SlabType
<1>16. Good(t, L \ {c}, F)
  BY <1>1, <1>6, <1>9, <1>10, <1>11, <1>12, <1>13, <1>14 DEF Good
<1>. QED
  BY <1>6, <1>7, <1>15, <1>16 DEF h, AfterDrop

\* A pop returns a cell that was available, which its client owns from then on.
LEMMA GoodPop ==
  ASSUME NEW s, NEW L, NEW F, Good(s, L, F), s.last_page # NoPage, NEW c, c = Popped(s).cell,
         NEW t, t = pop_free(s)
  PROVE  /\ Good(t, L \cup {c}, F)
         /\ c \in Available(s) /\ Available(t) = Available(s) \ {c}
         /\ OnDropList(t) = OnDropList(s) \ {c}
         /\ Popped(s).source = "drop" <=> c \in OnDropList(s)
         /\ t.refcount = s.refcount
<1>. DEFINE p == s.last_page
            from == Popped(s).source
<1>1. /\ s \in SlabType /\ s.reserved \in 0..MaxPages /\ F \in [Cells -> BOOLEAN]
      /\ (1..s.reserved) \X Indices \subseteq Cells
  <2>1. s \in SlabType /\ s.reserved \in 0..MaxPages
    BY DEF Good, SlabType
  <2>. QED
    BY <2>1, PlaceOfCell DEF Good
<1>2. p \in 1..s.reserved /\ ~PageExhausted(s, p)
  BY ListHead DEF Good, Stack, PageStack
<1>3. p \in Pages
  BY <1>1, <1>2, SlabAssumption DEF Pages
<1>4. PopFrom(s, p, from, c) /\ PopStep(s, t, p, from, c)
  BY <1>1, <1>3, PopSource, PopFields
<1>. HIDE DEF p, from
<1>5. PagePopped(s, t, p, from, c)
  BY <1>1, <1>2, <1>4, PopPage DEF Good
<1>6. /\ c \in Available(s)
      /\ from = "drop" <=> c \in OnDropList(s)
      /\ ListsEnd(t)
      /\ OnFreeList(t) = OnFreeList(s) \ {c}
      /\ OnDropList(t) = OnDropList(s) \ {c}
      /\ Virgin(t) = Virgin(s) \ {c}
  BY <1>1, <1>2, <1>4, <1>5, PopCells DEF Good
<1>7. Available(t) = Available(s) \ {c}
  BY <1>6 DEF Available
<1>8. t.reserved = s.reserved /\ t.num_free_cells = s.num_free_cells - 1
  BY <1>4 DEF PopStep
<1>9. /\ (1..t.reserved) \X Indices = (L \cup {c}) \cup Available(t)
      /\ (L \cup {c}) \cap Available(t) = {}
  BY <1>6, <1>7, <1>8 DEF Good
<1>10. t.num_free_cells = Cardinality(Available(t)) /\ t.num_free_cells \in 0..SizeMax
  <2>1. IsFiniteSet(Available(s))
    BY <1>1, CellsCount DEF Good
  <2>2. Cardinality(Available(t)) = Cardinality(Available(s)) - 1
    BY <1>6, <1>7, <2>1, FS_RemoveElement
  <2>3. Cardinality(Available(t)) \in 0..SizeMax
    BY <1>1, <1>8, <1>9, CellsCount
  <2>. QED
    BY <1>8, <2>2, <2>3 DEF Good
<1>11. c \in Cells
  BY <1>1, <1>6 DEF Good
<1>12. t \in SlabType
  <2>1. /\ from \in {"free", "drop"} => s.refcount[c] \in Indices \cup {CTRC_NO_CELL}
        /\ from = "virgin" => s.free_counter[p] > 0
    BY <1>5 DEF PagePopped
  <2>. QED
    BY <1>1, <1>3, <1>4, <1>10, <1>11, <2>1, PopTyped
<1>13. Disjoint(t)
  BY <1>6 DEF Disjoint, Good
<1>14. Stack(t)
  <2>1. Stack(s) /\ s.last_page = p
    BY DEF Good, p
  <2>. QED
    BY <1>1, <1>2, <1>4, <2>1, PopStack
<1>15. (\A d \in OnDropList(t) : F[d]) /\ (\A d \in OnFreeList(t) : ~F[d])
  BY <1>6 DEF Good
<1>16. Good(t, L \cup {c}, F)
  BY <1>1, <1>6, <1>9, <1>10, <1>12, <1>13, <1>14, <1>15 DEF Good
<1>17. t.refcount = s.refcount
  BY <1>4 DEF PopStep
<1>. QED
  BY <1>6, <1>7, <1>16, <1>17 DEF from

\* s after its client wrote n to the refcount of cell c
Written(s, c, n) == [s EXCEPT !.refcount[c] = n]

\* The fields of no cell but c change.
OtherFields(G, F, c) == \A d \in Cells \ {c} : G[d] = F[d]

\* The client of a cell may write its header: no list runs through it.
LEMMA GoodWrite ==
  ASSUME NEW s, NEW L, NEW F, Good(s, L, F), NEW c \in L, NEW n \in Nat,
         NEW t, t = Written(s, c, n), NEW G \in [Cells -> BOOLEAN],
         OtherFields(G, F, c)
  PROVE  /\ Good(t, L, G)
         /\ Available(t) = Available(s) /\ OnDropList(t) = OnDropList(s)
         /\ t.refcount[c] = n /\ \A d \in Cells \ {c} : t.refcount[d] = s.refcount[d]
<1>1. /\ s \in SlabType /\ s.reserved \in 0..MaxPages
      /\ (1..s.reserved) \X Indices \subseteq Cells
  <2>1. s \in SlabType /\ s.reserved \in 0..MaxPages
    BY DEF Good, SlabType
  <2>. QED
    BY <2>1, PlaceOfCell DEF Good
<1>2. c \in (1..s.reserved) \X Indices /\ c \notin Available(s) /\ c \in Cells
  BY <1>1 DEF Good
<1>3. PICK p \in 1..s.reserved, i \in Indices : c = <<p, i>>
  BY <1>2
<1>4. /\ IsSlab(t)
      /\ t.last_page = s.last_page /\ t.num_free_cells = s.num_free_cells
      /\ t.reserved = s.reserved /\ t.free_ptr = s.free_ptr /\ t.drop_ptr = s.drop_ptr
      /\ t.free_counter = s.free_counter /\ t.next_page = s.next_page
      /\ t.refcount = [s.refcount EXCEPT ![c] = n]
  BY <1>1 DEF SlabType, IsSlab, Written
<1>5. s.refcount \in [Cells -> Nat] /\ t.refcount \in [Cells -> Nat]
  BY <1>1, <1>4 DEF SlabType
<1>6. t \in SlabType
  BY <1>1, <1>4, <1>5, SlabTyped DEF SlabType
<1>7. ASSUME NEW q \in 1..s.reserved
      PROVE  /\ FreeIndices(t, q) = FreeIndices(s, q)
             /\ DropIndices(t, q) = DropIndices(s, q)
             /\ PageEnds(t, q)
  <2>1. PageEnds(s, q)
    BY DEF Good, ListsEnd, PageEnds
  <2>2. \A j \in Indices : <<q, j>> \in Cells
    BY <1>1
  <2>3. CASE q # p
    <3>1. \A j \in Indices : t.refcount[<<q, j>>] = s.refcount[<<q, j>>]
      BY <1>3, <1>4, <1>5, <2>2, <2>3
    <3>. QED
      BY <1>4, <2>1, <3>1, PageUntouched
  <2>4. CASE q = p
    <3>. DEFINE old == Links(s, q)
                new == Links(t, q)
    <3>1. i \notin FreeIndices(s, q) /\ i \notin DropIndices(s, q)
      BY <1>1, <1>2, <1>3, <2>4, PlaceOfCell DEF Available
    <3>2. /\ DOMAIN old = Indices /\ DOMAIN new = Indices
          /\ \A j \in DOMAIN old : j # i => new[j] = old[j]
      BY <1>3, <1>4, <1>5, <2>2, <2>4 DEF Links
    <3>. HIDE DEF old, new
    <3>3. /\ Following(s.free_ptr[q], new, CTRC_NO_CELL) = FreeIndices(s, q)
          /\ Ends(s.free_ptr[q], new, CTRC_NO_CELL)
      BY <2>1, <3>1, <3>2, ListOff DEF FreeIndices, PageEnds, old
    <3>4. /\ Following(s.drop_ptr[q], new, CTRC_NO_CELL) = DropIndices(s, q)
          /\ Ends(s.drop_ptr[q], new, CTRC_NO_CELL)
      BY <2>1, <3>1, <3>2, ListOff DEF DropIndices, PageEnds, old
    <3>. QED
      BY <1>4, <3>3, <3>4 DEF FreeIndices, DropIndices, PageEnds, new
  <2>. QED
    BY <2>3, <2>4
<1>8. ListsEnd(t)
  BY <1>4, <1>7 DEF ListsEnd, PageEnds
<1>9. OnFreeList(t) = OnFreeList(s) /\ OnDropList(t) = OnDropList(s)
  BY <1>4, <1>7 DEF OnFreeList, OnDropList
<1>10. Virgin(t) = Virgin(s)
  BY <1>4 DEF Virgin
<1>11. Available(t) = Available(s) /\ Disjoint(t)
  BY <1>9, <1>10 DEF Available, Disjoint, Good
<1>12. Stack(t)
  BY <1>4 DEF Good, Stack, PageStack, PageExhausted
<1>13. (\A d \in OnDropList(t) : G[d]) /\ (\A d \in OnFreeList(t) : ~G[d])
  <2>1. OnDropList(s) \subseteq Cells \ {c} /\ OnFreeList(s) \subseteq Cells \ {c}
    BY <1>1, <1>2 DEF Good, Available
  <2>. QED
    BY <1>9, <2>1 DEF Good, OtherFields
<1>14. Good(t, L, G)
  BY <1>4, <1>6, <1>8, <1>11, <1>12, <1>13 DEF Good
<1>15. t.refcount[c] = n /\ \A d \in Cells \ {c} : t.refcount[d] = s.refcount[d]
  BY <1>2, <1>4, <1>5
<1>. QED
  BY <1>9, <1>11, <1>14, <1>15

\* Growing keeps the slab good and adds exactly the cells it counts.
LEMMA GoodGrow ==
  ASSUME NEW s, NEW L, NEW F, Good(s, L, F), NEW g \in Nat \ {0}, s.reserved + g <= MaxPages,
         NEW t, t = Grown(s, g)
  PROVE  /\ Good(t, L, F)
         /\ Available(s) \subseteq Available(t)
         /\ Cardinality(Available(t)) = Cardinality(Available(s)) + g * CellsPerPage
         /\ OnDropList(t) = OnDropList(s) /\ t.refcount = s.refcount
<1>. DEFINE r == s.reserved
            N == (r + 1)..(r + g)
            V == N \X Indices
<1>1. s \in SlabType /\ r \in 0..MaxPages /\ r \in Nat
  BY SlabAssumption DEF Good, SlabType
<1>2. GrowStep(s, t, g)
  BY <1>1, GrowFields
<1>3. t.reserved = r + g /\ t.num_free_cells = s.num_free_cells + g * CellsPerPage
  BY <1>2 DEF GrowStep
<1>4. t.reserved \in 0..MaxPages /\ 1..t.reserved = (1..r) \cup N /\ (1..r) \cap N = {}
  BY <1>1, <1>3, SlabAssumption
<1>5. /\ ListsEnd(t)
      /\ OnFreeList(t) = OnFreeList(s)
      /\ OnDropList(t) = OnDropList(s)
      /\ Virgin(t) = Virgin(s) \cup V
  BY <1>1, <1>2, GrowCells DEF Good
<1>6. IsFiniteSet(V) /\ Cardinality(V) = g * CellsPerPage
  BY <1>1, CellsOfPages
<1>7. V \cap ((1..r) \X Indices) = {}
  BY <1>4
<1>8. (1..t.reserved) \X Indices = ((1..r) \X Indices) \cup V
  BY <1>4
<1>9. (1..r) \X Indices = L \cup Available(s) /\ L \cap Available(s) = {}
  BY DEF Good
<1>. HIDE DEF V, r
<1>10. Available(t) = Available(s) \cup V
  BY <1>5 DEF Available
<1>11. /\ (1..t.reserved) \X Indices = L \cup Available(t)
       /\ L \cap Available(t) = {}
  BY <1>7, <1>8, <1>9, <1>10
<1>12. Cardinality(Available(t)) = Cardinality(Available(s)) + g * CellsPerPage
  <2>1. IsFiniteSet(Available(s)) /\ Cardinality(Available(s)) \in Nat
    BY <1>1, <1>9, CellsCount
  <2>2. Available(s) \cap V = {}
    BY <1>7, <1>9
  <2>3. Cardinality(Available(s) \cup V)
          = Cardinality(Available(s)) + Cardinality(V) - Cardinality(Available(s) \cap V)
    BY <1>6, <2>1, FS_Union
  <2>4. Cardinality(Available(s) \cap V) = 0 /\ Cardinality(V) \in Nat
    BY <1>6, <2>2, FS_EmptySet, FS_CardinalityType
  <2>. QED
    BY <1>6, <1>10, <2>1, <2>3, <2>4
<1>13. t.num_free_cells = Cardinality(Available(t)) /\ t.num_free_cells \in 0..SizeMax
  <2>1. Cardinality(Available(t)) \in 0..SizeMax
    BY <1>4, <1>11, CellsCount
  <2>. QED
    BY <1>3, <1>12, <2>1 DEF Good
<1>14. t \in SlabType
  BY <1>1, <1>2, <1>13, GrowTyped
<1>15. Disjoint(t)
  BY <1>5, <1>7, <1>9 DEF Disjoint, Good, Available
<1>16. Stack(t)
  BY <1>1, <1>2, GrowStack DEF Good
<1>17. (\A d \in OnDropList(t) : F[d]) /\ (\A d \in OnFreeList(t) : ~F[d])
       /\ F \in [Cells -> BOOLEAN]
  BY <1>5 DEF Good
<1>18. Good(t, L, F)
  BY <1>5, <1>11, <1>13, <1>14, <1>15, <1>16, <1>17 DEF Good
<1>19. t.refcount = s.refcount
  BY <1>2 DEF GrowStep
<1>. QED
  BY <1>5, <1>10, <1>12, <1>18, <1>19

\* reserve keeps the slab good, loses no available cell, and leaves enough of them for the
\* request when it returns true: the shortfall, rounded up, covers what is missing.
LEMMA GoodReserve ==
  ASSUME NEW s, NEW L, NEW F, Good(s, L, F), NEW n \in Nat, NEW m \in BOOLEAN,
         NEW t, t = reserve(s, n, m)
  PROVE  /\ Good(t, L, F)
         /\ Available(s) \subseteq Available(t)
         /\ Cardinality(Available(s)) <= Cardinality(Available(t))
         /\ reserve_ok(s, n, m) => n * CellsPerPage <= Cardinality(Available(t))
         /\ OnDropList(t) = OnDropList(s) /\ t.refcount = s.refcount
<1>. DEFINE free == Cardinality(Available(s))
            need == n * CellsPerPage
<1>1. /\ free \in Nat /\ need \in Nat /\ s.num_free_cells = free
      /\ s.reserved \in 0..MaxPages /\ s.reserved \in Nat
  <2>1. s.reserved \in 0..MaxPages /\ s.num_free_cells = free /\ free \in Nat
    BY SlabAssumption DEF Good, SlabType
  <2>2. need \in Nat
    BY SlabAssumption, ProductMonotone
  <2>. QED
    BY <2>1, <2>2, SlabAssumption
<1>. HIDE DEF free, need
<1>2. CASE ~(reserve_ok(s, n, m) /\ ~EnoughCells(s, n))
  <2>1. t = s
    BY <1>2 DEF reserve
  <2>2. reserve_ok(s, n, m) => need <= free
    BY <1>1, <1>2 DEF EnoughCells, need
  <2>. QED
    BY <1>1, <2>1, <2>2 DEF free, need
<1>3. CASE reserve_ok(s, n, m) /\ ~EnoughCells(s, n)
  <2>. DEFINE g == Shortfall(s, n)
              d == need - free
  <2>1. t = Grown(s, g) /\ s.reserved + g <= MaxPages
    BY <1>3 DEF reserve, reserve_ok, BackendHas
  <2>2. d \in Nat \ {0}
    BY <1>1, <1>3 DEF EnoughCells, need
  <2>3. g = d \div CellsPerPage + (IF d % CellsPerPage # 0 THEN 1 ELSE 0)
    BY <1>1 DEF Shortfall, need
  <2>. DEFINE q == d \div CellsPerPage
              k == d % CellsPerPage
  <2>4. d = (CellsPerPage * q) + k /\ k \in 0..(CellsPerPage - 1) /\ q \in Nat
    BY <2>2, Division, SlabAssumption
  <2>5. g = q + (IF k # 0 THEN 1 ELSE 0)
    BY <2>3
  <2>. HIDE DEF d, g, q, k
  <2>6. g \in Nat \ {0} /\ d <= g * CellsPerPage
    <3>1. CASE k = 0
      BY <2>2, <2>4, <2>5, <3>1, SlabAssumption
    <3>2. CASE k # 0
      BY <2>2, <2>4, <2>5, <3>2, SlabAssumption
    <3>. QED
      BY <3>1, <3>2
  <2>7. /\ Good(t, L, F)
        /\ Available(s) \subseteq Available(t)
        /\ Cardinality(Available(t)) = free + g * CellsPerPage
        /\ OnDropList(t) = OnDropList(s) /\ t.refcount = s.refcount
    BY <2>1, <2>6, GoodGrow DEF free
  <2>8. g * CellsPerPage \in Nat
    BY <2>6, ProductMonotone, SlabAssumption
  <2>9. free <= Cardinality(Available(t)) /\ need <= Cardinality(Available(t))
    BY <1>1, <2>2, <2>6, <2>7, <2>8 DEF d
  <2>. QED
    BY <2>7, <2>9 DEF free, need
<1>. QED
  BY <1>2, <1>3

\* The slab is good before the first reserve.
LEMMA EmptyIsGood ==
  ASSUME NEW F \in [Cells -> BOOLEAN], \A c \in Cells : F[c] = FALSE
  PROVE  /\ Good(EmptySlab, {}, F)
         /\ Available(EmptySlab) = {} /\ Cardinality(Available(EmptySlab)) = 0
<1>. DEFINE s == EmptySlab
<1>1. s.reserved = 0 /\ s.last_page = NoPage /\ s.num_free_cells = 0 /\ s \in SlabType
  BY SlabAssumption DEF EmptySlab, SlabType
<1>2. 1..s.reserved = {} /\ s.reserved \in 0..MaxPages
  BY <1>1, SlabAssumption
<1>. HIDE DEF s
<1>3. OnFreeList(s) = {} /\ OnDropList(s) = {} /\ Virgin(s) = {}
  BY <1>2 DEF OnFreeList, OnDropList, Virgin
<1>4. Available(s) = {} /\ Disjoint(s) /\ ListsEnd(s)
  BY <1>2, <1>3 DEF Available, Disjoint, ListsEnd
<1>5. Stack(s)
  BY <1>1, <1>2, ListEmpty DEF Stack, PageStack
<1>6. Cardinality(Available(s)) = 0
  BY <1>4, FS_EmptySet
<1>7. Good(s, {}, F)
  BY <1>1, <1>2, <1>3, <1>4, <1>5, <1>6 DEF Good
<1>. QED
  BY <1>4, <1>6, <1>7 DEF s

\* The available cells of a good slab are cells, none of them live, and there are finitely
\* many.
LEMMA GoodCells ==
  ASSUME NEW s, NEW L, NEW F, Good(s, L, F)
  PROVE  /\ Available(s) \subseteq Cells /\ L \subseteq Cells /\ L \cap Available(s) = {}
         /\ IsFiniteSet(Available(s)) /\ Cardinality(Available(s)) \in Nat
<1>1. s.reserved \in 0..MaxPages
  BY DEF Good, SlabType
<1>2. (1..s.reserved) \X Indices \subseteq Cells
  BY <1>1, PlaceOfCell
<1>3. IsFiniteSet(Available(s))
  BY <1>1, CellsCount DEF Good
<1>. QED
  BY <1>2, <1>3, FS_CardinalityType DEF Good

=============================================================================
