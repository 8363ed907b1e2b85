----------------------------- MODULE CtrcPages -----------------------------
(***************************************************************************)
(* The pages of the CTRC slab (nac3core/irrt/irrt/ctrc): what defer_drop,  *)
(* pop_free and reserve do to the free lists, the drop lists, the virgin   *)
(* cells and the stack of available pages, as operators from slab to slab. *)
(*                                                                         *)
(* A cell is <<page, index>>, pages are numbered in the order the backend  *)
(* returns them.  The lists store no pointers of their own: the link of a  *)
(* dropped cell overwrites the refcount word of its header, here too.      *)
(***************************************************************************)
EXTENDS Naturals, FiniteSets

CONSTANTS
    CellsPerPage,  \* CTRC_CELLS_PER_PAGE
    PageBytes,     \* CTRC_PAGE_SIZE
    SizeMax,       \* the largest size_t
    MaxPages       \* bound: the pages the runtime heap can hold

ASSUME SlabAssumption ==
    /\ CellsPerPage \in Nat \ {0}
    /\ PageBytes \in Nat \ {0}
    /\ MaxPages \in Nat /\ SizeMax \in Nat
    /\ MaxPages * CellsPerPage <= SizeMax

NoPage == 0
Pages == 1..MaxPages
Indices == 0..(CellsPerPage - 1)
CTRC_NO_CELL == CellsPerPage   \* a value that is no index, as 0xffffffff is none
Cells == Pages \X Indices

page_of(c) == c[1]
cell_index(c) == c[2]

EmptySlab ==
    [last_page |-> NoPage, num_free_cells |-> 0, reserved |-> 0,
     free_ptr |-> [p \in Pages |-> CTRC_NO_CELL],
     drop_ptr |-> [p \in Pages |-> CTRC_NO_CELL],
     free_counter |-> [p \in Pages |-> 0],
     next_page |-> [p \in Pages |-> NoPage],
     refcount |-> [c \in Cells |-> 0]]

\* Every field holds a value of its C++ type: a page or null, an index or the end mark.
SlabType ==
    [last_page : Pages \cup {NoPage}, num_free_cells : 0..SizeMax, reserved : 0..MaxPages,
     free_ptr : [Pages -> Indices \cup {CTRC_NO_CELL}],
     drop_ptr : [Pages -> Indices \cup {CTRC_NO_CELL}],
     free_counter : [Pages -> 0..CellsPerPage],
     next_page : [Pages -> Pages \cup {NoPage}],
     refcount : [Cells -> Nat]]

PageExhausted(s, p) ==
    s.free_ptr[p] = CTRC_NO_CELL /\ s.drop_ptr[p] = CTRC_NO_CELL /\ s.free_counter[p] = 0

-----------------------------------------------------------------------------
(* defer_drop *)

Link(s, p) ==
    IF PageExhausted(s, p)
    THEN [s EXCEPT !.next_page[p] = s.last_page, !.last_page = p]
    ELSE s

\* Mutant: the two list heads are swapped when the link is written
defer_drop_WrongLink(s, c, has_children) ==
    LET p == page_of(c)
        linked == [Link(s, p) EXCEPT !.num_free_cells = @ + 1]
    IN  IF has_children
        THEN [linked EXCEPT !.refcount[c] = s.free_ptr[p], !.drop_ptr[p] = cell_index(c)]
        ELSE [linked EXCEPT !.refcount[c] = s.drop_ptr[p], !.free_ptr[p] = cell_index(c)]

defer_drop(s, c, has_children) ==
    LET p == page_of(c)
        linked == [Link(s, p) EXCEPT !.num_free_cells = @ + 1]
    IN  IF has_children
        THEN [linked EXCEPT !.refcount[c] = s.drop_ptr[p], !.drop_ptr[p] = cell_index(c)]
        ELSE [linked EXCEPT !.refcount[c] = s.free_ptr[p], !.free_ptr[p] = cell_index(c)]

-----------------------------------------------------------------------------
(* pop_free, for a slab whose last_page is a page *)

\* the cell it returns, and which of the three sources it comes from
Popped(s) ==
    LET p == s.last_page
    IN  IF s.free_ptr[p] # CTRC_NO_CELL
        THEN [cell |-> <<p, s.free_ptr[p]>>, source |-> "free"]
        ELSE IF s.free_counter[p] > 0
        THEN [cell |-> <<p, s.free_counter[p] - 1>>, source |-> "virgin"]
        ELSE [cell |-> <<p, s.drop_ptr[p]>>, source |-> "drop"]

\* Mutant: the drop list keeps the cell it returns
Taken_KeepsHead(s) ==
    LET p == s.last_page
        c == Popped(s).cell
    IN  CASE Popped(s).source = "free"   -> [s EXCEPT !.free_ptr[p] = s.refcount[c]]
          [] Popped(s).source = "virgin" -> [s EXCEPT !.free_counter[p] = @ - 1]
          [] Popped(s).source = "drop"   -> s

Taken(s) ==
    LET p == s.last_page
        c == Popped(s).cell
    IN  CASE Popped(s).source = "free"   -> [s EXCEPT !.free_ptr[p] = s.refcount[c]]
          [] Popped(s).source = "virgin" -> [s EXCEPT !.free_counter[p] = @ - 1]
          [] Popped(s).source = "drop"   -> [s EXCEPT !.drop_ptr[p] = s.refcount[c]]

\* Mutant: the page is unlinked although it has cells left
Unlink_Always(s) == [s EXCEPT !.last_page = s.next_page[s.last_page]]

Unlink(s) ==
    IF PageExhausted(s, s.last_page)
    THEN [s EXCEPT !.last_page = s.next_page[s.last_page]]
    ELSE s

pop_free(s) == [Unlink(Taken(s)) EXCEPT !.num_free_cells = @ - 1]

-----------------------------------------------------------------------------
(* reserve *)

\* ceil((need - free) / CellsPerPage) without the addition that could wrap
Shortfall(s, num_free_pages) ==
    LET delta == num_free_pages * CellsPerPage - s.num_free_cells
    IN  delta \div CellsPerPage + (IF delta % CellsPerPage # 0 THEN 1 ELSE 0)

CellsOverflow(num_free_pages) == num_free_pages * CellsPerPage > SizeMax

\* Mutant: the pages ever reserved count, not the cells that are free
EnoughCells_Cumulative(s, num_free_pages) == num_free_pages <= s.reserved

EnoughCells(s, num_free_pages) == num_free_pages * CellsPerPage <= s.num_free_cells

\* page_backend_alloc: the byte size fits in size_t, and malloc finds the room
BackendHas(s, grow) ==
    /\ grow * PageBytes + (PageBytes - 1) <= SizeMax
    /\ s.reserved + grow <= MaxPages

\* the new pages, all virgin, are pushed on the stack one after the other
Grown(s, grow) ==
    LET new == (s.reserved + 1)..(s.reserved + grow)
    IN  [s EXCEPT
          !.free_ptr = [p \in Pages |-> IF p \in new THEN CTRC_NO_CELL ELSE @[p]],
          !.drop_ptr = [p \in Pages |-> IF p \in new THEN CTRC_NO_CELL ELSE @[p]],
          !.free_counter = [p \in Pages |-> IF p \in new THEN CellsPerPage ELSE @[p]],
          !.next_page = [p \in Pages |->
              IF p \notin new THEN @[p]
              ELSE IF p = s.reserved + 1 THEN s.last_page ELSE p - 1],
          !.last_page = s.reserved + grow,
          !.reserved = @ + grow,
          !.num_free_cells = @ + grow * CellsPerPage]

\* whether reserve returns true; malloc may also fail for reasons of its own
reserve_ok(s, num_free_pages, malloc_ok) ==
    /\ ~CellsOverflow(num_free_pages)
    /\ \/ EnoughCells(s, num_free_pages)
       \/ malloc_ok /\ BackendHas(s, Shortfall(s, num_free_pages))

reserve(s, num_free_pages, malloc_ok) ==
    IF reserve_ok(s, num_free_pages, malloc_ok) /\ ~EnoughCells(s, num_free_pages)
    THEN Grown(s, Shortfall(s, num_free_pages))
    ELSE s

-----------------------------------------------------------------------------
(* Reading the structure back.  A list is the least set that holds what its *)
(* head points at and what the links of its members point at.               *)

Closed(S, first, next, none) ==
    /\ first \in S \cup {none}
    /\ \A i \in S : next[i] \in S \cup {none}

Following(first, next, none) ==
    {i \in DOMAIN next : \A S \in SUBSET DOMAIN next : Closed(S, first, next, none) => i \in S}

\* the links never leave the list, and one of them is the end mark
Ends(first, next, none) ==
    LET list == Following(first, next, none) IN
    /\ Closed(list, first, next, none)
    /\ first = none \/ \E i \in list : next[i] = none

Links(s, p) == [i \in Indices |-> s.refcount[<<p, i>>]]
FreeIndices(s, p) == Following(s.free_ptr[p], Links(s, p), CTRC_NO_CELL)
DropIndices(s, p) == Following(s.drop_ptr[p], Links(s, p), CTRC_NO_CELL)
PageStack(s) == Following(s.last_page, s.next_page, NoPage)

OnFreeList(s) == UNION {{p} \X FreeIndices(s, p) : p \in 1..s.reserved}
OnDropList(s) == UNION {{p} \X DropIndices(s, p) : p \in 1..s.reserved}
Virgin(s) == {c \in (1..s.reserved) \X Indices : cell_index(c) < s.free_counter[page_of(c)]}
Available(s) == OnFreeList(s) \cup OnDropList(s) \cup Virgin(s)

\* every list of a page ends
ListsEnd(s) ==
    \A p \in 1..s.reserved :
        /\ Ends(s.free_ptr[p], Links(s, p), CTRC_NO_CELL)
        /\ Ends(s.drop_ptr[p], Links(s, p), CTRC_NO_CELL)
=============================================================================
