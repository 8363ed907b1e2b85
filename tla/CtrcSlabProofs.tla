--------------------------- MODULE CtrcSlabProofs ---------------------------
(***************************************************************************)
(* The slab keeps its lists, its page stack and its count through every    *)
(* step of its clients, it keeps the promise of `with critical`, and it    *)
(* implements the pool of cells.  SlabInv and PromiseKept are inductive    *)
(* together; CtrcPagesProofs has what the operations do to the slab.       *)
(***************************************************************************)
EXTENDS CtrcSlab, CtrcPagesProofs

\* SlabInv says that the slab is good.
LEMMA SlabInvIsGood ==
  ASSUME TypeOK
  PROVE  SlabInv <=> Good(slab, live, has_fields)
<1>1. StackExact <=> Stack(slab)
  BY DEF StackExact, Stack
<1>2. EveryCellOnce <=> /\ ListsEnd(slab)
                        /\ (1..slab.reserved) \X Indices = live \cup Available(slab)
                        /\ live \cap Available(slab) = {}
                        /\ Disjoint(slab)
  BY DEF EveryCellOnce, Disjoint
<1>. QED
  BY <1>1, <1>2 DEF SlabInv, Good, CellCountExact, ChildrenNotForgotten, TypeOK

\* The inductive invariant
SlabIInv == SlabInv /\ PromiseKept

\* The invariant holds initially.
LEMMA SlabInit ==
  Init => SlabIInv
<1>. SUFFICES ASSUME Init PROVE SlabIInv
  OBVIOUS
<1>1. has_fields \in [Cells -> BOOLEAN] /\ \A c \in Cells : has_fields[c] = FALSE
  BY DEF Init
<1>2. Good(slab, live, has_fields) /\ Cardinality(Available(slab)) = 0
  BY <1>1, EmptyIsGood DEF Init
<1>3. TypeOK
  <2>1. slab \in SlabType
    BY <1>2 DEF Good
  <2>2. ctrc_mode_depth \in 0..MaxDepth
    BY ClientAssumption DEF Init
  <2>. QED
    BY <1>1, <2>1, <2>2 DEF TypeOK, Init
<1>. QED
  BY <1>2, <1>3, SlabInvIsGood DEF SlabIInv, PromiseKept, Init

\* What the steps start from and have to lead to
Start == /\ TypeOK /\ Good(slab, live, has_fields)
         /\ promised <= Cardinality(Available(slab))
         /\ Cardinality(Available(slab)) \in Nat

\* Start is the invariant, with what the steps use of it spelt out.
LEMMA StartIff ==
  SlabIInv <=> Start
<1>1. TypeOK => (SlabInv <=> Good(slab, live, has_fields))
  BY SlabInvIsGood
<1>2. Good(slab, live, has_fields) => Cardinality(Available(slab)) \in Nat
  BY GoodCells
<1>3. SlabInv => TypeOK
  BY DEF SlabInv
<1>. QED
  BY <1>1, <1>2, <1>3 DEF SlabIInv, Start, PromiseKept

\* What is left to show of a step that keeps the slab good
LEMMA StepStart ==
  ASSUME Start, Good(slab', live', has_fields'),
         ctrc_mode_depth' \in 0..MaxDepth, refused' \in BOOLEAN, promised' \in Nat,
         promised' <= Cardinality(Available(slab'))
  PROVE  Start'
<1>1. /\ slab' \in SlabType /\ has_fields' \in [Cells -> BOOLEAN]
      /\ live' \in SUBSET Cells /\ Cardinality(Available(slab')) \in Nat
  BY GoodCells DEF Good
<1>2. TypeOK'
  BY <1>1 DEF TypeOK
<1>. QED
  BY <1>1, <1>2 DEF Start

\* Entering a critical block keeps the invariant and is a Reserve of the pool.
LEMMA EnterStep ==
  ASSUME Start, NEW n \in PageRequests, NEW m \in BOOLEAN, Enter(n, m)
  PROVE  Start' /\ Pool!Reserve
<1>1. /\ slab' = reserve(slab, n, m) /\ live' = live /\ has_fields' = has_fields
      /\ n \in Nat /\ Good(slab, live, has_fields) /\ refused' = FALSE
      /\ promised' = IF reserve_ok(slab, n, m) THEN AtLeast(promised, n * CellsPerPage)
                     ELSE promised
  BY ClientAssumption DEF Enter, Start
<1>2. /\ Good(slab', live', has_fields')
      /\ Available(slab) \subseteq Available(slab')
      /\ Cardinality(Available(slab)) <= Cardinality(Available(slab'))
      /\ reserve_ok(slab, n, m) => n * CellsPerPage <= Cardinality(Available(slab'))
  BY <1>1, GoodReserve
<1>3. Cardinality(Available(slab')) \in Nat /\ n * CellsPerPage \in Nat
      /\ promised \in Nat /\ promised <= Cardinality(Available(slab))
      /\ Cardinality(Available(slab)) \in Nat
  <2>1. Cardinality(Available(slab')) \in Nat
    BY <1>2, GoodCells
  <2>2. n * CellsPerPage \in Nat
    BY <1>1, ProductMonotone, SlabAssumption
  <2>. QED
    BY <2>1, <2>2 DEF Start, TypeOK
<1>4. promised' \in Nat /\ promised' <= Cardinality(Available(slab'))
  <2>1. CASE reserve_ok(slab, n, m)
    <3>1. promised' = promised \/ promised' = n * CellsPerPage
      BY <1>1, <2>1 DEF AtLeast
    <3>. QED
      BY <1>2, <1>3, <2>1, <3>1
  <2>2. CASE ~reserve_ok(slab, n, m)
    BY <1>1, <1>2, <1>3, <2>2
  <2>. QED
    BY <2>1, <2>2
<1>5. ctrc_mode_depth' \in 0..MaxDepth
  BY ClientAssumption DEF Enter, Start, TypeOK
<1>6. Start'
  BY <1>1, <1>2, <1>4, <1>5, StepStart
<1>7. Available(slab') \subseteq Cells \ live
  BY <1>1, <1>2, GoodCells
<1>. QED
  BY <1>1, <1>2, <1>6, <1>7 DEF Pool!Reserve

\* Leaving a critical block keeps the invariant and is a Reserve of nothing.
LEMMA ExitStep ==
  ASSUME Start, Exit
  PROVE  Start' /\ Pool!Reserve
<1>1. /\ slab' = slab /\ live' = live /\ has_fields' = has_fields /\ refused' = FALSE
      /\ promised' = 0 \/ promised' = promised
  BY DEF Exit
<1>2. ctrc_mode_depth' \in 0..MaxDepth
  BY ClientAssumption DEF Exit, in_ctrc_mode, Start, TypeOK
<1>3. Good(slab', live', has_fields') /\ promised' \in Nat
      /\ promised' <= Cardinality(Available(slab'))
  BY <1>1 DEF Start, TypeOK
<1>4. Start'
  BY <1>1, <1>2, <1>3, StepStart
<1>5. Available(slab') \subseteq Cells \ live
  BY <1>1, <1>3, GoodCells
<1>. QED
  BY <1>1, <1>4, <1>5 DEF Pool!Reserve

\* An allocation keeps the invariant and takes a cell of the pool.
LEMMA AllocStep ==
  ASSUME Start, NEW fields \in BOOLEAN, Alloc(fields)
  PROVE  Start' /\ \E c \in Cells : Pool!Take(c)
<1>. DEFINE c == Popped(slab).cell
<1>1. /\ slab.last_page # NoPage /\ c = Popped(slab).cell
      /\ slab' = Written(pop_free(slab), c, 1)
      /\ live' = live \cup {c} /\ has_fields' = [has_fields EXCEPT ![c] = fields]
      /\ promised' = IF promised > 0 THEN promised - 1 ELSE 0
      /\ refused' = FALSE /\ ctrc_mode_depth' = ctrc_mode_depth
  BY DEF Alloc, Written
<1>2. Good(slab, live, has_fields) /\ promised \in Nat
      /\ promised <= Cardinality(Available(slab))
      /\ ctrc_mode_depth \in 0..MaxDepth /\ refused' \in BOOLEAN
  BY <1>1 DEF Start, TypeOK
<1>3. /\ Good(slab', live', has_fields')
      /\ c \in Available(slab) /\ Available(slab') = Available(slab) \ {c}
  <2>. HIDE DEF c
  <2>. DEFINE popped == pop_free(slab)
              L == live \cup {c}
              G == [has_fields EXCEPT ![c] = fields]
  <2>1. /\ Good(slab, live, has_fields) /\ slab.last_page # NoPage
        /\ c = Popped(slab).cell /\ popped = pop_free(slab)
        /\ L = live \cup {c}
    BY <1>1, <1>2
  <2>2. slab' = Written(popped, c, 1) /\ 1 \in Nat
    BY <1>1
  <2>3. live' = L /\ has_fields' = G
    BY <1>1
  <2>4. G \in [Cells -> BOOLEAN] /\ OtherFields(G, has_fields, c)
    BY <1>2 DEF Good, OtherFields
  <2>. HIDE DEF c, popped, L, G
  <2>5. /\ Good(popped, L, has_fields)
        /\ c \in Available(slab) /\ Available(popped) = Available(slab) \ {c}
    BY <2>1, GoodPop
  <2>6. c \in L
    BY <2>1
  <2>7. Good(slab', L, G) /\ Available(slab') = Available(popped)
    BY <2>2, <2>4, <2>5, <2>6, GoodWrite
  <2>. QED
    BY <2>5, <2>7, <2>3
<1>. HIDE DEF c
<1>4. promised' \in Nat /\ promised' <= Cardinality(Available(slab'))
  <2>1. IsFiniteSet(Available(slab)) /\ Cardinality(Available(slab)) \in Nat
    BY <1>2, GoodCells
  <2>2. Cardinality(Available(slab')) = Cardinality(Available(slab)) - 1
    BY <1>3, <2>1, FS_RemoveElement
  <2>3. Cardinality(Available(slab')) \in Nat
    BY <1>3, GoodCells
  <2>. QED
    BY <1>1, <1>2, <2>1, <2>2, <2>3
<1>5. Start'
  BY <1>1, <1>2, <1>3, <1>4, StepStart
<1>6. c \in Cells /\ c \notin live
  BY <1>2, <1>3, GoodCells
<1>. QED
  BY <1>1, <1>3, <1>5, <1>6 DEF Pool!Take

\* An allocation fails only when no page has a cell left, so that the pool may refuse.
LEMMA AllocFailsStep ==
  ASSUME Start, AllocFails
  PROVE  Start' /\ Pool!Refuse
<1>1. /\ slab.last_page = NoPage /\ slab' = slab /\ live' = live /\ has_fields' = has_fields
      /\ promised' = promised /\ refused' = TRUE /\ ctrc_mode_depth' = ctrc_mode_depth
  BY DEF AllocFails
<1>2. Good(slab, live, has_fields) /\ promised \in Nat
      /\ promised <= Cardinality(Available(slab))
      /\ ctrc_mode_depth \in 0..MaxDepth /\ refused' \in BOOLEAN
  BY <1>1 DEF Start, TypeOK
<1>3. Start'
  BY <1>1, <1>2, StepStart
<1>4. \A p \in 1..slab.reserved : PageExhausted(slab, p)
  <2>1. PageStack(slab) = {}
    BY <1>1, ListEmpty DEF PageStack
  <2>. QED
    BY <1>2, <2>1 DEF Good, Stack
<1>5. slab.reserved \in 0..MaxPages
  BY <1>2 DEF Good, SlabType
<1>6. OnFreeList(slab) = {} /\ OnDropList(slab) = {}
  <2>1. \A p \in 1..slab.reserved : FreeIndices(slab, p) = {} /\ DropIndices(slab, p) = {}
    BY <1>4, ListEmpty DEF PageExhausted, FreeIndices, DropIndices
  <2>. QED
    BY <2>1 DEF OnFreeList, OnDropList
<1>7. Virgin(slab) = {}
  <2>1. ASSUME NEW p \in 1..slab.reserved, NEW i \in Indices PROVE <<p, i>> \notin Virgin(slab)
    <3>1. slab.free_counter[p] = 0 /\ ~(i < 0)
      BY <1>4, Marks DEF PageExhausted
    <3>. QED
      BY <1>5, <3>1, PlaceOfCell
  <2>. QED
    BY <1>5, <2>1, PlaceOfCell
<1>. QED
  BY <1>1, <1>3, <1>6, <1>7 DEF Pool!Refuse, Available

\* A drop keeps the invariant and gives the cell back to the pool.
LEMMA DropCellStep ==
  ASSUME Start, NEW c \in Cells, Drop(c)
  PROVE  Start' /\ Pool!Give(c)
<1>1. /\ c \in live /\ slab' = Dropped(slab, c, has_fields) /\ live' = live \ {c}
      /\ refused' = FALSE /\ has_fields' = has_fields
      /\ promised' = promised /\ ctrc_mode_depth' = ctrc_mode_depth
  BY DEF Drop, Dropped
<1>2. Good(slab, live, has_fields) /\ promised \in Nat
      /\ promised <= Cardinality(Available(slab))
      /\ ctrc_mode_depth \in 0..MaxDepth /\ refused' \in BOOLEAN
  BY <1>1 DEF Start, TypeOK
<1>3. Good(slab', live', has_fields') /\ Available(slab') = Available(slab) \cup {c}
  <2>1. Good(slab', live \ {c}, has_fields) /\ Available(slab') = Available(slab) \cup {c}
    BY <1>1, <1>2, GoodDrop DEF AfterDrop
  <2>. QED
    BY <1>1, <2>1
<1>4. promised' \in Nat /\ promised' <= Cardinality(Available(slab'))
  <2>1. IsFiniteSet(Available(slab)) /\ Cardinality(Available(slab)) \in Nat
        /\ c \notin Available(slab)
    BY <1>1, <1>2, GoodCells
  <2>2. Cardinality(Available(slab')) = Cardinality(Available(slab)) + 1
    BY <1>3, <2>1, FS_AddElement
  <2>. QED
    BY <1>1, <1>2, <2>1, <2>2
<1>5. Start'
  BY <1>1, <1>2, <1>3, <1>4, StepStart
<1>. QED
  BY <1>1, <1>3, <1>5 DEF Pool!Give

\* Every step keeps the invariant and is a step of the pool or a stutter.
LEMMA SlabStep ==
  SlabIInv /\ [Next]_vars => SlabIInv' /\ [Pool!Next]_Pool!vars
<1>. SUFFICES ASSUME SlabIInv, [Next]_vars PROVE SlabIInv' /\ [Pool!Next]_Pool!vars
  OBVIOUS
<1>1. Start
  BY StartIff
<1>2. Start' /\ [Pool!Next]_Pool!vars
  <2>1. ASSUME NEW n \in PageRequests, NEW m \in BOOLEAN, Enter(n, m)
        PROVE  Start' /\ Pool!Next
    BY <1>1, <2>1, EnterStep DEF Pool!Next
  <2>2. CASE Exit
    BY <1>1, <2>2, ExitStep DEF Pool!Next
  <2>3. ASSUME NEW fields \in BOOLEAN, Alloc(fields)
        PROVE  Start' /\ Pool!Next
    BY <1>1, <2>3, AllocStep DEF Pool!Next
  <2>4. CASE AllocFails
    BY <1>1, <2>4, AllocFailsStep DEF Pool!Next
  <2>5. ASSUME NEW c \in Cells, Drop(c)
        PROVE  Start' /\ Pool!Next
    BY <1>1, <2>5, DropCellStep DEF Pool!Next
  <2>6. CASE UNCHANGED vars
    BY <1>1, <2>6 DEF vars, Start, TypeOK, Pool!vars
  <2>. QED
    BY <2>1, <2>2, <2>3, <2>4, <2>5, <2>6 DEF Next
<1>3. Start' => SlabIInv'
  BY StartIff, PTL
<1>. QED
  BY <1>2, <1>3

\* The slab starts as an empty pool.
LEMMA PoolInit ==
  Init => Pool!Init
<1>. SUFFICES ASSUME Init PROVE Pool!Init
  OBVIOUS
<1>1. has_fields \in [Cells -> BOOLEAN] /\ \A c \in Cells : has_fields[c] = FALSE
  BY DEF Init
<1>2. Available(slab) = {}
  BY <1>1, EmptyIsGood DEF Init
<1>. QED
  BY <1>2 DEF Init, Pool!Init

\* Whatever programs reserve, allocate and drop: every cell of a reserved page is in exactly
\* one place, num_free_cells is exact, the page stack holds exactly the pages that have a cell
\* left, and only cells with refcounted fields wait on the drop lists.
THEOREM SlabInvariance == Spec => []SlabInv
<1>1. SlabIInv => SlabInv
  BY DEF SlabIInv
<1>. QED
  BY <1>1, SlabInit, SlabStep, PTL DEF Spec

\* A critical block whose reserve succeeded still finds the cells it asked for, less its own
\* allocations, for every page count, page size and size_t.
THEOREM SlabPromise == Spec => []PromiseKept
<1>1. SlabIInv => PromiseKept
  BY DEF SlabIInv
<1>. QED
  BY <1>1, SlabInit, SlabStep, PTL DEF Spec

\* The slab implements the pool: it hands out available cells only, refuses only when there
\* are none, and gives every dropped cell back.
THEOREM SlabImplementsCellPool == Spec => ImplementsCellPool
BY PoolInit, SlabInit, SlabStep, PTL DEF Spec, ImplementsCellPool, Pool!Spec
=============================================================================
