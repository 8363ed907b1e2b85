----------------------- MODULE UnificationTableProofs -----------------------
EXTENDS TableUse, SequenceTheorems, WellFoundedInduction, TLAPS

\* A set of numbers has a least element.
LEMMA LeastNumber ==
  ASSUME NEW S \in SUBSET Nat, S # {}
  PROVE  \E m \in S : \A k \in S : m <= k
<1>. DEFINE R == OpToRel(<, Nat)
<1>1. PICK m \in S : \A k \in S : <<k, m>> \notin R
  BY NatLessThanWellFounded, WFMin
<1>2. ASSUME NEW k \in S PROVE m <= k
  <2>1. m \in Nat /\ k \in Nat
    OBVIOUS
  <2>2. ~(k < m)
    BY <1>1, <2>1 DEF OpToRel
  <2>. QED
    BY <2>1, <2>2
<1>. QED
  BY <1>2

-----------------------------------------------------------------------------
(* Types *)

Stored == Values \cup {NoValue}

Entries(n) ==
    [kind : {"Parent"}, key : 1..n, original : 1..n]
      \cup [kind : {"Value"}, key : 1..n, original : Stored]
      \cup [kind : {"Rank"}, key : 1..n, original : Nat]
      \cup [kind : {"Marker"}, generation : Nat]

\* The tables with n keys
Tables(n) ==
    [parents : [1..n -> 1..n], ranks : [1..n -> Nat], values : [1..n -> Stored],
     log : Seq(Entries(n)), generation : Nat]

\* The ranks of n keys have a bound.
LEMMA RanksBounded ==
  ASSUME NEW n \in Nat, NEW f \in [1..n -> Nat]
  PROVE  \E b \in Nat : \A k \in 1..n : f[k] <= b
<1>. DEFINE Bounded(m) == \E b \in Nat : \A k \in 1..m : f[k] <= b
            S == {m \in 0..n : ~Bounded(m)}
<1>1. Bounded(0)
  <2>1. \A k \in 1..0 : f[k] <= 0
    OBVIOUS
  <2>. QED
    BY <2>1
<1>2. ASSUME NEW m \in 1..n, Bounded(m - 1) PROVE Bounded(m)
  <2>1. PICK b \in Nat : \A k \in 1..(m - 1) : f[k] <= b
    BY <1>2
  <2>. DEFINE c == IF f[m] <= b THEN b ELSE f[m]
  <2>2. c \in Nat /\ \A k \in 1..m : f[k] <= c
    BY <2>1
  <2>. QED
    BY <2>2
<1>. HIDE DEF Bounded
<1>3. S = {}
  <2>. SUFFICES ASSUME S # {} PROVE FALSE
    OBVIOUS
  <2>1. S \in SUBSET Nat
    OBVIOUS
  <2>2. PICK m \in S : \A k \in S : m <= k
    BY <2>1, LeastNumber
  <2>3. m \in 1..n /\ m - 1 \in 0..n
    BY <1>1
  <2>4. ~(m <= m - 1)
    BY <2>3
  <2>. QED
    BY <1>2, <2>2, <2>3, <2>4
<1>4. Bounded(n)
  BY <1>3
<1>. QED
  BY <1>4 DEF Bounded

\* Keys that contain each key whose parent they contain, and the roots, are all keys.
LEMMA ParentInduction ==
  ASSUME NEW n \in Nat, NEW t \in Tables(n), RanksGrow(t), NEW S,
         \A k \in 1..n : t.parents[k] = k \/ t.parents[k] \in S => k \in S
  PROVE  \A k \in 1..n : k \in S
<1>. DEFINE Missing == {k \in 1..n : k \notin S}
<1>1. /\ t.parents \in [1..n -> 1..n] /\ t.ranks \in [1..n -> Nat]
      /\ \A k \in 1..n : t.parents[k] # k => t.ranks[k] < t.ranks[t.parents[k]]
  BY DEF Tables, RanksGrow, Keys
<1>2. SUFFICES ASSUME NEW x \in Missing PROVE FALSE
  OBVIOUS
<1>3. PICK b \in Nat : \A k \in 1..n : t.ranks[k] <= b
  BY <1>1, RanksBounded
<1>. DEFINE Below == {b - t.ranks[k] : k \in Missing}
<1>4. Below \in SUBSET Nat /\ Below # {}
  <2>1. ASSUME NEW k \in Missing PROVE b - t.ranks[k] \in Nat
    <3>1. t.ranks[k] \in Nat /\ t.ranks[k] <= b
      BY <1>1, <1>3
    <3>. QED
      BY <3>1
  <2>. QED
    BY <1>2, <2>1
<1>5. PICK m \in Below : \A k \in Below : m <= k
  BY <1>4, LeastNumber
<1>6. PICK k \in Missing : m = b - t.ranks[k]
  BY <1>5
<1>7. k \in 1..n /\ t.parents[k] \in 1..n /\ t.parents[k] # k /\ t.parents[k] \in Missing
  BY <1>1, <1>6
<1>8. b - t.ranks[t.parents[k]] \in Below
  BY <1>7
<1>9. /\ t.ranks[k] \in Nat /\ t.ranks[t.parents[k]] \in Nat
      /\ b - t.ranks[k] <= b - t.ranks[t.parents[k]]
  BY <1>1, <1>5, <1>6, <1>7, <1>8
<1>10. t.ranks[k] < t.ranks[t.parents[k]]
  BY <1>1, <1>7
<1>. QED
  BY <1>9, <1>10

\* f is defined by recursion along the parents of t.
Solves(f, n, t, base, step) ==
    f = [k \in 1..n |-> IF t.parents[k] = k THEN base[k] ELSE step[<<k, f[t.parents[k]]>>]]

\* A definition by recursion along the parents has a solution.
LEMMA ParentRecursion ==
  ASSUME NEW n \in Nat, NEW t \in Tables(n), RanksGrow(t), NEW V,
         NEW base \in [1..n -> V], NEW step \in [(1..n) \X V -> V]
  PROVE  \E f \in [1..n -> V] : Solves(f, n, t, base, step)
<1>. DEFINE P == t.parents
            Holds(R) == /\ \A k \in 1..n : P[k] = k => <<k, base[k]>> \in R
                        /\ \A k \in 1..n, v \in V :
                             P[k] # k /\ <<P[k], v>> \in R => <<k, step[<<k, v>>]>> \in R
            G == {p \in (1..n) \X V : \A R \in SUBSET ((1..n) \X V) : Holds(R) => p \in R}
            Det == {k \in 1..n : \E v \in V : \A w \in V : <<k, w>> \in G <=> w = v}
<1>1. P \in [1..n -> 1..n]
  BY DEF Tables
<1>2. Holds(G)
  BY <1>1
<1>3. ASSUME NEW R \in SUBSET ((1..n) \X V), Holds(R) PROVE G \subseteq R
  BY <1>3
<1>. HIDE DEF G
<1>4. ASSUME NEW k \in 1..n, P[k] = k PROVE k \in Det
  <2>1. <<k, base[k]>> \in G /\ base[k] \in V
    BY <1>2, <1>4
  <2>. DEFINE R == {p \in (1..n) \X V : p[1] = k => p[2] = base[k]}
  <2>2. Holds(R)
    BY <1>1, <1>4
  <2>3. G \subseteq R
    BY <1>3, <2>2
  <2>4. \A w \in V : <<k, w>> \in G <=> w = base[k]
    BY <2>1, <2>3
  <2>. QED
    BY <2>1, <2>4
<1>5. ASSUME NEW k \in 1..n, P[k] # k, P[k] \in Det PROVE k \in Det
  <2>1. PICK v \in V : \A w \in V : <<P[k], w>> \in G <=> w = v
    BY <1>5
  <2>. DEFINE s == step[<<k, v>>]
  <2>2. <<k, s>> \in G /\ s \in V
    BY <1>2, <1>5, <2>1
  <2>. DEFINE R == {p \in G : p[1] = k => p[2] = s}
  <2>3. G \subseteq (1..n) \X V
    BY DEF G
  <2>4. Holds(R)
    <3>1. ASSUME NEW j \in 1..n, P[j] = j PROVE <<j, base[j]>> \in R
      BY <1>2, <1>5, <3>1
    <3>2. ASSUME NEW j \in 1..n, NEW w \in V, P[j] # j, <<P[j], w>> \in R
          PROVE  <<j, step[<<j, w>>]>> \in R
      <4>1. <<P[j], w>> \in G /\ <<j, step[<<j, w>>]>> \in G
        BY <1>2, <3>2
      <4>2. j = k => w = v
        BY <2>1, <4>1
      <4>. QED
        BY <4>1, <4>2
    <3>. QED
      BY <3>1, <3>2
  <2>5. R \in SUBSET ((1..n) \X V)
    BY <2>3
  <2>. HIDE DEF R
  <2>6. G \subseteq R
    BY <1>3, <2>4, <2>5
  <2>7. \A w \in V : <<k, w>> \in G <=> w = s
    BY <2>2, <2>6 DEF R
  <2>. QED
    BY <2>2, <2>7
<1>. HIDE DEF Det
<1>6. \A k \in 1..n : P[k] = k \/ P[k] \in Det => k \in Det
  BY <1>4, <1>5
<1>7. \A k \in 1..n : k \in Det
  BY <1>6, ParentInduction
<1>. DEFINE f == [k \in 1..n |-> CHOOSE v \in V : <<k, v>> \in G]
<1>8. ASSUME NEW k \in 1..n PROVE f[k] \in V /\ \A w \in V : <<k, w>> \in G <=> w = f[k]
  BY <1>7 DEF Det
<1>9. f \in [1..n -> V]
  BY <1>8
<1>. HIDE DEF f
<1>10. ASSUME NEW k \in 1..n
       PROVE  f[k] = IF P[k] = k THEN base[k] ELSE step[<<k, f[P[k]]>>]
  <2>1. CASE P[k] = k
    <3>1. <<k, base[k]>> \in G /\ base[k] \in V
      BY <1>2, <2>1
    <3>. QED
      BY <1>8, <2>1, <3>1
  <2>2. CASE P[k] # k
    <3>1. P[k] \in 1..n /\ <<P[k], f[P[k]]>> \in G /\ f[P[k]] \in V
      BY <1>1, <1>8
    <3>2. <<k, step[<<k, f[P[k]]>>]>> \in G /\ step[<<k, f[P[k]]>>] \in V
      BY <1>2, <2>2, <3>1
    <3>. QED
      BY <1>8, <2>2, <3>2
  <2>. QED
    BY <2>1, <2>2
<1>11. f = [k \in 1..n |-> IF P[k] = k THEN base[k] ELSE step[<<k, f[P[k]]>>]]
  BY <1>9, <1>10
<1>. QED
  BY <1>9, <1>11 DEF Solves

-----------------------------------------------------------------------------
(* Roots and paths *)

\* Every walk of find ends at a root, and goes on as from the parent.
LEMMA Roots ==
  ASSUME NEW n \in Nat, NEW t \in Tables(n), RanksGrow(t), NEW k \in 1..n
  PROVE  /\ Root(t, k) \in 1..n /\ t.parents[Root(t, k)] = Root(t, k)
         /\ t.parents[k] = k => Root(t, k) = k
         /\ Root(t, k) = Root(t, t.parents[k])
<1>. DEFINE P == t.parents
            V == 1..n
            base == [x \in 1..n |-> x]
            step == [p \in (1..n) \X V |-> p[2]]
            root[x \in Keys(t)] == IF P[x] = x THEN x ELSE root[P[x]]
<1>1. P \in [1..n -> 1..n] /\ Keys(t) = 1..n
  BY DEF Tables, Keys
<1>2. PICK f \in [1..n -> V] :
         f = [x \in 1..n |-> IF P[x] = x THEN base[x] ELSE step[<<x, f[P[x]]>>]]
  <2>1. base \in [1..n -> V] /\ step \in [(1..n) \X V -> V]
    OBVIOUS
  <2>. HIDE DEF V, base, step
  <2>2. \E f \in [1..n -> V] : Solves(f, n, t, base, step)
    BY <2>1, ParentRecursion
  <2>. QED
    BY <2>2 DEF Solves
<1>3. f = [x \in Keys(t) |-> IF P[x] = x THEN x ELSE f[P[x]]]
  <2>1. ASSUME NEW x \in 1..n PROVE f[x] = IF P[x] = x THEN x ELSE f[P[x]]
    BY <1>1, <1>2
  <2>. QED
    BY <1>1, <1>2, <2>1
<1>4. root = [x \in Keys(t) |-> IF P[x] = x THEN x ELSE root[P[x]]]
  BY <1>3 DEF root
<1>5. \A x \in 1..n : Root(t, x) = root[x]
  BY DEF Root
<1>. HIDE DEF root
<1>6. \A x \in 1..n : root[x] = IF P[x] = x THEN x ELSE root[P[x]]
  BY <1>1, <1>4
<1>. DEFINE S == {x \in 1..n : root[x] \in 1..n /\ P[root[x]] = root[x]}
<1>7. \A x \in 1..n : P[x] = x \/ P[x] \in S => x \in S
  BY <1>6
<1>8. k \in S
  <2>. HIDE DEF S
  <2>. QED
    BY <1>7, ParentInduction
<1>. QED
  BY <1>1, <1>5, <1>6, <1>8

\* What is the same along parents, and right at roots, is the root.
LEMMA RootUnique ==
  ASSUME NEW n \in Nat, NEW t \in Tables(n), RanksGrow(t), NEW g,
         \A k \in 1..n : g[k] = IF t.parents[k] = k THEN k ELSE g[t.parents[k]]
  PROVE  \A k \in 1..n : Root(t, k) = g[k]
<1>. DEFINE S == {k \in 1..n : Root(t, k) = g[k]}
<1>1. t.parents \in [1..n -> 1..n]
  BY DEF Tables
<1>2. ASSUME NEW k \in 1..n, t.parents[k] = k \/ t.parents[k] \in S PROVE k \in S
  BY <1>1, <1>2, Roots
<1>. HIDE DEF S
<1>3. \A k \in 1..n : k \in S
  BY <1>2, ParentInduction
<1>. QED
  BY <1>3 DEF S

\* The path of find is a sequence of keys.
LEMMA Paths ==
  ASSUME NEW n \in Nat, NEW t \in Tables(n), RanksGrow(t), NEW k \in 1..n
  PROVE  FindPath(t, k) \in Seq(1..n)
<1>. DEFINE P == t.parents
            V == Seq(1..n)
            base == [x \in 1..n |-> <<>>]
            step == [p \in (1..n) \X V |-> <<p[1]>> \o p[2]]
            path[x \in Keys(t)] == IF P[x] = x THEN <<>> ELSE <<x>> \o path[P[x]]
<1>1. P \in [1..n -> 1..n] /\ Keys(t) = 1..n
  BY DEF Tables, Keys
<1>2. PICK f \in [1..n -> V] :
         f = [x \in 1..n |-> IF P[x] = x THEN base[x] ELSE step[<<x, f[P[x]]>>]]
  <2>1. base \in [1..n -> V] /\ step \in [(1..n) \X V -> V]
    <3>1. \A p \in (1..n) \X V : <<p[1]>> \o p[2] \in V
      <4>1. ASSUME NEW p \in (1..n) \X V PROVE <<p[1]>> \in V /\ p[2] \in V
        OBVIOUS
      <4>. QED
        BY <4>1
    <3>. QED
      BY <3>1
  <2>. HIDE DEF V, base, step
  <2>2. \E f \in [1..n -> V] : Solves(f, n, t, base, step)
    BY <2>1, ParentRecursion
  <2>. QED
    BY <2>2 DEF Solves
<1>3. f = [x \in Keys(t) |-> IF P[x] = x THEN <<>> ELSE <<x>> \o f[P[x]]]
  <2>1. ASSUME NEW x \in 1..n PROVE f[x] = IF P[x] = x THEN <<>> ELSE <<x>> \o f[P[x]]
    <3>1. P[x] \in 1..n /\ f[P[x]] \in V /\ <<x, f[P[x]]>> \in (1..n) \X V
      BY <1>1
    <3>2. f[x] = IF P[x] = x THEN base[x] ELSE step[<<x, f[P[x]]>>]
      BY <1>2
    <3>3. base[x] = <<>> /\ step[<<x, f[P[x]]>>] = <<x>> \o f[P[x]]
      BY <3>1
    <3>. HIDE DEF base, step
    <3>. QED
      BY <3>2, <3>3
  <2>. QED
    BY <1>1, <1>2, <2>1
<1>4. path = [x \in Keys(t) |-> IF P[x] = x THEN <<>> ELSE <<x>> \o path[P[x]]]
  BY <1>3 DEF path
<1>5. \A x \in 1..n : FindPath(t, x) = path[x]
  BY DEF FindPath
<1>. HIDE DEF path
<1>6. \A x \in 1..n : path[x] = IF P[x] = x THEN <<>> ELSE <<x>> \o path[P[x]]
  BY <1>1, <1>4
<1>. DEFINE S == {x \in 1..n : path[x] \in V}
<1>7. \A x \in 1..n : P[x] = x \/ P[x] \in S => x \in S
  <2>. SUFFICES ASSUME NEW x \in 1..n, P[x] = x \/ P[x] \in S PROVE path[x] \in V
    OBVIOUS
  <2>1. CASE P[x] = x
    <3>1. path[x] = <<>>
      BY <1>6, <2>1
    <3>2. <<>> \in Seq(1..n)
      BY EmptySeq
    <3>. QED
      BY <3>1, <3>2
  <2>2. CASE P[x] # x /\ path[P[x]] \in V
    <3>1. <<x>> \in V
      OBVIOUS
    <3>2. path[x] = <<x>> \o path[P[x]]
      BY <1>6, <2>2
    <3>. QED
      BY <2>2, <3>1, <3>2
  <2>. QED
    BY <2>1, <2>2
<1>8. k \in S
  <2>. HIDE DEF S
  <2>. QED
    BY <1>7, ParentInduction
<1>. QED
  BY <1>5, <1>8

-----------------------------------------------------------------------------
(* What the operations do to the forest *)

\* t is its own record of parts.
IsTable(t) ==
    t = [parents |-> t.parents, ranks |-> t.ranks, values |-> t.values, log |-> t.log,
         generation |-> t.generation]

\* A change of one value of a function
LEMMA Updates ==
  ASSUME NEW n \in Nat, NEW V, NEW f \in [1..n -> V], NEW k \in 1..n, NEW x \in V
  PROVE  /\ Updated(f, k, x) \in [1..n -> V]
         /\ Updated(f, k, x)[k] = x
         /\ \A j \in 1..n : j # k => Updated(f, k, x)[j] = f[j]
BY DEF Updated

-----------------------------------------------------------------------------
(* Undoing a log *)

\* The entries of d, of those in s, that keep something of key k
Logged(d, s, kind, k) == {i \in s : d[i].kind = kind /\ d[i].key = k}

\* What the first of these entries keeps is what was there before all of d; now is there after d.
OriginalIn(d, s, kind, k, now) ==
    LET L == Logged(d, s, kind, k) IN IF L = {} THEN now ELSE d[Min(L)].original

Original(d, kind, k, now) == OriginalIn(d, DOMAIN d, kind, k, now)

\* The table t with what is in the entries s of d put back
Rewound(t, d, s) ==
    [parents |-> [k \in DOMAIN t.parents |-> OriginalIn(d, s, "Parent", k, t.parents[k])],
     ranks |-> [k \in DOMAIN t.ranks |-> OriginalIn(d, s, "Rank", k, t.ranks[k])],
     values |-> [k \in DOMAIN t.values |-> OriginalIn(d, s, "Value", k, t.values[k])],
     log |-> t.log, generation |-> t.generation]

\* The first entry decides.
LEMMA FirstLogged ==
  ASSUME NEW d, NEW s \in SUBSET Nat, NEW kind, NEW k, NEW now,
         NEW i \in Logged(d, s, kind, k), \A j \in Logged(d, s, kind, k) : i <= j
  PROVE  OriginalIn(d, s, kind, k, now) = d[i].original
<1>. DEFINE L == Logged(d, s, kind, k)
<1>1. L \in SUBSET Nat
  BY DEF Logged
<1>2. Min(L) \in L /\ \A j \in L : Min(L) <= j
  BY DEF Min
<1>3. Min(L) = i
  <2>1. i \in L /\ Min(L) <= i /\ i <= Min(L) /\ i \in Nat /\ Min(L) \in Nat
    BY <1>1, <1>2
  <2>. QED
    BY <2>1
<1>. QED
  BY <1>3 DEF OriginalIn

\* Without an entry nothing changes.
LEMMA NotLogged ==
  ASSUME NEW d, NEW s, NEW kind, NEW k, NEW now, Logged(d, s, kind, k) = {}
  PROVE  OriginalIn(d, s, kind, k, now) = now
BY DEF OriginalIn

\* An entry before all others decides for its key; for the rest it might as well not be there.
LEMMA OriginalStep ==
  ASSUME NEW d, NEW s \in SUBSET Nat, NEW x \in s, \A j \in s : x <= j,
         NEW kind, NEW k, NEW now
  PROVE  OriginalIn(d, s, kind, k, now) =
           IF d[x].kind = kind /\ d[x].key = k THEN d[x].original
           ELSE OriginalIn(d, s \ {x}, kind, k, now)
<1>1. CASE d[x].kind = kind /\ d[x].key = k
  <2>1. x \in Logged(d, s, kind, k) /\ \A j \in Logged(d, s, kind, k) : x <= j
    BY <1>1 DEF Logged
  <2>. QED
    BY <1>1, <2>1, FirstLogged
<1>2. CASE ~(d[x].kind = kind /\ d[x].key = k)
  <2>1. Logged(d, s, kind, k) = Logged(d, s \ {x}, kind, k)
    BY <1>2 DEF Logged
  <2>2. OriginalIn(d, s, kind, k, now) = OriginalIn(d, s \ {x}, kind, k, now)
    BY <2>1 DEF OriginalIn
  <2>. QED
    BY <1>2, <2>2
<1>. QED
  BY <1>1, <1>2

\* The original of an entry is a key, a rank or a value.
LEMMA EntryTypes ==
  ASSUME NEW n \in Nat, NEW en \in Entries(n)
  PROVE  /\ en.kind \in {"Parent", "Value", "Rank", "Marker"}
         /\ en.kind # "Marker" => en.key \in 1..n
         /\ en.kind = "Parent" => en.original \in 1..n
         /\ en.kind = "Rank" => en.original \in Nat
         /\ en.kind = "Value" => en.original \in Stored
BY DEF Entries

\* Undoing the first entry last puts everything back.
LEMMA RewindStep ==
  ASSUME NEW n \in Nat, NEW t \in Tables(n), NEW d \in Seq(Entries(n)),
         NEW s \in SUBSET DOMAIN d, NEW x \in s, \A j \in s : x <= j
  PROVE  Undo(d[x], Rewound(t, d, s \ {x})) = Rewound(t, d, s)
<1>. DEFINE r == Rewound(t, d, s \ {x})
            q == Rewound(t, d, s)
<1>1. s \in SUBSET Nat /\ d[x] \in Entries(n)
  BY LenProperties, ElementOfSeq
<1>2. /\ DOMAIN t.parents = 1..n /\ DOMAIN t.ranks = 1..n /\ DOMAIN t.values = 1..n
  BY DEF Tables
<1>3. ASSUME NEW kind, NEW k, NEW now
      PROVE  OriginalIn(d, s, kind, k, now) =
               IF d[x].kind = kind /\ d[x].key = k THEN d[x].original
               ELSE OriginalIn(d, s \ {x}, kind, k, now)
  BY <1>1, OriginalStep
<1>4. /\ DOMAIN r.parents = 1..n /\ DOMAIN r.ranks = 1..n /\ DOMAIN r.values = 1..n
      /\ IsTable(r) /\ r.log = t.log /\ r.generation = t.generation
      /\ r.parents = [k \in 1..n |-> OriginalIn(d, s \ {x}, "Parent", k, t.parents[k])]
      /\ r.ranks = [k \in 1..n |-> OriginalIn(d, s \ {x}, "Rank", k, t.ranks[k])]
      /\ r.values = [k \in 1..n |-> OriginalIn(d, s \ {x}, "Value", k, t.values[k])]
  BY <1>2 DEF Rewound, IsTable
<1>5. /\ q = [parents |-> q.parents, ranks |-> q.ranks, values |-> q.values, log |-> t.log,
              generation |-> t.generation]
      /\ q.parents = [k \in 1..n |-> OriginalIn(d, s, "Parent", k, t.parents[k])]
      /\ q.ranks = [k \in 1..n |-> OriginalIn(d, s, "Rank", k, t.ranks[k])]
      /\ q.values = [k \in 1..n |-> OriginalIn(d, s, "Value", k, t.values[k])]
  BY <1>2 DEF Rewound
<1>6. ASSUME NEW kind, d[x].kind # kind, NEW k, NEW now
      PROVE  OriginalIn(d, s, kind, k, now) = OriginalIn(d, s \ {x}, kind, k, now)
  BY <1>3, <1>6
<1>7. ASSUME NEW kind, d[x].kind = kind, NEW k, NEW now
      PROVE  OriginalIn(d, s, kind, k, now) =
               IF k = d[x].key THEN d[x].original ELSE OriginalIn(d, s \ {x}, kind, k, now)
  BY <1>3, <1>7
<1>. HIDE DEF r, q
<1>8. /\ q.parents = [k \in 1..n |-> q.parents[k]] /\ r.parents = [k \in 1..n |-> r.parents[k]]
      /\ q.ranks = [k \in 1..n |-> q.ranks[k]] /\ r.ranks = [k \in 1..n |-> r.ranks[k]]
      /\ q.values = [k \in 1..n |-> q.values[k]] /\ r.values = [k \in 1..n |-> r.values[k]]
  BY <1>4, <1>5
<1>9. /\ d[x].kind # "Parent" => q.parents = r.parents
      /\ d[x].kind # "Rank" => q.ranks = r.ranks
      /\ d[x].kind # "Value" => q.values = r.values
  <2>1. ASSUME d[x].kind # "Parent" PROVE q.parents = r.parents
    <3>1. \A k \in 1..n : OriginalIn(d, s, "Parent", k, t.parents[k])
                            = OriginalIn(d, s \ {x}, "Parent", k, t.parents[k])
      BY <1>6, <2>1
    <3>2. [k \in 1..n |-> OriginalIn(d, s, "Parent", k, t.parents[k])]
            = [k \in 1..n |-> OriginalIn(d, s \ {x}, "Parent", k, t.parents[k])]
      BY <3>1
    <3>. QED
      BY <1>4, <1>5, <3>2
  <2>2. ASSUME d[x].kind # "Rank" PROVE q.ranks = r.ranks
    <3>1. \A k \in 1..n : OriginalIn(d, s, "Rank", k, t.ranks[k])
                            = OriginalIn(d, s \ {x}, "Rank", k, t.ranks[k])
      BY <1>6, <2>2
    <3>2. [k \in 1..n |-> OriginalIn(d, s, "Rank", k, t.ranks[k])]
            = [k \in 1..n |-> OriginalIn(d, s \ {x}, "Rank", k, t.ranks[k])]
      BY <3>1
    <3>. QED
      BY <1>4, <1>5, <3>2
  <2>3. ASSUME d[x].kind # "Value" PROVE q.values = r.values
    <3>1. \A k \in 1..n : OriginalIn(d, s, "Value", k, t.values[k])
                            = OriginalIn(d, s \ {x}, "Value", k, t.values[k])
      BY <1>6, <2>3
    <3>2. [k \in 1..n |-> OriginalIn(d, s, "Value", k, t.values[k])]
            = [k \in 1..n |-> OriginalIn(d, s \ {x}, "Value", k, t.values[k])]
      BY <3>1
    <3>. QED
      BY <1>4, <1>5, <3>2
  <2>. QED
    BY <2>1, <2>2, <2>3
<1>10. CASE d[x].kind = "Parent"
  <2>1. q.parents = Updated(r.parents, d[x].key, d[x].original)
    <3>1. \A k \in 1..n : OriginalIn(d, s, "Parent", k, t.parents[k])
                            = IF k = d[x].key THEN d[x].original
                              ELSE OriginalIn(d, s \ {x}, "Parent", k, t.parents[k])
      BY <1>7, <1>10
    <3>2. \A k \in 1..n : r.parents[k] = OriginalIn(d, s \ {x}, "Parent", k, t.parents[k])
      BY <1>4
    <3>3. Updated(r.parents, d[x].key, d[x].original) =
            [k \in 1..n |-> IF k = d[x].key THEN d[x].original ELSE r.parents[k]]
      BY <1>4 DEF Updated
    <3>4. ASSUME NEW k \in 1..n
          PROVE  q.parents[k] = IF k = d[x].key THEN d[x].original ELSE r.parents[k]
      <4>1. q.parents[k] = OriginalIn(d, s, "Parent", k, t.parents[k])
        BY <1>5
      <4>2. r.parents[k] = OriginalIn(d, s \ {x}, "Parent", k, t.parents[k])
        BY <3>2
      <4>. QED
        BY <3>1, <4>1, <4>2
    <3>. QED
      BY <1>8, <3>3, <3>4
  <2>2. q.ranks = r.ranks /\ q.values = r.values
    BY <1>9, <1>10
  <2>3. Undo(d[x], r) = [r EXCEPT !.parents = Updated(@, d[x].key, d[x].original)]
    BY <1>10 DEF Undo
  <2>. QED
    BY <1>4, <1>5, <2>1, <2>2, <2>3 DEF IsTable, r, q
<1>11. CASE d[x].kind = "Rank"
  <2>1. q.ranks = Updated(r.ranks, d[x].key, d[x].original)
    <3>1. \A k \in 1..n : OriginalIn(d, s, "Rank", k, t.ranks[k])
                            = IF k = d[x].key THEN d[x].original
                              ELSE OriginalIn(d, s \ {x}, "Rank", k, t.ranks[k])
      BY <1>7, <1>11
    <3>2. \A k \in 1..n : r.ranks[k] = OriginalIn(d, s \ {x}, "Rank", k, t.ranks[k])
      BY <1>4
    <3>3. Updated(r.ranks, d[x].key, d[x].original) =
            [k \in 1..n |-> IF k = d[x].key THEN d[x].original ELSE r.ranks[k]]
      BY <1>4 DEF Updated
    <3>4. ASSUME NEW k \in 1..n
          PROVE  q.ranks[k] = IF k = d[x].key THEN d[x].original ELSE r.ranks[k]
      <4>1. q.ranks[k] = OriginalIn(d, s, "Rank", k, t.ranks[k])
        BY <1>5
      <4>2. r.ranks[k] = OriginalIn(d, s \ {x}, "Rank", k, t.ranks[k])
        BY <3>2
      <4>. QED
        BY <3>1, <4>1, <4>2
    <3>. QED
      BY <1>8, <3>3, <3>4
  <2>2. q.parents = r.parents /\ q.values = r.values
    BY <1>9, <1>11
  <2>3. Undo(d[x], r) = [r EXCEPT !.ranks = Updated(@, d[x].key, d[x].original)]
    BY <1>11 DEF Undo
  <2>. QED
    BY <1>4, <1>5, <2>1, <2>2, <2>3 DEF IsTable, r, q
<1>12. CASE d[x].kind = "Value"
  <2>1. q.values = Updated(r.values, d[x].key, d[x].original)
    <3>1. \A k \in 1..n : OriginalIn(d, s, "Value", k, t.values[k])
                            = IF k = d[x].key THEN d[x].original
                              ELSE OriginalIn(d, s \ {x}, "Value", k, t.values[k])
      BY <1>7, <1>12
    <3>2. \A k \in 1..n : r.values[k] = OriginalIn(d, s \ {x}, "Value", k, t.values[k])
      BY <1>4
    <3>3. Updated(r.values, d[x].key, d[x].original) =
            [k \in 1..n |-> IF k = d[x].key THEN d[x].original ELSE r.values[k]]
      BY <1>4 DEF Updated
    <3>4. ASSUME NEW k \in 1..n
          PROVE  q.values[k] = IF k = d[x].key THEN d[x].original ELSE r.values[k]
      <4>1. q.values[k] = OriginalIn(d, s, "Value", k, t.values[k])
        BY <1>5
      <4>2. r.values[k] = OriginalIn(d, s \ {x}, "Value", k, t.values[k])
        BY <3>2
      <4>. QED
        BY <3>1, <4>1, <4>2
    <3>. QED
      BY <1>8, <3>3, <3>4
  <2>2. q.parents = r.parents /\ q.ranks = r.ranks
    BY <1>9, <1>12
  <2>3. Undo(d[x], r) = [r EXCEPT !.values = Updated(@, d[x].key, d[x].original)]
    BY <1>12 DEF Undo
  <2>. QED
    BY <1>4, <1>5, <2>1, <2>2, <2>3 DEF IsTable, r, q
<1>13. CASE d[x].kind = "Marker"
  <2>1. q.parents = r.parents /\ q.ranks = r.ranks /\ q.values = r.values
    BY <1>9, <1>13
  <2>2. Undo(d[x], r) = r
    BY <1>13 DEF Undo
  <2>. QED
    BY <1>4, <1>5, <2>1, <2>2 DEF IsTable, r, q
<1>. QED
  BY <1>1, <1>10, <1>11, <1>12, <1>13, EntryTypes

\* The fold of restore_snapshot, the last entry first, puts back the first entry of each key.
LEMMA FoldUndo ==
  ASSUME NEW n \in Nat, NEW t \in Tables(n), NEW d \in Seq(Entries(n))
  PROVE  FoldRight(Undo, d, t) = Rewound(t, d, DOMAIN d)
<1>. DEFINE D == DOMAIN d
            m == Len(d)
            iter[s \in SUBSET D] ==
                IF s = {} THEN t ELSE LET x == Min(s) IN Undo(d[x], iter[s \ {x}])
            f == [s \in SUBSET D |-> Rewound(t, d, s)]
<1>1. m \in Nat /\ D = 1..m
  BY LenProperties
<1>2. FoldRight(Undo, d, t) = iter[D]
  BY DEF FoldRight, MapThenFoldSet
<1>3. ASSUME NEW s \in SUBSET D, s # {} PROVE Min(s) \in s /\ \A j \in s : Min(s) <= j
  <2>1. s \in SUBSET Nat
    BY <1>1
  <2>. QED
    BY <1>3, <2>1, LeastNumber DEF Min
<1>4. Rewound(t, d, {}) = t
  <2>1. \A kind, k, now : OriginalIn(d, {}, kind, k, now) = now
    BY DEF OriginalIn, Logged
  <2>2. IsTable(t) /\ t.parents \in [1..n -> 1..n] /\ t.ranks \in [1..n -> Nat]
        /\ t.values \in [1..n -> Stored]
    BY DEF Tables, IsTable
  <2>. HIDE DEF OriginalIn
  <2>3. /\ [k \in DOMAIN t.parents |-> OriginalIn(d, {}, "Parent", k, t.parents[k])] = t.parents
        /\ [k \in DOMAIN t.ranks |-> OriginalIn(d, {}, "Rank", k, t.ranks[k])] = t.ranks
        /\ [k \in DOMAIN t.values |-> OriginalIn(d, {}, "Value", k, t.values[k])] = t.values
    BY <2>1, <2>2
  <2>. QED
    BY <2>2, <2>3 DEF Rewound, IsTable
<1>5. ASSUME NEW s \in SUBSET D
      PROVE  f[s] = IF s = {} THEN t ELSE LET x == Min(s) IN Undo(d[x], f[s \ {x}])
  <2>1. CASE s = {}
    BY <1>4, <2>1
  <2>2. CASE s # {}
    <3>1. Undo(d[Min(s)], Rewound(t, d, s \ {Min(s)})) = Rewound(t, d, s)
      BY <1>3, <2>2, RewindStep
    <3>. QED
      BY <2>2, <3>1
  <2>. QED
    BY <2>1, <2>2
<1>6. f = [s \in SUBSET D |->
             IF s = {} THEN t ELSE LET x == Min(s) IN Undo(d[x], f[s \ {x}])]
  BY <1>5
<1>7. iter = [s \in SUBSET D |->
                IF s = {} THEN t ELSE LET x == Min(s) IN Undo(d[x], iter[s \ {x}])]
  <2>. HIDE DEF f
  <2>. QED
    BY <1>6 DEF iter
<1>. HIDE DEF iter, f
<1>. DEFINE LastOnes(j) == (m - j + 1)..m
            Bad == {j \in 0..m : iter[LastOnes(j)] # Rewound(t, d, LastOnes(j))}
<1>8. Bad = {}
  <2>. SUFFICES ASSUME Bad # {} PROVE FALSE
    OBVIOUS
  <2>1. PICK j \in Bad : \A i \in Bad : j <= i
    <3>1. Bad \in SUBSET Nat
      BY <1>1
    <3>. QED
      BY <3>1, LeastNumber
  <2>2. j # 0
    <3>1. LastOnes(0) = {}
      BY <1>1
    <3>2. iter[{}] = t
      BY <1>7
    <3>. QED
      BY <1>4, <3>1, <3>2
  <2>3. j \in 1..m /\ j - 1 \in 0..m /\ ~(j <= j - 1)
    BY <1>1, <2>2
  <2>. DEFINE x == m - j + 1
              s == LastOnes(j)
  <2>4. /\ s \in SUBSET D /\ s # {} /\ x \in s /\ \A i \in s : x <= i
        /\ s \ {x} = LastOnes(j - 1) /\ s \ {x} \in SUBSET D
    <3>1. s \ {x} = LastOnes(j - 1)
      <4>1. m - (j - 1) + 1 = x + 1 /\ x \in 1..m
        BY <1>1, <2>3
      <4>2. (x..m) \ {x} = (x + 1)..m
        BY <1>1, <4>1
      <4>. QED
        BY <4>1, <4>2
    <3>2. s \in SUBSET D /\ x \in s /\ \A i \in s : x <= i
      BY <1>1, <2>3
    <3>. QED
      BY <3>1, <3>2
  <2>5. Min(s) = x
    <3>1. Min(s) \in s /\ Min(s) <= x
      BY <1>3, <2>4
    <3>2. x <= Min(s) /\ x \in Nat /\ Min(s) \in Nat
      BY <1>1, <2>4, <3>1
    <3>. QED
      BY <3>1, <3>2
  <2>. HIDE DEF LastOnes
  <2>6. iter[LastOnes(j - 1)] = Rewound(t, d, LastOnes(j - 1))
    BY <2>1, <2>3
  <2>7. iter[s] = Undo(d[x], iter[s \ {x}])
    BY <1>7, <2>4, <2>5
  <2>8. Undo(d[x], Rewound(t, d, s \ {x})) = Rewound(t, d, s)
    BY <2>4, RewindStep
  <2>. QED
    BY <2>1, <2>4, <2>6, <2>7, <2>8
<1>9. iter[LastOnes(m)] = Rewound(t, d, LastOnes(m)) /\ LastOnes(m) = D
  BY <1>1, <1>8
<1>. QED
  BY <1>2, <1>9

\* What was there before two logs is what was there before the first.
LEMMA OriginalConcat ==
  ASSUME NEW n \in Nat, NEW d \in Seq(Entries(n)), NEW e \in Seq(Entries(n)),
         NEW kind, NEW k, NEW now
  PROVE  Original(d \o e, kind, k, now) = Original(d, kind, k, Original(e, kind, k, now))
<1>. DEFINE c == d \o e
            L == Logged(d, DOMAIN d, kind, k)
            M == Logged(e, DOMAIN e, kind, k)
            N == Logged(c, DOMAIN c, kind, k)
<1>1. /\ Len(d) \in Nat /\ Len(e) \in Nat /\ c \in Seq(Entries(n))
      /\ DOMAIN d = 1..Len(d) /\ DOMAIN e = 1..Len(e) /\ DOMAIN c = 1..(Len(d) + Len(e))
  BY LenProperties, ConcatProperties
<1>2. \A i \in DOMAIN c : c[i] = IF i <= Len(d) THEN d[i] ELSE e[i - Len(d)]
  BY <1>1, ConcatProperties
<1>. HIDE DEF c
<1>3. /\ \A i \in L : i \in N
      /\ \A i \in M : Len(d) + i \in N
      /\ \A i \in N : IF i <= Len(d) THEN i \in L ELSE i - Len(d) \in M
  <2>1. \A i \in DOMAIN d : i \in DOMAIN c /\ c[i] = d[i]
    BY <1>1, <1>2
  <2>2. ASSUME NEW i \in DOMAIN e PROVE Len(d) + i \in DOMAIN c /\ c[Len(d) + i] = e[i]
    <3>1. Len(d) + i \in DOMAIN c /\ ~(Len(d) + i <= Len(d)) /\ (Len(d) + i) - Len(d) = i
      BY <1>1
    <3>. QED
      BY <1>2, <3>1
  <2>3. \A i \in DOMAIN c : IF i <= Len(d) THEN i \in DOMAIN d /\ c[i] = d[i]
                            ELSE i - Len(d) \in DOMAIN e /\ c[i] = e[i - Len(d)]
    BY <1>1, <1>2
  <2>. QED
    BY <2>1, <2>2, <2>3 DEF Logged
<1>4. L \in SUBSET Nat /\ M \in SUBSET Nat /\ N \in SUBSET Nat
  BY <1>1 DEF Logged
<1>5. DOMAIN d \in SUBSET Nat /\ DOMAIN e \in SUBSET Nat /\ DOMAIN c \in SUBSET Nat
  BY <1>1
<1>6. CASE L # {}
  <2>1. PICK i \in L : \A j \in L : i <= j
    BY <1>4, <1>6, LeastNumber
  <2>2. i \in 1..Len(d) /\ c[i] = d[i]
    BY <1>1, <1>2 DEF Logged
  <2>3. i \in N /\ \A j \in N : i <= j
    BY <1>1, <1>3, <1>4, <2>1, <2>2
  <2>4. OriginalIn(c, DOMAIN c, kind, k, now) = c[i].original
    BY <1>5, <2>3, FirstLogged
  <2>5. OriginalIn(d, DOMAIN d, kind, k, Original(e, kind, k, now)) = d[i].original
    BY <1>5, <2>1, FirstLogged
  <2>. QED
    BY <2>2, <2>4, <2>5 DEF Original, c
<1>7. CASE L = {} /\ M # {}
  <2>1. PICK i \in M : \A j \in M : i <= j
    BY <1>4, <1>7, LeastNumber
  <2>2. i \in 1..Len(e) /\ c[Len(d) + i] = e[i]
    <3>1. i \in 1..Len(e)
      BY <1>1 DEF Logged
    <3>2. Len(d) + i \in DOMAIN c /\ ~(Len(d) + i <= Len(d)) /\ (Len(d) + i) - Len(d) = i
      BY <1>1, <3>1
    <3>. QED
      BY <1>2, <3>1, <3>2
  <2>3. Len(d) + i \in N /\ \A j \in N : Len(d) + i <= j
    <3>1. ASSUME NEW j \in N PROVE Len(d) + i <= j
      <4>1. j \in Nat /\ j - Len(d) \in M
        BY <1>3, <1>4, <1>7
      <4>2. i <= j - Len(d)
        BY <2>1, <4>1
      <4>. QED
        BY <1>1, <2>2, <4>1, <4>2
    <3>. QED
      BY <1>3, <3>1
  <2>4. OriginalIn(c, DOMAIN c, kind, k, now) = c[Len(d) + i].original
    BY <1>5, <2>3, FirstLogged
  <2>5. OriginalIn(e, DOMAIN e, kind, k, now) = e[i].original
    BY <1>5, <2>1, FirstLogged
  <2>. QED
    BY <1>7, <2>2, <2>4, <2>5, NotLogged DEF Original, c
<1>8. CASE L = {} /\ M = {}
  <2>1. N = {}
    BY <1>3, <1>8
  <2>. QED
    BY <1>8, <2>1, NotLogged DEF Original, c
<1>. QED
  BY <1>6, <1>7, <1>8

\* A log of one entry
LEMMA OriginalOne ==
  ASSUME NEW en, NEW kind, NEW k, NEW now
  PROVE  Original(<<en>>, kind, k, now) =
           IF en.kind = kind /\ en.key = k THEN en.original ELSE now
<1>1. DOMAIN <<en>> = {1} /\ <<en>>[1] = en
  OBVIOUS
<1>2. CASE en.kind = kind /\ en.key = k
  <2>1. 1 \in Logged(<<en>>, DOMAIN <<en>>, kind, k)
        /\ \A j \in Logged(<<en>>, DOMAIN <<en>>, kind, k) : 1 <= j
    BY <1>1, <1>2 DEF Logged
  <2>2. DOMAIN <<en>> \in SUBSET Nat
    BY <1>1
  <2>. QED
    BY <1>1, <1>2, <2>1, <2>2, FirstLogged DEF Original
<1>3. CASE ~(en.kind = kind /\ en.key = k)
  <2>1. Logged(<<en>>, DOMAIN <<en>>, kind, k) = {}
    BY <1>1, <1>3 DEF Logged
  <2>. QED
    BY <1>3, <2>1, NotLogged DEF Original
<1>. QED
  BY <1>2, <1>3

\* An empty log
LEMMA OriginalNone ==
  ASSUME NEW kind, NEW k, NEW now
  PROVE  Original(<<>>, kind, k, now) = now
BY NotLogged DEF Original, Logged

\* Undoing e turns the forest, ranks and values of u into those of t.
Undoes(n, e, u, t) ==
    \A k \in 1..n :
        /\ Original(e, "Parent", k, u.parents[k]) = t.parents[k]
        /\ Original(e, "Rank", k, u.ranks[k]) = t.ranks[k]
        /\ Original(e, "Value", k, u.values[k]) = t.values[k]

\* From t to u every change has been logged.
LoggedSince(n, t, u) ==
    \E e \in Seq(Entries(n)) : u.log = t.log \o e /\ Undoes(n, e, u, t)

\* Nothing has to be logged when nothing changes.
LEMMA LoggedSame ==
  ASSUME NEW n \in Nat, NEW t \in Tables(n), NEW u,
         u.parents = t.parents, u.ranks = t.ranks, u.values = t.values, u.log = t.log
  PROVE  LoggedSince(n, t, u)
<1>1. Undoes(n, <<>>, u, t)
  BY OriginalNone DEF Undoes
<1>2. t.log \in Seq(Entries(n)) /\ <<>> \in Seq(Entries(n))
  BY EmptySeq DEF Tables
<1>3. u.log = t.log \o <<>>
  BY <1>2, ConcatEmptySeq
<1>. QED
  BY <1>1, <1>2, <1>3 DEF LoggedSince

\* The log stays a log.
LEMMA LogType ==
  ASSUME NEW n \in Nat, NEW t \in Tables(n), NEW u, LoggedSince(n, t, u)
  PROVE  u.log \in Seq(Entries(n))
<1>1. PICK e \in Seq(Entries(n)) : u.log = t.log \o e
  BY DEF LoggedSince
<1>2. t.log \in Seq(Entries(n))
  BY DEF Tables
<1>. QED
  BY <1>1, <1>2, ConcatProperties

\* Logged changes add up.
LEMMA LoggedTransitive ==
  ASSUME NEW n \in Nat, NEW t \in Tables(n), NEW u, NEW v,
         LoggedSince(n, t, u), LoggedSince(n, u, v)
  PROVE  LoggedSince(n, t, v)
<1>1. PICK d \in Seq(Entries(n)) : u.log = t.log \o d /\ Undoes(n, d, u, t)
  BY DEF LoggedSince
<1>2. PICK e \in Seq(Entries(n)) : v.log = u.log \o e /\ Undoes(n, e, v, u)
  BY DEF LoggedSince
<1>3. t.log \in Seq(Entries(n)) /\ d \o e \in Seq(Entries(n))
  BY ConcatProperties DEF Tables
<1>4. v.log = t.log \o (d \o e)
  <2>. DEFINE E == Entries(n)
              w == t.log
  <2>1. w \in Seq(E) /\ d \in Seq(E) /\ e \in Seq(E)
    BY <1>3
  <2>2. v.log = (w \o d) \o e
    BY <1>1, <1>2
  <2>. HIDE DEF E, w
  <2>3. (w \o d) \o e = w \o (d \o e)
    BY <2>1, ConcatAssociative
  <2>. QED
    BY <2>2, <2>3 DEF w
<1>5. Undoes(n, d \o e, v, t)
  <2>1. \A kind, k, now :
          Original(d \o e, kind, k, now) = Original(d, kind, k, Original(e, kind, k, now))
    BY OriginalConcat
  <2>. QED
    BY <1>1, <1>2, <2>1 DEF Undoes
<1>. QED
  BY <1>3, <1>4, <1>5 DEF LoggedSince

-----------------------------------------------------------------------------
(* Every operation logs its changes.                                       *)

\* The table t is well-formed and has n keys.
WellFormed(n, t) == n \in Nat /\ t \in Tables(n) /\ RanksGrow(t)

\* u is what t has become, with the same keys in the same classes, and all changes are logged.
SameClasses(n, t, u) ==
    /\ WellFormed(n, u) /\ LoggedSince(n, t, u) /\ u.generation = t.generation
    /\ u.values = t.values /\ u.ranks = t.ranks
    /\ \A k \in 1..n : Root(u, k) = Root(t, k)

\* u is t with a new key, which stands for v and is its own root.
Added(n, t, v, u) ==
    /\ WellFormed(n + 1, u) /\ u.log = t.log /\ u.generation = t.generation
    /\ u.parents = [k \in 1..(n + 1) |-> IF k = n + 1 THEN n + 1 ELSE t.parents[k]]
    /\ u.ranks = [k \in 1..(n + 1) |-> IF k = n + 1 THEN 0 ELSE t.ranks[k]]
    /\ u.values = [k \in 1..(n + 1) |-> IF k = n + 1 THEN v ELSE t.values[k]]
    /\ u.values = Append(t.values, v)
    /\ Root(u, n + 1) = n + 1 /\ \A k \in 1..n : Root(u, k) = Root(t, k)

\* u is t with the classes of a and b made one, and all changes are logged.
United(n, t, a, b, u) ==
    /\ WellFormed(n, u) /\ LoggedSince(n, t, u)
    /\ u.generation = t.generation /\ u.values = t.values
    /\ \E winner \in {Root(t, a), Root(t, b)} :
         \A k \in 1..n :
           Root(u, k) = IF Root(t, k) \in {Root(t, a), Root(t, b)} THEN winner ELSE Root(t, k)

\* Path splitting logs the parent that each key had.
LEMMA SplittingLogged ==
  ASSUME NEW n \in Nat, NEW t \in Tables(n), RanksGrow(t), NEW path \in Seq(1..n)
  PROVE  LoggedSince(n, t, SplitPath(t, path))
<1>. DEFINE u == SplitPath(t, path)
            P == t.parents
            e == [i \in DOMAIN path |-> ParentEntry(path[i], P[path[i]])]
<1>1. /\ u.values = t.values /\ u.ranks = t.ranks /\ u.log = t.log \o e
      /\ u.parents = [k \in 1..n |-> IF k \in ToSet(path) THEN P[P[k]] ELSE P[k]]
  <2>1. IsTable(t) /\ t.parents \in [1..n -> 1..n] /\ Keys(t) = 1..n
    BY DEF Tables, Keys, IsTable
  <2>. QED
    BY <2>1 DEF SplitPath, IsTable
<1>. HIDE DEF u
<1>2. \A i \in DOMAIN path : path[i] \in 1..n /\ P[path[i]] \in 1..n
  <2>1. ASSUME NEW i \in DOMAIN path PROVE path[i] \in 1..n
    BY LenProperties, ElementOfSeq
  <2>. QED
    BY <2>1 DEF Tables
<1>3. /\ DOMAIN e = 1..Len(path) /\ Len(path) \in Nat
      /\ \A i \in DOMAIN e :
           e[i].kind = "Parent" /\ e[i].key = path[i] /\ e[i].original = P[path[i]]
  BY LenProperties DEF ParentEntry
<1>4. e \in Seq(Entries(n))
  <2>1. \A i \in DOMAIN path : ParentEntry(path[i], P[path[i]]) \in Entries(n)
    BY <1>2 DEF ParentEntry, Entries
  <2>2. DOMAIN path = 1..Len(path) /\ Len(path) \in Nat
    BY LenProperties
  <2>. QED
    BY <2>1, <2>2
<1>. HIDE DEF e
<1>5. ASSUME NEW k \in 1..n
      PROVE  /\ Original(e, "Parent", k, u.parents[k]) = P[k]
             /\ Original(e, "Rank", k, u.ranks[k]) = t.ranks[k]
             /\ Original(e, "Value", k, u.values[k]) = t.values[k]
  <2>. DEFINE L == Logged(e, DOMAIN e, "Parent", k)
  <2>1. L \in SUBSET Nat /\ DOMAIN e \in SUBSET Nat
    BY <1>3 DEF Logged
  <2>2. \A i \in L : e[i].original = P[k]
    BY <1>3 DEF Logged
  <2>3. Original(e, "Parent", k, u.parents[k]) = P[k]
    <3>1. CASE L = {}
      <4>1. k \notin ToSet(path)
        <5>1. \A i \in DOMAIN path : path[i] # k
          BY <1>3, <3>1, LenProperties DEF Logged
        <5>. QED
          BY <5>1 DEF ToSet
      <4>2. u.parents[k] = P[k]
        BY <1>1, <4>1
      <4>. QED
        BY <3>1, <4>2, NotLogged DEF Original
    <3>2. CASE L # {}
      <4>1. PICK i \in L : \A j \in L : i <= j
        BY <2>1, <3>2, LeastNumber
      <4>2. OriginalIn(e, DOMAIN e, "Parent", k, u.parents[k]) = e[i].original
        BY <2>1, <4>1, FirstLogged
      <4>. QED
        BY <2>2, <4>2 DEF Original
    <3>. QED
      BY <3>1, <3>2
  <2>4. Logged(e, DOMAIN e, "Rank", k) = {} /\ Logged(e, DOMAIN e, "Value", k) = {}
    BY <1>3 DEF Logged
  <2>. QED
    BY <1>1, <2>3, <2>4, NotLogged DEF Original
<1>6. Undoes(n, e, u, t)
  BY <1>5 DEF Undoes
<1>. QED
  BY <1>1, <1>4, <1>6 DEF LoggedSince, u

\* Path splitting, of any keys: each gets a parent of higher rank with the same root.
LEMMA Splitting ==
  ASSUME NEW n, NEW t, WellFormed(n, t), NEW path \in Seq(1..n)
  PROVE  SameClasses(n, t, SplitPath(t, path))
<1>. DEFINE u == SplitPath(t, path)
            P == t.parents
<1>1. n \in Nat /\ t \in Tables(n) /\ RanksGrow(t)
  BY DEF WellFormed
<1>2. /\ P \in [1..n -> 1..n] /\ Keys(t) = 1..n /\ IsTable(t)
      /\ t.ranks \in [1..n -> Nat] /\ t.values \in [1..n -> Stored]
      /\ t.log \in Seq(Entries(n)) /\ t.generation \in Nat
  BY <1>1 DEF Tables, Keys, IsTable
<1>3. /\ IsTable(u) /\ u.values = t.values /\ u.generation = t.generation /\ u.ranks = t.ranks
      /\ u.parents = [k \in 1..n |-> IF k \in ToSet(path) THEN P[P[k]] ELSE P[k]]
  <2>1. IsTable(t) /\ t.parents \in [1..n -> 1..n] /\ Keys(t) = 1..n
    BY <1>2
  <2>2. IsTable(u) /\ u.values = t.values /\ u.generation = t.generation /\ u.ranks = t.ranks
    <3>1. PICK parents, log : u = [t EXCEPT !.parents = parents, !.log = log]
      BY DEF SplitPath
    <3>. QED
      BY <2>1, <3>1 DEF IsTable
  <2>3. u.parents = [k \in 1..n |-> IF k \in ToSet(path) THEN P[P[k]] ELSE P[k]]
    BY <2>1 DEF SplitPath, IsTable
  <2>. QED
    BY <2>2, <2>3
<1>4. LoggedSince(n, t, u)
  BY <1>1, SplittingLogged
<1>. HIDE DEF u
<1>5. u \in Tables(n)
  <2>1. u.parents \in [1..n -> 1..n] /\ u.log \in Seq(Entries(n))
    BY <1>1, <1>2, <1>3, <1>4, LogType
  <2>. QED
    BY <1>2, <1>3, <2>1 DEF Tables, IsTable
<1>6. ASSUME NEW k \in 1..n
      PROVE  /\ u.parents[k] \in {P[k], P[P[k]]} /\ u.parents[k] \in 1..n
             /\ u.parents[k] # k => u.ranks[k] < u.ranks[u.parents[k]]
             /\ u.parents[k] = k => P[k] = k
  <2>1. /\ P[k] # k => t.ranks[k] < t.ranks[P[k]]
        /\ P[P[k]] # P[k] => t.ranks[P[k]] < t.ranks[P[P[k]]]
        /\ t.ranks[k] \in Nat /\ t.ranks[P[k]] \in Nat /\ t.ranks[P[P[k]]] \in Nat
    BY <1>1, <1>2 DEF RanksGrow
  <2>2. P[k] \in 1..n /\ P[P[k]] \in 1..n
    BY <1>2
  <2>3. CASE k \in ToSet(path)
    <3>1. u.parents[k] = P[P[k]]
      BY <1>3, <2>3
    <3>2. CASE P[k] = k
      BY <1>3, <2>1, <2>2, <3>1, <3>2
    <3>3. CASE P[k] # k /\ P[P[k]] = P[k]
      BY <1>3, <2>1, <2>2, <3>1, <3>3
    <3>4. CASE P[k] # k /\ P[P[k]] # P[k]
      <4>1. t.ranks[k] < t.ranks[P[P[k]]]
        BY <2>1, <3>4
      <4>2. P[P[k]] # k
        BY <2>1, <4>1
      <4>. QED
        BY <1>3, <2>2, <3>1, <4>1, <4>2
    <3>. QED
      BY <3>2, <3>3, <3>4
  <2>4. CASE k \notin ToSet(path)
    <3>1. u.parents[k] = P[k]
      BY <1>3, <2>4
    <3>. QED
      BY <1>3, <2>1, <2>2, <3>1
  <2>. QED
    BY <2>3, <2>4
<1>7. RanksGrow(u)
  BY <1>2, <1>3, <1>6 DEF RanksGrow, Keys
<1>8. \A k \in 1..n : Root(u, k) = Root(t, k)
  <2>. DEFINE g == [k \in 1..n |-> Root(t, k)]
  <2>1. ASSUME NEW k \in 1..n PROVE g[k] = IF u.parents[k] = k THEN k ELSE g[u.parents[k]]
    <3>1. Root(t, k) = Root(t, P[k]) /\ Root(t, P[k]) = Root(t, P[P[k]])
      <4>1. P[k] \in 1..n
        BY <1>2
      <4>2. \A m \in 1..n : Root(t, m) = Root(t, P[m])
        BY <1>1, Roots
      <4>. QED
        BY <4>1, <4>2
    <3>2. P[k] = k => Root(t, k) = k
      BY <1>1, Roots
    <3>. QED
      BY <1>6, <3>1, <3>2
  <2>. HIDE DEF g
  <2>2. \A k \in 1..n : Root(u, k) = g[k]
    BY <1>1, <1>5, <1>7, <2>1, RootUnique
  <2>. QED
    BY <2>2 DEF g
<1>. QED
  BY <1>1, <1>3, <1>4, <1>5, <1>7, <1>8 DEF SameClasses, WellFormed, u

\* Finding a key changes no class and no value.
LEMMA Finding ==
  ASSUME NEW n, NEW t, WellFormed(n, t), NEW k \in 1..n
  PROVE  SameClasses(n, t, find(t, k))
<1>1. n \in Nat /\ t \in Tables(n) /\ RanksGrow(t)
  BY DEF WellFormed
<1>2. FindPath(t, k) \in Seq(1..n)
  BY <1>1, Paths
<1>. QED
  BY <1>2, Splitting DEF find

\* Linking a root below another of at least its rank, which outgrows it where they are equal
LEMMA Linking ==
  ASSUME NEW n, NEW t, WellFormed(n, t), NEW loser \in 1..n, NEW winner \in 1..n,
         loser # winner, t.parents[loser] = loser, t.parents[winner] = winner,
         t.ranks[loser] <= t.ranks[winner],
         NEW u, u = Link(t, loser, winner)
  PROVE  /\ WellFormed(n, u) /\ LoggedSince(n, t, u)
         /\ u.generation = t.generation /\ u.values = t.values
         /\ \A k \in 1..n : Root(u, k) = IF Root(t, k) = loser THEN winner ELSE Root(t, k)
<1>. DEFINE P == t.parents
            R == t.ranks
            same == R[loser] = R[winner]
            linked == <<ParentEntry(loser, loser)>>
            grown == IF same THEN <<RankEntry(winner, R[winner])>> ELSE <<>>
<1>1. n \in Nat /\ t \in Tables(n) /\ RanksGrow(t)
  BY DEF WellFormed
<1>2. /\ P \in [1..n -> 1..n] /\ Keys(t) = 1..n /\ IsTable(t)
      /\ R \in [1..n -> Nat] /\ t.values \in [1..n -> Stored]
      /\ t.log \in Seq(Entries(n)) /\ t.generation \in Nat
  BY <1>1 DEF Tables, Keys, IsTable
<1>3. /\ IsTable(u) /\ u.values = t.values /\ u.generation = t.generation
      /\ u.parents = Updated(P, loser, winner)
      /\ u.ranks = IF same THEN Updated(R, winner, R[winner] + 1) ELSE R
      /\ u.log = t.log \o linked \o grown
  <2>1. IsTable(t)
    BY <1>2
  <2>. QED
    BY <2>1 DEF Link, IsTable
<1>4. R[loser] \in Nat /\ R[winner] \in Nat /\ R[winner] + 1 \in Nat
  <2>1. \A k \in 1..n : R[k] \in Nat
    BY <1>2
  <2>2. R[loser] \in Nat /\ R[winner] \in Nat
    BY <2>1
  <2>. QED
    BY <2>2
<1>5. /\ u.parents \in [1..n -> 1..n] /\ u.ranks \in [1..n -> Nat]
      /\ \A k \in 1..n : u.parents[k] = IF k = loser THEN winner ELSE P[k]
      /\ \A k \in 1..n : u.ranks[k] = IF k = winner /\ same THEN R[winner] + 1 ELSE R[k]
  <2>1. P \in [1..n -> 1..n] /\ R \in [1..n -> Nat]
    BY <1>2
  <2>2. /\ u.parents \in [1..n -> 1..n]
        /\ \A k \in 1..n : u.parents[k] = IF k = loser THEN winner ELSE P[k]
    <3>1. u.parents = [k \in 1..n |-> IF k = loser THEN winner ELSE P[k]]
      <4>1. DOMAIN P = 1..n /\ u.parents = Updated(P, loser, winner)
        BY <1>3, <2>1
      <4>. QED
        BY <4>1 DEF Updated
    <3>2. \A k \in 1..n : (IF k = loser THEN winner ELSE P[k]) \in 1..n
      BY <2>1
    <3>. QED
      BY <3>1, <3>2
  <2>3. /\ u.ranks \in [1..n -> Nat]
        /\ \A k \in 1..n : u.ranks[k] = IF k = winner /\ same THEN R[winner] + 1 ELSE R[k]
    <3>1. CASE same
      <4>1. u.ranks = Updated(R, winner, R[winner] + 1)
        BY <1>3, <3>1
      <4>. QED
        BY <1>4, <2>1, <3>1, <4>1 DEF Updated
    <3>2. CASE ~same
      BY <1>3, <2>1, <3>2
    <3>. QED
      BY <3>1, <3>2
  <2>. QED
    BY <2>2, <2>3
<1>6. linked \in Seq(Entries(n)) /\ grown \in Seq(Entries(n))
  <2>1. ParentEntry(loser, loser) \in Entries(n) /\ RankEntry(winner, R[winner]) \in Entries(n)
    BY <1>4 DEF ParentEntry, RankEntry, Entries
  <2>. QED
    BY <2>1
<1>7. /\ ParentEntry(loser, loser).kind = "Parent" /\ ParentEntry(loser, loser).key = loser
      /\ ParentEntry(loser, loser).original = loser
      /\ RankEntry(winner, R[winner]).kind = "Rank" /\ RankEntry(winner, R[winner]).key = winner
      /\ RankEntry(winner, R[winner]).original = R[winner]
  BY DEF ParentEntry, RankEntry
<1>8. Undoes(n, linked \o grown, u, t)
  <2>1. \A kind, k, now :
          Original(linked \o grown, kind, k, now)
            = Original(linked, kind, k, Original(grown, kind, k, now))
    BY <1>1, <1>6, OriginalConcat
  <2>2. \A kind, k, now :
          Original(linked, kind, k, now) = IF kind = "Parent" /\ k = loser THEN loser ELSE now
    BY <1>7, OriginalOne
  <2>3. \A kind, k, now :
          Original(grown, kind, k, now)
            = IF same /\ kind = "Rank" /\ k = winner THEN R[winner] ELSE now
    BY <1>7, OriginalOne, OriginalNone
  <2>. HIDE DEF linked, grown
  <2>4. ASSUME NEW k \in 1..n
        PROVE  /\ Original(linked \o grown, "Parent", k, u.parents[k]) = P[k]
               /\ Original(linked \o grown, "Rank", k, u.ranks[k]) = R[k]
               /\ Original(linked \o grown, "Value", k, u.values[k]) = t.values[k]
    BY <1>3, <1>5, <2>1, <2>2, <2>3
  <2>. QED
    BY <2>4 DEF Undoes
<1>9. LoggedSince(n, t, u)
  <2>. HIDE DEF linked, grown
  <2>1. ASSUME NEW w \in Seq(Entries(n)) PROVE (w \o linked) \o grown = w \o (linked \o grown)
    BY <1>6, ConcatAssociative
  <2>2. u.log = t.log \o (linked \o grown) /\ linked \o grown \in Seq(Entries(n))
    BY <1>2, <1>3, <1>6, <2>1, ConcatProperties
  <2>. QED
    BY <1>8, <2>2 DEF LoggedSince
<1>10. u \in Tables(n)
  <2>1. u.log \in Seq(Entries(n))
    BY <1>1, <1>9, LogType
  <2>. QED
    BY <1>2, <1>3, <1>5, <2>1 DEF Tables, IsTable
<1>11. RanksGrow(u)
  <2>1. ASSUME NEW k \in 1..n
        PROVE  u.parents[k] \in 1..n /\ (u.parents[k] # k => u.ranks[k] < u.ranks[u.parents[k]])
    <3>1. P[k] # k => R[k] < R[P[k]]
      BY <1>1, <1>2 DEF RanksGrow
    <3>2. R[k] \in Nat /\ P[k] \in 1..n /\ R[P[k]] \in Nat /\ u.parents[k] \in 1..n
      BY <1>2, <1>5
    <3>3. CASE k = loser
      <4>1. u.parents[k] = winner /\ u.ranks[k] = R[loser]
        BY <1>5, <3>3
      <4>2. u.ranks[winner] = IF same THEN R[winner] + 1 ELSE R[winner]
        BY <1>5
      <4>3. R[loser] < u.ranks[winner]
        BY <1>4, <4>2
      <4>. QED
        BY <3>2, <4>1, <4>3
    <3>4. CASE k # loser
      <4>1. u.parents[k] = P[k]
        BY <1>5, <3>4
      <4>2. CASE P[k] = k
        BY <3>2, <4>1, <4>2
      <4>3. CASE P[k] # k
        <5>1. k # winner /\ u.ranks[k] = R[k]
          BY <1>5, <4>3
        <5>2. R[P[k]] <= u.ranks[P[k]] /\ u.ranks[P[k]] \in Nat
          <6>1. u.ranks[P[k]] = IF P[k] = winner /\ same THEN R[winner] + 1 ELSE R[P[k]]
            BY <1>5, <3>2
          <6>. QED
            BY <1>4, <3>2, <6>1
        <5>. QED
          BY <3>1, <3>2, <4>1, <4>3, <5>1, <5>2
      <4>. QED
        BY <4>2, <4>3
    <3>. QED
      BY <3>3, <3>4
  <2>. QED
    BY <1>5, <2>1 DEF RanksGrow, Keys
<1>12. \A k \in 1..n : Root(u, k) = IF Root(t, k) = loser THEN winner ELSE Root(t, k)
  <2>. DEFINE g == [k \in 1..n |-> IF Root(t, k) = loser THEN winner ELSE Root(t, k)]
  <2>1. ASSUME NEW k \in 1..n PROVE g[k] = IF u.parents[k] = k THEN k ELSE g[u.parents[k]]
    <3>1. /\ P[k] \in 1..n /\ Root(t, k) = Root(t, P[k]) /\ Root(t, loser) = loser
          /\ Root(t, winner) = winner /\ (P[k] = k => Root(t, k) = k)
      BY <1>1, <1>2, Roots
    <3>. QED
      BY <1>5, <3>1
  <2>. HIDE DEF g
  <2>2. \A k \in 1..n : Root(u, k) = g[k]
    BY <1>1, <1>10, <1>11, <2>1, RootUnique
  <2>. QED
    BY <2>2 DEF g
<1>. QED
  BY <1>1, <1>3, <1>9, <1>10, <1>11, <1>12 DEF WellFormed

\* A new value for a root
LEMMA Valuing ==
  ASSUME NEW n, NEW t, WellFormed(n, t), NEW root \in 1..n, NEW v \in Stored,
         NEW u, u = SetRoot(t, root, v)
  PROVE  /\ WellFormed(n, u) /\ LoggedSince(n, t, u)
         /\ u.generation = t.generation /\ u.parents = t.parents
         /\ u.values = [k \in 1..n |-> IF k = root THEN v ELSE t.values[k]]
<1>. DEFINE en == ValueEntry(root, t.values[root])
<1>1. n \in Nat /\ t \in Tables(n) /\ RanksGrow(t)
  BY DEF WellFormed
<1>2. /\ IsTable(t) /\ t.values \in [1..n -> Stored] /\ t.log \in Seq(Entries(n))
      /\ t.parents \in [1..n -> 1..n] /\ t.ranks \in [1..n -> Nat] /\ t.generation \in Nat
  BY <1>1 DEF Tables, IsTable
<1>3. /\ IsTable(u) /\ u.parents = t.parents /\ u.ranks = t.ranks /\ u.generation = t.generation
      /\ u.values = [k \in 1..n |-> IF k = root THEN v ELSE t.values[k]]
      /\ u.log = Append(t.log, en)
  <2>1. IsTable(t) /\ DOMAIN t.values = 1..n
    BY <1>2
  <2>2. u.values = Updated(t.values, root, v) /\ u.log = Append(t.log, en)
        /\ IsTable(u) /\ u.parents = t.parents /\ u.ranks = t.ranks /\ u.generation = t.generation
    BY <2>1 DEF SetRoot, IsTable
  <2>. QED
    BY <2>1, <2>2 DEF Updated
<1>4. en \in Entries(n) /\ en.kind = "Value" /\ en.key = root /\ en.original = t.values[root]
  BY <1>2 DEF ValueEntry, Entries
<1>. HIDE DEF en
<1>5. LoggedSince(n, t, u)
  <2>1. <<en>> \in Seq(Entries(n)) /\ u.log = t.log \o <<en>>
    <3>1. <<en>> \in Seq(Entries(n))
      BY <1>4
    <3>2. Append(t.log, en) = t.log \o <<en>>
      BY <1>2, <1>4, AppendIsConcat
    <3>. QED
      BY <1>3, <3>1, <3>2
  <2>2. \A kind, k, now : Original(<<en>>, kind, k, now) =
                            IF en.kind = kind /\ en.key = k THEN en.original ELSE now
    BY OriginalOne
  <2>3. Undoes(n, <<en>>, u, t)
    BY <1>3, <1>4, <2>2 DEF Undoes
  <2>. QED
    BY <2>1, <2>3 DEF LoggedSince
<1>6. u.values \in [1..n -> Stored] /\ u.log \in Seq(Entries(n))
  <2>1. u.log \in Seq(Entries(n))
    BY <1>1, <1>5, LogType
  <2>2. \A k \in 1..n : (IF k = root THEN v ELSE t.values[k]) \in Stored
    BY <1>2
  <2>. QED
    BY <1>3, <2>1, <2>2
<1>7. u \in Tables(n)
  BY <1>2, <1>3, <1>6 DEF Tables, IsTable
<1>8. RanksGrow(u)
  BY <1>1, <1>3 DEF RanksGrow, Keys
<1>. QED
  BY <1>1, <1>3, <1>5, <1>7, <1>8 DEF WellFormed

\* Roots depend on the parents only.
LEMMA SameParents ==
  ASSUME NEW t, NEW u, u.parents = t.parents, NEW k
  PROVE  Root(u, k) = Root(t, k)
BY DEF Root, Keys

\* What find changes is logged, and so is what comes after it.
LEMMA AfterFinding ==
  ASSUME NEW n, NEW t, WellFormed(n, t), NEW u, SameClasses(n, t, u),
         NEW v, SameClasses(n, u, v)
  PROVE  SameClasses(n, t, v)
<1>1. n \in Nat /\ t \in Tables(n) /\ LoggedSince(n, t, u) /\ LoggedSince(n, u, v)
  BY DEF WellFormed, SameClasses
<1>2. LoggedSince(n, t, v)
  BY <1>1, LoggedTransitive
<1>. QED
  BY <1>2 DEF SameClasses

\* unify leaves the classes of a and b with one root, that of either, and all else as it was.
LEMMA Uniting ==
  ASSUME NEW n, NEW t, WellFormed(n, t), NEW a \in 1..n, NEW b \in 1..n,
         NEW u, u = table_unify(t, a, b)
  PROVE  United(n, t, a, b, u)
<1>. DEFINE ra == Root(t, a)
            rb == Root(t, b)
            f == find(find(t, a), b)
<1>1. n \in Nat /\ t \in Tables(n) /\ RanksGrow(t)
  BY DEF WellFormed
<1>2. SameClasses(n, t, f)
  <2>1. SameClasses(n, t, find(t, a))
    BY Finding
  <2>2. WellFormed(n, find(t, a))
    BY <2>1 DEF SameClasses
  <2>3. SameClasses(n, find(t, a), f)
    BY <2>2, Finding
  <2>. QED
    BY <2>1, <2>3, AfterFinding
<1>3. u = LinkRoots(f, ra, rb)
  BY DEF table_unify
<1>. HIDE DEF f
<1>4. /\ WellFormed(n, f) /\ f \in Tables(n) /\ RanksGrow(f) /\ LoggedSince(n, t, f)
      /\ f.generation = t.generation /\ f.values = t.values
      /\ \A k \in 1..n : Root(f, k) = Root(t, k)
  BY <1>2 DEF SameClasses, WellFormed
<1>5. ra \in 1..n /\ rb \in 1..n
  BY <1>1, Roots
<1>6. f.parents[ra] = ra /\ f.parents[rb] = rb
  <2>1. Root(f, a) = ra /\ Root(f, b) = rb
    BY <1>4
  <2>. QED
    BY <1>1, <1>4, <2>1, Roots
<1>. HIDE DEF ra, rb
<1>7. f.ranks[ra] \in Nat /\ f.ranks[rb] \in Nat
  <2>1. f.ranks \in [1..n -> Nat]
    BY <1>4 DEF Tables
  <2>. QED
    BY <1>5, <2>1
<1>8. CASE ra = rb
  <2>1. u = f
    BY <1>3, <1>8 DEF LinkRoots
  <2>2. \A k \in 1..n : Root(u, k) = IF Root(t, k) \in {ra, rb} THEN ra ELSE Root(t, k)
    BY <1>4, <1>8, <2>1
  <2>. QED
    BY <1>4, <2>1, <2>2 DEF ra, rb, United
<1>9. ASSUME NEW loser \in {ra, rb}, NEW winner \in {ra, rb}, loser # winner,
             f.ranks[loser] <= f.ranks[winner], u = Link(f, loser, winner)
      PROVE  /\ WellFormed(n, u) /\ LoggedSince(n, t, u)
             /\ u.generation = t.generation /\ u.values = t.values
             /\ \A k \in 1..n : Root(u, k) = IF Root(t, k) \in {ra, rb} THEN winner ELSE Root(t, k)
  <2>1. loser \in 1..n /\ winner \in 1..n /\ f.parents[loser] = loser /\ f.parents[winner] = winner
    BY <1>5, <1>6
  <2>2. /\ WellFormed(n, u) /\ LoggedSince(n, f, u) /\ u.generation = f.generation
        /\ u.values = f.values
        /\ \A k \in 1..n : Root(u, k) = IF Root(f, k) = loser THEN winner ELSE Root(f, k)
    BY <1>4, <1>9, <2>1, Linking
  <2>3. LoggedSince(n, t, u)
    BY <1>1, <1>4, <2>2, LoggedTransitive
  <2>4. {loser, winner} = {ra, rb}
    BY <1>9
  <2>. QED
    BY <1>4, <2>2, <2>3, <2>4
<1>10. CASE ra # rb /\ f.ranks[ra] < f.ranks[rb]
  <2>1. u = Link(f, ra, rb) /\ f.ranks[ra] <= f.ranks[rb]
    BY <1>3, <1>7, <1>10 DEF LinkRoots
  <2>. QED
    BY <1>9, <1>10, <2>1 DEF ra, rb, United
<1>11. CASE ra # rb /\ ~(f.ranks[ra] < f.ranks[rb])
  <2>1. u = Link(f, rb, ra) /\ f.ranks[rb] <= f.ranks[ra]
    BY <1>3, <1>7, <1>11 DEF LinkRoots
  <2>. QED
    BY <1>9, <1>11, <2>1 DEF ra, rb, United
<1>. QED
  BY <1>8, <1>10, <1>11

\* set_value changes the value of one class and no class.
LEMMA Setting ==
  ASSUME NEW n, NEW t, WellFormed(n, t), NEW a \in 1..n, NEW v \in Stored,
         NEW u, u = set_value(t, a, v)
  PROVE  /\ WellFormed(n, u) /\ LoggedSince(n, t, u) /\ u.generation = t.generation
         /\ \A k \in 1..n : Root(u, k) = Root(t, k)
         /\ u.values = [k \in 1..n |-> IF k = Root(t, a) THEN v ELSE t.values[k]]
<1>. DEFINE f == find(t, a)
<1>1. n \in Nat /\ t \in Tables(n) /\ RanksGrow(t)
  BY DEF WellFormed
<1>2. SameClasses(n, t, f)
  BY Finding
<1>3. u = SetRoot(f, Root(t, a), v)
  BY DEF set_value
<1>. HIDE DEF f
<1>4. /\ WellFormed(n, f) /\ LoggedSince(n, t, f) /\ f.generation = t.generation
      /\ f.values = t.values /\ \A k \in 1..n : Root(f, k) = Root(t, k)
  BY <1>2 DEF SameClasses
<1>5. Root(t, a) \in 1..n
  BY <1>1, Roots
<1>6. /\ WellFormed(n, u) /\ LoggedSince(n, f, u) /\ u.generation = f.generation
      /\ u.parents = f.parents
      /\ u.values = [k \in 1..n |-> IF k = Root(t, a) THEN v ELSE f.values[k]]
  BY <1>3, <1>4, <1>5, Valuing
<1>7. LoggedSince(n, t, u)
  BY <1>1, <1>4, <1>6, LoggedTransitive
<1>8. \A k \in 1..n : Root(u, k) = Root(f, k)
  BY <1>6, SameParents
<1>. QED
  BY <1>4, <1>6, <1>7, <1>8

\* A snapshot adds its marker.
LEMMA Marking ==
  ASSUME NEW n, NEW t, WellFormed(n, t), NEW u, u = get_snapshot(t)
  PROVE  /\ WellFormed(n, u) /\ LoggedSince(n, t, u)
         /\ u.parents = t.parents /\ u.ranks = t.ranks /\ u.values = t.values
         /\ u.log = t.log \o <<Marker(t.generation)>>
         /\ Marker(t.generation) \in Entries(n)
<1>1. n \in Nat /\ t \in Tables(n) /\ RanksGrow(t)
  BY DEF WellFormed
<1>2. /\ IsTable(t) /\ t.values \in [1..n -> Stored] /\ t.log \in Seq(Entries(n))
      /\ t.parents \in [1..n -> 1..n] /\ t.ranks \in [1..n -> Nat] /\ t.generation \in Nat
  BY <1>1 DEF Tables, IsTable
<1>3. /\ IsTable(u) /\ u.parents = t.parents /\ u.ranks = t.ranks /\ u.values = t.values
      /\ u.generation = t.generation + 1 /\ u.log = Append(t.log, Marker(t.generation))
  BY <1>2 DEF get_snapshot, IsTable
<1>4. Marker(t.generation) \in Entries(n) /\ Marker(t.generation).kind = "Marker"
  BY <1>2 DEF Marker, Entries
<1>. DEFINE en == Marker(t.generation)
<1>. HIDE DEF en
<1>5. en \in Entries(n) /\ en.kind = "Marker" /\ u.log = Append(t.log, en)
  BY <1>3, <1>4 DEF en
<1>6. <<en>> \in Seq(Entries(n)) /\ u.log = t.log \o <<en>>
  BY <1>2, <1>5
<1>7. Undoes(n, <<en>>, u, t)
  <2>1. \A kind, k, now : Original(<<en>>, kind, k, now) =
                            IF en.kind = kind /\ en.key = k THEN en.original ELSE now
    BY OriginalOne
  <2>. QED
    BY <1>3, <1>5, <2>1 DEF Undoes
<1>8. LoggedSince(n, t, u)
  BY <1>6, <1>7 DEF LoggedSince
<1>9. u.log \in Seq(Entries(n)) /\ u.generation \in Nat
  BY <1>1, <1>2, <1>3, <1>8, LogType
<1>10. u \in Tables(n)
  BY <1>2, <1>3, <1>9 DEF Tables, IsTable
<1>11. RanksGrow(u)
  BY <1>1, <1>3 DEF RanksGrow, Keys
<1>. QED
  BY <1>1, <1>3, <1>4, <1>6, <1>8, <1>10, <1>11 DEF WellFormed, en

\* A function on 1..n with one more value
LEMMA AppendTo ==
  ASSUME NEW n \in Nat, NEW V, NEW f \in [1..n -> V], NEW x \in V
  PROVE  /\ Append(f, x) = [k \in 1..(n + 1) |-> IF k = n + 1 THEN x ELSE f[k]]
         /\ Len(f) = n
<1>1. f \in Seq(V) /\ Len(f) = n
  BY SeqDef
<1>2. /\ Append(f, x) \in Seq(V) /\ Len(Append(f, x)) = n + 1
      /\ \A k \in 1..n : Append(f, x)[k] = f[k]
      /\ Append(f, x)[n + 1] = x
  BY <1>1
<1>. DEFINE g == [k \in 1..(n + 1) |-> IF k = n + 1 THEN x ELSE f[k]]
<1>3. g \in Seq(V) /\ Len(g) = n + 1
  <2>1. \A k \in 1..(n + 1) : k # n + 1 => k \in 1..n
    OBVIOUS
  <2>2. g \in [1..(n + 1) -> V]
    BY <2>1
  <2>. QED
    BY <2>2, SeqDef
<1>4. \A k \in 1..(n + 1) : Append(f, x)[k] = g[k]
  <2>1. \A k \in 1..(n + 1) : k # n + 1 => k \in 1..n
    OBVIOUS
  <2>. QED
    BY <1>2, <2>1
<1>. HIDE DEF g
<1>5. Append(f, x) = g
  BY <1>2, <1>3, <1>4, SeqEqual
<1>. QED
  BY <1>1, <1>5 DEF g

\* The entries of a table's log are entries of a larger table's.
LEMMA MoreEntries ==
  ASSUME NEW n \in Nat
  PROVE  Entries(n) \subseteq Entries(n + 1)
<1>1. 1..n \subseteq 1..(n + 1)
  OBVIOUS
<1>. QED
  BY <1>1 DEF Entries

\* A new key is its own root, and the others keep theirs.
LEMMA Adding ==
  ASSUME NEW n, NEW t, WellFormed(n, t), NEW v \in Stored,
         NEW u, u = new_key(t, v)
  PROVE  Added(n, t, v, u)
<1>. DEFINE m == n + 1
<1>1. n \in Nat /\ t \in Tables(n) /\ RanksGrow(t) /\ m \in Nat /\ m \in 1..m
  BY DEF WellFormed
<1>2. /\ IsTable(t) /\ t.values \in [1..n -> Stored] /\ t.log \in Seq(Entries(n))
      /\ t.parents \in [1..n -> 1..n] /\ t.ranks \in [1..n -> Nat] /\ t.generation \in Nat
  BY <1>1 DEF Tables, IsTable
<1>3. /\ IsTable(u) /\ u.log = t.log /\ u.generation = t.generation
      /\ u.parents = Append(t.parents, Len(t.parents) + 1)
      /\ u.ranks = Append(t.ranks, 0) /\ u.values = Append(t.values, v)
  BY <1>2 DEF new_key, IsTable
<1>4. \A k \in 1..m : k = m \/ k \in 1..n
  BY <1>1
<1>5. u.parents = [k \in 1..m |-> IF k = m THEN m ELSE t.parents[k]]
  <2>1. t.parents \in [1..n -> 1..m]
    <3>1. 1..n \subseteq 1..m
      BY <1>1
    <3>. QED
      BY <1>2, <3>1
  <2>2. /\ Len(t.parents) = n
        /\ Append(t.parents, m) = [k \in 1..m |-> IF k = m THEN m ELSE t.parents[k]]
    BY <1>1, <2>1, AppendTo
  <2>. QED
    BY <1>3, <2>2
<1>6. u.ranks = [k \in 1..m |-> IF k = m THEN 0 ELSE t.ranks[k]]
  BY <1>1, <1>2, <1>3, AppendTo
<1>7. u.values = [k \in 1..m |-> IF k = m THEN v ELSE t.values[k]]
  BY <1>1, <1>2, <1>3, AppendTo
<1>8. u \in Tables(m)
  <2>1. u.parents \in [1..m -> 1..m]
    BY <1>1, <1>2, <1>4, <1>5
  <2>2. u.ranks \in [1..m -> Nat]
    <3>1. \A k \in 1..m : (IF k = m THEN 0 ELSE t.ranks[k]) \in Nat
      BY <1>2, <1>4
    <3>. QED
      BY <1>6, <3>1
  <2>3. u.values \in [1..m -> Stored]
    <3>1. \A k \in 1..m : (IF k = m THEN v ELSE t.values[k]) \in Stored
      BY <1>2, <1>4
    <3>. QED
      BY <1>7, <3>1
  <2>4. u.log \in Seq(Entries(m))
    BY <1>1, <1>2, <1>3, MoreEntries, SeqMonotonic
  <2>. QED
    BY <1>2, <1>3, <2>1, <2>2, <2>3, <2>4 DEF Tables, IsTable
<1>9. ASSUME NEW k \in 1..n
      PROVE  /\ k \in 1..m /\ k # m /\ t.parents[k] \in 1..n /\ t.parents[k] # m
             /\ u.parents[k] = t.parents[k] /\ u.ranks[k] = t.ranks[k]
             /\ u.ranks[t.parents[k]] = t.ranks[t.parents[k]]
  <2>1. t.parents[k] \in 1..n
    BY <1>2
  <2>2. k \in 1..m /\ k # m /\ t.parents[k] \in 1..m /\ t.parents[k] # m
    BY <1>1, <2>1
  <2>. QED
    BY <1>5, <1>6, <2>1, <2>2
<1>10. u.parents[m] = m
  BY <1>1, <1>5
<1>11. RanksGrow(u)
  <2>1. ASSUME NEW k \in 1..m
        PROVE  u.parents[k] \in 1..m /\ (u.parents[k] # k => u.ranks[k] < u.ranks[u.parents[k]])
    <3>1. CASE k = m
      BY <1>1, <1>10, <3>1
    <3>2. CASE k \in 1..n
      <4>1. t.parents[k] # k => t.ranks[k] < t.ranks[t.parents[k]]
        BY <1>1, <1>2, <3>2 DEF RanksGrow, Keys
      <4>2. t.parents[k] \in 1..m
        BY <1>1, <1>9, <3>2
      <4>. QED
        BY <1>9, <3>2, <4>1, <4>2
    <3>. QED
      BY <1>4, <3>1, <3>2
  <2>2. DOMAIN u.parents = 1..m
    BY <1>5
  <2>. QED
    BY <2>1, <2>2 DEF RanksGrow, Keys
<1>12. \A k \in 1..m : Root(u, k) = IF k = m THEN m ELSE Root(t, k)
  <2>. DEFINE g == [k \in 1..m |-> IF k = m THEN m ELSE Root(t, k)]
  <2>1. ASSUME NEW k \in 1..m PROVE g[k] = IF u.parents[k] = k THEN k ELSE g[u.parents[k]]
    <3>1. CASE k = m
      BY <1>10, <3>1
    <3>2. CASE k \in 1..n
      <4>1. g[k] = Root(t, k) /\ g[t.parents[k]] = Root(t, t.parents[k])
        <5>1. t.parents[k] \in 1..m
          BY <1>1, <1>9, <3>2
        <5>. QED
          BY <1>9, <3>2, <5>1
      <4>2. Root(t, k) = Root(t, t.parents[k]) /\ (t.parents[k] = k => Root(t, k) = k)
        BY <1>1, <3>2, Roots
      <4>. QED
        BY <1>9, <3>2, <4>1, <4>2
    <3>. QED
      BY <1>4, <3>1, <3>2
  <2>. HIDE DEF g
  <2>2. \A k \in 1..m : Root(u, k) = g[k]
    BY <1>1, <1>8, <1>11, <2>1, RootUnique
  <2>. QED
    BY <2>2 DEF g
<1>13. \A k \in 1..n : Root(u, k) = Root(t, k)
  BY <1>9, <1>12
<1>14. Root(u, m) = m
  BY <1>1, <1>12
<1>. QED
  BY <1>1, <1>3, <1>5, <1>6, <1>7, <1>8, <1>11, <1>13, <1>14 DEF WellFormed, Added

\* A new key on both sides needs nothing logged.
LEMMA AddingLogged ==
  ASSUME NEW n, NEW s, WellFormed(n, s), NEW t, WellFormed(n, t), LoggedSince(n, s, t),
         NEW v \in Stored
  PROVE  LoggedSince(n + 1, new_key(s, v), new_key(t, v))
<1>. DEFINE m == n + 1
            x == new_key(s, v)
            y == new_key(t, v)
<1>1. n \in Nat /\ m \in Nat /\ \A k \in 1..m : k = m \/ (k \in 1..n /\ k # m)
  BY DEF WellFormed
<1>2. PICK e \in Seq(Entries(n)) : t.log = s.log \o e /\ Undoes(n, e, t, s)
  BY DEF LoggedSince
<1>3. /\ x.log = s.log
      /\ x.parents = [k \in 1..m |-> IF k = m THEN m ELSE s.parents[k]]
      /\ x.ranks = [k \in 1..m |-> IF k = m THEN 0 ELSE s.ranks[k]]
      /\ x.values = [k \in 1..m |-> IF k = m THEN v ELSE s.values[k]]
  BY Adding DEF Added
<1>4. /\ y.log = t.log
      /\ y.parents = [k \in 1..m |-> IF k = m THEN m ELSE t.parents[k]]
      /\ y.ranks = [k \in 1..m |-> IF k = m THEN 0 ELSE t.ranks[k]]
      /\ y.values = [k \in 1..m |-> IF k = m THEN v ELSE t.values[k]]
  BY Adding DEF Added
<1>. HIDE DEF x, y
<1>5. e \in Seq(Entries(m))
  BY <1>1, MoreEntries, SeqMonotonic
<1>6. ASSUME NEW kind \in {"Parent", "Rank", "Value"}, NEW now
      PROVE  Original(e, kind, m, now) = now
  <2>1. ASSUME NEW i \in Logged(e, DOMAIN e, kind, m) PROVE FALSE
    <3>1. i \in DOMAIN e /\ e[i].kind = kind /\ e[i].key = m
      BY DEF Logged
    <3>2. e[i] \in Entries(n)
      BY <3>1, LenProperties, ElementOfSeq
    <3>3. e[i].key \in 1..n
      BY <1>1, <3>1, <3>2, EntryTypes
    <3>. QED
      BY <1>1, <3>1, <3>3
  <2>. QED
    BY <2>1, NotLogged DEF Original
<1>7. ASSUME NEW k \in 1..m
      PROVE  /\ Original(e, "Parent", k, y.parents[k]) = x.parents[k]
             /\ Original(e, "Rank", k, y.ranks[k]) = x.ranks[k]
             /\ Original(e, "Value", k, y.values[k]) = x.values[k]
  <2>1. CASE k = m
    <3>1. /\ y.parents[m] = m /\ x.parents[m] = m /\ y.ranks[m] = 0 /\ x.ranks[m] = 0
          /\ y.values[m] = v /\ x.values[m] = v
      BY <1>3, <1>4, <2>1
    <3>. QED
      BY <1>6, <2>1, <3>1
  <2>2. CASE k \in 1..n /\ k # m
    <3>1. /\ y.parents[k] = t.parents[k] /\ x.parents[k] = s.parents[k]
          /\ y.ranks[k] = t.ranks[k] /\ x.ranks[k] = s.ranks[k]
          /\ y.values[k] = t.values[k] /\ x.values[k] = s.values[k]
      BY <1>3, <1>4, <2>2
    <3>. QED
      BY <1>2, <2>2, <3>1 DEF Undoes
  <2>. QED
    BY <1>1, <2>1, <2>2
<1>. QED
  BY <1>2, <1>3, <1>4, <1>5, <1>7 DEF LoggedSince, Undoes, x, y

\* Another thread gets the same classes, and the values of the roots.
LEMMA Sending ==
  ASSUME NEW n, NEW t, WellFormed(n, t), NEW u, u = get_send(t)
  PROVE  /\ WellFormed(n, u)
         /\ \A k \in 1..n : Root(u, k) = Root(t, k) /\ u.values[Root(t, k)] = t.values[Root(t, k)]
<1>1. n \in Nat /\ t \in Tables(n) /\ RanksGrow(t)
  BY DEF WellFormed
<1>2. /\ IsTable(t) /\ t.values \in [1..n -> Stored] /\ Keys(t) = 1..n
      /\ t.parents \in [1..n -> 1..n] /\ t.ranks \in [1..n -> Nat]
  BY <1>1 DEF Tables, IsTable, Keys
<1>3. /\ IsTable(u) /\ u.parents = t.parents /\ u.ranks = t.ranks
      /\ u.log = <<>> /\ u.generation = 0
      /\ u.values = [k \in 1..n |-> IF t.parents[k] = k THEN t.values[k] ELSE NoValue]
  <2>1. IsTable(t) /\ Keys(t) = 1..n
    BY <1>2
  <2>. QED
    BY <2>1 DEF get_send, IsTable
<1>4. u.values \in [1..n -> Stored] /\ u.log \in Seq(Entries(n))
  <2>1. \A k \in 1..n : (IF t.parents[k] = k THEN t.values[k] ELSE NoValue) \in Stored
    BY <1>2 DEF Stored
  <2>. QED
    BY <1>3, <2>1, EmptySeq
<1>5. u \in Tables(n)
  <2>1. u.parents \in [1..n -> 1..n] /\ u.ranks \in [1..n -> Nat] /\ u.generation \in Nat
    BY <1>2, <1>3
  <2>2. IsTable(u)
    BY <1>3
  <2>. QED
    BY <1>4, <2>1, <2>2 DEF Tables, IsTable
<1>6. RanksGrow(u)
  BY <1>1, <1>3 DEF RanksGrow, Keys
<1>7. ASSUME NEW k \in 1..n
      PROVE  Root(u, k) = Root(t, k) /\ u.values[Root(t, k)] = t.values[Root(t, k)]
  <2>1. Root(t, k) \in 1..n /\ t.parents[Root(t, k)] = Root(t, k)
    BY <1>1, Roots
  <2>. QED
    BY <1>3, <2>1, SameParents
<1>. QED
  BY <1>1, <1>5, <1>6, <1>7 DEF WellFormed

\* Discarding forgets the log and nothing else.
LEMMA Discarding ==
  ASSUME NEW n, NEW t, WellFormed(n, t), NEW u, u = discard_snapshot(t)
  PROVE  WellFormed(n, u) /\ u.parents = t.parents /\ u.values = t.values
<1>1. n \in Nat /\ t \in Tables(n) /\ RanksGrow(t)
  BY DEF WellFormed
<1>2. /\ IsTable(t) /\ t.values \in [1..n -> Stored]
      /\ t.parents \in [1..n -> 1..n] /\ t.ranks \in [1..n -> Nat] /\ t.generation \in Nat
  BY <1>1 DEF Tables, IsTable
<1>3. /\ IsTable(u) /\ u.parents = t.parents /\ u.ranks = t.ranks /\ u.log = <<>>
      /\ u.generation = t.generation /\ u.values = t.values
  BY <1>2 DEF discard_snapshot, IsTable
<1>4. /\ u.log \in Seq(Entries(n)) /\ u.parents \in [1..n -> 1..n] /\ u.ranks \in [1..n -> Nat]
      /\ u.values \in [1..n -> Stored] /\ u.generation \in Nat
  BY <1>2, <1>3, EmptySeq
<1>5. u \in Tables(n)
  BY <1>3, <1>4 DEF Tables, IsTable
<1>6. RanksGrow(u)
  BY <1>1, <1>3 DEF RanksGrow, Keys
<1>. QED
  BY <1>1, <1>3, <1>5, <1>6 DEF WellFormed

\* When every change since the snapshot of s has been logged, the assertions of restore_snapshot
\* hold and it brings back s.
LEMMA Restoring ==
  ASSUME NEW n, NEW s, WellFormed(n, s), NEW t, WellFormed(n, t),
         LoggedSince(n, get_snapshot(s), t)
  PROVE  /\ SnapshotValid(t, snapshot_of(s))
         /\ restore_snapshot(t, snapshot_of(s)) = [s EXCEPT !.generation = t.generation]
<1>. DEFINE p == get_snapshot(s)
            marker == Marker(s.generation)
            len == Len(s.log)
            base == [t EXCEPT !.log = s.log]
<1>1. n \in Nat /\ s \in Tables(n) /\ t \in Tables(n)
  BY DEF WellFormed
<1>2. /\ IsTable(s) /\ s.values \in [1..n -> Stored] /\ s.log \in Seq(Entries(n))
      /\ s.parents \in [1..n -> 1..n] /\ s.ranks \in [1..n -> Nat] /\ len \in Nat
  BY <1>1, LenProperties DEF Tables, IsTable
<1>3. /\ IsTable(t) /\ t.values \in [1..n -> Stored] /\ t.log \in Seq(Entries(n))
      /\ t.parents \in [1..n -> 1..n] /\ t.ranks \in [1..n -> Nat] /\ t.generation \in Nat
  BY <1>1 DEF Tables, IsTable
<1>4. /\ p.parents = s.parents /\ p.ranks = s.ranks /\ p.values = s.values
      /\ p.log = s.log \o <<marker>> /\ marker \in Entries(n)
  BY Marking
<1>. HIDE DEF p
<1>5. PICK e \in Seq(Entries(n)) : t.log = p.log \o e /\ Undoes(n, e, t, p)
  BY DEF LoggedSince, p
<1>6. marker.kind = "Marker"
  BY DEF Marker
<1>. HIDE DEF marker
<1>7. PICK one \in Seq(Entries(n)) : one = <<marker>>
  <2>1. <<marker>> \in Seq(Entries(n))
    BY <1>4
  <2>. QED
    BY <2>1, Zenon
<1>. DEFINE d == one \o e
<1>8. d \in Seq(Entries(n)) /\ Len(d) = 1 + Len(e) /\ d[1] = marker /\ Len(e) \in Nat
  <2>1. Len(one) = 1 /\ one[1] = marker
    BY <1>7
  <2>2. Len(e) \in Nat /\ 1 \in 1..(1 + Len(e))
    BY LenProperties
  <2>3. /\ d \in Seq(Entries(n)) /\ Len(d) = 1 + Len(e)
        /\ \A i \in 1..(1 + Len(e)) : d[i] = IF i <= 1 THEN one[i] ELSE e[i - 1]
    <3>1. d \in Seq(Entries(n)) /\ Len(d) = Len(one) + Len(e)
      BY ConcatProperties
    <3>2. \A i \in 1..(Len(one) + Len(e)) :
            d[i] = IF i <= Len(one) THEN one[i] ELSE e[i - Len(one)]
      BY ConcatProperties
    <3>. QED
      BY <2>1, <3>1, <3>2
  <2>. QED
    BY <2>1, <2>2, <2>3
<1>9. t.log = s.log \o d
  <2>1. ASSUME NEW w \in Seq(Entries(n)) PROVE (w \o one) \o e = w \o d
    BY ConcatAssociative
  <2>. QED
    BY <1>2, <1>4, <1>5, <1>7, <2>1
<1>. HIDE DEF d
<1>10. /\ Len(t.log) = len + Len(d)
       /\ SubSeq(t.log, 1, len) = s.log
       /\ SubSeq(t.log, len + 1, Len(t.log)) = d
       /\ t.log[len + 1] = marker
  <2>1. ASSUME NEW w \in Seq(Entries(n))
        PROVE  /\ Len(w \o d) = Len(w) + Len(d)
               /\ SubSeq(w \o d, 1, Len(w)) = w
               /\ SubSeq(w \o d, Len(w) + 1, Len(w) + Len(d)) = d
               /\ (w \o d)[Len(w) + 1] = d[1]
    <3>1. Len(w) \in Nat /\ Len(d) \in Nat /\ Len(d) >= 1
      BY <1>8, LenProperties
    <3>2. Len(w \o d) = Len(w) + Len(d)
      BY <1>8, ConcatProperties
    <3>3. SubSeq(w \o d, 1, Len(w)) = w
      <4>1. CASE Len(w) = 0
        <5>1. w = <<>>
          BY <4>1, EmptySeq
        <5>2. SubSeq(w \o d, 1, 0) = <<>>
          BY SubSeqEmpty
        <5>. QED
          BY <4>1, <5>1, <5>2
      <4>2. CASE Len(w) # 0
        <5>1. 1 \in 1..Len(w) /\ Len(w) \in 1..Len(w)
          BY <3>1, <4>2
        <5>2. SubSeq(w \o d, 1, Len(w)) = SubSeq(w, 1, Len(w))
          BY <1>8, <5>1, SubSeqOfConcat1
        <5>3. SubSeq(w, 1, Len(w)) = w
          BY SubSeqFull
        <5>. QED
          BY <5>2, <5>3
      <4>. QED
        BY <4>1, <4>2
    <3>4. SubSeq(w \o d, Len(w) + 1, Len(w) + Len(d)) = d
      <4>1. /\ Len(w) + 1 \in Len(w)+1 .. Len(w)+Len(d)
            /\ Len(w) + Len(d) \in Len(w)+1 .. Len(w)+Len(d)
        BY <3>1
      <4>2. SubSeq(w \o d, Len(w) + 1, Len(w) + Len(d))
              = SubSeq(d, Len(w) + 1 - Len(w), Len(w) + Len(d) - Len(w))
        BY <1>8, <4>1, SubSeqOfConcat2
      <4>3. Len(w) + 1 - Len(w) = 1 /\ Len(w) + Len(d) - Len(w) = Len(d)
        BY <3>1
      <4>4. SubSeq(d, 1, Len(d)) = d
        BY <1>8, SubSeqFull
      <4>. QED
        BY <4>2, <4>3, <4>4
    <3>5. (w \o d)[Len(w) + 1] = d[1]
      <4>1. /\ Len(w) + 1 \in 1..(Len(w) + Len(d))
            /\ ~(Len(w) + 1 <= Len(w)) /\ Len(w) + 1 - Len(w) = 1
        BY <3>1
      <4>2. (w \o d)[Len(w) + 1] = d[Len(w) + 1 - Len(w)]
        BY <1>8, <4>1, ConcatProperties
      <4>. QED
        BY <4>1, <4>2
    <3>. QED
      BY <3>2, <3>3, <3>4, <3>5
  <2>. QED
    BY <1>2, <1>8, <1>9, <2>1
<1>11. snapshot_of(s).log_len = len + 1 /\ snapshot_of(s).generation = s.generation
  BY DEF snapshot_of
<1>12. SnapshotValid(t, snapshot_of(s))
  BY <1>2, <1>8, <1>10, <1>11 DEF SnapshotValid, marker
<1>13. restore_snapshot(t, snapshot_of(s)) = FoldRight(Undo, d, base)
  <2>1. (len + 1) - 1 = len
    BY <1>2
  <2>. QED
    BY <1>10, <1>11, <2>1 DEF restore_snapshot
<1>14. /\ base \in Tables(n) /\ base.parents = t.parents /\ base.ranks = t.ranks
       /\ base.values = t.values /\ base.log = s.log /\ base.generation = t.generation
  BY <1>2, <1>3 DEF Tables, IsTable
<1>. HIDE DEF base
<1>15. FoldRight(Undo, d, base) = Rewound(base, d, DOMAIN d)
  BY <1>1, <1>8, <1>14, FoldUndo
<1>16. ASSUME NEW k \in 1..n
       PROVE  /\ OriginalIn(d, DOMAIN d, "Parent", k, t.parents[k]) = s.parents[k]
              /\ OriginalIn(d, DOMAIN d, "Rank", k, t.ranks[k]) = s.ranks[k]
              /\ OriginalIn(d, DOMAIN d, "Value", k, t.values[k]) = s.values[k]
  <2>1. ASSUME NEW kind, NEW now
        PROVE  Original(d, kind, k, now) = Original(one, kind, k, Original(e, kind, k, now))
    BY <1>1, OriginalConcat DEF d
  <2>2. \A kind, now : kind # "Marker" => Original(one, kind, k, now) = now
    BY <1>6, <1>7, OriginalOne
  <2>3. /\ Original(e, "Parent", k, t.parents[k]) = p.parents[k]
        /\ Original(e, "Rank", k, t.ranks[k]) = p.ranks[k]
        /\ Original(e, "Value", k, t.values[k]) = p.values[k]
    BY <1>5 DEF Undoes
  <2>4. ASSUME NEW kind \in {"Parent", "Rank", "Value"}, NEW now
        PROVE  OriginalIn(d, DOMAIN d, kind, k, now) = Original(e, kind, k, now)
    BY <2>1, <2>2 DEF Original
  <2>. QED
    BY <1>4, <2>3, <2>4
<1>17. Rewound(base, d, DOMAIN d) =
         [parents |-> s.parents, ranks |-> s.ranks, values |-> s.values, log |-> s.log,
          generation |-> t.generation]
  <2>1. [k \in DOMAIN t.parents |-> OriginalIn(d, DOMAIN d, "Parent", k, t.parents[k])] = s.parents
    BY <1>2, <1>3, <1>16
  <2>2. [k \in DOMAIN t.ranks |-> OriginalIn(d, DOMAIN d, "Rank", k, t.ranks[k])] = s.ranks
    BY <1>2, <1>3, <1>16
  <2>3. [k \in DOMAIN t.values |-> OriginalIn(d, DOMAIN d, "Value", k, t.values[k])] = s.values
    BY <1>2, <1>3, <1>16
  <2>. QED
    BY <1>14, <2>1, <2>2, <2>3 DEF Rewound
<1>18. [s EXCEPT !.generation = t.generation] =
         [parents |-> s.parents, ranks |-> s.ranks, values |-> s.values, log |-> s.log,
          generation |-> t.generation]
  <2>1. DOMAIN s = {"parents", "ranks", "values", "log", "generation"}
    BY <1>2 DEF IsTable
  <2>. QED
    BY <2>1
<1>. QED
  BY <1>12, <1>13, <1>15, <1>17, <1>18

-----------------------------------------------------------------------------
(* The invariant of the table and its open snapshot                        *)

\* The table is well-formed, and so is the one to go back to; every change between is logged.
SnapshotInv(n, t, sn, s) ==
    /\ WellFormed(n, t) /\ WellFormed(n, s)
    /\ sn # NoSnapshot => sn = snapshot_of(s) /\ LoggedSince(n, get_snapshot(s), t)

Inv == \E n \in Nat : SnapshotInv(n, table, snapshot, saved)

\* The empty table
LEMMA EmptyWellFormed == WellFormed(0, EmptyTable)
<1>1. /\ EmptyTable.parents = <<>> /\ EmptyTable.ranks = <<>> /\ EmptyTable.values = <<>>
      /\ EmptyTable.log = <<>> /\ EmptyTable.generation = 0 /\ IsTable(EmptyTable)
  BY DEF EmptyTable, IsTable
<1>2. 1..0 = {} /\ DOMAIN <<>> = {}
  OBVIOUS
<1>3. <<>> \in [1..0 -> 1..0] /\ <<>> \in [1..0 -> Nat] /\ <<>> \in [1..0 -> Stored]
  BY <1>2
<1>4. <<>> \in Seq(Entries(0))
  BY EmptySeq
<1>5. EmptyTable \in Tables(0)
  <2>1. /\ EmptyTable.parents \in [1..0 -> 1..0] /\ EmptyTable.ranks \in [1..0 -> Nat]
        /\ EmptyTable.values \in [1..0 -> Stored] /\ EmptyTable.log \in Seq(Entries(0))
        /\ EmptyTable.generation \in Nat /\ IsTable(EmptyTable)
    BY <1>1, <1>3, <1>4
  <2>. QED
    BY <2>1 DEF Tables, IsTable
<1>6. RanksGrow(EmptyTable)
  BY <1>1, <1>2 DEF RanksGrow, Keys
<1>. QED
  BY <1>5, <1>6 DEF WellFormed

\* A snapshot is not NoSnapshot: it has its marker in the log.
LEMMA SnapshotIsOne ==
  ASSUME NEW n, NEW t, WellFormed(n, t)
  PROVE  snapshot_of(t) # NoSnapshot
<1>1. Len(t.log) \in Nat
  BY LenProperties DEF WellFormed, Tables
<1>2. snapshot_of(t).log_len = Len(t.log) + 1 /\ NoSnapshot.log_len = 0
  BY DEF snapshot_of, NoSnapshot
<1>. QED
  BY <1>1, <1>2

\* Snapshots of tables with the same log and generation are the same.
LEMMA SameSnapshot ==
  ASSUME NEW s, NEW t, t.log = s.log, t.generation = s.generation
  PROVE  snapshot_of(t) = snapshot_of(s)
BY DEF snapshot_of

\* A table that has only gone on logging keeps the invariant.
LEMMA GoingOn ==
  ASSUME NEW n, NEW t, NEW sn, NEW s, SnapshotInv(n, t, sn, s),
         NEW u, WellFormed(n, u), LoggedSince(n, t, u)
  PROVE  SnapshotInv(n, u, sn, s)
<1>1. n \in Nat /\ get_snapshot(s) \in Tables(n)
  BY Marking DEF SnapshotInv, WellFormed
<1>2. ASSUME LoggedSince(n, get_snapshot(s), t) PROVE LoggedSince(n, get_snapshot(s), u)
  BY <1>1, <1>2, LoggedTransitive
<1>. QED
  BY <1>2 DEF SnapshotInv

\* A new key in both keeps the invariant, for one key more.
LEMMA AddingToBoth ==
  ASSUME NEW n, NEW t, NEW sn, NEW s, SnapshotInv(n, t, sn, s), NEW v \in Stored
  PROVE  SnapshotInv(n + 1, new_key(t, v), sn, new_key(s, v))
<1>1. WellFormed(n, t) /\ WellFormed(n, s)
  BY DEF SnapshotInv
<1>2. WellFormed(n + 1, new_key(t, v)) /\ WellFormed(n + 1, new_key(s, v))
  BY <1>1, Adding DEF Added
<1>3. new_key(s, v).log = s.log /\ new_key(s, v).generation = s.generation
  <2>1. IsTable(s)
    BY <1>1 DEF WellFormed, Tables, IsTable
  <2>. QED
    BY <2>1 DEF new_key, IsTable
<1>4. snapshot_of(new_key(s, v)) = snapshot_of(s)
  BY <1>3, SameSnapshot
<1>5. get_snapshot(new_key(s, v)) = new_key(get_snapshot(s), v)
  <2>1. IsTable(s)
    BY <1>1 DEF WellFormed, Tables, IsTable
  <2>. QED
    BY <2>1 DEF get_snapshot, new_key, IsTable
<1>6. ASSUME LoggedSince(n, get_snapshot(s), t)
      PROVE  LoggedSince(n + 1, get_snapshot(new_key(s, v)), new_key(t, v))
  <2>1. WellFormed(n, get_snapshot(s))
    BY <1>1, Marking
  <2>. QED
    BY <1>1, <1>5, <1>6, <2>1, AddingLogged
<1>. QED
  BY <1>2, <1>4, <1>6 DEF SnapshotInv

\* What is restored is well-formed.
LEMMA RestoredWellFormed ==
  ASSUME NEW n, NEW s, WellFormed(n, s), NEW g \in Nat, NEW u, u = [s EXCEPT !.generation = g]
  PROVE  WellFormed(n, u) /\ u.parents = s.parents /\ u.values = s.values
<1>1. n \in Nat /\ s \in Tables(n) /\ RanksGrow(s)
  BY DEF WellFormed
<1>2. u \in Tables(n) /\ u.parents = s.parents /\ u.values = s.values /\ u.ranks = s.ranks
  BY <1>1 DEF Tables
<1>3. RanksGrow(u)
  BY <1>1, <1>2 DEF RanksGrow, Keys
<1>. QED
  BY <1>1, <1>2, <1>3 DEF WellFormed

\* The invariant holds at first.
LEMMA InvInit == Init => Inv
<1>. SUFFICES ASSUME Init PROVE SnapshotInv(0, table, snapshot, saved)
  BY DEF Inv
<1>. QED
  BY EmptyWellFormed DEF Init, SnapshotInv

\* Every step keeps the invariant.
LEMMA InvNext == Inv /\ [Next]_vars => Inv'
<1>. SUFFICES ASSUME Inv, [Next]_vars PROVE Inv'
  OBVIOUS
<1>1. PICK n \in Nat : SnapshotInv(n, table, snapshot, saved)
  BY DEF Inv
<1>2. WellFormed(n, table) /\ WellFormed(n, saved) /\ Keys(table) = 1..n
  BY <1>1 DEF SnapshotInv, WellFormed, Tables, Keys
<1>3. n + 1 \in Nat /\ 0 \in Nat
  OBVIOUS
<1>4. ASSUME NEW v \in Values, NewKey(v) PROVE Inv'
  <2>1. v \in Stored
    BY DEF Stored
  <2>2. SnapshotInv(n + 1, table', snapshot', saved')
    BY <1>1, <1>4, <2>1, AddingToBoth DEF NewKey
  <2>. QED
    BY <1>3, <2>2 DEF Inv
<1>5. ASSUME NEW k \in Keys(table), Find(k) PROVE Inv'
  <2>1. SameClasses(n, table, table')
    BY <1>2, <1>5, Finding DEF Find
  <2>2. SnapshotInv(n, table', snapshot', saved')
    BY <1>1, <1>5, <2>1, GoingOn DEF Find, SameClasses
  <2>. QED
    BY <2>2 DEF Inv
<1>6. ASSUME NEW k \in Keys(table), NEW v \in Values, SetValue(k, v) PROVE Inv'
  <2>1. WellFormed(n, table') /\ LoggedSince(n, table, table')
    BY <1>2, <1>6, Setting DEF SetValue, Stored
  <2>2. SnapshotInv(n, table', snapshot', saved')
    BY <1>1, <1>6, <2>1, GoingOn DEF SetValue
  <2>. QED
    BY <2>2 DEF Inv
<1>7. ASSUME NEW a \in Keys(table), NEW b \in Keys(table), Unify(a, b) PROVE Inv'
  <2>1. WellFormed(n, table') /\ LoggedSince(n, table, table')
    BY <1>2, <1>7, Uniting DEF Unify, United
  <2>2. SnapshotInv(n, table', snapshot', saved')
    BY <1>1, <1>7, <2>1, GoingOn DEF Unify
  <2>. QED
    BY <2>2 DEF Inv
<1>8. ASSUME TakeSnapshot PROVE Inv'
  <2>1. WellFormed(n, table') /\ LoggedSince(n, table, table')
    BY <1>2, <1>8, Marking DEF TakeSnapshot
  <2>2. CASE Open
    <3>1. SnapshotInv(n, table', snapshot', saved')
      BY <1>1, <1>8, <2>1, <2>2, GoingOn DEF TakeSnapshot
    <3>. QED
      BY <3>1 DEF Inv
  <2>3. CASE ~Open
    <3>1. snapshot' = snapshot_of(table) /\ saved' = table /\ table' = get_snapshot(table)
      BY <1>8, <2>3 DEF TakeSnapshot
    <3>2. table' \in Tables(n)
      BY <2>1 DEF WellFormed
    <3>3. LoggedSince(n, table', table')
      BY <1>1, <3>2, LoggedSame
    <3>4. SnapshotInv(n, table', snapshot', saved')
      BY <1>2, <2>1, <3>1, <3>3 DEF SnapshotInv
    <3>. QED
      BY <3>4 DEF Inv
  <2>. QED
    BY <2>2, <2>3
<1>9. ASSUME RestoreSnapshot PROVE Inv'
  <2>1. snapshot = snapshot_of(saved) /\ LoggedSince(n, get_snapshot(saved), table)
    BY <1>1, <1>9 DEF SnapshotInv, RestoreSnapshot, Open
  <2>2. table' = [saved EXCEPT !.generation = table.generation]
    BY <1>2, <1>9, <2>1, Restoring DEF RestoreSnapshot
  <2>3. table.generation \in Nat
    BY <1>2 DEF WellFormed, Tables
  <2>4. WellFormed(n, table')
    BY <1>2, <2>2, <2>3, RestoredWellFormed
  <2>5. SnapshotInv(n, table', snapshot', saved')
    BY <1>2, <1>9, <2>4 DEF SnapshotInv, RestoreSnapshot
  <2>. QED
    BY <2>5 DEF Inv
<1>10. ASSUME DiscardSnapshot PROVE Inv'
  <2>1. WellFormed(n, table')
    BY <1>2, <1>10, Discarding DEF DiscardSnapshot
  <2>2. SnapshotInv(n, table', snapshot', saved')
    BY <1>2, <1>10, <2>1 DEF SnapshotInv, DiscardSnapshot
  <2>. QED
    BY <2>2 DEF Inv
<1>11. ASSUME Share PROVE Inv'
  <2>1. WellFormed(n, table')
    BY <1>2, <1>11, Sending DEF Share
  <2>2. SnapshotInv(n, table', snapshot', saved')
    BY <1>2, <1>11, <2>1 DEF SnapshotInv, Share, Open
  <2>. QED
    BY <2>2 DEF Inv
<1>12. CASE UNCHANGED vars
  BY <1>12 DEF Inv, vars
<1>. QED
  BY <1>4, <1>5, <1>6, <1>7, <1>8, <1>9, <1>10, <1>11, <1>12 DEF Next

\* The invariant: what is not well-formed cannot be walked, what is not logged not undone.
THEOREM TableInvariant == Spec => []Inv
<1>. QED
  BY InvInit, InvNext, PTL DEF Spec

\* In every table that the type checker can make, the walks of find end: each key has a parent,
\* of higher rank where it is another key.
THEOREM FindsEnd == Spec => []RanksGrow(table)
<1>1. Inv => RanksGrow(table)
  BY DEF Inv, SnapshotInv, WellFormed
<1>. QED
  BY <1>1, TableInvariant, PTL

\* The assertions of restore_snapshot hold whenever a snapshot is open, and restoring brings back
\* parents, ranks, values and log as they were when it was taken, for the keys made since too.
THEOREM RestoreIsExact == Spec => []RestoreExact
<1>1. Inv => RestoreExact
  <2>. SUFFICES ASSUME Inv, Open PROVE /\ SnapshotValid(table, snapshot)
                                       /\ restore_snapshot(table, snapshot)
                                            = [saved EXCEPT !.generation = table.generation]
    BY DEF RestoreExact
  <2>1. PICK n \in Nat : SnapshotInv(n, table, snapshot, saved)
    BY DEF Inv
  <2>2. /\ WellFormed(n, saved) /\ WellFormed(n, table) /\ snapshot = snapshot_of(saved)
        /\ LoggedSince(n, get_snapshot(saved), table)
    BY <2>1 DEF SnapshotInv, Open
  <2>. QED
    BY <2>2, Restoring
<1>. QED
  BY <1>1, TableInvariant, PTL

-----------------------------------------------------------------------------
(* The table implements classes with values                                *)

\* The keys of a table with n keys
LEMMA KeysOf ==
  ASSUME NEW n, NEW t, WellFormed(n, t)
  PROVE  Keys(t) = 1..n
BY DEF WellFormed, Tables, Keys

\* With the same roots and the same values there, a table has the same classes and values.
LEMMA ClassesSame ==
  ASSUME NEW n, NEW t, WellFormed(n, t), NEW u, WellFormed(n, u),
         \A k \in 1..n : Root(u, k) = Root(t, k) /\ u.values[Root(t, k)] = t.values[Root(t, k)]
  PROVE  ClassOf(u) = ClassOf(t) /\ ValuesOf(u) = ValuesOf(t)
<1>1. \A k \in 1..n :
        {x \in 1..n : Root(u, x) = Root(u, k)} = {x \in 1..n : Root(t, x) = Root(t, k)}
  OBVIOUS
<1>2. \A k \in 1..n : u.values[Root(u, k)] = t.values[Root(t, k)]
  OBVIOUS
<1>3. [k \in 1..n |-> {x \in 1..n : Root(u, x) = Root(u, k)}]
        = [k \in 1..n |-> {x \in 1..n : Root(t, x) = Root(t, k)}]
  BY <1>1
<1>4. [k \in 1..n |-> u.values[Root(u, k)]] = [k \in 1..n |-> t.values[Root(t, k)]]
  BY <1>2
<1>. QED
  <2>1. Keys(t) = 1..n /\ Keys(u) = 1..n
    BY KeysOf
  <2>. QED
    BY <1>3, <1>4, <2>1 DEF ClassOf, ValuesOf, ValueOf

\* A new key is alone.
LEMMA ClassesNew ==
  ASSUME NEW n, NEW t, WellFormed(n, t), NEW v \in Stored,
         NEW u, u = new_key(t, v)
  PROVE  /\ Len(ClassOf(t)) = n
         /\ ClassOf(u) = Append(ClassOf(t), {n + 1})
         /\ ValuesOf(u) = Append(ValuesOf(t), v)
<1>. DEFINE m == n + 1
            c == ClassOf(t)
            w == ValuesOf(t)
            C == SUBSET Nat
<1>1. n \in Nat /\ t \in Tables(n) /\ RanksGrow(t) /\ m \in 1..m
  BY DEF WellFormed
<1>2. /\ WellFormed(m, u) /\ u.values = [k \in 1..m |-> IF k = m THEN v ELSE t.values[k]]
      /\ Root(u, m) = m /\ \A k \in 1..n : Root(u, k) = Root(t, k)
  <2>1. Added(n, t, v, u)
    BY Adding
  <2>. QED
    BY <2>1 DEF Added
<1>3. \A k \in 1..n : Root(t, k) \in 1..n
  BY <1>1, Roots
<1>4. \A k \in 1..m : k = m \/ (k \in 1..n /\ k # m)
  BY <1>1
<1>5. \A k \in 1..n : k \in 1..m /\ k # m
  BY <1>1
<1>6. c = [k \in 1..n |-> {x \in 1..n : Root(t, x) = Root(t, k)}]
  <2>1. Keys(t) = 1..n
    BY KeysOf
  <2>. QED
    BY <2>1 DEF ClassOf, ValuesOf, ValueOf
<1>7. w = [k \in 1..n |-> t.values[Root(t, k)]]
  <2>1. Keys(t) = 1..n
    BY KeysOf
  <2>. QED
    BY <2>1 DEF ClassOf, ValuesOf, ValueOf
<1>8. ClassOf(u) = [k \in 1..m |-> {x \in 1..m : Root(u, x) = Root(u, k)}]
  <2>1. Keys(u) = 1..m
    BY <1>2, KeysOf
  <2>. QED
    BY <2>1 DEF ClassOf, ValuesOf, ValueOf
<1>9. ValuesOf(u) = [k \in 1..m |-> u.values[Root(u, k)]]
  <2>1. Keys(u) = 1..m
    BY <1>2, KeysOf
  <2>. QED
    BY <2>1 DEF ClassOf, ValuesOf, ValueOf
<1>. HIDE DEF m, c, w
<1>10. ASSUME NEW k \in 1..m
       PROVE  {x \in 1..m : Root(u, x) = Root(u, k)} = IF k = m THEN {m} ELSE c[k]
  <2>1. CASE k = m
    <3>1. ASSUME NEW x \in 1..m PROVE Root(u, x) = Root(u, k) <=> x = m
      <4>1. CASE x = m
        BY <2>1, <4>1
      <4>2. CASE x \in 1..n /\ x # m
        BY <1>2, <1>3, <1>5, <2>1, <4>2
      <4>. QED
        BY <1>4, <4>1, <4>2
    <3>. QED
      BY <1>1, <2>1, <3>1
  <2>2. CASE k \in 1..n /\ k # m
    <3>1. c[k] = {x \in 1..n : Root(t, x) = Root(t, k)}
      BY <1>6, <2>2
    <3>2. ASSUME NEW x
          PROVE  x \in 1..m /\ Root(u, x) = Root(u, k) <=> x \in 1..n /\ Root(t, x) = Root(t, k)
      <4>1. x = m => Root(u, x) # Root(u, k)
        BY <1>2, <1>3, <1>5, <2>2
      <4>2. x \in 1..n => x \in 1..m /\ Root(u, x) = Root(t, x)
        BY <1>2, <1>5
      <4>3. Root(u, k) = Root(t, k)
        BY <1>2, <2>2
      <4>. QED
        BY <1>4, <4>1, <4>2, <4>3
    <3>. QED
      BY <2>2, <3>1, <3>2
  <2>. QED
    BY <1>4, <2>1, <2>2
<1>11. ASSUME NEW k \in 1..m PROVE u.values[Root(u, k)] = IF k = m THEN v ELSE w[k]
  <2>1. CASE k = m
    BY <1>1, <1>2, <2>1
  <2>2. CASE k \in 1..n /\ k # m
    <3>1. Root(u, k) = Root(t, k) /\ Root(t, k) \in 1..m /\ Root(t, k) # m
      BY <1>2, <1>3, <1>5, <2>2
    <3>2. w[k] = t.values[Root(t, k)]
      BY <1>7, <2>2
    <3>. QED
      BY <1>2, <2>2, <3>1, <3>2
  <2>. QED
    BY <1>4, <2>1, <2>2
<1>12. Len(c) = n /\ Append(c, {m}) = [k \in 1..m |-> IF k = m THEN {m} ELSE c[k]]
  <2>1. c \in [1..n -> C] /\ {m} \in C
    BY <1>1, <1>6 DEF m
  <2>. HIDE DEF C
  <2>. QED
    BY <1>1, <2>1, AppendTo DEF m
<1>13. Append(w, v) = [k \in 1..m |-> IF k = m THEN v ELSE w[k]]
  <2>1. w \in [1..n -> Stored]
    <3>1. t.values \in [1..n -> Stored]
      BY <1>1 DEF Tables
    <3>. QED
      BY <1>3, <1>7, <3>1
  <2>. QED
    BY <1>1, <2>1, AppendTo DEF m
<1>14. ClassOf(u) = Append(c, {m})
  BY <1>8, <1>10, <1>12
<1>15. ValuesOf(u) = Append(w, v)
  BY <1>9, <1>11, <1>13
<1>. QED
  BY <1>12, <1>14, <1>15 DEF m, c, w

\* What unify does to the classes: nothing, or it makes one of two and gives it either value.
LEMMA ClassesMerged ==
  ASSUME NEW n, NEW t, WellFormed(n, t), NEW a \in 1..n, NEW b \in 1..n,
         NEW u, u = table_unify(t, a, b)
  PROVE  LET c == ClassOf(t)
             w == ValuesOf(t)
             both == c[a] \cup c[b]
         IN  \/ ClassOf(u) = c /\ ValuesOf(u) = w
             \/ /\ c[a] # c[b]
                /\ ClassOf(u) = [k \in 1..n |-> IF k \in both THEN both ELSE c[k]]
                /\ \E v \in {w[a], w[b]} :
                     ValuesOf(u) = [k \in 1..n |-> IF k \in both THEN v ELSE w[k]]
<1>. DEFINE c == ClassOf(t)
            w == ValuesOf(t)
            both == c[a] \cup c[b]
            ra == Root(t, a)
            rb == Root(t, b)
<1>1. PICK winner \in {ra, rb} :
         \A k \in 1..n : Root(u, k) = IF Root(t, k) \in {ra, rb} THEN winner ELSE Root(t, k)
  <2>1. United(n, t, a, b, u)
    BY Uniting
  <2>. QED
    BY <2>1 DEF United
<1>2. WellFormed(n, u) /\ u.values = t.values
  <2>1. United(n, t, a, b, u)
    BY Uniting
  <2>. QED
    BY <2>1 DEF United
<1>3. /\ ClassOf(u) = [k \in 1..n |-> {x \in 1..n : Root(u, x) = Root(u, k)}]
      /\ ValuesOf(u) = [k \in 1..n |-> t.values[Root(u, k)]]
  <2>1. Keys(u) = 1..n
    BY <1>2, KeysOf
  <2>. QED
    BY <1>2, <2>1 DEF ClassOf, ValuesOf, ValueOf
<1>4. /\ c = [k \in 1..n |-> {x \in 1..n : Root(t, x) = Root(t, k)}]
      /\ w = [k \in 1..n |-> t.values[Root(t, k)]]
  <2>1. Keys(t) = 1..n
    BY KeysOf
  <2>. QED
    BY <2>1 DEF ClassOf, ValuesOf, ValueOf
<1>. HIDE DEF c, w, ra, rb
<1>5. \A k \in 1..n : k \in both <=> Root(t, k) \in {ra, rb}
  BY <1>4 DEF ra, rb
<1>6. CASE ra = rb
  <2>1. \A k \in 1..n : Root(u, k) = Root(t, k)
    BY <1>1, <1>6
  <2>2. \A k \in 1..n : u.values[Root(t, k)] = t.values[Root(t, k)]
    BY <1>2
  <2>3. ClassOf(u) = ClassOf(t) /\ ValuesOf(u) = ValuesOf(t)
    BY <1>2, <2>1, <2>2, ClassesSame
  <2>. QED
    BY <2>3 DEF c, w
<1>7. CASE ra # rb
  <2>1. c[a] # c[b]
    <3>1. a \in c[a] /\ a \notin c[b]
      BY <1>4, <1>7 DEF ra, rb
    <3>. QED
      BY <3>1
  <2>2. ASSUME NEW k \in 1..n
        PROVE  {x \in 1..n : Root(u, x) = Root(u, k)} = IF k \in both THEN both ELSE c[k]
    <3>1. CASE Root(t, k) \in {ra, rb}
      <4>1. Root(u, k) = winner /\ k \in both
        BY <1>1, <1>5, <3>1
      <4>2. ASSUME NEW x \in 1..n PROVE Root(u, x) = Root(u, k) <=> x \in both
        BY <1>1, <1>5, <4>1, <4>2
      <4>3. both \subseteq 1..n
        BY <1>4
      <4>. QED
        BY <4>1, <4>2, <4>3
    <3>2. CASE Root(t, k) \notin {ra, rb}
      <4>1. Root(u, k) = Root(t, k) /\ k \notin both
        BY <1>1, <1>5, <3>2
      <4>2. ASSUME NEW x \in 1..n PROVE Root(u, x) = Root(u, k) <=> Root(t, x) = Root(t, k)
        BY <1>1, <3>2, <4>1
      <4>3. c[k] = {x \in 1..n : Root(t, x) = Root(t, k)}
        BY <1>4
      <4>. QED
        BY <4>1, <4>2, <4>3
    <3>. QED
      BY <3>1, <3>2
  <2>3. ClassOf(u) = [k \in 1..n |-> IF k \in both THEN both ELSE c[k]]
    BY <1>3, <2>2
  <2>. DEFINE v == t.values[winner]
  <2>4. v \in {w[a], w[b]}
    BY <1>4 DEF ra, rb
  <2>5. ASSUME NEW k \in 1..n PROVE t.values[Root(u, k)] = IF k \in both THEN v ELSE w[k]
    BY <1>1, <1>4, <1>5
  <2>6. ValuesOf(u) = [k \in 1..n |-> IF k \in both THEN v ELSE w[k]]
    BY <1>3, <2>5
  <2>. QED
    BY <2>1, <2>3, <2>4, <2>6 DEF c, w
<1>. QED
  BY <1>6, <1>7

\* set_value gives a class a new value.
LEMMA ClassesSet ==
  ASSUME NEW n, NEW t, WellFormed(n, t), NEW a \in 1..n, NEW v \in Stored,
         NEW u, u = set_value(t, a, v)
  PROVE  /\ ClassOf(u) = ClassOf(t)
         /\ ValuesOf(u) = [k \in 1..n |-> IF k \in ClassOf(t)[a] THEN v ELSE ValuesOf(t)[k]]
<1>1. /\ WellFormed(n, u) /\ \A k \in 1..n : Root(u, k) = Root(t, k)
      /\ u.values = [k \in 1..n |-> IF k = Root(t, a) THEN v ELSE t.values[k]]
  BY Setting
<1>2. \A k \in 1..n : Root(t, k) \in 1..n
  BY Roots DEF WellFormed
<1>3. /\ ClassOf(u) = [k \in 1..n |-> {x \in 1..n : Root(u, x) = Root(u, k)}]
      /\ ValuesOf(u) = [k \in 1..n |-> u.values[Root(u, k)]]
  <2>1. Keys(u) = 1..n
    BY <1>1, KeysOf
  <2>. QED
    BY <2>1 DEF ClassOf, ValuesOf, ValueOf
<1>4. /\ ClassOf(t) = [k \in 1..n |-> {x \in 1..n : Root(t, x) = Root(t, k)}]
      /\ ValuesOf(t) = [k \in 1..n |-> t.values[Root(t, k)]]
  <2>1. Keys(t) = 1..n
    BY KeysOf
  <2>. QED
    BY <2>1 DEF ClassOf, ValuesOf, ValueOf
<1>5. \A k \in 1..n :
        {x \in 1..n : Root(u, x) = Root(u, k)} = {x \in 1..n : Root(t, x) = Root(t, k)}
  BY <1>1
<1>6. ClassOf(u) = ClassOf(t)
  BY <1>3, <1>4, <1>5
<1>7. ASSUME NEW k \in 1..n
      PROVE  u.values[Root(u, k)] = IF k \in ClassOf(t)[a] THEN v ELSE ValuesOf(t)[k]
  <2>1. ValuesOf(t)[k] = t.values[Root(t, k)] /\ (k \in ClassOf(t)[a] <=> Root(t, k) = Root(t, a))
    BY <1>4
  <2>. QED
    BY <1>1, <1>2, <2>1
<1>8. ValuesOf(u) = [k \in 1..n |-> IF k \in ClassOf(t)[a] THEN v ELSE ValuesOf(t)[k]]
  BY <1>3, <1>7
<1>. QED
  BY <1>6, <1>8

\* At first there is no key.
LEMMA RefinesInit == Init => Abstract!Init
<1>. SUFFICES ASSUME Init PROVE Abstract!Init
  OBVIOUS
<1>1. Keys(EmptyTable) = 1..0 /\ 1..0 = {}
  BY EmptyWellFormed, KeysOf
<1>2. \A f : f \in [1..0 -> {}] => f = <<>>
  <2>1. ASSUME NEW f \in [1..0 -> {}] PROVE f = <<>>
    <3>1. f \in Seq({}) /\ Len(f) = 0
      BY SeqDef
    <3>. QED
      BY <3>1, EmptySeq
  <2>. QED
    BY <2>1
<1>3. ClassOf(EmptyTable) \in [1..0 -> {}]
  BY <1>1 DEF ClassOf
<1>4. ValuesOf(EmptyTable) \in [1..0 -> {}]
  BY <1>1 DEF ValuesOf
<1>5. table = EmptyTable /\ Point = <<>>
  BY DEF Init, Point, Open
<1>. QED
  BY <1>2, <1>3, <1>4, <1>5 DEF Abstract!Init

\* A step that keeps classes, values, and the table to return to
LEMMA Stutters ==
  ASSUME ClassOf(table)' = ClassOf(table), ValuesOf(table)' = ValuesOf(table),
         UNCHANGED <<snapshot, saved>>
  PROVE  [Abstract!Next]_Abstract!vars
BY DEF Abstract!vars, Point, Open

\* Every step is one of the abstract table, or none.
LEMMA RefinesNext == Inv /\ [Next]_vars => [Abstract!Next]_Abstract!vars
<1>. SUFFICES ASSUME Inv, [Next]_vars PROVE [Abstract!Next]_Abstract!vars
  OBVIOUS
<1>. DEFINE c == ClassOf(table)
            w == ValuesOf(table)
<1>1. PICK n \in Nat : SnapshotInv(n, table, snapshot, saved)
  BY DEF Inv
<1>2. /\ WellFormed(n, table) /\ WellFormed(n, saved) /\ Keys(table) = 1..n
      /\ DOMAIN ClassOf(table) = 1..n
  <2>1. WellFormed(n, table) /\ WellFormed(n, saved)
    BY <1>1 DEF SnapshotInv
  <2>2. Keys(table) = 1..n
    BY <2>1, KeysOf
  <2>. QED
    BY <2>1, <2>2 DEF ClassOf
<1>3. ASSUME NEW v \in Values, NewKey(v) PROVE Abstract!New(v)
  <2>1. v \in Stored
    BY DEF Stored
  <2>2. /\ Len(c) = n /\ ClassOf(table') = Append(c, {n + 1}) /\ ValuesOf(table') = Append(w, v)
    BY <1>2, <1>3, <2>1, ClassesNew DEF NewKey
  <2>3. /\ ClassOf(saved') = Append(ClassOf(saved), {n + 1})
        /\ ValuesOf(saved') = Append(ValuesOf(saved), v)
    BY <1>2, <1>3, <2>1, ClassesNew DEF NewKey
  <2>4. Point' = [i \in DOMAIN Point |->
                    [class |-> Append(Point[i].class, {n + 1}),
                     value |-> Append(Point[i].value, v)]]
    <3>1. snapshot' = snapshot
      BY <1>3 DEF NewKey
    <3>2. CASE Open
      <4>. DEFINE p == [class |-> ClassOf(saved), value |-> ValuesOf(saved)]
                  q == [class |-> ClassOf(saved'), value |-> ValuesOf(saved')]
      <4>1. Point = <<p>> /\ Point' = <<q>>
        BY <3>1, <3>2 DEF Point, Open
      <4>2. q = [class |-> Append(p.class, {n + 1}), value |-> Append(p.value, v)]
        BY <2>3
      <4>. HIDE DEF p, q
      <4>3. DOMAIN Point = 1..1 /\ \A i \in 1..1 : Point[i] = p
        BY <4>1
      <4>4. Point' = [i \in 1..1 |-> q]
        BY <4>1
      <4>. QED
        BY <4>2, <4>3, <4>4
    <3>3. CASE ~Open
      <4>1. Point = <<>> /\ Point' = <<>>
        BY <3>1, <3>3 DEF Point, Open
      <4>. QED
        BY <4>1
    <3>. QED
      BY <3>2, <3>3
  <2>. QED
    BY <2>2, <2>4 DEF Abstract!New
<1>4. ASSUME NEW k \in Keys(table), Find(k) PROVE [Abstract!Next]_Abstract!vars
  <2>1. SameClasses(n, table, table')
    BY <1>2, <1>4, Finding DEF Find
  <2>2. /\ WellFormed(n, table') /\ table'.values = table.values
        /\ \A x \in 1..n : Root(table', x) = Root(table, x)
    BY <2>1 DEF SameClasses
  <2>3. ClassOf(table') = c /\ ValuesOf(table') = w
    BY <1>2, <2>2, ClassesSame
  <2>. QED
    BY <1>4, <2>3, Stutters DEF Find
<1>5. ASSUME NEW k \in Keys(table), NEW v \in Values, SetValue(k, v) PROVE Abstract!Assign(k, v)
  <2>1. v \in Stored
    BY DEF Stored
  <2>2. /\ ClassOf(table') = c
        /\ ValuesOf(table') = [x \in 1..n |-> IF x \in c[k] THEN v ELSE w[x]]
    BY <1>2, <1>5, <2>1, ClassesSet DEF SetValue
  <2>3. Point' = Point
    BY <1>5 DEF SetValue, Point, Open
  <2>. QED
    BY <1>2, <2>2, <2>3 DEF Abstract!Assign, Abstract!Keys
<1>6. ASSUME NEW a \in Keys(table), NEW b \in Keys(table), Unify(a, b)
      PROVE  [Abstract!Next]_Abstract!vars
  <2>. DEFINE both == c[a] \cup c[b]
  <2>1. \/ ClassOf(table') = c /\ ValuesOf(table') = w
        \/ /\ c[a] # c[b]
           /\ ClassOf(table') = [x \in 1..n |-> IF x \in both THEN both ELSE c[x]]
           /\ \E v \in {w[a], w[b]} :
                ValuesOf(table') = [x \in 1..n |-> IF x \in both THEN v ELSE w[x]]
    BY <1>2, <1>6, ClassesMerged DEF Unify
  <2>2. CASE ClassOf(table') = c /\ ValuesOf(table') = w
    BY <1>6, <2>2, Stutters DEF Unify
  <2>3. ASSUME c[a] # c[b],
               ClassOf(table') = [x \in 1..n |-> IF x \in both THEN both ELSE c[x]],
               \E v \in {w[a], w[b]} :
                 ValuesOf(table') = [x \in 1..n |-> IF x \in both THEN v ELSE w[x]]
        PROVE  Abstract!Merge(a, b)
    <3>1. Point' = Point
      BY <1>6 DEF Unify, Point, Open
    <3>. QED
      BY <1>2, <2>3, <3>1 DEF Abstract!Merge, Abstract!Keys
  <2>4. a \in Abstract!Keys /\ b \in Abstract!Keys
    BY <1>2 DEF Abstract!Keys
  <2>. QED
    BY <2>1, <2>2, <2>3, <2>4 DEF Abstract!Next
<1>7. ASSUME NEW u, WellFormed(n, u), NEW t, WellFormed(n, t), u.parents = t.parents,
             u.values = t.values
      PROVE  ClassOf(u) = ClassOf(t) /\ ValuesOf(u) = ValuesOf(t)
  <2>1. \A k \in 1..n : Root(u, k) = Root(t, k)
    BY <1>7, SameParents
  <2>. QED
    BY <1>7, <2>1, ClassesSame
<1>8. ASSUME TakeSnapshot PROVE [Abstract!Next]_Abstract!vars
  <2>1. ClassOf(table') = c /\ ValuesOf(table') = w
    BY <1>2, <1>7, <1>8, Marking DEF TakeSnapshot
  <2>2. CASE Open
    BY <1>8, <2>1, <2>2, Stutters DEF TakeSnapshot
  <2>3. ASSUME ~Open PROVE Abstract!Mark
    <3>1. snapshot' = snapshot_of(table) /\ saved' = table
      BY <1>8, <2>3 DEF TakeSnapshot
    <3>2. snapshot' # NoSnapshot
      BY <1>2, <3>1, SnapshotIsOne
    <3>3. Point = <<>> /\ Point' = <<[class |-> c, value |-> w]>>
      BY <2>3, <3>1, <3>2 DEF Point, Open
    <3>. QED
      BY <2>1, <3>3 DEF Abstract!Mark
  <2>. QED
    BY <2>2, <2>3 DEF Abstract!Next
<1>9. ASSUME Open
      PROVE  Point # <<>> /\ Point[1].class = ClassOf(saved) /\ Point[1].value = ValuesOf(saved)
  <2>1. Point = <<[class |-> ClassOf(saved), value |-> ValuesOf(saved)]>>
    BY <1>9 DEF Point
  <2>. QED
    BY <2>1
<1>10. ASSUME RestoreSnapshot PROVE Abstract!Return
  <2>1. snapshot = snapshot_of(saved) /\ LoggedSince(n, get_snapshot(saved), table)
    BY <1>1, <1>10 DEF SnapshotInv, RestoreSnapshot, Open
  <2>2. table' = [saved EXCEPT !.generation = table.generation]
    BY <1>2, <1>10, <2>1, Restoring DEF RestoreSnapshot
  <2>3. table.generation \in Nat
    BY <1>2 DEF WellFormed, Tables
  <2>4. ClassOf(table') = ClassOf(saved) /\ ValuesOf(table') = ValuesOf(saved)
    BY <1>2, <1>7, <2>2, <2>3, RestoredWellFormed
  <2>5. Point' = <<>> /\ Open
    BY <1>10 DEF RestoreSnapshot, Point, Open
  <2>. QED
    BY <1>9, <2>4, <2>5 DEF Abstract!Return
<1>11. ASSUME DiscardSnapshot PROVE Abstract!Forget
  <2>1. ClassOf(table') = c /\ ValuesOf(table') = w
    BY <1>2, <1>7, <1>11, Discarding DEF DiscardSnapshot
  <2>2. Point' = <<>> /\ Open
    BY <1>11 DEF DiscardSnapshot, Point, Open
  <2>. QED
    BY <1>9, <2>1, <2>2 DEF Abstract!Forget
<1>12. ASSUME Share PROVE [Abstract!Next]_Abstract!vars
  <2>1. ClassOf(table') = c /\ ValuesOf(table') = w
    <3>1. /\ WellFormed(n, table')
          /\ \A x \in 1..n : Root(table', x) = Root(table, x)
          /\ \A x \in 1..n : table'.values[Root(table, x)] = table.values[Root(table, x)]
      BY <1>2, <1>12, Sending DEF Share
    <3>. QED
      BY <1>2, <3>1, ClassesSame
  <2>. QED
    BY <1>12, <2>1, Stutters DEF Share
<1>13. CASE UNCHANGED vars
  BY <1>13, Stutters DEF vars
<1>14. Abstract!Keys = Keys(table)
  BY <1>2 DEF Abstract!Keys
<1>15. CASE \E v \in Values : NewKey(v)
  BY <1>3, <1>15 DEF Abstract!Next
<1>16. CASE \E k \in Keys(table) : Find(k) \/ \E v \in Values : SetValue(k, v)
  BY <1>4, <1>5, <1>14, <1>16 DEF Abstract!Next
<1>17. CASE \E a, b \in Keys(table) : Unify(a, b)
  BY <1>6, <1>17
<1>. QED
  BY <1>8, <1>10, <1>11, <1>12, <1>13, <1>15, <1>16, <1>17 DEF Next, Abstract!Next

\* The union-find table with its log is a set of classes with values, under any caller that keeps
\* to the protocol.
THEOREM ClassesAreKept == Spec => ImplementsClasses
<1>1. Init => Abstract!Init
  BY RefinesInit
<1>2. Inv /\ [Next]_vars => [Abstract!Next]_Abstract!vars
  BY RefinesNext
<1>. QED
  BY <1>1, <1>2, TableInvariant, PTL DEF Spec, ImplementsClasses, Abstract!Spec

\* All values are values: the table's, and those to return to.
AllValues ==
    /\ ValuesOf(table) \in Seq(Values)
    /\ \A i \in DOMAIN Point : Point[i].value \in Seq(Values)

\* At first there is none.
LEMMA AllValuesInit == Init => AllValues
<1>1. Abstract!Init => ValuesOf(table) = <<>> /\ Point = <<>>
  BY DEF Abstract!Init
<1>2. <<>> \in Seq(Values) /\ DOMAIN <<>> = {}
  BY EmptySeq
<1>. QED
  BY <1>1, <1>2, RefinesInit DEF AllValues

\* Every step of the abstract table puts values where there were values.
LEMMA AllValuesNext ==
  Inv /\ AllValues /\ [Abstract!Next]_Abstract!vars => AllValues'
<1>. DEFINE c == ClassOf(table)
            w == ValuesOf(table)
            s == Seq(Values)
<1>. SUFFICES ASSUME Inv, AllValues, [Abstract!Next]_Abstract!vars PROVE AllValues'
  OBVIOUS
<1>1. w \in s /\ \A i \in DOMAIN Point : Point[i].value \in s
  BY DEF AllValues
<1>2. PICK n \in Nat : DOMAIN c = 1..n /\ w \in [1..n -> Values]
  <2>1. PICK n \in Nat : SnapshotInv(n, table, snapshot, saved)
    BY DEF Inv
  <2>2. Keys(table) = 1..n
    BY <2>1, KeysOf DEF SnapshotInv
  <2>3. DOMAIN c = 1..n /\ DOMAIN w = 1..n
    BY <2>2 DEF ClassOf, ValuesOf
  <2>. QED
    BY <1>1, <2>3
<1>. HIDE DEF c, w
<1>3. \A f \in [1..n -> Values] : f \in s
  BY <1>2, SeqDef
<1>4. ASSUME NEW v \in Values, Abstract!New(v) PROVE AllValues'
  <2>1. ValuesOf(table)' = Append(w, v)
    BY <1>4 DEF Abstract!New, w
  <2>2. DOMAIN Point' = DOMAIN Point
        /\ \A i \in DOMAIN Point : Point'[i].value = Append(Point[i].value, v)
    BY <1>4 DEF Abstract!New
  <2>3. \A q \in s : Append(q, v) \in s
    OBVIOUS
  <2>. QED
    BY <1>1, <2>1, <2>2, <2>3 DEF AllValues
<1>5. ASSUME NEW a \in Abstract!Keys, NEW b \in Abstract!Keys, Abstract!Merge(a, b)
      PROVE  AllValues'
  <2>. DEFINE both == c[a] \cup c[b]
  <2>1. PICK v \in {w[a], w[b]} :
          ValuesOf(table)' = [k \in 1..n |-> IF k \in both THEN v ELSE w[k]]
    BY <1>2, <1>5 DEF Abstract!Merge, Abstract!Keys, c, w
  <2>2. a \in 1..n /\ b \in 1..n
    BY <1>2 DEF Abstract!Keys, c
  <2>3. v \in Values
    BY <1>2, <2>2
  <2>. HIDE DEF both
  <2>4. ValuesOf(table)' \in [1..n -> Values]
    BY <1>2, <2>1, <2>3
  <2>5. Point' = Point
    BY <1>5 DEF Abstract!Merge
  <2>. QED
    BY <1>1, <1>3, <2>4, <2>5 DEF AllValues
<1>6. ASSUME NEW a \in Abstract!Keys, NEW v \in Values, Abstract!Assign(a, v) PROVE AllValues'
  <2>1. ValuesOf(table)' = [k \in 1..n |-> IF k \in c[a] THEN v ELSE w[k]]
    BY <1>2, <1>6 DEF Abstract!Assign, Abstract!Keys, c, w
  <2>2. ValuesOf(table)' \in [1..n -> Values]
    BY <1>2, <2>1
  <2>3. Point' = Point
    BY <1>6 DEF Abstract!Assign
  <2>. QED
    BY <1>1, <1>3, <2>2, <2>3 DEF AllValues
<1>7. ASSUME Abstract!Mark PROVE AllValues'
  <2>1. ValuesOf(table)' = w /\ Point' = <<[class |-> c, value |-> w]>>
    BY <1>7 DEF Abstract!Mark, c, w
  <2>2. \A i \in DOMAIN Point' : Point'[i].value = w
    BY <2>1
  <2>. QED
    BY <1>1, <2>1, <2>2 DEF AllValues
<1>8. ASSUME Abstract!Return PROVE AllValues'
  <2>1. ValuesOf(table)' = Point[1].value /\ Point # <<>> /\ Point' = <<>>
    BY <1>8 DEF Abstract!Return
  <2>2. 1 \in DOMAIN Point
    BY <2>1 DEF Point
  <2>. QED
    BY <1>1, <2>1, <2>2 DEF AllValues
<1>9. ASSUME Abstract!Forget PROVE AllValues'
  <2>1. ValuesOf(table)' = w /\ Point' = <<>>
    BY <1>9 DEF Abstract!Forget, w
  <2>. QED
    BY <1>1, <2>1 DEF AllValues
<1>10. CASE UNCHANGED Abstract!vars
  <2>1. ValuesOf(table)' = w /\ Point' = Point
    BY <1>10 DEF Abstract!vars, w
  <2>. QED
    BY <1>1, <2>1 DEF AllValues
<1>. QED
  BY <1>4, <1>5, <1>6, <1>7, <1>8, <1>9, <1>10 DEF Abstract!Next

\* probe_value never unwraps a None.
THEOREM ProbesFindValues == Spec => []Probed
<1>1. Inv /\ AllValues /\ [Next]_vars => AllValues'
  BY RefinesNext, AllValuesNext
<1>2. AllValues => Probed
  <2>. SUFFICES ASSUME AllValues, NEW k \in Keys(table) PROVE ValueOf(table, k) \in Values
    BY DEF Probed
  <2>1. ValuesOf(table) \in Seq(Values) /\ k \in DOMAIN ValuesOf(table)
        /\ ValueOf(table, k) = ValuesOf(table)[k]
    BY DEF AllValues, ValuesOf
  <2>. QED
    BY <2>1
<1>. QED
  BY <1>1, <1>2, AllValuesInit, TableInvariant, PTL DEF Spec
=============================================================================
