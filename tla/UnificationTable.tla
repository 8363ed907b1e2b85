-------------------------- MODULE UnificationTable --------------------------
(***************************************************************************)
(* The union-find table under the type checker                             *)
(* (nac3core/src/typecheck/unification_table.rs).  A table is a record of  *)
(* the struct's fields and every method is an operator from tables to      *)
(* tables; a key is its index plus one.  Every change of an old entry is   *)
(* logged, so that a snapshot can be restored.                             *)
(***************************************************************************)
EXTENDS Naturals, FiniteSets, SequencesExt

CONSTANT NoValue   \* the None of a value

EmptyTable == [parents |-> <<>>, ranks |-> <<>>, values |-> <<>>,
               log |-> <<>>, generation |-> 0]

Keys(t) == DOMAIN t.parents

Updated(f, k, x) == [j \in DOMAIN f |-> IF j = k THEN x ELSE f[j]]

ParentEntry(k, p) == [kind |-> "Parent", key |-> k, original |-> p]
ValueEntry(k, v)  == [kind |-> "Value", key |-> k, original |-> v]
RankEntry(k, r)   == [kind |-> "Rank", key |-> k, original |-> r]
Marker(g)         == [kind |-> "Marker", generation |-> g]

new_key(t, v) ==
    [t EXCEPT !.parents = Append(@, Len(@) + 1),
              !.ranks = Append(@, 0),
              !.values = Append(@, v)]

-----------------------------------------------------------------------------
(* find walks up from the key and lets every key it leaves point to its    *)
(* grandparent.                                                            *)

Root(t, k) ==
    LET root[x \in Keys(t)] == IF t.parents[x] = x THEN x ELSE root[t.parents[x]]
    IN  root[k]

\* The keys find visits below the root, in order.
FindPath(t, k) ==
    LET path[x \in Keys(t)] == IF t.parents[x] = x THEN <<>> ELSE <<x>> \o path[t.parents[x]]
    IN  path[k]

\* Mutant: path splitting is not logged.
find_Unlogged(t, k) ==
    LET Visited == ToSet(FindPath(t, k))
    IN  [t EXCEPT !.parents = [x \in Keys(t) |-> IF x \in Visited THEN @[@[x]] ELSE @[x]]]

\* What find does to the keys of a path.
SplitPath(t, path) ==
    [t EXCEPT !.parents = [x \in Keys(t) |-> IF x \in ToSet(path) THEN @[@[x]] ELSE @[x]],
              !.log = @ \o [i \in DOMAIN path |-> ParentEntry(path[i], t.parents[path[i]])]]

find(t, k) == SplitPath(t, FindPath(t, k))

\* The link that unify adds between two different roots.
Link(t, loser, winner) ==
    [t EXCEPT !.log = @ \o <<ParentEntry(loser, loser)>>
                        \o IF t.ranks[loser] = t.ranks[winner] THEN <<RankEntry(winner, t.ranks[winner])>> ELSE <<>>,
              !.parents = Updated(@, loser, winner),
              !.ranks = IF t.ranks[loser] = @[winner] THEN Updated(@, winner, @[winner] + 1) ELSE @]

LinkRoots(t, ra, rb) ==
    CASE ra = rb -> t
      [] ra # rb /\ t.ranks[ra] < t.ranks[rb] -> Link(t, ra, rb)
      [] OTHER -> Link(t, rb, ra)

table_unify(t, a, b) == LinkRoots(find(find(t, a), b), Root(t, a), Root(t, b))

Unioned(t, a, b) == Root(t, a) = Root(t, b)

\* What probe_value returns; the probe itself is a find.
ValueOf(t, k) == t.values[Root(t, k)]

SetRoot(t, root, v) ==
    [t EXCEPT !.log = Append(@, ValueEntry(root, t.values[root])), !.values = Updated(@, root, v)]

set_value(t, k, v) == SetRoot(find(t, k), Root(t, k), v)

-----------------------------------------------------------------------------
(* Snapshots: a snapshot is the length of the log behind its marker and    *)
(* the marker's generation.                                                *)

snapshot_of(t) == [log_len |-> Len(t.log) + 1, generation |-> t.generation]

get_snapshot(t) ==
    [t EXCEPT !.log = Append(@, Marker(t.generation)), !.generation = @ + 1]

\* The assertions of restore_snapshot and discard_snapshot.
SnapshotValid(t, snapshot) ==
    /\ Len(t.log) >= snapshot.log_len
    /\ t.log[snapshot.log_len] = Marker(snapshot.generation)

Undo(entry, t) ==
    CASE entry.kind = "Parent" -> [t EXCEPT !.parents = Updated(@, entry.key, entry.original)]
      [] entry.kind = "Value"  -> [t EXCEPT !.values = Updated(@, entry.key, entry.original)]
      [] entry.kind = "Rank"   -> [t EXCEPT !.ranks = Updated(@, entry.key, entry.original)]
      [] OTHER                 -> t

\* The last entry is undone first.
restore_snapshot(t, snapshot) ==
    LET drained == SubSeq(t.log, snapshot.log_len, Len(t.log))
    IN  FoldRight(Undo, drained, [t EXCEPT !.log = SubSeq(@, 1, snapshot.log_len - 1)])

discard_snapshot(t) == [t EXCEPT !.log = <<>>]

-----------------------------------------------------------------------------
(* What another thread gets: the forest, and the values of the roots only. *)

\* Mutant: the values of the leaves are kept, not those of the roots.
get_send_Leaves(t) ==
    [t EXCEPT !.values = [k \in Keys(t) |-> IF t.ranks[k] = 0 THEN @[k] ELSE NoValue],
              !.log = <<>>, !.generation = 0]

get_send(t) ==
    [t EXCEPT !.values = [k \in Keys(t) |-> IF t.parents[k] = k THEN @[k] ELSE NoValue],
              !.log = <<>>, !.generation = 0]

-----------------------------------------------------------------------------
(* Well-formed tables.                                                     *)

\* Every walk of find ends: ranks grow towards the root.
RanksGrow(t) ==
    \A k \in Keys(t) :
        /\ t.parents[k] \in Keys(t)
        /\ t.parents[k] # k => t.ranks[k] < t.ranks[t.parents[k]]

\* Two tables agree on the given keys about who is equal to whom and as what.
SameMeaning(t, u, K) ==
    LET root_t == [x \in K |-> Root(t, x)]
        root_u == [x \in K |-> Root(u, x)]
    IN  /\ \A x \in K : root_u[x] \in K /\ root_u[root_t[x]] = root_u[x] /\ root_t[root_u[x]] = root_t[x]
        /\ \A x \in K : t.values[root_t[x]] = u.values[root_u[x]]
=============================================================================
