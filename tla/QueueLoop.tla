----------------------------- MODULE QueueLoop -----------------------------
(***************************************************************************)
(* order_pending_jobs (src/store/support.rs) as it computes: sort, group   *)
(* by array, sort the groups, read them in turns.  QueueOrder says what    *)
(* order that is.                                                          *)
(***************************************************************************)
EXTENDS QueueOrder, Sequences, Functions

(* sort_by: the elements of S, each before those that come after it *)
Sorted(S, before(_, _)) ==
    CHOOSE s \in [1 .. Cardinality(S) -> S] :
        \A m, n \in DOMAIN s : m < n => before(s[m], s[n])

SortedBy(t, S) == Sorted(S, LAMBDA i, j : Better(t, i, j))

\* mutant: the groups are read in the order of the map, by their keys
SortedGroupsByKey(t) ==
    LET keys == Sorted({GroupKey(t, j) : j \in Pending(t)}, LAMBDA a, b : a < b)
    IN  [n \in DOMAIN keys |-> SortedBy(t, {j \in Pending(t) : GroupKey(t, j) = keys[n]})]

(* group_jobs[0] of every group, the best first: group_order *)
SortedTops(t) ==
    SortedBy(t, {SortedBy(t, PendingGroup(t, j))[1] : j \in Pending(t)})

(* the groups in that order, the jobs of each best first *)
SortedGroups(t) ==
    [n \in DOMAIN SortedTops(t) |-> SortedBy(t, PendingGroup(t, SortedTops(t)[n]))]

(* what the n-th turn of the loop takes: the n-th job of every group that  *)
(* still has one                                                           *)
Turn(groups, n) ==
    LET left == Sorted({k \in DOMAIN groups : Len(groups[k]) >= n}, LAMBDA a, b : a < b)
    IN  [k \in DOMAIN left |-> groups[left[k]][n]]

(* the turns one after the other; the ones after the last job take nothing *)
OrderPendingJobs(t) ==
    LET groups == SortedGroups(t)
        ordered[n \in 0 .. Cardinality(Pending(t))] ==
            IF n = 0 THEN <<>> ELSE ordered[n - 1] \o Turn(groups, n)
    IN  ordered[Cardinality(Pending(t))]

(* The loop reads every waiting job once, and one before another exactly   *)
(* if it is in an earlier round, or in the same round of a group whose     *)
(* best job is better.                                                     *)
LoopReadsInOrder(t) ==
    LET order == OrderPendingJobs(t)
    IN  /\ Len(order) = Cardinality(Pending(t))
        /\ Range(order) = Pending(t)
        /\ \A m, n \in DOMAIN order : m < n <=> Precedes(t, order[m], order[n])
=============================================================================
