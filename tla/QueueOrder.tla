----------------------------- MODULE QueueOrder -----------------------------
(***************************************************************************)
(* The order in which a scheduling pass looks at the pending jobs          *)
(* (order_pending_jobs in src/store/support.rs): jobs are sorted by        *)
(* priority, submission time and id, grouped by array, the groups sorted   *)
(* by their best job, and the groups are then read round-robin.            *)
(*                                                                         *)
(* Rows are inserted with growing ids and submission times, so the id      *)
(* stands for both.                                                        *)
(***************************************************************************)
EXTENDS Store

\* mutant: the priority is forgotten
BetterById(t, i, j) == i < j

(* the comparison both sorts use *)
Better(t, i, j) ==
    \/ t[i].priority > t[j].priority
    \/ t[i].priority = t[j].priority /\ i < j

(* array_job_id, or the job's own id *)
GroupKey(t, j) == IF t[j].array = 0 THEN j ELSE t[j].array

PendingGroup(t, j) == {i \in Pending(t) : GroupKey(t, i) = GroupKey(t, j)}

(* jobs of the group that are read before j: the round j is read in *)
Round(t, j) == Cardinality({i \in PendingGroup(t, j) : Better(t, i, j)})

(* group_jobs[0] *)
TopOfGroup(t, j) ==
    CHOOSE i \in PendingGroup(t, j) : \A k \in PendingGroup(t, j) \ {i} : Better(t, i, k)

(* i comes before j in order_pending_jobs *)
Precedes(t, i, j) ==
    \/ Round(t, i) < Round(t, j)
    \/ /\ Round(t, i) = Round(t, j)
       /\ GroupKey(t, i) # GroupKey(t, j)
       /\ Better(t, TopOfGroup(t, i), TopOfGroup(t, j))
=============================================================================
