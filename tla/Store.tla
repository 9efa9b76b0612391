------------------------------- MODULE Store -------------------------------
(***************************************************************************)
(* The `jobs` table of slotd's SQLite database (src/store/), as operators  *)
(* on a table t.  Each operator is one `UPDATE` or `SELECT` of the Store   *)
(* API; the modules that model the daemon apply them to their variable     *)
(* `jobs`, so that both the scheduler and the runtime change rows only the *)
(* way the code does.                                                      *)
(*                                                                         *)
(* A table is a function on JobId: row ids are AUTOINCREMENT integers, and *)
(* an id that was not handed out yet maps to NoRow.  Columns that no       *)
(* property tells apart (paths, the environment, timestamps, max_rss, the  *)
(* displayed state_reason and exit code) are left out; `started` stands    *)
(* for `start_time IS NOT NULL`.                                           *)
(***************************************************************************)
EXTENDS Integers, FiniteSets, Sequences

CONSTANTS
    MaxJobs,    \* bound: rows that are ever inserted
    TotalGpus,  \* config.total_gpus: GPU ids are 0 .. TotalGpus - 1
    Requests,   \* the submissions the clients may send
    Groups,     \* process groups the host can create
    NoGroup     \* `pid IS NULL AND pgid IS NULL`

ASSUME StoreAssumption ==
    /\ MaxJobs \in Nat
    /\ TotalGpus \in Nat
    /\ NoGroup \notin Groups

JobId == 1 .. MaxJobs
GpuId == 0 .. TotalGpus - 1

Terminal == {"COMPLETED", "FAILED", "CANCELLED", "TIMEOUT", "OUT_OF_MEMORY"}
State == {"PENDING", "RUNNING", "COMPLETING"} \cup Terminal

(***************************************************************************)
(* A dependency clause is what is left of one comma-separated part of      *)
(* --dependency: its kind and the ids after it.  A part with no colon that *)
(* is not `singleton` is "bare"; one with an id that is no number is       *)
(* "unreadable".                                                           *)
(***************************************************************************)
ClauseKind ==
    {"singleton", "after", "afterany", "afterok", "afternotok", "bare", "unreadable"}
Clause == [kind : ClauseKind, ids : SUBSET Nat]

(***************************************************************************)
(* A SubmitRequest.  cpus stands for requested_cpus * requested_tasks (the *)
(* only way they are used in admission); tasks is the number of ids of the *)
(* array specification (0: no array) and limit its %N (0: none);           *)
(* begin = 0 stands for no begin_time.                                     *)
(***************************************************************************)
Request ==
    [cpus : Nat, mem : Nat, gpus : Nat, partition : STRING,
     exclusive : BOOLEAN, alloc : BOOLEAN, requeue : BOOLEAN,
     limited : BOOLEAN, warn : BOOLEAN,
     name : STRING, dep : Seq(Clause), tasks : Nat, limit : Nat, begin : Nat]

Clauses(r) == {r.dep[n] : n \in DOMAIN r.dep}

ASSUME RequestAssumption == Requests \subseteq Request

Row ==
    [state : State, name : STRING, held : BOOLEAN, priority : Int,
     partition : STRING, parent : {0} \cup JobId, array : {0} \cup JobId,
     req : Requests, started : BOOLEAN, group : Groups \cup {NoGroup},
     gpuIds : SUBSET GpuId, requeues : Nat]

NoRow == [state |-> "NONE"]
Table == [JobId -> Row \cup {NoRow}]
EmptyTable == [j \in JobId |-> NoRow]

Rows(t) == {j \in JobId : t[j].state # "NONE"}
InState(t, S) == {j \in JobId : t[j].state \in S}
TopLevel(t) == {j \in Rows(t) : t[j].parent = 0}
Running(t) == InState(t, {"RUNNING"})
RunningTopLevel(t) == Running(t) \cap TopLevel(t)
Pending(t) == InState(t, {"PENDING"}) \cap TopLevel(t)

----------------------------------------------------------------------------
(* Insertions *)

(* create_job_entry *)
PendingRow(r, arrayId) ==
    [state |-> "PENDING", name |-> r.name, held |-> FALSE,
     priority |-> 0, partition |-> r.partition, parent |-> 0, array |-> arrayId,
     req |-> r, started |-> FALSE, group |-> NoGroup, gpuIds |-> {}, requeues |-> 0]

(* create_step: the row is RUNNING from its first moment *)
StepRow(t, p, name) ==
    [PendingRow(t[p].req, 0) EXCEPT
        !.state = "RUNNING", !.name = name, !.parent = p,
        !.partition = t[p].partition, !.started = TRUE]

(* last_insert_rowid: ids grow by one *)
IsNextId(t, j) == j \in JobId \ Rows(t) /\ \A i \in JobId : i < j => i \in Rows(t)

RowsNeeded(r) == IF r.tasks = 0 THEN 1 ELSE r.tasks

(* create_job: one row, or one row per array task, all with the id of the  *)
(* first as array_job_id                                                   *)
CreateJob(t, j, r) ==
    [i \in JobId |->
        IF i \in j .. j + RowsNeeded(r) - 1
        THEN PendingRow(r, IF r.tasks = 0 THEN 0 ELSE j)
        ELSE t[i]]

CreateStep(t, j, p, name) == [t EXCEPT ![j] = StepRow(t, p, name)]

----------------------------------------------------------------------------
(* Updates *)

MarkRunning(t, j, g, ids) ==
    [t EXCEPT ![j] = [@ EXCEPT !.state = "RUNNING", !.group = g, !.started = TRUE,
                               !.gpuIds = ids]]

MarkAllocationRunning(t, j) ==
    [t EXCEPT ![j] = [@ EXCEPT !.state = "RUNNING", !.started = TRUE]]

\* mutant: the row is set RUNNING as well
AdoptRunning(t, j, g) == [t EXCEPT ![j] = [@ EXCEPT !.group = g, !.state = "RUNNING"]]

AdoptAllocation(t, j, g) == [t EXCEPT ![j] = [@ EXCEPT !.group = g]]

MarkState(t, j, s) == [t EXCEPT ![j] = [@ EXCEPT !.state = s]]

\* mutant: the requeue is not counted
RequeueAlways(row, final) ==
    /\ row.parent = 0
    /\ row.req.requeue
    /\ final \in {"FAILED", "TIMEOUT", "OUT_OF_MEMORY"}

ShouldAutoRequeue(row, final) ==
    /\ row.parent = 0
    /\ row.req.requeue
    /\ row.requeues = 0
    /\ final \in {"FAILED", "TIMEOUT", "OUT_OF_MEMORY"}

Requeued(row) ==
    [row EXCEPT !.state = "PENDING", !.started = FALSE, !.group = NoGroup, !.gpuIds = {},
                !.requeues = row.requeues + 1]

Finished(row, final) == [row EXCEPT !.state = final, !.gpuIds = {}]

MarkFinished(t, j, final) ==
    [t EXCEPT ![j] = IF ShouldAutoRequeue(t[j], final)
                     THEN Requeued(t[j])
                     ELSE Finished(t[j], final)]

(* cancel_pending_job, when its WHERE state = 'PENDING' matches *)
CancelPending(t, j) == MarkState(t, j, "CANCELLED")

HoldJob(t, j) ==
    IF t[j].state = "PENDING"
    THEN [t EXCEPT ![j] = [@ EXCEPT !.held = TRUE]]
    ELSE t

ReleaseJob(t, j) ==
    IF t[j].state = "PENDING"
    THEN [t EXCEPT ![j] = [@ EXCEPT !.held = FALSE]]
    ELSE t

(* update_job_fields, one operator per column *)
UpdateName(t, j, n) == [t EXCEPT ![j] = [@ EXCEPT !.name = n]]
UpdatePartition(t, j, p) == [t EXCEPT ![j] = [@ EXCEPT !.partition = p]]
UpdatePriority(t, j, p) == [t EXCEPT ![j] = [@ EXCEPT !.priority = p]]

----------------------------------------------------------------------------
(* Resource accounting *)

(***************************************************************************)
(* SELECT SUM(col) over the running top-level rows.  A sum of naturals is  *)
(* the number of reserved slots: job j holds the slots <<j, 1>> ..         *)
(* <<j, n>> of a column whose value is n.                                  *)
(***************************************************************************)
CpuSlots(t) == UNION {{j} \X (1 .. t[j].req.cpus) : j \in RunningTopLevel(t)}
MemSlots(t) == UNION {{j} \X (1 .. t[j].req.mem) : j \in RunningTopLevel(t)}
GpuSlots(t) == UNION {{j} \X (1 .. t[j].req.gpus) : j \in RunningTopLevel(t)}

UsedCpus(t) == Cardinality(CpuSlots(t))
UsedMem(t) == Cardinality(MemSlots(t))
UsedGpus(t) == Cardinality(GpuSlots(t))

(* u32::saturating_sub *)
SaturatingSub(a, b) == IF b > a THEN 0 ELSE a - b

GpuIdsInUse(t) == UNION {t[j].gpuIds : j \in RunningTopLevel(t)}

\* mutants: ids counted from 1; ids of running jobs handed out again
FreeGpuIdsFromOne(t) == (1 .. TotalGpus) \ GpuIdsInUse(t)
FreeGpuIdsAll(t) == GpuId

FreeGpuIds(t) == GpuId \ GpuIdsInUse(t)

(* allocate_gpu_ids returns the n lowest free ids, or an error *)
CanAllocateGpuIds(t, n) == Cardinality(FreeGpuIds(t)) >= n

\* mutant: one id too many
AllocateGpuIdsOneMore(t, n) ==
    {g \in FreeGpuIds(t) : Cardinality({h \in FreeGpuIds(t) : h < g}) <= n}

AllocateGpuIds(t, n) ==
    {g \in FreeGpuIds(t) : Cardinality({h \in FreeGpuIds(t) : h < g}) < n}

AnyRunningTopLevelJob(t) == RunningTopLevel(t) # {}
AnyRunningExclusiveJob(t) == \E j \in RunningTopLevel(t) : t[j].req.exclusive

\* mutant: tasks that wait are counted too
ActiveArrayTasks(t, a) ==
    {j \in InState(t, {"PENDING", "RUNNING"}) : t[j].array = a}

(* running_array_tasks *)
RunningArrayTasks(t, a) == {j \in Running(t) : t[j].array = a}

\* mutant: a COMPLETING job no longer counts
HasLiveJobWithName(t, j) ==
    \E i \in InState(t, {"PENDING", "RUNNING"}) \ {j} : t[i].name = t[j].name

(* has_active_job_with_name: steps count, and so do jobs that only wait *)
HasActiveJobWithName(t, j) ==
    \E i \in InState(t, {"PENDING", "RUNNING", "COMPLETING"}) \ {j} :
        t[i].name = t[j].name
=============================================================================
