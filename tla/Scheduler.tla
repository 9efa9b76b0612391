----------------------------- MODULE Scheduler -----------------------------
(***************************************************************************)
(* Admission and scheduling in slotd's daemon (src/runtime/daemon.rs): the *)
(* requests that insert, hold, release and update jobs, the two that may   *)
(* start a job on the spot (srun --no-wait and salloc), and the scheduling *)
(* pass schedule_pending_jobs.                                             *)
(*                                                                         *)
(* The daemon is one thread whose loop handles the waiting requests, tends *)
(* the running jobs (enforce_timeouts, poll, reconcile_adopted), makes a   *)
(* pass and sleeps; `pc` says where it is.  A pass starts one job at a     *)
(* time and begins again, so it is modelled as one step per job started (a *)
(* crash may fall between two of them).                                    *)
(*                                                                         *)
(* How a running job ends is the subject of module Runtime; here JobEnds   *)
(* and FinishAllocation apply the store's mark_finished with any final     *)
(* state.                                                                  *)
(***************************************************************************)
EXTENDS QueueOrder

CONSTANTS
    TotalCpus, TotalMem,   \* config.total_cpus, config.total_memory_mb
    CpuPartitions, GpuPartitions,   \* as configured, in their order
    OtherPartitions,       \* names scontrol update may give that are not
    Priorities,            \* priorities scontrol update may set
    Outcomes,              \* final states processes and clients report
    MaxTime,               \* bound on the clock
    MaxFaults              \* bound on crashes and failed launches

ASSUME CapacityAssumption ==
    /\ TotalCpus \in Nat
    /\ TotalMem \in Nat
    /\ Priorities \subseteq Int
    /\ Outcomes \subseteq Terminal
    /\ MaxTime \in Nat
    /\ MaxFaults \in Nat

ActivePartitions == CpuPartitions \o GpuPartitions
Partitions == {ActivePartitions[n] : n \in DOMAIN ActivePartitions}
IsGpuPartition(p) == \E n \in DOMAIN GpuPartitions : GpuPartitions[n] = p

(* env_partition_list never makes an empty list; without GPUs there are no *)
(* GPU partitions; clients submit to configured partitions only            *)
ASSUME PartitionAssumption ==
    /\ CpuPartitions \in Seq(STRING) /\ CpuPartitions # <<>>
    /\ GpuPartitions \in Seq(STRING)
    /\ TotalGpus = 0 => GpuPartitions = <<>>
    /\ OtherPartitions \subseteq STRING
    /\ \A r \in Requests : r.partition \in Partitions

VARIABLES
    jobs,   \* the jobs table
    now,    \* now_ts(), compared with begin_time only
    pc,     \* where the daemon is, see Phase
    ending, \* the job terminate_running_job works on, and the final state
            \* it was called with; NoEnding outside "grace"
    faults  \* crashes and failed launches so far

vars == <<jobs, now, pc, ending, faults>>
NoEnding == [job |-> 0, final |-> "none"]
world == <<now, ending, faults>>   \* what most handlers leave alone

(***************************************************************************)
(* "requests": in handle_requests, between two of them; "requestPass": in  *)
(* the schedule_pending_jobs of a request; "tend": in enforce_timeouts,    *)
(* poll or reconcile_adopted; "pass": in the schedule_pending_jobs of the  *)
(* loop; "grace": in terminate_running_job; "recover": in recover; "down": *)
(* not running.                                                            *)
(***************************************************************************)
Phase == {"requests", "requestPass", "tend", "pass", "grace", "recover", "down"}
InPass == pc \in {"pass", "requestPass"}

TypeOK ==
    /\ jobs \in Table
    /\ now \in 0 .. MaxTime
    /\ pc \in Phase
    /\ ending \in {NoEnding} \cup [job : JobId, final : {"CANCELLED", "TIMEOUT"}]
    /\ faults \in 0 .. MaxFaults

Init ==
    /\ jobs = EmptyTable
    /\ now = 0
    /\ pc = "recover"
    /\ ending = NoEnding
    /\ faults = 0

----------------------------------------------------------------------------
(* Admission *)

\* mutants: a GPU request is compared with the host, not with what is free;
\* the running exclusive job is not looked for
ResourcesFitIgnoringGpuUse(t, partition, r) ==
    /\ ~AnyRunningExclusiveJob(t)
    /\ r.exclusive => ~AnyRunningTopLevelJob(t)
    /\ r.cpus <= SaturatingSub(TotalCpus, UsedCpus(t))
    /\ r.mem <= SaturatingSub(TotalMem, UsedMem(t))
    /\ r.gpus <= IF IsGpuPartition(partition) THEN TotalGpus ELSE 0
ResourcesFitBesideExclusive(t, partition, r) ==
    /\ r.exclusive => ~AnyRunningTopLevelJob(t)
    /\ r.cpus <= SaturatingSub(TotalCpus, UsedCpus(t))
    /\ r.mem <= SaturatingSub(TotalMem, UsedMem(t))
    /\ r.gpus <= IF IsGpuPartition(partition) THEN SaturatingSub(TotalGpus, UsedGpus(t)) ELSE 0

(* resources_fit *)
ResourcesFit(t, partition, r) ==
    /\ ~AnyRunningExclusiveJob(t)
    /\ r.exclusive => ~AnyRunningTopLevelJob(t)
    /\ r.cpus <= SaturatingSub(TotalCpus, UsedCpus(t))
    /\ r.mem <= SaturatingSub(TotalMem, UsedMem(t))
    /\ IF IsGpuPartition(partition)
       THEN r.gpus <= SaturatingSub(TotalGpus, UsedGpus(t))
       ELSE r.gpus = 0

\* mutant: every state but PENDING and RUNNING counts as final
TargetSatisfiesEarly(t, kind, i) ==
    /\ i \in Rows(t)
    /\ t[i].state \notin {"PENDING", "RUNNING"}
    /\ kind = "afterok" => t[i].state = "COMPLETED"

(* dependency_clause_satisfied for one id after the colon *)
TargetSatisfies(t, kind, i) ==
    /\ i \in Rows(t)
    /\ CASE kind = "after"      -> t[i].started \/ t[i].state \in Terminal
         [] kind = "afterany"   -> t[i].state \in Terminal
         [] kind = "afterok"    -> t[i].state = "COMPLETED"
         [] kind = "afternotok" -> t[i].state \in Terminal \ {"COMPLETED"}
         [] OTHER               -> FALSE

ClauseSatisfied(t, j, c) ==
    IF c.kind = "singleton"
    THEN ~HasActiveJobWithName(t, j)
    ELSE c.ids # {} /\ \A i \in c.ids : TargetSatisfies(t, c.kind, i)

DependencySatisfied(t, j) == \A c \in Clauses(t[j].req) : ClauseSatisfied(t, j, c)

(* dependency_satisfied returns an error: clauses are read in their order, *)
(* up to the first that is not satisfied                                   *)
DependencyFails(t, j) ==
    LET dep == t[j].req.dep
    IN  \E n \in DOMAIN dep :
            /\ dep[n].kind = "unreadable"
            /\ \A m \in 1 .. n - 1 : ClauseSatisfied(t, j, dep[m])

\* mutant: one task more than the limit
OverArrayLimit(t, j) ==
    /\ t[j].array # 0
    /\ t[j].req.limit > 0
    /\ Cardinality(RunningArrayTasks(t, t[j].array)) > t[j].req.limit

AtArrayLimit(t, j) ==
    /\ t[j].array # 0
    /\ t[j].req.limit > 0
    /\ Cardinality(RunningArrayTasks(t, t[j].array)) >= t[j].req.limit

(* pending_block_reason returns None *)
Unblocked(t, j) ==
    /\ t[j].req.begin <= now
    /\ ~t[j].held
    /\ DependencySatisfied(t, j)
    /\ ~AtArrayLimit(t, j)

(* pending_block_reason returns an error *)
Unreadable(t, j) ==
    /\ j \in Pending(t)
    /\ t[j].req.begin <= now /\ ~t[j].held
    /\ DependencyFails(t, j)

Fits(t, j) == ResourcesFit(t, t[j].partition, t[j].req)
Startable(t, j) == j \in Pending(t) /\ Unblocked(t, j) /\ Fits(t, j)

----------------------------------------------------------------------------
(* Starting a job *)

GpuIdsFor(t, j) ==
    IF IsGpuPartition(t[j].partition) THEN AllocateGpuIds(t, t[j].req.gpus) ELSE {}

(* runner.launch; allocate_gpu_ids fails when too few ids are free *)
LaunchPossible(t, j) ==
    \/ t[j].req.alloc
    \/ ~IsGpuPartition(t[j].partition)
    \/ CanAllocateGpuIds(t, t[j].req.gpus)

StartJob(t, j) ==
    IF t[j].req.alloc
    THEN MarkAllocationRunning(t, j)
    ELSE MarkRunning(t, j, NoGroup, GpuIdsFor(t, j))

----------------------------------------------------------------------------
(* The scheduling pass *)

(* the pass gets as far as j: what is ahead of it waits for a reason *)
Reached(t, j) ==
    \A i \in Pending(t) : Precedes(t, i, j) => ~Startable(t, i) /\ ~Unreadable(t, i)

(* The first job of the order that is unblocked and fits starts, and the   *)
(* loop begins again.  The jobs before it keep their state and are told    *)
(* why they wait (mark_state with a reason, which rows do not show here).  *)
PassStart(j) ==
    /\ InPass
    /\ Startable(jobs, j) /\ Reached(jobs, j)
    /\ LaunchPossible(jobs, j)
    /\ jobs' = StartJob(jobs, j)
    /\ UNCHANGED <<world, pc>>

(* an error leaves the pass: the client that asked gets it for an answer,  *)
(* and in the daemon's own loop it ends the daemon                         *)
AbandonPass == pc' = IF pc = "pass" THEN "down" ELSE "requests"

(* a job whose dependency cannot be read, in every pass that gets to it *)
PassStumbles(j) ==
    /\ InPass
    /\ Unreadable(jobs, j) /\ Reached(jobs, j)
    /\ AbandonPass
    /\ UNCHANGED <<jobs, world>>

(* a launch that fails: a file that cannot be opened, a cgroup that cannot *)
(* be set up                                                               *)
PassFails(j) ==
    /\ InPass
    /\ Startable(jobs, j) /\ ~jobs[j].req.alloc /\ Reached(jobs, j)
    /\ faults < MaxFaults
    /\ faults' = faults + 1
    /\ AbandonPass
    /\ UNCHANGED <<jobs, now, ending>>

PassEnd ==
    /\ InPass
    /\ \A j \in Pending(jobs) : ~Startable(jobs, j) /\ ~Unreadable(jobs, j)
    /\ pc' = "requests"
    /\ UNCHANGED <<jobs, world>>

(* the loop moves on: no request waits, or every running job is tended *)
LoopStep ==
    /\ \/ pc = "requests" /\ pc' = "tend"
       \/ pc = "tend" /\ pc' = "pass"
       \/ pc = "recover" /\ pc' = "requests"
    /\ UNCHANGED <<jobs, world>>

----------------------------------------------------------------------------
(* Requests *)

Room(j, r) == IsNextId(jobs, j) /\ j + RowsNeeded(r) - 1 \in JobId

(* sbatch *)
SubmitBatch(j, r) ==
    /\ pc = "requests"
    /\ ~r.alloc
    /\ Room(j, r)
    /\ jobs' = CreateJob(jobs, j, r)
    /\ pc' = "requestPass"
    /\ UNCHANGED world

(* the requests srun and salloc build carry no array, dependency, begin    *)
(* time, --exclusive or --requeue                                          *)
Interactive(r) ==
    /\ r.tasks = 0 /\ r.dep = <<>> /\ r.begin = 0
    /\ ~r.exclusive /\ ~r.requeue

(* srun --no-wait: when the request fits it starts at once, whoever waits; *)
(* with --immediate, a request that does not fit inserts nothing.  A       *)
(* launch that fails leaves the row pending.                               *)
SubmitRun(j, r, immediate) ==
    /\ pc = "requests"
    /\ ~r.alloc /\ Interactive(r)
    /\ Room(j, r)
    /\ LET created == CreateJob(jobs, j, r)
       IN  \/ /\ ResourcesFit(jobs, r.partition, r)
              /\ LaunchPossible(created, j)
              /\ jobs' = StartJob(created, j)
              /\ UNCHANGED faults
           \/ /\ ResourcesFit(jobs, r.partition, r)
              /\ faults < MaxFaults
              /\ faults' = faults + 1
              /\ jobs' = created
           \/ /\ ~ResourcesFit(jobs, r.partition, r)
              /\ ~immediate
              /\ jobs' = created
              /\ UNCHANGED faults
    /\ UNCHANGED <<now, pc, ending>>

(* salloc, and srun in the foreground *)
SubmitAlloc(j, r, immediate) ==
    /\ pc = "requests"
    /\ r.alloc /\ Interactive(r)
    /\ Room(j, r)
    /\ \/ /\ ResourcesFit(jobs, r.partition, r)
          /\ jobs' = MarkAllocationRunning(CreateJob(jobs, j, r), j)
       \/ /\ ~ResourcesFit(jobs, r.partition, r)
          /\ ~immediate
          /\ jobs' = CreateJob(jobs, j, r)
    /\ UNCHANGED <<world, pc>>

(* srun inside an allocation; nothing looks at the parent's state *)
StartStep(j, p, name) ==
    /\ pc = "requests"
    /\ p \in TopLevel(jobs) /\ jobs[p].req.alloc /\ jobs[p].started
    /\ IsNextId(jobs, j)
    /\ jobs' = CreateStep(jobs, j, p, name)
    /\ UNCHANGED <<world, pc>>

Hold(j) ==
    /\ pc = "requests"
    /\ j \in Rows(jobs)
    /\ jobs' = HoldJob(jobs, j)
    /\ UNCHANGED <<world, pc>>

Release(j) ==
    /\ pc = "requests"
    /\ j \in Rows(jobs)
    /\ jobs' = ReleaseJob(jobs, j)
    /\ pc' = "requestPass"
    /\ UNCHANGED world

(* scontrol update with a name, a partition or a priority: an error, and   *)
(* no change, unless the job is pending.  Nobody asks whether there is     *)
(* such a partition.  Names are those of the requests.                     *)
Update(j) ==
    /\ pc = "requests"
    /\ j \in InState(jobs, {"PENDING"})
    /\ \/ \E p \in Partitions \cup OtherPartitions : jobs' = UpdatePartition(jobs, j, p)
       \/ \E p \in Priorities : jobs' = UpdatePriority(jobs, j, p)
       \/ \E r \in Requests : jobs' = UpdateName(jobs, j, r.name)
    /\ pc' = "requestPass"
    /\ UNCHANGED world

CancelWaiting(j) ==
    /\ pc = "requests"
    /\ j \in InState(jobs, {"PENDING"})
    /\ jobs' = CancelPending(jobs, j)
    /\ UNCHANGED <<world, pc>>

(* rows whose process belongs to a client: allocations and steps *)
ClientOwned(j) == jobs[j].parent # 0 \/ jobs[j].req.alloc

(* scancel of a tracked job and the time limit: the daemon stays in        *)
(* terminate_running_job for the whole grace period.  A batch job is       *)
(* tracked while it runs; a client may have its process tracked when the   *)
(* row is not RUNNING any more.                                            *)
Terminate(j, final) ==
    /\ pc = IF final = "TIMEOUT" THEN "tend" ELSE "requests"
    /\ j \in Rows(jobs)
    /\ jobs[j].state = "RUNNING" \/ (ClientOwned(j) /\ jobs[j].started)
    /\ jobs' = MarkState(jobs, j, "COMPLETING")
    /\ pc' = "grace"
    /\ ending' = [job |-> j, final |-> final]
    /\ UNCHANGED <<now, faults>>

(* a client reports the end of its allocation or step, whatever the row    *)
(* says meanwhile                                                          *)
FinishAllocation(j, final) ==
    /\ pc = "requests"
    /\ j \in Rows(jobs)
    /\ ClientOwned(j) /\ jobs[j].started
    /\ jobs' = MarkFinished(jobs, j, final)
    /\ pc' = IF jobs'[j].state = "PENDING" THEN "requestPass" ELSE "requests"
    /\ UNCHANGED world

----------------------------------------------------------------------------
(* The rest of the daemon, as far as the table shows it *)

(* poll, reconcile_adopted and recover; reconcile_adopted writes the row   *)
(* of a tracked client process whatever its state                          *)
JobEnds(j, final) ==
    /\ pc \in {"tend", "recover"}
    /\ j \in Rows(jobs)
    /\ \/ jobs[j].state = "RUNNING"
       \/ pc = "tend" /\ ClientOwned(j) /\ jobs[j].started
    /\ jobs' = MarkFinished(jobs, j, final)
    /\ UNCHANGED <<world, pc>>

(* the end of terminate_running_job: the state it was asked for, or        *)
(* OUT_OF_MEMORY when the job's cgroup saw an oom kill                     *)
GraceEnds ==
    /\ pc = "grace"
    /\ \E final \in {ending.final} \cup (Outcomes \cap {"OUT_OF_MEMORY"}) :
           jobs' = MarkFinished(jobs, ending.job, final)
    /\ pc' = IF ending.final = "TIMEOUT" THEN "tend" ELSE "requests"
    /\ ending' = NoEnding
    /\ UNCHANGED <<now, faults>>

(* the process dies: rows stay as they are *)
Crash ==
    /\ pc # "down"
    /\ faults < MaxFaults
    /\ faults' = faults + 1
    /\ pc' = "down"
    /\ ending' = NoEnding
    /\ UNCHANGED <<jobs, now>>

Restart ==
    /\ pc = "down"
    /\ pc' = "recover"
    /\ UNCHANGED <<jobs, world>>

Tick ==
    /\ now < MaxTime
    /\ now' = now + 1
    /\ UNCHANGED <<jobs, pc, ending, faults>>

----------------------------------------------------------------------------
Submit ==
    \E j \in JobId, r \in Requests :
        \/ SubmitBatch(j, r)
        \/ \E immediate \in BOOLEAN : SubmitRun(j, r, immediate) \/ SubmitAlloc(j, r, immediate)

Control ==
    \E j \in JobId :
        \/ \E p \in JobId, r \in Requests : StartStep(j, p, r.name)
        \/ Hold(j) \/ Release(j) \/ Update(j) \/ CancelWaiting(j)
        \/ Terminate(j, "CANCELLED") \/ Terminate(j, "TIMEOUT")

Ends ==
    \/ \E j \in JobId, final \in Outcomes : JobEnds(j, final) \/ FinishAllocation(j, final)
    \/ GraceEnds

Pass == PassEnd \/ \E j \in JobId : PassStart(j) \/ PassStumbles(j)
Failure == Crash \/ \E j \in JobId : PassFails(j)

Next == Submit \/ Control \/ Ends \/ Pass \/ LoopStep \/ Failure \/ Restart \/ Tick

Spec == Init /\ [][Next]_vars

(***************************************************************************)
(* The clients leave the daemon a gap now and then, so that the loop goes  *)
(* round (strong fairness: each request takes the daemon elsewhere for a   *)
(* while); every job that runs ends at some point (its script exits, or    *)
(* its client reports), and poll and reconcile_adopted look at every job   *)
(* in every round, so that an end is not missed for ever; the service      *)
(* manager restarts a daemon that stopped.  Users owe nothing.             *)
(***************************************************************************)
Fairness ==
    /\ SF_vars(LoopStep)
    /\ WF_vars(Pass)
    /\ WF_vars(Restart)
    /\ WF_vars(GraceEnds)
    /\ \A j \in JobId : SF_vars(\E final \in Outcomes : JobEnds(j, final))

FairSpec == Spec /\ Fairness
----------------------------------------------------------------------------
(* Properties *)

(* The reservations of the running top-level jobs never exceed the host's  *)
(* CPUs, memory and GPUs, whichever way a job was started (a pass, srun    *)
(* --no-wait, salloc), requeued, or moved to another partition.            *)
CapacityRespected ==
    /\ UsedCpus(jobs) <= TotalCpus
    /\ UsedMem(jobs) <= TotalMem
    /\ UsedGpus(jobs) <= TotalGpus

(* A job submitted with --exclusive never runs beside another top-level    *)
(* job, also when the other one bypasses the queue.                        *)
ExclusiveAlone ==
    \A i, j \in RunningTopLevel(jobs) : jobs[i].req.exclusive => i = j

(* Two running jobs never see the same GPU id in CUDA_VISIBLE_DEVICES,     *)
(* although ids are handed out and taken back with no table of their own.  *)
GpuIdsDisjoint ==
    \A i, j \in RunningTopLevel(jobs) :
        i # j => jobs[i].gpuIds \cap jobs[j].gpuIds = {}

(* Admission counts GPUs (requested_gpus of the running rows) and a launch *)
(* picks ids (assigned_gpus of the running rows): whenever the first says  *)
(* yes, the second must find enough ids, or runner.launch would return an  *)
(* error and end the daemon.                                               *)
LaunchNeverShortOfGpus ==
    \A j \in JobId : Startable(jobs, j) => LaunchPossible(jobs, j)

(* No array ever has more than %N tasks running.                           *)
ArrayLimitRespected ==
    \A j \in TopLevel(jobs) :
        jobs[j].array # 0 /\ jobs[j].req.limit > 0 =>
            Cardinality(RunningArrayTasks(jobs, jobs[j].array)) <= jobs[j].req.limit

(* Two jobs with the same name and --dependency=singleton are never active *)
(* together, not even when one of them was left COMPLETING by a crash of   *)
(* the daemon or was renamed while it waited.                              *)
Singleton(j) == \E c \in Clauses(jobs[j].req) : c.kind = "singleton"
SingletonsNeverOverlap ==
    \A i, j \in InState(jobs, {"RUNNING", "COMPLETING"}) \cap TopLevel(jobs) :
        /\ i # j
        /\ Singleton(i) /\ Singleton(j)
        => jobs[i].name # jobs[j].name

(* A batch job's final state is final for the jobs that depend on it: what *)
(* let an afterok, afternotok or afterany job start still holds while it   *)
(* runs.  A requeue must not look final in between, and a job whose end a  *)
(* crash interrupted (COMPLETING) must not look ended.                     *)
DependencyStays ==
    \A j \in RunningTopLevel(jobs) : \A c \in Clauses(jobs[j].req) : \A i \in c.ids :
        ~jobs[i].req.alloc =>
            /\ c.kind \in {"afterok", "afternotok", "afterany"} => jobs[i].state \in Terminal
            /\ c.kind = "afterok" => jobs[i].state = "COMPLETED"
            /\ c.kind = "afternotok" => jobs[i].state # "COMPLETED"

(* A pass never starts a job while a better one outside any array (higher  *)
(* priority, or as high and submitted earlier) could have started: neither *)
(* the grouping by array nor starting over after each launch inverts it.   *)
StartedByPass(j) ==
    /\ InPass
    /\ jobs[j].state = "PENDING"
    /\ jobs'[j].state = "RUNNING"

PassHonoursPriority ==
    [][\A i, k \in JobId :
          StartedByPass(i) /\ Startable(jobs, k) /\ jobs[k].array = 0
          => /\ jobs[k].priority <= jobs[i].priority
             /\ jobs[k].priority = jobs[i].priority => i <= k]_vars

(* A job that could start on an empty host does not wait for ever once its *)
(* begin time, hold and dependencies are out of the way: neither the jobs  *)
(* that overtake it, nor its array's limit, nor requeued runs keep it out. *)
(* The exception is what the code makes of a job ahead whose dependency it *)
(* cannot read: every pass is abandoned there, and in the loop the daemon  *)
(* with it, for as long as that job waits.                                 *)
FitsEmptyHost(j) ==
    /\ jobs[j].req.cpus <= TotalCpus /\ jobs[j].req.mem <= TotalMem
    /\ jobs[j].req.gpus <= IF IsGpuPartition(jobs[j].partition) THEN TotalGpus ELSE 0
Waits(j) ==
    /\ j \in Pending(jobs) /\ FitsEmptyHost(j)
    /\ ~jobs[j].held /\ jobs[j].req.begin <= now /\ DependencySatisfied(jobs, j)

StumbleAhead(j) == \E i \in Pending(jobs) : Unreadable(jobs, i) /\ Precedes(jobs, i, j)

EligibleStarts == \A j \in JobId : []<>~(Waits(j) /\ ~StumbleAhead(j))

(* The sbatch page documents afterok:<jobid>[,<jobid>...]: a job with a    *)
(* list in that form starts once every job of the list has completed.      *)
ListAfterOk(j) ==
    \E c \in Clauses(jobs[j].req) : c.kind = "bare" /\ c.ids # {}
ListDependencyMet(j) ==
    \A c \in Clauses(jobs[j].req) : \A i \in c.ids : i \in Rows(jobs) /\ jobs[i].state = "COMPLETED"
ListDependencyStarts ==
    \A j \in JobId :
        []<>~(/\ j \in Pending(jobs) /\ ListAfterOk(j)
              /\ ListDependencyMet(j) /\ ~jobs[j].held)
=============================================================================
