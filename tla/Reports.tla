------------------------------ MODULE Reports ------------------------------
(***************************************************************************)
(* What sinfo and squeue tell of the table (src/store/partition_stats.rs,  *)
(* partition_reporting.rs, node_reporting.rs, src/format/sinfo.rs, and     *)
(* estimate_start_times in src/command/helpers.rs).  They only read, so    *)
(* they are state functions of Scheduler.                                  *)
(***************************************************************************)
EXTENDS Scheduler, QueueLoop

----------------------------------------------------------------------------
(* sinfo *)

\* mutant: the steps of a running allocation are counted too
RunningInWithSteps(t, p) == {j \in Running(t) : t[j].partition = p}

(* the rows that running_usage_totals and gpu_ids_in_use select *)
RunningIn(t, p) == {j \in RunningTopLevel(t) : t[j].partition = p}
PendingIn(t, p) == {j \in Pending(t) : t[j].partition = p}

Sum(t, S, field) == Cardinality(UNION {{j} \X (1 .. t[j].req[field]) : j \in S})

(* load_partition_stats *)
Stats(t, p) ==
    [cpus |-> Sum(t, RunningIn(t, p), "cpus"),
     mem |-> Sum(t, RunningIn(t, p), "mem"),
     gpus |-> Sum(t, RunningIn(t, p), "gpus"),
     running |-> Cardinality(RunningIn(t, p)),
     pending |-> Cardinality(PendingIn(t, p)),
     ids |-> UNION {t[j].gpuIds : j \in RunningIn(t, p)}]

\* mutant: the last one free is not seen
LevelButOne(used, total) ==
    IF used = 0 THEN "idle" ELSE IF used + 1 >= total THEN "alloc" ELSE "mix"

Level(used, total) ==
    IF used = 0 THEN "idle" ELSE IF used >= total THEN "alloc" ELSE "mix"

(* partition_state *)
PartitionState(t, p) ==
    IF IsGpuPartition(p)
    THEN Level(Stats(t, p).gpus, TotalGpus)
    ELSE Level(Stats(t, p).cpus, TotalCpus)

(* build_sinfo_node_rows, of the partitions shown: the state, and the sums *)
NodeState(t, parts) ==
    LET states == {PartitionState(t, parts[n]) : n \in DOMAIN parts}
    IN  IF "mix" \in states \/ {"alloc", "idle"} \subseteq states THEN "mix"
        ELSE IF "alloc" \in states THEN "alloc" ELSE "idle"

(* the ids of the first GPU partition, the first whose gres_used is not    *)
(* "N/A", stand for all                                                    *)
FirstGpuIds(t, parts) ==
    UNION {Stats(t, parts[n]).ids : n \in {m \in DOMAIN parts :
               IsGpuPartition(parts[m]) /\ \A k \in 1 .. m - 1 : ~IsGpuPartition(parts[k])}}

Node(t, parts) ==
    LET Total(field) ==
            Cardinality(UNION {{n} \X (1 .. Stats(t, parts[n])[field]) : n \in DOMAIN parts})
    IN  [cpus |-> Total("cpus"), mem |-> Total("mem"), gpus |-> Total("gpus"),
         running |-> Total("running"), pending |-> Total("pending"),
         ids |-> FirstGpuIds(t, parts)]

----------------------------------------------------------------------------
(* squeue --start *)

(* list_jobs, with squeue's states and the partitions of -p *)
Listed(t, partitions) ==
    {j \in InState(t, {"PENDING", "RUNNING"}) \cap TopLevel(t) : t[j].partition \in partitions}

\* mutant: a job's own request is taken off what is free
FitsListedBesideItself(t, listed, j) ==
    LET busy == (listed \cap Running(t)) \cup {j}
    IN  /\ t[j].req.cpus <= SaturatingSub(TotalCpus, Sum(t, busy, "cpus"))
        /\ t[j].req.mem <= SaturatingSub(TotalMem, Sum(t, busy, "mem"))
        /\ t[j].req.gpus <= SaturatingSub(TotalGpus, Sum(t, busy, "gpus"))

FitsListed(t, listed, j) ==
    LET busy == listed \cap Running(t)
    IN  /\ t[j].req.cpus <= SaturatingSub(TotalCpus, Sum(t, busy, "cpus"))
        /\ t[j].req.mem <= SaturatingSub(TotalMem, Sum(t, busy, "mem"))
        /\ t[j].req.gpus <= SaturatingSub(TotalGpus, Sum(t, busy, "gpus"))

(* estimate_start_times: the times the latest of which is shown; none: N/A *)
Estimate(t, listed, j) ==
    IF t[j].state = "RUNNING" THEN {"started"}
    ELSE LET begin == IF t[j].req.begin > now THEN {"begin"} ELSE {}
             release == IF \E i \in listed \cap Running(t) : t[i].req.limited
                        THEN {"release"} ELSE {}
         IN  IF FitsListed(t, listed, j)
             THEN IF begin = {} THEN {"now"} ELSE begin
             ELSE begin \cup release

----------------------------------------------------------------------------
(* Properties *)

(* requests are answered between two others *)
Answering == pc = "requests"

(* sinfo's node row, which adds up what its partitions count, agrees with  *)
(* what admission compares requests with: no job is counted twice or in no *)
(* partition, a job that moved or ran before a requeue included.  What it  *)
(* leaves out is what an update moved to a name that is no partition, and  *)
(* holds no GPU.  The ids shown as used are in use; they are all of those  *)
(* when there is one GPU partition.                                        *)
EachListedOnce ==
    \A m, n \in DOMAIN ActivePartitions : ActivePartitions[m] = ActivePartitions[n] => m = n
Astray(S) == {j \in S : jobs[j].partition \notin Partitions}

SinfoAddsUp ==
    Answering /\ EachListedOnce =>
        LET node == Node(jobs, ActivePartitions)
            left == Astray(RunningTopLevel(jobs))
        IN  /\ node.cpus + Sum(jobs, left, "cpus") = UsedCpus(jobs)
            /\ node.mem + Sum(jobs, left, "mem") = UsedMem(jobs)
            /\ node.gpus = UsedGpus(jobs)
            /\ node.running + Cardinality(left) = Cardinality(RunningTopLevel(jobs))
            /\ node.pending + Cardinality(Astray(Pending(jobs))) = Cardinality(Pending(jobs))
            /\ node.ids \subseteq GpuIdsInUse(jobs)
            /\ Len(GpuPartitions) = 1 => node.ids = GpuIdsInUse(jobs)
            /\ Cardinality(node.ids) <= node.gpus

(* Whom sinfo tells that the node, or a CPU partition, is "alloc" need not *)
(* look for room: no waiting job could start, there or elsewhere.          *)
AllocMeansFull ==
    Answering => \A j \in Pending(jobs) : Startable(jobs, j) =>
        /\ EachListedOnce => NodeState(jobs, ActivePartitions) # "alloc"
        /\ \A p \in Partitions : ~IsGpuPartition(p) => PartitionState(jobs, p) # "alloc"

(* squeue --start never puts off a job that the next pass starts: whatever *)
(* -p leaves out, a startable job's time is now.                           *)
EstimateNeverLate ==
    Answering => \A j \in Pending(jobs) : Startable(jobs, j) =>
        \A partitions \in {P \in SUBSET (Partitions \cup OtherPartitions) : jobs[j].partition \in P} :
            Estimate(jobs, Listed(jobs, partitions), j) = {"now"}

(* The loop of order_pending_jobs and the order that PassHonoursPriority   *)
(* and the pass rely on are the same in every table the daemon reaches,    *)
(* after holds, updates of priorities, requeues and tasks that left.       *)
QueueInOrder == LoopReadsInOrder(jobs)
=============================================================================
