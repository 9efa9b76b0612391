---------------------------- MODULE MCScheduler ----------------------------
(***************************************************************************)
(* Small instances of Scheduler for TLC: the sets of submissions of each   *)
(* run.                                                                    *)
(***************************************************************************)
EXTENDS Reports

Plain ==
    [cpus |-> 1, mem |-> 1, gpus |-> 0, partition |-> "cpu", exclusive |-> FALSE,
     alloc |-> FALSE, requeue |-> FALSE, limited |-> FALSE, warn |-> FALSE,
     name |-> "a", dep |-> <<>>, tasks |-> 0, limit |-> 0, begin |-> 0]

\* the configured partitions
Cpu == <<"cpu">>
Gpu == <<"gpu">>
None == <<>>

OnGpu(n) == [Plain EXCEPT !.partition = "gpu", !.gpus = n]
After(kind, ids) == <<[kind |-> kind, ids |-> ids]>>

\* a GPU job that is requeued, an interactive GPU allocation, an exclusive
\* job that leaves room for others, and a job of two CPUs that srun --no-wait
\* may start as well
MixedRequests ==
    {[OnGpu(1) EXCEPT !.requeue = TRUE], [OnGpu(2) EXCEPT !.alloc = TRUE],
     [Plain EXCEPT !.exclusive = TRUE], [Plain EXCEPT !.cpus = 2]}

\* a singleton that is requeued, a two-task array that waits for job 1 to
\* fail, and a job without conditions, which srun --no-wait may start as well
Dependents ==
    {[Plain EXCEPT !.requeue = TRUE, !.dep = After("singleton", {})],
     [Plain EXCEPT !.name = "b", !.tasks = 2, !.dep = After("afternotok", {1})],
     Plain}

\* an array with a limit whose tasks are requeued, a job that needs every CPU
\* at once, after a time, and one whose dependency cannot be read beyond the
\* first clause
Waiting ==
    {[Plain EXCEPT !.tasks = 2, !.limit = 1, !.requeue = TRUE],
     [Plain EXCEPT !.cpus = 2, !.begin = 1],
     [Plain EXCEPT !.dep = After("afternotok", {1}) \o After("unreadable", {})]}

\* jobs that wait for two earlier ones, in the documented list form
ListRequests == {Plain, [Plain EXCEPT !.dep = After("afterok", {1}) \o After("bare", {2})]}
=============================================================================
