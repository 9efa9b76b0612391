# slotd in TLA+

slotd is a single-node batch scheduler with Slurm's commands: a daemon (`slotd`)
with one thread, a SQLite table `jobs`, and clients (`sbatch`, `srun`, `salloc`,
`scancel`, `scontrol`, `squeue`, ...) that talk to it over a Unix socket. This
directory holds TLA+ modules translated from the code under `src/`, TLC
configurations that check them on small instances, and TLAPS proofs that every
safety property the runs check holds for all values of the constants (section 5
names the assumptions).

- `tlasany M.tla` parses, `tlc -config X.cfg M` checks a run, `tlapm M.tla` proves.
- `PROJECT.json` lists the components, the runs, a mutant for every property (a
  changed definition under which the property is violated), the source lines of
  every definition, the findings, the hazards and the theorems.

## 1. The system

| Component | State | Operations | Interacts with |
|---|---|---|---|
| Job table (`store/`) | the `jobs` table: one row per job, array task or step | `create_job`, `create_step`, `mark_running`, `mark_allocation_running`, `adopt_allocation`, `mark_state`, `mark_finished` (which requeues), `cancel_pending_job`, `hold_job`, `release_job`, `update_job_fields`, and the queries of the scheduler | called by the daemon only; survives it |
| Queue order (`store/support.rs`) | none | `order_pending_jobs` | scheduling pass |
| Scheduler (`runtime/daemon.rs`) | none of its own: it reads the table again for every decision | `schedule_pending_jobs`, `resources_fit`, `dependency_satisfied`, `pending_block_reason`, `submit_run`, `submit_alloc`, the other requests | store, runner |
| Runtime of batch jobs (`runtime/runner*.rs`, `recovery.rs`, `notify.rs`) | `Runner.jobs` (memory): the tracked processes, each a child or adopted | `launch_running_job`, `timed_out_jobs`, warnings, `poll`, `reconcile_adopted`, `terminate_running_job`, `recover`, `notify_job` | store; process groups, cgroups, `exit_status` files (which are read and never written) |
| Foreground clients (`runtime/foreground/`, `command/submit/`) | the client's own child and where it is | `SubmitAlloc`, wait, spawn, `AdoptAllocation`, wait for the child, `FinishAllocation`; `StartStep` | daemon by requests, host |
| Submission (`store/*_creation.rs`, `command/submit/`) | rows, job directories, scripts | `create_job_entry`, `create_array_jobs`, `sbatch --wait` | store, file system |
| Output (`runtime/launch.rs`, `foreground_io.rs`, `foreground_launch.rs`, `runner_launch.rs`) | files with open descriptions, srun's forwarder threads | the launcher script with a process per task, `open_output_file`, `configure_foreground_stdio`, `spawn_output_forwarder` | host, foreground clients |
| Requests and time (`submit/sbatch.rs`, `command/args.rs`, `command/helpers.rs`, `util/time.rs`, `app/config.rs`) | none | `parse_directives`, `merge_batch_directives`, `resolve`, `build_sbatch_request`, `run_update_job`; array, memory, time and date specifications | commands, configuration |
| Reports (`store/partition_*.rs`, `format/sinfo.rs`, `estimate_start_times`) | none, they read the table | `sinfo`, `squeue --start` | store |
| IPC, argument parsing, text output | none | | |

Each pass of the daemon's loop is `handle_requests` (every waiting request, one
after the other), `enforce_timeouts` with the warning signals, `poll` (reap
children), `reconcile_adopted` (look whether adopted groups are alive),
`schedule_pending_jobs`, and a sleep. Requests are therefore atomic with respect
to each other. What is not atomic is what the code does *within* one of these
steps with respect to the operating system and to a crash: a launch is a spawn
and then an `UPDATE`, a termination sleeps for the grace period and waits for its
child, recovery goes row by row, and no SQL transaction holds two statements
together.

### What is hard here, and the property for each part

- **Runtime.** Processes exit, are killed or outlive the daemon between any two
  of its steps; the daemon crashes in a launch, in a grace period or during
  recovery. `Runner.jobs` must agree with the table, an end must be recorded
  once and for good, noticed always, reported once, requeued once, and
  recorded as COMPLETED only when the script returned 0; a cancellation that was
  acknowledged must stick.
- **Scheduler.** A job starts in three ways (the pass, `srun --no-wait`,
  `salloc`), reservations are recomputed from the rows, GPUs are admitted by
  count and handed out by id, dependencies are read once. Reservations must stay
  within the host, exclusive jobs alone, GPU ids disjoint, array limits and
  singletons respected, a dependency's reason must last, and nobody eligible
  may wait for ever.
- **Foreground.** Two processes report the end of one row. What the client
  reported must stand, an ended row must not run again when its client adopts it
  late, and nothing dead may stay RUNNING.
- **Submission.** Several statements and files make one job, several rows one
  array. What a crash or an error leaves of a submission must neither run nor keep
  `sbatch --wait` waiting; `--wait` reads its result from one of many rows.
- **Output.** A line passes through file offsets that are shared or not, `sed`, a
  socket pair and a thread, while groups are killed and requeues truncate. No line
  may be lost or overwritten, `srun` must not report before all of it is written
  nor hang on its threads, and the exit status must count every task.
- **Requests.** Three sources are merged in two steps; numbers have widths, dates a
  calendar. The strongest source must win, constraints must hold wherever the job
  ends up, dates and limits must read back.
- **Reports.** They compute again, from other queries, what admission decides on,
  and must agree with it.

`PROJECT.json` "hazards" lists these one by one with their lines. What no property
is about is listed in sections 3 and 6.

## 2. The modules

```
  Store ---- QueueOrder ---- Scheduler ---- Reports ---- MCScheduler
    |            \-- QueueLoop -------------/
    |------- Runtime ------- MCRuntime
    |           \-------- (implements) Lifecycle
    |------- Foreground ---- MCForeground
    \------- Submission ---- MCSubmission
  Output ------------------- MCOutput
  Calendar ---- Request ---- MCRequest

  Store ------ StoreProofs        Output ---- OutputProofs
  Request ---- RequestProofs
  StoreProofs with Runtime ------ RuntimeProofs
              with Foreground --- ForegroundProofs
              with Submission --- SubmissionProofs
              with Scheduler ---- SchedulerProofs ---- ReportsProofs (with Reports)
```

**Store** is the table: one operator per `UPDATE` or `SELECT` of `store/`, applied
to a table `t`. It has no variables; the four state machines below keep the table
in `jobs` and change it by these operators (Submission writes the two statements
that `CreateJob` joins itself). A row keeps the columns some
decision depends on. `req` is the submitted request, where `cpus` stands for
`requested_cpus * requested_tasks`; `limited` stands for "has a time limit".
Paths, environment, timestamps, displayed reasons and `max_rss_kb` are left out;
`started` stands for `start_time IS NOT NULL`. Ids grow, so an id also stands for
the submission time in orderings. There is one user: `user_name` only decides
which jobs count for a singleton.

**QueueOrder** states `order_pending_jobs` as a relation: `Precedes(t, i, j)`. The
code sorts, groups and reads round-robin; a job's place is decided by the round it
is read in (`Round`, its rank in its group) and, within a round, by its group's
best job. **QueueLoop** is the code's algorithm: the groups sorted by their best jobs
(`SortedGroups`), and the turns of the loop one after the other (`Turn`,
`OrderPendingJobs`). `LoopReadsInOrder` says that it yields that relation. A sort is
the sequence of a set in which each element comes before those it must come before
(`Sorted`): which sorting algorithm finds it does not matter, as the orders are total.

**Scheduler** is the daemon as the table sees it. `pc` is its place in the loop.
`schedule_pending_jobs` starts one job and begins again, so a pass is a sequence of
`PassStart` steps ended by `PassEnd` (nothing startable is left), `PassFails` (a
launch returned an error) or `PassStumbles` (the pass got to a job with a dependency
id that is no number, which is an error as well): an error abandons the pass
(`AbandonPass`), and in the loop's own pass it ends the daemon. Partitions are the
configured lists, any number of each kind; `Update` moves a waiting job to any of
them or to a name that is none (`OtherPartitions`). `SubmitBatch`, `SubmitRun`, `SubmitAlloc`, `StartStep`, `Hold`,
`Release`, `Update`, `CancelWaiting`, `Terminate` and `FinishAllocation` are the
requests; those that schedule enter `requestPass`. How a process ends is not the
subject here: `JobEnds`, `GraceEnds` and `FinishAllocation` apply `mark_finished`
with any final state of `Outcomes`.

**Runtime** is the other half: what happens to the processes of batch jobs. `proc`
is the host's process groups, each with its leader (the wrapper `runner.sh`) and
the rest of the group; `runner` is `Runner.jobs`; `oom` and `clock` are what the
daemon reads; `StatusFile` is the file it looks for and never finds; `daemon` is the place of the thread, with the job it
works on and the jobs left in the part of the loop it is in. Every step that a
process, a deadline or a crash can come between is an action of its own:
`LaunchSpawn`/`LaunchMark`/`LaunchFails`, `Terminate`/`GraceEnds`/`KillEnds`/
`Notify`, `Poll`, `Reconcile`, `Recover`. Which waiting job is launched is left
open (`LaunchSpawn` takes any), which is more than the scheduler allows. With no
tracked job the parts of the loop between the requests and the pass have nothing to
look at, and `RequestsEnd` goes on to the pass at once.

**Lifecycle** is the abstract specification of a batch job: PENDING, RUNNING,
COMPLETING, final; one return to PENDING for a failed run of a `--requeue` job.
`Runtime!ImplementsLifecycle` maps each row to it by `LifeOf`.

**Foreground** is `salloc`, `srun` and `srun` inside an allocation: a state machine
per client (`client[c].pc`), its process group, and the daemon's side: requests,
cancellation, time limit, reconciliation, crash and recovery of client-owned rows.
Admission is left to Scheduler (any waiting allocation may be granted). The group
is its leader only, the grace period and the wait after SIGKILL are one step (the
code gives up waiting anyway), notification is left out, of cgroups there is what
an oom kill makes of the end (`Code`, `LostStates`), and a  that is refused by a daemon that is down is a client that dies.

**Submission** takes `create_job` apart: for each task the `INSERT`, then the
directory with the script and the `UPDATE` of the paths, then, after the first, its
`array_job_id`; `written` are the rows that got this far, `daemon.left` the tasks
without a row. A crash or a directory that cannot be created (`MaxErrors`) may
come after each of them. `SegmentIds` and `TaskIds` are `parse_array_spec`. A
pass tries any waiting row while the host has room for one more job (`Slots`);
one without files cannot be launched (`LaunchFails`), which answers the request
with an error or, in the loop's own pass, ends the daemon. A job that is stopped
(`Stops`) may return 0 all the same, in its grace period or after another of its
processes was killed for want of memory; `code` is what the row then records. `client` is
`sbatch --wait`: first it polls the row it was answered, then all rows of its
array. The other modules insert a submission in one step (`Store!CreateJob`);
`AnsweredIsComplete` says that an answered submission is what that step inserts.

**Output** is what happens between a command that prints and the file its user
reads. A program is a run of the batch job or an `srun` step of its script; its
`launcher` starts a `task` per rank and waits for them in order. `desc` is the open
file description behind each stream, with its offset; `shared` are programs whose
stderr is a clone of their stdout. With `--unbuffered` a line goes through `pipe`
(the socket pair) and `thread` (the forwarder, which holds what it read before it
writes); with `--label` through a `sed` per task before that. `client` is `srun`:
it waits for the launcher, joins stdout's thread, then stderr's, and reports. Groups
and clients are killed, writes fail (`MaxFaults`), tasks leave processes behind
that keep their streams (`MaxLeft`). What prints a line is any of these processes,
in any order; a line has no text, only its program, stream and number.

**Calendar** has times as pure operators: `days_from_civil` and its inverse with
Rust's truncating division (`Quotient`), the dates that are accepted, durations, and
`--begin`. A time is the pair of its days and the seconds of the day, because TLC's
integers are narrower than `i64`; `MaxWord` is the largest `u64`, and `Signed` is Rust's
`as i64`. Years beyond i32 and numbers that are too large for their type are refused by
the code, and are texts of another kind here (`IsText`).

**Request** is `sbatch` before it sends anything: it reads the script line by line
(`ReadLine`, with the tokens of `apply_tokens`), merges the `SBATCH_*` variables over
it, the command line over both and the configuration's defaults under them
(`Resolve`), and refuses or submits; `Update` is `scontrol update` of the waiting
job. Options that are treated alike are represented by one of them.

**Reports** has `load_partition_stats`, `partition_state`, `build_sinfo_node_rows`
and `estimate_start_times` as state functions over Scheduler's table; its
properties compare them with `Startable`, by which the pass starts jobs. The node row
adds up the configured partitions, and takes the GPU ids of the first one that has any
to show (`FirstGpuIds`).

Simplifications shared by the models: a request is one step unless named above;
`poll` and `reconcile_adopted` forget each job with its record and not after the
loop (nothing reads it in between).

## 3. The runs

Passing runs (all explore their whole state space):

| Run | Instance | Shows |
|---|---|---|
| `resources` | 3 rows, 2 CPUs, 2 GPUs; a requeued GPU job, a GPU allocation, an exclusive job that leaves room for others, a job of two CPUs; two partitions and a name that is none; no faults | `TypeOK`, `CapacityRespected`, `ExclusiveAlone`, `GpuIdsDisjoint`, `LaunchNeverShortOfGpus`, `SinfoAddsUp`, `EstimateNeverLate` |
| `dependencies` | 3 rows: a requeued singleton, an array of two `afternotok:1`, a job without conditions; renames, two faults | `DependencyStays`, `SingletonsNeverOverlap`, `AllocMeansFull` |
| `eligible` | 3 rows: a requeued array of two with `%1`, a job of the host's size with a begin time, a job that waits for job 1 and then for an id that is no number; priorities that change | `ArrayLimitRespected`, `PassHonoursPriority`, `QueueInOrder`, and `EligibleStarts` under fairness |
| `recovery` | 1 requeued job with limit and warning, 2 process groups, cgroup; 2 faults, each a crash or a cgroup that cannot be set up | `TypeOK`, `RunnerMatchesTable`, `RunsDoNotOverlap`, `RunsBounded`, `CompletedIsHonest`, `NotifiedOnce`, `TerminalIsFinal`, `ImplementsLifecycle`, and under fairness `DeathIsNoticed`, `TerminationEnds` |
| `foreground` | 2 clients, 2 rows, 2 groups, 1 crash | `ReportStands`, `CompletedReturnedZero`, `EndedNeverRunsAgain`, `DeadIsCleaned` |
| `submission` | 2 clients, 3 rows: a requeued job, an array `7-10:3,10`; room for two; jobs that are cancelled or out of memory and return 0 or not; 1 crash, 1 failed directory | `AnsweredIsComplete`, `WaitIsHonest`, `WaitEnds` |
| `output` | 2 runs, 1 step, up to 2 tasks, 2 lines, 1 process left behind, 1 fault; four jobs that append or truncate, with one or two files, labels and forwarders | `JobOutputKept`, `StepOutputKept`, `StatusOfAllTasks`, `StepsReport` |
| `requests` | scripts of up to 3 lines of 7 kinds, 3 environments, 6 command lines, 6 updates; all dates of ten years; limits with every carry, on both sides of the largest signed number, and beyond the word | `StrongestSourceWins`, `ConstraintHolds`, `BeginIsAsAsked`, `LimitReadsBack` |

Bounds. `MaxJobs` bounds rows ever inserted: two jobs compete for a resource, a
third is what overtakes or is waited for, and an array of two beside another job
is what ordering and array limits need. In Runtime rows interact only through the thread that
serves them, so one job with all its runs, crashes and leftovers is the
interesting instance; the proofs and a once-made two-job check of the inductive
invariant cover several jobs. `Groups` has two ids: two runs
of a requeued job, or a process orphaned in a launch and a run beside it; the three
together are left to the proofs. In Submission the second client's rows are those that get
into the way of the first's, or that a failed submission of it leaves behind; the two
segments of the array name one id twice. Two crashes put the second one inside the recovery from the
first. `MaxFaults` and `MaxTime` bound crashes with failed launches, and
the clock. Crashes and failed launches are in `dependencies`, where rows that a crash left
COMPLETING matter; `resources` has none (a crash starts nothing, and with one fault and three
of the four requests the run passes too). Begin times and the clock are in `eligible`. `scontrol update` gives the names
that the run's requests have. `resources` has one partition of each kind; `SinfoAddsUp` and
`AllocMeansFull` were checked once more with two GPU partitions and four requests (5.2
million states), and are proved for any lists. In Submission a row that was stopped by its
time limit is as one that was cancelled (`Stops` has two of the three states). In Output two lines are enough to be overwritten or reordered (of one
task, of two, of two streams, of two runs), and two tasks for a status that one of
them hides. `requests` uses 1,048,576,000 for the largest word, within TLC's
integers: 1000T is the largest memory that fits it and 1001T does not, and 12137 days
are more seconds than it holds. Its years are a leap year and its neighbours, three
kinds of centuries, the epoch, and the years 0 and 1, where the algorithm's own
year is negative.

`TypeOK` of Scheduler and Runtime is listed by a run; that of Foreground, Submission
and Output is proved (section 5) and listed by none. `MemMb` (rounding and saturation of memory) is part of every request of
`requests`, but no property is about it.

Deadlock is checked in every run but two: the daemon can always go round its loop.
In Output everything may have ended, and in Request a refused submission is the end.

Runs that show a disagreement between the code and its documents (one property
each, taken from the quoted text; TLC finds the violation):

| Run | Document | What the code does |
|---|---|---|
| `list` | `sbatch.md:136`: `afterok:<jobid>[,<jobid>...]` | the list is split at commas into clauses of their own; such a job never starts |
| `exit_status` | `runtime-model.md:118`: `exit_status` is the wrapper's exit status | the launcher's text, which `runner.sh` begins with, ends in `exit` (`launch.rs:53`), so the line that writes the file is never run; a job that returned 0 while it was adopted or the daemon was down is recorded FAILED |
| `failed_launch` | `runtime-model.md:32`: launch fails instead of skipping enforcement | the process was spawned before the cgroup and runs on outside it |
| `unwritten` | `runtime-model.md:93`: the daemon loop runs every 300 ms | a row whose directory could not be created waits like any other; the pass that tries it ends the daemon, and so does the first pass after every restart, until the row is cancelled |

`list` and `unwritten` are liveness and run under the fair specification.

Seen while modelling and checked by no run:

- recovery reads RUNNING rows only, so a termination cut short by a crash leaves
  its row COMPLETING for ever, where `job-control.md:76` has jobs *transition
  through* that state.
- an oom event in the grace period turns an acknowledged CANCELLED into
  OUT_OF_MEMORY, which requeues, where `sbatch.md:183` says CANCELLED does not
  (`CancelStays` proves that without cgroups nothing undoes a cancellation).
- an `srun` without `-o` in a script opens `/dev/stdout` anew and writes over
  the job's earlier lines.
- with `--label` alone a step is reported before `sed` wrote its last lines.
- without `--open-mode=append` a process left behind by an earlier run writes
  into the new run's output.
- `SBATCH_EXCLUSIVE=0` and `SBATCH_REQUEUE=0` cannot take back an `#SBATCH` flag
  (`sbatch.md:96`).
- `scontrol update` takes a partition that does not exist, where `runtime-model.md:43` has
  only configured names accepted. Such a job is counted by admission and shown by no
  partition of `sinfo`, and with GPUs it waits for ever.
- a dependency id that is no number (`afterok:abc`) is accepted by `sbatch` and is an error
  in every pass that gets to the job: requests are answered with it, and the loop's own pass
  ends the daemon, after every restart again, until the job is cancelled or held. What is
  behind it in the queue does not start (`EligibleStarts` excepts that).
- `sinfo -N` takes the GPU ids of the first GPU partition and the counts of all of them
  (`sinfo.md:51` speaks of aggregation), and counts twice what is configured twice.
- a time limit of 2^63 seconds or more (also one that wrapped around to it) is shown as
  `00:00:00`, and the job is stopped at once.
- a process that a crash orphaned between the spawn and `mark_running` runs on beside the
  job's next run.
- a GPU partition is shown idle while CPU jobs fill the host.
- array tasks are not interleaved by group as `README.md:573` and
  `runtime-model.md:108` say, because the order is computed again after each
  launch and an array is drained before the next begins.
- `sbatch --wait` takes the exit code of the row with the highest id among those that are not
  COMPLETED. One that was cancelled or out of time and returned 0 in the grace period, or was
  out of memory although its script returned 0, makes `--wait` return 0 and hides a task that
  failed (`WaitIsHonest` says that this is the only way to a 0 without all COMPLETED).
- a request's pass that fails on another job's row answers the request with an
  error although its job was created.
- the loop of `parse_array_segment` wraps around at the largest i32
  (`SubmissionAssumption` excludes it).
- a job cancelled while it waits runs no notification command, although
  `README.md:605` speaks of every terminal state.
- `srun --no-wait` and `salloc` start ahead of jobs that wait (`runtime-model.md:106` describes priority order
  for the pass only).
- the client's report replaces CANCELLED or TIMEOUT of its allocation by FAILED
  (`tests/cancellation.rs` accepts both).
- two waiting singletons of one name wait for each other.
- time limits are enforced before exits are polled, so a job that returned 0 within
  its limit can be recorded TIMEOUT, and requeued; the life cycle allows both.
- a client that dies before it adopts its allocation leaves a RUNNING row without a
  process group until the daemon restarts.
- a step can be started in an allocation that has ended, and cancelling an
  allocation does not stop its steps.
- `update_job_fields` writes one column after the other, so a refused update can be
  applied in part.
- a restarted daemon sends the warning signal again (`warning_signal_sent` is in
  memory only).
- `-c 0` is accepted, and such a job fits a node that `sinfo` calls alloc.
- `--export=ALL` with `--export-file` drops the file's variables.

## 4. Fairness

- The daemon's thread is weakly fair: the code is a loop with bounded sleeps.
- Leaving `handle_requests` is strongly fair, as each request takes the thread
  elsewhere for a moment: the socket is not always full.
- The service manager restarts a dead daemon (`scripts/install.sh:347`,
  `Restart=always`: weak fairness of `Restart`).
- Runtime: the kernel ends what got SIGKILL. A script owes nothing: it may run for
  ever or ignore SIGTERM. `TerminationEnds` depends on that SIGKILL being sent.
- Submission: `sbatch --wait` polls every 200 ms, so a poll that would find the end
  is strongly fair (the daemon is between requests again and again). Jobs may run
  for ever.
- Foreground: `reconcile_adopted` looks at every tracked row in every round, so
  each is strongly fair. Clients and commands owe nothing and may stop anywhere.
- Output: launchers, `sed`, the forwarders and `srun` are processes and threads the
  kernel keeps running (weak fairness of `Machinery`, one program at a time). Tasks
  and what they leave behind owe nothing; `StepsReport` is about steps whose
  processes are gone.
- Scheduler: a running job ends at some point (`EligibleStarts` is about waiting,
  and no job starts on a full host otherwise). Users owe nothing. With an
  endless stream of small jobs backfilling would starve a large one; the
  run has finitely many submissions, and that limit is the claim's.

## 5. What is proved

Every invariant of the passing runs, and every action property and refinement among
their properties, is a theorem of the specification: for any number of rows, groups,
clients, tasks, crashes and faults, from the assumptions on the constants that the
modules name (`...Assumption`). Each theorem follows from an inductive invariant, which
is called `IInv` unless named below.

`StoreProofs` has the facts about the table's operators (which rows and columns each
changes, and that it yields a table), about small sets, and that a non-empty set of
naturals has a least element. The last is how the proofs do induction: a recursive
function is taken apart at the least argument at which the claim fails.

### Runtime

From: group ids are positive integers, `NoGroup` is none of them, requests are batch
requests of one row.

- `TypeCorrect`: `Spec => []TypeOK`.
- `RunnerAgrees`: `Spec => []RunnerMatchesTable`.
- `TerminalStays`: `Spec => TerminalIsFinal`.
- `CancelStays`: `~UseCgroup => (Spec => []CancelSticks)`. With cgroups an oom event
  does undo a cancellation, so the hypothesis is needed; no run checks this property.
- `Implements`: `Spec => ImplementsLifecycle`.
- `RunsSeparate`: `Spec => []RunsDoNotOverlap`; `RunsAreBounded`: `Spec => []RunsBounded`.
- `CompletedStaysHonest`: `Spec => []CompletedIsHonest`: the recorded run of a COMPLETED
  job returned 0. That one which returned 0 becomes COMPLETED is not true (run `exit_status`).
- `ReportedOnce`: `Spec => []NotifiedOnce`.

The argument. `RunnerMatchesTable` is not inductive: what the daemon will write
next is right only if the job it holds is still in the state it was picked in, and
the list of jobs it has yet to look at may not contain one that was forgotten
meanwhile. `DaemonInv` says, for each place of the thread, what is known of
`daemon.job`, `daemon.next` and `daemon.todo`: a job being launched is PENDING, one
being terminated is COMPLETING and not tracked, the todo of a loop part is tracked,
that of recovery is RUNNING and not tracked. `IInv` is `TypeOK /\ RunnerMatchesTable
/\ DaemonInv`, with one lemma per action (`...Keeps`). `TableSteps` then classifies
every step by what it does to one row (`RowStep`); finality and the implementation of
Lifecycle follow from that classification and `IInv`. `CancelStays` has an invariant
of its own on top (`CancelInv`): the job of a cancellation on its way to the answer is
already CANCELLED.

`RunsInv` is the account of the process groups. A group that `mark_running` recorded
is either the one in the job's row or the one of the run before the only requeue, and
that one was over, or had been sent SIGKILL, when the row let go of it (`RowInv`); the
daemon holds the row's own group while it ends a job (`HeldInv`). Groups orphaned
between the spawn and `mark_running` belong to a job too, and nothing is claimed of
them. Overlap and the number of runs are read off this. `HonestInv` adds that the
group in a COMPLETED row is over and returned 0, whatever becomes of the others, and
`NotifyInv` that the job held at "notify" has not been reported and what has been
reported never comes there again.

### Scheduler

From: the host's capacities are numbers, requests have the fields of `Request` and name
configured partitions, there is a CPU partition, without GPUs there is no GPU partition, and
processes end in terminal states. For every number of jobs, CPUs, memory, GPUs, faults,
every set of requests and of outcomes:

- `TypeCorrect`, `CapacityHolds`, `ExclusiveRunsAlone`, `GpusNotShared`,
  `SingletonsApart`, `ArraysWithinLimits`, `DependenciesStay`: the run's invariants
  `TypeOK`, `CapacityRespected`, `ExclusiveAlone`, `GpuIdsDisjoint`,
  `SingletonsNeverOverlap`, `ArrayLimitRespected`, `DependencyStays`;
- `LaunchesFindGpus`: `LaunchNeverShortOfGpus`, that whenever the count of free GPUs
  admits a job, `allocate_gpu_ids` finds as many ids;
- `PriorityHonoured`: `Spec => PassHonoursPriority`, that a pass starts no job while a
  better one outside any array could start.

The argument. `Good` collects what is true of every table: its rows are sound and
their ids contiguous, the tasks of an array have one request, the running rows fit
the host, exclusive jobs run alone, ids are disjoint and no more than the request of
the row that holds them, what runs with GPUs is in a GPU partition (`GpusPlaced`), array limits, singletons and dependencies. Each action is
one of two kinds. A *quiet* update starts nothing and revives nothing
(`QuietKeeps`, `RowKeeps`, `InsertKeeps`): the set of running rows can only shrink
and terminal rows stay, so every part of `Good` is kept at once. The others start
one job that was admitted (`StartKeeps`, `StartJobKeeps`), where each part of `Good`
follows from the guard that the code checks for it. Sums over rows are cardinalities
of sets of slots, of which `SlotsBound` says that adding a job's slots stays within
the host; `IdsWithinSlots` injects the ids in use into the GPU slots, and
`AllocateBound` (the ids of least rank) with `EnoughIds` gives the free ids their
number. `IInv` adds to `TypeOK` and `Good` what the daemon holds while it waits out a
grace period. For the priority, a job outside arrays is a group of its own and read in
the first round (`AloneInGroup`), and whatever else is read in that round is the best
of its group (`FirstOfGroup`), so a better job is always ahead (`BetterPrecedes`).

### Reports

From the scheduler's assumptions and its `IInv`: the reports are functions of the table.

- `SinfoIsAdmission`: `Spec => []SinfoAddsUp`, for any lists of partitions. A sum over the
  places of the list is a sum over rows, as each row is in one place (`PlacesApart`,
  `FiguresAddUp` with a bijection between the two sets of slots, `NodeAddsUp`); the rows of
  configured partitions and the others make up the table (`AstraySplits`), and those others
  hold no GPU (`AstrayHoldsNoGpu`, from `GpusPlaced`). `IdsShown` is about the ids.
- `AllocIsTrue`: `AllAskForCpus => (Spec => []AllocMeansFull)`. The hypothesis is that
  every request has a CPU; `-c 0` is accepted, and such a job fits a full host.
- `EstimatesAreNow`: `Spec => []EstimateNeverLate`. What is listed ahead of a job is
  part of what runs and waits ahead, so it uses less (`SumGrows`, `LessIsFree`).
- `QueueOrdered`: `Spec => []QueueInOrder`, for any table: a set can be sorted and an
  element's place is the number of those before it (`CanBeSorted`, `SortedPlaces`); so
  the groups are read off (`GroupIs`, `TopsAre`), a turn takes exactly the jobs of one
  `Round` (`TurnIs`), and the turns together are the order (`LoopIsInOrder`).

### Foreground

From: group ids are positive integers, and requests are allocations of one row that
are not requeued (`salloc` and `srun` send no others).

- `TypeCorrect`: `Spec => []TypeOK`; `ReportIsFinal`: `Spec => []ReportStands`;
  `CompletedIsTrue`: `Spec => []CompletedReturnedZero`; `EndedStaysEnded`: `Spec =>
  EndedNeverRunsAgain`.

A client and the daemon write the same rows, so the invariant says who may still
write. A client writes only the rows it owns, and these are no other's (`Apart`);
what it holds follows from where it is (`ClientInv`). The daemon writes rows it tracks,
with the group it recorded (`TrackInv`), the row it is ending, which it no longer tracks
(`ThreadInv`), and in recovery those that are RUNNING. A reported row is none of these
and shows the report (`ReportInv`).

### Submission

- `TypeCorrect`: `Spec => []TypeOK`; `AnsweredMeansComplete`: `Spec =>
  []AnsweredIsComplete`; `WaitTellsTheTruth`: `Spec => []WaitIsHonest`.

While a submission is inserted, the table ends with its rows, and the tasks left are
as many as the rows that are missing (`Growing` in `InsertInv`, `PathsInv`, `LinkInv`);
when none is left the rows are `Complete`, and nothing afterwards touches what makes
them so (`PassInv`, `AnsweredInv`). `ArrayInv` says that `array_job_id` names the first of
the rows of one submission, which is why `--wait` polls all of its tasks and no others.
`WaitInv` and `CodeInv` say what it has seen. That `parse_array_segment`'s loop collects
`first + k * step` is `SegmentClosed`: the set `Steps` satisfies the loop's recursion,
and two functions that do agree everywhere, by a least counterexample.
`SubmissionAssumption` excludes segments whose loop would pass the largest i32, and
gives every batch request as many tasks as its specification names.

### Output

From: runs are numbered from 1 and are not steps, and jobs have the fields of
`JobOption`.

- `TypeCorrect`: `Spec => []TypeOK`; `StatusIsOfAllTasks`: `Spec => []StatusOfAllTasks`;
  `JobOutputIsKept`: `Spec => []JobOutputKept`; `StepOutputIsKept`: `Spec =>
  []StepOutputKept`.

The invariant follows a line. `Way` and `OnWay` are about the four places a line passes
through, file, forwarder's buffer, socket pair and `sed`: every line printed so far is
in one of them, and no line of a task is behind a later one of that task. There is one
lemma for every move from a place to the next (`WayPush`, `WayPop`, `WayForward`, ...), and
`FlowInv` states it for every stream that nobody else writes to, as long as its
forwarder has not failed. It needs that such a stream is written at the end of its
file (`OffsetInv`), which needs that a run that was alone when it began still is
(`AloneInv`), and that a forwarder that ended left nothing behind (`ThreadInv`,
`ClientInv`). `StatusInv` is the launcher's loop: its status is that of the ranks
waited for so far.

### Requests

From: the inputs are well typed, and there is a partition for CPUs (`env_partition_list`
never yields none).

- `FeaturesAreThere`: `Spec => []ConstraintHolds`; `LimitIsShown`: `Spec =>
  []LimitReadsBack`, for any word `MaxWord`. `RowInv`: limits are words, and the constraint
  was compared with the partition that is in the row.
- `StrongestWins`: `Spec => []StrongestSourceWins`. The code reads line by line and lets
  each line overwrite; `SourceInv` says that what was read so far is what the tokens of
  all these lines in one row say (`JoinedLines`), and at the end of the header these are
  the tokens of the script that the property speaks of (`HeaderIs`).
- `BeginIsKept`: `Spec => []BeginIsAsAsked`. The dates that are accepted are those of the
  calendar (`AcceptedIsReal`); the code's truncating division with its correction rounds
  down (`EraRoundsDown`), so its days are those counted year by year (`CountsAgree`), and its
  inverse finds the year and the month again (`YearComesBack`, `MonthOfDay`, together
  `DateReadsBack`). This is for all years, where the run has ten.

### What is only model-checked

Liveness under fairness, which is out of the prover's reach: `EligibleStarts`,
`DeathIsNoticed`, `TerminationEnds`, `DeadIsCleaned`, `WaitEnds`, `StepsReport`; and the
four runs that show a disagreement. The library's induction theorems take an operator as
a parameter, which the installed provers cannot instantiate: where an induction was
needed, the claim was put as a set of numbers and its least or largest element taken.
`MemMb` is neither a property nor a theorem's subject.

## 6. Not modelled, and what is left

Not modelled: text output and argument parsing (no state), IPC framing, environments
(`--export`), warning-signal specifications and output patterns (text to text), CPU
affinity and cgroup limits themselves (the kernel's), what is read from the host at
start (the constants), `max_rss_kb` and other displayed columns, several users, a
second daemon on one table, a reboot that reuses process group ids, a clock that is
set back, and a configuration that changes at a restart.

Left, in the order of their worth:

1. **Abstract specifications** of Submission (a submission is there as a whole or not
   at all, once it was answered) and of Foreground (a client's allocation, as Lifecycle
   is for a batch job), with their refinement proved as `Implements` is.
2. **Memory sizes**: `MemMb` rounds up and saturates; that what is stored is never less
   than what was asked for is a lemma about it that no property states yet.
3. **A larger `SubmissionAssumption`**: segments whose loop passes the largest i32.
