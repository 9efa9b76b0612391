------------------------------ MODULE Runtime ------------------------------
(***************************************************************************)
(* The life of batch jobs between slotd's daemon, the jobs table and the   *)
(* operating system (src/runtime/): launch, the loop that enforces time    *)
(* limits, reaps children and reconciles adopted groups, cancellation with *)
(* its grace period, notification, and recovery after a restart.           *)
(*                                                                         *)
(* One action is one step of the daemon's only thread that something else  *)
(* can come between: a process may exit, a deadline pass or the daemon die *)
(* after any of them.  Which pending job a pass may start is the subject   *)
(* of module Scheduler; here it is any.                                    *)
(***************************************************************************)
EXTENDS Store

CONSTANTS
    UseCgroup,   \* SLOTD_CGROUP_BASE is set
    MaxFaults    \* bound on crashes of the daemon and cgroup directories
                 \* that cannot be set up, together

ASSUME RuntimeAssumption ==
    /\ Groups \subseteq Nat \ {0}   \* process group ids
    /\ UseCgroup \in BOOLEAN
    /\ MaxFaults \in Nat
    /\ \A r \in Requests : ~r.alloc /\ r.tasks = 0   \* batch jobs, one row each

VARIABLES
    jobs,        \* the jobs table
    runner,      \* Runner.jobs
    daemon,      \* where the daemon's thread is
    proc,        \* the process groups of the host
    oom,         \* memory.events of each job's cgroup shows an oom kill
    clock,       \* the time of each job, against its time limit
    notified,    \* how often the notification command ran for each job
    acked,       \* jobs whose cancellation was answered with Cancelled
    crashes, failures

vars == <<jobs, runner, daemon, proc, oom, clock, notified, acked,
          crashes, failures>>

host == <<proc, oom, clock>>
log == <<notified, acked, crashes, failures>>

----------------------------------------------------------------------------
NotTracked == [handle |-> "none", group |-> NoGroup, warned |-> FALSE]
TrackedRecord == [handle : {"child", "adopted"}, group : Groups, warned : BOOLEAN]
Tracked == {j \in JobId : runner[j].handle # "none"}

(***************************************************************************)
(* The leader of a group is the wrapper script runner.sh; `rest` says      *)
(* whether other processes of the group are alive.  `code` is what the     *)
(* job's script returned.  A dead leader is a "zombie" (or "signalled",    *)
(* when a signal ended it) until its parent reaps it: the daemon that      *)
(* spawned it, or, once that daemon is gone, init, which does so at once.  *)
(* `marked`: mark_running recorded the group.                              *)
(***************************************************************************)
NoProc == [job |-> 0, leader |-> "gone", code |-> "none", rest |-> FALSE,
           killed |-> FALSE, child |-> FALSE, marked |-> FALSE]
Proc == [job : {0} \cup JobId,
         leader : {"running", "zombie", "signalled", "gone"},
         code : {"none", "ok", "fail"}, rest : BOOLEAN,
         killed : BOOLEAN, child : BOOLEAN, marked : BOOLEAN]

LeaderLives(g) == proc[g].leader = "running"
LeaderReapable(g) == proc[g].leader \in {"zombie", "signalled"}
Live(g) == LeaderLives(g) \/ proc[g].rest

(* process_group_alive: kill(-pgid, 0) finds zombies too *)
GroupAlive(g) == proc[g].leader # "gone" \/ proc[g].rest

(* the daemon goes to pc; todo: the jobs it has yet to look at there *)
GotoWith(pc, todo) ==
    [pc |-> pc, todo |-> todo, job |-> 0, group |-> NoGroup,
     handle |-> "none", final |-> "none", next |-> "requests"]
Goto(pc) == GotoWith(pc, {})

AtRest == Goto("requests")   \* between two loops or requests
Down == Goto("down")

Phase == {"down", "recover", "requests", "requestPass", "timeouts", "warnings",
          "poll", "reconcile", "pass", "launch", "grace", "kill", "notify"}
Daemon == [pc : Phase, todo : SUBSET JobId, job : {0} \cup JobId,
           group : Groups \cup {NoGroup}, handle : {"none", "child", "adopted"},
           final : Terminal \cup {"none"}, next : Phase]

TypeOK ==
    /\ jobs \in Table
    /\ runner \in [JobId -> TrackedRecord \cup {NotTracked}]
    /\ daemon \in Daemon
    /\ proc \in [Groups -> Proc]
    /\ oom \in [JobId -> BOOLEAN]
    /\ clock \in [JobId -> {"early", "warn", "over"}]
    /\ notified \in [JobId -> Nat]
    /\ acked \subseteq JobId
    /\ crashes \in 0 .. MaxFaults
    /\ failures \in 0 .. MaxFaults

Init ==
    /\ jobs = EmptyTable
    /\ runner = [j \in JobId |-> NotTracked]
    /\ daemon = AtRest
    /\ proc = [g \in Groups |-> NoProc]
    /\ oom = [j \in JobId |-> FALSE]
    /\ clock = [j \in JobId |-> "early"]
    /\ notified = [j \in JobId |-> 0]
    /\ acked = {}
    /\ crashes = 0
    /\ failures = 0

----------------------------------------------------------------------------
(* The operating system *)

DeadLeader(g, how) == IF proc[g].child THEN how ELSE "gone"

(* the script has returned and the wrapper exits with its code *)
LeaderReturns(g, code) ==
    /\ LeaderLives(g)
    /\ proc' = [proc EXCEPT ![g] = [@ EXCEPT !.leader = DeadLeader(g, "zombie"), !.code = code]]
    /\ UNCHANGED <<jobs, runner, daemon, oom, clock, log>>

(* a signal ends the wrapper: the daemon's SIGTERM or SIGKILL, scancel     *)
(* --signal, the kernel, an administrator                                  *)
LeaderDies(g) ==
    /\ LeaderLives(g)
    /\ proc' = [proc EXCEPT ![g] = [@ EXCEPT !.leader = DeadLeader(g, "signalled")]]
    /\ UNCHANGED <<jobs, runner, daemon, oom, clock, log>>

(* the other processes of the group end, before or after the leader *)
RestExits(g) ==
    /\ proc[g].rest
    /\ proc' = [proc EXCEPT ![g].rest = FALSE]
    /\ UNCHANGED <<jobs, runner, daemon, oom, clock, log>>

(* SIGKILL takes effect on the whole group *)
KilledDies(g) ==
    /\ proc[g].killed /\ Live(g)
    /\ proc' = [proc EXCEPT ![g] = [@ EXCEPT
                   !.rest = FALSE,
                   !.leader = IF LeaderLives(g) THEN DeadLeader(g, "signalled")
                                                  ELSE proc[g].leader]]
    /\ UNCHANGED <<jobs, runner, daemon, oom, clock, log>>

OomEvent(j) ==
    /\ UseCgroup /\ ~oom[j]
    /\ \E g \in Groups : proc[g].job = j /\ Live(g)
    /\ oom' = [oom EXCEPT ![j] = TRUE]
    /\ UNCHANGED <<jobs, runner, daemon, proc, clock, log>>

TimePasses(j) ==
    /\ jobs[j].state = "RUNNING" /\ jobs[j].req.limited
    /\ clock[j] # "over"
    /\ clock' = [clock EXCEPT ![j] =
                   IF @ = "early" /\ jobs[j].req.warn THEN "warn" ELSE "over"]
    /\ UNCHANGED <<jobs, runner, daemon, proc, oom, log>>

----------------------------------------------------------------------------
(* Launching *)

(* process group ids grow *)
IsNextGroup(g) ==
    /\ proc[g].job = 0
    /\ \A h \in Groups : h < g => proc[h].job # 0

(* launch_running_job up to command.spawn() *)
LaunchSpawn(j, g) ==
    /\ daemon.pc \in {"pass", "requestPass"}
    /\ j \in Pending(jobs) /\ ~jobs[j].held
    /\ IsNextGroup(g)
    /\ proc' = [proc EXCEPT ![g] = [NoProc EXCEPT !.job = j, !.leader = "running",
                                        !.rest = TRUE, !.child = TRUE]]
    /\ daemon' = [daemon EXCEPT !.pc = "launch", !.job = j, !.group = g,
                                !.next = daemon.pc]
    /\ UNCHANGED <<jobs, runner, oom, clock, log>>

(* its end: mark_running, and the insertion into runner.jobs *)
LaunchMark ==
    /\ daemon.pc = "launch"
    /\ jobs' = MarkRunning(jobs, daemon.job, daemon.group, {})
    /\ runner' = [runner EXCEPT ![daemon.job] =
                    [handle |-> "child", group |-> daemon.group, warned |-> FALSE]]
    /\ proc' = [proc EXCEPT ![daemon.group].marked = TRUE]
    /\ clock' = [clock EXCEPT ![daemon.job] = "early"]
    /\ daemon' = Goto(daemon.next)
    /\ UNCHANGED <<oom, log>>

(* The cgroup cannot be set up: the Child is dropped and its process runs  *)
(* on.  The client of a request gets an error; in the daemon's own loop    *)
(* the error ends the daemon.                                              *)
Orphaned == [g \in Groups |->
                [proc[g] EXCEPT !.child = FALSE,
                                !.leader = IF LeaderReapable(g) THEN "gone" ELSE @]]

LaunchFails ==
    /\ daemon.pc = "launch"
    /\ UseCgroup /\ crashes + failures < MaxFaults
    /\ failures' = failures + 1
    /\ IF daemon.next = "requestPass"
       THEN /\ daemon' = AtRest
            /\ UNCHANGED <<runner, proc>>
       ELSE /\ daemon' = Down
            /\ runner' = [j \in JobId |-> NotTracked]
            /\ proc' = Orphaned
    /\ UNCHANGED <<jobs, oom, clock, notified, acked, crashes>>

(* the pass ends when no further job may start *)
PassEnd ==
    /\ daemon.pc \in {"pass", "requestPass"}
    /\ daemon' = AtRest
    /\ UNCHANGED <<jobs, runner, host, log>>

----------------------------------------------------------------------------
(* Requests *)

SubmitBatch(j, r) ==
    /\ daemon.pc = "requests"
    /\ IsNextId(jobs, j)
    /\ jobs' = CreateJob(jobs, j, r)
    /\ daemon' = Goto("requestPass")
    /\ UNCHANGED <<runner, host, log>>

(* scancel: cancel_pending_job comes first *)
CancelWaiting(j) ==
    /\ daemon.pc = "requests"
    /\ jobs[j].state = "PENDING"
    /\ jobs' = CancelPending(jobs, j)
    /\ acked' = acked \cup {j}
    /\ UNCHANGED <<runner, daemon, host, notified, crashes, failures>>

(* terminate_running_job, up to the signal: the job leaves the runner *)
Terminate(j, final, todo) ==
    /\ jobs' = MarkState(jobs, j, "COMPLETING")
    /\ runner' = [runner EXCEPT ![j] = NotTracked]
    /\ daemon' = [daemon EXCEPT !.pc = "grace", !.job = j, !.group = runner[j].group,
                                !.handle = runner[j].handle, !.final = final,
                                !.todo = todo, !.next = daemon.pc]
    /\ UNCHANGED <<host, log>>

CancelTracked(j) ==
    /\ daemon.pc = "requests"
    /\ jobs[j].state # "PENDING" /\ j \in Tracked
    /\ Terminate(j, "CANCELLED", daemon.todo)

(* scontrol update TimeLimit, of a job that has not ended: the deadline    *)
(* may move either way                                                     *)
UpdateTimeLimit(j, c) ==
    /\ daemon.pc = "requests"
    /\ jobs[j].state = "RUNNING" /\ jobs[j].req.limited
    /\ c # "warn" \/ jobs[j].req.warn
    /\ clock' = [clock EXCEPT ![j] = c]
    /\ daemon' = Goto("requestPass")
    /\ UNCHANGED <<jobs, runner, proc, oom, log>>

----------------------------------------------------------------------------
(* Ending a job *)

(* the daemon has slept through cancel_grace_secs: a child that has exited *)
(* is reaped, anything else that is alive gets SIGKILL                     *)
Reap(p) == [p EXCEPT !.leader = "gone"]

EndJob(final) ==
    LET actual == IF oom[daemon.job] THEN "OUT_OF_MEMORY" ELSE final
    IN  /\ jobs' = MarkFinished(jobs, daemon.job, actual)
        /\ daemon' = [daemon EXCEPT !.pc = "notify"]

\* mutant: nothing is killed after the grace period
GraceEndsWithoutKill ==
    /\ daemon.pc = "grace"
    /\ daemon' = [daemon EXCEPT !.pc = "kill"]
    /\ UNCHANGED <<jobs, proc, runner, oom, clock, log>>

GraceEnds ==
    /\ daemon.pc = "grace"
    /\ \/ /\ daemon.handle = "child" /\ LeaderReapable(daemon.group)
          /\ proc' = [proc EXCEPT ![daemon.group] = Reap(@)]
          /\ EndJob(daemon.final)
       \/ /\ daemon.handle = "adopted" /\ ~GroupAlive(daemon.group)
          /\ EndJob(daemon.final)
          /\ UNCHANGED proc
       \/ /\ IF daemon.handle = "child"
             THEN ~LeaderReapable(daemon.group)
             ELSE GroupAlive(daemon.group)
          /\ proc' = [proc EXCEPT ![daemon.group].killed = TRUE]
          /\ daemon' = [daemon EXCEPT !.pc = "kill"]
          /\ UNCHANGED jobs
    /\ UNCHANGED <<runner, oom, clock, log>>

(* child.wait() waits for the leader as long as it takes;                  *)
(* wait_for_group_exit gives up after the grace period                     *)
KillEnds ==
    /\ daemon.pc = "kill"
    /\ \/ /\ daemon.handle = "child" /\ LeaderReapable(daemon.group)
          /\ proc' = [proc EXCEPT ![daemon.group] = Reap(@)]
       \/ daemon.handle = "adopted" /\ UNCHANGED proc
    /\ EndJob(daemon.final)
    /\ UNCHANGED <<runner, oom, clock, log>>

(* remove_dir succeeds when no process is left in the cgroup *)
CgroupAfterCleanup(j) ==
    IF \E g \in Groups : proc[g].job = j /\ Live(g)
    THEN oom
    ELSE [oom EXCEPT ![j] = FALSE]

\* mutant: a requeued job is reported too
NotifyAlways ==
    /\ daemon.pc = "notify"
    /\ notified' = [notified EXCEPT ![daemon.job] = @ + 1]
    /\ oom' = IF daemon.next = "recover" THEN oom ELSE CgroupAfterCleanup(daemon.job)
    /\ acked' = IF daemon.next = "requests" THEN acked \cup {daemon.job} ELSE acked
    /\ daemon' = GotoWith(daemon.next, daemon.todo)
    /\ UNCHANGED <<jobs, runner, proc, clock, crashes, failures>>

(* notify_job, cleanup_cgroup (recover does not call it), and the answer   *)
(* to scancel                                                              *)
Notify ==
    /\ daemon.pc = "notify"
    /\ notified' = IF jobs[daemon.job].state \in Terminal
                   THEN [notified EXCEPT ![daemon.job] = @ + 1]
                   ELSE notified
    /\ oom' = IF daemon.next = "recover" THEN oom ELSE CgroupAfterCleanup(daemon.job)
    /\ acked' = IF daemon.next = "requests" THEN acked \cup {daemon.job} ELSE acked
    /\ daemon' = GotoWith(daemon.next, daemon.todo)
    /\ UNCHANGED <<jobs, runner, proc, clock, crashes, failures>>

----------------------------------------------------------------------------
(* The loop *)

(* handle_requests finds nobody waiting; timed_out_jobs reads the clock.   *)
(* The parts of the loop body before the pass are loops over the jobs that *)
(* are tracked: with none they are over at once.                           *)
RequestsEnd ==
    /\ daemon.pc = "requests"
    /\ daemon' = IF Tracked = {} THEN Goto("pass")
                 ELSE GotoWith("timeouts",
                        {j \in Tracked : jobs[j].state = "RUNNING" /\ jobs[j].req.limited
                                             /\ clock[j] = "over"})
    /\ UNCHANGED <<jobs, runner, host, log>>

TimeOut(j) ==
    /\ daemon.pc = "timeouts"
    /\ j \in daemon.todo
    /\ Terminate(j, "TIMEOUT", daemon.todo \ {j})

(* the next part of the loop body begins with the jobs tracked by then *)
NextPart ==
    /\ daemon.todo = {}
    /\ \/ /\ daemon.pc = "timeouts"
          /\ daemon' = GotoWith("warnings", {j \in Tracked : ~runner[j].warned})
       \/ daemon.pc = "warnings" /\ daemon' = GotoWith("poll", Tracked)
       \/ daemon.pc = "poll" /\ daemon' = GotoWith("reconcile", Tracked)
       \/ daemon.pc = "reconcile" /\ daemon' = Goto("pass")
       \/ daemon.pc = "recover" /\ daemon' = AtRest
    /\ UNCHANGED <<jobs, runner, host, log>>

(* the signal itself is one of the causes of LeaderDies *)
Warn(j) ==
    /\ daemon.pc = "warnings"
    /\ j \in daemon.todo
    /\ runner' = [runner EXCEPT ![j].warned =
                    jobs[j].req.limited /\ jobs[j].req.warn /\ clock[j] = "warn"]
    /\ daemon' = [daemon EXCEPT !.todo = @ \ {j}]
    /\ UNCHANGED <<jobs, host, log>>

(* mark_finished within poll, reconcile_adopted and recover.  The first    *)
(* two forget the job when they have looked at all of them; nothing reads  *)
(* it in between, so the actions below forget it with its record.          *)
Record(j, final) ==
    /\ jobs' = MarkFinished(jobs, j, final)
    /\ daemon' = [daemon EXCEPT !.pc = "notify", !.job = j, !.todo = @ \ {j},
                                !.next = daemon.pc]

Skip(j) ==
    /\ daemon' = [daemon EXCEPT !.todo = @ \ {j}]
    /\ UNCHANGED <<jobs, runner>>

\* mutant: a reaped job is not forgotten
PollWithoutForgetting(j) ==
    /\ daemon.pc = "poll"
    /\ j \in daemon.todo
    /\ IF runner[j].handle = "child" /\ LeaderReapable(runner[j].group)
       THEN /\ Record(j, IF oom[j] THEN "OUT_OF_MEMORY" ELSE "COMPLETED")
            /\ proc' = [proc EXCEPT ![runner[j].group] = Reap(@)]
            /\ UNCHANGED runner
       ELSE Skip(j) /\ UNCHANGED proc
    /\ UNCHANGED <<oom, clock, log>>

Poll(j) ==
    /\ daemon.pc = "poll"
    /\ j \in daemon.todo
    /\ LET g == runner[j].group
       IN  IF runner[j].handle = "child" /\ LeaderReapable(g)
           THEN /\ Record(j, IF oom[j] THEN "OUT_OF_MEMORY"
                             ELSE IF proc[g].leader = "zombie" /\ proc[g].code = "ok"
                             THEN "COMPLETED" ELSE "FAILED")
                /\ proc' = [proc EXCEPT ![g] = Reap(@)]
                /\ runner' = [runner EXCEPT ![j] = NotTracked]
           ELSE Skip(j) /\ UNCHANGED proc
    /\ UNCHANGED <<oom, clock, log>>

(* What the exit_status file of a job's directory says.  The wrapper is    *)
(* the text of build_multitask_launcher, which ends in `exit`, followed by *)
(* the printf that was to write the file: no run ever reaches it.          *)
StatusFile(j) == "none"

\* mutants: a missing file read as 0; a state of its own for it
FileStateDefaultOk(j) == IF StatusFile(j) = "fail" THEN "FAILED" ELSE "COMPLETED"
FileStateUnknown(j) ==
    CASE StatusFile(j) = "ok"   -> "COMPLETED"
      [] StatusFile(j) = "fail" -> "FAILED"
      [] StatusFile(j) = "none" -> "UNKNOWN"

(* a job without the file is lost: LostAfterRestart *)
FileState(j) == IF StatusFile(j) = "ok" THEN "COMPLETED" ELSE "FAILED"

\* mutant: an adopted job that left no file is waited for
ReconcileWithFile(j) ==
    /\ daemon.pc = "reconcile"
    /\ j \in daemon.todo
    /\ IF /\ runner[j].handle = "adopted" /\ ~GroupAlive(runner[j].group)
          /\ StatusFile(j) # "none"
       THEN /\ Record(j, FileState(j))
            /\ runner' = [runner EXCEPT ![j] = NotTracked]
       ELSE Skip(j)
    /\ UNCHANGED <<host, log>>

(* reconcile_adopted with recovered_terminal_state *)
Reconcile(j) ==
    /\ daemon.pc = "reconcile"
    /\ j \in daemon.todo
    /\ IF runner[j].handle = "adopted" /\ ~GroupAlive(runner[j].group)
       THEN /\ Record(j, IF oom[j] THEN "OUT_OF_MEMORY" ELSE FileState(j))
            /\ runner' = [runner EXCEPT ![j] = NotTracked]
       ELSE Skip(j)
    /\ UNCHANGED <<host, log>>

----------------------------------------------------------------------------
(* Crash and recovery *)

Crash ==
    /\ daemon.pc # "down"
    /\ crashes + failures < MaxFaults
    /\ crashes' = crashes + 1
    /\ daemon' = Down
    /\ runner' = [j \in JobId |-> NotTracked]
    /\ proc' = Orphaned
    /\ UNCHANGED <<jobs, oom, clock, notified, acked, failures>>

\* mutant: a daemon that starts without recover
RestartOnly ==
    /\ daemon.pc = "down"
    /\ daemon' = AtRest
    /\ UNCHANGED <<jobs, runner, host, log>>

(* recover looks at the RUNNING rows, in the order of their ids *)
Restart ==
    /\ daemon.pc = "down"
    /\ daemon' = GotoWith("recover", Running(jobs))
    /\ UNCHANGED <<jobs, runner, host, log>>

\* mutant: every RUNNING row of the last daemon is lost
RecoverNothing(j) ==
    /\ daemon.pc = "recover"
    /\ j \in daemon.todo
    /\ Record(j, "FAILED")
    /\ UNCHANGED <<runner, host, log>>

Recover(j) ==
    /\ daemon.pc = "recover"
    /\ j \in daemon.todo /\ \A i \in daemon.todo : j <= i
    /\ IF jobs[j].group # NoGroup /\ GroupAlive(jobs[j].group)
       THEN /\ runner' = [runner EXCEPT ![j] =
                            [handle |-> "adopted", group |-> jobs[j].group, warned |-> FALSE]]
            /\ daemon' = [daemon EXCEPT !.todo = @ \ {j}]
            /\ UNCHANGED jobs
       ELSE /\ Record(j, IF jobs[j].group = NoGroup THEN "FAILED" ELSE FileState(j))
            /\ UNCHANGED runner
    /\ UNCHANGED <<host, log>>

----------------------------------------------------------------------------
Host ==
    \/ \E g \in Groups :
          \/ \E code \in {"ok", "fail"} : LeaderReturns(g, code)
          \/ LeaderDies(g) \/ RestExits(g) \/ KilledDies(g)
    \/ \E j \in JobId : OomEvent(j) \/ TimePasses(j)

ClientRequest ==
    \E j \in JobId :
        \/ \E r \in Requests : SubmitBatch(j, r)
        \/ CancelWaiting(j) \/ CancelTracked(j)
        \/ \E c \in {"early", "warn", "over"} : UpdateTimeLimit(j, c)

Launch == (\E j \in JobId, g \in Groups : LaunchSpawn(j, g)) \/ LaunchMark

Loop ==
    \/ Launch \/ PassEnd \/ GraceEnds \/ KillEnds \/ Notify \/ NextPart
    \/ \E j \in JobId : TimeOut(j) \/ Warn(j) \/ Poll(j) \/ Reconcile(j) \/ Recover(j)

Next ==
    \/ Host \/ ClientRequest \/ Loop \/ RequestsEnd
    \/ LaunchFails \/ Crash \/ Restart

Spec == Init /\ [][Next]_vars

(***************************************************************************)
(* The daemon's thread keeps running and leaves handle_requests now and    *)
(* then (strong fairness: a request takes it elsewhere for a while), the   *)
(* service manager restarts it, and the kernel ends what was killed.       *)
(* Nothing else owes anything: a script may run for ever.                  *)
(***************************************************************************)
Fairness ==
    /\ WF_vars(Loop)
    /\ SF_vars(RequestsEnd)
    /\ WF_vars(Restart)
    /\ \A g \in Groups : WF_vars(KilledDies(g))

FairSpec == Spec /\ Fairness

----------------------------------------------------------------------------
(* Properties *)

Recovering == daemon.pc = "recover" \/ daemon.next = "recover"
Serving == daemon.pc # "down" /\ ~Recovering

(* Runner.jobs and the table tell the same story: a tracked job is RUNNING *)
(* with the group that is tracked, and while the daemon serves no RUNNING  *)
(* job is left unattended, whatever crash came before.                     *)
RunnerMatchesTable ==
    /\ \A j \in Tracked :
          jobs[j].state = "RUNNING" /\ jobs[j].group = runner[j].group
    /\ \A j \in Running(jobs) :
          /\ Serving => j \in Tracked
          /\ Recovering => j \in Tracked \cup daemon.todo

(* A terminal state of a batch job is never left, by no crash, restart,    *)
(* late exit, time limit or second scancel.                                *)
TerminalIsFinal ==
    [][\A j \in JobId :
          jobs[j].state \in Terminal => jobs'[j].state = jobs[j].state]_vars

(* Two runs of a job never overlap: when a second group is recorded for a  *)
(* job (a requeue), the leader of the first is dead or has been killed.    *)
RunsDoNotOverlap ==
    \A g, h \in Groups :
        /\ g # h /\ proc[g].job = proc[h].job
        /\ proc[g].marked /\ proc[h].marked
        /\ LeaderLives(g) /\ LeaderLives(h)
        => proc[g].killed \/ proc[h].killed

(* A job runs once, and once more when it was submitted with --requeue:    *)
(* its recorded runs, and the one it still waits for, are no more.         *)
RecordedRuns(j) == {g \in Groups : proc[g].job = j /\ proc[g].marked}
RunsBounded ==
    \A j \in Rows(jobs) :
        Cardinality(RecordedRuns(j)) + (IF jobs[j].state = "PENDING" THEN 1 ELSE 0)
            <= IF jobs[j].req.requeue THEN 2 ELSE 1

(* COMPLETED is honest: the run that is recorded for the job returned 0,   *)
(* whether it is the only one, a second one after a requeue, or one beside *)
(* a process that a failed launch or a crash orphaned.                     *)
CompletedIsHonest ==
    \A j \in InState(jobs, {"COMPLETED"}) : proc[jobs[j].group].code = "ok"

(* A job that started is reported exactly once when it ends, unless the    *)
(* daemon crashed; and never twice.                                        *)
NotifiedOnce ==
    \A j \in Rows(jobs) :
        /\ notified[j] <= 1
        /\ crashes = 0 /\ daemon.pc = "requests" /\ jobs[j].started
              /\ jobs[j].state \in Terminal
           => notified[j] = 1

(* A cancellation that was answered with Cancelled stays: the job is not   *)
(* requeued, restarted or recorded otherwise.                              *)
CancelSticks == \A j \in acked : jobs[j].state = "CANCELLED"

(* A RUNNING job whose processes are all dead does not stay RUNNING,       *)
(* whether the daemon saw them die or was down or replaced meanwhile.      *)
AllDead(j) ==
    /\ jobs[j].state = "RUNNING"
    /\ ~Live(jobs[j].group)
DeathIsNoticed == \A j \in JobId : AllDead(j) ~> jobs[j].state # "RUNNING"

(* A job that the daemon is stopping (COMPLETING, through the grace period *)
(* and the wait for its child) leaves that state unless the daemon dies on *)
(* the way: terminate_running_job never blocks the daemon's only thread    *)
(* for good, whatever ignores its SIGTERM.                                 *)
Stopping(j) == jobs[j].state = "COMPLETING" /\ daemon.job = j
TerminationEnds ==
    \A j \in JobId :
        Stopping(j) ~> (jobs[j].state # "COMPLETING" \/ daemon.pc = "down")

(* Every behaviour of the runtime is one of the abstract life cycle.       *)
LifeOf(row) ==
    IF row.state = "NONE"
    THEN [state |-> "NONE", requeue |-> FALSE]
    ELSE [state |-> row.state, requeue |-> row.req.requeue /\ row.requeues = 0]

LifeTable == [j \in JobId |-> LifeOf(jobs[j])]

L == INSTANCE Lifecycle WITH Jobs <- JobId, life <- LifeTable

ImplementsLifecycle == L!Spec

(* "if cgroup setup fails after explicit configuration, launch fails       *)
(* instead of silently skipping enforcement" (docs-site runtime-model): no *)
(* process of a failed launch runs on while the daemon serves requests.    *)
FailedLaunchRunsNothing ==
    crashes = 0 /\ daemon.pc = "requests" =>
        \A g \in Groups : LeaderLives(g) => proc[g].marked

(* "`lib/jobs/<job_id>/exit_status`: wrapper exit status" (docs-site       *)
(* runtime-model), which recover and reconcile_adopted read to learn how a *)
(* run ended that they were not there to reap: a job whose only run        *)
(* returned 0 is not recorded FAILED.                                      *)
OnlyRun(j) == \A g \in Groups : proc[g].job = j => g = jobs[j].group
ReturnedZeroIsNotFailed ==
    \A j \in InState(jobs, {"FAILED"}) :
        jobs[j].group # NoGroup /\ OnlyRun(j) => proc[jobs[j].group].code # "ok"
=============================================================================
