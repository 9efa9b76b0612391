----------------------------- MODULE Foreground -----------------------------
(***************************************************************************)
(* The commands that run in the foreground (src/runtime/foreground/ and    *)
(* src/command/submit/): salloc, srun, and srun inside an allocation.      *)
(*                                                                         *)
(* Their processes belong to the client, not to the daemon: the client     *)
(* asks for an allocation, waits until its row is RUNNING, spawns the      *)
(* command, tells the daemon which group to watch (AdoptAllocation), waits *)
(* for its child and reports the end (FinishAllocation).  Between any two  *)
(* of its requests the daemon may cancel the allocation, stop it for its   *)
(* time limit, find its group gone, or die and come back; and the client   *)
(* may be killed.                                                          *)
(*                                                                         *)
(* The daemon answers requests only between two rounds of its loop, so a   *)
(* request is one action that needs daemon = "requests".  Who may get an   *)
(* allocation is the subject of module Scheduler; here it is anyone.       *)
(***************************************************************************)
EXTENDS Store

CONSTANTS
    Clients,     \* runs of salloc and srun
    NoJob,       \* no job terminates
    MaxCrashes   \* bound on crashes of the daemon

ASSUME ForegroundAssumption ==
    /\ Groups \subseteq Nat \ {0}   \* process group ids
    /\ NoJob \notin JobId
    /\ MaxCrashes \in Nat
    /\ \A r \in Requests : r.alloc /\ ~r.requeue /\ r.tasks = 0

VARIABLES
    jobs,     \* the jobs table
    tracked,  \* Runner.jobs: the group tracked for each row, or NoGroup
    daemon,   \* where the daemon's thread is
    ending,   \* the row terminate_running_job works on
    final,    \* and the state it was called with
    client,   \* where each client is, and what it holds
    proc,     \* the commands' process groups
    crashes

vars == <<jobs, tracked, daemon, ending, final, client, proc, crashes>>
thread == <<daemon, ending, final, crashes>>

(***************************************************************************)
(* mode: "salloc" runs its command in an allocation of its own, "srun"     *)
(* also records a step for it, "step" is srun inside the allocation `job`. *)
(***************************************************************************)
Mode == {"salloc", "srun", "step"}
ClientPhase == {"idle", "waiting", "startStep", "launch", "adoptJob", "adoptStep",
                "running", "finishJob", "finishStep", "done", "gone"}
Client == [pc : ClientPhase, mode : Mode, job : {NoJob} \cup JobId,
           step : {NoJob} \cup JobId, group : Groups \cup {NoGroup}]

(* how a command ended: it returned 0, or not, or its cgroup saw an oom    *)
(* kill, whatever it returned                                              *)
Code == {"ok", "fail", "oom"}

NoProc == [state |-> "none", code |-> "none", killed |-> FALSE]
Proc == [state : {"none", "running", "zombie", "gone"},
         code : {"none"} \cup Code, killed : BOOLEAN]

(* process_group_alive: kill(-pgid, 0) finds zombies too *)
GroupAlive(g) == proc[g].state \in {"running", "zombie"}

Tracked == {j \in JobId : tracked[j] # NoGroup}

(* The types of the variables *)
TypeOK ==
    /\ jobs \in Table
    /\ tracked \in [JobId -> Groups \cup {NoGroup}]
    /\ daemon \in {"requests", "tend", "grace", "recover", "down"}
    /\ ending \in {NoJob} \cup JobId
    /\ final \in {"none", "CANCELLED", "TIMEOUT"}
    /\ client \in [Clients -> Client]
    /\ proc \in [Groups -> Proc]
    /\ crashes \in 0 .. MaxCrashes

Init ==
    /\ jobs = EmptyTable
    /\ tracked = [j \in JobId |-> NoGroup]
    /\ daemon = "requests"
    /\ ending = NoJob
    /\ final = "none"
    /\ client = [c \in Clients |-> [pc |-> "idle", mode |-> "salloc", job |-> NoJob,
                                    step |-> NoJob, group |-> NoGroup]]
    /\ proc = [g \in Groups |-> NoProc]
    /\ crashes = 0

Serves == daemon = "requests"
At(c, pc) == client[c].pc = pc
Go(c, pc) == client' = [client EXCEPT ![c].pc = pc]

----------------------------------------------------------------------------
(* The client *)

(* SubmitAlloc: the row is granted on the spot or waits.  (--immediate,    *)
(* when it cannot be granted, inserts nothing.)                            *)
RequestAllocation(c, mode, j, r) ==
    /\ Serves /\ At(c, "idle")
    /\ mode \in {"salloc", "srun"}
    /\ IsNextId(jobs, j)
    /\ LET created == CreateJob(jobs, j, r)
       IN  jobs' \in {created, MarkAllocationRunning(created, j)}
    /\ client' = [client EXCEPT ![c] = [@ EXCEPT !.pc = "waiting", !.mode = mode, !.job = j]]
    /\ UNCHANGED <<tracked, proc, thread>>

(* srun with SLURM_JOB_ID = p: current_allocation_job finds p RUNNING.     *)
(* (When it does not, srun asks for an allocation of its own.)             *)
EnterAllocation(c, p) ==
    /\ Serves /\ At(c, "idle")
    /\ p \in RunningTopLevel(jobs)
    /\ client' = [client EXCEPT ![c] = [@ EXCEPT !.pc = "startStep", !.mode = "step", !.job = p]]
    /\ UNCHANGED <<jobs, tracked, proc, thread>>

(* wait_for_job_running: it asks every 200 ms *)
WaitEnds(c) ==
    /\ Serves /\ At(c, "waiting")
    /\ \/ /\ jobs[client[c].job].state = "RUNNING"
          /\ Go(c, IF client[c].mode = "srun" THEN "startStep" ELSE "launch")
       \/ /\ jobs[client[c].job].state \in Terminal
          /\ Go(c, "gone")
    /\ UNCHANGED <<jobs, tracked, proc, thread>>

(* create_step does not look at the state of the allocation.  The step is  *)
(* named after the command, which is some request's name.                  *)
StartStep(c, j, name) ==
    /\ Serves /\ At(c, "startStep")
    /\ IsNextId(jobs, j)
    /\ jobs' = CreateStep(jobs, j, client[c].job, name)
    /\ client' = [client EXCEPT ![c] = [@ EXCEPT !.pc = "launch", !.step = j]]
    /\ UNCHANGED <<tracked, proc, thread>>

(* process group ids grow *)
IsNextGroup(g) ==
    /\ proc[g].state = "none"
    /\ \A h \in Groups : h < g => proc[h].state # "none"

(* launch_foreground_command and setup_local_cgroup.  When the cgroup      *)
(* cannot be set up the client kills its child and exits: see ClientDies.  *)
Launch(c, g) ==
    /\ At(c, "launch")
    /\ IsNextGroup(g)
    /\ proc' = [proc EXCEPT ![g].state = "running"]
    /\ client' = [client EXCEPT ![c] = [@ EXCEPT
                     !.pc = IF client[c].mode = "step" THEN "adoptStep" ELSE "adoptJob",
                     !.group = g]]
    /\ UNCHANGED <<jobs, tracked, thread>>

(* the row a client's request is about *)
Subject(c) == IF client[c].pc \in {"adoptJob", "finishJob"} THEN client[c].job ELSE client[c].step

\* mutant: the group is recorded and not watched
AdoptUnwatched(c) ==
    /\ Serves /\ client[c].pc \in {"adoptJob", "adoptStep"}
    /\ jobs' = AdoptAllocation(jobs, Subject(c), client[c].group)
    /\ Go(c, IF At(c, "adoptJob") /\ client[c].mode = "srun" THEN "adoptStep" ELSE "running")
    /\ UNCHANGED <<tracked, proc, thread>>

(* AdoptAllocation, first for the allocation, then for the step *)
Adopt(c) ==
    /\ Serves /\ client[c].pc \in {"adoptJob", "adoptStep"}
    /\ jobs' = AdoptAllocation(jobs, Subject(c), client[c].group)
    /\ tracked' = [tracked EXCEPT ![Subject(c)] = client[c].group]
    /\ Go(c, IF At(c, "adoptJob") /\ client[c].mode = "srun" THEN "adoptStep" ELSE "running")
    /\ UNCHANGED <<proc, thread>>

(* child.wait() *)
ChildEnds(c) ==
    /\ At(c, "running")
    /\ proc[client[c].group].state = "zombie"
    /\ proc' = [proc EXCEPT ![client[c].group].state = "gone"]
    /\ Go(c, IF client[c].mode = "step" THEN "finishStep" ELSE "finishJob")
    /\ UNCHANGED <<jobs, tracked, thread>>

(* terminal_state_with_reasons *)
Report(c) ==
    CASE proc[client[c].group].code = "ok"  -> "COMPLETED"
      [] proc[client[c].group].code = "oom" -> "OUT_OF_MEMORY"
      [] OTHER                              -> "FAILED"

\* mutant: the row stays tracked
FinishUnforgotten(c) ==
    /\ Serves /\ client[c].pc \in {"finishJob", "finishStep"}
    /\ jobs' = MarkFinished(jobs, Subject(c), Report(c))
    /\ Go(c, IF At(c, "finishJob") /\ client[c].mode = "srun" THEN "finishStep" ELSE "done")
    /\ UNCHANGED <<tracked, proc, thread>>

(* FinishAllocation: the row is forgotten and gets the reported state,     *)
(* whatever its state was                                                  *)
Finish(c) ==
    /\ Serves /\ client[c].pc \in {"finishJob", "finishStep"}
    /\ jobs' = MarkFinished(jobs, Subject(c), Report(c))
    /\ tracked' = [tracked EXCEPT ![Subject(c)] = NoGroup]
    /\ Go(c, IF At(c, "finishJob") /\ client[c].mode = "srun" THEN "finishStep" ELSE "done")
    /\ UNCHANGED <<proc, thread>>

(* The client is killed, or gives up because a request fails (the daemon   *)
(* is down, or died before it answered): whatever it spawned runs on, and  *)
(* init reaps it.                                                          *)
ClientDies(c) ==
    /\ client[c].pc \notin {"idle", "done", "gone"}
    /\ Go(c, "gone")
    /\ proc' = [g \in Groups |->
                  IF g = client[c].group /\ proc[g].state = "zombie"
                  THEN [proc[g] EXCEPT !.state = "gone"]
                  ELSE proc[g]]
    /\ UNCHANGED <<jobs, tracked, thread>>

----------------------------------------------------------------------------
(* The operating system *)

(* an exit leaves a zombie while the parent lives *)
Exit(g, code) ==
    /\ proc[g].state = "running"
    /\ proc' = [proc EXCEPT ![g] = [@ EXCEPT
                   !.state = IF \E c \in Clients : client[c].group = g /\ ~At(c, "gone")
                             THEN "zombie" ELSE "gone",
                   !.code = code]]
    /\ UNCHANGED <<jobs, tracked, client, thread>>

(* the command returns, or any signal (SIGTERM of a cancellation too) ends *)
(* it; SIGKILL does so in the end                                          *)
CommandExits(g) == ~proc[g].killed /\ \E code \in Code : Exit(g, code)
KilledDies(g) == proc[g].killed /\ \E code \in Code \ {"ok"} : Exit(g, code)

----------------------------------------------------------------------------
(* The daemon *)

(* a pass grants a waiting allocation *)
Grant(j) ==
    /\ Serves
    /\ j \in Pending(jobs)
    /\ jobs' = MarkAllocationRunning(jobs, j)
    /\ UNCHANGED <<tracked, client, proc, thread>>

CancelWaiting(j) ==
    /\ Serves
    /\ j \in InState(jobs, {"PENDING"})
    /\ jobs' = CancelPending(jobs, j)
    /\ UNCHANGED <<tracked, client, proc, thread>>

(* terminate_running_job, up to the end of the grace period *)
Terminate(j, state) ==
    /\ jobs' = MarkState(jobs, j, "COMPLETING")
    /\ tracked' = [tracked EXCEPT ![j] = NoGroup]
    /\ daemon' = "grace"
    /\ ending' = j
    /\ final' = state
    /\ UNCHANGED <<client, proc, crashes>>

(* scancel of a row that is tracked, whatever its state *)
CancelTracked(j) ==
    /\ Serves
    /\ jobs[j].state # "PENDING" /\ j \in Tracked
    /\ Terminate(j, "CANCELLED")

(* steps have no time limit of their own *)
TimeOut(j) ==
    /\ daemon = "tend"
    /\ j \in Tracked
    /\ jobs[j].state = "RUNNING" /\ jobs[j].parent = 0 /\ jobs[j].req.limited
    /\ Terminate(j, "TIMEOUT")

(* What is still alive gets SIGKILL; the daemon waits for it a while and   *)
(* records the end in any case: the one it was asked for, or OUT_OF_MEMORY *)
(* when the cgroup has seen an oom kill.  The group is the one in the row, *)
(* which adopt_allocation and the runner wrote together.                   *)
GraceEnds ==
    /\ daemon = "grace"
    /\ \E state \in {final, "OUT_OF_MEMORY"} : jobs' = MarkFinished(jobs, ending, state)
    /\ proc' = IF GroupAlive(jobs[ending].group)
               THEN [proc EXCEPT ![jobs[ending].group].killed = TRUE]
               ELSE proc
    /\ daemon' = IF final = "TIMEOUT" THEN "tend" ELSE "requests"
    /\ ending' = NoJob
    /\ final' = "none"
    /\ UNCHANGED <<tracked, client, crashes>>

(* enforce_timeouts, poll and reconcile_adopted begin, and the loop begins *)
(* again                                                                   *)
RequestsEnd ==
    /\ Serves
    /\ daemon' = "tend"
    /\ UNCHANGED <<jobs, tracked, ending, final, client, proc, crashes>>

TendEnds ==
    /\ daemon = "tend"
    /\ daemon' = "requests"
    /\ UNCHANGED <<jobs, tracked, ending, final, client, proc, crashes>>

\* mutant: a lost command is believed to have succeeded
LostCompleted == {"COMPLETED"}

(* recovered_terminal_state: nobody writes an exit_status file for a       *)
(* command of a client; its cgroup may have seen an oom kill               *)
LostStates == {"FAILED", "OUT_OF_MEMORY"}

(* reconcile_adopted writes the row of a group that is gone, whatever its  *)
(* state                                                                   *)
Reconcile(j) ==
    /\ daemon = "tend"
    /\ j \in Tracked
    /\ ~GroupAlive(tracked[j])
    /\ \E state \in LostStates : jobs' = MarkFinished(jobs, j, state)
    /\ tracked' = [tracked EXCEPT ![j] = NoGroup]
    /\ UNCHANGED <<client, proc, thread>>

Crash ==
    /\ daemon # "down"
    /\ crashes < MaxCrashes
    /\ crashes' = crashes + 1
    /\ daemon' = "down"
    /\ ending' = NoJob
    /\ final' = "none"
    /\ tracked' = [j \in JobId |-> NoGroup]
    /\ UNCHANGED <<jobs, client, proc>>

Restart ==
    /\ daemon = "down"
    /\ daemon' = "recover"
    /\ UNCHANGED <<jobs, tracked, ending, final, client, proc, crashes>>

(* recover: the RUNNING rows in the order of their ids.  Allocations and   *)
(* steps that were not adopted yet have no group and are lost.             *)
Unrecovered == Running(jobs) \ Tracked
Recover(j) ==
    /\ daemon = "recover"
    /\ j \in Unrecovered /\ \A i \in Unrecovered : j <= i
    /\ IF jobs[j].group # NoGroup /\ GroupAlive(jobs[j].group)
       THEN /\ tracked' = [tracked EXCEPT ![j] = jobs[j].group]
            /\ UNCHANGED jobs
       ELSE /\ jobs' = MarkFinished(jobs, j, "FAILED")
            /\ UNCHANGED tracked
    /\ UNCHANGED <<client, proc, thread>>

RecoverEnds ==
    /\ daemon = "recover"
    /\ Unrecovered = {}
    /\ daemon' = "requests"
    /\ UNCHANGED <<jobs, tracked, ending, final, client, proc, crashes>>

----------------------------------------------------------------------------
ClientStep(c) ==
    \/ \E j \in JobId :
          \/ \E mode \in Mode, r \in Requests : RequestAllocation(c, mode, j, r)
          \/ EnterAllocation(c, j)
          \/ \E r \in Requests : StartStep(c, j, r.name)
    \/ \E g \in Groups : Launch(c, g)
    \/ WaitEnds(c) \/ Adopt(c) \/ ChildEnds(c) \/ Finish(c) \/ ClientDies(c)

Host == \E g \in Groups : CommandExits(g) \/ KilledDies(g)

Control == \E j \in JobId : Grant(j) \/ CancelWaiting(j) \/ CancelTracked(j) \/ TimeOut(j)

Loop == GraceEnds \/ TendEnds \/ Restart \/ RecoverEnds \/ \E j \in JobId : Recover(j)

Next ==
    \/ \E c \in Clients : ClientStep(c)
    \/ Host \/ Control \/ Loop \/ RequestsEnd \/ Crash
    \/ \E j \in JobId : Reconcile(j)

Spec == Init /\ [][Next]_vars

(***************************************************************************)
(* The daemon's thread keeps running and leaves handle_requests now and    *)
(* then, reconcile_adopted looks at every tracked row in every round, and  *)
(* the service manager restarts the daemon.  Commands may run for ever and *)
(* clients may be stopped for good at any of their steps.                  *)
(***************************************************************************)
Fairness ==
    /\ WF_vars(Loop)
    /\ SF_vars(RequestsEnd)
    /\ \A j \in JobId : SF_vars(Reconcile(j))

FairSpec == Spec /\ Fairness

----------------------------------------------------------------------------
(* Properties *)

(* An allocation or step that ended never reserves or runs again: not when *)
(* its client adopts it after a restart recorded it as lost, nor when a    *)
(* late scancel, exit or report arrives.                                   *)
EndedNeverRunsAgain ==
    [][\A j \in JobId :
          jobs[j].state \in Terminal => jobs'[j].state \in Terminal \cup {"COMPLETING"}]_vars

(* What a client has reported of its allocation and its step stands: no    *)
(* reconciliation, recovery, time limit or scancel comes after it.         *)
Reported(c) ==
    (IF client[c].mode # "step" /\ client[c].pc \in {"finishStep", "done"}
     THEN {client[c].job} ELSE {})
    \cup (IF client[c].mode # "salloc" /\ At(c, "done") THEN {client[c].step} ELSE {})
ReportStands == \A c \in Clients : \A j \in Reported(c) : jobs[j].state = Report(c)

(* COMPLETED is honest: the command of the client that holds the row       *)
(* returned 0, however often the row was written.                          *)
CompletedReturnedZero ==
    \A j \in InState(jobs, {"COMPLETED"}) :
        \E c \in Clients : /\ j \in {client[c].job, client[c].step}
                           /\ client[c].group # NoGroup
                           /\ proc[client[c].group].code = "ok"

(* A row whose group is gone does not stay RUNNING and does not stay in    *)
(* Runner.jobs, also when the client died with its command, was cancelled  *)
(* or adopted the row too late.                                            *)
DeadGroup(g) == g # NoGroup /\ proc[g].state = "gone"
Leftover(j) ==
    \/ jobs[j].state = "RUNNING" /\ DeadGroup(jobs[j].group)
    \/ DeadGroup(tracked[j])
DeadIsCleaned == \A j \in JobId : []<>~Leftover(j)
=============================================================================
