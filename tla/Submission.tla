----------------------------- MODULE Submission -----------------------------
(***************************************************************************)
(* How sbatch's request becomes rows, and how sbatch --wait learns of      *)
(* their end (src/store/job_creation.rs, array_creation.rs, job_paths.rs,  *)
(* src/command/submit/).                                                   *)
(*                                                                         *)
(* Modules Scheduler and Runtime insert a whole submission in one step,    *)
(* with Store!CreateJob.  In the code it is, for each task of the array,   *)
(* an INSERT, a directory with the script, and an UPDATE with the paths,   *)
(* without a transaction: the daemon may die, or a directory may not be    *)
(* creatable, after any of them, and the rows inserted so far stay.        *)
(*                                                                         *)
(* Which waiting row a pass tries is the subject of Scheduler, and how a   *)
(* job runs that of Runtime; here a pass tries any row, as long as the     *)
(* host has room for another job.                                          *)
(***************************************************************************)
EXTENDS Store

CONSTANTS
    Clients,     \* runs of sbatch --wait
    Segments,    \* Segments[r]: the segments of r's array specification
    Slots,       \* jobs that the host has room for at once
    Stops,       \* states that stopped jobs end in, of StoppedState
    MaxCrashes,  \* bound on crashes of the daemon
    MaxErrors    \* bound on files and directories that cannot be created

(* first-last:step; a single id is first-first:1.  Ids are i32; when the    *)
(* id after the last one is none, the code's loop wraps around and does    *)
(* not end, which the assumption excludes.                                 *)
MaxI32 == 2147483647
Segment == [first : 0 .. MaxI32, last : 0 .. MaxI32, step : 1 .. MaxI32]

(* parse_array_segment: the ids from first on *)
SegmentIds(s) ==
    LET from[current \in Int] ==
            IF current > s.last THEN {} ELSE {current} \cup from[current + s.step]
    IN  from[s.first]

(* parse_array_spec: the ids of every segment, sorted, each of them once *)
TaskIds(r) == UNION {SegmentIds(s) : s \in Segments[r]}

StoppedState == {"CANCELLED", "TIMEOUT", "OUT_OF_MEMORY"}

ASSUME SubmissionAssumption ==
    /\ Stops \subseteq StoppedState
    /\ Segments \in [Requests -> SUBSET Segment]
    /\ \A r \in Requests : \A s \in Segments[r] :
          s.first <= s.last /\ s.step <= MaxI32 - s.last
    /\ \A r \in Requests : ~r.alloc /\ r.tasks = Cardinality(TaskIds(r))
    /\ Slots \in Nat
    /\ MaxCrashes \in Nat
    /\ MaxErrors \in Nat

VARIABLES
    jobs,     \* the jobs table
    written,  \* rows whose script exists and whose paths are recorded
    taskId,   \* array_task_id of the rows
    code,     \* exit_code of the rows
    daemon,   \* where the daemon's thread is, and the submission it works on
    client,   \* where each client is, and the id it was answered
    crashes, errors

vars == <<jobs, written, taskId, code, daemon, client, crashes, errors>>

NoTask == -1
NoClient == "none"

(***************************************************************************)
(* "insert", "paths", "link": in create_job_entry and create_array_jobs;   *)
(* first: the row of the first task; left: the tasks without a row         *)
(***************************************************************************)
Phase == {"recover", "requests", "insert", "paths", "link", "requestPass", "tend", "pass",
          "sleep", "down"}
Goto(pc) == [pc |-> pc, client |-> NoClient, first |-> 0, job |-> 0, left |-> {}]

ClientPhase == {"idle", "asked", "waiting", "waitingTasks", "zero", "nonzero", "refused", "lost"}

\* of the exit codes, a row that has none counts as 1
ExitCode == {"zero", "nonzero"}

(* The types of the variables *)
TypeOK ==
    /\ jobs \in Table
    /\ written \subseteq Rows(jobs)
    /\ taskId \in [JobId -> Int]
    /\ code \in [JobId -> ExitCode]
    /\ daemon.pc \in Phase /\ daemon.client \in Clients \cup {NoClient}
    /\ daemon.first \in {0} \cup JobId /\ daemon.job \in {0} \cup JobId
    /\ client \in [Clients -> [pc : ClientPhase, job : {0} \cup JobId, req : Requests]]
    /\ crashes \in 0 .. MaxCrashes /\ errors \in 0 .. MaxErrors

Init ==
    /\ jobs = EmptyTable
    /\ written = {}
    /\ taskId = [j \in JobId |-> NoTask]
    /\ code = [j \in JobId |-> "nonzero"]
    /\ daemon = Goto("recover")
    /\ client \in [Clients -> [pc : {"idle"}, job : {0}, req : Requests]]
    /\ crashes = 0 /\ errors = 0

Serves == daemon.pc = "requests"
Tell(c, pc) == client' = [client EXCEPT ![c].pc = pc]
table == <<jobs, written, taskId, code>>
faults == <<crashes, errors>>

----------------------------------------------------------------------------
(* Creating the rows *)

IsArray == client[daemon.client].req.tasks > 0

(* only a submission for which there are ids left (the bound MaxJobs) *)
Submit(c) ==
    /\ Serves /\ client[c].pc = "idle"
    /\ \E j \in JobId : IsNextId(jobs, j) /\ j + RowsNeeded(client[c].req) - 1 \in JobId
    /\ daemon' = [Goto("insert") EXCEPT !.client = c, !.left = TaskIds(client[c].req)]
    /\ Tell(c, "asked")
    /\ UNCHANGED <<table, faults>>

(* The INSERT.  The tasks come in the order of their ids; the first one    *)
(* has no array_job_id yet.                                                *)
Insert(j) ==
    /\ daemon.pc = "insert"
    /\ IsNextId(jobs, j)
    /\ jobs' = [jobs EXCEPT ![j] = PendingRow(client[daemon.client].req, daemon.first)]
    /\ IF IsArray
       THEN \E task \in daemon.left :
               /\ \A other \in daemon.left : task <= other
               /\ taskId' = [taskId EXCEPT ![j] = task]
               /\ daemon' = [daemon EXCEPT !.pc = "paths", !.job = j, !.left = @ \ {task}]
       ELSE /\ daemon' = [daemon EXCEPT !.pc = "paths", !.job = j]
            /\ UNCHANGED taskId
    /\ UNCHANGED <<written, code, client, faults>>

\* mutant: the array is answered after its first task
FollowingOnce(first) == IF IsArray /\ first = 0 THEN "link" ELSE "requestPass"

(* after a row is complete: the link, the next task, or the pass *)
Following(first) ==
    IF IsArray /\ first = 0 THEN "link"
    ELSE IF daemon.left # {} THEN "insert"
    ELSE "requestPass"

(* prepare_job_paths, and the UPDATE with the paths *)
WritePaths ==
    /\ daemon.pc = "paths"
    /\ written' = written \cup {daemon.job}
    /\ daemon' = [daemon EXCEPT !.pc = Following(daemon.first),
                                !.first = IF IsArray THEN @ ELSE daemon.job]
    /\ UNCHANGED <<jobs, taskId, code, client, faults>>

(* A directory (of the job, or of the output the user asked for) or the    *)
(* script cannot be created: the client gets the error, the row stays.     *)
PathsFail ==
    /\ daemon.pc = "paths"
    /\ errors < MaxErrors
    /\ errors' = errors + 1
    /\ Tell(daemon.client, "refused")
    /\ daemon' = Goto("requests")
    /\ UNCHANGED <<table, crashes>>

(* UPDATE jobs SET array_job_id = id, for the first task *)
Link ==
    /\ daemon.pc = "link"
    /\ jobs' = [jobs EXCEPT ![daemon.job].array = daemon.job]
    /\ daemon' = [daemon EXCEPT !.pc = Following(daemon.job), !.first = daemon.job]
    /\ UNCHANGED <<written, taskId, code, client, faults>>

----------------------------------------------------------------------------
(* The daemon's passes and the jobs *)

InPass == daemon.pc \in {"requestPass", "pass"}
HasRoom == Cardinality(RunningTopLevel(jobs)) < Slots

Launch(j) ==
    /\ InPass /\ HasRoom /\ j \in Pending(jobs)
    /\ j \in written
    /\ jobs' = MarkRunning(jobs, j, NoGroup, {})
    /\ UNCHANGED <<written, taskId, code, daemon, client, faults>>

(* A row without paths: its output file cannot be opened.  In the pass of  *)
(* a request the client gets the error, whatever became of its own job; in *)
(* the pass of the loop the error ends the daemon.                         *)
LaunchFails(j) ==
    /\ InPass /\ HasRoom /\ j \in Pending(jobs)
    /\ j \notin written
    /\ IF daemon.pc = "pass"
       THEN daemon' = Goto("down") /\ UNCHANGED client
       ELSE daemon' = Goto("requests") /\ Tell(daemon.client, "refused")
    /\ UNCHANGED <<table, faults>>

(* nothing more can start; the answer is the id of the first row *)
PassEnd ==
    /\ InPass
    /\ ~HasRoom \/ Pending(jobs) = {}
    /\ IF daemon.pc = "pass"
       THEN daemon' = Goto("sleep") /\ UNCHANGED client
       ELSE /\ daemon' = Goto("requests")
            /\ client' = [client EXCEPT ![daemon.client] =
                            [@ EXCEPT !.pc = "waiting", !.job = daemon.first]]
    /\ UNCHANGED <<table, faults>>

(***************************************************************************)
(* The ends of a run, with the exit code that is recorded: what is stopped *)
(* may return anything within its grace period, and so may a job that has  *)
(* lost a process for want of memory; killed or lost runs have no code.    *)
(***************************************************************************)
Outcome ==
    {<<"COMPLETED", "zero">>, <<"FAILED", "nonzero">>}
    \cup Stops \X ExitCode

(* scancel is a request; recover finds no code (StatusFile of Runtime)     *)
JobEnds(j, outcome) ==
    /\ \/ daemon.pc = "tend" /\ outcome[1] # "CANCELLED"
       \/ Serves /\ outcome[1] \in {"CANCELLED", "OUT_OF_MEMORY"}
       \/ daemon.pc = "recover" /\ outcome[1] = "FAILED"
    /\ j \in Running(jobs)
    /\ jobs' = MarkFinished(jobs, j, outcome[1])
    /\ code' = [code EXCEPT ![j] = IF jobs'[j].state = "PENDING" THEN "nonzero" ELSE outcome[2]]
    /\ UNCHANGED <<written, taskId, daemon, client, faults>>

CancelWaiting(j) ==
    /\ Serves
    /\ j \in InState(jobs, {"PENDING"})
    /\ jobs' = CancelPending(jobs, j)
    /\ UNCHANGED <<written, taskId, code, daemon, client, faults>>

RequestsEnd == Serves /\ daemon' = Goto("tend") /\ UNCHANGED <<table, client, faults>>

LoopStep ==
    /\ \/ daemon.pc = "tend" /\ daemon' = Goto("pass")
       \/ daemon.pc = "sleep" /\ daemon' = Goto("requests")
       \/ daemon.pc = "recover" /\ daemon' = Goto("requests")
    /\ UNCHANGED <<table, client, faults>>

(* the client whose request was being handled loses its connection *)
Crash ==
    /\ daemon.pc # "down"
    /\ crashes < MaxCrashes
    /\ crashes' = crashes + 1
    /\ daemon' = Goto("down")
    /\ IF daemon.client = NoClient THEN UNCHANGED client ELSE Tell(daemon.client, "refused")
    /\ UNCHANGED <<table, errors>>

Restart == daemon.pc = "down" /\ daemon' = Goto("recover") /\ UNCHANGED <<table, client, faults>>

----------------------------------------------------------------------------
(* sbatch --wait *)

(* No job of S failed, or the exit code of the one found first is 0: the   *)
(* rows are read by descending id.  A row without a code counts as 1.      *)
NotCompleted(S) == {j \in S : jobs[j].state # "COMPLETED"}
Result(S) ==
    IF \A j \in NotCompleted(S) : (\E k \in NotCompleted(S) : k > j) \/ code[j] = "zero"
    THEN "zero"
    ELSE "nonzero"

\* mutant: the first task speaks for the array
WaitForFirstOnly(c) ==
    /\ Serves /\ client[c].pc = "waiting"
    /\ jobs[client[c].job].state \in Terminal
    /\ Tell(c, Result({client[c].job}))
    /\ UNCHANGED <<table, daemon, faults>>

(* wait_for_job_completion *)
WaitForFirst(c) ==
    /\ Serves /\ client[c].pc = "waiting"
    /\ LET job == client[c].job
       IN  /\ jobs[job].state \in Terminal
           /\ IF jobs[job].array = job /\ jobs[job].req.tasks > 1
              THEN Tell(c, "waitingTasks")
              ELSE Tell(c, Result({job}))
    /\ UNCHANGED <<table, daemon, faults>>

\* mutant: one more row than there are tasks
WaitForMore(c) ==
    /\ Serves /\ client[c].pc = "waitingTasks"
    /\ LET job == client[c].job
           entries == {j \in Rows(jobs) : jobs[j].array = job}
       IN  /\ Cardinality(entries) > jobs[job].req.tasks
           /\ \A j \in entries : jobs[j].state \in Terminal
           /\ Tell(c, Result(entries))
    /\ UNCHANGED <<table, daemon, faults>>

(* the rest of wait_for_submission_completion *)
WaitForTasks(c) ==
    /\ Serves /\ client[c].pc = "waitingTasks"
    /\ LET job == client[c].job
           entries == {j \in Rows(jobs) : jobs[j].array = job}
       IN  /\ Cardinality(entries) >= jobs[job].req.tasks
           /\ \A j \in entries : jobs[j].state \in Terminal
           /\ Tell(c, Result(entries))
    /\ UNCHANGED <<table, daemon, faults>>

(* a poll that finds nobody listening *)
ClientLost(c) ==
    /\ daemon.pc = "down" /\ client[c].pc \in {"waiting", "waitingTasks"}
    /\ Tell(c, "lost")
    /\ UNCHANGED <<table, daemon, faults>>

----------------------------------------------------------------------------
Wait(c) == WaitForFirst(c) \/ WaitForTasks(c)

Creation == WritePaths \/ Link \/ \E j \in JobId : Insert(j)

Loop ==
    \/ Creation \/ PassEnd \/ LoopStep \/ Restart
    \/ \E j \in JobId : Launch(j) \/ LaunchFails(j)

Next ==
    \/ \E c \in Clients : Submit(c) \/ Wait(c) \/ ClientLost(c)
    \/ \E j \in JobId : CancelWaiting(j) \/ \E outcome \in Outcome : JobEnds(j, outcome)
    \/ Loop \/ RequestsEnd \/ PathsFail \/ Crash

Spec == Init /\ [][Next]_vars

(***************************************************************************)
(* The daemon's thread keeps running and leaves handle_requests now and    *)
(* then, the service manager restarts the daemon, and a client polls every *)
(* 200 ms.  Jobs may run for ever.                                         *)
(***************************************************************************)
Fairness ==
    /\ WF_vars(Loop)
    /\ SF_vars(RequestsEnd)
    /\ \A c \in Clients : SF_vars(Wait(c))

FairSpec == Spec /\ Fairness

----------------------------------------------------------------------------
(* Properties *)

RowsOf(c) == client[c].job .. client[c].job + RowsNeeded(client[c].req) - 1

(* A submission that was answered is complete, whatever crashes and errors *)
(* interrupted other ones: a row with a script for every id of the array   *)
(* specification (0-3,2 names 2 once), linked to the first, as             *)
(* Store!CreateJob inserts them in one step.                               *)
AnsweredIsComplete ==
    \A c \in Clients : client[c].job # 0 =>
        LET r == client[c].req
            f == client[c].job
        IN  /\ \A j \in RowsOf(c) :
                  /\ j \in Rows(jobs) \cap written
                  /\ jobs[j].req = r
                  /\ jobs[j].array = IF r.tasks = 0 THEN 0 ELSE f
            /\ r.tasks > 0 =>
                  {taskId[j] : j \in RowsOf(c)} =
                      UNION {{s.first + k * s.step : k \in 0 .. (s.last - s.first) \div s.step}
                             : s \in Segments[r]}

(* sbatch --wait is told the truth about all tasks of its array: another   *)
(* code than 0 means that one is not COMPLETED, and 0 that all are, or     *)
(* that the last of those that are not was stopped (cancelled, out of time *)
(* or memory) and returned 0, which is taken for the result and hides what *)
(* became of the ones before it.                                           *)
StoppedWithZero(j) == jobs[j].state \in StoppedState /\ code[j] = "zero"
WaitIsHonest ==
    \A c \in Clients :
        /\ client[c].pc = "zero" =>
              \A j \in RowsOf(c) :
                  \/ jobs[j].state = "COMPLETED"
                  \/ \E k \in RowsOf(c) : j <= k /\ StoppedWithZero(k)
        /\ client[c].pc = "nonzero" => \E j \in RowsOf(c) : jobs[j].state # "COMPLETED"

(* sbatch --wait does not wait for ever for jobs that have all ended:      *)
(* neither for rows a crash kept from being inserted, nor for a task count *)
(* that differs from the rows.                                             *)
WaitsInVain(c) ==
    /\ client[c].pc \in {"waiting", "waitingTasks"}
    /\ \A j \in RowsOf(c) : jobs[j].state \in Terminal
WaitEnds == \A c \in Clients : []<>~WaitsInVain(c)

(* "The daemon loop runs every 300ms" (docs-site runtime-model): rounds of *)
(* the loop are completed, for ever.                                       *)
LoopRuns == []<>(daemon.pc = "sleep")
=============================================================================
