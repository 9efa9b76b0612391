--------------------------- MODULE RuntimeProofs ---------------------------
(***************************************************************************)
(* Theorems about Runtime, for any number of jobs, process groups,         *)
(* crashes and failures: the type invariant, the agreement of the runner   *)
(* with the table, the finality of terminal states, the implementation of  *)
(* Lifecycle, and what the process groups of a job may do.                 *)
(***************************************************************************)
EXTENDS Runtime, StoreProofs

(***************************************************************************)
(* The inductive invariant.  RunnerMatchesTable is not inductive by        *)
(* itself: what the daemon is about to write depends on the job it works   *)
(* on still being in the state in which it was picked, which DaemonInv     *)
(* says for each place the daemon may be in.  Part is the part of the loop *)
(* the daemon is in, or returns to when a job has been ended.              *)
(***************************************************************************)
Part == IF daemon.pc \in {"grace", "kill", "notify"} THEN daemon.next ELSE daemon.pc

DaemonInv ==
    /\ daemon.pc = "launch" =>
          /\ daemon.job \in JobId /\ daemon.group \in Groups
          /\ jobs[daemon.job].state = "PENDING"
          /\ daemon.next \in {"pass", "requestPass"}
    /\ daemon.pc \in {"grace", "kill"} =>
          /\ daemon.job \in JobId /\ daemon.group \in Groups
          /\ jobs[daemon.job].state = "COMPLETING"
          /\ daemon.final \in {"CANCELLED", "TIMEOUT"}
          /\ daemon.next \in {"requests", "timeouts"}
    /\ daemon.pc = "notify" =>
          /\ daemon.job \in JobId
          /\ daemon.next \in {"requests", "timeouts", "poll", "reconcile", "recover"}
    /\ daemon.pc \notin {"launch", "grace", "kill", "notify"} => daemon.next = "requests"
    /\ Part \in {"timeouts", "warnings", "poll", "reconcile"} => daemon.todo \subseteq Tracked
    /\ daemon.pc = "down" => Tracked = {}
    /\ Part = "recover" => daemon.todo \subseteq Running(jobs) \ Tracked

IInv == TypeOK /\ RunnerMatchesTable /\ DaemonInv

----------------------------------------------------------------------------
(* A job that is tracked, RUNNING or COMPLETING has a row. *)
LEMMA ActiveRow ==
    ASSUME TypeOK, NEW j \in JobId, jobs[j].state # "NONE"
    PROVE  jobs[j] \in Row
BY RowExists DEF TypeOK

(* The initial states satisfy the invariant. *)
LEMMA InitHolds == Init => IInv
<1> SUFFICES ASSUME Init PROVE IInv
  OBVIOUS
<1>1. TypeOK
  BY RuntimeAssumption, StoreAssumption
  DEF Init, TypeOK, Table, EmptyTable, NotTracked, AtRest, Goto, GotoWith, Daemon, Phase, NoProc, Proc, Terminal
<1>2. RunnerMatchesTable
  BY DEF Init, RunnerMatchesTable, Tracked, NotTracked, Running, InState, EmptyTable, NoRow
<1>3. DaemonInv
  BY DEF Init, DaemonInv, Part, AtRest, Goto, GotoWith
<1>4. QED
  BY <1>1, <1>2, <1>3 DEF IInv

(* The operating system changes no row and nothing of the daemon. *)
LEMMA HostKeeps == ASSUME IInv, Host PROVE IInv'
<1>1. UNCHANGED <<jobs, runner, daemon, notified, acked, crashes, failures>>
  BY DEF Host, LeaderReturns, LeaderDies, RestExits, KilledDies, OomEvent,
         TimePasses, log
<1>2. /\ proc' \in [Groups -> Proc]
      /\ oom' \in [JobId -> BOOLEAN]
      /\ clock' \in [JobId -> {"early", "warn", "over"}]
  <2> USE DEF IInv, TypeOK
  <2>1. ASSUME NEW g \in Groups, NEW code \in {"ok", "fail"}, LeaderReturns(g, code)
        PROVE  <1>2
    <3> DEFINE leader == DeadLeader(g, "zombie")
    <3>1. [proc[g] EXCEPT !.leader = leader, !.code = code] \in Proc
      <4>1. proc[g] \in Proc /\ leader \in {"running", "zombie", "signalled", "gone"}
        BY DEF DeadLeader
      <4>2. QED
        BY <4>1 DEF Proc
    <3>2. proc' = [proc EXCEPT ![g] = [proc[g] EXCEPT !.leader = leader, !.code = code]]
          /\ UNCHANGED <<oom, clock>>
      BY <2>1 DEF LeaderReturns
    <3>3. QED
      BY <3>1, <3>2
  <2>2. ASSUME NEW g \in Groups, LeaderDies(g) \/ RestExits(g)
        PROVE  <1>2
    <3>1. /\ [proc[g] EXCEPT !.leader = DeadLeader(g, "signalled")] \in Proc
          /\ [proc[g] EXCEPT !.rest = FALSE] \in Proc
      BY DEF Proc, DeadLeader
    <3>2. proc' \in [Groups -> Proc]
      BY <2>2, <3>1 DEF LeaderDies, RestExits
    <3>3. QED
      BY <2>2, <3>2 DEF LeaderDies, RestExits
  <2>3. ASSUME NEW g \in Groups, KilledDies(g)
        PROVE  <1>2
    <3> DEFINE leader == IF LeaderLives(g) THEN DeadLeader(g, "signalled") ELSE proc[g].leader
    <3>1. [proc[g] EXCEPT !.rest = FALSE, !.leader = leader] \in Proc
      <4>1. proc[g] \in Proc
        OBVIOUS
      <4>2. leader \in {"running", "zombie", "signalled", "gone"}
        BY <4>1 DEF Proc, DeadLeader
      <4>3. QED
        BY <4>1, <4>2 DEF Proc
    <3>2. proc' = [proc EXCEPT ![g] = [proc[g] EXCEPT !.rest = FALSE, !.leader = leader]]
      BY <2>3 DEF KilledDies
    <3>3. proc' \in [Groups -> Proc]
      BY <3>1, <3>2
    <3>4. QED
      BY <2>3, <3>3 DEF KilledDies
  <2>4. ASSUME NEW j \in JobId, OomEvent(j) \/ TimePasses(j)
        PROVE  <1>2
    BY <2>4 DEF OomEvent, TimePasses
  <2>5. QED
    BY <2>1, <2>2, <2>3, <2>4 DEF Host
<1>3. QED
  BY <1>1, <1>2 DEF IInv, TypeOK, RunnerMatchesTable, DaemonInv, Part, Tracked, Serving, Recovering

----------------------------------------------------------------------------
(* Launching *)

LEMMA LaunchSpawnKeeps ==
    ASSUME IInv, NEW j \in JobId, NEW g \in Groups, LaunchSpawn(j, g) PROVE IInv'
<1> USE DEF IInv, LaunchSpawn, host, log
<1>1. TypeOK'
  <2>1. [NoProc EXCEPT !.job = j, !.leader = "running", !.rest = TRUE, !.child = TRUE] \in Proc
    BY DEF NoProc, Proc
  <2>2. proc' \in [Groups -> Proc]
    BY <2>1 DEF TypeOK
  <2>3. daemon' \in Daemon
    BY DEF TypeOK, Daemon, Phase
  <2>4. QED
    BY <2>2, <2>3 DEF TypeOK
<1>2. daemon' = [daemon EXCEPT !.pc = "launch", !.job = j, !.group = g, !.next = daemon.pc]
      /\ daemon \in Daemon /\ UNCHANGED <<jobs, runner>>
  BY DEF TypeOK
<1>3. RunnerMatchesTable'
  <2>1. Serving /\ ~Recovering /\ Serving' /\ ~Recovering'
    BY <1>2 DEF Serving, Recovering, DaemonInv, Daemon
  <2>2. QED
    BY <1>2, <2>1 DEF RunnerMatchesTable, Tracked, Running, InState
<1>4. DaemonInv'
  BY <1>2 DEF DaemonInv, Part, Daemon, Pending, InState
<1>5. QED
  BY <1>1, <1>3, <1>4

LEMMA LaunchMarkKeeps == ASSUME IInv, LaunchMark PROVE IInv'
<1> USE DEF IInv, LaunchMark, log
<1> DEFINE j == daemon.job
           g == daemon.group
<1>1. /\ j \in JobId /\ g \in Groups /\ jobs[j].state = "PENDING"
      /\ daemon.next \in {"pass", "requestPass"}
  BY DEF DaemonInv
<1>2. jobs[j] \in Row /\ jobs \in Table
  BY <1>1, ActiveRow DEF TypeOK
<1>3. /\ jobs' \in Table
      /\ jobs'[j].state = "RUNNING" /\ jobs'[j].group = g
      /\ \A i \in JobId \ {j} : jobs'[i] = jobs[i]
  <2>1. jobs' = MarkRunning(jobs, j, g, {})
    OBVIOUS
  <2>2. {} \in SUBSET GpuId /\ g \in Groups \cup {NoGroup}
    BY <1>1
  <2> HIDE DEF j, g, LaunchMark, IInv
  <2>3. /\ MarkRunning(jobs, j, g, {}) \in Table
        /\ MarkRunning(jobs, j, g, {})[j].state = "RUNNING"
        /\ MarkRunning(jobs, j, g, {})[j].group = g
        /\ \A i \in JobId \ {j} : MarkRunning(jobs, j, g, {})[i] = jobs[i]
    BY <1>1, <1>2, <2>2, MarkRunningFact
  <2>4. QED
    BY <2>1, <2>3
<1>5. runner' = [runner EXCEPT ![j] = [handle |-> "child", group |-> g, warned |-> FALSE]]
  OBVIOUS
<1>6. daemon' = [pc |-> daemon.next, todo |-> {}, job |-> 0, group |-> NoGroup,
                 handle |-> "none", final |-> "none", next |-> "requests"]
  BY DEF Goto, GotoWith
<1>7. TypeOK'
  <2>1. runner' \in [JobId -> TrackedRecord \cup {NotTracked}]
    BY <1>1, <1>5 DEF TypeOK, TrackedRecord
  <2>2. daemon' \in Daemon
    BY <1>1, <1>6 DEF Daemon, Phase
  <2>3. proc' \in [Groups -> Proc]
    <3>1. proc[g] \in Proc
      BY <1>1 DEF TypeOK
    <3>2. [proc[g] EXCEPT !.marked = TRUE] \in Proc
      BY <3>1 DEF Proc
    <3>3. QED
      BY <3>2 DEF TypeOK
  <2>4. clock' \in [JobId -> {"early", "warn", "over"}]
    BY DEF TypeOK
  <2>5. QED
    BY <1>3, <2>1, <2>2, <2>3, <2>4 DEF TypeOK
<1>8. Tracked' = Tracked \cup {j}
  BY <1>1, <1>5 DEF Tracked, TypeOK
<1>9. RunnerMatchesTable'
  <2>1. Serving /\ ~Recovering'
    BY <1>1, <1>6 DEF Serving, Recovering
  <2>2. ASSUME NEW i \in Tracked'
        PROVE  jobs'[i].state = "RUNNING" /\ jobs'[i].group = runner'[i].group
    <3>1. CASE i = j
      BY <1>1, <1>3, <1>5, <3>1 DEF TypeOK
    <3>2. CASE i # j
      BY <1>3, <1>5, <1>8, <2>2, <3>2 DEF RunnerMatchesTable, Tracked, TypeOK
    <3>3. QED
      BY <3>1, <3>2
  <2>3. Running(jobs)' \subseteq Tracked'
    BY <1>3, <1>8, <2>1 DEF RunnerMatchesTable, Running, InState
  <2>4. QED
    BY <2>1, <2>2, <2>3 DEF RunnerMatchesTable
<1>10. DaemonInv'
  BY <1>1, <1>6 DEF DaemonInv, Part
<1>11. QED
  BY <1>7, <1>9, <1>10

(* What Crash and a failed launch in the loop do: the daemon is gone. *)
LEMMA DownKeeps ==
    ASSUME IInv, UNCHANGED jobs, daemon' = Down,
           runner' = [j \in JobId |-> NotTracked], proc' = Orphaned
    PROVE  /\ RunnerMatchesTable' /\ DaemonInv'
           /\ daemon' \in Daemon /\ proc' \in [Groups -> Proc]
           /\ runner' \in [JobId -> TrackedRecord \cup {NotTracked}]
<1>1. daemon' = [pc |-> "down", todo |-> {}, job |-> 0, group |-> NoGroup,
                 handle |-> "none", final |-> "none", next |-> "requests"]
  BY DEF Down, Goto, GotoWith
<1>2. Tracked' = {}
  BY DEF Tracked, NotTracked
<1>3. RunnerMatchesTable' /\ DaemonInv'
  BY <1>1, <1>2 DEF RunnerMatchesTable, DaemonInv, Part, Serving, Recovering
<1>4. proc' \in [Groups -> Proc]
  <2>1. ASSUME NEW g \in Groups
        PROVE  Orphaned[g] \in Proc
    <3>1. proc[g] \in Proc
      BY DEF IInv, TypeOK
    <3>2. QED
      BY <3>1 DEF Orphaned, Proc
  <2>2. QED
    BY <2>1 DEF Orphaned
<1>5. daemon' \in Daemon
  BY <1>1 DEF Daemon, Phase
<1>6. QED
  BY <1>3, <1>4, <1>5

LEMMA CrashKeeps == ASSUME IInv, Crash PROVE IInv'
<1>1. crashes' \in 0 .. MaxFaults
  BY RuntimeAssumption DEF Crash, IInv, TypeOK
<1>2. QED
  BY <1>1, DownKeeps DEF Crash, IInv, TypeOK

LEMMA LaunchFailsKeeps == ASSUME IInv, LaunchFails PROVE IInv'
<1>1. failures' \in 0 .. MaxFaults
  BY RuntimeAssumption DEF LaunchFails, IInv, TypeOK
<1>2. CASE daemon.next = "requestPass"
  <2>1. daemon' = [pc |-> "requests", todo |-> {}, job |-> 0, group |-> NoGroup,
                   handle |-> "none", final |-> "none", next |-> "requests"]
        /\ UNCHANGED <<jobs, runner, proc, oom, clock, notified, acked, crashes>>
    BY <1>2 DEF LaunchFails, AtRest, Goto, GotoWith
  <2>2. daemon' \in Daemon
    BY <2>1 DEF Daemon, Phase
  <2>3. TypeOK'
    BY <1>1, <2>1, <2>2 DEF IInv, TypeOK
  <2>4. RunnerMatchesTable' /\ DaemonInv'
    BY <1>2, <2>1
    DEF IInv, LaunchFails, RunnerMatchesTable, DaemonInv, Part, Tracked, Serving, Recovering
  <2>5. QED
    BY <2>3, <2>4 DEF IInv
<1>3. CASE daemon.next # "requestPass"
  BY <1>1, <1>3, DownKeeps DEF LaunchFails, IInv, TypeOK
<1>4. QED
  BY <1>2, <1>3
----------------------------------------------------------------------------
(* The daemon goes on to another part of its loop *)

LEMMA GotoRecord ==
    ASSUME NEW pc \in Phase, NEW S \in SUBSET JobId
    PROVE  /\ GotoWith(pc, S) = [pc |-> pc, todo |-> S, job |-> 0, group |-> NoGroup,
                                 handle |-> "none", final |-> "none", next |-> "requests"]
           /\ GotoWith(pc, S) \in Daemon
           /\ Goto(pc) = GotoWith(pc, {})
           /\ AtRest = GotoWith("requests", {})
<1>1. Goto(pc) = GotoWith(pc, {}) /\ AtRest = GotoWith("requests", {})
  BY DEF Goto, AtRest
<1>2. "requests" \in Phase /\ "none" \in {"none", "child", "adopted"}
  BY DEF Phase
<1>3. GotoWith(pc, S) \in Daemon
  BY <1>2 DEF GotoWith, Daemon
<1>4. QED
  BY <1>1, <1>3 DEF GotoWith

(* Outside recovery a daemon that is up attends every RUNNING job. *)
LEMMA Attended ==
    ASSUME IInv, daemon.pc # "down", ~Recovering
    PROVE  Running(jobs) \subseteq Tracked
BY DEF IInv, RunnerMatchesTable, Serving

(* A part of the loop may begin with any set of tracked jobs, recovery     *)
(* with those RUNNING jobs that are not tracked yet.                       *)
LEMMA MoveKeeps ==
    ASSUME IInv, UNCHANGED <<jobs, runner>>,
           NEW pc \in Phase \ {"down", "launch", "grace", "kill", "notify"},
           NEW S \in SUBSET JobId,
           daemon' = GotoWith(pc, S),
           pc = "recover" => /\ S \subseteq Running(jobs) \ Tracked
                             /\ Running(jobs) \subseteq Tracked \cup S,
           pc \in {"timeouts", "warnings", "poll", "reconcile"} => S \subseteq Tracked,
           pc # "recover" => Running(jobs) \subseteq Tracked
    PROVE  RunnerMatchesTable' /\ DaemonInv' /\ daemon' \in Daemon
<1>1. /\ daemon' = [pc |-> pc, todo |-> S, job |-> 0, group |-> NoGroup,
                    handle |-> "none", final |-> "none", next |-> "requests"]
      /\ daemon' \in Daemon
  BY GotoRecord
<1>2. Tracked' = Tracked /\ Running(jobs)' = Running(jobs)
  BY DEF Tracked, Running, InState
<1>3. DaemonInv'
  BY <1>1, <1>2 DEF DaemonInv, Part
<1>4. RunnerMatchesTable'
  <2>1. \A j \in Tracked' : jobs'[j].state = "RUNNING" /\ jobs'[j].group = runner'[j].group
    BY <1>2 DEF IInv, RunnerMatchesTable
  <2>2. /\ Serving' => Running(jobs)' \subseteq Tracked'
        /\ Recovering' => Running(jobs)' \subseteq Tracked' \cup daemon'.todo
    BY <1>1, <1>2 DEF Serving, Recovering
  <2>3. QED
    BY <2>1, <2>2 DEF RunnerMatchesTable
<1>5. QED
  BY <1>1, <1>3, <1>4

LEMMA PassEndKeeps == ASSUME IInv, PassEnd PROVE IInv'
<1>1. daemon' = GotoWith("requests", {}) /\ "requests" \in Phase
  BY GotoRecord DEF PassEnd, Phase
<1>2. Running(jobs) \subseteq Tracked
  BY Attended DEF PassEnd, Recovering, IInv, DaemonInv
<1>3. RunnerMatchesTable' /\ DaemonInv' /\ daemon' \in Daemon
  BY <1>1, <1>2, MoveKeeps DEF PassEnd
<1>4. QED
  BY <1>3 DEF IInv, TypeOK, PassEnd, host, log

LEMMA UpdateTimeLimitKeeps ==
    ASSUME IInv, NEW j \in JobId, NEW c \in {"early", "warn", "over"}, UpdateTimeLimit(j, c)
    PROVE  IInv'
<1>1. daemon' = GotoWith("requestPass", {}) /\ "requestPass" \in Phase
  BY GotoRecord DEF UpdateTimeLimit, Phase
<1>2. Running(jobs) \subseteq Tracked
  BY Attended DEF UpdateTimeLimit, Recovering, IInv, DaemonInv
<1>3. RunnerMatchesTable' /\ DaemonInv' /\ daemon' \in Daemon
  BY <1>1, <1>2, MoveKeeps DEF UpdateTimeLimit
<1>4. QED
  BY <1>3 DEF IInv, TypeOK, UpdateTimeLimit, log

LEMMA RequestsEndKeeps == ASSUME IInv, RequestsEnd PROVE IInv'
<1> DEFINE S == {j \in Tracked : jobs[j].state = "RUNNING" /\ jobs[j].req.limited
                                     /\ clock[j] = "over"}
<1>1. /\ \/ daemon' = GotoWith("timeouts", S)
         \/ daemon' = GotoWith("pass", {})
      /\ {"timeouts", "pass"} \subseteq Phase
  BY DEF RequestsEnd, Phase, Goto
<1>2. Running(jobs) \subseteq Tracked
  BY Attended DEF RequestsEnd, Recovering, IInv, DaemonInv
<1>3. S \in SUBSET JobId /\ S \subseteq Tracked
  BY DEF Tracked
<1> HIDE DEF S
<1>4. RunnerMatchesTable' /\ DaemonInv' /\ daemon' \in Daemon
  BY <1>1, <1>2, <1>3, MoveKeeps DEF RequestsEnd
<1>5. QED
  BY <1>4 DEF IInv, TypeOK, RequestsEnd, host, log

LEMMA NextPartKeeps == ASSUME IInv, NextPart PROVE IInv'
<1> DEFINE S == {j \in Tracked : ~runner[j].warned}
<1>1. Tracked \in SUBSET JobId /\ S \in SUBSET JobId /\ S \subseteq Tracked
  BY DEF Tracked
<1> HIDE DEF S
<1>2. Running(jobs) \subseteq Tracked
  <2>1. CASE daemon.pc = "recover"
    BY <2>1 DEF NextPart, Recovering, IInv, RunnerMatchesTable
  <2>2. CASE daemon.pc # "recover"
    BY <2>2, Attended DEF NextPart, Recovering, IInv, DaemonInv
  <2>3. QED
    BY <2>1, <2>2
<1>3. \/ daemon' = GotoWith("warnings", S)
      \/ daemon' = GotoWith("poll", Tracked)
      \/ daemon' = GotoWith("reconcile", Tracked)
      \/ daemon' = GotoWith("pass", {})
      \/ daemon' = GotoWith("requests", {})
  <2>1. "pass" \in Phase /\ "requests" \in Phase
    BY DEF Phase
  <2>2. QED
    BY <2>1, GotoRecord DEF NextPart, S
<1>4. {"warnings", "poll", "reconcile", "pass", "requests"} \subseteq Phase
  BY DEF Phase
<1>5. RunnerMatchesTable' /\ DaemonInv' /\ daemon' \in Daemon
  BY <1>1, <1>2, <1>3, <1>4, MoveKeeps DEF NextPart
<1>6. QED
  BY <1>5 DEF IInv, TypeOK, NextPart, host, log

LEMMA RestartKeeps == ASSUME IInv, Restart PROVE IInv'
<1>1. daemon' = GotoWith("recover", Running(jobs)) /\ "recover" \in Phase
  BY DEF Restart, Phase
<1>2. Running(jobs) \in SUBSET JobId /\ Tracked = {}
  BY DEF Running, InState, Restart, IInv, DaemonInv
<1>3. RunnerMatchesTable' /\ DaemonInv' /\ daemon' \in Daemon
  BY <1>1, <1>2, MoveKeeps DEF Restart
<1>4. QED
  BY <1>3 DEF IInv, TypeOK, Restart, host, log

LEMMA NotifyKeeps == ASSUME IInv, Notify PROVE IInv'
<1>1. /\ daemon.job \in JobId
      /\ daemon.next \in {"requests", "timeouts", "poll", "reconcile", "recover"}
  BY DEF Notify, IInv, DaemonInv
<1>2. daemon.todo \in SUBSET JobId /\ Part = daemon.next
  BY DEF Notify, IInv, TypeOK, Daemon, Part
<1>3. /\ daemon.next = "recover" =>
            /\ daemon.todo \subseteq Running(jobs) \ Tracked
            /\ Running(jobs) \subseteq Tracked \cup daemon.todo
      /\ daemon.next \in {"timeouts", "poll", "reconcile"} => daemon.todo \subseteq Tracked
  BY <1>2 DEF Notify, IInv, DaemonInv, RunnerMatchesTable, Recovering
<1>4. daemon.next # "recover" => Running(jobs) \subseteq Tracked
  BY Attended DEF Notify, Recovering
<1>5. daemon.next \in Phase
  BY <1>1 DEF Phase
<1>6. daemon' = GotoWith(daemon.next, daemon.todo) /\ UNCHANGED <<jobs, runner>>
  BY DEF Notify
<1>7. RunnerMatchesTable' /\ DaemonInv' /\ daemon' \in Daemon
  BY <1>1, <1>2, <1>3, <1>4, <1>5, <1>6, MoveKeeps
<1>8. /\ notified' \in [JobId -> Nat]
      /\ oom' \in [JobId -> BOOLEAN]
      /\ acked' \subseteq JobId
  BY <1>1 DEF Notify, IInv, TypeOK, CgroupAfterCleanup
<1>9. QED
  BY <1>7, <1>8 DEF IInv, TypeOK, Notify

LEMMA WarnKeeps == ASSUME IInv, NEW j \in JobId, Warn(j) PROVE IInv'
<1> DEFINE w == jobs[j].req.limited /\ jobs[j].req.warn /\ clock[j] = "warn"
<1>1. /\ daemon.pc = "warnings" /\ daemon \in Daemon /\ j \in Tracked
      /\ daemon' = [daemon EXCEPT !.todo = daemon.todo \ {j}]
      /\ runner' = [runner EXCEPT ![j].warned = w]
      /\ UNCHANGED <<jobs, host, log>>
  BY DEF Warn, IInv, TypeOK, DaemonInv, Part
<1>2. runner[j] \in TrackedRecord
  BY <1>1 DEF Tracked, NotTracked, IInv, TypeOK
<1>3. w \in BOOLEAN
  OBVIOUS
<1> HIDE DEF w
<1>4. /\ [runner[j] EXCEPT !.warned = w] \in TrackedRecord
      /\ [runner[j] EXCEPT !.warned = w].handle = runner[j].handle
      /\ [runner[j] EXCEPT !.warned = w].group = runner[j].group
  BY <1>2, <1>3 DEF TrackedRecord
<1>5. /\ runner' \in [JobId -> TrackedRecord \cup {NotTracked}]
      /\ \A i \in JobId : runner'[i].handle = runner[i].handle /\ runner'[i].group = runner[i].group
  BY <1>1, <1>4 DEF IInv, TypeOK
<1>6. Tracked' = Tracked /\ Running(jobs)' = Running(jobs)
  BY <1>1, <1>5 DEF Tracked, Running, InState
<1>7. daemon' \in Daemon /\ daemon'.pc = daemon.pc /\ daemon'.next = daemon.next
      /\ daemon'.todo = daemon.todo \ {j}
  BY <1>1 DEF Daemon
<1>8. RunnerMatchesTable'
  <2>1. Serving /\ ~Recovering /\ ~Recovering'
    BY <1>1, <1>7 DEF Serving, Recovering, IInv, DaemonInv
  <2>2. QED
    BY <1>1, <1>5, <1>6, <2>1 DEF IInv, RunnerMatchesTable, Tracked
<1>9. DaemonInv'
  BY <1>1, <1>6, <1>7 DEF IInv, DaemonInv, Part
<1>10. QED
  BY <1>1, <1>5, <1>7, <1>8, <1>9 DEF IInv, TypeOK, host, log

----------------------------------------------------------------------------
(* One row changes *)

(***************************************************************************)
(* A row may take any state but RUNNING, provided the runner does not      *)
(* track it and the other jobs are served as before.                       *)
(***************************************************************************)
LEMMA RowLeaves ==
    ASSUME IInv, NEW j \in JobId,
           jobs'[j].state # "RUNNING",
           \A i \in JobId \ {j} : jobs'[i] = jobs[i] /\ runner'[i] = runner[i],
           j \notin Tracked',
           Serving' => Serving,
           Recovering' => Recovering /\ daemon.todo \ {j} \subseteq daemon'.todo
    PROVE  RunnerMatchesTable' /\ Tracked' = Tracked \ {j} /\ Running(jobs)' = Running(jobs) \ {j}
<1>1. Tracked' = Tracked \ {j} /\ Running(jobs)' = Running(jobs) \ {j}
  BY DEF Tracked, Running, InState
<1>2. \A i \in Tracked' : jobs'[i].state = "RUNNING" /\ jobs'[i].group = runner'[i].group
  BY <1>1 DEF IInv, RunnerMatchesTable, Tracked
<1>3. /\ Serving' => Running(jobs)' \subseteq Tracked'
      /\ Recovering' => Running(jobs)' \subseteq Tracked' \cup daemon'.todo
  BY <1>1 DEF IInv, RunnerMatchesTable
<1>4. QED
  BY <1>1, <1>2, <1>3 DEF RunnerMatchesTable

(* A job that is not RUNNING is not tracked. *)
LEMMA NotRunningNotTracked ==
    ASSUME IInv, NEW j \in JobId, jobs[j].state # "RUNNING"
    PROVE  j \notin Tracked
BY DEF IInv, RunnerMatchesTable

LEMMA SubmitBatchKeeps ==
    ASSUME IInv, NEW j \in JobId, NEW r \in Requests, SubmitBatch(j, r) PROVE IInv'
<1>1. /\ jobs' \in Table
      /\ jobs'[j].state = "PENDING"
      /\ \A i \in JobId \ {j} : jobs'[i] = jobs[i]
  <2>1. jobs \in Table /\ r.tasks = 0 /\ jobs' = CreateJob(jobs, j, r)
    BY RuntimeAssumption DEF IInv, TypeOK, SubmitBatch
  <2>2. PendingRow(r, 0).state = "PENDING"
    BY DEF PendingRow
  <2>3. QED
    BY <2>1, <2>2, CreateJobFact
<1>2. /\ daemon.pc = "requests" /\ daemon.next = "requests"
      /\ jobs[j].state # "RUNNING" /\ UNCHANGED <<runner, host, log>>
  BY DEF SubmitBatch, IInv, DaemonInv, IsNextId, Rows
<1>3. /\ daemon' = [pc |-> "requestPass", todo |-> {}, job |-> 0, group |-> NoGroup,
                    handle |-> "none", final |-> "none", next |-> "requests"]
      /\ daemon' \in Daemon
  BY GotoRecord DEF SubmitBatch, Phase
<1>4. j \notin Tracked /\ Tracked' = Tracked
  BY <1>2, NotRunningNotTracked DEF Tracked
<1>5. Serving /\ ~Recovering'
  BY <1>2, <1>3 DEF Serving, Recovering
<1>6. RunnerMatchesTable'
  BY <1>1, <1>2, <1>4, <1>5, RowLeaves
<1>7. DaemonInv'
  BY <1>3 DEF DaemonInv, Part
<1>8. QED
  BY <1>1, <1>2, <1>3, <1>6, <1>7 DEF IInv, TypeOK, host, log

LEMMA CancelWaitingKeeps == ASSUME IInv, NEW j \in JobId, CancelWaiting(j) PROVE IInv'
<1>1. /\ daemon.pc = "requests" /\ daemon.next = "requests" /\ jobs[j].state = "PENDING"
      /\ UNCHANGED <<runner, daemon, host, notified, crashes, failures>>
      /\ acked' = acked \cup {j}
  BY DEF CancelWaiting, IInv, DaemonInv
<1>2. /\ jobs' \in Table
      /\ jobs'[j].state = "CANCELLED"
      /\ \A i \in JobId \ {j} : jobs'[i] = jobs[i]
  <2>1. jobs \in Table /\ jobs[j] \in Row /\ "CANCELLED" \in State
    BY <1>1, ActiveRow DEF IInv, TypeOK, State, Terminal
  <2>2. jobs' = MarkState(jobs, j, "CANCELLED")
    BY DEF CancelWaiting, CancelPending
  <2>3. QED
    BY <2>1, <2>2, MarkStateFact
<1>3. Tracked' = Tracked /\ j \notin Tracked
  BY <1>1, NotRunningNotTracked DEF Tracked
<1>4. Serving /\ ~Recovering /\ ~Recovering'
  BY <1>1 DEF Serving, Recovering
<1>5. RunnerMatchesTable'
  BY <1>1, <1>2, <1>3, <1>4, RowLeaves
<1>6. DaemonInv'
  BY <1>1 DEF IInv, DaemonInv, Part
<1>7. QED
  BY <1>1, <1>2, <1>5, <1>6 DEF IInv, TypeOK, host

(* terminate_running_job stops a tracked job, in a request or in the loop. *)
LEMMA TerminateKeeps ==
    ASSUME IInv, NEW j \in Tracked, NEW final \in {"CANCELLED", "TIMEOUT"},
           NEW S \in SUBSET daemon.todo,
           daemon.pc \in {"requests", "timeouts"},
           daemon.pc = "timeouts" => S \subseteq daemon.todo \ {j},
           Terminate(j, final, S)
    PROVE  IInv'
<1>1. /\ j \in JobId /\ daemon \in Daemon /\ runner[j].group \in Groups
      /\ runner[j].handle \in {"child", "adopted"}
      /\ jobs[j].state = "RUNNING" /\ S \in SUBSET JobId
      /\ UNCHANGED <<host, log>>
  BY DEF IInv, TypeOK, RunnerMatchesTable, Tracked, NotTracked, TrackedRecord, Daemon, Terminate
<1>2. /\ jobs' \in Table
      /\ jobs'[j].state = "COMPLETING"
      /\ \A i \in JobId \ {j} : jobs'[i] = jobs[i]
  <2>1. jobs \in Table /\ jobs[j] \in Row /\ "COMPLETING" \in State
    BY <1>1, ActiveRow DEF IInv, TypeOK, State
  <2>2. jobs' = MarkState(jobs, j, "COMPLETING")
    BY DEF Terminate
  <2>3. QED
    BY <1>1, <2>1, <2>2, MarkStateFact
<1>3. /\ runner' \in [JobId -> TrackedRecord \cup {NotTracked}]
      /\ runner'[j] = NotTracked
      /\ \A i \in JobId \ {j} : runner'[i] = runner[i]
  BY <1>1 DEF IInv, TypeOK, Terminate
<1>4. daemon' = [pc |-> "grace", todo |-> S, job |-> j, group |-> runner[j].group,
                 handle |-> runner[j].handle, final |-> final, next |-> daemon.pc]
  BY <1>1 DEF Terminate, Daemon
<1>5. daemon' \in Daemon
  BY <1>1, <1>4 DEF Daemon, Phase, Terminal
<1>6. j \notin Tracked'
  BY <1>3 DEF Tracked, NotTracked
<1>7. Serving /\ ~Recovering'
  BY <1>4 DEF Serving, Recovering, IInv, DaemonInv
<1>8. RunnerMatchesTable' /\ Tracked' = Tracked \ {j}
  BY <1>1, <1>2, <1>3, <1>6, <1>7, RowLeaves
<1>9. DaemonInv'
  BY <1>1, <1>2, <1>4, <1>8 DEF IInv, DaemonInv, Part
<1>10. QED
  BY <1>1, <1>2, <1>3, <1>5, <1>8, <1>9 DEF IInv, TypeOK, host, log

(* A finished row is terminal, or PENDING when it was requeued. *)
LEMMA MarkFinishedLeaves ==
    ASSUME IInv, NEW j \in JobId, jobs[j].state # "NONE", NEW final \in Terminal
    PROVE  /\ MarkFinished(jobs, j, final) \in Table
           /\ MarkFinished(jobs, j, final)[j].state \in Terminal \cup {"PENDING"}
           /\ \A i \in JobId \ {j} : MarkFinished(jobs, j, final)[i] = jobs[i]
<1>1. jobs \in Table /\ jobs[j] \in Row
  BY ActiveRow DEF IInv, TypeOK
<1>2. /\ MarkFinished(jobs, j, final) \in Table
      /\ MarkFinished(jobs, j, final)[j] =
           IF ShouldAutoRequeue(jobs[j], final) THEN Requeued(jobs[j]) ELSE Finished(jobs[j], final)
      /\ \A i \in JobId \ {j} : MarkFinished(jobs, j, final)[i] = jobs[i]
  BY <1>1, MarkFinishedFact
<1>3. Finished(jobs[j], final).state = final /\ Requeued(jobs[j]).state = "PENDING"
  BY <1>1, FinishedColumns
<1>4. QED
  BY <1>2, <1>3

(* The stopped job ends: mark_finished, and the notification comes next. *)
LEMMA EndJobKeeps ==
    ASSUME IInv, daemon.pc \in {"grace", "kill"}, EndJob(daemon.final), UNCHANGED runner
    PROVE  /\ RunnerMatchesTable' /\ DaemonInv'
           /\ jobs' \in Table /\ daemon' \in Daemon
<1> DEFINE j == daemon.job
           actual == IF oom[j] THEN "OUT_OF_MEMORY" ELSE daemon.final
<1>1. /\ j \in JobId /\ daemon \in Daemon
      /\ jobs[j].state = "COMPLETING"
      /\ daemon.final \in Terminal
      /\ daemon.next \in {"requests", "timeouts"}
  BY DEF IInv, TypeOK, DaemonInv, Terminal
<1>2. /\ daemon' = [daemon EXCEPT !.pc = "notify"]
      /\ jobs' = MarkFinished(jobs, j, actual)
      /\ actual \in Terminal
  BY <1>1 DEF EndJob, Terminal
<1> HIDE DEF j, actual
<1>3. /\ jobs' \in Table
      /\ jobs'[j].state # "RUNNING"
      /\ \A i \in JobId \ {j} : jobs'[i] = jobs[i]
  <2>1. jobs[j].state # "NONE" /\ "RUNNING" \notin Terminal \cup {"PENDING"}
    BY <1>1 DEF Terminal
  <2>2. QED
    BY <1>1, <1>2, <2>1, MarkFinishedLeaves
<1>4. /\ daemon' \in Daemon /\ daemon'.pc = "notify" /\ daemon'.job = daemon.job
      /\ daemon'.next = daemon.next /\ daemon'.todo = daemon.todo
  BY <1>1, <1>2 DEF Daemon, Phase
<1>5. j \notin Tracked /\ Tracked' = Tracked
  BY <1>1, NotRunningNotTracked DEF Tracked
<1>6. Serving /\ ~Recovering'
  BY <1>1, <1>4 DEF Serving, Recovering
<1>7. RunnerMatchesTable'
  BY <1>1, <1>3, <1>5, <1>6, RowLeaves
<1>8. DaemonInv'
  BY <1>1, <1>4, <1>5 DEF IInv, DaemonInv, Part, j
<1>9. QED
  BY <1>3, <1>4, <1>7, <1>8

(* Reaping a child changes its process and no row. *)
LEMMA ReapType ==
    ASSUME IInv, NEW g \in Groups, proc' = [proc EXCEPT ![g] = Reap(proc[g])]
    PROVE  proc' \in [Groups -> Proc]
<1>1. proc[g] \in Proc
  BY DEF IInv, TypeOK
<1>2. Reap(proc[g]) \in Proc
  BY <1>1 DEF Reap, Proc
<1>3. QED
  BY <1>2 DEF IInv, TypeOK

LEMMA GraceEndsKeeps == ASSUME IInv, GraceEnds PROVE IInv'
<1>1. daemon.pc = "grace" /\ daemon.group \in Groups /\ daemon \in Daemon
      /\ daemon.next \in {"requests", "timeouts"}
      /\ UNCHANGED <<runner, oom, clock, notified, acked, crashes, failures>>
  BY DEF GraceEnds, IInv, TypeOK, DaemonInv, log
<1>2. CASE /\ EndJob(daemon.final)
           /\ proc' = [proc EXCEPT ![daemon.group] = Reap(proc[daemon.group])] \/ UNCHANGED proc
  <2>1. proc' \in [Groups -> Proc]
    <3>1. CASE UNCHANGED proc
      BY <3>1 DEF IInv, TypeOK
    <3>2. CASE ~UNCHANGED proc
      BY <1>1, <1>2, <3>2, ReapType
    <3>3. QED
      BY <3>1, <3>2
  <2>2. /\ RunnerMatchesTable' /\ DaemonInv'
        /\ jobs' \in Table /\ daemon' \in Daemon
    BY <1>1, <1>2, EndJobKeeps
  <2>3. QED
    BY <1>1, <2>1, <2>2 DEF IInv, TypeOK
<1>3. CASE /\ proc' = [proc EXCEPT ![daemon.group].killed = TRUE]
           /\ daemon' = [daemon EXCEPT !.pc = "kill"]
           /\ UNCHANGED jobs
  <2>1. proc' \in [Groups -> Proc]
    <3>1. proc[daemon.group] \in Proc
      BY <1>1 DEF IInv, TypeOK
    <3>2. [proc[daemon.group] EXCEPT !.killed = TRUE] \in Proc
      BY <3>1 DEF Proc
    <3>3. QED
      BY <1>3, <3>2 DEF IInv, TypeOK
  <2>2. /\ daemon' \in Daemon /\ daemon'.pc = "kill" /\ daemon'.next = daemon.next
        /\ daemon'.todo = daemon.todo /\ daemon'.job = daemon.job
        /\ daemon'.group = daemon.group /\ daemon'.final = daemon.final
    BY <1>1, <1>3 DEF Daemon, Phase
  <2>3. Tracked' = Tracked /\ Running(jobs)' = Running(jobs)
    BY <1>1, <1>3 DEF Tracked, Running, InState
  <2>4. Serving /\ ~Recovering'
    BY <1>1, <2>2 DEF Serving, Recovering
  <2>5. RunnerMatchesTable'
    BY <1>1, <1>3, <2>3, <2>4 DEF IInv, RunnerMatchesTable
  <2>6. DaemonInv'
    BY <1>1, <1>3, <2>2, <2>3 DEF IInv, DaemonInv, Part
  <2>7. QED
    BY <1>1, <1>3, <2>1, <2>2, <2>5, <2>6 DEF IInv, TypeOK
<1>4. QED
  BY <1>2, <1>3 DEF GraceEnds

LEMMA KillEndsKeeps == ASSUME IInv, KillEnds PROVE IInv'
<1>1. daemon.pc = "kill" /\ daemon.group \in Groups /\ EndJob(daemon.final)
      /\ UNCHANGED <<runner, oom, clock, notified, acked, crashes, failures>>
  BY DEF KillEnds, IInv, DaemonInv, log
<1>2. proc' \in [Groups -> Proc]
  <2>1. CASE UNCHANGED proc
    BY <2>1 DEF IInv, TypeOK
  <2>2. CASE ~UNCHANGED proc
    <3>1. proc' = [proc EXCEPT ![daemon.group] = Reap(proc[daemon.group])]
      BY <2>2 DEF KillEnds
    <3>2. QED
      BY <1>1, <3>1, ReapType
  <2>3. QED
    BY <2>1, <2>2
<1>3. /\ RunnerMatchesTable' /\ DaemonInv'
      /\ jobs' \in Table /\ daemon' \in Daemon
  BY <1>1, EndJobKeeps
<1>4. QED
  BY <1>1, <1>2, <1>3 DEF IInv, TypeOK

----------------------------------------------------------------------------
(* Poll, reconcile_adopted and recover look at one job after the other *)

(* The job is left for the next loop. *)
LEMMA SkipKeeps ==
    ASSUME IInv, NEW j \in JobId, Skip(j), j \in daemon.todo,
           daemon.pc \in {"poll", "reconcile"}
    PROVE  RunnerMatchesTable' /\ DaemonInv' /\ daemon' \in Daemon
<1>1. daemon \in Daemon /\ daemon' = [daemon EXCEPT !.todo = daemon.todo \ {j}]
      /\ UNCHANGED <<jobs, runner>>
  BY DEF Skip, IInv, TypeOK
<1>2. /\ daemon' \in Daemon /\ daemon'.pc = daemon.pc /\ daemon'.next = daemon.next
      /\ daemon'.todo = daemon.todo \ {j}
  BY <1>1 DEF Daemon
<1>3. Tracked' = Tracked /\ Running(jobs)' = Running(jobs)
  BY <1>1 DEF Tracked, Running, InState
<1>4. Serving /\ ~Recovering'
  BY <1>2 DEF Serving, Recovering, IInv, DaemonInv
<1>5. RunnerMatchesTable'
  BY <1>1, <1>3, <1>4 DEF IInv, RunnerMatchesTable
<1>6. DaemonInv'
  BY <1>1, <1>2, <1>3 DEF IInv, DaemonInv, Part
<1>7. QED
  BY <1>2, <1>5, <1>6

(* The job has ended: it is recorded, and the runner does not track it. *)
LEMMA RecordKeeps ==
    ASSUME IInv, NEW j \in JobId, NEW final \in Terminal, Record(j, final),
           j \in daemon.todo, daemon.pc \in {"poll", "reconcile", "recover"},
           runner' = [runner EXCEPT ![j] = NotTracked]
    PROVE  /\ RunnerMatchesTable' /\ DaemonInv'
           /\ jobs' \in Table /\ daemon' \in Daemon
           /\ runner' \in [JobId -> TrackedRecord \cup {NotTracked}]
<1>1. /\ daemon \in Daemon
      /\ daemon.pc \in {"poll", "reconcile"} => daemon.todo \subseteq Tracked
      /\ daemon.pc = "recover" => daemon.todo \subseteq Running(jobs) \ Tracked
  BY DEF IInv, TypeOK, DaemonInv, Part
<1>2. jobs[j].state = "RUNNING"
  BY <1>1 DEF IInv, RunnerMatchesTable, Running, InState
<1>3. /\ jobs' \in Table
      /\ jobs'[j].state # "RUNNING"
      /\ \A i \in JobId \ {j} : jobs'[i] = jobs[i]
  <2>1. jobs' = MarkFinished(jobs, j, final) /\ "RUNNING" \notin Terminal \cup {"PENDING"}
    BY DEF Record, Terminal
  <2>2. QED
    BY <1>2, <2>1, MarkFinishedLeaves
<1>4. /\ runner' \in [JobId -> TrackedRecord \cup {NotTracked}]
      /\ runner'[j] = NotTracked
      /\ \A i \in JobId \ {j} : runner'[i] = runner[i]
  BY DEF IInv, TypeOK
<1>5. j \notin Tracked'
  BY <1>4 DEF Tracked, NotTracked
<1>6. /\ daemon' \in Daemon /\ daemon'.pc = "notify" /\ daemon'.job = j
      /\ daemon'.todo = daemon.todo \ {j} /\ daemon'.next = daemon.pc
  <2>1. daemon' = [daemon EXCEPT !.pc = "notify", !.job = j, !.todo = daemon.todo \ {j},
                                 !.next = daemon.pc]
    BY DEF Record
  <2>2. QED
    BY <1>1, <2>1 DEF Daemon, Phase
<1>7. /\ Serving' => Serving
      /\ Recovering' => Recovering /\ daemon.todo \ {j} \subseteq daemon'.todo
  BY <1>6 DEF Serving, Recovering, IInv, DaemonInv
<1>8. RunnerMatchesTable' /\ Tracked' = Tracked \ {j} /\ Running(jobs)' = Running(jobs) \ {j}
  BY <1>3, <1>4, <1>5, <1>7, RowLeaves
<1>9. DaemonInv'
  BY <1>1, <1>6, <1>8 DEF DaemonInv, Part
<1>10. QED
  BY <1>3, <1>4, <1>6, <1>8, <1>9

LEMMA PollKeeps == ASSUME IInv, NEW j \in JobId, Poll(j) PROVE IInv'
<1> DEFINE g == runner[j].group
           final == IF oom[j] THEN "OUT_OF_MEMORY"
                    ELSE IF proc[g].leader = "zombie" /\ proc[g].code = "ok"
                    THEN "COMPLETED" ELSE "FAILED"
<1>1. daemon.pc = "poll" /\ j \in daemon.todo
      /\ UNCHANGED <<oom, clock, notified, acked, crashes, failures>>
  BY DEF Poll, log
<1>2. j \in Tracked /\ g \in Groups /\ final \in Terminal
  BY <1>1 DEF IInv, TypeOK, DaemonInv, Part, Tracked, NotTracked, TrackedRecord, Terminal
<1>3. CASE runner[j].handle = "child" /\ LeaderReapable(g)
  <2>1. /\ Record(j, final)
        /\ proc' = [proc EXCEPT ![g] = Reap(proc[g])]
        /\ runner' = [runner EXCEPT ![j] = NotTracked]
    BY <1>3 DEF Poll
  <2> HIDE DEF g, final
  <2>2. proc' \in [Groups -> Proc]
    BY <1>2, <2>1, ReapType
  <2>3. /\ RunnerMatchesTable' /\ DaemonInv'
        /\ jobs' \in Table /\ daemon' \in Daemon
        /\ runner' \in [JobId -> TrackedRecord \cup {NotTracked}]
    BY <1>1, <1>2, <2>1, RecordKeeps
  <2>4. QED
    BY <1>1, <2>2, <2>3 DEF IInv, TypeOK
<1>4. CASE ~(runner[j].handle = "child" /\ LeaderReapable(g))
  <2>1. Skip(j) /\ UNCHANGED proc
    BY <1>4 DEF Poll
  <2>2. RunnerMatchesTable' /\ DaemonInv' /\ daemon' \in Daemon
    BY <1>1, <2>1, SkipKeeps
  <2>3. QED
    BY <1>1, <2>1, <2>2 DEF IInv, TypeOK, Skip
<1>5. QED
  BY <1>3, <1>4

LEMMA ReconcileKeeps == ASSUME IInv, NEW j \in JobId, Reconcile(j) PROVE IInv'
<1> DEFINE final == IF oom[j] THEN "OUT_OF_MEMORY" ELSE FileState(j)
           ended == runner[j].handle = "adopted" /\ ~GroupAlive(runner[j].group)
<1>1. daemon.pc = "reconcile" /\ j \in daemon.todo /\ UNCHANGED <<host, log>>
  BY DEF Reconcile
<1>2. final \in Terminal
  BY DEF FileState, StatusFile, Terminal
<1>3. CASE ended
  <2>1. Record(j, final) /\ runner' = [runner EXCEPT ![j] = NotTracked]
    BY <1>3 DEF Reconcile
  <2> HIDE DEF final
  <2>2. /\ RunnerMatchesTable' /\ DaemonInv'
        /\ jobs' \in Table /\ daemon' \in Daemon
        /\ runner' \in [JobId -> TrackedRecord \cup {NotTracked}]
    BY <1>1, <1>2, <2>1, RecordKeeps
  <2>3. QED
    BY <1>1, <2>2 DEF IInv, TypeOK, host, log
<1>4. CASE ~ended
  <2>1. Skip(j)
    BY <1>4 DEF Reconcile
  <2>2. RunnerMatchesTable' /\ DaemonInv' /\ daemon' \in Daemon
    BY <1>1, <2>1, SkipKeeps
  <2>3. QED
    BY <1>1, <2>1, <2>2 DEF IInv, TypeOK, Skip, host, log
<1>5. QED
  BY <1>3, <1>4

LEMMA RecoverKeeps == ASSUME IInv, NEW j \in JobId, Recover(j) PROVE IInv'
<1> DEFINE final == IF jobs[j].group = NoGroup THEN "FAILED" ELSE FileState(j)
           alive == jobs[j].group # NoGroup /\ GroupAlive(jobs[j].group)
<1>1. /\ daemon.pc = "recover" /\ j \in daemon.todo /\ UNCHANGED <<host, log>>
      /\ daemon \in Daemon /\ daemon.todo \subseteq Running(jobs) \ Tracked
  BY DEF Recover, IInv, TypeOK, DaemonInv, Part
<1>2. jobs[j].state = "RUNNING" /\ j \notin Tracked /\ jobs[j] \in Row
  BY <1>1, ActiveRow DEF Running, InState, IInv
<1>3. CASE ~alive
  <2>1. Record(j, final) /\ UNCHANGED runner /\ final \in Terminal
    BY <1>3 DEF Recover, FileState, StatusFile, Terminal
  <2>2. runner' = [runner EXCEPT ![j] = NotTracked]
    BY <1>2, <2>1 DEF Tracked, TrackedRecord, IInv, TypeOK
  <2> HIDE DEF final
  <2>3. /\ RunnerMatchesTable' /\ DaemonInv'
        /\ jobs' \in Table /\ daemon' \in Daemon
        /\ runner' \in [JobId -> TrackedRecord \cup {NotTracked}]
    BY <1>1, <2>1, <2>2, RecordKeeps
  <2>4. QED
    BY <1>1, <2>3 DEF IInv, TypeOK, host, log
<1>4. CASE alive
  <2> DEFINE g == jobs[j].group
             r == [handle |-> "adopted", group |-> g, warned |-> FALSE]
  <2>1. /\ runner' = [runner EXCEPT ![j] = r]
        /\ daemon' = [daemon EXCEPT !.todo = daemon.todo \ {j}]
        /\ UNCHANGED jobs
    BY <1>4 DEF Recover
  <2>2. g \in Groups
    BY <1>2, <1>4, RowColumns
  <2>3. r \in TrackedRecord
    BY <2>2 DEF TrackedRecord
  <2>4. /\ runner' \in [JobId -> TrackedRecord \cup {NotTracked}]
        /\ runner'[j].handle = "adopted" /\ runner'[j].group = g
        /\ \A i \in JobId \ {j} : runner'[i] = runner[i]
    BY <2>1, <2>3 DEF IInv, TypeOK
  <2>5. Tracked' = Tracked \cup {j} /\ Running(jobs)' = Running(jobs)
    BY <2>1, <2>4 DEF Tracked, Running, InState
  <2>6. /\ daemon' \in Daemon /\ daemon'.pc = "recover" /\ daemon'.next = daemon.next
        /\ daemon'.todo = daemon.todo \ {j}
    BY <1>1, <2>1 DEF Daemon
  <2>7. RunnerMatchesTable'
    <3>1. \A i \in Tracked' : jobs'[i].state = "RUNNING" /\ jobs'[i].group = runner'[i].group
      BY <1>2, <2>1, <2>4, <2>5 DEF IInv, RunnerMatchesTable, Tracked
    <3>2. ~Serving' /\ Running(jobs)' \subseteq Tracked' \cup daemon'.todo
      BY <1>1, <2>5, <2>6 DEF IInv, RunnerMatchesTable, Serving, Recovering
    <3>3. QED
      BY <3>1, <3>2 DEF RunnerMatchesTable
  <2>8. DaemonInv'
    BY <1>1, <2>5, <2>6 DEF IInv, DaemonInv, Part
  <2>9. QED
    BY <1>1, <2>1, <2>4, <2>6, <2>7, <2>8 DEF IInv, TypeOK, host, log
<1>5. QED
  BY <1>3, <1>4

----------------------------------------------------------------------------
(* Every step preserves the invariant. *)
LEMMA Inductive == IInv /\ [Next]_vars => IInv'
<1> SUFFICES ASSUME IInv, [Next]_vars PROVE IInv'
  OBVIOUS
<1>1. CASE Host
  BY <1>1, HostKeeps
<1>2. CASE ClientRequest
  <2>1. ASSUME NEW j \in JobId, CancelTracked(j)
        PROVE  IInv'
    BY <2>1, TerminateKeeps DEF CancelTracked
  <2>2. QED
    BY <1>2, <2>1, SubmitBatchKeeps, CancelWaitingKeeps, UpdateTimeLimitKeeps DEF ClientRequest
<1>3. CASE Loop
  <2>1. ASSUME NEW j \in JobId, TimeOut(j)
        PROVE  IInv'
    BY <2>1, TerminateKeeps DEF TimeOut, IInv, DaemonInv, Part
  <2>2. QED
    BY <1>3, <2>1, LaunchSpawnKeeps, LaunchMarkKeeps, PassEndKeeps, GraceEndsKeeps,
       KillEndsKeeps, NotifyKeeps, NextPartKeeps, WarnKeeps, PollKeeps, ReconcileKeeps,
       RecoverKeeps
    DEF Loop, Launch
<1>4. CASE RequestsEnd \/ LaunchFails \/ Crash \/ Restart
  BY <1>4, RequestsEndKeeps, LaunchFailsKeeps, CrashKeeps, RestartKeeps
<1>5. CASE UNCHANGED vars
  BY <1>5 DEF vars, IInv, TypeOK, RunnerMatchesTable, DaemonInv, Part, Tracked, Serving,
     Recovering
<1>6. QED
  BY <1>1, <1>2, <1>3, <1>4, <1>5 DEF Next

(* In every state the types are right and DaemonInv holds. *)
LEMMA Invariant == Spec => []IInv
<1>1. Init => IInv
  BY InitHolds
<1>2. IInv /\ [Next]_vars => IInv'
  BY Inductive
<1>3. QED
  BY <1>1, <1>2, PTL DEF Spec

(* The daemon's state, its tables and the host's processes keep their      *)
(* types: no path writes a state, group or outcome that does not exist.    *)
THEOREM TypeCorrect == Spec => []TypeOK
<1>1. IInv => TypeOK
  BY DEF IInv
<1>2. QED
  BY <1>1, Invariant, PTL

(* Runner.jobs and the jobs table agree after any sequence of launches,    *)
(* exits, cancellations, time limits, crashes and recoveries.              *)
THEOREM RunnerAgrees == Spec => []RunnerMatchesTable
<1>1. IInv => RunnerMatchesTable
  BY DEF IInv
<1>2. QED
  BY <1>1, Invariant, PTL

----------------------------------------------------------------------------
(***************************************************************************)
(* The ways a step of the runtime may change the table.  DaemonInv is what *)
(* excludes the others: whatever the daemon has slept through or waited    *)
(* for, the row it writes is still in the state it was picked in.          *)
(***************************************************************************)
Inserted(j) ==
    jobs[j].state = "NONE" /\ \E r \in Requests : jobs' = CreateJob(jobs, j, r)
Launched(j) ==
    jobs[j].state = "PENDING" /\ \E g \in Groups : jobs' = MarkRunning(jobs, j, g, {})
Cancelled(j) ==
    jobs[j].state = "PENDING" /\ jobs' = MarkState(jobs, j, "CANCELLED")
Stopped(j) ==
    jobs[j].state = "RUNNING" /\ jobs' = MarkState(jobs, j, "COMPLETING")
EndsWith(j, final) ==
    \/ jobs[j].state = "RUNNING" /\ final \in {"COMPLETED", "FAILED", "OUT_OF_MEMORY"}
    \/ jobs[j].state = "COMPLETING" /\ final \in {"CANCELLED", "TIMEOUT", "OUT_OF_MEMORY"}
Ended(j) ==
    \E final \in Terminal : EndsWith(j, final) /\ jobs' = MarkFinished(jobs, j, final)
RowStep(j) == Inserted(j) \/ Launched(j) \/ Cancelled(j) \/ Stopped(j) \/ Ended(j)

LEMMA TableSteps == ASSUME IInv, Next PROVE UNCHANGED jobs \/ \E j \in JobId : RowStep(j)
<1>1. CASE Host
  BY <1>1 DEF Host, LeaderReturns, LeaderDies, RestExits, KilledDies, OomEvent,
         TimePasses
<1>2. CASE ClientRequest
  <2>1. ASSUME NEW j \in JobId, NEW r \in Requests, SubmitBatch(j, r)
        PROVE  RowStep(j)
    BY <2>1 DEF SubmitBatch, IsNextId, Rows, RowStep, Inserted
  <2>2. ASSUME NEW j \in JobId, CancelWaiting(j)
        PROVE  RowStep(j)
    BY <2>2 DEF CancelWaiting, CancelPending, RowStep, Cancelled
  <2>3. ASSUME NEW j \in JobId, CancelTracked(j)
        PROVE  RowStep(j)
    BY <2>3 DEF CancelTracked, Terminate, RowStep, Stopped, IInv, RunnerMatchesTable
  <2>4. ASSUME NEW j \in JobId, NEW c \in {"early", "warn", "over"}, UpdateTimeLimit(j, c)
        PROVE  UNCHANGED jobs
    BY <2>4 DEF UpdateTimeLimit
  <2>5. QED
    BY <1>2, <2>1, <2>2, <2>3, <2>4 DEF ClientRequest
<1>3. CASE Loop
  <2>1. CASE (\E j \in JobId, g \in Groups : LaunchSpawn(j, g)) \/ PassEnd \/ Notify \/ NextPart
    BY <2>1 DEF LaunchSpawn, PassEnd, Notify, NextPart
  <2>2. CASE LaunchMark
    <3>1. daemon.job \in JobId /\ daemon.group \in Groups
          /\ jobs[daemon.job].state = "PENDING"
      BY <2>2 DEF LaunchMark, IInv, DaemonInv
    <3>2. jobs' = MarkRunning(jobs, daemon.job, daemon.group, {})
      BY <2>2 DEF LaunchMark
    <3>3. QED
      BY <3>1, <3>2 DEF RowStep, Launched
  <2>3. CASE GraceEnds \/ KillEnds
    <3>1. CASE UNCHANGED jobs
      BY <3>1
    <3>2. CASE ~UNCHANGED jobs
      <4> DEFINE final == IF oom[daemon.job] THEN "OUT_OF_MEMORY" ELSE daemon.final
      <4>1. daemon.job \in JobId /\ jobs[daemon.job].state = "COMPLETING"
            /\ daemon.final \in {"CANCELLED", "TIMEOUT"}
        BY <2>3 DEF GraceEnds, KillEnds, IInv, DaemonInv
      <4>2. jobs' = MarkFinished(jobs, daemon.job, final)
        BY <2>3, <3>2 DEF GraceEnds, KillEnds, EndJob
      <4>3. final \in Terminal /\ EndsWith(daemon.job, final)
        BY <4>1 DEF EndsWith, Terminal
      <4> HIDE DEF final
      <4>4. Ended(daemon.job)
        BY <4>2, <4>3 DEF Ended
      <4>5. QED
        BY <4>1, <4>4 DEF RowStep
    <3>3. QED
      BY <3>1, <3>2
  <2>4. ASSUME NEW j \in JobId, TimeOut(j)
        PROVE  RowStep(j)
    BY <2>4 DEF TimeOut, Terminate, RowStep, Stopped, IInv, RunnerMatchesTable, DaemonInv, Part
  <2>5. ASSUME NEW j \in JobId, Warn(j)
        PROVE  UNCHANGED jobs
    BY <2>5 DEF Warn
  <2>6. ASSUME NEW j \in JobId, NEW final \in {"COMPLETED", "FAILED", "OUT_OF_MEMORY"},
               Record(j, final), j \in daemon.todo,
               daemon.pc \in {"poll", "reconcile", "recover"}
        PROVE  RowStep(j)
    <3>1. jobs[j].state = "RUNNING"
      BY <2>6 DEF IInv, RunnerMatchesTable, DaemonInv, Part, Running, InState
    <3>2. QED
      BY <2>6, <3>1 DEF Record, RowStep, Ended, EndsWith, Terminal
  <2>7. ASSUME NEW j \in JobId, Poll(j)
        PROVE  UNCHANGED jobs \/ RowStep(j)
    BY <2>6, <2>7 DEF Poll, Skip
  <2>8. ASSUME NEW j \in JobId, Reconcile(j) \/ Recover(j)
        PROVE  UNCHANGED jobs \/ RowStep(j)
    BY <2>6, <2>8 DEF Reconcile, Recover, Skip, FileState
  <2>9. QED
    BY <1>3, <2>1, <2>2, <2>3, <2>4, <2>5, <2>7, <2>8 DEF Loop, Launch
<1>4. CASE RequestsEnd \/ LaunchFails \/ Crash \/ Restart
  BY <1>4 DEF RequestsEnd, LaunchFails, Crash, Restart
<1>5. QED
  BY <1>1, <1>2, <1>3, <1>4 DEF Next

(* A step leaves every terminal row as it is. *)
LEMMA TerminalKept ==
    ASSUME IInv, [Next]_vars
    PROVE  \A j \in JobId : jobs[j].state \in Terminal => jobs'[j] = jobs[j]
<1>1. CASE UNCHANGED jobs
  BY <1>1
<1>2. ASSUME NEW i \in JobId, RowStep(i)
      PROVE  jobs[i].state \notin Terminal /\ \A j \in JobId \ {i} : jobs'[j] = jobs[j]
  <2>1. jobs[i].state \notin Terminal
    BY <1>2 DEF RowStep, Inserted, Launched, Cancelled, Stopped, Ended, EndsWith, Terminal
  <2>2. CASE Inserted(i)
    BY <2>1, <2>2, CreateJobFact, RuntimeAssumption DEF Inserted, IInv, TypeOK
  <2>3. CASE Launched(i) \/ Cancelled(i) \/ Stopped(i) \/ Ended(i)
    BY <2>1, <2>3 DEF Launched, Cancelled, Stopped, Ended, MarkRunning, MarkState,
       MarkFinished, IInv, TypeOK, Table
  <2>4. QED
    BY <1>2, <2>2, <2>3 DEF RowStep
<1>3. QED
  BY <1>1, <1>2, TableSteps DEF vars

(* A terminal state is never left: not by a crash and the recovery after   *)
(* it, a late exit, an expired time limit, or another scancel.             *)
THEOREM TerminalStays == Spec => TerminalIsFinal
<1> DEFINE A == \A j \in JobId : jobs[j].state \in Terminal => jobs'[j].state = jobs[j].state
<1>1. IInv /\ [Next]_vars => [A]_vars
  BY TerminalKept
<1> HIDE DEF A
<1>2. Spec => [][A]_vars
  BY <1>1, Invariant, PTL DEF Spec
<1>3. QED
  BY <1>2 DEF TerminalIsFinal, A

(***************************************************************************)
(* What makes an acknowledged cancellation stick without cgroups: the      *)
(* outcome of a job that a request stopped is CANCELLED and is written     *)
(* before the answer, and a terminal row is never written again.           *)
(***************************************************************************)
CancelInv ==
    /\ \A j \in JobId : ~oom[j]
    /\ CancelSticks
    /\ daemon.pc \in {"grace", "kill"} /\ daemon.next = "requests" => daemon.final = "CANCELLED"
    /\ daemon.pc = "notify" /\ daemon.next = "requests" => jobs[daemon.job].state = "CANCELLED"

LEMMA EndJobCancels ==
    ASSUME IInv, CancelInv, daemon.pc \in {"grace", "kill"}, EndJob(daemon.final),
           daemon.next = "requests"
    PROVE  jobs'[daemon.job].state = "CANCELLED"
<1> DEFINE j == daemon.job
<1>1. j \in JobId /\ jobs[j].state = "COMPLETING" /\ daemon.final = "CANCELLED" /\ ~oom[j]
  BY DEF IInv, DaemonInv, CancelInv
<1>2. jobs' = MarkFinished(jobs, j, "CANCELLED")
  BY <1>1 DEF EndJob
<1>3. jobs \in Table /\ jobs[j] \in Row /\ "CANCELLED" \in Terminal
  BY <1>1, ActiveRow DEF IInv, TypeOK, Terminal
<1> HIDE DEF j
<1>4. /\ jobs'[j] = IF ShouldAutoRequeue(jobs[j], "CANCELLED")
                    THEN Requeued(jobs[j]) ELSE Finished(jobs[j], "CANCELLED")
      /\ ~ShouldAutoRequeue(jobs[j], "CANCELLED")
  BY <1>1, <1>2, <1>3, MarkFinishedFact DEF ShouldAutoRequeue
<1>5. jobs'[j].state = "CANCELLED"
  BY <1>3, <1>4, FinishedColumns
<1>6. QED
  BY <1>5 DEF j

LEMMA CancelKeeps ==
    ASSUME ~UseCgroup, IInv, CancelInv, [Next]_vars PROVE CancelInv'
<1>1. \A j \in JobId : jobs[j].state = "CANCELLED" => jobs'[j].state = "CANCELLED"
  BY TerminalKept DEF Terminal
<1>2. acked \subseteq JobId /\ daemon \in Daemon
  BY DEF IInv, TypeOK
<1>3. ASSUME UNCHANGED <<oom, acked>>
      PROVE  (\A j \in JobId : ~oom'[j]) /\ CancelSticks'
  BY <1>1, <1>2, <1>3 DEF CancelInv, CancelSticks
<1>4. ASSUME UNCHANGED daemon
      PROVE  /\ daemon'.pc \in {"grace", "kill"} /\ daemon'.next = "requests"
                => daemon'.final = "CANCELLED"
             /\ daemon'.pc = "notify" /\ daemon'.next = "requests"
                => jobs'[daemon'.job].state = "CANCELLED"
  BY <1>1, <1>4 DEF CancelInv, IInv, DaemonInv
<1>5. ASSUME daemon'.pc \notin {"grace", "kill", "notify"} \/ daemon'.next # "requests"
      PROVE  /\ daemon'.pc \in {"grace", "kill"} /\ daemon'.next = "requests"
                => daemon'.final = "CANCELLED"
             /\ daemon'.pc = "notify" /\ daemon'.next = "requests"
                => jobs'[daemon'.job].state = "CANCELLED"
  BY <1>5
<1>6. CASE UNCHANGED vars
  BY <1>3, <1>4, <1>6 DEF CancelInv, vars
<1>7. CASE Host
  <2>1. UNCHANGED <<daemon, oom, acked>>
    BY <1>7 DEF Host, LeaderReturns, LeaderDies, RestExits, KilledDies, OomEvent,
       TimePasses, log
  <2>2. QED
    BY <1>3, <1>4, <2>1 DEF CancelInv
<1>8. CASE ClientRequest
  <2>1. ASSUME NEW j \in JobId, NEW r \in Requests, SubmitBatch(j, r)
        PROVE  CancelInv'
    <3>1. daemon'.pc = "requestPass"
      BY <2>1 DEF SubmitBatch, Goto, GotoWith
    <3>2. QED
      BY <1>3, <1>5, <2>1, <3>1 DEF CancelInv, SubmitBatch, host, log
  <2>2. ASSUME NEW j \in JobId, CancelWaiting(j)
        PROVE  CancelInv'
    <3>1. jobs'[j].state = "CANCELLED"
      <4>1. jobs \in Table /\ jobs[j] \in Row /\ "CANCELLED" \in State
        BY <2>2, ActiveRow DEF CancelWaiting, IInv, TypeOK, State, Terminal
      <4>2. jobs' = MarkState(jobs, j, "CANCELLED")
        BY <2>2 DEF CancelWaiting, CancelPending
      <4>3. QED
        BY <4>1, <4>2, MarkStateFact
    <3>2. CancelSticks'
      BY <1>1, <1>2, <2>2, <3>1 DEF CancelInv, CancelSticks, CancelWaiting
    <3>3. QED
      BY <1>4, <2>2, <3>2 DEF CancelInv, CancelWaiting, host
  <2>3. ASSUME NEW j \in JobId, CancelTracked(j)
        PROVE  CancelInv'
    <3>1. daemon'.pc = "grace" /\ daemon'.final = "CANCELLED"
      BY <1>2, <2>3 DEF CancelTracked, Terminate, Daemon
    <3>2. QED
      BY <1>3, <2>3, <3>1 DEF CancelInv, CancelTracked, Terminate, host, log
  <2>4. ASSUME NEW j \in JobId, NEW c \in {"early", "warn", "over"}, UpdateTimeLimit(j, c)
        PROVE  CancelInv'
    <3>1. daemon'.pc = "requestPass"
      BY <2>4 DEF UpdateTimeLimit, Goto, GotoWith
    <3>2. QED
      BY <1>3, <1>5, <2>4, <3>1 DEF CancelInv, UpdateTimeLimit, log
  <2>5. QED
    BY <1>8, <2>1, <2>2, <2>3, <2>4 DEF ClientRequest
<1>9. CASE Loop
  <2>1. CASE Launch \/ PassEnd \/ NextPart
    <3>1. daemon'.pc \notin {"grace", "kill", "notify"} /\ UNCHANGED <<oom, acked>>
      <4>1. ASSUME NEW j \in JobId, NEW g \in Groups, LaunchSpawn(j, g)
            PROVE  <3>1
        BY <1>2, <4>1 DEF LaunchSpawn, Daemon, log
      <4>2. CASE LaunchMark
        <5>1. daemon.next \in {"pass", "requestPass"} /\ daemon'.pc = daemon.next
          BY <4>2 DEF LaunchMark, Goto, GotoWith, IInv, DaemonInv
        <5>2. QED
          BY <4>2, <5>1 DEF LaunchMark, log
      <4>3. CASE PassEnd \/ NextPart
        BY <4>3 DEF PassEnd, NextPart, AtRest, Goto, GotoWith, host, log
      <4>4. QED
        BY <2>1, <4>1, <4>2, <4>3 DEF Launch
    <3>2. QED
      BY <1>3, <1>5, <3>1 DEF CancelInv
  <2>2. CASE GraceEnds \/ KillEnds
    <3>1. UNCHANGED <<oom, acked>> /\ daemon.pc \in {"grace", "kill"}
      BY <2>2 DEF GraceEnds, KillEnds, log
    <3>2. CASE EndJob(daemon.final)
      <4>1. daemon'.pc = "notify" /\ daemon'.job = daemon.job /\ daemon'.next = daemon.next
        BY <1>2, <3>2 DEF EndJob, Daemon
      <4>2. QED
        BY <1>3, <3>1, <3>2, <4>1, EndJobCancels DEF CancelInv
    <3>3. CASE ~EndJob(daemon.final)
      <4>1. daemon' = [daemon EXCEPT !.pc = "kill"]
        BY <2>2, <3>3 DEF GraceEnds, KillEnds
      <4>2. daemon'.pc = "kill" /\ daemon'.final = daemon.final /\ daemon'.next = daemon.next
        BY <1>2, <4>1 DEF Daemon
      <4>3. QED
        BY <1>3, <3>1, <4>2 DEF CancelInv
    <3>4. QED
      BY <3>2, <3>3
  <2>3. CASE Notify
    <3>1. daemon.job \in JobId /\ daemon.pc = "notify" /\ daemon'.pc = daemon.next
      BY <2>3 DEF Notify, GotoWith, IInv, DaemonInv
    <3>2. CancelSticks'
      BY <1>1, <1>2, <2>3, <3>1 DEF Notify, CancelInv, CancelSticks
    <3>3. \A j \in JobId : ~oom'[j]
      BY <2>3, <3>1 DEF Notify, CancelInv, CgroupAfterCleanup, IInv, TypeOK
    <3>4. daemon'.pc \notin {"grace", "kill", "notify"}
      <4>1. daemon.next \in {"requests", "timeouts", "poll", "reconcile", "recover"}
        BY <3>1 DEF IInv, DaemonInv
      <4>2. QED
        BY <3>1, <4>1
    <3>5. QED
      BY <1>5, <3>2, <3>3, <3>4 DEF CancelInv
  <2>4. ASSUME NEW j \in JobId, TimeOut(j)
        PROVE  CancelInv'
    <3>1. daemon'.pc = "grace" /\ daemon'.next = "timeouts" /\ UNCHANGED <<oom, acked>>
      BY <1>2, <2>4 DEF TimeOut, Terminate, Daemon, host, log
    <3>2. QED
      BY <1>3, <1>5, <3>1 DEF CancelInv
  <2>5. ASSUME NEW j \in JobId, Warn(j) \/ Poll(j) \/ Reconcile(j) \/ Recover(j)
        PROVE  CancelInv'
    <3>1. UNCHANGED <<oom, acked>>
      BY <2>5 DEF Warn, Poll, Reconcile, Recover, host, log
    <3>2. daemon.pc \in {"warnings", "poll", "reconcile", "recover"}
      BY <2>5 DEF Warn, Poll, Reconcile, Recover
    <3>3. daemon'.pc = daemon.pc \/ daemon'.next = daemon.pc
      BY <1>2, <2>5 DEF Warn, Poll, Reconcile, Recover, Record, Skip, Daemon
    <3>4. QED
      BY <1>3, <1>5, <3>1, <3>2, <3>3 DEF CancelInv
  <2>6. QED
    BY <1>9, <2>1, <2>2, <2>3, <2>4, <2>5 DEF Loop
<1>10. CASE RequestsEnd \/ LaunchFails \/ Crash \/ Restart
  <2>1. daemon'.pc \notin {"grace", "kill", "notify"} /\ UNCHANGED <<oom, acked>>
    BY <1>10 DEF RequestsEnd, LaunchFails, Crash, Restart, AtRest, Down, Goto, GotoWith,
       host, log
  <2>2. QED
    BY <1>3, <1>5, <2>1 DEF CancelInv
<1>11. QED
  BY <1>6, <1>7, <1>8, <1>9, <1>10 DEF Next

(* A cancellation that was answered with Cancelled sticks on a host        *)
(* without cgroups, where no out-of-memory event overrides the outcome     *)
(* (with them it does not: TLC finds the counterexample in a few steps).   *)
THEOREM CancelStays == ~UseCgroup => (Spec => []CancelSticks)
<1> SUFFICES ASSUME ~UseCgroup PROVE Spec => []CancelSticks
  OBVIOUS
<1>1. Init => CancelInv
  BY DEF Init, CancelInv, CancelSticks, AtRest, Goto, GotoWith
<1>2. IInv /\ CancelInv /\ [Next]_vars => CancelInv'
  BY CancelKeeps
<1>3. CancelInv => CancelSticks
  BY DEF CancelInv
<1>4. QED
  BY <1>1, <1>2, <1>3, Invariant, PTL DEF Spec

----------------------------------------------------------------------------
(* The runtime implements the abstract life cycle *)

(* Only top-level rows exist: mark_finished may requeue any of them. *)
AllTopLevel == \A j \in Rows(jobs) : jobs[j].parent = 0

(* What RowStep does to the columns the life cycle is made of, and that it *)
(* leaves the other rows alone.                                            *)
LEMMA RowStepColumns ==
    ASSUME IInv, NEW j \in JobId, RowStep(j)
    PROVE  /\ \A i \in JobId \ {j} : jobs'[i] = jobs[i]
           /\ jobs'[j].state # "NONE"
           /\ jobs[j].state # "NONE" =>
                 jobs'[j].parent = jobs[j].parent /\ jobs'[j].req = jobs[j].req
           /\ Inserted(j) => jobs'[j].state = "PENDING" /\ jobs'[j].parent = 0
           /\ Launched(j) => jobs'[j].state = "RUNNING" /\ jobs'[j].requeues = jobs[j].requeues
           /\ Cancelled(j) => jobs'[j].state = "CANCELLED" /\ jobs'[j].requeues = jobs[j].requeues
           /\ Stopped(j) => jobs'[j].state = "COMPLETING" /\ jobs'[j].requeues = jobs[j].requeues
<1>1. jobs \in Table /\ (jobs[j].state # "NONE" => jobs[j] \in Row)
  BY ActiveRow DEF IInv, TypeOK
<1>2. CASE Inserted(j)
  <2>1. PICK r \in Requests : jobs' = CreateJob(jobs, j, r)
    BY <1>2 DEF Inserted
  <2>2. jobs'[j] = PendingRow(r, 0) /\ \A i \in JobId \ {j} : jobs'[i] = jobs[i]
    BY <1>1, <2>1, CreateJobFact, RuntimeAssumption
  <2>3. PendingRow(r, 0).state = "PENDING" /\ PendingRow(r, 0).parent = 0
    BY DEF PendingRow
  <2>4. ~Launched(j) /\ ~Cancelled(j) /\ ~Stopped(j) /\ jobs[j].state = "NONE"
    BY <1>2 DEF Inserted, Launched, Cancelled, Stopped
  <2>5. QED
    BY <2>2, <2>3, <2>4
<1>3. CASE Launched(j)
  <2>1. PICK g \in Groups : jobs' = MarkRunning(jobs, j, g, {})
    BY <1>3 DEF Launched
  <2>2. {} \in SUBSET GpuId /\ g \in Groups \cup {NoGroup} /\ jobs[j].state = "PENDING"
    BY <1>3 DEF Launched
  <2>3. jobs[j] \in Row
    BY <1>1, <2>2
  <2>4. /\ MarkRunning(jobs, j, g, {})[j].state = "RUNNING"
        /\ MarkRunning(jobs, j, g, {})[j].req = jobs[j].req
        /\ MarkRunning(jobs, j, g, {})[j].requeues = jobs[j].requeues
        /\ MarkRunning(jobs, j, g, {})[j].parent = jobs[j].parent
        /\ \A i \in JobId \ {j} : MarkRunning(jobs, j, g, {})[i] = jobs[i]
    BY <1>1, <2>2, <2>3, MarkRunningFact
  <2>5. ~Inserted(j) /\ ~Stopped(j)
    BY <2>2 DEF Inserted, Stopped
  <2>6. ~Cancelled(j)
    <3>1. MarkState(jobs, j, "CANCELLED")[j].state = "CANCELLED"
      BY <1>1, <2>3, MarkStateFact DEF State, Terminal
    <3>2. QED
      BY <2>1, <2>4, <3>1 DEF Cancelled
  <2>7. QED
    BY <2>1, <2>2, <2>4, <2>5, <2>6
<1>4. ASSUME NEW s \in {"CANCELLED", "COMPLETING"}, jobs' = MarkState(jobs, j, s),
             jobs[j].state \in {"PENDING", "RUNNING"}
      PROVE  /\ jobs'[j].state = s /\ jobs'[j].requeues = jobs[j].requeues
             /\ jobs'[j].parent = jobs[j].parent /\ jobs'[j].req = jobs[j].req
             /\ \A i \in JobId \ {j} : jobs'[i] = jobs[i]
  <2>1. s \in State /\ jobs[j] \in Row
    BY <1>1, <1>4 DEF State, Terminal
  <2>2. QED
    BY <1>1, <1>4, <2>1, MarkStateFact
<1>5. CASE Cancelled(j) /\ ~Launched(j)
  BY <1>4, <1>5 DEF Cancelled, Inserted, Stopped
<1>6. CASE Stopped(j)
  BY <1>4, <1>6 DEF Cancelled, Inserted, Stopped, Launched
<1>7. CASE Ended(j)
  <2>1. PICK final \in Terminal : EndsWith(j, final) /\ jobs' = MarkFinished(jobs, j, final)
    BY <1>7 DEF Ended
  <2>2. jobs[j] \in Row /\ jobs[j].state \in {"RUNNING", "COMPLETING"}
    BY <1>1, <2>1 DEF EndsWith
  <2>3. /\ jobs'[j] = IF ShouldAutoRequeue(jobs[j], final)
                      THEN Requeued(jobs[j]) ELSE Finished(jobs[j], final)
        /\ \A i \in JobId \ {j} : jobs'[i] = jobs[i]
    BY <1>1, <2>1, <2>2, MarkFinishedFact
  <2>4. /\ jobs'[j].state \in {final, "PENDING"}
        /\ jobs'[j].req = jobs[j].req /\ jobs'[j].parent = jobs[j].parent
    BY <2>2, <2>3, FinishedColumns
  <2>5. ~Inserted(j) /\ ~Launched(j) /\ ~Cancelled(j)
    BY <2>2 DEF Inserted, Launched, Cancelled
  <2>6. ~Stopped(j)
    BY <1>4, <2>4 DEF Stopped, Terminal
  <2>7. final # "NONE"
    BY DEF Terminal
  <2>8. QED
    BY <2>2, <2>3, <2>4, <2>5, <2>6, <2>7
<1>8. QED
  BY <1>2, <1>3, <1>5, <1>6, <1>7 DEF RowStep

(* The abstract table after a step that changes row j. *)
LEMMA LifeStep ==
    ASSUME NEW j \in JobId, \A i \in JobId \ {j} : jobs'[i] = jobs[i],
           NEW s, NEW again, LifeOf(jobs[j])' = [state |-> s, requeue |-> again]
    PROVE  L!Set(j, s, again)
BY DEF L!Set, LifeTable, LifeOf

(* A change of one row is a step of that job's life. *)
LEMMA RowStepImplements ==
    ASSUME IInv, AllTopLevel, NEW j \in JobId, RowStep(j)
    PROVE  L!Next
<1> DEFINE again == jobs[j].req.requeue /\ jobs[j].requeues = 0
<1>1. \A i \in JobId \ {j} : jobs'[i] = jobs[i]
  BY RowStepColumns
<1>2. jobs[j].state # "NONE" =>
         /\ jobs[j] \in Row /\ jobs[j].parent = 0
         /\ LifeTable[j] = [state |-> jobs[j].state, requeue |-> again]
         /\ LifeTable[j].requeue <=> again
  BY ActiveRow DEF IInv, AllTopLevel, Rows, LifeTable, LifeOf
<1>3. CASE Inserted(j)
  <2>1. PICK b \in BOOLEAN : LifeOf(jobs[j])' = [state |-> "PENDING", requeue |-> b]
    BY <1>3, RowStepColumns DEF LifeOf
  <2>2. LifeTable[j].state = "NONE"
    BY <1>3 DEF Inserted, LifeTable, LifeOf
  <2>3. L!Set(j, "PENDING", b)
    BY <1>1, <2>1, LifeStep
  <2>4. QED
    BY <2>2, <2>3 DEF L!Next, L!Submit
<1>4. ASSUME NEW s \in {"RUNNING", "CANCELLED", "COMPLETING"}, jobs[j].state # "NONE",
             jobs'[j].state = s, jobs'[j].requeues = jobs[j].requeues
      PROVE  L!Set(j, s, LifeTable[j].requeue)
  <2>1. LifeOf(jobs[j])' = [state |-> s, requeue |-> again]
    BY <1>4, RowStepColumns DEF LifeOf
  <2>2. QED
    BY <1>1, <1>2, <1>4, <2>1, LifeStep
<1>5. CASE Launched(j)
  BY <1>2, <1>4, <1>5, RowStepColumns DEF Launched, L!Next, L!Start
<1>6. CASE Cancelled(j)
  BY <1>2, <1>4, <1>6, RowStepColumns DEF Cancelled, L!Next, L!CancelWaiting
<1>7. CASE Stopped(j)
  BY <1>2, <1>4, <1>7, RowStepColumns DEF Stopped, L!Next, L!Stop
<1>8. CASE Ended(j)
  <2>1. PICK final \in Terminal : EndsWith(j, final) /\ jobs' = MarkFinished(jobs, j, final)
    BY <1>8 DEF Ended
  <2>2. jobs[j].state \in {"RUNNING", "COMPLETING"} /\ jobs[j] \in Row /\ jobs \in Table
    BY <1>2, <2>1 DEF EndsWith, IInv, TypeOK
  <2>3. jobs'[j] = IF ShouldAutoRequeue(jobs[j], final)
                   THEN Requeued(jobs[j]) ELSE Finished(jobs[j], final)
    BY <2>1, <2>2, MarkFinishedFact
  <2>4. final \in L!Outcome(j)
    BY <1>2, <2>1, <2>2 DEF EndsWith, L!Outcome
  <2>5. ShouldAutoRequeue(jobs[j], final) <=> again /\ final \in L!Failure
    BY <1>2, <2>2 DEF ShouldAutoRequeue, L!Failure
  <2>6. CASE again /\ final \in L!Failure
    <3>1. jobs'[j] = Requeued(jobs[j])
      BY <2>3, <2>5, <2>6
    <3>2. jobs[j].requeues \in Nat
      BY <2>2, RowColumns
    <3>3. jobs'[j].state = "PENDING" /\ jobs'[j].requeues # 0
      BY <2>2, <3>1, <3>2, FinishedColumns
    <3>4. LifeOf(jobs[j])' = [state |-> "PENDING", requeue |-> FALSE]
      BY <3>3 DEF LifeOf
    <3>5. L!Set(j, "PENDING", FALSE)
      BY <1>1, <3>4, LifeStep
    <3>6. LifeTable[j].requeue /\ final \in L!Failure
      BY <1>2, <2>2, <2>6
    <3>7. L!End(j)
      BY <2>4, <3>5, <3>6 DEF L!End
    <3>8. QED
      BY <3>7 DEF L!Next
  <2>7. CASE ~(again /\ final \in L!Failure)
    <3>1. jobs'[j] = Finished(jobs[j], final)
      BY <2>3, <2>5, <2>7
    <3>2. /\ jobs'[j].state = final /\ final # "NONE"
          /\ jobs'[j].req = jobs[j].req /\ jobs'[j].requeues = jobs[j].requeues
      BY <2>2, <3>1, FinishedColumns DEF Terminal
    <3>3. LifeOf(jobs[j])' = [state |-> final, requeue |-> again]
      BY <3>2 DEF LifeOf
    <3>4. L!Set(j, final, LifeTable[j].requeue)
      BY <1>1, <1>2, <2>2, <3>3, LifeStep
    <3>5. ~(LifeTable[j].requeue /\ final \in L!Failure)
      BY <1>2, <2>2, <2>7
    <3>6. L!End(j)
      BY <2>4, <3>4, <3>5 DEF L!End
    <3>7. QED
      BY <3>6 DEF L!Next
  <2>8. QED
    BY <2>6, <2>7
<1>9. QED
  BY <1>3, <1>5, <1>6, <1>7, <1>8 DEF RowStep

(* The daemon, the processes and the crashes together implement the        *)
(* documented life cycle of a job (JobState, --requeue): every behaviour   *)
(* of Spec, seen through LifeOf, is a behaviour of Lifecycle.              *)
THEOREM Implements == Spec => ImplementsLifecycle
<1>1. Init => L!Init /\ AllTopLevel
  BY DEF Init, L!Init, L!Absent, LifeTable, LifeOf, EmptyTable, NoRow, AllTopLevel, Rows
<1>2. IInv /\ AllTopLevel /\ [Next]_vars => AllTopLevel'
  <2>1. ASSUME IInv, AllTopLevel, UNCHANGED jobs
        PROVE  AllTopLevel'
    BY <2>1 DEF AllTopLevel, Rows
  <2>2. ASSUME IInv, AllTopLevel, NEW j \in JobId, RowStep(j)
        PROVE  AllTopLevel'
    <3>1. jobs'[j].parent = 0
      BY <2>2, RowStepColumns
      DEF AllTopLevel, Rows, RowStep, Launched, Cancelled, Stopped, Ended, EndsWith
    <3>2. QED
      BY <2>2, <3>1, RowStepColumns DEF AllTopLevel, Rows
  <2>3. QED
    BY <2>1, <2>2, TableSteps DEF vars
<1>3. IInv /\ AllTopLevel /\ [Next]_vars => [L!Next]_LifeTable
  <2>1. UNCHANGED jobs => UNCHANGED LifeTable
    BY DEF LifeTable
  <2>2. QED
    BY <2>1, RowStepImplements, TableSteps DEF vars
<1>4. Spec => []AllTopLevel
  BY <1>1, <1>2, Invariant, PTL DEF Spec
<1>5. QED
  BY <1>1, <1>3, <1>4, Invariant, PTL DEF Spec, ImplementsLifecycle, L!Spec

----------------------------------------------------------------------------
(* The runs of batch jobs: a job runs at most once per submission or       *)
(* requeue, two of its runs never overlap, COMPLETED is honest, and the    *)
(* end of a job is reported once.                                          *)

(***************************************************************************)
(* The account of the process groups the inductive invariant keeps.  A     *)
(* group that mark_running recorded is either the one in the job's row or  *)
(* the one run before the only requeue, and that one was over, or killed,  *)
(* when the row let go of it.  A crash or a failure between spawn and      *)
(* mark_running leaves groups that belong to a job and were never          *)
(* recorded: nothing is claimed of them.                                   *)
(***************************************************************************)
GroupInv ==
    \A g \in Groups :
        /\ proc[g].job = 0 => ~proc[g].marked
        /\ proc[g].job # 0 => jobs[proc[g].job].state # "NONE"
        /\ proc[g].leader = "running" => proc[g].code = "none"

RowInv(j) ==
    /\ jobs[j].state = "PENDING" => jobs[j].group = NoGroup /\ ~jobs[j].started
    /\ jobs[j].group # NoGroup => proc[jobs[j].group].job = j
    /\ jobs[j].requeues = 0 => RecordedRuns(j) \subseteq {jobs[j].group}
    /\ jobs[j].requeues # 0 =>
          /\ jobs[j].req.requeue
          /\ \E h \in Groups \cup {NoGroup} : RecordedRuns(j) \subseteq {h, jobs[j].group}
    /\ \A g \in RecordedRuns(j) \ {jobs[j].group} : LeaderLives(g) => proc[g].killed

(* While a job is launched or ended, the daemon holds that job's group. *)
HeldInv ==
    /\ daemon.pc = "launch" => proc[daemon.group].job = daemon.job
    /\ daemon.pc \in {"grace", "kill"} => daemon.group = jobs[daemon.job].group
    /\ daemon.pc = "kill" => proc[daemon.group].killed

RunsInv == GroupInv /\ HeldInv /\ \A j \in Rows(jobs) : RowInv(j)

LEMMA RunsInit == Init => RunsInv
BY StoreAssumption
DEF Init, RunsInv, GroupInv, HeldInv, Rows, EmptyTable, NoRow, NoProc, AtRest, Goto, GotoWith

----------------------------------------------------------------------------
(* What happens to a process group that exists *)

(***************************************************************************)
(* No step gives a group another job, records it, revives its leader or    *)
(* forgets that it was killed or returned 0: the only steps that do not    *)
(* settle in this sense are the two of a launch.                           *)
(***************************************************************************)
Settles(p, q) ==
    /\ q.job = p.job /\ q.marked = p.marked
    /\ p.killed => q.killed
    /\ q.leader = "running" => p.leader = "running" /\ q.code = p.code
    /\ p.code = "ok" /\ p.leader # "running" => q.code = "ok"

ProcSettles == \A g \in Groups : Settles(proc[g], proc'[g])

LEMMA UnchangedSettles == ASSUME UNCHANGED proc PROVE ProcSettles
BY DEF ProcSettles, Settles

LEMMA OneSettles ==
    ASSUME TypeOK, NEW g \in Groups, NEW q, proc' = [proc EXCEPT ![g] = q],
           Settles(proc[g], q)
    PROVE  ProcSettles
BY DEF ProcSettles, Settles, TypeOK

LEMMA ReapSettles ==
    ASSUME TypeOK, NEW g \in Groups, proc' = [proc EXCEPT ![g] = Reap(proc[g])]
    PROVE  ProcSettles
<1>1. proc[g] \in Proc
  BY DEF TypeOK
<1>2. Settles(proc[g], Reap(proc[g]))
  BY <1>1 DEF Settles, Reap, Proc
<1>3. QED
  BY <1>2, OneSettles

LEMMA OrphanedSettles == ASSUME TypeOK, proc' = Orphaned PROVE ProcSettles
<1> SUFFICES ASSUME NEW g \in Groups PROVE Settles(proc[g], proc'[g])
  BY DEF ProcSettles
<1>1. proc[g] \in Proc
  BY DEF TypeOK
<1>2. proc'[g] = [proc[g] EXCEPT !.child = FALSE,
                                 !.leader = IF LeaderReapable(g) THEN "gone" ELSE proc[g].leader]
  BY DEF Orphaned
<1>3. QED
  BY <1>1, <1>2 DEF Settles, Proc

LEMMA HostSettles == ASSUME TypeOK, Host PROVE ProcSettles
<1>1. ASSUME NEW g \in Groups, NEW code \in {"ok", "fail"}, LeaderReturns(g, code)
      PROVE  ProcSettles
  <2> DEFINE leader == DeadLeader(g, "zombie")
  <2>1. proc[g] \in Proc /\ proc[g].leader = "running" /\ leader \in {"zombie", "gone"}
    BY <1>1 DEF TypeOK, LeaderReturns, LeaderLives, DeadLeader
  <2>2. Settles(proc[g], [proc[g] EXCEPT !.leader = leader, !.code = code])
    BY <2>1 DEF Settles, Proc
  <2>3. QED
    BY <1>1, <2>2, OneSettles DEF LeaderReturns
<1>2. ASSUME NEW g \in Groups, LeaderDies(g) \/ RestExits(g)
      PROVE  ProcSettles
  <2>1. proc[g] \in Proc
    BY DEF TypeOK
  <2>2. /\ Settles(proc[g], [proc[g] EXCEPT !.leader = DeadLeader(g, "signalled")])
        /\ Settles(proc[g], [proc[g] EXCEPT !.rest = FALSE])
    BY <2>1 DEF Settles, DeadLeader, Proc
  <2>3. QED
    BY <1>2, <2>2, OneSettles DEF LeaderDies, RestExits
<1>3. ASSUME NEW g \in Groups, KilledDies(g)
      PROVE  ProcSettles
  <2> DEFINE leader == IF LeaderLives(g) THEN DeadLeader(g, "signalled") ELSE proc[g].leader
  <2>1. proc[g] \in Proc /\ leader \in {proc[g].leader, "signalled", "gone"}
    BY DEF TypeOK, DeadLeader
  <2>2. Settles(proc[g], [proc[g] EXCEPT !.rest = FALSE, !.leader = leader])
    BY <2>1 DEF Settles, Proc
  <2>3. QED
    BY <1>3, <2>2, OneSettles DEF KilledDies
<1>4. ASSUME NEW j \in JobId, OomEvent(j) \/ TimePasses(j)
      PROVE  ProcSettles
  BY <1>4, UnchangedSettles DEF OomEvent, TimePasses
<1>5. QED
  BY <1>1, <1>2, <1>3, <1>4 DEF Host

----------------------------------------------------------------------------
(* The rows, while no group is launched *)

RowsInv == GroupInv /\ \A j \in Rows(jobs) : RowInv(j)

LEMMA RunsKept == ASSUME ProcSettles, NEW j PROVE RecordedRuns(j)' = RecordedRuns(j)
BY DEF ProcSettles, Settles, RecordedRuns

(* A leader that is dead or was killed stays dead or killed. *)
Over(g) == LeaderLives(g) => proc[g].killed

LEMMA OverKept == ASSUME ProcSettles, NEW g \in Groups, Over(g) PROVE Over(g)'
BY DEF ProcSettles, Settles, Over, LeaderLives

LEMMA GroupKept ==
    ASSUME TypeOK, GroupInv, ProcSettles,
           \A j \in JobId : jobs[j].state # "NONE" => jobs'[j].state # "NONE"
    PROVE  GroupInv'
<1> SUFFICES ASSUME NEW g \in Groups
             PROVE  /\ proc'[g].job = 0 => ~proc'[g].marked
                    /\ proc'[g].job # 0 => jobs'[proc'[g].job].state # "NONE"
                    /\ proc'[g].leader = "running" => proc'[g].code = "none"
  BY DEF GroupInv
<1>1. Settles(proc[g], proc'[g])
  BY DEF ProcSettles
<1>2. proc[g].job \in {0} \cup JobId
  BY DEF TypeOK, Proc
<1>3. QED
  BY <1>1, <1>2 DEF GroupInv, Settles

(* A row that is not written keeps its account. *)
LEMMA RowKept ==
    ASSUME TypeOK, ProcSettles, NEW j \in JobId, jobs[j].state # "NONE",
           jobs'[j] = jobs[j], RowInv(j)
    PROVE  RowInv(j)'
<1>1. jobs[j].group \in Groups \cup {NoGroup}
  BY ActiveRow, RowColumns
<1>2. RecordedRuns(j)' = RecordedRuns(j) /\ RecordedRuns(j) \subseteq Groups
  BY RunsKept DEF RecordedRuns
<1>3. \A g \in RecordedRuns(j) \ {jobs[j].group} : Over(g)'
  BY <1>2, OverKept DEF RowInv, Over
<1>4. jobs[j].group # NoGroup => proc'[jobs[j].group].job = j
  BY <1>1 DEF RowInv, ProcSettles, Settles
<1>5. QED
  BY <1>2, <1>3, <1>4 DEF RowInv, Over

LEMMA RowsKept ==
    ASSUME TypeOK, RowsInv, ProcSettles, UNCHANGED jobs
    PROVE  RowsInv'
<1>1. GroupInv'
  BY GroupKept DEF RowsInv
<1>2. \A j \in Rows(jobs)' : RowInv(j)'
  BY RowKept DEF RowsInv, Rows
<1>3. QED
  BY <1>1, <1>2 DEF RowsInv

(* One row is written; it is enough to look at that one. *)
LEMMA OneRow ==
    ASSUME TypeOK, RowsInv, ProcSettles, NEW j \in JobId,
           \A i \in JobId \ {j} : jobs'[i] = jobs[i],
           jobs'[j].state # "NONE", RowInv(j)'
    PROVE  RowsInv'
<1>1. GroupInv'
  BY GroupKept DEF RowsInv
<1>2. ASSUME NEW i \in Rows(jobs)'
      PROVE  RowInv(i)'
  <2>1. CASE i = j
    BY <2>1
  <2>2. CASE i # j
    <3>1. i \in JobId /\ jobs'[i] = jobs[i] /\ jobs[i].state # "NONE"
      BY <2>2 DEF Rows
    <3>2. RowInv(i)
      BY <3>1 DEF RowsInv, Rows
    <3>3. QED
      BY <3>1, <3>2, RowKept
  <2>3. QED
    BY <2>1, <2>2
<1>3. QED
  BY <1>1, <1>2 DEF RowsInv

(* A new row has no group, and no group belongs to it. *)
LEMMA InsertedRows ==
    ASSUME IInv, RowsInv, UNCHANGED proc, NEW j \in JobId, NEW r \in Requests,
           jobs[j].state = "NONE", jobs' = CreateJob(jobs, j, r)
    PROVE  RowsInv'
<1>1. jobs \in Table /\ r.tasks = 0
  BY RuntimeAssumption DEF IInv, TypeOK
<1>2. jobs'[j] = PendingRow(r, 0) /\ \A i \in JobId \ {j} : jobs'[i] = jobs[i]
  BY <1>1, CreateJobFact
<1>3. PendingRow(r, 0).state = "PENDING" /\ PendingRow(r, 0).group = NoGroup
      /\ ~PendingRow(r, 0).started /\ PendingRow(r, 0).requeues = 0
  BY DEF PendingRow
<1>4. RecordedRuns(j)' = {}
  <2>1. j # 0 /\ \A g \in Groups : proc[g].job # j
    BY DEF RowsInv, GroupInv, JobId
  <2>2. QED
    BY <2>1 DEF RecordedRuns
<1>5. RowInv(j)'
  BY <1>2, <1>3, <1>4 DEF RowInv
<1>6. QED
  BY <1>2, <1>3, <1>5, UnchangedSettles, OneRow DEF IInv

(* The state alone changes, and not to PENDING: a cancellation, or the     *)
(* beginning of the end of a running job.                                  *)
LEMMA StateRows ==
    ASSUME IInv, RowsInv, UNCHANGED proc, NEW j \in JobId, jobs[j].state # "NONE",
           NEW s \in State \ {"PENDING"}, jobs' = MarkState(jobs, j, s)
    PROVE  RowsInv'
<1>1. jobs \in Table /\ jobs[j] \in Row /\ s # "NONE"
  BY ActiveRow DEF IInv, TypeOK, State, Terminal
<1>2. /\ jobs'[j].state = s /\ jobs'[j].group = jobs[j].group
      /\ jobs'[j].req = jobs[j].req /\ jobs'[j].requeues = jobs[j].requeues
      /\ \A i \in JobId \ {j} : jobs'[i] = jobs[i]
  BY <1>1, MarkStateFact
<1>3. RowInv(j) /\ RecordedRuns(j)' = RecordedRuns(j)
  BY UnchangedSettles, RunsKept DEF RowsInv, Rows
<1>4. RowInv(j)'
  BY <1>2, <1>3 DEF RowInv, LeaderLives
<1>5. QED
  BY <1>1, <1>2, <1>4, UnchangedSettles, OneRow DEF IInv

(* A job ends.  When it is requeued the row lets go of its group, which    *)
(* has to be over by then.                                                 *)
LEMMA FinishedRows ==
    ASSUME IInv, RowsInv, ProcSettles, NEW j \in JobId,
           jobs[j].state \in {"RUNNING", "COMPLETING"},
           NEW final \in Terminal, jobs' = MarkFinished(jobs, j, final),
           \A g \in Groups : g = jobs[j].group => Over(g)'
    PROVE  RowsInv'
<1>1. jobs \in Table /\ jobs[j] \in Row /\ jobs[j].requeues \in Nat
      /\ jobs[j].group \in Groups \cup {NoGroup}
  BY ActiveRow, RowColumns DEF IInv, TypeOK
<1>2. /\ jobs'[j] = IF ShouldAutoRequeue(jobs[j], final)
                    THEN Requeued(jobs[j]) ELSE Finished(jobs[j], final)
      /\ \A i \in JobId \ {j} : jobs'[i] = jobs[i]
  BY <1>1, MarkFinishedFact
<1>3. RowInv(j) /\ RecordedRuns(j)' = RecordedRuns(j) /\ RecordedRuns(j) \subseteq Groups
  BY RunsKept DEF RowsInv, Rows, RecordedRuns
<1>4. \A g \in RecordedRuns(j) : Over(g)'
  BY <1>3, OverKept DEF RowInv, Over
<1>5. CASE ShouldAutoRequeue(jobs[j], final)
  <2>1. /\ jobs'[j].state = "PENDING" /\ jobs'[j].group = NoGroup
        /\ ~jobs'[j].started /\ jobs'[j].requeues = jobs[j].requeues + 1
        /\ jobs'[j].req = jobs[j].req
    <3>1. jobs'[j] = Requeued(jobs[j]) /\ jobs[j] \in Row
      BY <1>1, <1>2, <1>5
    <3>2. /\ jobs'[j].state = "PENDING" /\ jobs'[j].requeues = jobs[j].requeues + 1
          /\ jobs'[j].req = jobs[j].req
      BY <3>1, FinishedColumns
    <3>3. jobs'[j].group = NoGroup /\ ~jobs'[j].started
      BY <3>1, FinishedRun
    <3>4. QED
      BY <3>2, <3>3
  <2>2. jobs[j].requeues = 0 /\ jobs[j].req.requeue
    BY <1>5 DEF ShouldAutoRequeue
  <2>3. RecordedRuns(j)' \subseteq {jobs[j].group, NoGroup}
    BY <1>3, <2>2 DEF RowInv
  <2>4. RowInv(j)'
    BY <1>1, <1>3, <1>4, <2>1, <2>2, <2>3 DEF RowInv, Over
  <2>5. QED
    BY <1>2, <2>1, <2>4, OneRow DEF IInv
<1>6. CASE ~ShouldAutoRequeue(jobs[j], final)
  <2>1. /\ jobs'[j].state = final /\ jobs'[j].group = jobs[j].group
        /\ jobs'[j].requeues = jobs[j].requeues /\ jobs'[j].req = jobs[j].req
    <3>1. jobs'[j] = Finished(jobs[j], final) /\ jobs[j] \in Row
      BY <1>1, <1>2, <1>6
    <3>2. jobs'[j].state = final /\ jobs'[j].requeues = jobs[j].requeues
          /\ jobs'[j].req = jobs[j].req
      BY <3>1, FinishedColumns
    <3>3. jobs'[j].group = jobs[j].group
      BY <3>1, FinishedRun
    <3>4. QED
      BY <3>2, <3>3
  <2>2. final # "PENDING" /\ final # "NONE"
    BY DEF Terminal
  <2>3. jobs[j].group # NoGroup => proc'[jobs[j].group].job = j
    BY <1>1, <1>3 DEF RowInv, ProcSettles, Settles
  <2>4. RowInv(j)'
    BY <1>3, <1>4, <2>1, <2>2, <2>3 DEF RowInv, Over
  <2>5. QED
    BY <1>2, <2>1, <2>2, <2>4, OneRow DEF IInv
<1>7. QED
  BY <1>5, <1>6

----------------------------------------------------------------------------
(* The launch *)

(* Before mark_running the new group belongs to the job and counts for     *)
(* nothing.                                                                *)
LEMMA SpawnRuns ==
    ASSUME IInv, RunsInv, NEW j \in JobId, NEW g \in Groups, LaunchSpawn(j, g)
    PROVE  RunsInv'
<1> DEFINE p == [NoProc EXCEPT !.job = j, !.leader = "running", !.rest = TRUE, !.child = TRUE]
<1>1. /\ p.job = j /\ ~p.marked /\ p.leader = "running" /\ p.code = "none"
  BY DEF NoProc
<1> HIDE DEF p
<1>2. /\ proc[g].job = 0 /\ proc \in [Groups -> Proc]
      /\ proc' = [proc EXCEPT ![g] = p] /\ UNCHANGED jobs
      /\ jobs[j].state = "PENDING"
  BY DEF LaunchSpawn, IsNextGroup, IInv, TypeOK, Pending, InState, p
<1>3. /\ daemon'.pc = "launch" /\ daemon'.job = j /\ daemon'.group = g
  BY DEF LaunchSpawn, IInv, TypeOK, Daemon
<1>4. GroupInv'
  BY <1>1, <1>2 DEF RunsInv, GroupInv
<1>5. HeldInv'
  BY <1>1, <1>2, <1>3 DEF HeldInv
<1>6. ASSUME NEW i \in Rows(jobs)
      PROVE  RowInv(i)'
  <2>1. i \in JobId /\ i # 0 /\ jobs[i].group \in Groups \cup {NoGroup} /\ RowInv(i)
    BY ActiveRow, RowColumns DEF Rows, RunsInv, IInv, JobId
  <2>2. RecordedRuns(i)' = RecordedRuns(i)
    BY <1>1, <1>2 DEF RecordedRuns, RunsInv, GroupInv
  <2>3. \A h \in RecordedRuns(i) : proc'[h] = proc[h]
    BY <1>2, <2>1 DEF RecordedRuns
  <2>4. jobs[i].group # NoGroup => proc'[jobs[i].group].job = i
    BY <1>2, <2>1 DEF RowInv
  <2>5. QED
    BY <1>2, <2>1, <2>2, <2>3, <2>4 DEF RowInv, LeaderLives
<1>7. QED
  BY <1>2, <1>4, <1>5, <1>6 DEF RunsInv, Rows

(* mark_running records the group in the row and in the account at once. *)
LEMMA MarkRuns ==
    ASSUME IInv, RunsInv, LaunchMark,
           NEW j, NEW g, j = daemon.job, g = daemon.group
    PROVE  RunsInv'
<1>1. /\ j \in JobId /\ g \in Groups /\ jobs[j].state = "PENDING"
      /\ daemon.next \in {"pass", "requestPass"} /\ proc[g].job = j
  BY DEF LaunchMark, IInv, DaemonInv, RunsInv, HeldInv
<1>2. /\ jobs' = MarkRunning(jobs, j, g, {}) /\ daemon'.pc = daemon.next
      /\ proc' = [proc EXCEPT ![g].marked = TRUE]
  BY DEF LaunchMark, Goto, GotoWith
<1>3. jobs \in Table /\ jobs[j] \in Row /\ proc \in [Groups -> Proc]
      /\ {} \in SUBSET GpuId /\ g \in Groups \cup {NoGroup}
  BY <1>1, ActiveRow DEF IInv, TypeOK
<1>4. RowInv(j)
  BY <1>1 DEF RunsInv, Rows
<1>5. /\ jobs'[j].state = "RUNNING" /\ jobs'[j].group = g
      /\ jobs'[j].req = jobs[j].req /\ jobs'[j].requeues = jobs[j].requeues
      /\ \A i \in JobId \ {j} : jobs'[i] = jobs[i]
  BY <1>1, <1>2, <1>3, MarkRunningFact
<1>6. /\ proc'[g].marked
      /\ \A h \in Groups : /\ proc'[h].job = proc[h].job /\ proc'[h].killed = proc[h].killed
                           /\ proc'[h].leader = proc[h].leader /\ proc'[h].code = proc[h].code
                           /\ h # g => proc'[h].marked = proc[h].marked
  <2>1. proc[g] \in Proc /\ proc'[g] = [proc[g] EXCEPT !.marked = TRUE]
        /\ \A h \in Groups \ {g} : proc'[h] = proc[h]
    BY <1>1, <1>2, <1>3
  <2>2. QED
    BY <2>1 DEF Proc
<1>7. GroupInv'
  <2>1. \A i \in JobId : jobs[i].state # "NONE" => jobs'[i].state # "NONE"
    BY <1>5
  <2>2. j # 0 /\ \A h \in Groups : proc[h].job \in {0} \cup JobId
    BY <1>1, <1>3 DEF JobId, Proc
  <2>3. QED
    BY <1>1, <1>6, <2>1, <2>2 DEF RunsInv, GroupInv
<1>8. RecordedRuns(j)' = RecordedRuns(j) \cup {g} /\ \A i \in JobId \ {j} : RecordedRuns(i)' = RecordedRuns(i)
  BY <1>1, <1>6 DEF RecordedRuns
<1>9. RowInv(j)'
  <2>1. jobs[j].group = NoGroup /\ NoGroup \notin RecordedRuns(j)
    BY <1>1, <1>4, StoreAssumption DEF RowInv, RecordedRuns
  <2>2. jobs[j].requeues = 0 => RecordedRuns(j) = {}
    BY <1>4, <2>1 DEF RowInv
  <2>3. jobs[j].requeues # 0 =>
           /\ jobs[j].req.requeue
           /\ \E h \in Groups \cup {NoGroup} : RecordedRuns(j)' \subseteq {h, g}
    BY <1>4, <1>8, <2>1 DEF RowInv
  <2>4. \A h \in RecordedRuns(j)' \ {g} : LeaderLives(h)' => proc'[h].killed
    <3>1. ASSUME NEW h \in RecordedRuns(j)' \ {g}
          PROVE  h \in RecordedRuns(j) \ {jobs[j].group} /\ h \in Groups
      BY <1>8, <2>1 DEF RecordedRuns
    <3>2. QED
      BY <1>4, <1>6, <3>1 DEF RowInv, LeaderLives
  <2>5. QED
    BY <1>1, <1>5, <1>6, <1>8, <2>2, <2>3, <2>4 DEF RowInv
<1>10. ASSUME NEW i \in Rows(jobs)', i # j
       PROVE  RowInv(i)'
  <2>1. i \in JobId /\ jobs'[i] = jobs[i] /\ jobs[i].state # "NONE"
    BY <1>5, <1>10 DEF Rows
  <2>2. RowInv(i) /\ jobs[i].group \in Groups \cup {NoGroup} /\ RecordedRuns(i) \subseteq Groups
    BY <2>1, ActiveRow, RowColumns DEF RunsInv, Rows, IInv, RecordedRuns
  <2>3. QED
    BY <1>6, <1>8, <1>10, <2>1, <2>2 DEF RowInv, LeaderLives
<1>11. HeldInv'
  BY <1>1, <1>2 DEF HeldInv
<1>12. QED
  BY <1>7, <1>9, <1>10, <1>11 DEF RunsInv

----------------------------------------------------------------------------
(* The steps *)

(* The operating system, and any step that leaves the daemon where it is.  *)
LEMMA HostRuns == ASSUME IInv, RunsInv, Host PROVE RunsInv'
<1>1. UNCHANGED <<jobs, daemon>>
  BY DEF Host, LeaderReturns, LeaderDies, RestExits, KilledDies, OomEvent, TimePasses
<1>2. ProcSettles
  BY HostSettles DEF IInv
<1>3. RowsInv'
  BY <1>1, <1>2, RowsKept DEF IInv, RunsInv, RowsInv
<1>4. HeldInv'
  BY <1>1, <1>2 DEF RunsInv, HeldInv, IInv, DaemonInv, ProcSettles, Settles
<1>5. QED
  BY <1>3, <1>4 DEF RunsInv, RowsInv

(* The daemon goes elsewhere and holds no job. *)
LEMMA MoveRuns ==
    ASSUME IInv, RunsInv, ProcSettles, UNCHANGED jobs,
           daemon'.pc \notin {"launch", "grace", "kill"}
    PROVE  RunsInv'
BY RowsKept DEF IInv, RunsInv, RowsInv, HeldInv

(* The parts of the loop and of a request that change no row. *)
LEMMA MovesOn ==
    ASSUME IInv,
           \/ PassEnd \/ Notify \/ NextPart \/ RequestsEnd \/ Restart
           \/ \E j \in JobId, c \in {"early", "warn", "over"} : UpdateTimeLimit(j, c)
           \/ \E j \in JobId : Warn(j)
    PROVE  /\ UNCHANGED <<jobs, proc>>
           /\ daemon'.pc \notin {"launch", "grace", "kill", "notify"}
<1>1. CASE PassEnd \/ NextPart \/ RequestsEnd \/ Restart
  BY <1>1 DEF PassEnd, NextPart, RequestsEnd, Restart, AtRest, Goto, GotoWith, host
<1>2. CASE Notify
  <2>1. daemon.next \in {"requests", "timeouts", "poll", "reconcile", "recover"}
    BY <1>2 DEF Notify, IInv, DaemonInv
  <2>2. QED
    BY <1>2, <2>1 DEF Notify, GotoWith
<1>3. ASSUME NEW j \in JobId, NEW c \in {"early", "warn", "over"}, UpdateTimeLimit(j, c)
      PROVE  /\ UNCHANGED <<jobs, proc>>
             /\ daemon'.pc \notin {"launch", "grace", "kill", "notify"}
  BY <1>3 DEF UpdateTimeLimit, Goto, GotoWith
<1>4. ASSUME NEW j \in JobId, Warn(j)
      PROVE  /\ UNCHANGED <<jobs, proc>>
             /\ daemon'.pc \notin {"launch", "grace", "kill", "notify"}
  <2>1. daemon'.pc = daemon.pc
    BY <1>4 DEF Warn, IInv, TypeOK, Daemon
  <2>2. QED
    BY <1>4, <2>1 DEF Warn, host
<1>5. QED
  BY <1>1, <1>2, <1>3, <1>4

(* The daemon dies, or a launch fails. *)
LEMMA FailureSteps ==
    ASSUME IInv, LaunchFails \/ Crash
    PROVE  /\ UNCHANGED <<jobs, notified>> /\ ProcSettles
           /\ daemon'.pc \notin {"launch", "grace", "kill", "notify"}
<1>1. proc' = Orphaned \/ UNCHANGED proc
  BY DEF LaunchFails, Crash
<1>2. daemon'.pc \in {"requests", "down"}
  BY DEF LaunchFails, Crash, AtRest, Down, Goto, GotoWith
<1>3. QED
  BY <1>1, <1>2, OrphanedSettles, UnchangedSettles DEF IInv, LaunchFails, Crash

(* A job that is stopped keeps its group until it has ended. *)
LEMMA TerminateRuns ==
    ASSUME IInv, RunsInv, NEW j \in Tracked, NEW final, NEW S, Terminate(j, final, S)
    PROVE  RunsInv'
<1>1. /\ j \in JobId /\ jobs[j].state = "RUNNING" /\ jobs[j].group = runner[j].group
      /\ jobs \in Table /\ jobs[j] \in Row
  BY ActiveRow DEF IInv, TypeOK, RunnerMatchesTable, Tracked
<1>2. jobs' = MarkState(jobs, j, "COMPLETING") /\ UNCHANGED proc
      /\ "COMPLETING" \in State \ {"PENDING"}
  BY DEF Terminate, host, State
<1>3. RowsInv'
  BY <1>1, <1>2, StateRows DEF RunsInv, RowsInv
<1>4. jobs'[j].group = jobs[j].group
  BY <1>1, <1>2, MarkStateFact
<1>5. daemon'.pc = "grace" /\ daemon'.job = j /\ daemon'.group = runner[j].group
  BY DEF Terminate, IInv, TypeOK, Daemon
<1>6. HeldInv'
  BY <1>1, <1>4, <1>5 DEF HeldInv
<1>7. QED
  BY <1>3, <1>6 DEF RunsInv, RowsInv

(* The end of a stopped job: its child was reaped, its group is gone, or   *)
(* both were killed after the grace period.                                *)
LEMMA EndJobRuns ==
    ASSUME IInv, RunsInv, ProcSettles, daemon.pc \in {"grace", "kill"},
           EndJob(daemon.final), Over(daemon.group)'
    PROVE  RunsInv'
<1>1. PICK j \in JobId : j = daemon.job
  BY DEF IInv, DaemonInv
<1>2. PICK g \in Groups : g = daemon.group
  BY DEF IInv, DaemonInv
<1>3. jobs[j].state = "COMPLETING" /\ jobs[j].group = g /\ daemon.final \in Terminal
  BY <1>1, <1>2 DEF IInv, DaemonInv, RunsInv, HeldInv, Terminal
<1>4. PICK final \in Terminal : jobs' = MarkFinished(jobs, j, final)
  BY <1>1, <1>3 DEF EndJob, Terminal
<1>5. daemon'.pc = "notify" /\ daemon'.group = daemon.group
  BY DEF EndJob, IInv, TypeOK, Daemon
<1>6. Over(g)'
  BY <1>2, <1>5 DEF Over, LeaderLives
<1>7. RowsInv'
  BY <1>3, <1>4, <1>6, FinishedRows DEF RunsInv, RowsInv
<1>8. QED
  BY <1>5, <1>7 DEF RunsInv, RowsInv, HeldInv

LEMMA GraceRuns == ASSUME IInv, RunsInv, GraceEnds PROVE RunsInv'
<1>1. PICK g \in Groups : g = daemon.group
  BY DEF GraceEnds, IInv, DaemonInv
<1>2. proc[g] \in Proc /\ daemon \in Daemon /\ daemon.pc = "grace"
  BY DEF GraceEnds, IInv, TypeOK
<1>3. CASE EndJob(daemon.final)
  <2>1. daemon'.group = g
    BY <1>1, <1>2, <1>3 DEF EndJob, Daemon
  <2>2. CASE proc' = [proc EXCEPT ![g] = Reap(proc[g])]
    <3>1. proc'[g].leader = "gone"
      BY <1>2, <2>2 DEF Reap, Proc, IInv, TypeOK
    <3>2. QED
      BY <1>2, <1>3, <2>1, <2>2, <3>1, ReapSettles, EndJobRuns DEF Over, LeaderLives, IInv
  <2>3. CASE UNCHANGED proc /\ ~GroupAlive(g)
    BY <1>2, <1>3, <2>1, <2>3, UnchangedSettles, EndJobRuns DEF Over, LeaderLives, GroupAlive
  <2>4. QED
    <3>1. daemon' = [daemon EXCEPT !.pc = "notify"]
      BY <1>3 DEF EndJob
    <3>2. daemon' # [daemon EXCEPT !.pc = "kill"]
      BY <1>2, <3>1 DEF Daemon
    <3>3. QED
      BY <1>1, <2>2, <2>3, <3>2 DEF GraceEnds
<1>4. CASE ~EndJob(daemon.final)
  <2>1. /\ proc' = [proc EXCEPT ![g] = [proc[g] EXCEPT !.killed = TRUE]] /\ UNCHANGED jobs
        /\ daemon' = [daemon EXCEPT !.pc = "kill"]
    BY <1>1, <1>2, <1>4 DEF GraceEnds
  <2>2. ProcSettles
    <3>1. Settles(proc[g], [proc[g] EXCEPT !.killed = TRUE])
      BY <1>2 DEF Settles, Proc
    <3>2. QED
      BY <2>1, <3>1, OneSettles DEF IInv
  <2>3. RowsInv'
    BY <2>1, <2>2, RowsKept DEF IInv, RunsInv, RowsInv
  <2>4. proc'[g].killed
    BY <1>2, <2>1 DEF Proc, IInv, TypeOK
  <2>5. daemon'.pc = "kill" /\ daemon'.group = g /\ daemon'.job = daemon.job
    BY <1>1, <1>2, <2>1 DEF Daemon
  <2>6. HeldInv'
    BY <1>1, <1>2, <2>1, <2>4, <2>5 DEF RunsInv, HeldInv
  <2>7. QED
    BY <2>3, <2>6 DEF RunsInv, RowsInv
<1>5. QED
  BY <1>3, <1>4

LEMMA KillRuns == ASSUME IInv, RunsInv, KillEnds PROVE RunsInv'
<1>1. PICK g \in Groups : g = daemon.group
  BY DEF KillEnds, IInv, DaemonInv
<1>2. daemon \in Daemon /\ daemon.pc = "kill" /\ EndJob(daemon.final) /\ proc[g].killed
  BY <1>1 DEF KillEnds, IInv, TypeOK, RunsInv, HeldInv
<1>3. ProcSettles
  BY <1>1, ReapSettles, UnchangedSettles DEF KillEnds, IInv
<1>4. daemon'.group = g
  BY <1>1, <1>2 DEF EndJob, Daemon
<1>5. Over(daemon.group)'
  BY <1>2, <1>3, <1>4 DEF Over, ProcSettles, Settles
<1>6. QED
  BY <1>2, <1>3, <1>5, EndJobRuns

(* The end of a job the loop or recover found: nothing of it is left that  *)
(* is alive.                                                               *)
LEMMA RecordRuns ==
    ASSUME IInv, RunsInv, ProcSettles, NEW j \in JobId, NEW final \in Terminal,
           Record(j, final), j \in daemon.todo,
           daemon.pc \in {"poll", "reconcile", "recover"},
           \A g \in Groups : g = jobs[j].group => Over(g)'
    PROVE  RunsInv'
<1>1. jobs[j].state = "RUNNING"
  BY DEF IInv, RunnerMatchesTable, DaemonInv, Part, Running, InState
<1>2. jobs' = MarkFinished(jobs, j, final)
  BY DEF Record
<1>3. daemon'.pc = "notify"
  BY DEF Record, IInv, TypeOK, Daemon
<1>4. RowsInv'
  BY <1>1, <1>2, FinishedRows DEF RunsInv, RowsInv
<1>5. QED
  BY <1>3, <1>4 DEF RunsInv, RowsInv, HeldInv

(* The daemon looks at a job and leaves it. *)
LEMMA SkipRuns ==
    ASSUME IInv, RunsInv, UNCHANGED <<jobs, proc>>, NEW j,
           daemon' = [daemon EXCEPT !.todo = @ \ {j}],
           daemon.pc \in {"poll", "reconcile", "recover"}
    PROVE  RunsInv'
<1>1. daemon'.pc = daemon.pc
  BY DEF IInv, TypeOK, Daemon
<1>2. QED
  BY <1>1, UnchangedSettles, MoveRuns

LEMMA PollRuns == ASSUME IInv, RunsInv, NEW j \in JobId, Poll(j) PROVE RunsInv'
<1>1. daemon.pc = "poll" /\ j \in daemon.todo /\ j \in Tracked
  BY DEF Poll, IInv, DaemonInv, Part
<1>2. PICK g \in Groups : g = runner[j].group /\ g = jobs[j].group
  BY <1>1 DEF IInv, TypeOK, RunnerMatchesTable, Tracked, NotTracked, TrackedRecord
<1>3. CASE runner[j].handle = "child" /\ LeaderReapable(g)
  <2>1. PICK final \in Terminal : Record(j, final)
    BY <1>2, <1>3 DEF Poll, Terminal
  <2>2. proc' = [proc EXCEPT ![g] = Reap(proc[g])] /\ proc[g] \in Proc
    BY <1>2, <1>3 DEF Poll, IInv, TypeOK
  <2>3. Over(g)'
    BY <2>2 DEF Over, LeaderLives, Reap, Proc, IInv, TypeOK
  <2>4. QED
    BY <1>1, <1>2, <2>1, <2>2, <2>3, ReapSettles, RecordRuns DEF IInv
<1>4. CASE ~(runner[j].handle = "child" /\ LeaderReapable(g))
  BY <1>1, <1>2, <1>4, SkipRuns DEF Poll, Skip
<1>5. QED
  BY <1>3, <1>4

LEMMA ReconcileRuns == ASSUME IInv, RunsInv, NEW j \in JobId, Reconcile(j) PROVE RunsInv'
<1>1. daemon.pc = "reconcile" /\ j \in daemon.todo /\ j \in Tracked /\ UNCHANGED proc
  BY DEF Reconcile, IInv, DaemonInv, Part, host
<1>2. runner[j].group = jobs[j].group
  BY <1>1 DEF IInv, RunnerMatchesTable
<1>3. CASE runner[j].handle = "adopted" /\ ~GroupAlive(runner[j].group)
  <2>1. PICK final \in Terminal : Record(j, final)
    BY <1>3 DEF Reconcile, FileState, StatusFile, Terminal
  <2>2. \A g \in Groups : g = jobs[j].group => Over(g)'
    BY <1>1, <1>2, <1>3 DEF GroupAlive, Over, LeaderLives
  <2>3. QED
    BY <1>1, <2>1, <2>2, UnchangedSettles, RecordRuns
<1>4. CASE ~(runner[j].handle = "adopted" /\ ~GroupAlive(runner[j].group))
  BY <1>1, <1>4, SkipRuns DEF Reconcile, Skip
<1>5. QED
  BY <1>3, <1>4

LEMMA RecoverRuns == ASSUME IInv, RunsInv, NEW j \in JobId, Recover(j) PROVE RunsInv'
<1>1. daemon.pc = "recover" /\ j \in daemon.todo /\ UNCHANGED proc
  BY DEF Recover, host
<1>2. CASE jobs[j].group # NoGroup /\ GroupAlive(jobs[j].group)
  BY <1>1, <1>2, SkipRuns DEF Recover
<1>3. CASE ~(jobs[j].group # NoGroup /\ GroupAlive(jobs[j].group))
  <2>1. PICK final \in Terminal : Record(j, final)
    BY <1>3 DEF Recover, FileState, StatusFile, Terminal
  <2>2. \A g \in Groups : g = jobs[j].group => Over(g)'
    BY <1>1, <1>3, StoreAssumption DEF GroupAlive, Over, LeaderLives
  <2>3. QED
    BY <1>1, <2>1, <2>2, UnchangedSettles, RecordRuns
<1>4. QED
  BY <1>2, <1>3

(* Every step keeps the account. *)
LEMMA RunsInductive == IInv /\ RunsInv /\ [Next]_vars => RunsInv'
<1> SUFFICES ASSUME IInv, RunsInv, [Next]_vars PROVE RunsInv'
  OBVIOUS
<1>1. CASE Host
  BY <1>1, HostRuns
<1>2. ASSUME NEW j \in JobId, NEW r \in Requests, SubmitBatch(j, r)
      PROVE  RunsInv'
  <2>1. jobs[j].state = "NONE" /\ UNCHANGED proc /\ jobs' = CreateJob(jobs, j, r)
    BY <1>2 DEF SubmitBatch, IsNextId, Rows, host
  <2>2. daemon'.pc = "requestPass"
    BY <1>2 DEF SubmitBatch, Goto, GotoWith
  <2>3. RowsInv'
    BY <2>1, InsertedRows DEF RunsInv, RowsInv
  <2>4. QED
    BY <2>2, <2>3 DEF RunsInv, RowsInv, HeldInv
<1>3. ASSUME NEW j \in JobId, CancelWaiting(j)
      PROVE  RunsInv'
  <2>1. /\ jobs' = MarkState(jobs, j, "CANCELLED") /\ "CANCELLED" \in State \ {"PENDING"}
        /\ jobs[j].state # "NONE" /\ UNCHANGED <<proc, daemon>> /\ daemon.pc = "requests"
    BY <1>3 DEF CancelWaiting, CancelPending, State, Terminal, host
  <2>2. RowsInv'
    BY <2>1, StateRows DEF RunsInv, RowsInv
  <2>3. QED
    BY <2>1, <2>2 DEF RunsInv, RowsInv, HeldInv
<1>4. ASSUME NEW j \in JobId, CancelTracked(j) \/ TimeOut(j)
      PROVE  RunsInv'
  <2>1. j \in Tracked
    BY <1>4 DEF CancelTracked, TimeOut, IInv, DaemonInv, Part
  <2>2. QED
    BY <1>4, <2>1, TerminateRuns DEF CancelTracked, TimeOut
<1>5. CASE \/ PassEnd \/ Notify \/ NextPart \/ RequestsEnd \/ Restart
           \/ \E j \in JobId, c \in {"early", "warn", "over"} : UpdateTimeLimit(j, c)
           \/ \E j \in JobId : Warn(j)
  BY <1>5, MovesOn, UnchangedSettles, MoveRuns
<1>6. CASE LaunchFails \/ Crash
  BY <1>6, FailureSteps, MoveRuns
<1>7. CASE UNCHANGED vars
  BY <1>7 DEF vars, RunsInv, GroupInv, HeldInv, Rows, RowInv, RecordedRuns, LeaderLives
<1>8. QED
  BY <1>1, <1>2, <1>3, <1>4, <1>5, <1>6, <1>7, SpawnRuns, MarkRuns, GraceRuns, KillRuns,
     PollRuns, ReconcileRuns, RecoverRuns
  DEF Next, ClientRequest, Loop, Launch

LEMMA RunsInvariant == Spec => []RunsInv
<1>1. Init => RunsInv
  BY RunsInit
<1>2. QED
  BY <1>1, RunsInductive, Invariant, PTL DEF Spec

(* At most one run of a job has a leader that is alive and was not killed: *)
(* a requeue never begins beside the run it repeats, whatever the daemon   *)
(* saw of that run's end.                                                  *)
THEOREM RunsSeparate == Spec => []RunsDoNotOverlap
<1>1. IInv /\ RunsInv => RunsDoNotOverlap
  <2> SUFFICES ASSUME IInv, RunsInv, NEW g \in Groups, NEW h \in Groups,
                      g # h, proc[g].job = proc[h].job, proc[g].marked, proc[h].marked,
                      LeaderLives(g), LeaderLives(h)
               PROVE  proc[g].killed \/ proc[h].killed
    BY DEF RunsDoNotOverlap
  <2>1. PICK j \in Rows(jobs) : j = proc[g].job
    BY DEF RunsInv, GroupInv, IInv, TypeOK, Proc, Rows
  <2>2. g \in RecordedRuns(j) /\ h \in RecordedRuns(j)
    BY <2>1 DEF RecordedRuns
  <2>3. \A i \in RecordedRuns(j) \ {jobs[j].group} : LeaderLives(i) => proc[i].killed
    BY <2>1 DEF RunsInv, RowInv
  <2>4. QED
    BY <2>2, <2>3
<1>2. QED
  BY <1>1, RunsInvariant, Invariant, PTL

(* A set with one element has cardinality 1, one with two at most 2. *)
LEMMA CardinalityOfFew ==
    ASSUME NEW S, NEW a, NEW b, S \subseteq {a, b}
    PROVE  /\ Cardinality(S) \in Nat /\ Cardinality(S) <= 2
           /\ S \subseteq {a} => Cardinality(S) <= 1
<1>1. IsFiniteSet({a}) /\ Cardinality({a}) = 1
  BY FS_Singleton
<1>2. IsFiniteSet({a, b}) /\ Cardinality({a, b}) <= 2
  <2>1. {a, b} = {a} \cup {b}
    OBVIOUS
  <2>2. QED
    BY <1>1, <2>1, FS_AddElement
<1>3. /\ Cardinality(S) <= Cardinality({a, b})
      /\ S \subseteq {a} => Cardinality(S) <= Cardinality({a})
      /\ Cardinality(S) \in Nat /\ Cardinality({a, b}) \in Nat
  BY <1>1, <1>2, FS_Subset, FS_CardinalityType
<1>4. QED
  BY <1>1, <1>2, <1>3

(* A job runs once, and once more when --requeue asks for it: no crash,    *)
(* recovery, cancellation or late exit makes the daemon start it again, or *)
(* leaves it waiting for a run it must not have.                           *)
THEOREM RunsAreBounded == Spec => []RunsBounded
<1>1. IInv /\ RunsInv => RunsBounded
  <2> SUFFICES ASSUME IInv, RunsInv, NEW j \in Rows(jobs)
               PROVE  Cardinality(RecordedRuns(j)) + (IF jobs[j].state = "PENDING" THEN 1 ELSE 0)
                        <= IF jobs[j].req.requeue THEN 2 ELSE 1
    BY DEF RunsBounded
  <2> DEFINE n == Cardinality(RecordedRuns(j))
  <2>1. RowInv(j) /\ NoGroup \notin RecordedRuns(j)
    BY StoreAssumption DEF RunsInv, RecordedRuns
  <2>2. n \in Nat
    BY <2>1, CardinalityOfFew DEF RowInv
  <2>3. CASE jobs[j].requeues = 0
    <3>1. n <= 1 /\ (RecordedRuns(j) = {} => n = 0)
      BY <2>1, <2>3, CardinalityOfFew, FS_EmptySet DEF RowInv
    <3>2. jobs[j].state = "PENDING" => RecordedRuns(j) = {}
      BY <2>1, <2>3 DEF RowInv
    <3> HIDE DEF n
    <3>3. n + (IF jobs[j].state = "PENDING" THEN 1 ELSE 0) <= 1
      BY <2>2, <3>1, <3>2
    <3>4. QED
      BY <2>2, <3>3 DEF n
  <2>4. CASE jobs[j].requeues # 0
    <3>1. PICK h : RecordedRuns(j) \subseteq {h, jobs[j].group}
      BY <2>1, <2>4 DEF RowInv
    <3>2. n <= 2 /\ (RecordedRuns(j) \subseteq {h} => n <= 1)
      BY <3>1, CardinalityOfFew
    <3>3. jobs[j].state = "PENDING" => RecordedRuns(j) \subseteq {h}
      BY <2>1, <3>1 DEF RowInv
    <3>4. jobs[j].req.requeue
      BY <2>1, <2>4 DEF RowInv
    <3> HIDE DEF n
    <3>5. n + (IF jobs[j].state = "PENDING" THEN 1 ELSE 0) <= 2
      BY <2>2, <3>2, <3>3
    <3>6. QED
      BY <3>4, <3>5 DEF n
  <2>5. QED
    BY <2>3, <2>4
<1>2. QED
  BY <1>1, RunsInvariant, Invariant, PTL

----------------------------------------------------------------------------
(* COMPLETED is honest *)

(***************************************************************************)
(* The group in the job's row returned 0.  The row outlives the daemon and *)
(* the group; it never claims a success that did not happen.               *)
(***************************************************************************)
ReturnedZero(j) ==
    \E g \in Groups :
        g = jobs[j].group /\ proc[g].code = "ok" /\ proc[g].leader # "running"

HonestInv ==
    \A j \in JobId : jobs[j].state = "COMPLETED" => ReturnedZero(j)

(* Only the two steps of a launch do not settle. *)
LEMMA StepSettles ==
    ASSUME IInv, Next, ~LaunchMark, \A j \in JobId, g \in Groups : ~LaunchSpawn(j, g)
    PROVE  ProcSettles
<1>1. CASE Host
  BY <1>1, HostSettles DEF IInv
<1>2. CASE \/ PassEnd \/ Notify \/ NextPart \/ RequestsEnd \/ Restart
           \/ \E j \in JobId, c \in {"early", "warn", "over"} : UpdateTimeLimit(j, c)
           \/ \E j \in JobId : Warn(j)
  BY <1>2, MovesOn, UnchangedSettles
<1>3. CASE LaunchFails \/ Crash
  BY <1>3, FailureSteps
<1>4. ASSUME NEW j \in JobId,
             \/ CancelWaiting(j) \/ CancelTracked(j) \/ TimeOut(j) \/ Reconcile(j) \/ Recover(j)
             \/ \E r \in Requests : SubmitBatch(j, r)
      PROVE  ProcSettles
  BY <1>4, UnchangedSettles
  DEF CancelWaiting, CancelTracked, TimeOut, Terminate, Reconcile, Recover, SubmitBatch, host
<1>5. ASSUME NEW j \in JobId, Poll(j)
      PROVE  ProcSettles
  <2>1. runner[j].group \in Groups
    BY <1>5 DEF Poll, IInv, TypeOK, DaemonInv, Part, Tracked, NotTracked, TrackedRecord
  <2>2. UNCHANGED proc \/ proc' = [proc EXCEPT ![runner[j].group] = Reap(@)]
    BY <1>5 DEF Poll
  <2>3. QED
    BY <2>1, <2>2, UnchangedSettles, ReapSettles DEF IInv
<1>6. CASE GraceEnds \/ KillEnds
  <2>1. PICK g \in Groups : g = daemon.group
    BY <1>6 DEF GraceEnds, KillEnds, IInv, DaemonInv
  <2>2. \/ UNCHANGED proc
        \/ proc' = [proc EXCEPT ![g] = Reap(proc[g])]
        \/ proc' = [proc EXCEPT ![g] = [proc[g] EXCEPT !.killed = TRUE]]
    BY <1>6, <2>1 DEF GraceEnds, KillEnds
  <2>3. proc[g] \in Proc
    BY DEF IInv, TypeOK
  <2>4. Settles(proc[g], [proc[g] EXCEPT !.killed = TRUE])
    BY <2>3 DEF Settles, Proc
  <2>5. QED
    BY <2>2, <2>4, UnchangedSettles, ReapSettles, OneSettles DEF IInv
<1>7. QED
  BY <1>1, <1>2, <1>3, <1>4, <1>5, <1>6 DEF Next, ClientRequest, Loop, Launch

(* What a group returned is never forgotten, once mark_running recorded it. *)
LEMMA ReturnedKept ==
    ASSUME IInv, RunsInv, Next, NEW g \in Groups, proc[g].job # 0,
           proc[g].code = "ok", proc[g].leader # "running"
    PROVE  proc'[g].code = "ok" /\ proc'[g].leader # "running"
<1>1. proc[g] \in Proc /\ proc \in [Groups -> Proc]
  BY DEF IInv, TypeOK
<1>2. CASE ProcSettles
  BY <1>2 DEF ProcSettles, Settles
<1>3. CASE LaunchMark
  <2>1. proc' = [proc EXCEPT ![daemon.group].marked = TRUE]
    BY <1>3 DEF LaunchMark
  <2>2. QED
    BY <1>1, <2>1 DEF Proc
<1>4. ASSUME NEW i \in JobId, NEW h \in Groups, LaunchSpawn(i, h)
      PROVE  proc'[g] = proc[g]
  <2>1. proc[h].job = 0 /\ \A k \in Groups \ {h} : proc'[k] = proc[k]
    BY <1>1, <1>4 DEF LaunchSpawn, IsNextGroup
  <2>2. QED
    BY <2>1
<1>5. QED
  BY <1>2, <1>3, <1>4, StepSettles

(* A row becomes COMPLETED only on evidence, the exit code of a reaped     *)
(* child, and keeps the group it was reaped from.                          *)
LEMMA FinishedAs ==
    ASSUME IInv, NEW j \in JobId, NEW final \in Terminal, jobs[j].state # "NONE",
           jobs' = MarkFinished(jobs, j, final)
    PROVE  /\ jobs'[j].state \in {final, "PENDING"}
           /\ jobs'[j].state = final => jobs'[j].group = jobs[j].group
           /\ \A i \in JobId \ {j} : jobs'[i] = jobs[i]
<1>1. jobs \in Table /\ jobs[j] \in Row /\ final # "PENDING"
  BY ActiveRow DEF IInv, TypeOK, Terminal
<1>2. /\ Finished(jobs[j], final).state = final /\ Requeued(jobs[j]).state = "PENDING"
      /\ Finished(jobs[j], final).group = jobs[j].group
  BY <1>1, FinishedColumns, FinishedRun
<1>3. QED
  BY <1>1, <1>2, MarkFinishedFact

Evidence(j) ==
    \E g \in Groups : g = jobs[j].group /\ proc[g].leader = "zombie" /\ proc[g].code = "ok"

LEMMA CompletedOnEvidence ==
    ASSUME IInv, Next, NEW j \in JobId, jobs'[j].state = "COMPLETED",
           jobs[j].state # "COMPLETED"
    PROVE  Evidence(j) /\ jobs[j].state # "NONE" /\ jobs'[j].group = jobs[j].group
<1>1. PICK i \in JobId : RowStep(i)
  BY TableSteps
<1>2. /\ i = j
      /\ \A k \in JobId : ~Inserted(k) /\ ~Launched(k) /\ ~Cancelled(k) /\ ~Stopped(k)
  <2>1. ASSUME NEW k \in JobId, RowStep(k)
        PROVE  k = j /\ ~Inserted(j) /\ ~Launched(j) /\ ~Cancelled(j) /\ ~Stopped(j)
    BY <2>1, RowStepColumns
  <2>2. QED
    BY <1>1, <2>1 DEF RowStep
<1>3. Ended(j)
  BY <1>1, <1>2 DEF RowStep
<1>4. jobs[j].state = "RUNNING" /\ jobs'[j].group = jobs[j].group
  <2>1. PICK final \in Terminal : EndsWith(j, final) /\ jobs' = MarkFinished(jobs, j, final)
    BY <1>3 DEF Ended
  <2>2. jobs'[j].state = final
    BY <2>1, FinishedAs DEF EndsWith
  <2>3. QED
    BY <2>1, <2>2, FinishedAs DEF EndsWith
<1>5. ASSUME NEW k \in JobId, NEW final \in Terminal, Record(k, final), k \in daemon.todo,
             daemon.pc \in {"poll", "reconcile", "recover"}
      PROVE  k = j /\ final = "COMPLETED"
  <2>1. jobs[k].state = "RUNNING"
    BY <1>5 DEF IInv, RunnerMatchesTable, DaemonInv, Part, Running, InState
  <2>2. QED
    BY <1>5, <2>1, FinishedAs DEF Record
<1>6. ASSUME NEW k \in JobId, Poll(k)
      PROVE  Evidence(j)
  <2>1. ~UNCHANGED jobs /\ daemon.pc = "poll" /\ k \in daemon.todo /\ k \in Tracked
    BY <1>6 DEF Poll, IInv, DaemonInv, Part
  <2>2. PICK g \in Groups : g = runner[k].group /\ g = jobs[k].group
    BY <2>1 DEF IInv, TypeOK, RunnerMatchesTable, Tracked, NotTracked, TrackedRecord
  <2> DEFINE final == IF oom[k] THEN "OUT_OF_MEMORY"
                      ELSE IF proc[g].leader = "zombie" /\ proc[g].code = "ok"
                      THEN "COMPLETED" ELSE "FAILED"
  <2>3. Record(k, final) /\ final \in Terminal
    BY <1>6, <2>1, <2>2 DEF Poll, Skip, Terminal
  <2>4. k = j /\ final = "COMPLETED"
    BY <1>5, <2>1, <2>3
  <2>5. QED
    BY <2>2, <2>4 DEF Evidence
<1>7. ASSUME NEW k \in JobId, Reconcile(k)
      PROVE  Evidence(j)
  <2> DEFINE final == IF oom[k] THEN "OUT_OF_MEMORY" ELSE FileState(k)
  <2>1. /\ Record(k, final) /\ final \in Terminal
        /\ k \in daemon.todo /\ daemon.pc = "reconcile"
    BY <1>7 DEF Reconcile, Skip, FileState, StatusFile, Terminal
  <2>2. k = j /\ final = "COMPLETED"
    BY <1>5, <2>1
  <2>3. QED
    BY <2>2 DEF Evidence, FileState, StatusFile
<1>8. ASSUME NEW k \in JobId, Recover(k)
      PROVE  Evidence(j)
  <2> DEFINE final == IF jobs[k].group = NoGroup THEN "FAILED" ELSE FileState(k)
  <2>1. /\ Record(k, final) /\ final \in Terminal
        /\ k \in daemon.todo /\ daemon.pc = "recover"
    BY <1>8 DEF Recover, FileState, StatusFile, Terminal
  <2>2. k = j /\ final = "COMPLETED"
    BY <1>5, <2>1
  <2>3. QED
    BY <2>2 DEF Evidence, FileState, StatusFile
<1>9. CASE GraceEnds \/ KillEnds
  <2>1. PICK k \in JobId : k = daemon.job /\ jobs[k].state = "COMPLETING"
    BY <1>9 DEF GraceEnds, KillEnds, IInv, DaemonInv
  <2>2. PICK final \in Terminal : jobs' = MarkFinished(jobs, k, final)
    <3>1. EndJob(daemon.final) /\ daemon.final \in Terminal
      BY <1>9 DEF GraceEnds, KillEnds, IInv, DaemonInv, Terminal
    <3>2. QED
      BY <2>1, <3>1 DEF EndJob, Terminal
  <2>3. QED
    BY <1>4, <2>1, <2>2, FinishedAs
<1>10. ASSUME \/ Host \/ LaunchFails \/ Crash
              \/ PassEnd \/ Notify \/ NextPart \/ RequestsEnd \/ Restart
              \/ \E k \in JobId, g \in Groups : LaunchSpawn(k, g)
              \/ \E k \in JobId, c \in {"early", "warn", "over"} : UpdateTimeLimit(k, c)
              \/ \E k \in JobId : Warn(k)
       PROVE  UNCHANGED jobs
  BY <1>10, MovesOn, FailureSteps
  DEF Host, LeaderReturns, LeaderDies, RestExits, KilledDies, OomEvent, TimePasses,
      LaunchSpawn
<1>11. ASSUME NEW k \in JobId, NEW r \in Requests, SubmitBatch(k, r)
       PROVE  FALSE
  BY <1>2, <1>11 DEF SubmitBatch, IsNextId, Rows, Inserted
<1>12. ASSUME NEW k \in JobId, CancelWaiting(k)
       PROVE  FALSE
  BY <1>2, <1>12 DEF CancelWaiting, CancelPending, Cancelled
<1>13. ASSUME NEW k \in JobId, CancelTracked(k) \/ TimeOut(k)
       PROVE  FALSE
  <2>1. jobs[k].state = "RUNNING" /\ jobs' = MarkState(jobs, k, "COMPLETING")
    BY <1>13 DEF CancelTracked, TimeOut, Terminate, IInv, RunnerMatchesTable, DaemonInv, Part
  <2>2. QED
    BY <1>2, <2>1 DEF Stopped
<1>14. CASE LaunchMark
  <2>1. PICK k \in JobId : k = daemon.job /\ jobs[k].state = "PENDING"
    BY <1>14 DEF LaunchMark, IInv, DaemonInv
  <2>2. PICK g \in Groups : jobs' = MarkRunning(jobs, k, g, {})
    BY <1>14, <2>1 DEF LaunchMark, IInv, DaemonInv
  <2>3. QED
    BY <1>2, <2>1, <2>2 DEF Launched
<1>15. Evidence(j)
  BY <1>6, <1>7, <1>8, <1>9, <1>10, <1>11, <1>12, <1>13, <1>14
  DEF Next, ClientRequest, Loop, Launch
<1>16. QED
  BY <1>4, <1>15

LEMMA HonestInductive == IInv /\ RunsInv /\ HonestInv /\ [Next]_vars => HonestInv'
<1> SUFFICES ASSUME IInv, RunsInv, HonestInv, [Next]_vars, NEW j \in JobId,
                    jobs'[j].state = "COMPLETED"
             PROVE  ReturnedZero(j)'
  BY DEF HonestInv
<1>1. CASE UNCHANGED vars
  BY <1>1 DEF vars, HonestInv, ReturnedZero
<1>2. CASE Next
  <2>1. PICK g \in Groups : /\ g = jobs[j].group /\ g = jobs'[j].group
                            /\ jobs[j].state # "NONE"
                            /\ proc[g].code = "ok" /\ proc[g].leader # "running"
    <3>1. CASE jobs[j].state = "COMPLETED"
      <4>1. jobs'[j] = jobs[j]
        BY <3>1, TerminalKept DEF Terminal
      <4>2. QED
        BY <3>1, <4>1 DEF HonestInv, ReturnedZero
    <3>2. CASE jobs[j].state # "COMPLETED"
      BY <1>2, <3>2, CompletedOnEvidence DEF Evidence
    <3>3. QED
      BY <3>1, <3>2
  <2>2. proc[g].job = j /\ j # 0
    <3>1. RowInv(j) /\ g # NoGroup
      BY <2>1, StoreAssumption DEF RunsInv, Rows
    <3>2. QED
      BY <2>1, <3>1 DEF RowInv, JobId
  <2>3. proc'[g].code = "ok" /\ proc'[g].leader # "running"
    BY <1>2, <2>1, <2>2, ReturnedKept
  <2>4. QED
    BY <2>1, <2>3 DEF ReturnedZero
<1>3. QED
  BY <1>1, <1>2

(* A job recorded as COMPLETED returned 0, in the run its row names: no    *)
(* signal, crash, lost child, missing status file, earlier run or orphaned *)
(* process is taken for a success.                                         *)
THEOREM CompletedStaysHonest == Spec => []CompletedIsHonest
<1>1. Init => HonestInv
  BY DEF Init, HonestInv, EmptyTable, NoRow
<1>2. HonestInv => CompletedIsHonest
  BY DEF HonestInv, CompletedIsHonest, InState, ReturnedZero
<1>3. QED
  BY <1>1, <1>2, HonestInductive, RunsInvariant, Invariant, PTL DEF Spec

----------------------------------------------------------------------------
(* The end of a job is reported once *)

(***************************************************************************)
(* A job that ended is reported, or the daemon is about to: what it holds  *)
(* at "notify" is not reported yet, and what was reported is terminal and  *)
(* so never comes there again.                                             *)
(***************************************************************************)
Reporting(j) == daemon.pc = "notify" /\ daemon.job = j

NotifyInv ==
    \A j \in JobId :
        /\ notified[j] \in {0, 1}
        /\ notified[j] = 1 => jobs[j].state \in Terminal /\ ~Reporting(j)
        /\ crashes = 0 /\ jobs[j].state \in Terminal /\ jobs[j].started
              => notified[j] = 1 \/ Reporting(j)

(***************************************************************************)
(* A step that reports nothing keeps NotifyInv if every job that ends in   *)
(* it, and did start, is reported next, nothing that had ended before is,  *)
(* and the report of none is lost but by a crash.                          *)
(***************************************************************************)
LEMMA NotReported ==
    ASSUME IInv, NotifyInv, Next, UNCHANGED notified,
           crashes' = 0 => crashes = 0 /\ \A j \in JobId : Reporting(j) => Reporting(j)',
           \A j \in JobId :
              /\ jobs[j].state \notin Terminal /\ jobs'[j].state \in Terminal
                    => Reporting(j)' \/ ~jobs'[j].started
              /\ Reporting(j)' => Reporting(j) \/ jobs[j].state \notin Terminal
    PROVE  NotifyInv'
<1> SUFFICES ASSUME NEW j \in JobId
             PROVE  /\ notified'[j] \in {0, 1}
                    /\ notified'[j] = 1 => jobs'[j].state \in Terminal /\ ~Reporting(j)'
                    /\ crashes' = 0 /\ jobs'[j].state \in Terminal /\ jobs'[j].started
                          => notified'[j] = 1 \/ Reporting(j)'
  BY DEF NotifyInv
<1>1. jobs[j].state \in Terminal => jobs'[j] = jobs[j]
  BY TerminalKept
<1>2. QED
  BY <1>1 DEF NotifyInv

(* The daemon comes to "notify" with a job that ends in that step. *)
LEMMA EndingReported ==
    ASSUME IInv, NotifyInv, Next, UNCHANGED <<notified, crashes>>, daemon.pc # "notify",
           NEW j \in JobId, NEW final \in Terminal,
           jobs[j].state \in {"RUNNING", "COMPLETING"},
           jobs' = MarkFinished(jobs, j, final),
           daemon'.pc = "notify", daemon'.job = j
    PROVE  NotifyInv'
<1>1. jobs[j].state # "NONE" /\ jobs[j].state \notin Terminal
  BY DEF Terminal
<1>2. \A i \in JobId \ {j} : jobs'[i] = jobs[i]
  BY <1>1, FinishedAs
<1>3. QED
  BY <1>1, <1>2, NotReported DEF Reporting

(* The daemon neither was at "notify" nor comes there, and no job that     *)
(* started ends.                                                           *)
LEMMA ElsewhereReported ==
    ASSUME IInv, NotifyInv, Next, UNCHANGED <<notified, crashes>>,
           daemon.pc # "notify", daemon'.pc # "notify",
           \A j \in JobId : jobs[j].state \notin Terminal /\ jobs'[j].state \in Terminal
                               => ~jobs'[j].started
    PROVE  NotifyInv'
BY NotReported DEF Reporting

LEMMA NotifyOnce == ASSUME IInv, NotifyInv, Notify PROVE NotifyInv'
<1>1. PICK i \in JobId : i = daemon.job /\ Reporting(i)
  BY DEF Notify, IInv, DaemonInv, Reporting
<1>2. /\ notified' = IF jobs[i].state \in Terminal
                     THEN [notified EXCEPT ![i] = notified[i] + 1] ELSE notified
      /\ UNCHANGED <<jobs, crashes>> /\ notified \in [JobId -> Nat]
  BY <1>1 DEF Notify, IInv, TypeOK
<1>3. notified[i] = 0 /\ \A j \in JobId \ {i} : ~Reporting(j)
  BY <1>1 DEF NotifyInv, Reporting
<1>4. \A j \in JobId : ~Reporting(j)'
  BY MovesOn DEF Reporting
<1>5. QED
  BY <1>2, <1>3, <1>4 DEF NotifyInv

LEMMA NotifyInductive == IInv /\ RunsInv /\ NotifyInv /\ [Next]_vars => NotifyInv'
<1> SUFFICES ASSUME IInv, RunsInv, NotifyInv, [Next]_vars PROVE NotifyInv'
  OBVIOUS
<1>1. CASE UNCHANGED vars
  BY <1>1 DEF vars, NotifyInv, Reporting
<1>2. CASE Notify
  BY <1>2, NotifyOnce
<1>3. CASE Host
  <2>1. UNCHANGED <<jobs, daemon, notified, crashes>> /\ Next
    BY <1>3 DEF Host, LeaderReturns, LeaderDies, RestExits, KilledDies, OomEvent,
       TimePasses, log, Next
  <2>2. QED
    BY <2>1, NotReported DEF Reporting
<1>4. CASE \/ PassEnd \/ NextPart \/ RequestsEnd \/ Restart
           \/ \E j \in JobId, c \in {"early", "warn", "over"} : UpdateTimeLimit(j, c)
           \/ \E j \in JobId : Warn(j)
  <2>1. UNCHANGED <<jobs, notified, crashes>> /\ daemon'.pc # "notify"
    BY <1>4, MovesOn DEF PassEnd, NextPart, RequestsEnd, Restart, UpdateTimeLimit, Warn, log
  <2>2. daemon.pc # "notify"
    BY <1>4 DEF PassEnd, NextPart, RequestsEnd, Restart, UpdateTimeLimit, Warn
  <2>3. Next
    BY <1>4 DEF Next, ClientRequest, Loop
  <2>4. QED
    BY <2>1, <2>2, <2>3, ElsewhereReported
<1>5. CASE LaunchFails
  <2>1. daemon.pc # "notify" /\ UNCHANGED crashes /\ Next
    BY <1>5 DEF LaunchFails, Next
  <2>2. QED
    BY <1>5, <2>1, FailureSteps, ElsewhereReported
<1>6. CASE Crash
  <2>1. crashes' # 0 /\ Next
    BY <1>6 DEF Crash, IInv, TypeOK, Next
  <2>2. QED
    BY <1>6, <2>1, FailureSteps, NotReported DEF Reporting
<1>7. ASSUME NEW j \in JobId, NEW r \in Requests, SubmitBatch(j, r)
      PROVE  NotifyInv'
  <2>1. Next /\ daemon.pc # "notify" /\ UNCHANGED <<notified, crashes>>
    BY <1>7 DEF Next, ClientRequest, SubmitBatch, log
  <2>2. daemon'.pc = "requestPass"
    BY <1>7 DEF SubmitBatch, Goto, GotoWith
  <2>3. Inserted(j)
    BY <1>7 DEF SubmitBatch, IsNextId, Rows, Inserted
  <2>4. jobs'[j].state = "PENDING" /\ \A i \in JobId \ {j} : jobs'[i] = jobs[i]
    BY <2>3, RowStepColumns DEF RowStep
  <2>5. QED
    BY <2>1, <2>2, <2>4, ElsewhereReported DEF Terminal
<1>8. ASSUME NEW j \in JobId, CancelWaiting(j)
      PROVE  NotifyInv'
  <2>1. /\ Next /\ daemon.pc # "notify" /\ UNCHANGED <<daemon, notified, crashes>>
        /\ jobs[j].state = "PENDING" /\ jobs' = MarkState(jobs, j, "CANCELLED")
    BY <1>8 DEF Next, ClientRequest, CancelWaiting, CancelPending
  <2>2. jobs \in Table /\ jobs[j] \in Row /\ "CANCELLED" \in State
    BY <2>1, ActiveRow DEF IInv, TypeOK, State, Terminal
  <2>3. jobs'[j].started = jobs[j].started /\ \A i \in JobId \ {j} : jobs'[i] = jobs[i]
    BY <2>1, <2>2, MarkStateFact
  <2>4. ~jobs[j].started
    BY <2>1 DEF RunsInv, Rows, RowInv
  <2>5. QED
    BY <2>1, <2>3, <2>4, ElsewhereReported
<1>9. ASSUME NEW j \in JobId, CancelTracked(j) \/ TimeOut(j)
      PROVE  NotifyInv'
  <2>1. /\ Next /\ daemon.pc # "notify" /\ UNCHANGED <<notified, crashes>>
        /\ jobs' = MarkState(jobs, j, "COMPLETING") /\ jobs[j].state = "RUNNING"
    BY <1>9 DEF Next, ClientRequest, Loop, CancelTracked, TimeOut, Terminate, log, IInv,
       RunnerMatchesTable, DaemonInv, Part
  <2>2. daemon'.pc = "grace"
    BY <1>9 DEF CancelTracked, TimeOut, Terminate, IInv, TypeOK, Daemon
  <2>3. Stopped(j) /\ RowStep(j)
    BY <2>1 DEF Stopped, RowStep
  <2>4. jobs'[j].state = "COMPLETING" /\ \A i \in JobId \ {j} : jobs'[i] = jobs[i]
    BY <2>3, RowStepColumns
  <2>5. QED
    BY <2>1, <2>2, <2>4, ElsewhereReported DEF Terminal
<1>10. ASSUME NEW j \in JobId, NEW g \in Groups, LaunchSpawn(j, g)
       PROVE  NotifyInv'
  <2>1. daemon.pc # "notify" /\ daemon'.pc = "launch" /\ UNCHANGED <<jobs, notified, crashes>>
    BY <1>10 DEF LaunchSpawn, IInv, TypeOK, Daemon, log
  <2>2. Next
    BY <1>10 DEF Next, Loop, Launch
  <2>3. QED
    BY <2>1, <2>2, ElsewhereReported
<1>11. CASE LaunchMark
  <2>1. /\ daemon.pc # "notify" /\ daemon'.pc = daemon.next
        /\ daemon.next \in {"pass", "requestPass"} /\ UNCHANGED <<notified, crashes>>
    BY <1>11 DEF LaunchMark, Goto, GotoWith, IInv, DaemonInv, log
  <2>2. PICK j \in JobId : Launched(j)
    BY <1>11 DEF LaunchMark, IInv, DaemonInv, Launched
  <2>3. jobs'[j].state = "RUNNING" /\ \A i \in JobId \ {j} : jobs'[i] = jobs[i]
    BY <2>2, RowStepColumns DEF RowStep
  <2>4. Next
    BY <1>11 DEF Next, Loop, Launch
  <2>5. QED
    BY <2>1, <2>3, <2>4, ElsewhereReported DEF Terminal
<1>12. CASE GraceEnds \/ KillEnds
  <2>1. /\ Next /\ daemon.pc # "notify" /\ UNCHANGED <<notified, crashes>>
        /\ daemon.pc \in {"grace", "kill"}
    BY <1>12 DEF Next, Loop, GraceEnds, KillEnds, log
  <2>2. PICK j \in JobId : j = daemon.job /\ jobs[j].state = "COMPLETING"
    BY <2>1 DEF IInv, DaemonInv
  <2>3. CASE EndJob(daemon.final)
    <3>1. daemon'.pc = "notify" /\ daemon'.job = j
      BY <2>2, <2>3 DEF EndJob, IInv, TypeOK, Daemon
    <3>2. PICK final \in Terminal : jobs' = MarkFinished(jobs, j, final)
      <4>1. daemon.final \in Terminal
        BY <2>1 DEF IInv, DaemonInv, Terminal
      <4>2. QED
        BY <2>2, <2>3, <4>1 DEF EndJob, Terminal
    <3>3. QED
      BY <2>1, <2>2, <3>1, <3>2, EndingReported
  <2>4. CASE ~EndJob(daemon.final)
    <3>1. UNCHANGED jobs /\ daemon' = [daemon EXCEPT !.pc = "kill"]
      BY <1>12, <2>4 DEF GraceEnds, KillEnds
    <3>2. daemon'.pc = "kill"
      BY <3>1 DEF IInv, TypeOK, Daemon
    <3>3. QED
      BY <2>1, <3>1, <3>2, ElsewhereReported
  <2>5. QED
    BY <2>3, <2>4
<1>13. ASSUME NEW j \in JobId, Poll(j) \/ Reconcile(j) \/ Recover(j)
       PROVE  NotifyInv'
  <2>1. /\ Next /\ UNCHANGED <<notified, crashes>>
        /\ daemon.pc \in {"poll", "reconcile", "recover"} /\ j \in daemon.todo
    BY <1>13 DEF Next, Loop, Poll, Reconcile, Recover, log
  <2>2. ASSUME NEW final \in Terminal, Record(j, final)
        PROVE  NotifyInv'
    <3>1. jobs[j].state = "RUNNING"
      BY <2>1 DEF IInv, RunnerMatchesTable, DaemonInv, Part, Running, InState
    <3>2. daemon'.pc = "notify" /\ daemon'.job = j /\ jobs' = MarkFinished(jobs, j, final)
      BY <2>2 DEF Record, IInv, TypeOK, Daemon
    <3>3. QED
      BY <2>1, <3>1, <3>2, EndingReported
  <2>3. CASE UNCHANGED jobs /\ daemon' = [daemon EXCEPT !.todo = @ \ {j}]
    <3>1. daemon'.pc = daemon.pc
      BY <2>3 DEF IInv, TypeOK, Daemon
    <3>2. QED
      BY <2>1, <2>3, <3>1, ElsewhereReported
  <2>4. QED
    BY <1>13, <2>2, <2>3 DEF Poll, Reconcile, Recover, Skip, FileState, StatusFile, Terminal
<1>14. QED
  BY <1>1, <1>2, <1>3, <1>4, <1>5, <1>6, <1>7, <1>8, <1>9, <1>10, <1>11, <1>12, <1>13
  DEF Next, ClientRequest, Loop, Launch

(* The notification command runs once for a job that started and ended,    *)
(* whichever of poll, reconciliation, time limit, scancel and recovery     *)
(* saw the end; only a crash between mark_finished and notify_job loses    *)
(* it, and nothing repeats it.                                             *)
THEOREM ReportedOnce == Spec => []NotifiedOnce
<1>1. Init => NotifyInv
  BY DEF Init, NotifyInv, EmptyTable, NoRow, Terminal
<1>2. IInv /\ NotifyInv => NotifiedOnce
  BY DEF NotifyInv, NotifiedOnce, Rows, Reporting
<1>3. QED
  BY <1>1, <1>2, NotifyInductive, RunsInvariant, Invariant, PTL DEF Spec
=============================================================================
