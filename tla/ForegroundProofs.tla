-------------------------- MODULE ForegroundProofs --------------------------
(***************************************************************************)
(* Theorems about Foreground, for any number of clients, rows, process     *)
(* groups and crashes of the daemon: the types, what becomes of a row that *)
(* ended, that a client's report is the last word on its rows, and that    *)
(* COMPLETED is honest.                                                    *)
(***************************************************************************)
EXTENDS Foreground, StoreProofs

(***************************************************************************)
(* The inductive invariant.  A client and the daemon write the same rows,  *)
(* so what protects a report is who may still write: the daemon only rows  *)
(* it tracks, is ending or finds RUNNING, and a client only its own.       *)
(***************************************************************************)
Held(c) == client[c].pc \in {"adoptJob", "adoptStep", "running", "finishJob",
                             "finishStep", "done"}

(* Where a client is tells what it holds. *)
ClientInv(c) ==
    /\ IF At(c, "idle")
       THEN client[c].job = NoJob /\ client[c].step = NoJob
       ELSE client[c].job # NoJob /\ jobs[client[c].job].state # "NONE"
    /\ client[c].step # NoJob =>
          jobs[client[c].step].state # "NONE" /\ client[c].step # client[c].job
    /\ client[c].pc \in {"idle", "waiting", "startStep", "launch"} => client[c].group = NoGroup
    /\ client[c].pc \in {"waiting", "startStep"} => client[c].step = NoJob
    /\ client[c].pc \in {"waiting", "adoptJob", "finishJob"} => client[c].mode # "step"
    /\ client[c].pc \in {"startStep", "adoptStep", "finishStep"} => client[c].mode # "salloc"
    /\ client[c].mode # "salloc" /\ (At(c, "launch") \/ Held(c)) => client[c].step # NoJob
    /\ Held(c) => client[c].group # NoGroup /\ proc[client[c].group].state # "none"
    /\ client[c].pc \in {"finishJob", "finishStep", "done"} =>
          proc[client[c].group].state = "gone"

(* The rows only this client adopts and finishes. *)
Owned(c) ==
    {j \in JobId : \/ client[c].mode # "step" /\ j = client[c].job
                   \/ j = client[c].step}
Apart == \A c, d \in Clients : c # d => Owned(c) \cap Owned(d) = {}

ThreadInv ==
    /\ daemon = "grace" => /\ ending # NoJob /\ tracked[ending] = NoGroup
                           /\ jobs[ending].state = "COMPLETING" /\ final # "none"
    /\ daemon # "grace" => ending = NoJob

TrackInv == \A j \in Tracked : jobs[j].state # "NONE" /\ jobs[j].group = tracked[j]
ProcInv == \A g \in Groups : proc[g].state \in {"none", "running"} => proc[g].code = "none"

ReportInv ==
    \A c \in Clients : \A j \in Reported(c) :
        tracked[j] = NoGroup /\ ending # j /\ jobs[j].state = Report(c)

IInv ==
    /\ TypeOK /\ Apart /\ ThreadInv /\ TrackInv /\ ProcInv /\ ReportInv
    /\ CompletedReturnedZero
    /\ \A c \in Clients : ClientInv(c)

LEMMA InitHolds == Init => IInv
<1> SUFFICES ASSUME Init PROVE IInv
  OBVIOUS
<1>1. TypeOK
  BY StoreAssumption, ForegroundAssumption
  DEF Init, TypeOK, Table, EmptyTable, Client, ClientPhase, Mode, NoProc, Proc
<1>2. Apart /\ ReportInv /\ \A c \in Clients : ClientInv(c)
  <2>1. \A c \in Clients : /\ At(c, "idle") /\ client[c].job = NoJob /\ client[c].step = NoJob
                           /\ client[c].group = NoGroup
    BY DEF Init, At
  <2>2. Apart
    BY <2>1, ForegroundAssumption DEF Apart, Owned
  <2>3. \A c \in Clients : Reported(c) = {} /\ ClientInv(c)
    BY <2>1 DEF Reported, ClientInv, Held, At
  <2>4. QED
    BY <2>2, <2>3 DEF ReportInv
<1>3. ThreadInv /\ TrackInv /\ ProcInv
  BY DEF Init, ThreadInv, TrackInv, Tracked, ProcInv, NoProc
<1>4. CompletedReturnedZero
  BY DEF Init, CompletedReturnedZero, InState, EmptyTable, NoRow
<1>5. QED
  BY <1>1, <1>2, <1>3, <1>4 DEF IInv

----------------------------------------------------------------------------
(* What a step does to the process groups *)

ProcStays ==
    \A g \in Groups :
        /\ proc[g].state # "none" => proc'[g].state # "none"
        /\ proc[g].state = "gone" => proc'[g].state = "gone" /\ proc'[g].code = proc[g].code
        /\ proc[g].code = "ok" => proc'[g].code = "ok"

LEMMA ProcSteps ==
    ASSUME IInv, Next
    PROVE  proc' \in [Groups -> Proc] /\ ProcInv' /\ ProcStays
<1> USE DEF IInv, TypeOK
<1>1. CASE UNCHANGED proc
  BY <1>1 DEF ProcInv, ProcStays
<1>2. ASSUME NEW g \in Groups, NEW p \in Proc, proc' = [proc EXCEPT ![g] = p],
             proc[g].state # "none" => p.state # "none",
             proc[g].state = "gone" => p.state = "gone" /\ p.code = proc[g].code,
             proc[g].code = "ok" => p.code = "ok",
             p.state \in {"none", "running"} => p.code = "none"
      PROVE  proc' \in [Groups -> Proc] /\ ProcInv' /\ ProcStays
  BY <1>2 DEF ProcInv, ProcStays
<1>3. \A g \in Groups : proc[g] \in Proc
  OBVIOUS
<1>4. ASSUME NEW c \in Clients, NEW g \in Groups, Launch(c, g)
      PROVE  proc' \in [Groups -> Proc] /\ ProcInv' /\ ProcStays
  <2> DEFINE p == [proc[g] EXCEPT !.state = "running"]
  <2>1. p \in Proc /\ p.state = "running" /\ p.code = proc[g].code
    BY <1>3 DEF Proc
  <2>2. proc[g].state = "none" /\ proc' = [proc EXCEPT ![g] = p] /\ proc[g].code = "none"
    BY <1>4 DEF Launch, IsNextGroup, ProcInv
  <2> HIDE DEF p
  <2>3. QED
    BY <1>2, <2>1, <2>2
<1>5. ASSUME NEW c \in Clients, ChildEnds(c)
      PROVE  proc' \in [Groups -> Proc] /\ ProcInv' /\ ProcStays
  <2>1. PICK g \in Groups : g = client[c].group
    BY <1>5 DEF ChildEnds, ClientInv, Held, At, Client
  <2> DEFINE p == [proc[g] EXCEPT !.state = "gone"]
  <2>2. p \in Proc /\ p.state = "gone" /\ p.code = proc[g].code
    BY <1>3 DEF Proc
  <2>3. proc' = [proc EXCEPT ![g] = p]
    BY <1>5, <2>1 DEF ChildEnds
  <2> HIDE DEF p
  <2>4. QED
    BY <1>2, <2>2, <2>3
<1>6. ASSUME NEW c \in Clients, ClientDies(c)
      PROVE  proc' \in [Groups -> Proc] /\ ProcInv' /\ ProcStays
  <2>1. \A g \in Groups :
           /\ [proc[g] EXCEPT !.state = "gone"] \in Proc
           /\ [proc[g] EXCEPT !.state = "gone"].state = "gone"
           /\ [proc[g] EXCEPT !.state = "gone"].code = proc[g].code
    BY <1>3 DEF Proc
  <2>2. QED
    BY <1>3, <1>6, <2>1 DEF ClientDies, ProcInv, ProcStays
<1>7. ASSUME NEW g \in Groups, NEW code \in Code, Exit(g, code)
      PROVE  proc' \in [Groups -> Proc] /\ ProcInv' /\ ProcStays
  <2>1. PICK s \in {"zombie", "gone"} :
           proc' = [proc EXCEPT ![g] = [proc[g] EXCEPT !.state = s, !.code = code]]
    BY <1>7 DEF Exit
  <2> DEFINE p == [proc[g] EXCEPT !.state = s, !.code = code]
  <2>2. p \in Proc /\ p.state = s /\ p.code = code
    BY <1>3 DEF Proc, Code
  <2>3. proc[g].state = "running" /\ proc[g].code = "none"
    BY <1>7 DEF Exit, ProcInv
  <2>4. proc' = [proc EXCEPT ![g] = p]
    BY <2>1
  <2> HIDE DEF p
  <2>5. QED
    BY <1>2, <2>2, <2>3, <2>4
<1>8. CASE GraceEnds
  <2> DEFINE g == jobs[ending].group
  <2>1. UNCHANGED proc \/ proc' = [proc EXCEPT ![g] = [proc[g] EXCEPT !.killed = TRUE]]
    BY <1>8 DEF GraceEnds
  <2> HIDE DEF g
  <2>2. CASE g \notin Groups
    BY <1>1, <2>1, <2>2
  <2>3. CASE g \in Groups /\ proc' = [proc EXCEPT ![g] = [proc[g] EXCEPT !.killed = TRUE]]
    <3> DEFINE p == [proc[g] EXCEPT !.killed = TRUE]
    <3>1. p \in Proc /\ p.state = proc[g].state /\ p.code = proc[g].code
      BY <1>3, <2>3 DEF Proc
    <3>2. proc' = [proc EXCEPT ![g] = p]
      BY <2>3
    <3> HIDE DEF p
    <3>3. \A h \in Groups : h # g => proc'[h] = proc[h]
      BY <3>2
    <3>4. proc'[g] = p
      BY <2>3, <3>2
    <3>5. QED
      BY <2>3, <3>1, <3>2, <3>3, <3>4 DEF ProcInv, ProcStays
  <2>4. QED
    BY <1>1, <2>1, <2>2, <2>3
<1>9. QED
  BY <1>1, <1>4, <1>5, <1>6, <1>7, <1>8
  DEF Next, ClientStep, Host, Control, Loop, CommandExits, KilledDies, RequestAllocation,
      EnterAllocation, StartStep, WaitEnds, Adopt, Finish, Grant, CancelWaiting, CancelTracked,
      TimeOut, Terminate, TendEnds, Restart, RecoverEnds, Recover, RequestsEnd, Crash,
      Reconcile

----------------------------------------------------------------------------
(* What a step does to the table *)

LEMMA RowOf ==
    ASSUME TypeOK, NEW j \in JobId, jobs[j].state # "NONE"
    PROVE  jobs[j] \in Row /\ ~jobs[j].req.requeue
BY RowExists, RowColumns, ForegroundAssumption DEF TypeOK

(* The row a client adopts or finishes is its own. *)
LEMMA SubjectOf ==
    ASSUME IInv, NEW c \in Clients,
           client[c].pc \in {"adoptJob", "adoptStep", "finishJob", "finishStep"}
    PROVE  /\ Subject(c) \in JobId /\ Subject(c) \in Owned(c)
           /\ jobs[Subject(c)].state # "NONE"
           /\ client[c].group \in Groups
<1>1. client[c] \in Client /\ ClientInv(c) /\ Held(c)
  BY DEF IInv, TypeOK, Held
<1>2. CASE client[c].pc \in {"adoptJob", "finishJob"}
  BY <1>1, <1>2 DEF ClientInv, At, Subject, Owned, Client
<1>3. CASE client[c].pc \in {"adoptStep", "finishStep"}
  BY <1>1, <1>3 DEF ClientInv, At, Held, Subject, Owned, Client
<1>4. QED
  BY <1>2, <1>3

(* The end of a row, as the daemon or a client writes it. *)
LEMMA EndFact ==
    ASSUME IInv, NEW j \in JobId, jobs[j].state # "NONE", NEW s \in Terminal,
           jobs' = MarkFinished(jobs, j, s)
    PROVE  /\ jobs' \in Table
           /\ jobs'[j].state = s /\ jobs'[j].group = jobs[j].group
           /\ \A i \in JobId \ {j} : jobs'[i] = jobs[i]
BY RowOf, FinalFact DEF IInv, TypeOK

(* How the row j may change. *)
Change(j) ==
    \/ jobs[j].state = "NONE" /\ jobs'[j].state \in {"PENDING", "RUNNING"}
    \/ jobs[j].state = "PENDING" /\ jobs'[j].state \in {"RUNNING", "CANCELLED"}
       /\ jobs'[j].group = jobs[j].group
    \/ jobs[j].state # "NONE" /\ jobs'[j].state = jobs[j].state
       /\ \E c \in Clients : Adopt(c) /\ j = Subject(c)
    \/ j \in Tracked /\ jobs'[j].state = "COMPLETING" /\ jobs'[j].group = jobs[j].group
    \/ jobs[j].state # "NONE" /\ jobs'[j].state \in Terminal \ {"COMPLETED"}
       /\ jobs'[j].group = jobs[j].group
       /\ (j = ending \/ j \in Tracked \/ jobs[j].state = "RUNNING")
    \/ jobs[j].state # "NONE" /\ jobs'[j].group = jobs[j].group
       /\ \E c \in Clients : Finish(c) /\ j = Subject(c) /\ jobs'[j].state = Report(c)

OneRowChanges ==
    \E j \in JobId : (\A i \in JobId \ {j} : jobs'[i] = jobs[i]) /\ Change(j)

LEMMA JobSteps ==
    ASSUME IInv, Next
    PROVE  jobs' \in Table /\ (UNCHANGED jobs \/ OneRowChanges)
<1>0. jobs \in Table /\ client \in [Clients -> Client]
  BY DEF IInv, TypeOK
<1>1. CASE UNCHANGED jobs
  BY <1>0, <1>1
<1>2. ASSUME NEW c \in Clients, NEW j \in JobId, NEW mode \in Mode, NEW r \in Requests,
             RequestAllocation(c, mode, j, r)
      PROVE  jobs' \in Table /\ OneRowChanges
  <2> DEFINE created == CreateJob(jobs, j, r)
  <2>1. jobs[j].state = "NONE" /\ r.tasks = 0
        /\ (jobs' = created \/ jobs' = MarkAllocationRunning(created, j))
    BY <1>2, ForegroundAssumption DEF RequestAllocation, IsNextId, Rows
  <2>2. /\ created \in Table /\ created[j] = PendingRow(r, 0)
        /\ \A i \in JobId \ {j} : created[i] = jobs[i]
    BY <1>0, <2>1, CreateJobFact
  <2>3. created[j].state = "PENDING" /\ created[j] \in Row
    <3>1. PendingRow(r, 0).state = "PENDING"
      BY DEF PendingRow
    <3>2. QED
      BY <2>2, <3>1, RowExists
  <2> HIDE DEF created
  <2>4. /\ MarkAllocationRunning(created, j) \in Table
        /\ MarkAllocationRunning(created, j)[j].state = "RUNNING"
        /\ \A i \in JobId \ {j} : MarkAllocationRunning(created, j)[i] = created[i]
    BY <2>2, <2>3, MarkAllocationRunningFact
  <2>5. jobs' \in Table /\ jobs'[j].state \in {"PENDING", "RUNNING"}
        /\ \A i \in JobId \ {j} : jobs'[i] = jobs[i]
    BY <2>1, <2>2, <2>3, <2>4
  <2>6. QED
    BY <2>1, <2>5 DEF OneRowChanges, Change
<1>3. ASSUME NEW c \in Clients, NEW j \in JobId, NEW r \in Requests,
             StartStep(c, j, r.name)
      PROVE  jobs' \in Table /\ OneRowChanges
  <2>1. PICK p \in JobId : p = client[c].job /\ jobs[p].state # "NONE"
    BY <1>0, <1>3 DEF StartStep, IInv, ClientInv, At, Client
  <2>2. jobs[j].state = "NONE" /\ jobs' = CreateStep(jobs, j, p, r.name)
    BY <1>3, <2>1 DEF StartStep, IsNextId, Rows
  <2>3. jobs[p] \in Row
    BY <2>1, RowOf DEF IInv
  <2>4. jobs' \in Table /\ jobs'[j].state = "RUNNING"
        /\ \A i \in JobId \ {j} : jobs'[i] = jobs[i]
    <3>1. r.name \in STRING
      BY RequestAssumption DEF Request
    <3> DEFINE name == r.name
    <3>2. name \in STRING /\ jobs' = CreateStep(jobs, j, p, name)
      BY <2>2, <3>1
    <3> HIDE DEF name
    <3>3. QED
      BY <1>0, <2>3, <3>2, CreateStepFact
  <2>5. QED
    BY <2>2, <2>4 DEF OneRowChanges, Change
<1>4. ASSUME NEW c \in Clients, Adopt(c)
      PROVE  jobs' \in Table /\ OneRowChanges
  <2>1. PICK j \in JobId : j = Subject(c) /\ jobs[j].state # "NONE"
    BY <1>4, SubjectOf DEF Adopt
  <2>2. jobs' = AdoptAllocation(jobs, j, client[c].group)
        /\ client[c].group \in Groups \cup {NoGroup}
    BY <1>0, <1>4, <2>1 DEF Adopt, Client
  <2>3. jobs[j] \in Row
    BY <2>1, RowOf DEF IInv
  <2>4. jobs' \in Table /\ jobs'[j].state = jobs[j].state
        /\ \A i \in JobId \ {j} : jobs'[i] = jobs[i]
    BY <1>0, <2>2, <2>3, AdoptAllocationFact
  <2>5. QED
    BY <1>4, <2>1, <2>4 DEF OneRowChanges, Change
<1>5. ASSUME NEW c \in Clients, Finish(c)
      PROVE  jobs' \in Table /\ OneRowChanges
  <2>1. PICK j \in JobId : j = Subject(c) /\ jobs[j].state # "NONE"
    BY <1>5, SubjectOf DEF Finish
  <2>2. jobs' = MarkFinished(jobs, j, Report(c)) /\ Report(c) \in Terminal
    BY <1>5, <2>1 DEF Finish, Report, Terminal
  <2>3. jobs' \in Table /\ jobs'[j].state = Report(c) /\ jobs'[j].group = jobs[j].group
        /\ \A i \in JobId \ {j} : jobs'[i] = jobs[i]
    BY <2>1, <2>2, EndFact
  <2>4. QED
    BY <1>5, <2>1, <2>3 DEF OneRowChanges, Change
<1>6. ASSUME NEW j \in JobId, Grant(j)
      PROVE  jobs' \in Table /\ OneRowChanges
  <2>1. jobs[j].state = "PENDING" /\ jobs' = MarkAllocationRunning(jobs, j)
    BY <1>6 DEF Grant, Pending, InState
  <2>2. jobs[j] \in Row
    BY <2>1, RowOf DEF IInv
  <2>3. jobs' \in Table /\ jobs'[j].state = "RUNNING" /\ jobs'[j].group = jobs[j].group
        /\ \A i \in JobId \ {j} : jobs'[i] = jobs[i]
    BY <1>0, <2>1, <2>2, MarkAllocationRunningFact
  <2>4. QED
    BY <2>1, <2>3 DEF OneRowChanges, Change
<1>7. ASSUME NEW j \in JobId, NEW s \in {"CANCELLED", "COMPLETING"},
             jobs[j].state # "NONE", jobs' = MarkState(jobs, j, s)
      PROVE  /\ jobs' \in Table /\ jobs'[j].state = s /\ jobs'[j].group = jobs[j].group
             /\ \A i \in JobId \ {j} : jobs'[i] = jobs[i]
  <2>1. jobs[j] \in Row /\ s \in State
    BY <1>7, RowOf DEF IInv, State, Terminal
  <2>2. QED
    BY <1>0, <1>7, <2>1, MarkStateFact
<1>8. ASSUME NEW j \in JobId, CancelWaiting(j)
      PROVE  jobs' \in Table /\ OneRowChanges
  <2>1. jobs[j].state = "PENDING" /\ jobs' = MarkState(jobs, j, "CANCELLED")
    BY <1>8 DEF CancelWaiting, InState, CancelPending
  <2>2. QED
    BY <1>7, <2>1 DEF OneRowChanges, Change
<1>9. ASSUME NEW j \in JobId, CancelTracked(j) \/ TimeOut(j)
      PROVE  jobs' \in Table /\ OneRowChanges
  <2>1. j \in Tracked /\ jobs' = MarkState(jobs, j, "COMPLETING") /\ jobs[j].state # "NONE"
    BY <1>9 DEF CancelTracked, TimeOut, Terminate, IInv, TrackInv
  <2>2. QED
    BY <1>7, <2>1 DEF OneRowChanges, Change
<1>10. ASSUME NEW j \in JobId, NEW s \in Terminal \ {"COMPLETED"},
              jobs[j].state # "NONE", jobs' = MarkFinished(jobs, j, s),
              j = ending \/ j \in Tracked \/ jobs[j].state = "RUNNING"
       PROVE  jobs' \in Table /\ OneRowChanges
  <2>1. s \in Terminal
    BY DEF Terminal
  <2>2. jobs' \in Table /\ jobs'[j].state = s /\ jobs'[j].group = jobs[j].group
        /\ \A i \in JobId \ {j} : jobs'[i] = jobs[i]
    BY <1>10, <2>1, EndFact
  <2>3. QED
    BY <1>10, <2>2 DEF OneRowChanges, Change
<1>11. CASE GraceEnds
  <2>1. PICK j \in JobId : j = ending /\ jobs[j].state # "NONE"
    BY <1>11 DEF GraceEnds, IInv, TypeOK, ThreadInv
  <2>2. PICK s \in Terminal \ {"COMPLETED"} : jobs' = MarkFinished(jobs, j, s)
    BY <1>11, <2>1 DEF GraceEnds, IInv, TypeOK, ThreadInv, Terminal
  <2>3. QED
    BY <1>10, <2>1, <2>2
<1>12. ASSUME NEW j \in JobId, Reconcile(j) \/ Recover(j), ~UNCHANGED jobs
       PROVE  jobs' \in Table /\ OneRowChanges
  <2>1. /\ \E s \in LostStates : jobs' = MarkFinished(jobs, j, s)
        /\ jobs[j].state # "NONE" /\ (j \in Tracked \/ jobs[j].state = "RUNNING")
    BY <1>12 DEF Reconcile, Recover, LostStates, Unrecovered, Running, InState, IInv, TrackInv
  <2>2. LostStates \subseteq Terminal \ {"COMPLETED"}
    BY DEF LostStates, Terminal
  <2>3. QED
    BY <1>10, <2>1, <2>2
<1>13. QED
  BY <1>1, <1>2, <1>3, <1>4, <1>5, <1>6, <1>8, <1>9, <1>11, <1>12
  DEF Next, ClientStep, Host, Control, Loop, CommandExits, KilledDies, Exit,
      EnterAllocation, WaitEnds, Launch, ChildEnds, ClientDies, TendEnds, Restart,
      RecoverEnds, RequestsEnd, Crash

(* Rows are never deleted. *)
LEMMA RowsStay ==
    ASSUME IInv, Next
    PROVE  \A j \in JobId : jobs[j].state # "NONE" => jobs'[j].state # "NONE"
<1>1. CASE UNCHANGED jobs
  BY <1>1
<1>2. ASSUME NEW j \in JobId, Change(j)
      PROVE  jobs'[j].state # "NONE"
  BY <1>2 DEF Change, Report, Terminal
<1>3. QED
  BY <1>1, <1>2, JobSteps DEF OneRowChanges

----------------------------------------------------------------------------
(* What a step does to the clients *)

(* The steps of a client, each with the client it leaves behind. *)
Moved(c, x) == client' = [client EXCEPT ![c] = x]

LEMMA ClientMoves ==
    ASSUME IInv, NEW c \in Clients, ClientStep(c)
    PROVE  \E x \in Client : Moved(c, x)
<1>1. client \in [Clients -> Client] /\ client[c] \in Client /\ NoGroup \notin Groups
  BY StoreAssumption DEF IInv, TypeOK
<1>2. ASSUME NEW pc \in ClientPhase, Go(c, pc)
      PROVE  \E x \in Client : Moved(c, x)
  <2> DEFINE x == [client[c] EXCEPT !.pc = pc]
  <2>1. x \in Client /\ client' = [client EXCEPT ![c] = x]
    BY <1>1, <1>2 DEF Go, Client
  <2> HIDE DEF x
  <2>2. QED
    BY <2>1 DEF Moved
<1>3. ASSUME NEW j \in JobId, NEW mode \in Mode,
             client' = [client EXCEPT ![c] = [@ EXCEPT !.pc = "waiting", !.mode = mode, !.job = j]]
      PROVE  \E x \in Client : Moved(c, x)
  <2> DEFINE x == [client[c] EXCEPT !.pc = "waiting", !.mode = mode, !.job = j]
  <2>1. x \in Client
    BY <1>1 DEF Client, ClientPhase
  <2>2. client' = [client EXCEPT ![c] = x]
    BY <1>3
  <2> HIDE DEF x
  <2>3. QED
    BY <2>1, <2>2 DEF Moved
<1>4. ASSUME NEW p \in JobId,
             client' = [client EXCEPT ![c] = [@ EXCEPT !.pc = "startStep", !.mode = "step", !.job = p]]
      PROVE  \E x \in Client : Moved(c, x)
  <2> DEFINE x == [client[c] EXCEPT !.pc = "startStep", !.mode = "step", !.job = p]
  <2>1. x \in Client
    BY <1>1 DEF Client, ClientPhase, Mode
  <2>2. client' = [client EXCEPT ![c] = x]
    BY <1>4
  <2> HIDE DEF x
  <2>3. QED
    BY <2>1, <2>2 DEF Moved
<1>5. ASSUME NEW j \in JobId,
             client' = [client EXCEPT ![c] = [@ EXCEPT !.pc = "launch", !.step = j]]
      PROVE  \E x \in Client : Moved(c, x)
  <2> DEFINE x == [client[c] EXCEPT !.pc = "launch", !.step = j]
  <2>1. x \in Client
    BY <1>1 DEF Client, ClientPhase
  <2>2. client' = [client EXCEPT ![c] = x]
    BY <1>5
  <2> HIDE DEF x
  <2>3. QED
    BY <2>1, <2>2 DEF Moved
<1>6. ASSUME NEW g \in Groups, Launch(c, g)
      PROVE  \E x \in Client : Moved(c, x)
  <2>1. PICK pc \in {"adoptStep", "adoptJob"} :
           client' = [client EXCEPT ![c] = [@ EXCEPT !.pc = pc, !.group = g]]
    BY <1>6 DEF Launch
  <2> DEFINE x == [client[c] EXCEPT !.pc = pc, !.group = g]
  <2>2. x \in Client
    BY <1>1 DEF Client, ClientPhase
  <2>3. client' = [client EXCEPT ![c] = x]
    BY <2>1
  <2> HIDE DEF x
  <2>4. QED
    BY <2>2, <2>3 DEF Moved
<1>7. CASE WaitEnds(c) \/ Adopt(c) \/ ChildEnds(c) \/ Finish(c) \/ ClientDies(c)
  <2>1. \E pc \in ClientPhase : Go(c, pc)
    BY <1>7 DEF WaitEnds, Adopt, ChildEnds, Finish, ClientDies, ClientPhase
  <2>2. QED
    BY <1>2, <2>1
<1>8. QED
  BY <1>3, <1>4, <1>5, <1>6, <1>7 DEF ClientStep, RequestAllocation, EnterAllocation, StartStep

LEMMA OneClient ==
    ASSUME IInv, Next
    PROVE  /\ client' \in [Clients -> Client]
           /\ \/ UNCHANGED client
              \/ \E c \in Clients : /\ ClientStep(c)
                                    /\ \A d \in Clients \ {c} : client'[d] = client[d]
<1>1. client \in [Clients -> Client]
  BY DEF IInv, TypeOK
<1>2. CASE UNCHANGED client
  BY <1>1, <1>2
<1>3. ASSUME NEW c \in Clients, ClientStep(c)
      PROVE  client' \in [Clients -> Client] /\ \A d \in Clients \ {c} : client'[d] = client[d]
  <2>1. PICK x \in Client : client' = [client EXCEPT ![c] = x]
    BY <1>3, ClientMoves DEF Moved
  <2>2. QED
    BY <1>1, <2>1
<1>4. QED
  BY <1>2, <1>3
  DEF Next, Host, Control, Loop, CommandExits, KilledDies, Exit, Grant, CancelWaiting,
      CancelTracked, TimeOut, Terminate, GraceEnds, TendEnds, Restart, RecoverEnds, Recover,
      RequestsEnd, Crash, Reconcile

----------------------------------------------------------------------------
(* The types *)

LEMMA TypeStep ==
    ASSUME IInv, Next
    PROVE  TypeOK'
<1>1. TypeOK /\ ThreadInv
  BY DEF IInv
<1>2. jobs' \in Table /\ proc' \in [Groups -> Proc] /\ client' \in [Clients -> Client]
  BY JobSteps, ProcSteps, OneClient
<1>3. tracked' \in [JobId -> Groups \cup {NoGroup}]
  <2>1. CASE UNCHANGED tracked
    BY <1>1, <2>1 DEF TypeOK
  <2>2. ASSUME NEW j, NEW g \in Groups \cup {NoGroup}, tracked' = [tracked EXCEPT ![j] = g]
        PROVE  tracked' \in [JobId -> Groups \cup {NoGroup}]
    BY <1>1, <2>2 DEF TypeOK
  <2>3. ASSUME NEW c \in Clients, Adopt(c) \/ Finish(c)
        PROVE  tracked' \in [JobId -> Groups \cup {NoGroup}]
    <3>1. client[c].group \in Groups \cup {NoGroup}
      BY <1>1 DEF TypeOK, Client
    <3>2. QED
      BY <2>2, <2>3, <3>1 DEF Adopt, Finish
  <2>4. ASSUME NEW j \in JobId, Recover(j)
        PROVE  tracked' \in [JobId -> Groups \cup {NoGroup}]
    <3>1. jobs[j].group \in Groups \cup {NoGroup}
      <4>1. jobs[j].state # "NONE"
        BY <2>4 DEF Recover, Unrecovered, Running, InState
      <4>2. QED
        BY <1>1, <4>1, RowOf DEF Row
    <3>2. QED
      BY <2>1, <2>2, <2>4, <3>1 DEF Recover
  <2>5. ASSUME NEW j \in JobId, CancelTracked(j) \/ TimeOut(j) \/ Reconcile(j)
        PROVE  tracked' \in [JobId -> Groups \cup {NoGroup}]
    BY <2>2, <2>5 DEF CancelTracked, TimeOut, Terminate, Reconcile
  <2>6. CASE Crash
    BY <2>6 DEF Crash
  <2>7. QED
    BY <2>1, <2>3, <2>4, <2>5, <2>6
    DEF Next, ClientStep, Host, Control, Loop, CommandExits, KilledDies, Exit,
        RequestAllocation, EnterAllocation, StartStep, Launch, WaitEnds, ChildEnds, ClientDies,
        Grant, CancelWaiting, GraceEnds, TendEnds, Restart, RecoverEnds, RequestsEnd
<1> DEFINE ThreadTyped == /\ daemon' \in {"requests", "tend", "grace", "recover", "down"}
                          /\ ending' \in {NoJob} \cup JobId
                          /\ final' \in {"none", "CANCELLED", "TIMEOUT"}
                          /\ crashes' \in 0 .. MaxCrashes
<1>4. ThreadTyped
  <2>1. CASE UNCHANGED thread
    BY <1>1, <2>1 DEF TypeOK, thread
  <2>2. ASSUME NEW j \in JobId, CancelTracked(j) \/ TimeOut(j)
        PROVE  ThreadTyped
    BY <1>1, <2>2 DEF CancelTracked, TimeOut, Terminate, TypeOK
  <2>3. CASE Crash
    BY <1>1, <2>3, ForegroundAssumption DEF Crash, TypeOK
  <2>4. CASE GraceEnds \/ TendEnds \/ Restart \/ RecoverEnds \/ RequestsEnd
    BY <1>1, <2>4 DEF GraceEnds, TendEnds, Restart, RecoverEnds, RequestsEnd, TypeOK
  <2>5. QED
    BY <2>1, <2>2, <2>3, <2>4
    DEF Next, ClientStep, Host, Control, Loop, CommandExits, KilledDies, Exit,
        RequestAllocation, EnterAllocation, StartStep, Launch, WaitEnds, Adopt, ChildEnds,
        Finish, ClientDies, Grant, CancelWaiting, Recover, Reconcile
<1>5. QED
  BY <1>2, <1>3, <1>4 DEF TypeOK

----------------------------------------------------------------------------
(* The clients keep what they hold *)

(* A client that does not move keeps its part of the invariant. *)
LEMMA RestingClient ==
    ASSUME IInv, Next, NEW c \in Clients, client'[c] = client[c]
    PROVE  ClientInv(c)'
<1>1. ClientInv(c) /\ client[c] \in Client
  BY DEF IInv, TypeOK
<1>2. \A j \in JobId : jobs[j].state # "NONE" => jobs'[j].state # "NONE"
  BY RowsStay
<1>3. \A g \in Groups : /\ proc[g].state # "none" => proc'[g].state # "none"
                        /\ proc[g].state = "gone" => proc'[g].state = "gone"
  BY ProcSteps DEF ProcStays
<1>4. /\ client[c].job \in {NoJob} \cup JobId /\ client[c].step \in {NoJob} \cup JobId
      /\ client[c].group \in Groups \cup {NoGroup}
  BY <1>1 DEF Client
<1>5. Held(c)' <=> Held(c)
  BY DEF Held
<1>6. At(c, "idle")' <=> At(c, "idle")
  BY DEF At
<1>7. At(c, "launch")' <=> At(c, "launch")
  BY DEF At
<1>8. client[c].pc \in {"finishJob", "finishStep", "done"} => Held(c)
  BY DEF Held
<1>9. QED
  BY <1>1, <1>2, <1>3, <1>4, <1>5, <1>6, <1>7, <1>8 DEF ClientInv

(* A client that moves ends up where what it holds fits. *)
LEMMA MovingClient ==
    ASSUME IInv, Next, NEW c \in Clients, ClientStep(c)
    PROVE  ClientInv(c)'
<1>1. ClientInv(c) /\ client[c] \in Client /\ client \in [Clients -> Client]
  BY DEF IInv, TypeOK
<1>2. \A j \in JobId : jobs[j].state # "NONE" => jobs'[j].state # "NONE"
  BY RowsStay
<1>3. \A g \in Groups : /\ proc[g].state # "none" => proc'[g].state # "none"
                        /\ proc[g].state = "gone" => proc'[g].state = "gone"
  BY ProcSteps DEF ProcStays
<1>4. /\ client[c].job \in {NoJob} \cup JobId /\ client[c].step \in {NoJob} \cup JobId
      /\ client[c].group \in Groups \cup {NoGroup} /\ client[c].mode \in Mode
  BY <1>1 DEF Client
<1>5. NoJob \notin JobId /\ NoGroup \notin Groups
  BY StoreAssumption, ForegroundAssumption
<1> DEFINE x == client'[c]
<1>6. ASSUME NEW j \in JobId, NEW mode \in Mode, NEW r \in Requests,
             RequestAllocation(c, mode, j, r)
      PROVE  ClientInv(c)'
  <2>1. /\ x.pc = "waiting" /\ x.mode \in {"salloc", "srun"} /\ x.job = j
        /\ x.step = client[c].step /\ x.group = client[c].group /\ At(c, "idle")
    BY <1>1, <1>6 DEF RequestAllocation, Client
  <2>2. jobs[j].state = "NONE" /\ jobs'[j].state # "NONE"
    <3>1. jobs[j].state = "NONE"
      BY <1>6 DEF RequestAllocation, IsNextId, Rows
    <3>2. CreateJob(jobs, j, r)[j].state = "PENDING" /\ CreateJob(jobs, j, r) \in Table
          /\ CreateJob(jobs, j, r)[j] \in Row
      <4>1. CreateJob(jobs, j, r) \in Table /\ CreateJob(jobs, j, r)[j] = PendingRow(r, 0)
        BY <3>1, <1>6, ForegroundAssumption, CreateJobFact DEF IInv, TypeOK
      <4>2. PendingRow(r, 0).state = "PENDING"
        BY DEF PendingRow
      <4>3. QED
        BY <4>1, <4>2, RowExists
    <3>3. MarkAllocationRunning(CreateJob(jobs, j, r), j)[j].state = "RUNNING"
      BY <3>2, MarkAllocationRunningFact
    <3>4. QED
      BY <1>6, <3>1, <3>2, <3>3 DEF RequestAllocation
  <2>3. client[c].step = NoJob /\ client[c].group = NoGroup
    BY <1>1, <2>1 DEF ClientInv, At
  <2> HIDE DEF x
  <2>4. QED
    BY <2>1, <2>2, <2>3, <1>5 DEF ClientInv, At, Held, x
<1>7. ASSUME NEW p \in JobId, EnterAllocation(c, p)
      PROVE  ClientInv(c)'
  <2>1. /\ x.pc = "startStep" /\ x.mode = "step" /\ x.job = p
        /\ x.step = client[c].step /\ x.group = client[c].group /\ At(c, "idle")
    BY <1>1, <1>7 DEF EnterAllocation, Client
  <2>2. jobs'[p].state # "NONE"
    BY <1>2, <1>7 DEF EnterAllocation, RunningTopLevel, Running, InState
  <2>3. client[c].step = NoJob /\ client[c].group = NoGroup
    BY <1>1, <2>1 DEF ClientInv, At
  <2> HIDE DEF x
  <2>4. QED
    BY <2>1, <2>2, <2>3, <1>5 DEF ClientInv, At, Held, x
<1>8. ASSUME NEW j \in JobId, NEW r \in Requests, StartStep(c, j, r.name)
      PROVE  ClientInv(c)'
  <2>1. /\ x.pc = "launch" /\ x.mode = client[c].mode /\ x.job = client[c].job
        /\ x.step = j /\ x.group = client[c].group /\ client[c].pc = "startStep"
    BY <1>1, <1>8 DEF StartStep, Client, At
  <2>2. client[c].job \in JobId /\ jobs[client[c].job].state # "NONE" /\ client[c].group = NoGroup
        /\ jobs'[client[c].job].state # "NONE"
    BY <1>1, <1>2, <1>4, <2>1 DEF ClientInv, At
  <2>3. jobs[j].state = "NONE" /\ jobs'[j].state # "NONE" /\ j # client[c].job
    <3>1. jobs[j].state = "NONE"
      BY <1>8 DEF StartStep, IsNextId, Rows
    <3>2. PICK p \in JobId : p = client[c].job
      BY <2>2
    <3> DEFINE name == r.name
    <3>3. name \in STRING /\ jobs' = CreateStep(jobs, j, p, name)
      BY <1>8, <3>2, RequestAssumption DEF StartStep, Request
    <3>4. jobs[p] \in Row /\ jobs \in Table
      BY <2>2, <3>2, RowOf DEF IInv, TypeOK
    <3> HIDE DEF name
    <3>5. QED
      BY <2>2, <3>1, <3>2, <3>3, <3>4, CreateStepFact
  <2> HIDE DEF x
  <2>4. QED
    BY <1>5, <2>1, <2>2, <2>3 DEF ClientInv, At, Held, x
<1>9. ASSUME NEW g \in Groups, Launch(c, g)
      PROVE  ClientInv(c)'
  <2>1. /\ x.pc = IF client[c].mode = "step" THEN "adoptStep" ELSE "adoptJob"
        /\ x.mode = client[c].mode /\ x.job = client[c].job
        /\ x.step = client[c].step /\ x.group = g /\ client[c].pc = "launch"
    BY <1>1, <1>9 DEF Launch, Client, At
  <2>2. proc'[g].state # "none"
    BY <1>9 DEF Launch, IInv, TypeOK
  <2>3. /\ client[c].job \in JobId /\ jobs'[client[c].job].state # "NONE"
        /\ client[c].mode # "salloc" => client[c].step # NoJob
        /\ client[c].step # NoJob =>
              jobs'[client[c].step].state # "NONE" /\ client[c].step # client[c].job
    BY <1>1, <1>2, <1>4, <2>1 DEF ClientInv, At
  <2> HIDE DEF x
  <2>4. QED
    BY <1>5, <2>1, <2>2, <2>3 DEF ClientInv, At, Held, x
<1>10. ASSUME NEW pc, Go(c, pc),
              client[c].pc # "idle", pc # "idle",
              pc = "startStep" => At(c, "waiting"),
              pc = "launch" => client[c].pc = "waiting",
              pc \in {"startStep", "launch"} =>
                 client[c].mode = IF pc = "startStep" THEN "srun" ELSE "salloc",
              pc \in {"adoptJob", "waiting"} => FALSE,
              pc \in {"adoptStep", "running"} => client[c].pc \in {"adoptJob", "adoptStep"},
              pc = "adoptStep" => client[c].mode # "salloc",
              pc = "finishStep" => client[c].mode # "salloc",
              pc = "finishJob" => client[c].mode # "step",
              pc \in {"finishJob", "finishStep", "done"} =>
                 Held(c) /\ proc'[client[c].group].state = "gone"
       PROVE  ClientInv(c)'
  <2>1. /\ x.pc = pc /\ x.mode = client[c].mode /\ x.job = client[c].job
        /\ x.step = client[c].step /\ x.group = client[c].group
    BY <1>1, <1>10 DEF Go, Client
  <2>2. /\ client[c].job \in JobId /\ jobs'[client[c].job].state # "NONE"
        /\ client[c].step # NoJob =>
              jobs'[client[c].step].state # "NONE" /\ client[c].step # client[c].job
    BY <1>1, <1>2, <1>4, <1>10 DEF ClientInv, At
  <2>3. pc \in {"adoptStep", "running", "finishJob", "finishStep", "done"} =>
           /\ client[c].group \in Groups /\ proc'[client[c].group].state # "none"
           /\ client[c].mode # "salloc" => client[c].step # NoJob
    BY <1>1, <1>3, <1>4, <1>10 DEF ClientInv, Held
  <2>4. pc \in {"startStep", "launch"} =>
           client[c].group = NoGroup /\ client[c].step = NoJob
    BY <1>1, <1>10 DEF ClientInv, At
  <2> HIDE DEF x
  <2>5. QED
    BY <1>4, <1>5, <1>10, <2>1, <2>2, <2>3, <2>4 DEF ClientInv, At, Held, Mode, x
<1>11. CASE WaitEnds(c)
  <2>1. client[c].mode # "step" /\ client[c].mode \in {"salloc", "srun"}
    BY <1>1, <1>4, <1>11 DEF WaitEnds, At, ClientInv, Mode
  <2>2. PICK pc \in {"startStep", "launch", "gone"} :
           /\ Go(c, pc) /\ client[c].pc = "waiting"
           /\ pc = "startStep" => client[c].mode = "srun"
           /\ pc = "launch" => client[c].mode = "salloc"
    BY <2>1, <1>11 DEF WaitEnds, At
  <2>3. QED
    BY <1>10, <2>2 DEF At
<1>12. CASE Adopt(c)
  <2>1. PICK pc \in {"adoptStep", "running"} :
           /\ Go(c, pc) /\ client[c].pc \in {"adoptJob", "adoptStep"}
           /\ pc = "adoptStep" => client[c].mode = "srun"
    BY <1>12 DEF Adopt
  <2>2. QED
    BY <1>10, <2>1
<1>13. CASE ChildEnds(c)
  <2>1. PICK pc \in {"finishStep", "finishJob"} :
           /\ Go(c, pc) /\ client[c].pc = "running"
           /\ pc = "finishStep" <=> client[c].mode = "step"
    BY <1>13 DEF ChildEnds, At
  <2>2. Held(c) /\ client[c].group \in Groups
    BY <1>1, <1>4, <2>1 DEF ClientInv, Held
  <2>3. proc'[client[c].group].state = "gone"
    BY <1>13, <2>2 DEF ChildEnds, IInv, TypeOK, Proc
  <2>4. QED
    BY <1>10, <2>1, <2>2, <2>3
<1>14. CASE Finish(c)
  <2>1. PICK pc \in {"finishStep", "done"} :
           /\ Go(c, pc) /\ client[c].pc \in {"finishJob", "finishStep"}
           /\ pc = "finishStep" => client[c].mode = "srun"
    BY <1>14 DEF Finish
  <2>2. Held(c) /\ client[c].group \in Groups /\ proc[client[c].group].state = "gone"
    BY <1>1, <1>4, <2>1 DEF ClientInv, Held
  <2>3. QED
    BY <1>3, <1>10, <2>1, <2>2
<1>15. CASE ClientDies(c)
  <2>1. Go(c, "gone") /\ client[c].pc # "idle"
    BY <1>15 DEF ClientDies
  <2>2. QED
    BY <1>10, <2>1
<1>16. QED
  BY <1>6, <1>7, <1>8, <1>9, <1>11, <1>12, <1>13, <1>14, <1>15 DEF ClientStep

LEMMA ClientsKeep ==
    ASSUME IInv, Next
    PROVE  \A c \in Clients : ClientInv(c)'
BY OneClient, RestingClient, MovingClient

(* The rows a client holds exist, and those it reported are its own. *)
LEMMA OwnRows ==
    ASSUME IInv, NEW c \in Clients
    PROVE  /\ \A j \in Owned(c) : jobs[j].state # "NONE"
           /\ Reported(c) \subseteq Owned(c)
<1>1. ClientInv(c) /\ client[c] \in Client /\ NoJob \notin JobId
  BY ForegroundAssumption DEF IInv, TypeOK
<1>2. \A j \in Owned(c) : jobs[j].state # "NONE"
  BY <1>1 DEF Owned, ClientInv, At
<1>3. client[c].pc \in {"finishStep", "done"} => client[c].job \in JobId
  BY <1>1 DEF ClientInv, At, Client
<1>4. client[c].mode # "salloc" /\ At(c, "done") => client[c].step \in JobId
  BY <1>1 DEF ClientInv, At, Held, Client
<1>5. QED
  BY <1>2, <1>3, <1>4 DEF Owned, Reported

(* A client comes to own only rows its request creates. *)
LEMMA OwnedGrows ==
    ASSUME IInv, NEW c \in Clients, ClientStep(c)
    PROVE  \A j \in Owned(c)' : j \in Owned(c) \/ jobs[j].state = "NONE"
<1>1. ClientInv(c) /\ client[c] \in Client /\ client \in [Clients -> Client]
      /\ NoJob \notin JobId
  BY ForegroundAssumption DEF IInv, TypeOK
<1>2. ASSUME NEW j \in JobId, NEW mode \in Mode, NEW r \in Requests,
             RequestAllocation(c, mode, j, r)
      PROVE  \A i \in Owned(c)' : i \in Owned(c) \/ jobs[i].state = "NONE"
  <2>1. jobs[j].state = "NONE" /\ client'[c].job = j /\ client'[c].step = client[c].step
    BY <1>1, <1>2 DEF RequestAllocation, IsNextId, Rows, Client
  <2>2. QED
    BY <2>1 DEF Owned
<1>3. ASSUME NEW p \in JobId, EnterAllocation(c, p)
      PROVE  \A i \in Owned(c)' : i \in Owned(c) \/ jobs[i].state = "NONE"
  <2>1. client'[c].mode = "step" /\ client'[c].step = client[c].step
    BY <1>1, <1>3 DEF EnterAllocation, Client
  <2>2. QED
    BY <2>1 DEF Owned
<1>4. ASSUME NEW j \in JobId, NEW r \in Requests, StartStep(c, j, r.name)
      PROVE  \A i \in Owned(c)' : i \in Owned(c) \/ jobs[i].state = "NONE"
  <2>1. /\ jobs[j].state = "NONE" /\ client'[c].step = j /\ client'[c].job = client[c].job
        /\ client'[c].mode = client[c].mode
    BY <1>1, <1>4 DEF StartStep, IsNextId, Rows, Client
  <2>2. QED
    BY <2>1 DEF Owned
<1>5. ASSUME client'[c].mode = client[c].mode, client'[c].job = client[c].job,
             client'[c].step = client[c].step
      PROVE  \A i \in Owned(c)' : i \in Owned(c) \/ jobs[i].state = "NONE"
  BY <1>5 DEF Owned
<1>6. ASSUME NEW g \in Groups, Launch(c, g)
      PROVE  \A i \in Owned(c)' : i \in Owned(c) \/ jobs[i].state = "NONE"
  BY <1>1, <1>5, <1>6 DEF Launch, Client
<1>7. CASE WaitEnds(c) \/ Adopt(c) \/ ChildEnds(c) \/ Finish(c) \/ ClientDies(c)
  BY <1>1, <1>5, <1>7 DEF WaitEnds, Adopt, ChildEnds, Finish, ClientDies, Go, Client
<1>8. QED
  BY <1>2, <1>3, <1>4, <1>6, <1>7 DEF ClientStep

LEMMA ApartStep ==
    ASSUME IInv, Next
    PROVE  Apart'
<1>1. SUFFICES ASSUME NEW c \in Clients, NEW d \in Clients, c # d, NEW j \in JobId,
                      j \in Owned(c)', j \in Owned(d)'
               PROVE  FALSE
  BY DEF Apart, Owned
<1>2. \A e \in Clients : client'[e] = client[e] => Owned(e)' = Owned(e)
  BY DEF Owned
<1>3. \A e \in Clients : j \in Owned(e) => jobs[j].state # "NONE"
  BY OwnRows
<1>4. ~(j \in Owned(c) /\ j \in Owned(d))
  BY <1>1 DEF IInv, Apart
<1>5. CASE UNCHANGED client
  BY <1>1, <1>2, <1>4, <1>5
<1>6. ASSUME NEW e \in Clients, ClientStep(e), \A f \in Clients \ {e} : client'[f] = client[f]
      PROVE  FALSE
  <2>1. j \in Owned(e)' => j \in Owned(e) \/ jobs[j].state = "NONE"
    BY <1>6, OwnedGrows
  <2>2. QED
    BY <1>1, <1>2, <1>3, <1>4, <1>6, <2>1
<1>7. QED
  BY <1>5, <1>6, OneClient

----------------------------------------------------------------------------
(* The daemon *)

LEMMA ThreadStep ==
    ASSUME IInv, Next
    PROVE  ThreadInv'
<1>1. TypeOK /\ ThreadInv /\ TypeOK'
  BY TypeStep DEF IInv
<1>2. ASSUME NEW j \in JobId, CancelTracked(j) \/ TimeOut(j)
      PROVE  ThreadInv'
  <2>1. /\ jobs' = MarkState(jobs, j, "COMPLETING") /\ tracked'[j] = NoGroup
        /\ daemon' = "grace" /\ ending' = j /\ final' # "none"
    BY <1>1, <1>2 DEF CancelTracked, TimeOut, Terminate, TypeOK
  <2>2. jobs[j].state # "NONE" /\ "COMPLETING" \in State
    BY <1>2 DEF CancelTracked, TimeOut, IInv, TrackInv, State
  <2>3. jobs'[j].state = "COMPLETING"
    BY <1>1, <2>1, <2>2, RowOf, MarkStateFact DEF TypeOK
  <2>4. QED
    BY <2>1, <2>3, ForegroundAssumption DEF ThreadInv
<1>3. CASE GraceEnds \/ Crash \/ TendEnds \/ Restart \/ RecoverEnds \/ RequestsEnd
  BY <1>1, <1>3 DEF GraceEnds, Crash, TendEnds, Restart, RecoverEnds, RequestsEnd, Serves, ThreadInv
<1>4. CASE UNCHANGED <<jobs, tracked, thread>>
  BY <1>1, <1>4 DEF ThreadInv, thread
<1>5. CASE daemon # "grace" /\ UNCHANGED thread
  BY <1>1, <1>5 DEF ThreadInv, thread
<1>6. QED
  BY <1>2, <1>3, <1>4, <1>5
  DEF Next, ClientStep, Host, Control, Loop, CommandExits, KilledDies, Exit, Serves,
      RequestAllocation, EnterAllocation, StartStep, Launch, WaitEnds, Adopt, ChildEnds,
      Finish, ClientDies, Grant, CancelWaiting, Recover, Reconcile

(* A row is tracked from its client's adoption or from a recovery. *)
LEMMA Tracking ==
    ASSUME IInv, Next, NEW j \in JobId, tracked'[j] # NoGroup
    PROVE  \/ tracked'[j] = tracked[j]
           \/ \E c \in Clients : /\ Adopt(c) /\ j = Subject(c)
                                 /\ tracked'[j] = client[c].group
                                 /\ jobs'[j].group = client[c].group
           \/ /\ UNCHANGED jobs /\ jobs[j].state = "RUNNING"
              /\ tracked'[j] = jobs[j].group
<1>1. TypeOK
  BY DEF IInv
<1>2. ASSUME NEW c \in Clients, Adopt(c), tracked'[j] # tracked[j]
      PROVE  j = Subject(c) /\ tracked'[j] = client[c].group /\ jobs'[j].group = client[c].group
  <2>1. j = Subject(c) /\ tracked'[j] = client[c].group
    BY <1>1, <1>2 DEF Adopt, TypeOK
  <2>2. jobs[j].state # "NONE" /\ client[c].group \in Groups
    BY <1>2, <2>1, SubjectOf DEF Adopt
  <2>3. jobs' = AdoptAllocation(jobs, j, client[c].group)
    BY <1>2, <2>1 DEF Adopt
  <2>4. QED
    BY <1>1, <2>1, <2>2, <2>3, RowOf, AdoptAllocationFact DEF TypeOK
<1>3. ASSUME NEW i \in JobId, Recover(i), tracked'[j] # tracked[j]
      PROVE  UNCHANGED jobs /\ jobs[j].state = "RUNNING" /\ tracked'[j] = jobs[j].group
  BY <1>1, <1>3 DEF Recover, Unrecovered, Running, InState, TypeOK
<1>4. CASE \E c \in Clients : Finish(c)
  BY <1>1, <1>4 DEF Finish, TypeOK
<1>5. CASE \E i \in JobId : CancelTracked(i) \/ TimeOut(i) \/ Reconcile(i)
  BY <1>1, <1>5 DEF CancelTracked, TimeOut, Terminate, Reconcile, TypeOK
<1>6. CASE Crash
  BY <1>6 DEF Crash
<1>7. QED
  BY <1>2, <1>3, <1>4, <1>5, <1>6
  DEF Next, ClientStep, Host, Control, Loop, CommandExits, KilledDies, Exit,
      RequestAllocation, EnterAllocation, StartStep, Launch, WaitEnds, ChildEnds, ClientDies,
      Grant, CancelWaiting, GraceEnds, TendEnds, Restart, RecoverEnds, RequestsEnd

LEMMA TrackStep ==
    ASSUME IInv, Next
    PROVE  TrackInv'
<1>1. SUFFICES ASSUME NEW j \in JobId, tracked'[j] # NoGroup
               PROVE  jobs'[j].state # "NONE" /\ jobs'[j].group = tracked'[j]
  BY DEF TrackInv, Tracked
<1>2. CASE tracked'[j] = tracked[j]
  <2>1. jobs[j].state # "NONE" /\ jobs[j].group = tracked[j]
    BY <1>1, <1>2 DEF IInv, TrackInv, Tracked
  <2>2. jobs'[j].state # "NONE"
    BY <2>1, RowsStay
  <2>3. jobs'[j].group = jobs[j].group \/ \E c \in Clients : Adopt(c) /\ j = Subject(c)
    BY <2>1, JobSteps DEF OneRowChanges, Change
  <2>4. ASSUME NEW c \in Clients, Adopt(c), j = Subject(c)
        PROVE  jobs'[j].group = tracked'[j]
    <3>1. client[c].group \in Groups /\ tracked'[j] = client[c].group
      BY <2>4, SubjectOf DEF Adopt, IInv, TypeOK
    <3>2. jobs' = AdoptAllocation(jobs, j, client[c].group)
      BY <2>4 DEF Adopt
    <3>3. QED
      BY <2>1, <3>1, <3>2, RowOf, AdoptAllocationFact DEF IInv, TypeOK
  <2>5. QED
    BY <1>2, <2>1, <2>2, <2>3, <2>4
<1>3. ASSUME NEW c \in Clients, Adopt(c), j = Subject(c), tracked'[j] = client[c].group,
             jobs'[j].group = client[c].group
      PROVE  jobs'[j].state # "NONE"
  BY <1>3, SubjectOf, RowsStay DEF Adopt
<1>4. QED
  BY <1>1, <1>2, <1>3, Tracking

----------------------------------------------------------------------------
(* What was reported stands *)

(* A client keeps its rows and its group once it has spawned its command. *)
LEMMA Holding ==
    ASSUME IInv, Next, NEW c \in Clients, client[c].group # NoGroup
    PROVE  /\ client'[c].job = client[c].job /\ client'[c].step = client[c].step
           /\ client'[c].mode = client[c].mode /\ client'[c].group = client[c].group
<1>1. client \in [Clients -> Client] /\ client[c] \in Client
      /\ client[c].pc \notin {"idle", "waiting", "startStep", "launch"}
  BY DEF IInv, TypeOK, ClientInv
<1>2. CASE ClientStep(c)
  <2>1. Adopt(c) \/ ChildEnds(c) \/ Finish(c) \/ ClientDies(c)
    BY <1>1, <1>2
    DEF ClientStep, RequestAllocation, EnterAllocation, StartStep, Launch, WaitEnds, At
  <2>2. PICK pc : Go(c, pc)
    BY <2>1 DEF Adopt, ChildEnds, Finish, ClientDies
  <2>3. QED
    BY <1>1, <2>2 DEF Go, Client
<1>3. QED
  BY <1>2, OneClient

(* What a client adds to its report, it has just written. *)
LEMMA Reporting ==
    ASSUME IInv, Next, NEW c \in Clients, NEW j \in Reported(c)', j \notin Reported(c)
    PROVE  Finish(c) /\ j = Subject(c)
<1>1. client \in [Clients -> Client] /\ client[c] \in Client /\ ClientInv(c)
  BY DEF IInv, TypeOK
<1>2. client'[c] # client[c]
  BY DEF Reported, At
<1>3. ClientStep(c)
  BY <1>2, OneClient
<1>4. client'[c].pc \in {"finishStep", "done"}
      /\ (client'[c].pc = "finishStep" => client'[c].mode # "step")
  BY DEF Reported, At
<1>5. ~ClientDies(c)
  BY <1>1, <1>4 DEF ClientDies, Go, Client
<1>6. ~ChildEnds(c)
  BY <1>1, <1>4 DEF ChildEnds, Go, Client
<1>7. Finish(c)
  <2>1. \A j1 \in JobId, mode \in Mode, r \in Requests : ~RequestAllocation(c, mode, j1, r)
    BY <1>1, <1>4 DEF RequestAllocation, Client
  <2>2. ASSUME NEW p \in JobId, EnterAllocation(c, p)
        PROVE  FALSE
    <3>1. client'[c].pc = "startStep"
      BY <1>1, <2>2 DEF EnterAllocation, Client
    <3>2. QED
      BY <1>4, <3>1
  <2>3. \A j1 \in JobId, r \in Requests : ~StartStep(c, j1, r.name)
    BY <1>1, <1>4 DEF StartStep, Client
  <2>4. ASSUME NEW g \in Groups, Launch(c, g)
        PROVE  FALSE
    <3>1. client'[c].pc \in {"adoptStep", "adoptJob"}
      BY <1>1, <2>4 DEF Launch, Client
    <3>2. QED
      BY <1>4, <3>1
  <2>5. ~WaitEnds(c) /\ ~Adopt(c)
    BY <1>1, <1>4 DEF WaitEnds, Adopt, Go, Client
  <2>6. QED
    BY <1>3, <1>5, <1>6, <2>1, <2>2, <2>3, <2>4, <2>5 DEF ClientStep
<1>8. /\ client[c].pc \in {"finishJob", "finishStep"}
      /\ client'[c].mode = client[c].mode /\ client'[c].job = client[c].job
      /\ client'[c].step = client[c].step
      /\ client'[c].pc = IF client[c].pc = "finishJob" /\ client[c].mode = "srun"
                         THEN "finishStep" ELSE "done"
  BY <1>1, <1>7 DEF Finish, Go, At, Client
<1>9. j = Subject(c)
  <2>1. CASE client[c].pc = "finishJob"
    <3>1. client[c].mode \in {"salloc", "srun"}
      BY <1>1, <2>1 DEF ClientInv, Client, Mode
    <3>2. QED
      BY <1>8, <2>1, <3>1 DEF Reported, Subject, At
  <2>2. CASE client[c].pc = "finishStep"
    BY <1>8, <2>2 DEF Reported, Subject, At
  <2>3. QED
    BY <1>8, <2>1, <2>2
<1>10. QED
  BY <1>7, <1>9

(* Nobody writes a row after its client reported it. *)
LEMMA ReportedRests ==
    ASSUME IInv, Next, NEW c \in Clients, NEW j \in Reported(c)
    PROVE  /\ jobs'[j].state = jobs[j].state
           /\ tracked'[j] = NoGroup /\ ending' # j
<1>1. j \in JobId /\ j \in Owned(c) /\ jobs[j].state # "NONE"
  BY OwnRows DEF Owned
<1>2. tracked[j] = NoGroup /\ ending # j
      /\ jobs[j].state \in {"COMPLETED", "FAILED", "OUT_OF_MEMORY"}
  BY DEF IInv, ReportInv, Report
<1>3. ~Adopt(c)
  BY DEF Adopt, Reported, At
<1>4. ~(Finish(c) /\ j = Subject(c))
  BY DEF Finish, Reported, At, Subject, IInv, ClientInv
<1>5. \A d \in Clients : (Adopt(d) \/ Finish(d)) /\ j = Subject(d) => d = c
  BY <1>1, SubjectOf DEF Adopt, Finish, IInv, Apart
<1>6. ~Change(j) \/ jobs'[j].state = jobs[j].state
  BY <1>2, <1>3, <1>4, <1>5 DEF Change, Tracked
<1>7. jobs'[j].state = jobs[j].state
  BY <1>1, <1>6, JobSteps DEF OneRowChanges
<1>8. tracked'[j] = NoGroup
  BY <1>1, <1>2, <1>3, <1>5, Tracking
<1>9. ending' # j
  <2>1. ending' = ending \/ ending' = NoJob \/ ending' \in Tracked
    BY DEF Next, ClientStep, Host, Control, Loop, CommandExits, KilledDies, Exit, thread,
           RequestAllocation, EnterAllocation, StartStep, Launch, WaitEnds, Adopt, ChildEnds,
           Finish, ClientDies, Grant, CancelWaiting, CancelTracked, TimeOut, Terminate,
           GraceEnds, TendEnds, Restart, RecoverEnds, Recover, RequestsEnd, Crash, Reconcile
  <2>2. QED
    BY <1>1, <1>2, <2>1, ForegroundAssumption DEF Tracked
<1>10. QED
  BY <1>7, <1>8, <1>9

LEMMA ReportStep ==
    ASSUME IInv, Next
    PROVE  ReportInv'
<1>1. SUFFICES ASSUME NEW c \in Clients, NEW j \in Reported(c)'
               PROVE  tracked'[j] = NoGroup /\ ending' # j /\ jobs'[j].state = Report(c)'
  BY DEF ReportInv
<1>2. CASE j \in Reported(c)
  <2>1. client[c].group \in Groups /\ client[c].group # NoGroup
        /\ proc[client[c].group].state = "gone"
    <3>1. client[c].pc \in {"finishStep", "done"}
      BY <1>2 DEF Reported, At
    <3>2. QED
      BY <3>1 DEF IInv, TypeOK, Client, ClientInv, Held
  <2>2. Report(c)' = Report(c)
    BY <2>1, Holding, ProcSteps DEF ProcStays, Report
  <2>3. QED
    BY <1>2, <2>2, ReportedRests DEF IInv, ReportInv
<1>3. CASE j \notin Reported(c)
  <2>1. Finish(c) /\ j = Subject(c)
    BY <1>3, Reporting
  <2>2. j \in JobId /\ jobs[j].state # "NONE" /\ client[c].group \in Groups
    BY <2>1, SubjectOf DEF Finish
  <2>3. jobs' = MarkFinished(jobs, j, Report(c)) /\ Report(c) \in Terminal
    BY <2>1 DEF Finish, Report, Terminal
  <2>4. jobs'[j].state = Report(c)
    BY <2>2, <2>3, EndFact
  <2>5. tracked'[j] = NoGroup /\ ending' # j
    BY <2>1, <2>2, ForegroundAssumption
    DEF Finish, Serves, thread, IInv, TypeOK, ThreadInv
  <2>6. Report(c)' = Report(c)
    <3>1. client[c].group # NoGroup /\ UNCHANGED proc
      BY <2>1, <2>2, StoreAssumption DEF Finish
    <3>2. QED
      BY <3>1, Holding DEF Report
  <2>7. QED
    BY <2>4, <2>5, <2>6
<1>4. QED
  BY <1>2, <1>3

LEMMA HonestStep ==
    ASSUME IInv, Next
    PROVE  CompletedReturnedZero'
<1>1. SUFFICES ASSUME NEW j \in JobId, jobs'[j].state = "COMPLETED"
               PROVE  \E c \in Clients : /\ j \in {client'[c].job, client'[c].step}
                                         /\ client'[c].group # NoGroup
                                         /\ proc'[client'[c].group].code = "ok"
  BY DEF CompletedReturnedZero, InState
<1>2. ASSUME NEW c \in Clients, j \in {client[c].job, client[c].step},
             client[c].group # NoGroup, proc[client[c].group].code = "ok"
      PROVE  /\ j \in {client'[c].job, client'[c].step}
             /\ client'[c].group # NoGroup
             /\ proc'[client'[c].group].code = "ok"
  <2>1. client[c].group \in Groups
    BY <1>2 DEF IInv, TypeOK, Client
  <2>2. QED
    BY <1>2, <2>1, Holding, ProcSteps DEF ProcStays
<1>3. CASE jobs[j].state = "COMPLETED"
  BY <1>2, <1>3 DEF IInv, CompletedReturnedZero, InState
<1>4. CASE jobs[j].state # "COMPLETED"
  <2>1. PICK c \in Clients : Finish(c) /\ j = Subject(c) /\ Report(c) = "COMPLETED"
    BY <1>1, <1>4, JobSteps DEF OneRowChanges, Change
  <2>2. client[c].group # NoGroup /\ proc[client[c].group].code = "ok"
    BY <2>1, SubjectOf, StoreAssumption DEF Finish, Report
  <2>3. j \in {client[c].job, client[c].step}
    BY <2>1 DEF Subject
  <2>4. QED
    BY <1>2, <2>2, <2>3
<1>5. QED
  BY <1>3, <1>4

----------------------------------------------------------------------------
(* The theorems *)

LEMMA StepHolds == IInv /\ [Next]_vars => IInv'
<1> SUFFICES ASSUME IInv, [Next]_vars PROVE IInv'
  OBVIOUS
<1>1. CASE Next
  BY <1>1, TypeStep, ProcSteps, ClientsKeep, ApartStep, ThreadStep, TrackStep, ReportStep,
     HonestStep
  DEF IInv
<1>2. CASE UNCHANGED vars
  BY <1>2
  DEF IInv, vars, TypeOK, Apart, Owned, ThreadInv, TrackInv, Tracked, ProcInv, ReportInv,
      Reported, Report, At, CompletedReturnedZero, InState, ClientInv, Held
<1>3. QED
  BY <1>1, <1>2

THEOREM Inductive == Spec => []IInv
BY InitHolds, StepHolds, PTL DEF Spec

(* The variables keep their types: the table, the tracked groups, what the *)
(* clients hold and the states of their commands.                          *)
THEOREM TypeCorrect == Spec => []TypeOK
<1>1. IInv => TypeOK
  BY DEF IInv
<1>2. QED
  BY <1>1, Inductive, PTL

(* FinishAllocation is the last word on a row: whatever the daemon was     *)
(* doing with the allocation or its step, and however often it died, no    *)
(* reconciliation, recovery, time limit or scancel overwrites the report.  *)
THEOREM ReportIsFinal == Spec => []ReportStands
<1>1. IInv => ReportStands
  BY DEF IInv, ReportInv, ReportStands
<1>2. QED
  BY <1>1, Inductive, PTL

(* COMPLETED is only ever written on the word of a client whose command    *)
(* returned 0: neither recover nor reconcile_adopted can invent it.        *)
THEOREM CompletedIsTrue == Spec => []CompletedReturnedZero
<1>1. IInv => CompletedReturnedZero
  BY DEF IInv
<1>2. QED
  BY <1>1, Inductive, PTL

(* An allocation or a step that ended is never RUNNING or PENDING again:   *)
(* adopt_allocation writes the group only, and everything else that writes *)
(* a row that ended ends it.                                               *)
THEOREM EndedStaysEnded == Spec => EndedNeverRunsAgain
<1> DEFINE Ended == \A j \in JobId :
          jobs[j].state \in Terminal => jobs'[j].state \in Terminal \cup {"COMPLETING"}
<1>1. IInv /\ [Next]_vars => [Ended]_vars
  <2> SUFFICES ASSUME IInv, Next PROVE Ended
    OBVIOUS
  <2>1. SUFFICES ASSUME NEW j \in JobId, jobs[j].state \in Terminal
                 PROVE  jobs'[j].state \in Terminal \cup {"COMPLETING"}
    OBVIOUS
  <2>2. Change(j) => jobs'[j].state \in Terminal \cup {"COMPLETING"}
    BY <2>1 DEF Change, Terminal, Report
  <2>3. QED
    BY <2>1, <2>2, JobSteps DEF OneRowChanges
<1>2. QED
  BY <1>1, Inductive, PTL DEF Spec, EndedNeverRunsAgain
=============================================================================
