-------------------------- MODULE SubmissionProofs --------------------------
(***************************************************************************)
(* Theorems about Submission, for any requests, clients, array             *)
(* specifications, crashes and errors: a submission that was answered is   *)
(* complete, and sbatch --wait is told the truth.                          *)
(***************************************************************************)
EXTENDS Submission, StoreProofs

----------------------------------------------------------------------------
(* The ids of an array specification *)

LEMMA IdWidth == MaxI32 \in Nat
BY SMT DEF MaxI32

(* What parse_array_segment's loop collects, in closed form. *)
Steps(c, s) == {x \in Int : x <= s.last /\ \E k \in Nat : x = c + k * s.step}

(* Steps satisfies the recursion of the loop. *)
LEMMA StepsUnfold ==
    ASSUME NEW s \in Segment, NEW c \in Int
    PROVE  Steps(c, s) = IF c > s.last THEN {} ELSE {c} \cup Steps(c + s.step, s)
<1>1. s.last \in Int /\ s.step \in Int /\ s.step >= 1
  BY IdWidth DEF Segment
<1> DEFINE b == s.step
<1> HIDE DEF b
<1>2. \A k \in Nat : k * b \in Int /\ k * b >= 0
  BY <1>1 DEF b
<1>3. \A k \in Nat : (k + 1) * b = k * b + b
  <2>1. b \in Int
    BY <1>1 DEF b
  <2>2. \A n \in Int, k \in Nat : (k + 1) * n = k * n + n
    OBVIOUS
  <2>3. QED
    BY <2>1, <2>2
<1>4. ASSUME c > s.last
      PROVE  Steps(c, s) = {}
  BY <1>1, <1>2, <1>4 DEF Steps, b
<1>5. ASSUME c <= s.last
      PROVE  Steps(c, s) = {c} \cup Steps(c + s.step, s)
  <2>1. c \in Steps(c, s)
    <3>1. c = c + 0 * b
      BY <1>1 DEF b
    <3>2. QED
      BY <1>5, <3>1 DEF Steps, b
  <2>2. ASSUME NEW x \in Steps(c + s.step, s)
        PROVE  x \in Steps(c, s)
    <3>1. PICK k \in Nat : x = (c + b) + k * b
      BY DEF Steps, b
    <3>2. x = c + (k + 1) * b /\ k + 1 \in Nat
      BY <1>1, <1>2, <1>3, <3>1 DEF b
    <3>3. QED
      BY <3>2 DEF Steps, b
  <2>3. ASSUME NEW x \in Steps(c, s), x # c
        PROVE  x \in Steps(c + s.step, s)
    <3>1. PICK k \in Nat : x = c + k * b
      BY DEF Steps, b
    <3>2. k # 0
      BY <1>1, <2>3, <3>1 DEF b
    <3>3. k - 1 \in Nat /\ k = (k - 1) + 1
      BY <3>2
    <3>4. k * b = (k - 1) * b + b
      BY <1>3, <3>3
    <3>5. x = (c + b) + (k - 1) * b
      BY <1>1, <1>2, <3>1, <3>3, <3>4 DEF b
    <3>6. QED
      BY <3>3, <3>5 DEF Steps, b
  <2>4. QED
    BY <2>1, <2>2, <2>3
<1>6. QED
  BY <1>1, <1>4, <1>5

LEMMA SegmentSteps ==
    ASSUME NEW s \in Segment
    PROVE  SegmentIds(s) = Steps(s.first, s)
<1> DEFINE Loop1(f) == [current \in Int |->
                         IF current > s.last THEN {} ELSE {current} \cup f[current + s.step]]
           from == CHOOSE f : f = Loop1(f)
           steps == [c \in Int |-> Steps(c, s)]
<1>1. s.last \in Int /\ s.step \in Int /\ s.step >= 1 /\ s.first \in Int
  BY IdWidth DEF Segment
<1>2. steps = Loop1(steps)
  BY <1>1, StepsUnfold
<1>3. from = Loop1(from)
  BY <1>2
<1>4. SegmentIds(s) = from[s.first]
  BY DEF SegmentIds
<1> HIDE DEF from
<1>5. \A c \in Int : from[c] = IF c > s.last THEN {} ELSE {c} \cup from[c + s.step]
  BY <1>3
<1>6. \A c \in Int : Steps(c, s) = IF c > s.last THEN {} ELSE {c} \cup Steps(c + s.step, s)
  BY StepsUnfold
<1> DEFINE Wrong == {n \in Nat : from[s.last - n] # Steps(s.last - n, s)}
<1>7. Wrong = {}
  <2>1. SUFFICES ASSUME Wrong # {} PROVE FALSE
    OBVIOUS
  <2>2. PICK m \in Wrong : \A n \in Wrong : m <= n
    BY <2>1, LeastNumber
  <2> DEFINE c == s.last - m
             d == c + s.step
  <2>3. m \in Nat /\ c \in Int /\ d \in Int /\ ~(c > s.last) /\ from[c] # Steps(c, s)
    BY <1>1
  <2>4. from[d] = Steps(d, s)
    <3>1. CASE d > s.last
      BY <1>5, <1>6, <2>3, <3>1
    <3>2. CASE d <= s.last
      <4>1. m - s.step \in Nat /\ d = s.last - (m - s.step) /\ ~(m <= m - s.step)
        BY <1>1, <2>3, <3>2
      <4>2. m - s.step \notin Wrong
        BY <2>2, <4>1
      <4>3. QED
        BY <4>1, <4>2
    <3>3. QED
      BY <1>1, <2>3, <3>1, <3>2
  <2> HIDE DEF d
  <2>5. QED
    BY <1>5, <1>6, <2>3, <2>4 DEF d
<1>8. \A c \in Int : from[c] = Steps(c, s)
  <2>1. ASSUME NEW c \in Int, c > s.last
        PROVE  from[c] = Steps(c, s)
    BY <1>5, <1>6, <2>1
  <2>2. ASSUME NEW c \in Int, c <= s.last
        PROVE  from[c] = Steps(c, s)
    <3>1. s.last - c \in Nat /\ s.last - (s.last - c) = c
      BY <1>1, <2>2
    <3>2. s.last - c \notin Wrong
      BY <1>7
    <3>3. QED
      BY <3>1, <3>2
  <2>3. QED
    BY <1>1, <2>1, <2>2
<1>9. QED
  BY <1>1, <1>4, <1>8

(* The same as a sequence of multiples of the step. *)
LEMMA SegmentClosed ==
    ASSUME NEW s \in Segment
    PROVE  SegmentIds(s) = {s.first + k * s.step : k \in 0 .. (s.last - s.first) \div s.step}
<1>1. s.last \in Int /\ s.step \in Int /\ s.step >= 1 /\ s.first \in Int
  BY IdWidth DEF Segment
<1>2. ASSUME NEW a \in Int, NEW b \in Int, b >= 1, NEW k \in Nat
      PROVE  k * b <= a <=> k <= a \div b
  <2> DEFINE q == a \div b
  <2>1. q \in Int /\ q * b <= a /\ a < (q + 1) * b
    BY <1>2
  <2> HIDE DEF q
  <2>2. (q + 1) * b = q * b + b
    BY <2>1
  <2>3. ASSUME k <= q
        PROVE  k * b <= a
    <3>1. k * b <= q * b
      BY <1>2, <2>1, <2>3
    <3>2. QED
      BY <1>2, <2>1, <3>1
  <2>4. ASSUME k > q
        PROVE  k * b > a
    <3>1. (q + 1) * b <= k * b
      BY <1>2, <2>1, <2>4
    <3>2. QED
      BY <1>2, <2>1, <3>1
  <2>5. QED
    BY <1>2, <2>1, <2>3, <2>4 DEF q
<1>3. QED
  <2> DEFINE a == s.last - s.first
             b == s.step
  <2>1. \A k \in Nat : k * b <= a <=> k <= a \div b
    BY <1>1, <1>2
  <2>2. \A k \in Nat : k * b \in Int
    BY <1>1
  <2>3. a \div b \in Int
    BY <1>1
  <2>4. SegmentIds(s) = {x \in Int : x <= s.last /\ \E k \in Nat : x = s.first + k * b}
    BY SegmentSteps DEF Steps
  <2> HIDE DEF b
  <2>5. QED
    BY <1>1, <2>1, <2>2, <2>3, <2>4 DEF b

(* A request's tasks: finitely many, none without an array specification,  *)
(* and what AnsweredIsComplete writes in closed form.                      *)
LEMMA Tasks ==
    ASSUME NEW r \in Requests
    PROVE  /\ IsFiniteSet(TaskIds(r)) /\ TaskIds(r) \subseteq Nat
           /\ r.tasks \in Nat /\ r.tasks = Cardinality(TaskIds(r))
           /\ r.tasks = 0 => TaskIds(r) = {}
           /\ TaskIds(r) =
                UNION {{s.first + k * s.step : k \in 0 .. (s.last - s.first) \div s.step}
                       : s \in Segments[r]}
<1>1. Segments[r] \subseteq Segment
  BY SubmissionAssumption
<1>2. \A s \in Segments[r] : SegmentIds(s) \subseteq 0 .. MaxI32
  <2>1. SUFFICES ASSUME NEW s \in Segment, NEW x \in Steps(s.first, s)
                 PROVE  x \in 0 .. MaxI32
    BY <1>1, SegmentSteps
  <2>2. /\ s.first \in Nat /\ s.last \in Int /\ s.last <= MaxI32
        /\ s.step \in Nat
    BY IdWidth DEF Segment
  <2>3. PICK k \in Nat : x = s.first + k * s.step
    BY DEF Steps
  <2>4. k * s.step \in Nat
    BY <2>2
  <2>5. x \in Int /\ x <= s.last
    BY DEF Steps
  <2>6. QED
    BY <2>2, <2>3, <2>4, <2>5, IdWidth
<1>3. TaskIds(r) \subseteq 0 .. MaxI32
  BY <1>2 DEF TaskIds
<1>4. IsFiniteSet(TaskIds(r)) /\ TaskIds(r) \subseteq Nat
  <2>1. IsFiniteSet(0 .. MaxI32) /\ 0 .. MaxI32 \subseteq Nat
    BY IdWidth, FS_Interval
  <2>2. QED
    BY <1>3, <2>1, FS_Subset
<1>5. r.tasks = Cardinality(TaskIds(r))
  BY SubmissionAssumption
<1>6. r.tasks \in Nat /\ (r.tasks = 0 => TaskIds(r) = {})
  BY <1>4, <1>5, FS_CardinalityType, FS_EmptySet
<1>7. \A s \in Segments[r] :
          SegmentIds(s) = {s.first + k * s.step : k \in 0 .. (s.last - s.first) \div s.step}
  BY <1>1, SegmentClosed
<1>8. QED
  BY <1>4, <1>5, <1>6, <1>7 DEF TaskIds

----------------------------------------------------------------------------
(***************************************************************************)
(* The inductive invariant.  While a submission is being inserted, the     *)
(* table ends with its rows, and the tasks it still has to insert are as   *)
(* many as the rows that are missing; a client is answered when none is    *)
(* left, and nothing afterwards touches what makes its rows complete.      *)
(***************************************************************************)
DaemonType ==
    /\ daemon \in [pc : Phase, client : Clients \cup {NoClient}, first : {0} \cup JobId,
                   job : {0} \cup JobId, left : SUBSET Nat]

Asking == daemon.pc \in {"insert", "paths", "link", "requestPass"}
Answered(c) == client[c].pc \in {"waiting", "waitingTasks", "zero", "nonzero", "lost"}
ClientsInv ==
    /\ Asking => daemon.client \in Clients /\ client[daemon.client].pc = "asked"
    /\ ~Asking => daemon.client = NoClient
    /\ \A c \in Clients : Answered(c) <=> client[c].job # 0

(* Ids are given out without a gap. *)
PrefixInv == \A i, j \in JobId : i <= j /\ j \in Rows(jobs) => i \in Rows(jobs)

(* The rows f .. l are those of r so far, and the last of the table. *)
Growing(f, l, left, r) ==
    /\ f \in JobId /\ l \in JobId /\ f <= l
    /\ \A j \in JobId : j \in Rows(jobs) <=> j <= l
    /\ \A j \in f .. l : jobs[j].req = r
    /\ left \subseteq TaskIds(r)
    /\ IF r.tasks = 0 THEN l = f /\ left = {}
       ELSE /\ {taskId[j] : j \in f .. l} = TaskIds(r) \ left
            /\ Cardinality(left) = r.tasks - (l - f + 1)
Linked(f, l, a) == \A j \in f .. l : jobs[j].array = a

(* The rows of a submission that is complete, from f on. *)
Complete(f, r) ==
    /\ f \in JobId
    /\ \A j \in f .. f + RowsNeeded(r) - 1 :
          /\ j \in Rows(jobs) \cap written
          /\ jobs[j].req = r
          /\ jobs[j].array = IF r.tasks = 0 THEN 0 ELSE f
    /\ r.tasks > 0 => {taskId[j] : j \in f .. f + RowsNeeded(r) - 1} = TaskIds(r)

Order == client[daemon.client].req
From == IF daemon.first = 0 THEN daemon.job ELSE daemon.first

InsertInv ==
    daemon.pc = "insert" =>
        IF daemon.first = 0 THEN daemon.left = TaskIds(Order)
        ELSE /\ Order.tasks > 0 /\ daemon.left # {}
             /\ \E l \in JobId : /\ Growing(daemon.first, l, daemon.left, Order)
                                 /\ daemon.first .. l \subseteq written
                                 /\ Linked(daemon.first, l, daemon.first)
PathsInv ==
    daemon.pc = "paths" =>
        /\ Order.tasks = 0 => daemon.first = 0
        /\ Growing(From, daemon.job, daemon.left, Order)
        /\ From .. (daemon.job - 1) \subseteq written
        /\ Linked(From, daemon.job, daemon.first)
LinkInv ==
    daemon.pc = "link" =>
        /\ daemon.first = 0 /\ Order.tasks > 0
        /\ Growing(daemon.job, daemon.job, daemon.left, Order)
        /\ daemon.job \in written /\ jobs[daemon.job].array = 0
PassInv == daemon.pc = "requestPass" => Complete(daemon.first, Order)

(* array_job_id names the first of the rows of one submission. *)
ArrayInv ==
    \A j \in Rows(jobs) :
        jobs[j].array # 0 =>
            /\ jobs[j].array \in Rows(jobs)
            /\ jobs[jobs[j].array].array = jobs[j].array
            /\ jobs[jobs[j].array].req = jobs[j].req
            /\ jobs[j].array <= j /\ j < jobs[j].array + jobs[j].req.tasks

CodeInv ==
    \A j \in JobId : code[j] = "zero" => jobs[j].state \in {"COMPLETED"} \cup StoppedState
AnsweredInv ==
    \A c \in Clients : client[c].job # 0 => Complete(client[c].job, client[c].req)
WaitInv ==
    \A c \in Clients :
        /\ client[c].pc = "waitingTasks" => client[c].req.tasks > 1
        /\ client[c].pc \in {"zero", "nonzero"} =>
              \A j \in RowsOf(c) : jobs[j].state \in Terminal

IInv ==
    /\ TypeOK /\ DaemonType /\ ClientsInv /\ PrefixInv
    /\ InsertInv /\ PathsInv /\ LinkInv /\ PassInv
    /\ ArrayInv /\ CodeInv /\ AnsweredInv /\ WaitInv /\ WaitIsHonest

LEMMA InitHolds == Init => IInv
<1> SUFFICES ASSUME Init PROVE IInv
  OBVIOUS
<1> USE StoreAssumption, SubmissionAssumption
<1>1. Rows(jobs) = {}
  BY DEF Init, Rows, EmptyTable, NoRow
<1>2. daemon = [pc |-> "recover", client |-> NoClient, first |-> 0, job |-> 0, left |-> {}]
  BY DEF Init, Goto
<1>3. \A c \in Clients : client[c].pc = "idle" /\ client[c].job = 0
  BY DEF Init
<1>4. DaemonType
  BY <1>2 DEF DaemonType, Phase
<1>5. TypeOK
  <2>1. jobs \in Table /\ written \subseteq Rows(jobs) /\ taskId \in [JobId -> Int]
        /\ code \in [JobId -> ExitCode]
    BY DEF Init, Table, EmptyTable, NoTask, ExitCode
  <2>2. client \in [Clients -> [pc : ClientPhase, job : {0} \cup JobId, req : Requests]]
    BY DEF Init, ClientPhase
  <2>3. crashes \in 0 .. MaxCrashes /\ errors \in 0 .. MaxErrors
    BY DEF Init
  <2>4. QED
    BY <1>2, <2>1, <2>2, <2>3 DEF TypeOK, Phase
<1>6. ClientsInv /\ InsertInv /\ PathsInv /\ LinkInv /\ PassInv
  BY <1>2, <1>3 DEF ClientsInv, Asking, Answered, InsertInv, PathsInv, LinkInv, PassInv
<1>7. PrefixInv /\ ArrayInv
  BY <1>1 DEF PrefixInv, ArrayInv
<1>8. CodeInv
  BY DEF Init, CodeInv
<1>9. AnsweredInv /\ WaitInv /\ WaitIsHonest
  BY <1>3 DEF AnsweredInv, WaitInv, WaitIsHonest
<1>10. QED
  BY <1>4, <1>5, <1>6, <1>7, <1>8, <1>9 DEF IInv

----------------------------------------------------------------------------
(* What a step does to the table *)

(* The lines of the invariant about clients and the daemon's record. *)
LEMMA Shape ==
    ASSUME IInv
    PROVE  /\ daemon \in [pc : Phase, client : Clients \cup {NoClient}, first : {0} \cup JobId,
                          job : {0} \cup JobId, left : SUBSET Nat]
           /\ jobs \in Table
           /\ client \in [Clients -> [pc : ClientPhase, job : {0} \cup JobId, req : Requests]]
           /\ taskId \in [JobId -> Int] /\ code \in [JobId -> ExitCode]
           /\ Asking => daemon.client \in Clients /\ Order \in Requests
BY DEF IInv, TypeOK, DaemonType, ClientsInv, Order

(* A launch, an end or a cancellation: one row that has not ended.  Its    *)
(* request and its array stay.                                             *)
Moves(j) ==
    /\ jobs' \in Table
    /\ jobs[j].state # "NONE" /\ jobs[j].state \notin Terminal
    /\ jobs'[j].state # "NONE"
    /\ jobs'[j].req = jobs[j].req /\ jobs'[j].array = jobs[j].array
    /\ \A i \in JobId \ {j} : jobs'[i] = jobs[i]

LEMMA LaunchMoves ==
    ASSUME IInv, NEW j \in JobId, Launch(j)
    PROVE  Moves(j) /\ jobs'[j].state = "RUNNING"
<1>1. jobs[j].state = "PENDING" /\ jobs \in Table
  BY Shape DEF Launch, Pending, InState
<1>2. jobs[j] \in Row
  BY <1>1, RowExists
<1> DEFINE row == [jobs[j] EXCEPT !.state = "RUNNING", !.group = NoGroup, !.started = TRUE,
                                  !.gpuIds = {}]
<1>3. row.array = jobs[j].array /\ row = MarkRunning(jobs, j, NoGroup, {})[j]
  BY <1>1, <1>2 DEF Row, MarkRunning, Table
<1> HIDE DEF row
<1>4. jobs' = MarkRunning(jobs, j, NoGroup, {}) /\ {} \in SUBSET GpuId
  BY DEF Launch
<1>5. jobs' \in Table /\ jobs'[j].state = "RUNNING" /\ jobs'[j].req = jobs[j].req
      /\ \A i \in JobId \ {j} : jobs'[i] = jobs[i]
  BY <1>1, <1>2, <1>4, MarkRunningFact
<1>6. QED
  BY <1>1, <1>3, <1>4, <1>5 DEF Moves, Terminal

LEMMA CancelMoves ==
    ASSUME IInv, NEW j \in JobId, CancelWaiting(j)
    PROVE  Moves(j) /\ jobs'[j].state = "CANCELLED"
<1>1. jobs[j].state = "PENDING" /\ jobs \in Table
  BY Shape DEF CancelWaiting, InState
<1>2. jobs[j] \in Row
  BY <1>1, RowExists
<1>3. jobs' = MarkState(jobs, j, "CANCELLED") /\ "CANCELLED" \in State
  BY DEF CancelWaiting, CancelPending, State, Terminal
<1>4. jobs'[j].array = jobs[j].array
  BY <1>1, <1>2, <1>3 DEF MarkState, Table, Row
<1>5. jobs' \in Table /\ jobs'[j].state = "CANCELLED" /\ jobs'[j].req = jobs[j].req
      /\ \A i \in JobId \ {j} : jobs'[i] = jobs[i]
  BY <1>1, <1>2, <1>3, MarkStateFact
<1>6. QED
  BY <1>1, <1>4, <1>5 DEF Moves, Terminal

(* A recorded code 0 never comes with FAILED. *)
LEMMA EndMoves ==
    ASSUME IInv, NEW j \in JobId, NEW outcome \in Outcome, JobEnds(j, outcome)
    PROVE  /\ Moves(j)
           /\ code' \in [JobId -> ExitCode]
           /\ code'[j] = "zero" => jobs'[j].state \in {"COMPLETED"} \cup StoppedState
           /\ \A i \in JobId \ {j} : code'[i] = code[i]
<1>1. jobs[j].state = "RUNNING" /\ jobs \in Table
  BY Shape DEF JobEnds, Running, InState
<1>2. jobs[j] \in Row
  BY <1>1, RowExists
<1> DEFINE final == outcome[1]
<1>3. /\ final \in Terminal /\ outcome[2] \in ExitCode
      /\ outcome[2] = "zero" => final \in {"COMPLETED"} \cup StoppedState
  <2>1. Stops \subseteq StoppedState /\ StoppedState \subseteq Terminal
    BY SubmissionAssumption DEF StoppedState, Terminal
  <2>2. QED
    <3>1. CASE outcome \in {<<"COMPLETED", "zero">>, <<"FAILED", "nonzero">>}
      BY <3>1 DEF ExitCode, Terminal
    <3>2. CASE outcome \in Stops \X ExitCode
      <4>1. outcome[1] \in Stops /\ outcome[2] \in ExitCode
        BY <3>2
      <4>2. QED
        BY <2>1, <4>1
    <3>3. QED
      BY <3>1, <3>2 DEF Outcome
<1>4. jobs' = MarkFinished(jobs, j, final)
  BY DEF JobEnds
<1> HIDE DEF final
<1>5. \/ jobs'[j] = Requeued(jobs[j]) /\ jobs'[j].state = "PENDING"
      \/ jobs'[j] = Finished(jobs[j], final) /\ jobs'[j].state = final
  BY <1>1, <1>2, <1>3, <1>4, MarkFinishedFact, FinishedColumns
<1>6. Requeued(jobs[j]).array = jobs[j].array /\ Finished(jobs[j], final).array = jobs[j].array
  BY <1>2 DEF Requeued, Finished, Row
<1>7. jobs' \in Table /\ \A i \in JobId \ {j} : jobs'[i] = jobs[i]
  BY <1>1, <1>2, <1>3, <1>4, MarkFinishedFact
<1>8. jobs'[j].req = jobs[j].req
  BY <1>2, <1>3, <1>5, FinishedColumns
<1>9. Moves(j)
  BY <1>1, <1>3, <1>5, <1>6, <1>7, <1>8 DEF Moves, Terminal
<1>10. code' = [code EXCEPT ![j] = IF jobs'[j].state = "PENDING" THEN "nonzero" ELSE outcome[2]]
       /\ code \in [JobId -> ExitCode]
  BY Shape DEF JobEnds
<1>11. /\ code' \in [JobId -> ExitCode]
       /\ code'[j] = IF jobs'[j].state = "PENDING" THEN "nonzero" ELSE outcome[2]
       /\ \A i \in JobId \ {j} : code'[i] = code[i]
  BY <1>3, <1>10 DEF ExitCode
<1>12. code'[j] = "zero" => jobs'[j].state \in {"COMPLETED"} \cup StoppedState
  BY <1>3, <1>5, <1>11
<1>13. QED
  BY <1>9, <1>11, <1>12

(* The INSERT of the row after the last one. *)
LEMMA InsertFact ==
    ASSUME IInv, NEW j \in JobId, Insert(j)
    PROVE  /\ jobs' \in Table /\ jobs[j].state = "NONE"
           /\ jobs'[j].state = "PENDING" /\ jobs'[j].req = Order
           /\ jobs'[j].array = daemon.first
           /\ \A i \in JobId \ {j} : jobs'[i] = jobs[i]
           /\ \A i \in JobId : i \in Rows(jobs) <=> i < j
<1>1. jobs \in Table /\ daemon.first \in {0} \cup JobId /\ Order \in Requests
  BY Shape DEF Insert, Asking
<1> DEFINE row == PendingRow(Order, daemon.first)
<1>2. row \in Row /\ row.state = "PENDING" /\ row.req = Order /\ row.array = daemon.first
  BY <1>1, RequestAssumption DEF PendingRow, Row, State, Request
<1>3. jobs' = [jobs EXCEPT ![j] = row] /\ IsNextId(jobs, j)
  BY DEF Insert, Order
<1> HIDE DEF row
<1>4. /\ jobs' \in Table /\ jobs'[j] = row
      /\ \A i \in JobId \ {j} : jobs'[i] = jobs[i]
  BY <1>1, <1>2, <1>3 DEF Table
<1>5. jobs[j].state = "NONE"
  BY <1>3 DEF IsNextId, Rows
<1>6. \A i \in JobId : i \in Rows(jobs) <=> i < j
  <2>1. \A i \in JobId : i < j => i \in Rows(jobs)
    BY <1>3 DEF IsNextId
  <2>2. \A i \in JobId : i \in Rows(jobs) => ~(j <= i)
    BY <1>3 DEF IsNextId, IInv, PrefixInv
  <2>3. QED
    BY <2>1, <2>2, StoreAssumption DEF JobId
<1>7. QED
  BY <1>2, <1>4, <1>5, <1>6

(* The UPDATE of the first task's array_job_id. *)
LEMMA LinkFact ==
    ASSUME IInv, Link
    PROVE  /\ daemon.job \in JobId /\ jobs' \in Table /\ jobs[daemon.job].state # "NONE"
           /\ jobs'[daemon.job].state = jobs[daemon.job].state
           /\ jobs'[daemon.job].req = jobs[daemon.job].req
           /\ jobs'[daemon.job].array = daemon.job
           /\ \A i \in JobId \ {daemon.job} : jobs'[i] = jobs[i]
<1>1. PICK j \in JobId : j = daemon.job /\ j \in Rows(jobs)
  BY DEF Link, IInv, LinkInv, Growing
<1>2. jobs \in Table /\ jobs[j] \in Row
  BY <1>1, Shape, RowExists DEF Rows
<1> DEFINE row == [jobs[j] EXCEPT !.array = j]
<1>3. /\ row \in Row /\ row.state = jobs[j].state /\ row.req = jobs[j].req /\ row.array = j
  BY <1>2 DEF Row
<1>4. jobs' = [jobs EXCEPT ![j] = row]
  BY <1>1 DEF Link
<1> HIDE DEF row
<1>5. QED
  BY <1>1, <1>2, <1>3, <1>4 DEF Table, Rows

(* What every step does to the rows that exist. *)
RowStays(j) ==
    /\ jobs'[j].state # "NONE" /\ jobs'[j].req = jobs[j].req
    /\ jobs'[j].array = jobs[j].array \/ (Link /\ j = daemon.job /\ jobs'[j].array = j)
    /\ jobs[j].state \in Terminal => jobs'[j].state = jobs[j].state /\ code'[j] = code[j]
    /\ taskId'[j] = taskId[j]

LEMMA TableStep ==
    ASSUME IInv, Next
    PROVE  /\ jobs' \in Table /\ written \subseteq written' /\ written' \subseteq Rows(jobs')
           /\ taskId' \in [JobId -> Int] /\ code' \in [JobId -> ExitCode]
           /\ CodeInv'
           /\ \A j \in Rows(jobs) : RowStays(j)
           /\ \A j \in JobId : j \in Rows(jobs') => j \in Rows(jobs) \/ Insert(j)
<1>1. /\ jobs \in Table /\ taskId \in [JobId -> Int]
      /\ code \in [JobId -> ExitCode]
      /\ written \subseteq Rows(jobs) /\ CodeInv
  BY Shape DEF IInv, TypeOK
<1> DEFINE Claim ==
        /\ jobs' \in Table /\ written \subseteq written' /\ written' \subseteq Rows(jobs')
        /\ taskId' \in [JobId -> Int] /\ code' \in [JobId -> ExitCode]
        /\ CodeInv'
        /\ \A j \in Rows(jobs) : RowStays(j)
        /\ \A j \in JobId : j \in Rows(jobs') => j \in Rows(jobs) \/ Insert(j)
<1>2. CASE UNCHANGED table
  <2>1. jobs' = jobs /\ written' = written /\ taskId' = taskId /\ code' = code
    BY <1>2 DEF table
  <2>2. \A j \in Rows(jobs) : RowStays(j)
    BY <2>1 DEF RowStays, Rows
  <2>3. QED
    BY <1>1, <2>1, <2>2 DEF CodeInv, Rows
<1>3. ASSUME NEW j \in JobId, Moves(j), UNCHANGED <<written, taskId>>,
             code' \in [JobId -> ExitCode],
             code'[j] = "zero" => jobs'[j].state \in {"COMPLETED"} \cup StoppedState,
             \A i \in JobId \ {j} : code'[i] = code[i]
      PROVE  Claim
  <2>1. \A i \in Rows(jobs) : RowStays(i)
    BY <1>3 DEF RowStays, Moves, Rows
  <2>2. CodeInv'
    BY <1>1, <1>3 DEF CodeInv, Moves
  <2>3. Rows(jobs') = Rows(jobs)
    BY <1>3 DEF Moves, Rows
  <2>4. QED
    BY <1>1, <1>3, <2>1, <2>2, <2>3 DEF Moves
<1>4. ASSUME NEW j \in JobId, Launch(j) \/ CancelWaiting(j)
      PROVE  Claim
  <2>1. Moves(j) /\ UNCHANGED <<written, taskId, code>> /\ jobs[j].state = "PENDING"
    BY <1>4, LaunchMoves, CancelMoves DEF Launch, CancelWaiting, Pending, InState
  <2>2. code'[j] # "zero"
    BY <1>1, <2>1 DEF CodeInv, StoppedState
  <2>3. code' \in [JobId -> ExitCode] /\ \A i \in JobId \ {j} : code'[i] = code[i]
    BY <1>1, <2>1
  <2>4. QED
    BY <1>3, <2>1, <2>2, <2>3
<1>5. ASSUME NEW j \in JobId, NEW outcome \in Outcome, JobEnds(j, outcome)
      PROVE  Claim
  <2>1. UNCHANGED <<written, taskId>>
    BY <1>5 DEF JobEnds
  <2>2. QED
    BY <1>3, <1>5, <2>1, EndMoves
<1>6. ASSUME NEW j \in JobId, Insert(j)
      PROVE  Claim
  <2>1. /\ jobs' \in Table /\ jobs[j].state = "NONE" /\ jobs'[j].state # "NONE"
        /\ \A i \in JobId \ {j} : jobs'[i] = jobs[i]
    BY <1>6, InsertFact
  <2>2. written' = written /\ code' = code
    BY <1>6 DEF Insert
  <2>3. taskId' \in [JobId -> Int] /\ \A i \in JobId \ {j} : taskId'[i] = taskId[i]
    <3>1. daemon.left \subseteq Nat
      BY Shape
    <3>2. UNCHANGED taskId \/ \E task \in daemon.left : taskId' = [taskId EXCEPT ![j] = task]
      BY <1>6 DEF Insert
    <3>3. QED
      BY <1>1, <3>1, <3>2
  <2>4. \A i \in Rows(jobs) : RowStays(i)
    BY <2>1, <2>2, <2>3 DEF RowStays, Rows
  <2>5. CodeInv'
    BY <1>1, <2>1, <2>2 DEF CodeInv, StoppedState
  <2>6. Rows(jobs') = Rows(jobs) \cup {j}
    BY <2>1 DEF Rows
  <2>7. QED
    BY <1>1, <1>6, <2>1, <2>2, <2>3, <2>4, <2>5, <2>6
<1>7. CASE Link
  <2>1. PICK k \in JobId : k = daemon.job
    BY <1>7, LinkFact
  <2>2. /\ jobs' \in Table /\ jobs[k].state # "NONE"
        /\ jobs'[k].state = jobs[k].state /\ jobs'[k].req = jobs[k].req /\ jobs'[k].array = k
        /\ \A i \in JobId \ {k} : jobs'[i] = jobs[i]
    BY <1>7, <2>1, LinkFact
  <2>3. written' = written /\ code' = code /\ taskId' = taskId
    BY <1>7 DEF Link
  <2>4. \A i \in Rows(jobs) : RowStays(i)
    BY <1>7, <2>1, <2>2, <2>3 DEF RowStays, Rows
  <2>5. CodeInv'
    BY <1>1, <2>2, <2>3 DEF CodeInv
  <2>6. Rows(jobs') = Rows(jobs)
    BY <2>2 DEF Rows
  <2>7. QED
    BY <1>1, <2>2, <2>3, <2>4, <2>5, <2>6
<1>8. CASE WritePaths
  <2>1. jobs' = jobs /\ taskId' = taskId /\ code' = code /\ written' = written \cup {daemon.job}
    BY <1>8 DEF WritePaths
  <2>2. daemon.job \in Rows(jobs)
    <3>1. Growing(From, daemon.job, daemon.left, Order)
      BY <1>8 DEF WritePaths, IInv, PathsInv
    <3>2. QED
      BY <3>1, StoreAssumption DEF Growing, JobId
  <2>3. \A i \in Rows(jobs) : RowStays(i)
    BY <2>1 DEF RowStays, Rows
  <2>4. CodeInv'
    BY <1>1, <2>1 DEF CodeInv
  <2>5. QED
    BY <1>1, <2>1, <2>2, <2>3, <2>4
<1>9. QED
  BY <1>2, <1>4, <1>5, <1>6, <1>7, <1>8
  DEF Next, Wait, Loop, Creation, Submit, WaitForFirst, WaitForTasks, ClientLost, PathsFail,
      LaunchFails, PassEnd, RequestsEnd, LoopStep, Crash, Restart

(* A submission that is complete remains so. *)
LEMMA CompleteStays ==
    ASSUME IInv, Next, NEW f, NEW r \in Requests, Complete(f, r)
    PROVE  Complete(f, r)'
<1>1. r.tasks \in Nat /\ f \in Nat /\ f # 0
  BY Tasks, StoreAssumption DEF Complete, JobId
<1> DEFINE range == f .. f + RowsNeeded(r) - 1
<1>2. ASSUME NEW j \in range
      PROVE  /\ j \in Rows(jobs') \cap written' /\ jobs'[j].req = r
             /\ jobs'[j].array = IF r.tasks = 0 THEN 0 ELSE f
             /\ taskId'[j] = taskId[j]
  <2>1. /\ j \in Rows(jobs) /\ j \in written /\ jobs[j].req = r
        /\ jobs[j].array = IF r.tasks = 0 THEN 0 ELSE f
    BY DEF Complete
  <2>2. RowStays(j) /\ j \in written'
    BY <2>1, TableStep
  <2>3. ~(Link /\ j = daemon.job)
    <3>1. SUFFICES ASSUME Link, j = daemon.job PROVE FALSE
      OBVIOUS
    <3>2. Order.tasks > 0 /\ jobs[j].req = Order /\ jobs[j].array = 0
      BY <2>1, <3>1, StoreAssumption DEF Link, IInv, LinkInv, Growing, JobId, Rows
    <3>3. QED
      BY <1>1, <2>1, <3>2
  <2>4. QED
    BY <2>1, <2>2, <2>3 DEF RowStays, Rows
<1>3. {taskId'[j] : j \in range} = {taskId[j] : j \in range}
  BY <1>2
<1>4. f \in JobId /\ (r.tasks > 0 => {taskId[j] : j \in range} = TaskIds(r))
  BY DEF Complete
<1> HIDE DEF range
<1>5. QED
  BY <1>2, <1>3, <1>4 DEF Complete, range

----------------------------------------------------------------------------
(* What a step does to the submission the daemon works on *)

Creating ==
    /\ DaemonType /\ InsertInv /\ PathsInv /\ LinkInv /\ PassInv
    /\ Asking => daemon.client \in Clients /\ client[daemon.client].pc = "asked"
    /\ ~Asking => daemon.client = NoClient

LEMMA QuietDaemon ==
    ASSUME IInv, NEW pc \in Phase \ {"insert", "paths", "link", "requestPass"}, daemon' = Goto(pc)
    PROVE  Creating'
BY DEF Creating, DaemonType, InsertInv, PathsInv, LinkInv, PassInv, Asking, Goto

LEMMA SubmitCreates ==
    ASSUME IInv, NEW c \in Clients, Submit(c)
    PROVE  Creating'
<1> DEFINE start == Goto("insert")
<1>1. start = [pc |-> "insert", client |-> NoClient, first |-> 0, job |-> 0, left |-> {}]
  BY DEF Goto
<1>2. client[c].req \in Requests /\ TaskIds(client[c].req) \subseteq Nat
  BY Shape, Tasks
<1>3. daemon' = [start EXCEPT !.client = c, !.left = TaskIds(client[c].req)]
  BY DEF Submit
<1> HIDE DEF start
<1>4. daemon' = [pc |-> "insert", client |-> c, first |-> 0, job |-> 0,
                 left |-> TaskIds(client[c].req)]
  BY <1>1, <1>3
<1>5. client'[c].pc = "asked" /\ client'[c].req = client[c].req
  BY Shape DEF Submit, Tell
<1>6. DaemonType'
  BY <1>2, <1>4 DEF DaemonType, Phase
<1>7. QED
  BY <1>4, <1>5, <1>6 DEF Creating, InsertInv, PathsInv, LinkInv, PassInv, Asking, Order

(* The INSERT adds a row to the submission and takes a task off. *)
LEMMA InsertCreates ==
    ASSUME IInv, NEW j \in JobId, Insert(j)
    PROVE  Creating'
<1>1. /\ jobs[j].state = "NONE" /\ jobs'[j].state = "PENDING" /\ jobs'[j].req = Order
      /\ jobs'[j].array = daemon.first
      /\ \A i \in JobId \ {j} : jobs'[i] = jobs[i]
      /\ \A i \in JobId : i \in Rows(jobs) <=> i < j
  BY InsertFact
<1>2. /\ daemon.pc = "insert" /\ InsertInv /\ Asking /\ daemon.client \in Clients
      /\ client[daemon.client].pc = "asked" /\ client' = client /\ written' = written
  BY DEF Insert, IInv, ClientsInv, Asking
<1>3. Order \in Requests /\ taskId \in [JobId -> Int]
  BY <1>2, Shape
<1>4. /\ IsFiniteSet(TaskIds(Order)) /\ TaskIds(Order) \subseteq Nat /\ Order.tasks \in Nat
      /\ Order.tasks = Cardinality(TaskIds(Order))
      /\ Order.tasks = 0 => TaskIds(Order) = {}
  BY <1>3, Tasks
<1>5. IsArray <=> Order.tasks > 0
  BY DEF IsArray, Order
<1>6. daemon.left \subseteq TaskIds(Order)
  BY <1>2 DEF InsertInv, Growing
<1>7. /\ daemon' \in [pc : Phase, client : Clients \cup {NoClient}, first : {0} \cup JobId,
                      job : {0} \cup JobId, left : SUBSET Nat]
      /\ daemon'.pc = "paths" /\ daemon'.job = j /\ daemon'.first = daemon.first
      /\ daemon'.client = daemon.client
      /\ IF Order.tasks = 0 THEN daemon'.left = daemon.left /\ taskId' = taskId
         ELSE \E task \in daemon.left : /\ daemon'.left = daemon.left \ {task}
                                        /\ taskId' = [taskId EXCEPT ![j] = task]
  <2>1. CASE Order.tasks = 0
    <3>1. daemon' = [daemon EXCEPT !.pc = "paths", !.job = j] /\ taskId' = taskId
      BY <1>4, <1>5, <2>1 DEF Insert
    <3>2. QED
      BY <2>1, <3>1, Shape DEF Phase
  <2>2. CASE Order.tasks # 0
    <3>1. IsArray
      BY <1>4, <1>5, <2>2
    <3>2. PICK task \in daemon.left :
             /\ taskId' = [taskId EXCEPT ![j] = task]
             /\ daemon' = [daemon EXCEPT !.pc = "paths", !.job = j, !.left = @ \ {task}]
      BY <3>1 DEF Insert
    <3>3. QED
      BY <2>2, <3>2, Shape DEF Phase
  <2>3. QED
    BY <2>1, <2>2
<1>8. Order' = Order
  BY <1>2, <1>7 DEF Order
<1>9. \A i \in JobId : i \in Rows(jobs') <=> i <= j
  BY <1>1, StoreAssumption DEF Rows, JobId
<1>10. PICK g, rest, r : /\ g = IF daemon.first = 0 THEN j ELSE daemon.first
                        /\ rest = daemon'.left /\ r = Order
  OBVIOUS
<1>11. Growing(g, j, rest, r)' /\ g .. (j - 1) \subseteq written /\ Linked(g, j, daemon.first)'
  <2>1. CASE daemon.first = 0
    <3>1. g = j /\ daemon.left = TaskIds(r)
      BY <1>2, <1>10, <2>1 DEF InsertInv
    <3>2. j .. j = {j} /\ j .. (j - 1) = {}
      BY StoreAssumption DEF JobId
    <3>3. CASE r.tasks = 0
      <4>1. rest = {}
        BY <1>4, <1>7, <1>10, <3>1, <3>3
      <4>2. QED
        BY <1>1, <1>7, <1>8, <1>9, <1>10, <2>1, <3>1, <3>2, <3>3, <4>1, StoreAssumption
        DEF Growing, Linked, JobId
    <3>4. CASE r.tasks # 0
      <4>1. PICK task \in TaskIds(r) : rest = TaskIds(r) \ {task}
                                           /\ taskId'[j] = task
        BY <1>3, <1>7, <1>10, <3>1, <3>4
      <4>2. Cardinality(rest) = r.tasks - 1
        BY <1>4, <1>10, <4>1, FS_RemoveElement
      <4>3. {taskId'[i] : i \in j .. j} = TaskIds(r) \ rest
        BY <3>2, <4>1
      <4>4. QED
        BY <1>1, <1>7, <1>8, <1>9, <1>10, <2>1, <3>1, <3>2, <3>4, <4>1, <4>2, <4>3, StoreAssumption
        DEF Growing, Linked, JobId
    <3>5. QED
      BY <3>3, <3>4
  <2>2. CASE daemon.first # 0
    <3> DEFINE f == daemon.first
    <3>1. PICK l \in JobId : /\ Growing(f, l, daemon.left, r)
                             /\ f .. l \subseteq written /\ Linked(f, l, f)
      BY <1>2, <1>10, <2>2 DEF InsertInv
    <3>2. g = f /\ r.tasks > 0 /\ f \in JobId /\ f <= l
      BY <1>2, <1>10, <2>2, <3>1 DEF InsertInv, Growing
    <3>3. l = j - 1
      BY <1>1, <3>1, StoreAssumption DEF Growing, JobId
    <3> HIDE DEF f
    <3>4. f .. j = (f .. l) \cup {j} /\ j \notin f .. l /\ f .. l \subseteq JobId /\ f <= j
      BY <3>2, <3>3, StoreAssumption DEF JobId
    <3>5. PICK task \in daemon.left : rest = daemon.left \ {task}
                                      /\ taskId' = [taskId EXCEPT ![j] = task]
      BY <1>4, <1>7, <1>10, <3>2
    <3>6. Cardinality(rest) = Cardinality(daemon.left) - 1
      BY <1>4, <1>6, <1>10, <3>5, FS_RemoveElement, FS_Subset
    <3>7. Cardinality(rest) = r.tasks - (j - f + 1)
      BY <3>1, <3>2, <3>3, <3>6, <1>4, <1>10, StoreAssumption DEF Growing, JobId
    <3>8. {taskId'[i] : i \in f .. j} = TaskIds(r) \ rest
      <4>1. \A i \in f .. l : taskId'[i] = taskId[i]
        BY <1>3, <3>4, <3>5
      <4>2. taskId'[j] = task
        BY <1>3, <3>5
      <4>3. {taskId[i] : i \in f .. l} = TaskIds(r) \ daemon.left
        BY <3>1, <3>2, <1>4, <1>10 DEF Growing
      <4>4. {taskId'[i] : i \in f .. j} = {taskId[i] : i \in f .. l} \cup {task}
        BY <3>4, <4>1, <4>2
      <4>5. QED
        BY <1>6, <1>10, <3>5, <4>3, <4>4
    <3>9. \A i \in f .. j : jobs'[i].req = r /\ jobs'[i].array = f
      BY <1>1, <1>10, <3>1, <3>4 DEF Growing, Linked, f
    <3>10. Growing(f, j, rest, r)'
      <4>1. rest \subseteq TaskIds(r) /\ r.tasks # 0
        BY <1>4, <1>6, <1>10, <3>2, <3>5
      <4>2. QED
        BY <1>7, <1>8, <1>9, <1>10, <3>2, <3>4, <3>7, <3>8, <3>9, <4>1 DEF Growing, f
    <3>11. QED
      BY <1>2, <1>7, <1>10, <3>1, <3>2, <3>3, <3>9, <3>10 DEF Linked, f
  <2>3. QED
    BY <2>1, <2>2
<1>12. PathsInv'
  <2>1. From' = g /\ daemon'.left = rest /\ Order' = r
    BY <1>7, <1>8, <1>10 DEF From
  <2>2. r.tasks = 0 => daemon.first = 0
    BY <1>2, <1>10 DEF InsertInv
  <2>3. QED
    BY <1>2, <1>7, <1>11, <2>1, <2>2 DEF PathsInv, Growing, Linked
<1>13. QED
  BY <1>2, <1>7, <1>12 DEF Creating, DaemonType, InsertInv, LinkInv, PassInv, Asking

(* A row without a task left behind it ends the submission. *)
LEMMA Completes ==
    ASSUME NEW f, NEW l, NEW r \in Requests, Growing(f, l, {}, r)',
           f .. l \subseteq written', Linked(f, l, IF r.tasks = 0 THEN 0 ELSE f)'
    PROVE  Complete(f, r)'
<1>1. /\ f \in JobId /\ l \in JobId /\ f <= l /\ f \in Int /\ l \in Int
      /\ \A j \in f .. l : j \in JobId
  BY StoreAssumption DEF Growing, JobId
<1>2. r.tasks \in Nat
  BY Tasks
<1>3. l = f + RowsNeeded(r) - 1
  BY <1>1, <1>2, FS_EmptySet DEF Growing, RowsNeeded
<1>4. \A j \in f .. l : /\ j \in Rows(jobs') \cap written' /\ jobs'[j].req = r
                        /\ jobs'[j].array = IF r.tasks = 0 THEN 0 ELSE f
  BY <1>1 DEF Growing, Linked
<1>5. r.tasks > 0 => {taskId'[j] : j \in f .. l} = TaskIds(r)
  BY <1>2 DEF Growing
<1>6. QED
  BY <1>1, <1>3, <1>4, <1>5 DEF Complete

(* The next step of a submission whose row is complete. *)
LEMMA PathsCreate ==
    ASSUME IInv, WritePaths
    PROVE  Creating'
<1>1. /\ daemon.pc = "paths" /\ PathsInv /\ Asking /\ daemon.client \in Clients
      /\ client[daemon.client].pc = "asked" /\ client' = client /\ jobs' = jobs
      /\ taskId' = taskId /\ written' = written \cup {daemon.job}
  BY DEF WritePaths, IInv, ClientsInv, Asking
<1>2. PICK g, job, first, left, r :
         /\ g = From /\ job = daemon.job /\ first = daemon.first /\ left = daemon.left /\ r = Order
  OBVIOUS
<1>3. /\ r \in Requests /\ r.tasks \in Nat /\ (IsArray <=> r.tasks > 0)
      /\ g = (IF first = 0 THEN job ELSE first) /\ (r.tasks = 0 => TaskIds(r) = {})
      /\ left \subseteq Nat /\ first \in {0} \cup JobId /\ job \in {0} \cup JobId
  BY <1>1, <1>2, Shape, Tasks DEF IsArray, Order, From
<1>4. Growing(g, job, left, r) /\ g .. (job - 1) \subseteq written /\ Linked(g, job, first)
  BY <1>1, <1>2 DEF PathsInv
<1>5. /\ g \in JobId /\ job \in JobId /\ g <= job /\ 0 \notin JobId /\ JobId \subseteq Int
  BY <1>4, StoreAssumption DEF Growing, JobId
<1>6. g .. job \subseteq written'
  BY <1>1, <1>2, <1>4, <1>5
<1>7. /\ daemon'.pc = Following(first)
      /\ daemon'.first = (IF r.tasks > 0 THEN first ELSE job)
      /\ daemon'.job = job /\ daemon'.left = left /\ daemon'.client = daemon.client
      /\ daemon' \in [pc : {Following(first)}, client : Clients \cup {NoClient},
                      first : {0} \cup JobId, job : {0} \cup JobId, left : SUBSET Nat]
  <2>1. daemon' = [daemon EXCEPT !.pc = Following(first),
                                 !.first = IF r.tasks > 0 THEN first ELSE job]
    BY <1>2, <1>3 DEF WritePaths
  <2>2. QED
    BY <1>2, <1>3, <2>1, Shape
<1>8. Order' = r
  BY <1>1, <1>2, <1>7 DEF Order
<1>9. Growing(g, job, left, r)' /\ Linked(g, job, first)'
  BY <1>1, <1>4 DEF Growing, Linked, Rows
<1>10. CASE r.tasks > 0 /\ first = 0
  <2>1. daemon'.pc = "link"
    BY <1>3, <1>7, <1>10 DEF Following
  <2>2. job .. job = {job}
    BY <1>5
  <2>3. LinkInv'
    BY <1>3, <1>6, <1>7, <1>8, <1>9, <1>10, <2>1, <2>2 DEF LinkInv, Growing, Linked
  <2>4. QED
    BY <1>1, <1>7, <2>1, <2>3
    DEF Creating, DaemonType, InsertInv, PathsInv, PassInv, Asking, Phase
<1>11. CASE r.tasks > 0 /\ first # 0 /\ left # {}
  <2>1. daemon'.pc = "insert"
    BY <1>2, <1>3, <1>7, <1>11 DEF Following
  <2>2. InsertInv'
    BY <1>3, <1>5, <1>6, <1>7, <1>8, <1>9, <1>11, <2>1 DEF InsertInv, Growing, Linked
  <2>3. QED
    BY <1>1, <1>7, <2>1, <2>2
    DEF Creating, DaemonType, LinkInv, PathsInv, PassInv, Asking, Phase
<1>12. CASE ~(r.tasks > 0 /\ first = 0) /\ left = {}
  <2>1. daemon'.pc = "requestPass"
    BY <1>2, <1>3, <1>7, <1>12 DEF Following
  <2>2. daemon'.first = g
    BY <1>3, <1>7, <1>12, <1>4 DEF Growing
  <2>3. r.tasks = 0 => first = 0
    BY <1>1, <1>2 DEF PathsInv
  <2>4. Linked(g, job, IF r.tasks = 0 THEN 0 ELSE g)'
    BY <1>3, <1>9, <1>12, <2>3 DEF Linked
  <2>5. Complete(g, r)'
    <3>1. Growing(g, job, {}, r)'
      BY <1>9, <1>12
    <3>2. QED
      BY <1>3, <1>6, <2>4, <3>1, Completes
  <2>6. PassInv'
    BY <1>8, <2>2, <2>5 DEF PassInv, Complete
  <2>7. QED
    BY <1>1, <1>7, <2>1, <2>6
    DEF Creating, DaemonType, InsertInv, PathsInv, LinkInv, Asking, Phase
<1>13. QED
  BY <1>3, <1>4, <1>10, <1>11, <1>12 DEF Growing

(* The row of the first task learns its array's id. *)
LEMMA LinkCreates ==
    ASSUME IInv, Link
    PROVE  Creating'
<1>1. /\ daemon.pc = "link" /\ LinkInv /\ Asking /\ daemon.client \in Clients
      /\ client[daemon.client].pc = "asked" /\ client' = client
      /\ taskId' = taskId /\ written' = written
  BY DEF Link, IInv, ClientsInv, Asking
<1>2. PICK job, left, r : job = daemon.job /\ left = daemon.left /\ r = Order
  OBVIOUS
<1>3. /\ r \in Requests /\ r.tasks \in Nat /\ r.tasks > 0 /\ IsArray
      /\ left \subseteq Nat /\ job \in JobId
      /\ Growing(job, job, left, r) /\ job \in written
  BY <1>1, <1>2, Shape, Tasks DEF IsArray, Order, LinkInv, Growing
<1>4. /\ jobs'[job].state = jobs[job].state /\ jobs[job].state # "NONE"
      /\ jobs'[job].req = jobs[job].req /\ jobs'[job].array = job
      /\ \A i \in JobId \ {job} : jobs'[i] = jobs[i]
  BY <1>2, LinkFact
<1>5. 0 \notin JobId /\ JobId \subseteq Int
  BY StoreAssumption DEF JobId
<1>6. job .. job = {job}
  BY <1>3, <1>5
<1>7. /\ daemon'.pc = (IF left # {} THEN "insert" ELSE "requestPass")
      /\ daemon'.first = job
      /\ daemon'.job = job /\ daemon'.left = left /\ daemon'.client = daemon.client
      /\ DaemonType'
  <2>1. daemon' = [daemon EXCEPT !.pc = Following(job), !.first = job]
    BY <1>2 DEF Link
  <2>2. Following(job) = IF left # {} THEN "insert" ELSE "requestPass"
    BY <1>2, <1>3, <1>5 DEF Following
  <2>3. QED
    BY <1>2, <1>3, <2>1, <2>2, Shape DEF DaemonType, Phase
<1>8. Order' = r
  BY <1>1, <1>2, <1>7 DEF Order
<1>9. Growing(job, job, left, r)'
  BY <1>1, <1>3, <1>4, <1>6 DEF Growing, Rows
<1>10. Linked(job, job, job)'
  BY <1>4, <1>6 DEF Linked
<1>11. CASE left # {}
  <2>1. InsertInv'
    BY <1>1, <1>3, <1>5, <1>6, <1>7, <1>8, <1>9, <1>10, <1>11 DEF InsertInv, Growing, Linked
  <2>2. QED
    BY <1>1, <1>7, <1>11, <2>1 DEF Creating, LinkInv, PathsInv, PassInv, Asking
<1>12. CASE left = {}
  <2>1. Complete(job, r)'
    <3>1. Growing(job, job, {}, r)'
      BY <1>9, <1>12
    <3>2. Linked(job, job, IF r.tasks = 0 THEN 0 ELSE job)'
      BY <1>3, <1>10
    <3>3. QED
      BY <1>1, <1>3, <1>6, <3>1, <3>2, Completes
  <2>2. PassInv'
    BY <1>7, <1>8, <2>1 DEF PassInv, Complete
  <2>3. QED
    BY <1>1, <1>7, <1>12, <2>2 DEF Creating, InsertInv, LinkInv, PathsInv, Asking
<1>13. QED
  BY <1>11, <1>12

(* The rest of the steps leave the submission alone, or end it. *)
LEMMA DaemonStep ==
    ASSUME IInv, Next
    PROVE  Creating'
<1>1. Creating
  BY DEF IInv, Creating, ClientsInv
<1>2. ASSUME NEW pc \in Phase \ {"insert", "paths", "link", "requestPass"}, daemon' = Goto(pc)
      PROVE  Creating'
  BY <1>2, QuietDaemon
<1>3. ASSUME ~Asking, UNCHANGED daemon
      PROVE  Creating'
  BY <1>1, <1>3 DEF Creating, DaemonType, InsertInv, PathsInv, LinkInv, PassInv, Asking
<1>4. ASSUME NEW c \in Clients, Submit(c) \/ Wait(c) \/ ClientLost(c)
      PROVE  Creating'
  <2>1. CASE Submit(c)
    BY <2>1, SubmitCreates
  <2>2. CASE Wait(c) \/ ClientLost(c)
    BY <1>3, <2>2 DEF Wait, WaitForFirst, WaitForTasks, ClientLost, Serves, Asking
  <2>3. QED
    BY <1>4, <2>1, <2>2
<1>5. ASSUME NEW j \in JobId, CancelWaiting(j) \/ \E outcome \in Outcome : JobEnds(j, outcome)
      PROVE  Creating'
  BY <1>3, <1>5 DEF CancelWaiting, JobEnds, Serves, Asking
<1>6. ASSUME NEW j \in JobId, Launch(j)
      PROVE  Creating'
  <2>1. CASE ~Asking
    BY <1>3, <1>6, <2>1 DEF Launch
  <2>2. CASE Asking
    <3>1. /\ daemon.pc = "requestPass" /\ daemon' = daemon /\ client' = client
          /\ Order \in Requests
      BY <1>6, <2>2, Shape DEF Launch, InPass, Asking
    <3>2. PICK f, r : f = daemon.first /\ r = Order
      OBVIOUS
    <3>3. Complete(f, r)'
      BY <1>1, <3>1, <3>2, CompleteStays DEF Creating, PassInv
    <3>4. Order' = r /\ daemon'.first = f
      BY <3>1, <3>2 DEF Order
    <3>5. PassInv'
      BY <3>3, <3>4 DEF PassInv, Complete
    <3>6. QED
      BY <1>1, <3>1, <3>5 DEF Creating, DaemonType, InsertInv, PathsInv, LinkInv, Asking
  <2>3. QED
    BY <2>1, <2>2
<1>7. ASSUME NEW j \in JobId, Insert(j)
      PROVE  Creating'
  BY <1>7, InsertCreates
<1>8. CASE WritePaths \/ Link
  BY <1>8, PathsCreate, LinkCreates
<1>9. CASE PathsFail \/ PassEnd \/ LoopStep \/ Restart \/ RequestsEnd \/ Crash
           \/ \E j \in JobId : LaunchFails(j)
  BY <1>2, <1>9
  DEF PathsFail, PassEnd, LoopStep, Restart, RequestsEnd, Crash, LaunchFails, Phase
<1>10. QED
  BY <1>4, <1>5, <1>6, <1>7, <1>8, <1>9 DEF Next, Loop, Creation

(***************************************************************************)
(* The clients: their requests and the ids they were answered stay; one    *)
(* that is answered learns the id of a submission that is complete.        *)
(***************************************************************************)
Told(c, pc) ==
    /\ client'[c].pc = pc /\ client'[c].req = client[c].req /\ client'[c].job = client[c].job
    /\ \A d \in Clients \ {c} : client'[d] = client[d]

LEMMA Tells ==
    ASSUME IInv, NEW c \in Clients, NEW pc \in ClientPhase, Tell(c, pc)
    PROVE  /\ client' \in [Clients -> [pc : ClientPhase, job : {0} \cup JobId, req : Requests]]
           /\ Told(c, pc)
BY Shape DEF Tell, Told

(* PassEnd's answer. *)
LEMMA Answers ==
    ASSUME IInv, PassEnd, daemon.pc = "requestPass"
    PROVE  /\ client' \in [Clients -> [pc : ClientPhase, job : {0} \cup JobId, req : Requests]]
           /\ daemon.client \in Clients /\ daemon.first \in JobId
           /\ client'[daemon.client].pc = "waiting" /\ client'[daemon.client].job = daemon.first
           /\ client'[daemon.client].req = Order
           /\ \A d \in Clients \ {daemon.client} : client'[d] = client[d]
<1>1. /\ client \in [Clients -> [pc : ClientPhase, job : {0} \cup JobId, req : Requests]]
      /\ daemon.client \in Clients
  BY Shape DEF Asking
<1>2. daemon.first \in JobId
  BY DEF IInv, PassInv, Complete
<1>3. client' = [client EXCEPT ![daemon.client] =
                            [@ EXCEPT !.pc = "waiting", !.job = daemon.first]]
  BY DEF PassEnd
<1>4. QED
  BY <1>1, <1>2, <1>3 DEF Order, ClientPhase

(* A client's step: nothing, a request or a refusal, the answer, a poll,   *)
(* or the loss of its connection.                                          *)
SameOrder(c) == client'[c].job = client[c].job /\ client'[c].req = client[c].req
Asks(c) ==
    /\ client[c].pc \in {"idle", "asked"} /\ client'[c].pc \in {"asked", "refused"}
    /\ SameOrder(c)
Learns(c) ==
    /\ client'[c].pc = "waiting" /\ client'[c].job = daemon.first /\ daemon.first \in JobId
    /\ client'[c].req = Order /\ Order = client[c].req /\ Complete(daemon.first, Order)
Polls(c) ==
    /\ Wait(c) /\ client[c].pc \in {"waiting", "waitingTasks"}
    /\ client'[c].pc \in {"waitingTasks", "zero", "nonzero"} /\ SameOrder(c)
Loses(c) ==
    /\ client[c].pc \in {"waiting", "waitingTasks"} /\ client'[c].pc = "lost" /\ SameOrder(c)

LEMMA ClientStep ==
    ASSUME IInv, Next
    PROVE  /\ client' \in [Clients -> [pc : ClientPhase, job : {0} \cup JobId, req : Requests]]
           /\ \A c \in Clients :
                 client'[c] = client[c] \/ Asks(c) \/ Learns(c) \/ Polls(c) \/ Loses(c)
<1> DEFINE Typed == client' \in [Clients -> [pc : ClientPhase, job : {0} \cup JobId, req : Requests]]
           Moved(c) == client'[c] = client[c] \/ Asks(c) \/ Learns(c) \/ Polls(c) \/ Loses(c)
           Claim == Typed /\ \A c \in Clients : Moved(c)
<1>1. CASE UNCHANGED client
  BY <1>1, Shape
<1>2. ASSUME NEW c \in Clients, NEW pc \in ClientPhase, Tell(c, pc), Told(c, pc) => Moved(c)
      PROVE  Claim
  BY <1>2, Tells DEF Told
<1>3. ASSUME NEW c \in Clients, Submit(c) \/ Wait(c) \/ ClientLost(c)
      PROVE  Claim
  <2>1. CASE Submit(c)
    BY <1>2, <2>1 DEF Submit, Told, Asks, SameOrder, ClientPhase
  <2>2. CASE ClientLost(c)
    BY <1>2, <2>2 DEF ClientLost, Told, Loses, SameOrder, ClientPhase
  <2>3. CASE Wait(c)
    <3>1. PICK pc : pc \in {"waitingTasks", "zero", "nonzero"} /\ Tell(c, pc)
      BY <2>3 DEF Wait, WaitForFirst, WaitForTasks, Result
    <3>2. client[c].pc \in {"waiting", "waitingTasks"}
      BY <2>3 DEF Wait, WaitForFirst, WaitForTasks
    <3>3. Told(c, pc) => Moved(c)
      BY <2>3, <3>1, <3>2 DEF Told, Polls, SameOrder
    <3>4. QED
      BY <1>2, <3>1, <3>3 DEF ClientPhase
  <2>4. QED
    BY <1>3, <2>1, <2>2, <2>3
<1>4. ASSUME Asking, Tell(daemon.client, "refused")
      PROVE  Claim
  <2>1. PICK c \in Clients : c = daemon.client /\ client[c].pc = "asked"
    BY <1>4 DEF IInv, ClientsInv
  <2>2. Told(c, "refused") => Moved(c)
    BY <2>1 DEF Told, Asks, SameOrder
  <2>3. QED
    BY <1>2, <1>4, <2>1, <2>2 DEF ClientPhase
<1>5. CASE PathsFail \/ Crash \/ \E j \in JobId : LaunchFails(j)
  <2>1. ~Asking => daemon.client = NoClient
    BY DEF IInv, ClientsInv
  <2>2. UNCHANGED client \/ (Asking /\ Tell(daemon.client, "refused"))
    BY <1>5, <2>1 DEF PathsFail, Crash, LaunchFails, Asking, InPass
  <2>3. QED
    BY <1>1, <1>4, <2>2
<1>6. CASE PassEnd
  <2>1. CASE daemon.pc = "pass"
    BY <1>1, <1>6, <2>1 DEF PassEnd
  <2>2. CASE daemon.pc = "requestPass"
    <3>1. PICK c \in Clients : c = daemon.client
      BY <1>6, <2>2, Answers
    <3>2. Complete(daemon.first, Order) /\ Order = client[c].req
      BY <2>2, <3>1 DEF IInv, PassInv, Order
    <3>3. Learns(c)
      BY <1>6, <2>2, <3>1, <3>2, Answers DEF Learns
    <3>4. QED
      BY <1>6, <2>2, <3>1, <3>3, Answers
  <2>3. QED
    BY <1>6, <2>1, <2>2 DEF PassEnd, InPass
<1>7. QED
  BY <1>1, <1>3, <1>5, <1>6
  DEF Next, Loop, Creation, CancelWaiting, JobEnds, LoopStep, Restart, RequestsEnd, WritePaths,
      Link, Insert, Launch

LEMMA ClientsNext ==
    ASSUME IInv, Next
    PROVE  ClientsInv' /\ AnsweredInv'
<1>1. /\ Asking' => daemon'.client \in Clients /\ client'[daemon'.client].pc = "asked"
      /\ ~Asking' => daemon'.client = NoClient
  BY DaemonStep DEF Creating
<1>2. ASSUME NEW c \in Clients
      PROVE  /\ client'[c].pc \in {"waiting", "waitingTasks", "zero", "nonzero", "lost"}
                <=> client'[c].job # 0
             /\ client'[c].job # 0 =>
                    \/ /\ client[c].job # 0 /\ client'[c].job = client[c].job
                       /\ client'[c].req = client[c].req
                    \/ Learns(c)
  <2>1. client[c].pc \in {"waiting", "waitingTasks", "zero", "nonzero", "lost"}
          <=> client[c].job # 0
    BY DEF IInv, ClientsInv, Answered
  <2>2. 0 \notin JobId
    BY StoreAssumption DEF JobId
  <2>3. QED
    BY <2>1, <2>2, ClientStep DEF Asks, Learns, Polls, Loses, SameOrder
<1>3. ASSUME NEW c \in Clients, client'[c].job # 0
      PROVE  Complete(client[c].job, client[c].req)'
  <2>1. PICK f, r : /\ f = client'[c].job /\ r = client'[c].req
    OBVIOUS
  <2>2. Complete(f, r)
    BY <1>2, <1>3, <2>1 DEF IInv, AnsweredInv, Learns
  <2>3. r \in Requests
    BY <2>1, ClientStep
  <2>4. Complete(f, r)'
    BY <2>2, <2>3, CompleteStays
  <2>5. QED
    BY <2>1, <2>4 DEF Complete
<1>4. QED
  BY <1>1, <1>2, <1>3 DEF ClientsInv, Answered, AnsweredInv

----------------------------------------------------------------------------
(* The table *)

LEMMA TableNext ==
    ASSUME IInv, Next
    PROVE  TypeOK' /\ PrefixInv'
<1>1. /\ crashes \in 0 .. MaxCrashes /\ errors \in 0 .. MaxErrors
      /\ MaxCrashes \in Nat /\ MaxErrors \in Nat
  BY SubmissionAssumption DEF IInv, TypeOK
<1>2. crashes' \in 0 .. MaxCrashes /\ errors' \in 0 .. MaxErrors
  <2>1. \/ crashes' = crashes
        \/ crashes < MaxCrashes /\ crashes' = crashes + 1
    BY DEF Next, Submit, Wait, WaitForFirst, WaitForTasks, ClientLost, CancelWaiting, JobEnds, Loop,
           Creation, WritePaths, Link, Insert, PassEnd, LoopStep, Restart, Launch, LaunchFails,
           RequestsEnd, PathsFail, Crash, faults
  <2>2. \/ errors' = errors
        \/ errors < MaxErrors /\ errors' = errors + 1
    BY DEF Next, Submit, Wait, WaitForFirst, WaitForTasks, ClientLost, CancelWaiting, JobEnds, Loop,
           Creation, WritePaths, Link, Insert, PassEnd, LoopStep, Restart, Launch, LaunchFails,
           RequestsEnd, PathsFail, Crash, faults
  <2>3. QED
    BY <1>1, <2>1, <2>2
<1>3. TypeOK'
  BY <1>2, TableStep, ClientStep, DaemonStep DEF TypeOK, Creating, DaemonType
<1>4. ASSUME NEW i \in JobId, NEW j \in JobId, i <= j, j \in Rows(jobs')
      PROVE  i \in Rows(jobs')
  <2>1. ASSUME NEW k \in Rows(jobs)
        PROVE  k \in Rows(jobs')
    BY TableStep DEF RowStays, Rows
  <2>2. CASE j \in Rows(jobs)
    BY <1>4, <2>1, <2>2 DEF IInv, PrefixInv
  <2>3. CASE Insert(j)
    <3>1. i \in Rows(jobs) <=> i < j
      BY <2>3, InsertFact
    <3>2. i = j \/ i < j
      BY <1>4, StoreAssumption DEF JobId
    <3>3. QED
      BY <1>4, <2>1, <3>1, <3>2
  <2>4. QED
    BY <1>4, <2>2, <2>3, TableStep
<1>5. QED
  BY <1>3, <1>4 DEF PrefixInv

(* array_job_id still names the first row of a submission. *)
ArrayRow(t, j) ==
    t[j].array # 0 =>
        /\ t[j].array \in Rows(t)
        /\ t[t[j].array].array = t[j].array
        /\ t[t[j].array].req = t[j].req
        /\ t[j].array <= j /\ j < t[j].array + t[j].req.tasks

LEMMA ArrayNext ==
    ASSUME IInv, Next
    PROVE  ArrayInv'
<1>1. \A j \in Rows(jobs) : ArrayRow(jobs, j)
  BY DEF IInv, ArrayInv, ArrayRow
<1>2. \A j \in Rows(jobs) : RowStays(j) /\ j \in Rows(jobs')
  BY TableStep DEF RowStays, Rows
<1>3. ASSUME NEW j \in Rows(jobs)
      PROVE  ArrayRow(jobs', j)
  <2>1. CASE jobs'[j].array = jobs[j].array
    <3>1. SUFFICES ASSUME jobs[j].array # 0 PROVE ArrayRow(jobs', j)
      BY <2>1 DEF ArrayRow
    <3>2. PICK a : a = jobs[j].array
      OBVIOUS
    <3>3. /\ a \in Rows(jobs) /\ jobs[a].array = a /\ jobs[a].req = jobs[j].req
          /\ a <= j /\ j < a + jobs[j].req.tasks
      BY <1>1, <3>1, <3>2 DEF ArrayRow
    <3>4. jobs'[a].array = a /\ jobs'[a].req = jobs[a].req /\ a \in Rows(jobs')
      BY <1>2, <3>3 DEF RowStays
    <3>5. jobs'[j].req = jobs[j].req
      BY <1>2 DEF RowStays
    <3>6. QED
      BY <2>1, <3>2, <3>3, <3>4, <3>5 DEF ArrayRow
  <2>2. CASE Link /\ j = daemon.job /\ jobs'[j].array = j
    <3>1. Order.tasks > 0 /\ jobs[j].req = Order
      BY <2>2, StoreAssumption DEF Link, IInv, LinkInv, Growing, JobId, Rows
    <3>2. jobs'[j].req = Order /\ j \in Int /\ Order.tasks \in Nat
      <4>1. Order \in Requests
        BY <2>2, Shape DEF Link, Asking
      <4>2. QED
        BY <1>2, <3>1, <4>1, Tasks, StoreAssumption DEF RowStays, Rows, JobId
    <3>3. QED
      BY <1>2, <2>2, <3>1, <3>2 DEF ArrayRow
  <2>3. QED
    BY <1>2, <2>1, <2>2 DEF RowStays
<1>4. ASSUME NEW j \in JobId, Insert(j)
      PROVE  ArrayRow(jobs', j)
  <2>1. /\ jobs'[j].req = Order /\ jobs'[j].array = daemon.first
        /\ \A i \in JobId \ {j} : jobs'[i] = jobs[i]
        /\ \A i \in JobId : i \in Rows(jobs) <=> i < j
    BY <1>4, InsertFact
  <2>2. SUFFICES ASSUME daemon.first # 0 PROVE ArrayRow(jobs', j)
    BY <2>1 DEF ArrayRow
  <2>3. PICK f, left, r : f = daemon.first /\ left = daemon.left /\ r = Order
    OBVIOUS
  <2>4. PICK l \in JobId : Growing(f, l, left, r) /\ Linked(f, l, f) /\ left # {} /\ r.tasks > 0
    BY <1>4, <2>2, <2>3 DEF Insert, IInv, InsertInv
  <2>5. r \in Requests
    BY <1>4, <2>3, Shape DEF Insert, Asking
  <2>6. IsFiniteSet(left) /\ r.tasks \in Nat
    BY <2>4, <2>5, Tasks, FS_Subset DEF Growing
  <2>7. Cardinality(left) \in Nat /\ Cardinality(left) # 0
    BY <2>4, <2>6, FS_CardinalityType, FS_EmptySet
  <2>8. f \in JobId /\ l = j - 1 /\ f <= l /\ Cardinality(left) = r.tasks - (l - f + 1)
    BY <2>1, <2>4, <2>6, StoreAssumption DEF Growing, JobId
  <2>9. f <= j /\ j < f + r.tasks /\ f # j /\ f \in f .. l
    BY <2>6, <2>7, <2>8, StoreAssumption DEF JobId
  <2>10. jobs[f].array = f /\ jobs[f].req = r
    BY <2>4, <2>9 DEF Growing, Linked
  <2>11. jobs'[f] = jobs[f] /\ f \in Rows(jobs')
    <3>1. f \in Rows(jobs)
      BY <2>4, <2>8, <2>9 DEF Growing
    <3>2. QED
      BY <1>2, <2>1, <2>8, <2>9, <3>1
  <2>12. QED
    BY <2>1, <2>3, <2>9, <2>10, <2>11 DEF ArrayRow
<1>5. \A j \in Rows(jobs') : ArrayRow(jobs', j)
  <2>1. \A j \in Rows(jobs') : j \in JobId /\ (j \in Rows(jobs) \/ Insert(j))
    BY TableStep DEF Rows
  <2>2. QED
    BY <1>3, <1>4, <2>1
<1>6. QED
  BY <1>5 DEF ArrayInv, ArrayRow

----------------------------------------------------------------------------
(* sbatch --wait *)

(* The rows of an answered client, and what the query by array_job_id      *)
(* finds: the same rows.                                                   *)
LEMMA Entries ==
    ASSUME IInv, NEW c \in Clients, client[c].job # 0
    PROVE  /\ client[c].job \in RowsOf(c) /\ RowsOf(c) \subseteq Rows(jobs)
           /\ jobs[client[c].job].req = client[c].req
           /\ client[c].req.tasks = 0 =>
                  jobs[client[c].job].array = 0 /\ RowsOf(c) = {client[c].job}
           /\ client[c].req.tasks > 0 =>
                  /\ jobs[client[c].job].array = client[c].job
                  /\ {j \in Rows(jobs) : jobs[j].array = client[c].job} = RowsOf(c)
           /\ client[c].req.tasks = 1 => RowsOf(c) = {client[c].job}
           /\ client[c].req.tasks \in Nat
<1>1. PICK f, r, S : f = client[c].job /\ r = client[c].req /\ S = f .. f + RowsNeeded(r) - 1
  OBVIOUS
<1>2. r \in Requests /\ r.tasks \in Nat
  BY <1>1, Shape, Tasks
<1>3. Complete(f, r)
  BY <1>1 DEF IInv, AnsweredInv
<1>4. f \in JobId /\ f # 0 /\ f \in Int
  BY <1>3, StoreAssumption DEF Complete, JobId
<1>5. f \in S /\ (r.tasks = 0 \/ r.tasks = 1 => S = {f})
  BY <1>1, <1>2, <1>4 DEF RowsNeeded
<1>6. \A j \in S : /\ j \in Rows(jobs) /\ jobs[j].req = r
                   /\ jobs[j].array = IF r.tasks = 0 THEN 0 ELSE f
  BY <1>1, <1>3 DEF Complete
<1>7. ASSUME r.tasks > 0, NEW j \in Rows(jobs), jobs[j].array = f
      PROVE  j \in S
  <2>1. /\ jobs[f].req = jobs[j].req /\ f <= j /\ j < f + jobs[j].req.tasks
    BY <1>4, <1>7 DEF IInv, ArrayInv
  <2>2. j \in Int /\ jobs[j].req = r
    BY <1>5, <1>6, <2>1, StoreAssumption DEF Rows, JobId
  <2>3. QED
    BY <1>1, <1>2, <1>4, <1>7, <2>1, <2>2 DEF RowsNeeded
<1>8. QED
  BY <1>1, <1>2, <1>5, <1>6, <1>7 DEF RowsOf

(* The row found first decides: the last one that is not COMPLETED. *)
LEMMA ResultFact ==
    ASSUME IInv, NEW S \in SUBSET JobId
    PROVE  /\ Result(S) \in {"zero", "nonzero"}
           /\ Result(S) = "zero" =>
                 \A j \in S : \/ jobs[j].state = "COMPLETED"
                             \/ \E k \in S : j <= k /\ StoppedWithZero(k)
           /\ Result(S) = "nonzero" => \E j \in S : jobs[j].state # "COMPLETED"
<1> DEFINE N == NotCompleted(S)
<1>1. N \subseteq S /\ \A j \in S : j \in N <=> jobs[j].state # "COMPLETED"
  BY DEF NotCompleted
<1>2. Result(S) = IF \A j \in N : (\E k \in N : k > j) \/ code[j] = "zero" THEN "zero" ELSE "nonzero"
  BY DEF Result
<1> HIDE DEF N
<1>3. ASSUME Result(S) = "zero", NEW i \in N
      PROVE  \E k \in S : i <= k /\ StoppedWithZero(k)
  <2>1. PICK j \in N : \A k \in N : k <= j
    BY <1>1, <1>3, LastRow
  <2>2. j \in JobId /\ \A k \in N : ~(k > j)
    BY <1>1, <2>1, StoreAssumption DEF JobId
  <2>3. code[j] = "zero"
    BY <1>2, <1>3, <2>2
  <2>4. jobs[j].state \in {"COMPLETED"} \cup StoppedState
    BY <2>2, <2>3 DEF IInv, CodeInv
  <2>5. QED
    BY <1>1, <1>3, <2>1, <2>3, <2>4 DEF StoppedWithZero
<1>4. QED
  BY <1>1, <1>2, <1>3

(* A client that has exited was told the truth, and stays so. *)
LEMMA WaitNext ==
    ASSUME IInv, Next
    PROVE  WaitInv' /\ WaitIsHonest'
<1> DEFINE Ended(c, pc, r, S, t, codes) ==
               /\ pc = "waitingTasks" => r.tasks > 1
               /\ pc \in {"zero", "nonzero"} => \A j \in S : t[j].state \in Terminal
               /\ pc = "zero" =>
                     \A j \in S :
                        \/ t[j].state = "COMPLETED"
                        \/ \E k \in S : /\ j <= k /\ t[k].state \in StoppedState
                                       /\ codes[k] = "zero"
               /\ pc = "nonzero" => \E j \in S : t[j].state # "COMPLETED"
<1>1. \A c \in Clients : Ended(c, client[c].pc, client[c].req, RowsOf(c), jobs, code)
  BY DEF IInv, WaitInv, WaitIsHonest, StoppedWithZero
<1>2. ASSUME NEW c \in Clients, NEW S, S = RowsOf(c), client'[c] = client[c]
      PROVE  Ended(c, client'[c].pc, client'[c].req, S, jobs', code')
  <2>1. CASE client[c].pc \in {"zero", "nonzero"}
    <3>1. client[c].job # 0
      BY <2>1 DEF IInv, ClientsInv, Answered
    <3>2. \A j \in S : j \in Rows(jobs) /\ jobs[j].state \in Terminal
      BY <1>1, <1>2, <2>1, <3>1, Entries
    <3>3. \A j \in S : jobs'[j].state = jobs[j].state /\ code'[j] = code[j]
      BY <3>2, TableStep DEF RowStays
    <3>4. QED
      BY <1>1, <1>2, <3>2, <3>3
  <2>2. CASE client[c].pc \notin {"zero", "nonzero"}
    BY <1>1, <1>2, <2>2
  <2>3. QED
    BY <2>1, <2>2
<1>3. ASSUME NEW c \in Clients, NEW S, S = RowsOf(c), Polls(c)
      PROVE  Ended(c, client'[c].pc, client'[c].req, S, jobs', code')
  <2>1. client[c].job # 0 /\ client'[c].req = client[c].req /\ jobs' = jobs /\ code' = code
    BY <1>3 DEF IInv, ClientsInv, Answered, Polls, SameOrder, Wait, WaitForFirst, WaitForTasks, table
  <2>2. PICK f, r : f = client[c].job /\ r = client[c].req
    OBVIOUS
  <2>3. /\ f \in S /\ S \subseteq Rows(jobs) /\ jobs[f].req = r /\ r.tasks \in Nat
        /\ r.tasks = 0 => jobs[f].array = 0 /\ S = {f}
        /\ r.tasks > 0 => jobs[f].array = f /\ {j \in Rows(jobs) : jobs[j].array = f} = S
        /\ r.tasks = 1 => S = {f}
    BY <1>3, <2>1, <2>2, Entries
  <2>4. ASSUME \A j \in S : jobs[j].state \in Terminal, Tell(c, Result(S))
        PROVE  Ended(c, client'[c].pc, client'[c].req, S, jobs', code')
    <3>1. S \subseteq JobId /\ Result(S) \in ClientPhase /\ Result(S) # "waitingTasks"
      BY <2>3, ResultFact DEF Rows, ClientPhase
    <3>2. client'[c].pc = Result(S)
      BY <2>4, <3>1, Tells DEF Told
    <3>3. QED
      BY <2>1, <2>4, <3>1, <3>2, ResultFact DEF StoppedWithZero
  <2>5. CASE WaitForFirst(c)
    <3>1. jobs[f].state \in Terminal
      BY <2>2, <2>5 DEF WaitForFirst
    <3>2. CASE jobs[f].array = f /\ r.tasks > 1
      <4>1. Tell(c, "waitingTasks")
        BY <2>2, <2>3, <2>5, <3>2 DEF WaitForFirst
      <4>2. client'[c].pc = "waitingTasks"
        BY <4>1, Tells DEF Told, ClientPhase
      <4>3. QED
        BY <2>1, <2>2, <3>2, <4>2
    <3>3. CASE ~(jobs[f].array = f /\ r.tasks > 1)
      <4>1. S = {f}
        BY <2>3, <3>3
      <4>2. Tell(c, Result(S))
        BY <2>2, <2>3, <2>5, <3>3, <4>1 DEF WaitForFirst
      <4>3. QED
        BY <2>4, <3>1, <4>1, <4>2
    <3>4. QED
      BY <3>2, <3>3
  <2>6. CASE WaitForTasks(c)
    <3>1. r.tasks > 1
      BY <1>1, <2>2, <2>6 DEF WaitForTasks
    <3>2. S = {j \in Rows(jobs) : jobs[j].array = f}
      BY <2>3, <3>1
    <3>3. QED
      BY <2>2, <2>4, <2>6, <3>2 DEF WaitForTasks
  <2>7. QED
    BY <1>3, <2>5, <2>6 DEF Polls, Wait
<1>4. ASSUME NEW c \in Clients, NEW S, S = RowsOf(c)'
      PROVE  Ended(c, client'[c].pc, client'[c].req, S, jobs', code')
  <2>1. CASE client'[c] = client[c] \/ Polls(c)
    <3>1. S = RowsOf(c)
      BY <1>4, <2>1 DEF RowsOf, Polls, SameOrder
    <3>2. QED
      BY <1>2, <1>3, <2>1, <3>1
  <2>2. CASE Asks(c) \/ Learns(c) \/ Loses(c)
    BY <2>2 DEF Asks, Learns, Loses
  <2>3. QED
    BY <2>1, <2>2, ClientStep
<1>5. QED
  BY <1>4 DEF WaitInv, WaitIsHonest, StoppedWithZero

----------------------------------------------------------------------------
(* The theorems *)

LEMMA StepHolds == IInv /\ [Next]_vars => IInv'
<1>1. ASSUME IInv, Next
      PROVE  IInv'
  BY <1>1, TableNext, ClientsNext, DaemonStep, ArrayNext, WaitNext, TableStep
  DEF IInv, Creating
<1>2. ASSUME IInv, UNCHANGED vars
      PROVE  IInv'
  <2>1. /\ jobs' = jobs /\ written' = written /\ taskId' = taskId /\ code' = code
        /\ daemon' = daemon /\ client' = client /\ crashes' = crashes /\ errors' = errors
    BY <1>2 DEF vars
  <2>2. (TypeOK /\ DaemonType /\ ClientsInv /\ PrefixInv /\ CodeInv /\ ArrayInv)'
    BY <1>2, <2>1 DEF IInv, TypeOK, DaemonType, ClientsInv, PrefixInv, CodeInv, ArrayInv, Asking,
                      Answered, Rows
  <2>3. (InsertInv /\ PathsInv /\ LinkInv)'
    BY <1>2, <2>1 DEF IInv, InsertInv, PathsInv, LinkInv, Order, From, Growing, Linked, Rows
  <2>4. (PassInv /\ AnsweredInv)'
    BY <1>2, <2>1 DEF IInv, PassInv, AnsweredInv, Order, Complete, Rows
  <2>5. (WaitInv /\ WaitIsHonest)'
    BY <1>2, <2>1 DEF IInv, WaitInv, WaitIsHonest, RowsOf, StoppedWithZero
  <2>6. QED
    BY <2>2, <2>3, <2>4, <2>5 DEF IInv
<1>3. QED
  BY <1>1, <1>2

(* The inductive invariant holds in every state. *)
THEOREM Inductive == Spec => []IInv
<1>1. IInv /\ [Next]_vars => IInv'
  BY StepHolds
<1>2. QED
  BY InitHolds, <1>1, PTL DEF Spec

(* Every variable has its type, throughout. *)
THEOREM TypeCorrect == Spec => []TypeOK
<1>1. IInv => TypeOK
  BY DEF IInv
<1>2. QED
  BY Inductive, <1>1, PTL

(* Whatever crashes and errors interrupt other submissions: the rows of    *)
(* the one a client was answered are all there, one for each id of its     *)
(* array specification, with their scripts and linked to the first         *)
(* (create_job_entry, create_array_jobs).                                  *)
THEOREM AnsweredMeansComplete == Spec => []AnsweredIsComplete
<1>1. IInv => AnsweredIsComplete
  <2> DEFINE Whole(f, r, S) ==
                 /\ \A j \in S :
                       /\ j \in Rows(jobs) \cap written /\ jobs[j].req = r
                       /\ jobs[j].array = IF r.tasks = 0 THEN 0 ELSE f
                 /\ r.tasks > 0 =>
                       {taskId[j] : j \in S} =
                          UNION {{s.first + k * s.step : k \in 0 .. (s.last - s.first) \div s.step}
                                 : s \in Segments[r]}
  <2>1. ASSUME IInv, NEW c \in Clients, client[c].job # 0
        PROVE  Whole(client[c].job, client[c].req, RowsOf(c))
    <3>1. Complete(client[c].job, client[c].req) /\ client[c].req \in Requests
      BY <2>1, Shape DEF IInv, AnsweredInv
    <3>2. PICK f, r : f = client[c].job /\ r = client[c].req
      OBVIOUS
    <3>3. Whole(f, r, f .. f + RowsNeeded(r) - 1)
      BY <3>1, <3>2, Tasks DEF Complete
    <3>4. QED
      BY <3>2, <3>3 DEF RowsOf
  <2>2. QED
    BY <2>1 DEF AnsweredIsComplete
<1>2. QED
  BY Inductive, <1>1, PTL

(* sbatch --wait exits with 0 only when every task completed or one was    *)
(* stopped and returned 0, and with another code only when one did not     *)
(* complete (wait_for_submission_completion).                              *)
THEOREM WaitTellsTheTruth == Spec => []WaitIsHonest
<1>1. IInv => WaitIsHonest
  BY DEF IInv
<1>2. QED
  BY Inductive, <1>1, PTL
=============================================================================
