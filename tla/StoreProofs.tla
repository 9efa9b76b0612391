---------------------------- MODULE StoreProofs ----------------------------
(***************************************************************************)
(* What the store's updates do to a table, for every value of the          *)
(* constants: the lemmas the proofs about the state machines cite          *)
(* instead of expanding the updates.                                       *)
(***************************************************************************)
EXTENDS Store, FiniteSetTheorems, WellFoundedInduction, TLAPS

(* Natural numbers are well ordered; induction over them is a minimal      *)
(* counterexample.                                                         *)
LEMMA LeastNumber ==
    ASSUME NEW T \in SUBSET Nat, T # {}
    PROVE  \E m \in T : \A n \in T : m <= n
<1> DEFINE Below == {0 .. n : n \in T}
<1>1. Below \subseteq FiniteSubsetsOf(Nat)
  <2>1. \A n \in T : IsFiniteSet(0 .. n) /\ 0 .. n \subseteq Nat
    BY FS_Interval
  <2>2. QED
    BY <2>1 DEF FiniteSubsetsOf
<1>2. Below # {}
  OBVIOUS
<1> HIDE DEF Below
<1>3. PICK S \in Below : \A R \in Below : <<R, S>> \notin StrictSubsetOrdering(Nat)
  BY <1>1, <1>2, FS_StrictSubsetOrderingWellFounded, WFMin
<1>4. PICK m \in T : S = 0 .. m
  BY DEF Below
<1>5. ASSUME NEW n \in T, n < m
      PROVE  FALSE
  <2>1. 0 .. n \in Below
    BY DEF Below
  <2>2. 0 .. n \subseteq 0 .. m /\ 0 .. n # 0 .. m
    BY <1>5
  <2>3. <<0 .. n, S>> \in StrictSubsetOrdering(Nat)
    BY <1>4, <2>2 DEF StrictSubsetOrdering
  <2>4. QED
    BY <1>3, <2>1, <2>3
<1>6. QED
  BY <1>5

(* A set of rows that is not empty has one with the largest id. *)
LEMMA LastRow ==
    ASSUME NEW S \in SUBSET JobId, S # {}
    PROVE  \E j \in S : \A k \in S : k <= j
<1> DEFINE Rest(j) == MaxJobs - j
           T == {Rest(j) : j \in S}
<1>1. \A j \in S : j \in Int /\ Rest(j) \in Nat
  BY StoreAssumption DEF JobId
<1> HIDE DEF Rest
<1>2. T \subseteq Nat /\ T # {}
  BY <1>1
<1>3. PICK m \in T : \A n \in T : m <= n
  BY <1>2, LeastNumber
<1>4. PICK j \in S : m = Rest(j)
  OBVIOUS
<1>5. \A k \in S : Rest(j) <= Rest(k)
  BY <1>3, <1>4
<1>6. QED
  BY <1>1, <1>5, StoreAssumption DEF Rest

(* Only a row that exists has a state other than NONE. *)
LEMMA RowExists ==
    ASSUME NEW t \in Table, NEW j \in JobId, t[j].state # "NONE"
    PROVE  t[j] \in Row
BY DEF Table, NoRow

(* A row's columns have the types of the schema. *)
LEMMA RowColumns ==
    ASSUME NEW row \in Row
    PROVE  /\ row.state \in State /\ row.state # "NONE"
           /\ row.req \in Requests
           /\ row.requeues \in Nat
           /\ row.group \in Groups \cup {NoGroup}
           /\ row.parent \in {0} \cup JobId
BY DEF Row, State, Terminal

(* mark_state changes the state of one row and nothing else. *)
LEMMA MarkStateFact ==
    ASSUME NEW t \in Table, NEW j \in JobId, t[j] \in Row, NEW s \in State
    PROVE  /\ MarkState(t, j, s) \in Table
           /\ MarkState(t, j, s)[j].state = s
           /\ MarkState(t, j, s)[j].group = t[j].group
           /\ MarkState(t, j, s)[j].started = t[j].started
           /\ MarkState(t, j, s)[j].req = t[j].req
           /\ MarkState(t, j, s)[j].requeues = t[j].requeues
           /\ MarkState(t, j, s)[j].parent = t[j].parent
           /\ \A i \in JobId \ {j} : MarkState(t, j, s)[i] = t[i]
<1> DEFINE row == [t[j] EXCEPT !.state = s]
<1>1. /\ row \in Row /\ row.state = s /\ row.group = t[j].group
      /\ row.started = t[j].started /\ row.req = t[j].req /\ row.requeues = t[j].requeues
      /\ row.parent = t[j].parent
  BY DEF Row
<1>2. MarkState(t, j, s) = [t EXCEPT ![j] = row]
  BY DEF MarkState
<1> HIDE DEF row
<1>3. QED
  BY <1>1, <1>2 DEF Table

(* mark_running records the group of a row and makes it RUNNING. *)
LEMMA MarkRunningFact ==
    ASSUME NEW t \in Table, NEW j \in JobId, t[j] \in Row,
           NEW g \in Groups \cup {NoGroup}, NEW ids \in SUBSET GpuId
    PROVE  /\ MarkRunning(t, j, g, ids) \in Table
           /\ MarkRunning(t, j, g, ids)[j].state = "RUNNING"
           /\ MarkRunning(t, j, g, ids)[j].group = g
           /\ MarkRunning(t, j, g, ids)[j].req = t[j].req
           /\ MarkRunning(t, j, g, ids)[j].requeues = t[j].requeues
           /\ MarkRunning(t, j, g, ids)[j].parent = t[j].parent
           /\ \A i \in JobId \ {j} : MarkRunning(t, j, g, ids)[i] = t[i]
<1> DEFINE row == [t[j] EXCEPT !.state = "RUNNING", !.group = g, !.started = TRUE,
                               !.gpuIds = ids]
<1>1. /\ row \in Row /\ row.state = "RUNNING" /\ row.group = g
      /\ row.req = t[j].req /\ row.requeues = t[j].requeues
      /\ row.parent = t[j].parent
  BY DEF Row, State
<1>2. MarkRunning(t, j, g, ids) = [t EXCEPT ![j] = row]
  BY DEF MarkRunning
<1> HIDE DEF row
<1>3. QED
  BY <1>1, <1>2 DEF Table

(* Both rows mark_finished may write are rows. *)
LEMMA FinishedRow ==
    ASSUME NEW row \in Row, NEW final \in Terminal
    PROVE  Finished(row, final) \in Row /\ Requeued(row) \in Row
<1>1. row.requeues + 1 \in Nat
  BY DEF Row
<1>2. Requeued(row) \in Row
  BY <1>1 DEF Requeued, Row, State
<1>3. Finished(row, final) \in Row
  BY DEF Finished, Row, State
<1>4. QED
  BY <1>2, <1>3

(* mark_finished leaves the row with its final state, or PENDING again     *)
(* with one requeue more.                                                  *)
LEMMA MarkFinishedFact ==
    ASSUME NEW t \in Table, NEW j \in JobId, t[j] \in Row, NEW final \in Terminal
    PROVE  /\ MarkFinished(t, j, final) \in Table
           /\ MarkFinished(t, j, final)[j] =
                IF ShouldAutoRequeue(t[j], final) THEN Requeued(t[j]) ELSE Finished(t[j], final)
           /\ \A i \in JobId \ {j} : MarkFinished(t, j, final)[i] = t[i]
BY FinishedRow DEF MarkFinished, Table

(* The columns mark_finished leaves alone, and those it sets. *)
LEMMA FinishedColumns ==
    ASSUME NEW row \in Row, NEW final \in Terminal
    PROVE  /\ Finished(row, final).state = final
           /\ Finished(row, final).req = row.req
           /\ Finished(row, final).requeues = row.requeues
           /\ Finished(row, final).parent = row.parent
           /\ Requeued(row).state = "PENDING"
           /\ Requeued(row).req = row.req
           /\ Requeued(row).requeues = row.requeues + 1
           /\ Requeued(row).parent = row.parent
BY DEF Finished, Requeued, Row

(* The columns of a run: a requeued row lets go of its group. *)
LEMMA FinishedRun ==
    ASSUME NEW row \in Row, NEW final \in Terminal
    PROVE  /\ Finished(row, final).group = row.group
           /\ Finished(row, final).started = row.started
           /\ Requeued(row).group = NoGroup
           /\ ~Requeued(row).started
BY DEF Finished, Requeued, Row

(* create_job of a batch job that is no array inserts one PENDING row. *)
LEMMA CreateJobFact ==
    ASSUME NEW t \in Table, NEW j \in JobId, NEW r \in Requests, r.tasks = 0
    PROVE  /\ CreateJob(t, j, r) \in Table
           /\ CreateJob(t, j, r)[j] = PendingRow(r, 0)
           /\ \A i \in JobId \ {j} : CreateJob(t, j, r)[i] = t[i]
<1>1. PendingRow(r, 0) \in Row
  BY RequestAssumption DEF PendingRow, Row, State, Request
<1>2. \A i \in JobId : i \in j .. j + RowsNeeded(r) - 1 <=> i = j
  BY StoreAssumption DEF RowsNeeded, JobId
<1>3. QED
  BY <1>1, <1>2 DEF CreateJob, Table

(* mark_allocation_running leaves the group alone, adopt_allocation the    *)
(* state.                                                                  *)
LEMMA MarkAllocationRunningFact ==
    ASSUME NEW t \in Table, NEW j \in JobId, t[j] \in Row
    PROVE  /\ MarkAllocationRunning(t, j) \in Table
           /\ MarkAllocationRunning(t, j)[j].state = "RUNNING"
           /\ MarkAllocationRunning(t, j)[j].group = t[j].group
           /\ \A i \in JobId \ {j} : MarkAllocationRunning(t, j)[i] = t[i]
<1> DEFINE row == [t[j] EXCEPT !.state = "RUNNING", !.started = TRUE]
<1>1. row \in Row /\ row.state = "RUNNING" /\ row.group = t[j].group
  BY DEF Row, State
<1>2. MarkAllocationRunning(t, j) = [t EXCEPT ![j] = row]
  BY DEF MarkAllocationRunning
<1> HIDE DEF row
<1>3. QED
  BY <1>1, <1>2 DEF Table

LEMMA AdoptAllocationFact ==
    ASSUME NEW t \in Table, NEW j \in JobId, t[j] \in Row, NEW g \in Groups \cup {NoGroup}
    PROVE  /\ AdoptAllocation(t, j, g) \in Table
           /\ AdoptAllocation(t, j, g)[j].state = t[j].state
           /\ AdoptAllocation(t, j, g)[j].group = g
           /\ \A i \in JobId \ {j} : AdoptAllocation(t, j, g)[i] = t[i]
<1> DEFINE row == [t[j] EXCEPT !.group = g]
<1>1. row \in Row /\ row.state = t[j].state /\ row.group = g
  BY DEF Row
<1>2. AdoptAllocation(t, j, g) = [t EXCEPT ![j] = row]
  BY DEF AdoptAllocation
<1> HIDE DEF row
<1>3. QED
  BY <1>1, <1>2 DEF Table

(* create_step inserts one RUNNING row under its parent. *)
LEMMA CreateStepFact ==
    ASSUME NEW t \in Table, NEW j \in JobId, NEW p \in JobId, t[p] \in Row, NEW name \in STRING
    PROVE  /\ CreateStep(t, j, p, name) \in Table
           /\ CreateStep(t, j, p, name)[j].state = "RUNNING"
           /\ CreateStep(t, j, p, name)[j].group = NoGroup
           /\ \A i \in JobId \ {j} : CreateStep(t, j, p, name)[i] = t[i]
<1> DEFINE row == StepRow(t, p, name)
<1> DEFINE q == PendingRow(t[p].req, 0)
<1>1. t[p].partition \in STRING /\ t[p].req \in Requests
  BY DEF Row
<1>2. q \in Row /\ q.group = NoGroup
  BY <1>1, RequestAssumption DEF PendingRow, Row, State, Request
<1>3. row \in Row /\ row.state = "RUNNING" /\ row.group = NoGroup
  <2>1. row = [q EXCEPT !.state = "RUNNING", !.name = name, !.parent = p,
                        !.partition = t[p].partition, !.started = TRUE]
    BY DEF StepRow
  <2> HIDE DEF q, row
  <2>2. QED
    BY <1>1, <1>2, <2>1 DEF Row, State
<1>4. CreateStep(t, j, p, name) = [t EXCEPT ![j] = row]
  BY DEF CreateStep
<1> HIDE DEF row
<1>5. QED
  BY <1>3, <1>4 DEF Table

(* Without --requeue the end of a row is final. *)
LEMMA FinalFact ==
    ASSUME NEW t \in Table, NEW j \in JobId, t[j] \in Row, NEW final \in Terminal,
           ~t[j].req.requeue
    PROVE  /\ MarkFinished(t, j, final) \in Table
           /\ MarkFinished(t, j, final)[j].state = final
           /\ MarkFinished(t, j, final)[j].group = t[j].group
           /\ \A i \in JobId \ {j} : MarkFinished(t, j, final)[i] = t[i]
<1>1. ~ShouldAutoRequeue(t[j], final)
  BY DEF ShouldAutoRequeue
<1>2. MarkFinished(t, j, final)[j] = Finished(t[j], final)
  BY <1>1, MarkFinishedFact
<1>3. Finished(t[j], final).state = final /\ Finished(t[j], final).group = t[j].group
  BY FinishedColumns, FinishedRun
<1>4. QED
  BY <1>2, <1>3, MarkFinishedFact
=============================================================================
