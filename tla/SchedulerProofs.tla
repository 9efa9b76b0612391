-------------------------- MODULE SchedulerProofs --------------------------
(***************************************************************************)
(* Theorems about Scheduler, for any capacity of the host, any submissions *)
(* and any number of jobs and crashes: running jobs never exceed the host, *)
(* exclusive jobs run alone, GPU ids are never shared and never run out    *)
(* for what admission let in, singletons never overlap, arrays keep their  *)
(* limits, and what a dependency was satisfied by stays true.              *)
(*                                                                         *)
(* An update of the table is quiet when it makes nothing run that did not  *)
(* run before, or starts one job that admission let in.  Both keep the     *)
(* invariant, and every action is one of the two.                          *)
(***************************************************************************)
EXTENDS Scheduler, StoreProofs, FiniteSetTheorems

Active(t) == InState(t, {"RUNNING", "COMPLETING"}) \cap TopLevel(t)
IsSingleton(row) == \E c \in Clauses(row.req) : c.kind = "singleton"

(***************************************************************************)
(* The inductive invariant of the table.                                   *)
(*                                                                         *)
(* Sound: a row that waits holds no GPU ids, so that                       *)
(* mark_allocation_running, which leaves them alone, gives none, and no    *)
(* row holds more than it asked for, or any outside a GPU partition; an    *)
(* allocation has no dependency, so that its row, which a client may bring *)
(* back from a final state to COMPLETING, is no singleton; steps are rows  *)
(* of allocations.                                                         *)
(***************************************************************************)
Sound(row) ==
    /\ row.state = "PENDING" => row.gpuIds = {}
    /\ Cardinality(row.gpuIds) <= row.req.gpus
    /\ row.gpuIds # {} => IsGpuPartition(row.partition)
    /\ row.req.alloc => row.req.dep = <<>>
    /\ row.parent # 0 => row.req.alloc

(* Ids are handed out in order, an array is called after its first row,    *)
(* and the rows of an array have one request.                              *)
WellFormed(t) ==
    /\ t \in Table
    /\ \A j \in Rows(t) : Sound(t[j])
    /\ \A j \in Rows(t) : \A i \in JobId : i < j => i \in Rows(t)
    /\ \A j \in Rows(t) : t[j].array # 0 =>
          t[j].array \in Rows(t) /\ t[t[j].array].array = t[j].array
    /\ \A i, j \in Rows(t) : t[i].array # 0 /\ t[i].array = t[j].array => t[i].req = t[j].req

WithinHost(t) == UsedCpus(t) <= TotalCpus /\ UsedMem(t) <= TotalMem /\ UsedGpus(t) <= TotalGpus
Alone(t) == \A i, j \in RunningTopLevel(t) : t[i].req.exclusive => i = j
IdsApart(t) ==
    \A i, j \in RunningTopLevel(t) : i # j => t[i].gpuIds \cap t[j].gpuIds = {}
GpusPlaced(t) ==
    \A j \in RunningTopLevel(t) : t[j].req.gpus = 0 \/ IsGpuPartition(t[j].partition)
NamesApart(t) ==
    \A i, j \in Active(t) :
        i # j /\ IsSingleton(t[i]) /\ IsSingleton(t[j]) => t[i].name # t[j].name
WithinLimits(t) ==
    \A j \in Rows(t) : t[j].array # 0 /\ t[j].req.limit > 0 =>
        Cardinality(RunningArrayTasks(t, t[j].array)) <= t[j].req.limit

(* what let j start, for the job i of its clause c *)
StillMet(t, c, i) ==
    c.kind \in {"afterok", "afternotok", "afterany"} =>
        /\ i \in Rows(t)
        /\ ~t[i].req.alloc =>
              /\ t[i].state \in Terminal
              /\ c.kind = "afterok" => t[i].state = "COMPLETED"
              /\ c.kind = "afternotok" => t[i].state # "COMPLETED"
DependenciesMet(t) ==
    \A j \in RunningTopLevel(t) : \A c \in Clauses(t[j].req) : \A i \in c.ids : StillMet(t, c, i)

Good(t) ==
    /\ WellFormed(t) /\ WithinHost(t) /\ Alone(t) /\ IdsApart(t) /\ GpusPlaced(t)
    /\ NamesApart(t) /\ WithinLimits(t) /\ DependenciesMet(t)

IInv ==
    /\ TypeOK
    /\ Good(jobs)
    /\ pc = "grace" => /\ ending # NoEnding /\ ending.job \in Rows(jobs)
                       /\ jobs[ending.job].state = "COMPLETING"

----------------------------------------------------------------------------
(* Updates of the table *)

(* i runs in u only as it did in t *)
SameRun(t, u, i) ==
    /\ i \in RunningTopLevel(u) =>
          /\ i \in RunningTopLevel(t)
          /\ u[i].req = t[i].req /\ u[i].gpuIds = t[i].gpuIds
          /\ u[i].partition = t[i].partition
    /\ i \in Active(u) /\ IsSingleton(u[i]) =>
          /\ i \in Active(t)
          /\ u[i].req = t[i].req /\ u[i].name = t[i].name
    /\ i \in Running(u) /\ u[i].array # 0 =>
          i \in Running(t) /\ u[i].array = t[i].array /\ u[i].req = t[i].req

(* rows stay, and a batch job's final state is final *)
Settled(t, u) ==
    \A i \in Rows(t) :
        /\ i \in Rows(u) /\ u[i].req = t[i].req
        /\ t[i].state \in Terminal /\ ~t[i].req.alloc => u[i].state = t[i].state

Quiet(t, u) == Settled(t, u) /\ \A i \in JobId : SameRun(t, u, i)

Starts(t, u, j) ==
    /\ Settled(t, u)
    /\ \A i \in JobId \ {j} : SameRun(t, u, i)
    /\ j \in Rows(t)
    /\ u[j].req = t[j].req /\ u[j].array = t[j].array /\ u[j].name = t[j].name
    /\ u[j].partition = t[j].partition
    /\ Fits(t, j)
    /\ u[j].gpuIds \subseteq FreeGpuIds(t)
    /\ DependencySatisfied(t, j)
    /\ ~AtArrayLimit(t, j)

(* The slots that a set of rows reserves of a column f are finitely many.  *)
LEMMA SlotsFinite ==
    ASSUME NEW S \in SUBSET JobId, NEW f \in [S -> Nat]
    PROVE  IsFiniteSet(UNION {{j} \X (1 .. f[j]) : j \in S})
<1> DEFINE Slots == [j \in S |-> {j} \X (1 .. f[j])]
           All == {Slots[j] : j \in S}
<1>1. IsFiniteSet(S)
  <2>1. IsFiniteSet(1 .. MaxJobs)
    BY StoreAssumption, FS_Interval
  <2>2. QED
    BY <2>1, FS_Subset DEF JobId
<1>2. IsFiniteSet(All)
  <2>1. Slots \in Surjection(S, All)
    BY DEF Surjection
  <2>2. QED
    BY <1>1, <2>1, FS_Surjection
<1>3. ASSUME NEW j \in S PROVE IsFiniteSet(Slots[j])
  <2>1. IsFiniteSet({j})
    BY FS_Singleton
  <2>2. IsFiniteSet(1 .. f[j])
    <3>1. f[j] \in Int
      OBVIOUS
    <3>2. QED
      BY <3>1, FS_Interval
  <2>3. QED
    BY <2>1, <2>2, FS_Product
<1>4. IsFiniteSet(UNION All)
  BY <1>2, <1>3, FS_UNION
<1>5. QED
  BY <1>4

Reserved(S, f) == Cardinality(UNION {{j} \X (1 .. f[j]) : j \in S})

(* The reservations of S do not exceed those of T and one row more.        *)
LEMMA SlotsBound ==
    ASSUME NEW S \in SUBSET JobId, NEW T \in SUBSET JobId, NEW j,
           NEW f \in [S -> Nat], NEW g \in [T -> Nat], NEW n \in Nat,
           \A i \in S \ {j} : i \in T /\ f[i] = g[i],
           j \in S => f[j] = n \/ (j \in T /\ f[j] = g[j])
    PROVE  /\ Reserved(S, f) \in Nat /\ Reserved(T, g) \in Nat
           /\ Reserved(S, f) <= Reserved(T, g) + n
<1> DEFINE F == UNION {{i} \X (1 .. f[i]) : i \in S}
           G == UNION {{i} \X (1 .. g[i]) : i \in T}
           N == {j} \X (1 .. n)
<1>1. IsFiniteSet(F) /\ IsFiniteSet(G)
  BY SlotsFinite
<1>2. IsFiniteSet(N) /\ Cardinality(N) = n
  <2>1. IsFiniteSet({j}) /\ Cardinality({j}) = 1
    BY FS_Singleton
  <2>2. IsFiniteSet(1 .. n) /\ Cardinality(1 .. n) = n
    BY FS_Interval
  <2>3. IsFiniteSet(N) /\ Cardinality(N) = Cardinality({j}) * Cardinality(1 .. n)
    BY <2>1, <2>2, FS_Product
  <2>4. Cardinality(N) = 1 * n
    BY <2>1, <2>2, <2>3
  <2>5. QED
    BY <2>3, <2>4
<1>3. F \subseteq G \cup N
  <2>1. ASSUME NEW x \in F PROVE x \in G \cup N
    <3>1. PICK i \in S : x \in {i} \X (1 .. f[i])
      OBVIOUS
    <3>2. CASE i \in T /\ f[i] = g[i]
      BY <3>1, <3>2
    <3>3. CASE i = j /\ f[j] = n
      BY <3>1, <3>3
    <3>4. QED
      BY <3>2, <3>3
  <2>2. QED
    BY <2>1
<1> HIDE DEF F, G, N
<1>4. /\ Cardinality(F) \in Nat /\ Cardinality(G) \in Nat
      /\ Cardinality(G \cap N) \in Nat
      /\ IsFiniteSet(G \cup N)
      /\ Cardinality(G \cup N) = Cardinality(G) + Cardinality(N) - Cardinality(G \cap N)
  <2>1. IsFiniteSet(G \cap N)
    BY <1>1, FS_Intersection
  <2>2. QED
    BY <1>1, <1>2, <2>1, FS_CardinalityType, FS_Union
<1>5. Cardinality(F) <= Cardinality(G \cup N)
  BY <1>3, <1>4, FS_Subset
<1>6. Cardinality(G \cup N) \in Nat
  BY <1>4, FS_CardinalityType
<1>7. Cardinality(F) \in Nat /\ Cardinality(G) \in Nat /\ Cardinality(F) <= Cardinality(G) + n
  BY <1>2, <1>4, <1>5, <1>6
<1>8. QED
  BY <1>7 DEF F, G, Reserved

(* A request without clauses has none, and partitions have names. *)
LEMMA NoClauses == ASSUME NEW r, r.dep = <<>> PROVE Clauses(r) = {}
BY DEF Clauses

LEMMA PartitionNames == Partitions \subseteq STRING
<1>1. ActivePartitions \in Seq(STRING)
  BY PartitionAssumption DEF ActivePartitions
<1> HIDE DEF ActivePartitions
<1>2. QED
  BY <1>1 DEF Partitions

(* Rows that exist have typed columns, and the sets of rows are rows.      *)
LEMMA GoodRow ==
    ASSUME NEW t \in Table, NEW j \in Rows(t)
    PROVE  /\ t[j] \in Row /\ t[j].req \in Request
           /\ t[j].req.cpus \in Nat /\ t[j].req.mem \in Nat /\ t[j].req.gpus \in Nat
           /\ t[j].gpuIds \in SUBSET GpuId
<1>1. t[j] \in Row
  BY RowExists DEF Rows
<1>2. t[j].req \in Request /\ t[j].gpuIds \in SUBSET GpuId
  BY <1>1, RequestAssumption DEF Row
<1>3. QED
  BY <1>1, <1>2 DEF Request

Column(t, field) == [i \in RunningTopLevel(t) |-> t[i].req[field]]
Counted == {"cpus", "mem", "gpus"}

(* What the columns of the running rows sum up to. *)
LEMMA UsedIsReserved ==
    ASSUME NEW t \in Table
    PROVE  /\ RunningTopLevel(t) \subseteq JobId /\ RunningTopLevel(t) \subseteq Rows(t)
           /\ \A field \in Counted : Column(t, field) \in [RunningTopLevel(t) -> Nat]
           /\ UsedCpus(t) = Reserved(RunningTopLevel(t), Column(t, "cpus"))
           /\ UsedMem(t) = Reserved(RunningTopLevel(t), Column(t, "mem"))
           /\ UsedGpus(t) = Reserved(RunningTopLevel(t), Column(t, "gpus"))
<1>1. RunningTopLevel(t) \subseteq JobId /\ RunningTopLevel(t) \subseteq Rows(t)
  BY DEF RunningTopLevel, Running, InState, TopLevel, Rows
<1>2. ASSUME NEW field \in Counted PROVE Column(t, field) \in [RunningTopLevel(t) -> Nat]
  BY <1>1, GoodRow DEF Column, Counted
<1>3. /\ CpuSlots(t) = UNION {{j} \X (1 .. Column(t, "cpus")[j]) : j \in RunningTopLevel(t)}
      /\ MemSlots(t) = UNION {{j} \X (1 .. Column(t, "mem")[j]) : j \in RunningTopLevel(t)}
      /\ GpuSlots(t) = UNION {{j} \X (1 .. Column(t, "gpus")[j]) : j \in RunningTopLevel(t)}
  BY DEF CpuSlots, MemSlots, GpuSlots, Column
<1>4. QED
  BY <1>1, <1>2, <1>3 DEF UsedCpus, UsedMem, UsedGpus, Reserved

(* A start adds what the started job asks for, and nothing else adds.      *)
LEMMA ColumnAfter ==
    ASSUME NEW t \in Table, NEW u \in Table, NEW j, NEW field \in Counted,
           NEW n \in Nat,
           \A i \in JobId \ {j} : SameRun(t, u, i),
           SameRun(t, u, j) \/ n = u[j].req[field]
    PROVE  /\ Reserved(RunningTopLevel(u), Column(u, field)) \in Nat
           /\ Reserved(RunningTopLevel(t), Column(t, field)) \in Nat
           /\ Reserved(RunningTopLevel(u), Column(u, field))
                <= Reserved(RunningTopLevel(t), Column(t, field)) + n
<1> DEFINE S == RunningTopLevel(u)
           T == RunningTopLevel(t)
           f == Column(u, field)
           g == Column(t, field)
<1>1. S \in SUBSET JobId /\ T \in SUBSET JobId /\ f \in [S -> Nat] /\ g \in [T -> Nat]
  BY UsedIsReserved
<1>2. \A i \in S \ {j} : i \in T /\ f[i] = g[i]
  BY <1>1 DEF SameRun, Column
<1>3. j \in S => f[j] = n \/ (j \in T /\ f[j] = g[j])
  BY DEF SameRun, Column
<1> HIDE DEF S, T, f, g
<1>4. Reserved(S, f) \in Nat /\ Reserved(T, g) \in Nat /\ Reserved(S, f) <= Reserved(T, g) + n
  BY <1>1, <1>2, <1>3, SlotsBound
<1>5. QED
  BY <1>4 DEF S, T, f, g

(* The tasks of an array that run are finitely many. *)
LEMMA TasksFinite ==
    ASSUME NEW t, NEW a
    PROVE  IsFiniteSet(RunningArrayTasks(t, a)) /\ Cardinality(RunningArrayTasks(t, a)) \in Nat
<1>1. IsFiniteSet(1 .. MaxJobs)
  BY StoreAssumption, FS_Interval
<1>2. RunningArrayTasks(t, a) \subseteq 1 .. MaxJobs
  BY DEF RunningArrayTasks, Running, InState, JobId
<1>3. IsFiniteSet(RunningArrayTasks(t, a))
  BY <1>1, <1>2, FS_Subset
<1>4. QED
  BY <1>3, FS_CardinalityType

(* Limits hold for the arrays of which no task starts. *)
LEMMA LimitKept ==
    ASSUME NEW t, WellFormed(t), WithinLimits(t), NEW u, WellFormed(u),
           NEW k \in Rows(u), u[k].array # 0, u[k].req.limit > 0,
           \A i \in Running(u) : u[i].array = u[k].array => SameRun(t, u, i)
    PROVE  Cardinality(RunningArrayTasks(u, u[k].array)) <= u[k].req.limit
<1> DEFINE a == u[k].array
           U == RunningArrayTasks(u, a)
           T == RunningArrayTasks(t, a)
<1>1. u[k].req.limit \in Nat
  <2>1. u[k].req \in Request
    BY GoodRow DEF WellFormed
  <2>2. QED
    BY <2>1 DEF Request
<1>2. \A i \in U : /\ i \in Running(u) /\ i \in Rows(u) /\ i \in Rows(t) /\ i \in T
                   /\ u[i].array = a /\ t[i].array = a /\ u[i].req = t[i].req
  BY DEF RunningArrayTasks, SameRun, Running, InState, Rows
<1>3. CASE U = {}
  BY <1>1, <1>3, FS_EmptySet
<1>4. CASE U # {}
  <2>1. PICK i \in U : TRUE
    BY <1>4
  <2>2. t[i].req = u[k].req
    BY <1>2, <2>1 DEF WellFormed
  <2>3. Cardinality(T) <= u[k].req.limit
    BY <1>2, <2>1, <2>2 DEF WithinLimits
  <2>4. Cardinality(U) <= Cardinality(T) /\ Cardinality(U) \in Nat /\ Cardinality(T) \in Nat
    <3>1. U \subseteq T
      BY <1>2
    <3>2. IsFiniteSet(T) /\ Cardinality(U) \in Nat /\ Cardinality(T) \in Nat
      BY TasksFinite
    <3>3. QED
      BY <3>1, <3>2, FS_Subset
  <2>5. QED
    BY <1>1, <2>3, <2>4
<1>5. QED
  BY <1>3, <1>4

(* What settled stays met. *)
LEMMA MetKept ==
    ASSUME NEW t, NEW u, Settled(t, u), NEW c, NEW i, StillMet(t, c, i)
    PROVE  StillMet(u, c, i)
BY DEF StillMet, Settled

(* A quiet update keeps the invariant of the table. *)
LEMMA QuietKeeps ==
    ASSUME NEW t, Good(t), NEW u, WellFormed(u), Quiet(t, u)
    PROVE  Good(u)
<1> USE DEF Good
<1>1. /\ \A i \in JobId \ {0} : SameRun(t, u, i)
      /\ t \in Table /\ u \in Table
  BY DEF Quiet, WellFormed
<1>2. SameRun(t, u, 0)
  BY StoreAssumption DEF SameRun, RunningTopLevel, Active, Running, InState, JobId
<1>3. WithinHost(u)
  <2>1. /\ UsedCpus(u) \in Nat /\ UsedCpus(t) \in Nat /\ UsedCpus(u) <= UsedCpus(t) + 0
        /\ UsedMem(u) \in Nat /\ UsedMem(t) \in Nat /\ UsedMem(u) <= UsedMem(t) + 0
        /\ UsedGpus(u) \in Nat /\ UsedGpus(t) \in Nat /\ UsedGpus(u) <= UsedGpus(t) + 0
    BY <1>1, <1>2, ColumnAfter, UsedIsReserved DEF Counted
  <2>2. QED
    BY <2>1, CapacityAssumption, StoreAssumption DEF WithinHost
<1>4. \A i, j \in RunningTopLevel(u) :
         /\ i \in RunningTopLevel(t) /\ j \in RunningTopLevel(t)
         /\ u[i].req = t[i].req /\ u[i].gpuIds = t[i].gpuIds /\ u[j].gpuIds = t[j].gpuIds
         /\ u[i].partition = t[i].partition
  BY DEF Quiet, SameRun, RunningTopLevel, Running, InState
<1>5. Alone(u) /\ IdsApart(u) /\ GpusPlaced(u)
  BY <1>4 DEF Alone, IdsApart, GpusPlaced
<1>6. \A i, j \in Active(u) :
         IsSingleton(u[i]) /\ IsSingleton(u[j]) =>
            /\ i \in Active(t) /\ j \in Active(t)
            /\ u[i].req = t[i].req /\ u[j].req = t[j].req
            /\ u[i].name = t[i].name /\ u[j].name = t[j].name
  BY DEF Quiet, SameRun, Active, InState
<1>7. NamesApart(u)
  BY <1>6 DEF NamesApart, IsSingleton
<1>8. WithinLimits(u)
  <2>1. \A i \in Running(u) : SameRun(t, u, i)
    BY DEF Quiet, Running, InState
  <2>2. QED
    BY <2>1, LimitKept DEF WithinLimits
<1>9. DependenciesMet(u)
  <2>1. ASSUME NEW j \in RunningTopLevel(u), NEW c \in Clauses(u[j].req), NEW i \in c.ids
        PROVE  StillMet(u, c, i)
    <3>1. StillMet(t, c, i)
      BY <1>4, <2>1 DEF DependenciesMet
    <3>2. QED
      BY <3>1, MetKept DEF Quiet
  <2>2. QED
    BY <2>1 DEF DependenciesMet
<1>10. QED
  BY <1>3, <1>5, <1>7, <1>8, <1>9

(* Starting one job that admission let in keeps the invariant. *)
LEMMA StartKeeps ==
    ASSUME NEW t, Good(t), NEW u, WellFormed(u), NEW j \in Rows(t), Starts(t, u, j)
    PROVE  Good(u)
<1> USE DEF Good
<1> DEFINE r == u[j].req
<1>1. /\ \A i \in JobId \ {j} : SameRun(t, u, i)
      /\ r = t[j].req /\ u[j].array = t[j].array /\ u[j].name = t[j].name
      /\ u[j].partition = t[j].partition
      /\ ResourcesFit(t, t[j].partition, r)
      /\ u[j].gpuIds \subseteq FreeGpuIds(t)
      /\ DependencySatisfied(t, j) /\ ~AtArrayLimit(t, j) /\ Settled(t, u)
  BY DEF Starts, Fits
<1>2. /\ t \in Table /\ u \in Table /\ j \in JobId /\ j \in Rows(u)
      /\ r.cpus \in Nat /\ r.mem \in Nat /\ r.gpus \in Nat
      /\ r.limit \in Nat
  <2>1. t \in Table /\ u \in Table /\ j \in JobId /\ j \in Rows(u)
    BY <1>1 DEF WellFormed, Rows, Settled
  <2>2. r \in Request
    BY <2>1, GoodRow
  <2>3. QED
    BY <2>1, <2>2 DEF Request
<1>3. WithinHost(u)
  <2>1. /\ UsedCpus(u) \in Nat /\ UsedCpus(t) \in Nat /\ UsedCpus(u) <= UsedCpus(t) + r.cpus
        /\ UsedMem(u) \in Nat /\ UsedMem(t) \in Nat /\ UsedMem(u) <= UsedMem(t) + r.mem
        /\ UsedGpus(u) \in Nat /\ UsedGpus(t) \in Nat /\ UsedGpus(u) <= UsedGpus(t) + r.gpus
    BY <1>1, <1>2, ColumnAfter, UsedIsReserved DEF Counted
  <2>2. QED
    BY <1>1, <1>2, <2>1, CapacityAssumption, StoreAssumption
    DEF ResourcesFit, SaturatingSub, WithinHost
<1>4. /\ ~AnyRunningExclusiveJob(t)
      /\ r.exclusive => ~AnyRunningTopLevelJob(t)
  BY <1>1 DEF ResourcesFit
<1>5. \A i \in RunningTopLevel(u) \ {j} :
         /\ i \in RunningTopLevel(t) /\ u[i].req = t[i].req /\ u[i].gpuIds = t[i].gpuIds
         /\ u[i].partition = t[i].partition
  BY <1>1 DEF SameRun, RunningTopLevel, Running, InState
<1>6. Alone(u)
  BY <1>4, <1>5 DEF Alone, AnyRunningExclusiveJob, AnyRunningTopLevelJob
<1>7. IdsApart(u)
  <2>1. \A i \in RunningTopLevel(u) \ {j} : u[i].gpuIds \cap u[j].gpuIds = {}
    BY <1>1, <1>5 DEF FreeGpuIds, GpuIdsInUse
  <2>2. QED
    BY <1>5, <2>1 DEF IdsApart
<1>8. NamesApart(u)
  <2>1. \A i \in Active(u) \ {j} : IsSingleton(u[i]) =>
           i \in Active(t) /\ u[i].req = t[i].req /\ u[i].name = t[i].name
    BY <1>1 DEF SameRun, Active, InState
  <2>2. IsSingleton(u[j]) => ~HasActiveJobWithName(t, j)
    BY <1>1 DEF DependencySatisfied, ClauseSatisfied, IsSingleton
  <2>3. \A i \in Active(u) \ {j} : IsSingleton(u[i]) /\ IsSingleton(u[j]) =>
           u[i].name # u[j].name
    BY <1>1, <2>1, <2>2 DEF HasActiveJobWithName, Active, InState
  <2>4. QED
    BY <2>1, <2>3 DEF IsSingleton, NamesApart
<1>9. WithinLimits(u)
  <2>1. ASSUME NEW k \in Rows(u), u[k].array # 0, u[k].req.limit > 0
        PROVE  Cardinality(RunningArrayTasks(u, u[k].array)) <= u[k].req.limit
    <3>1. CASE u[k].array # u[j].array
      <4>1. \A i \in Running(u) : u[i].array = u[k].array => SameRun(t, u, i)
        BY <1>1, <3>1 DEF Running, InState
      <4>2. QED
        BY <2>1, <4>1, LimitKept
    <3>2. CASE u[k].array = u[j].array
      <4> DEFINE U == RunningArrayTasks(u, u[k].array)
                 T == RunningArrayTasks(t, u[k].array)
      <4>1. u[k].req = r
        BY <1>2, <2>1, <3>2 DEF WellFormed
      <4>2. ASSUME NEW i \in U, i # j PROVE i \in T
        <5>1. i \in Running(u) /\ u[i].array = u[k].array /\ i \in JobId
          BY DEF RunningArrayTasks, Running, InState
        <5>2. i \in Running(t) /\ u[i].array = t[i].array
          BY <1>1, <2>1, <4>2, <5>1 DEF SameRun
        <5>3. QED
          BY <5>1, <5>2 DEF RunningArrayTasks
      <4>3. /\ IsFiniteSet(T) /\ Cardinality(T) \in Nat /\ Cardinality(U) \in Nat
        BY TasksFinite
      <4>4. Cardinality(T) < r.limit
        BY <1>1, <1>2, <2>1, <3>2, <4>1, <4>3 DEF AtArrayLimit
      <4> HIDE DEF T, U
      <4>5. IsFiniteSet(T \cup {j}) /\ Cardinality(T \cup {j}) <= Cardinality(T) + 1
        <5>1. IsFiniteSet(T)
          BY <4>3
        <5>2. /\ IsFiniteSet(T \cup {j})
              /\ Cardinality(T \cup {j}) = IF j \in T THEN Cardinality(T) ELSE Cardinality(T) + 1
          BY <5>1, FS_AddElement, Zenon
        <5>3. QED
          BY <4>3, <5>2
      <4>6. Cardinality(U) <= Cardinality(T \cup {j}) /\ Cardinality(T \cup {j}) \in Nat
        BY <4>2, <4>5, FS_Subset, FS_CardinalityType
      <4>7. QED
        BY <1>2, <4>1, <4>3, <4>4, <4>5, <4>6 DEF U
    <3>3. QED
      BY <3>1, <3>2
  <2>2. QED
    BY <2>1 DEF WithinLimits
<1>10. DependenciesMet(u)
  <2>1. ASSUME NEW k \in RunningTopLevel(u), NEW c \in Clauses(u[k].req), NEW i \in c.ids
        PROVE  StillMet(u, c, i)
    <3>1. CASE k # j
      <4>1. StillMet(t, c, i)
        BY <1>5, <2>1, <3>1 DEF DependenciesMet
      <4>2. QED
        BY <1>1, <4>1, MetKept
    <3>2. CASE k = j
      <4>1. ClauseSatisfied(t, j, c)
        BY <1>1, <2>1, <3>2 DEF DependencySatisfied
      <4>2. StillMet(t, c, i)
        BY <2>1, <4>1 DEF ClauseSatisfied, TargetSatisfies, StillMet, Terminal
      <4>3. QED
        BY <1>1, <4>2, MetKept
    <3>3. QED
      BY <3>1, <3>2
  <2>2. QED
    BY <2>1 DEF DependenciesMet
<1>11. GpusPlaced(u)
  BY <1>1, <1>5 DEF GpusPlaced, ResourcesFit
<1>12. QED
  BY <1>3, <1>6, <1>7, <1>8, <1>9, <1>10, <1>11

----------------------------------------------------------------------------
(* GPU ids *)

(* The place of g among the ids of S, counted from 0. *)
Rank(S, g) == Cardinality({h \in S : h < g})

LEMMA RankFact ==
    ASSUME NEW S \in SUBSET GpuId
    PROVE  /\ IsFiniteSet(S) /\ Cardinality(S) \in Nat
           /\ \A g \in S : Rank(S, g) \in Nat /\ Rank(S, g) < Cardinality(S)
           /\ \A g, h \in S : Rank(S, g) = Rank(S, h) => g = h
<1> DEFINE Below(g) == {h \in S : h < g}
<1>1. IsFiniteSet(S) /\ Cardinality(S) \in Nat
  <2>1. IsFiniteSet(0 .. TotalGpus - 1)
    BY StoreAssumption, FS_Interval
  <2>2. IsFiniteSet(S)
    BY <2>1, FS_Subset DEF GpuId
  <2>3. QED
    BY <2>2, FS_CardinalityType
<1>2. ASSUME NEW g \in S
      PROVE  /\ IsFiniteSet(Below(g)) /\ Cardinality(Below(g)) \in Nat
             /\ Cardinality(Below(g)) < Cardinality(S)
  <2>1. IsFiniteSet(Below(g)) /\ Cardinality(Below(g)) <= Cardinality(S)
    BY <1>1, FS_Subset
  <2>2. Cardinality(Below(g)) \in Nat
    BY <2>1, FS_CardinalityType
  <2>3. Below(g) # S
    BY DEF GpuId
  <2>4. Cardinality(Below(g)) # Cardinality(S)
    BY <1>1, <2>3, FS_Subset
  <2>5. QED
    BY <1>1, <2>1, <2>2, <2>4
<1>3. ASSUME NEW g \in S, NEW h \in S, g < h
      PROVE  Cardinality(Below(g)) # Cardinality(Below(h))
  <2>1. Below(g) \in SUBSET Below(h)
    <3>1. \A i \in S : i \in Int
      BY DEF GpuId
    <3>2. \A i \in S : i < g => i < h
      BY <1>3, <3>1
    <3>3. QED
      BY <3>2
  <2>2. g \in Below(h) /\ g \notin Below(g)
    BY <1>3 DEF GpuId
  <2>3. IsFiniteSet(Below(h)) /\ Below(g) # Below(h)
    BY <1>2, <2>2
  <2> HIDE DEF Below
  <2>4. QED
    BY <2>1, <2>3, FS_Subset
<1>4. ASSUME NEW g \in S, NEW h \in S, Cardinality(Below(g)) = Cardinality(Below(h))
      PROVE  g = h
  <2>1. ~(g < h) /\ ~(h < g)
    BY <1>3, <1>4
  <2>2. g \in Int /\ h \in Int
    BY DEF GpuId
  <2>3. QED
    BY <2>1, <2>2
<1>5. QED
  BY <1>1, <1>2, <1>4 DEF Rank

(* allocate_gpu_ids hands out no more than it was asked for. *)
LEMMA AllocateBound ==
    ASSUME NEW t, NEW n \in Nat
    PROVE  /\ AllocateGpuIds(t, n) \subseteq FreeGpuIds(t)
           /\ AllocateGpuIds(t, n) \in SUBSET GpuId
           /\ Cardinality(AllocateGpuIds(t, n)) <= n
<1> DEFINE A == AllocateGpuIds(t, n)
           F == FreeGpuIds(t)
           place == [g \in A |-> Rank(F, g)]
<1>1. F \in SUBSET GpuId /\ A \subseteq F
  BY DEF FreeGpuIds, AllocateGpuIds
<1>2. \A g \in A : Rank(F, g) \in Nat /\ Rank(F, g) < n
  BY <1>1, RankFact DEF AllocateGpuIds, Rank
<1>3. \A g, h \in A : Rank(F, g) = Rank(F, h) => g = h
  BY <1>1, RankFact
<1> HIDE DEF A, F
<1>4. place \in Injection(A, 0 .. n - 1)
  BY <1>2, <1>3 DEF Injection, IsInjective
<1>5. IsFiniteSet(0 .. n - 1) /\ Cardinality(0 .. n - 1) = n
  <2>1. 0 \in Int /\ n - 1 \in Int
    OBVIOUS
  <2>2. QED
    BY <2>1, FS_Interval
<1>6. Cardinality(A) <= n
  BY <1>4, <1>5, FS_Injection
<1>7. QED
  BY <1>1, <1>6 DEF A, F

(* Running jobs hold no more ids than the GPUs they are counted for: each  *)
(* id in use has a reserved slot of its own.                               *)
LEMMA IdsWithinSlots ==
    ASSUME NEW t, WellFormed(t)
    PROVE  /\ IsFiniteSet(GpuIdsInUse(t))
           /\ Cardinality(GpuIdsInUse(t)) \in Nat /\ UsedGpus(t) \in Nat
           /\ Cardinality(GpuIdsInUse(t)) <= UsedGpus(t)
<1> DEFINE U == GpuIdsInUse(t)
           R == RunningTopLevel(t)
           owner == [g \in U |-> CHOOSE j \in R : g \in t[j].gpuIds]
           place == [g \in U |-> Rank(t[owner[g]].gpuIds, g) + 1]
           slot == [g \in U |-> <<owner[g], place[g]>>]
<1>1. R \subseteq JobId /\ R \subseteq Rows(t)
  BY DEF RunningTopLevel, Running, InState, TopLevel, Rows
<1>2. \A g \in U : owner[g] \in R /\ g \in t[owner[g]].gpuIds
  BY DEF GpuIdsInUse
<1>3. \A j \in R : t[j].gpuIds \in SUBSET GpuId
  BY <1>1, GoodRow DEF WellFormed
<1>4. \A j \in R : t[j].req.gpus \in Nat
  BY <1>1, GoodRow DEF WellFormed
<1>5. \A j \in R : Cardinality(t[j].gpuIds) <= t[j].req.gpus
  BY <1>1 DEF WellFormed, Sound
<1>6. \A g \in U : place[g] = Rank(t[owner[g]].gpuIds, g) + 1
  OBVIOUS
<1>7. \A g \in U : slot[g] = <<owner[g], place[g]>>
  OBVIOUS
<1> HIDE DEF U, R, owner, place
<1>8. ASSUME NEW g \in U PROVE slot[g] \in GpuSlots(t)
  <2> DEFINE j == owner[g]
             S == t[j].gpuIds
  <2>1. j \in R /\ g \in S /\ S \in SUBSET GpuId
    BY <1>2, <1>3
  <2>2. /\ place[g] = Rank(S, g) + 1
        /\ t[j].req.gpus \in Nat /\ Cardinality(S) <= t[j].req.gpus
    BY <1>4, <1>5, <1>6, <2>1
  <2>3. slot[g] = <<j, place[g]>>
    BY <1>7
  <2> HIDE DEF S, j, slot
  <2>4. Cardinality(S) \in Nat /\ Rank(S, g) \in Nat /\ Rank(S, g) < Cardinality(S)
    BY <2>1, RankFact
  <2>5. place[g] \in 1 .. t[j].req.gpus
    BY <2>2, <2>4
  <2>6. QED
    BY <2>1, <2>3, <2>5 DEF GpuSlots, R
<1>9. ASSUME NEW g \in U, NEW h \in U, slot[g] = slot[h] PROVE g = h
  <2> DEFINE S == t[owner[g]].gpuIds
  <2>1. owner[g] = owner[h] /\ place[g] = place[h]
    BY <1>7, <1>9
  <2>2. g \in S /\ h \in S /\ S \in SUBSET GpuId
    BY <1>2, <1>3, <2>1
  <2>3. Rank(S, g) + 1 = Rank(S, h) + 1
    BY <1>6, <2>1
  <2> HIDE DEF S
  <2>4. Rank(S, g) \in Nat /\ Rank(S, h) \in Nat
    BY <2>2, RankFact
  <2>5. Rank(S, g) = Rank(S, h)
    BY <2>3, <2>4
  <2>6. \A x, y \in S : Rank(S, x) = Rank(S, y) => x = y
    BY <2>2, RankFact
  <2>7. QED
    BY <2>2, <2>5, <2>6
<1>10. IsFiniteSet(GpuSlots(t))
  <2> DEFINE f == [j \in R |-> t[j].req.gpus]
  <2>1. f \in [R -> Nat] /\ R \in SUBSET JobId
    BY <1>1, <1>4
  <2>2. GpuSlots(t) = UNION {{j} \X (1 .. f[j]) : j \in R}
    BY DEF GpuSlots, R
  <2> HIDE DEF f
  <2>3. QED
    BY <2>1, <2>2, SlotsFinite
<1>11. slot \in Injection(U, GpuSlots(t))
  <2>1. slot \in [U -> GpuSlots(t)]
    BY <1>8
  <2> HIDE DEF slot
  <2>2. QED
    BY <1>9, <2>1 DEF Injection, IsInjective
<1> HIDE DEF slot
<1>12. IsFiniteSet(U) /\ Cardinality(U) <= Cardinality(GpuSlots(t))
  BY <1>10, <1>11, FS_Injection
<1>13. Cardinality(U) \in Nat /\ Cardinality(GpuSlots(t)) \in Nat
  BY <1>10, <1>12, FS_CardinalityType
<1>14. QED
  BY <1>12, <1>13 DEF U, UsedGpus

(* What the sums leave free, the ids leave free. *)
LEMMA EnoughIds ==
    ASSUME NEW t, WellFormed(t), NEW n \in Nat, n <= SaturatingSub(TotalGpus, UsedGpus(t))
    PROVE  CanAllocateGpuIds(t, n)
<1>1. IsFiniteSet(GpuId) /\ Cardinality(GpuId) = TotalGpus
  <2>1. 0 \in Int /\ TotalGpus - 1 \in Int
    BY StoreAssumption
  <2>2. /\ IsFiniteSet(GpuId)
        /\ Cardinality(GpuId) = IF 0 > TotalGpus - 1 THEN 0 ELSE TotalGpus - 1 - 0 + 1
    BY <2>1, FS_Interval, Zenon DEF GpuId
  <2>3. QED
    BY <2>2, StoreAssumption
<1>2. /\ IsFiniteSet(GpuIdsInUse(t))
      /\ Cardinality(GpuIdsInUse(t)) \in Nat /\ UsedGpus(t) \in Nat
      /\ Cardinality(GpuIdsInUse(t)) <= UsedGpus(t)
  BY IdsWithinSlots
<1>3. /\ IsFiniteSet(FreeGpuIds(t))
      /\ Cardinality(FreeGpuIds(t)) = Cardinality(GpuId) - Cardinality(GpuId \cap GpuIdsInUse(t))
  BY <1>1, FS_Difference DEF FreeGpuIds
<1>4. /\ IsFiniteSet(GpuId \cap GpuIdsInUse(t))
      /\ Cardinality(GpuId \cap GpuIdsInUse(t)) <= Cardinality(GpuIdsInUse(t))
  BY <1>2, FS_Intersection
<1>5. Cardinality(FreeGpuIds(t)) \in Nat /\ Cardinality(GpuId \cap GpuIdsInUse(t)) \in Nat
  BY <1>3, <1>4, FS_CardinalityType
<1>6. QED
  BY <1>1, <1>2, <1>3, <1>4, <1>5, StoreAssumption DEF CanAllocateGpuIds, SaturatingSub

----------------------------------------------------------------------------
(* Updates of one row *)

(* What keeps the invariant whatever the other rows are: the new row does  *)
(* not run, it is not COMPLETING as a singleton that was not active, and   *)
(* no final state of a batch job is taken back.                            *)
QuietRow(old, row) ==
    /\ Sound(row)
    /\ row.req = old.req /\ row.array = old.array /\ row.parent = old.parent
    /\ row.state # "RUNNING"
    /\ old.state \in Terminal /\ ~old.req.alloc => row.state = old.state
    /\ row.state = "COMPLETING" /\ row.parent = 0 /\ IsSingleton(row) =>
          old.state \in {"RUNNING", "COMPLETING"} /\ row.name = old.name

LEMMA RowKeeps ==
    ASSUME NEW t, Good(t), NEW j \in Rows(t), NEW row \in Row, QuietRow(t[j], row),
           NEW u, u = [t EXCEPT ![j] = row]
    PROVE  Good(u)
<1>1. /\ t \in Table /\ u \in Table /\ j \in JobId
      /\ u[j] = row /\ \A i \in JobId \ {j} : u[i] = t[i]
  BY DEF Good, WellFormed, Table, Rows
<1>2. row.state # "NONE"
  BY RowColumns
<1>3. Rows(u) = Rows(t)
  BY <1>1, <1>2 DEF Rows
<1>4. \A i \in Rows(t) : u[i].req = t[i].req /\ u[i].array = t[i].array
  BY <1>1 DEF QuietRow, Rows
<1>5. WellFormed(u)
  <2>1. \A i \in Rows(u) : Sound(u[i])
    BY <1>1, <1>3 DEF QuietRow, Good, WellFormed, Rows
  <2>2. WellFormed(t)
    BY DEF Good
  <2>3. u \in Table
    BY <1>1
  <2>4. QED
    BY ONLY <1>3, <1>4, <2>1, <2>2, <2>3 DEF WellFormed
<1>6. Quiet(t, u)
  <2>1. ASSUME NEW i \in JobId \ {j} PROVE SameRun(t, u, i)
    BY <1>1 DEF SameRun, RunningTopLevel, Running, Active, InState, TopLevel, Rows, IsSingleton
  <2>2. SameRun(t, u, j)
    BY <1>1 DEF SameRun, RunningTopLevel, Running, Active, InState, TopLevel, Rows, QuietRow
  <2>3. Settled(t, u)
    BY <1>1, <1>3, <1>4 DEF Settled, QuietRow, Rows
  <2>4. QED
    BY <2>1, <2>2, <2>3 DEF Quiet
<1>7. QED
  BY <1>5, <1>6, QuietKeeps

(* A row that waits for nothing any more, fits, and starts. *)
LEMMA StartJobKeeps ==
    ASSUME NEW t, Good(t), NEW j \in Pending(t), Fits(t, j),
           DependencySatisfied(t, j), ~AtArrayLimit(t, j)
    PROVE  Good(StartJob(t, j))
<1> DEFINE u == StartJob(t, j)
           ids == GpuIdsFor(t, j)
<1>1. /\ t \in Table /\ j \in JobId /\ j \in Rows(t)
      /\ t[j] \in Row /\ t[j].state = "PENDING" /\ t[j].parent = 0
      /\ t[j].gpuIds = {} /\ Sound(t[j])
      /\ t[j].req.gpus \in Nat
  BY GoodRow DEF Good, WellFormed, Sound, Pending, InState, TopLevel, Rows
<1>2. /\ ids \subseteq FreeGpuIds(t) /\ ids \in SUBSET GpuId /\ Cardinality(ids) <= t[j].req.gpus
      /\ ids # {} => IsGpuPartition(t[j].partition)
  <2>1. CASE IsGpuPartition(t[j].partition)
    BY <1>1, <2>1, AllocateBound DEF GpuIdsFor
  <2>2. CASE ~IsGpuPartition(t[j].partition)
    BY <1>1, <2>2, FS_EmptySet DEF GpuIdsFor
  <2>3. QED
    BY <2>1, <2>2
<1>3. PICK row \in Row :
         /\ u = [t EXCEPT ![j] = row]
         /\ row.state = "RUNNING" /\ row.parent = 0
         /\ row.req = t[j].req /\ row.name = t[j].name /\ row.array = t[j].array
         /\ row.partition = t[j].partition
         /\ row.gpuIds \subseteq FreeGpuIds(t) /\ Cardinality(row.gpuIds) <= t[j].req.gpus
         /\ row.gpuIds # {} => IsGpuPartition(row.partition)
  <2>1. CASE t[j].req.alloc
    <3> DEFINE row == [t[j] EXCEPT !.state = "RUNNING", !.started = TRUE]
    <3>1. /\ row \in Row /\ row.state = "RUNNING" /\ row.parent = t[j].parent
          /\ row.req = t[j].req /\ row.name = t[j].name /\ row.gpuIds = t[j].gpuIds
          /\ row.array = t[j].array /\ row.partition = t[j].partition
      <4>1. t[j] \in Row
        BY <1>1
      <4>2. QED
        BY ONLY <4>1 DEF Row, State
    <3>2. u = [t EXCEPT ![j] = row]
      BY <2>1 DEF StartJob, MarkAllocationRunning
    <3>3. Cardinality(row.gpuIds) <= t[j].req.gpus /\ row.gpuIds = {}
      BY <1>1, <3>1 DEF Sound
    <3> HIDE DEF row, u, ids
    <3>4. QED
      BY <1>1, <3>1, <3>2, <3>3
  <2>2. CASE ~t[j].req.alloc
    <3> DEFINE row == [t[j] EXCEPT !.state = "RUNNING", !.group = NoGroup, !.started = TRUE,
                                   !.gpuIds = ids]
    <3>1. /\ row \in Row /\ row.state = "RUNNING" /\ row.parent = t[j].parent
          /\ row.req = t[j].req /\ row.name = t[j].name /\ row.gpuIds = ids
          /\ row.array = t[j].array /\ row.partition = t[j].partition
      <4> HIDE DEF ids
      <4>1. t[j] \in Row /\ ids \in SUBSET GpuId
        BY <1>1, <1>2
      <4>2. QED
        BY <4>1 DEF Row, State
    <3>2. u = [t EXCEPT ![j] = row]
      BY <2>2 DEF StartJob, MarkRunning
    <3> HIDE DEF row, u, ids
    <3>3. QED
      BY <1>1, <1>2, <3>1, <3>2
  <2>3. QED
    BY <2>1, <2>2
<1> HIDE DEF u, ids
<1>4. /\ u \in Table /\ u[j] = row /\ \A i \in JobId \ {j} : u[i] = t[i]
  BY <1>1, <1>3 DEF Table
<1>5. Rows(u) = Rows(t)
  BY <1>1, <1>3, <1>4 DEF Rows
<1>6. \A i \in Rows(t) : u[i].req = t[i].req /\ u[i].array = t[i].array
  BY <1>3, <1>4 DEF Rows
<1>7. WellFormed(u)
  <2>1. Sound(row)
    BY <1>1, <1>3 DEF Sound
  <2>2. \A i \in Rows(u) : Sound(u[i])
    BY <1>4, <1>5, <2>1 DEF Good, WellFormed, Rows
  <2>3. QED
    BY <1>4, <1>5, <1>6, <2>2 DEF WellFormed, Good
<1>8. Starts(t, u, j)
  <2>1. ASSUME NEW i \in JobId \ {j} PROVE SameRun(t, u, i)
    BY <1>4 DEF SameRun, RunningTopLevel, Running, Active, InState, TopLevel, Rows, IsSingleton
  <2>2. Settled(t, u)
    BY <1>1, <1>4, <1>5, <1>6 DEF Settled, Rows, Terminal
  <2>3. QED
    BY <1>1, <1>3, <1>4, <2>1, <2>2 DEF Starts
<1>9. QED
  BY <1>1, <1>7, <1>8, StartKeeps DEF u

(* New rows, all alike: the tasks of an array, a job, or a step. *)
LEMMA InsertKeeps ==
    ASSUME NEW t, Good(t), NEW row \in Row, Sound(row), row.gpuIds = {},
           row.state = "PENDING" \/ (row.state = "RUNNING" /\ row.parent # 0 /\ row.array = 0),
           NEW K \in SUBSET JobId, K \cap Rows(t) = {},
           row.array = 0 \/ row.array \in K,
           \A k \in K : \A i \in JobId : i < k => i \in Rows(t) \cup K,
           NEW u, u = [i \in JobId |-> IF i \in K THEN row ELSE t[i]]
    PROVE  Good(u) /\ WellFormed(u) /\ Quiet(t, u)
<1>1. /\ t \in Table /\ u \in Table
      /\ \A i \in K : u[i] = row
      /\ \A i \in JobId \ K : u[i] = t[i]
  BY DEF Good, WellFormed, Table
<1>2. Rows(u) = Rows(t) \cup K
  BY <1>1 DEF Rows
<1>3. \A i \in Rows(t) : u[i] = t[i]
  BY <1>1 DEF Rows
<1>4. WellFormed(u)
  <2>1. \A i \in Rows(u) : Sound(u[i])
    BY <1>1, <1>2, <1>3 DEF Good, WellFormed
  <2>2. \A j \in Rows(u) : \A i \in JobId : i < j => i \in Rows(u)
    BY <1>2 DEF Good, WellFormed
  <2>3. \A j \in Rows(u) : u[j].array # 0 =>
            u[j].array \in Rows(u) /\ u[u[j].array].array = u[j].array
    BY <1>1, <1>2, <1>3 DEF Good, WellFormed
  <2>4. ASSUME NEW i \in Rows(u), NEW j \in Rows(u), u[i].array # 0, u[i].array = u[j].array
        PROVE  u[i].req = u[j].req
    <3>1. CASE i \in Rows(t) /\ j \in Rows(t)
      BY <1>3, <2>4, <3>1 DEF Good, WellFormed
    <3>2. CASE i \in K /\ j \in K
      BY <1>1, <3>2
    <3>3. CASE i \in Rows(t) /\ j \in K
      BY <1>1, <1>3, <2>4, <3>3 DEF Good, WellFormed
    <3>4. CASE i \in K /\ j \in Rows(t)
      BY <1>1, <1>3, <2>4, <3>4 DEF Good, WellFormed
    <3>5. QED
      BY <1>2, <3>1, <3>2, <3>3, <3>4
  <2>5. QED
    BY <1>1, <2>1, <2>2, <2>3, <2>4 DEF WellFormed
<1>5. Quiet(t, u)
  <2>1. ASSUME NEW i \in JobId PROVE SameRun(t, u, i)
    BY <1>1 DEF SameRun, RunningTopLevel, Running, Active, InState, TopLevel, Rows, IsSingleton
  <2>2. Settled(t, u)
    BY <1>2, <1>3 DEF Settled
  <2>3. QED
    BY <2>1, <2>2 DEF Quiet
<1>6. QED
  BY <1>4, <1>5, QuietKeeps

(* create_job makes nothing run.  Rows it inserts wait. *)
LEMMA CreateKeeps ==
    ASSUME NEW t, Good(t), NEW j \in JobId, IsNextId(t, j), NEW r \in Requests,
           j + RowsNeeded(r) - 1 \in JobId, r.alloc => r.dep = <<>>
    PROVE  /\ Good(CreateJob(t, j, r))
           /\ Quiet(t, CreateJob(t, j, r)) /\ WellFormed(CreateJob(t, j, r))
           /\ j \in Pending(CreateJob(t, j, r))
           /\ CreateJob(t, j, r)[j] = PendingRow(r, IF r.tasks = 0 THEN 0 ELSE j)
<1> DEFINE u == CreateJob(t, j, r)
           row == PendingRow(r, IF r.tasks = 0 THEN 0 ELSE j)
           K == j .. j + RowsNeeded(r) - 1
<1>1. /\ row \in Row /\ row.state = "PENDING" /\ row.parent = 0 /\ row.gpuIds = {}
      /\ row.req = r /\ row.array \in {0, j}
  BY RequestAssumption DEF PendingRow, Row, State, Request
<1>2. r.tasks \in Nat /\ r.gpus \in Nat
  BY RequestAssumption DEF Request
<1>3. j \in K /\ K \in SUBSET JobId
  BY <1>2, StoreAssumption DEF RowsNeeded, JobId
<1>4. \A k \in K : k \in JobId /\ (k = j \/ j < k)
  BY <1>2, StoreAssumption DEF RowsNeeded, JobId
<1>5. K \cap Rows(t) = {}
  BY <1>4 DEF IsNextId, Good, WellFormed
<1>6. \A k \in K : \A i \in JobId : i < k => i \in Rows(t) \cup K
  BY <1>2, StoreAssumption DEF IsNextId, RowsNeeded, JobId
<1>7. Sound(row)
  <2> HIDE DEF row
  <2>1. Cardinality(row.gpuIds) = 0
    BY <1>1, FS_EmptySet
  <2>2. QED
    BY <1>1, <1>2, <2>1 DEF Sound
<1>8. u = [i \in JobId |-> IF i \in K THEN row ELSE t[i]]
  BY DEF CreateJob
<1> HIDE DEF u, row, K
<1>9. Good(u) /\ WellFormed(u) /\ Quiet(t, u)
  <2>1. /\ row \in Row /\ row.gpuIds = {} /\ row.state = "PENDING"
        /\ row.array = 0 \/ row.array \in K
    BY <1>1, <1>3
  <2>2. Good(t)
    OBVIOUS
  <2>3. QED
    BY ONLY <1>3, <1>5, <1>6, <1>7, <1>8, <2>1, <2>2, InsertKeeps
<1>10. u[j] = row
  BY <1>3, <1>8
<1>11. j \in Pending(u)
  BY <1>1, <1>10 DEF Pending, InState, TopLevel, Rows
<1>12. QED
  BY <1>9, <1>10, <1>11 DEF u, row

(* What fitted beside the running jobs still fits after a quiet update. *)
LEMMA FitsAfterQuiet ==
    ASSUME NEW t, Good(t), NEW u, WellFormed(u), Quiet(t, u),
           NEW r \in Requests, NEW partition, ResourcesFit(t, partition, r)
    PROVE  ResourcesFit(u, partition, r)
<1>1. /\ \A i \in JobId \ {0} : SameRun(t, u, i)
      /\ t \in Table /\ u \in Table
  BY DEF Quiet, Good, WellFormed
<1>2. SameRun(t, u, 0)
  BY StoreAssumption DEF SameRun, RunningTopLevel, Active, Running, InState, JobId
<1>3. /\ UsedCpus(u) \in Nat /\ UsedCpus(t) \in Nat /\ UsedCpus(u) <= UsedCpus(t) + 0
      /\ UsedMem(u) \in Nat /\ UsedMem(t) \in Nat /\ UsedMem(u) <= UsedMem(t) + 0
      /\ UsedGpus(u) \in Nat /\ UsedGpus(t) \in Nat /\ UsedGpus(u) <= UsedGpus(t) + 0
  BY <1>1, <1>2, ColumnAfter, UsedIsReserved DEF Counted
<1>4. r.cpus \in Nat /\ r.mem \in Nat /\ r.gpus \in Nat
  BY RequestAssumption DEF Request
<1>5. /\ AnyRunningExclusiveJob(u) => AnyRunningExclusiveJob(t)
      /\ AnyRunningTopLevelJob(u) => AnyRunningTopLevelJob(t)
  BY DEF Quiet, AnyRunningExclusiveJob, AnyRunningTopLevelJob, SameRun, RunningTopLevel, Running, InState
<1>6. QED
  BY <1>3, <1>4, <1>5, CapacityAssumption, StoreAssumption DEF ResourcesFit, SaturatingSub

----------------------------------------------------------------------------
(* The actions *)

(* What the handlers need besides the table. *)
Rest == /\ now' \in 0 .. MaxTime /\ pc' \in Phase /\ faults' \in 0 .. MaxFaults
        /\ ending' \in {NoEnding} \cup [job : JobId, final : {"CANCELLED", "TIMEOUT"}]
        /\ pc' = "grace" => /\ ending' # NoEnding /\ ending'.job \in Rows(jobs')
                            /\ jobs'[ending'.job].state = "COMPLETING"

LEMMA Combine == ASSUME Good(jobs'), Rest PROVE IInv'
BY DEF IInv, TypeOK, Rest, Good, WellFormed

(* A final state, or a requeue, of a row: poll, recover, the grace period  *)
(* and the clients' reports all write it this way.                         *)
LEMMA MarkFinishedKeeps ==
    ASSUME NEW t, Good(t), NEW j \in Rows(t), NEW final \in Terminal,
           t[j].state \notin Terminal \/ t[j].parent # 0 \/ t[j].req.alloc
    PROVE  Good(MarkFinished(t, j, final))
<1> DEFINE row == IF ShouldAutoRequeue(t[j], final) THEN Requeued(t[j]) ELSE Finished(t[j], final)
<1>1. /\ t \in Table /\ j \in JobId /\ t[j] \in Row /\ Sound(t[j])
      /\ t[j].req.gpus \in Nat
  BY GoodRow DEF Good, WellFormed, Rows
<1>2. row \in Row
  BY <1>1, FinishedRow
<1>3. /\ row.gpuIds = {} /\ row.req = t[j].req /\ row.array = t[j].array
      /\ row.parent = t[j].parent
      /\ row.state \notin {"RUNNING", "COMPLETING"}
  BY <1>1 DEF Requeued, Finished, Row, Terminal
<1>4. MarkFinished(t, j, final) = [t EXCEPT ![j] = row]
  BY DEF MarkFinished
<1> HIDE DEF row
<1>5. Cardinality(row.gpuIds) = 0
  BY <1>3, FS_EmptySet
<1>6. Sound(row)
  BY <1>1, <1>3, <1>5 DEF Sound
<1>7. t[j].state \in Terminal => t[j].req.alloc
  BY <1>1 DEF Sound
<1>8. QuietRow(t[j], row)
  BY <1>3, <1>6, <1>7 DEF QuietRow
<1>9. QED
  BY <1>2, <1>4, <1>8, RowKeeps

LEMMA MarkStateKeeps ==
    ASSUME NEW t, Good(t), NEW j \in Rows(t), NEW s \in {"COMPLETING", "CANCELLED"},
           \/ t[j].state = "RUNNING" \/ t[j].parent # 0 \/ t[j].req.alloc
           \/ s = "CANCELLED" /\ t[j].state = "PENDING"
    PROVE  /\ Good(MarkState(t, j, s))
           /\ j \in Rows(MarkState(t, j, s)) /\ MarkState(t, j, s)[j].state = s
<1> DEFINE row == [t[j] EXCEPT !.state = s]
<1>1. t \in Table /\ j \in JobId /\ t[j] \in Row /\ Sound(t[j])
  BY GoodRow DEF Good, WellFormed, Rows
<1>2. /\ row \in Row /\ row.state = s /\ row.gpuIds = t[j].gpuIds /\ row.req = t[j].req
      /\ row.parent = t[j].parent /\ row.name = t[j].name /\ row.array = t[j].array
      /\ row.partition = t[j].partition
  BY <1>1 DEF Row, State, Terminal
<1>3. MarkState(t, j, s) = [t EXCEPT ![j] = row]
  BY DEF MarkState
<1> HIDE DEF row
<1>4. Sound(row)
  BY <1>1, <1>2 DEF Sound
<1>5. t[j].req.alloc => ~IsSingleton(t[j])
  BY <1>1, NoClauses DEF Sound, IsSingleton
<1>6. QuietRow(t[j], row)
  BY <1>1, <1>2, <1>4, <1>5 DEF QuietRow, Sound, IsSingleton, Terminal
<1>7. j \in Rows(MarkState(t, j, s)) /\ MarkState(t, j, s)[j].state = s
  BY <1>1, <1>2, <1>3 DEF Rows, Table
<1>8. QED
  BY <1>2, <1>3, <1>6, <1>7, RowKeeps

(* A row that waits stays one: hold, release and the updates. *)
LEMMA WaitingRowKeeps ==
    ASSUME NEW t, Good(t), NEW j \in InState(t, {"PENDING"}), NEW row \in Row,
           row.state = "PENDING", row.gpuIds = t[j].gpuIds, row.req = t[j].req,
           row.array = t[j].array, row.parent = t[j].parent
    PROVE  Good([t EXCEPT ![j] = row])
<1>1. j \in Rows(t) /\ t[j].state = "PENDING" /\ Sound(t[j])
  BY DEF InState, Rows, Good, WellFormed
<1>2. QuietRow(t[j], row)
  BY <1>1 DEF QuietRow, Sound, Terminal
<1>3. QED
  BY <1>1, <1>2, RowKeeps

LEMMA InitHolds == Init => IInv
<1> SUFFICES ASSUME Init PROVE IInv
  OBVIOUS
<1>1. /\ jobs \in Table
      /\ \A j \in JobId : jobs[j].state = "NONE"
  BY DEF Init, EmptyTable, Table, NoRow
<1>2. Rows(jobs) = {} /\ RunningTopLevel(jobs) = {} /\ Active(jobs) = {}
      /\ InState(jobs, {"PENDING"}) = {}
  BY <1>1 DEF Rows, RunningTopLevel, Running, Active, InState
<1>3. UsedCpus(jobs) = 0 /\ UsedMem(jobs) = 0 /\ UsedGpus(jobs) = 0
  <2>1. CpuSlots(jobs) = {} /\ MemSlots(jobs) = {} /\ GpuSlots(jobs) = {}
    BY <1>2 DEF CpuSlots, MemSlots, GpuSlots
  <2>2. QED
    BY <2>1, FS_EmptySet DEF UsedCpus, UsedMem, UsedGpus
<1>4. Good(jobs)
  BY <1>1, <1>2, <1>3, CapacityAssumption, StoreAssumption
  DEF Good, WellFormed, WithinHost, Alone, IdsApart, GpusPlaced, NamesApart, WithinLimits, DependenciesMet
<1>5. QED
  BY <1>1, <1>4, CapacityAssumption DEF Init, IInv, TypeOK, Phase

(* Every request that inserts a row. *)
LEMMA SubmitKeeps == ASSUME IInv, Submit PROVE IInv'
<1> USE DEF IInv, TypeOK
<1>1. PICK j \in JobId, r \in Requests, immediate \in BOOLEAN :
         SubmitBatch(j, r) \/ SubmitRun(j, r, immediate) \/ SubmitAlloc(j, r, immediate)
  BY DEF Submit
<1> DEFINE created == CreateJob(jobs, j, r)
<1>2. IsNextId(jobs, j) /\ j + RowsNeeded(r) - 1 \in JobId
  BY <1>1 DEF SubmitBatch, SubmitRun, SubmitAlloc, Room
<1>3. r.alloc => r.dep = <<>>
  BY <1>1 DEF SubmitBatch, SubmitRun, SubmitAlloc, Interactive
<1>4. /\ Good(created)
      /\ Quiet(jobs, created) /\ WellFormed(created)
      /\ j \in Pending(created)
      /\ created[j].req = r /\ created[j].partition = r.partition
      /\ r.tasks = 0 => created[j].array = 0
  <2>1. created[j] = PendingRow(r, IF r.tasks = 0 THEN 0 ELSE j)
    BY <1>2, <1>3, CreateKeeps
  <2>2. /\ created[j].req = r /\ created[j].partition = r.partition
        /\ r.tasks = 0 => created[j].array = 0
    BY <2>1 DEF PendingRow
  <2> HIDE DEF created
  <2>3. QED
    BY <1>2, <1>3, <2>2, CreateKeeps DEF created
<1>5. ASSUME ResourcesFit(jobs, r.partition, r), Interactive(r)
      PROVE  Good(StartJob(created, j))
  <2>1. ResourcesFit(created, r.partition, r)
    BY <1>4, <1>5, FitsAfterQuiet
  <2>2. /\ Fits(created, j)
        /\ DependencySatisfied(created, j) /\ ~AtArrayLimit(created, j)
    BY <1>4, <1>5, <2>1, NoClauses DEF Fits, DependencySatisfied, AtArrayLimit, Interactive
  <2>3. QED
    BY <1>4, <2>2, StartJobKeeps
<1>6. CASE SubmitBatch(j, r)
  BY <1>4, <1>6, Combine DEF SubmitBatch, world, Rest, Phase
<1>7. CASE SubmitRun(j, r, immediate)
  <2>1. Interactive(r)
    BY <1>7 DEF SubmitRun
  <2>2. Good(jobs')
    BY <1>4, <1>5, <1>7, <2>1 DEF SubmitRun
  <2>3. Rest
    BY <1>7, CapacityAssumption DEF SubmitRun, Rest
  <2>4. QED
    BY <2>2, <2>3, Combine
<1>8. CASE SubmitAlloc(j, r, immediate)
  <2>1. Interactive(r) /\ r.alloc
    BY <1>8 DEF SubmitAlloc
  <2>2. StartJob(created, j) = MarkAllocationRunning(created, j)
    BY <1>4, <2>1 DEF StartJob
  <2>3. Good(jobs')
    BY <1>4, <1>5, <1>8, <2>1, <2>2 DEF SubmitAlloc
  <2>4. Rest
    BY <1>8 DEF SubmitAlloc, Rest, world
  <2>5. QED
    BY <2>3, <2>4, Combine
<1>9. QED
  BY <1>1, <1>6, <1>7, <1>8

LEMMA StartStepKeeps ==
    ASSUME IInv, NEW j \in JobId, NEW p \in JobId, NEW r \in Requests, StartStep(j, p, r.name)
    PROVE  IInv'
<1> USE DEF IInv, TypeOK
<1> DEFINE row == StepRow(jobs, p, r.name)
<1>1. /\ p \in Rows(jobs) /\ jobs[p] \in Row /\ jobs[p].req \in Requests
      /\ jobs[p].req.alloc /\ Sound(jobs[p]) /\ jobs[p].req.gpus \in Nat
  BY GoodRow DEF StartStep, TopLevel, Row, Good, WellFormed
<1>2. r.name \in STRING
  BY RequestAssumption DEF Request
<1>3. PendingRow(jobs[p].req, 0) \in Row
  <2>1. jobs[p].req.name \in STRING /\ jobs[p].req.partition \in STRING
    BY <1>1, RequestAssumption DEF Request
  <2>2. QED
    BY <1>1, <2>1 DEF PendingRow, Row, State
<1>4. /\ row \in Row /\ row.state = "RUNNING" /\ row.parent = p
      /\ row.req = jobs[p].req /\ row.gpuIds = {} /\ row.array = 0
  <2> DEFINE waiting == PendingRow(jobs[p].req, 0)
  <2>1. /\ waiting.req = jobs[p].req /\ waiting.gpuIds = {} /\ waiting.array = 0
        /\ jobs[p].partition \in STRING
    BY <1>1 DEF PendingRow, Row
  <2>2. row = [waiting EXCEPT !.state = "RUNNING", !.name = r.name, !.parent = p,
                              !.partition = jobs[p].partition, !.started = TRUE]
    BY DEF StepRow
  <2> HIDE DEF waiting, row
  <2>3. waiting \in Row
    BY <1>3 DEF waiting
  <2>4. QED
    BY <1>2, <2>1, <2>2, <2>3 DEF Row, State
<1> HIDE DEF row
<1>5. Sound(row) /\ row.parent # 0
  <2>1. Cardinality(row.gpuIds) = 0
    BY <1>4, FS_EmptySet
  <2>2. row.parent # 0
    BY <1>4, StoreAssumption DEF JobId
  <2>3. QED
    BY <1>1, <1>4, <2>1, <2>2 DEF Sound
<1>6. jobs' = [i \in JobId |-> IF i \in {j} THEN row ELSE jobs[i]]
  BY DEF StartStep, CreateStep, row, Table
<1>7. Good(jobs')
  <2> DEFINE K == {j}
  <2>1. /\ K \in SUBSET JobId /\ K \cap Rows(jobs) = {}
        /\ \A k \in K : \A i \in JobId : i < k => i \in Rows(jobs) \cup K
    BY DEF StartStep, IsNextId
  <2>2. jobs' = [i \in JobId |-> IF i \in K THEN row ELSE jobs[i]]
    BY <1>6
  <2>3. row \in Row /\ row.gpuIds = {} /\ row.state = "RUNNING" /\ row.array = 0 /\ Good(jobs)
    BY <1>4
  <2>4. row.state = "PENDING" \/ (row.state = "RUNNING" /\ row.parent # 0 /\ row.array = 0)
    BY <1>5, <2>3
  <2>5. row.array = 0 \/ row.array \in K
    BY <2>3
  <2>6. Sound(row)
    BY <1>5
  <2> HIDE DEF K
  <2>7. QED
    BY ONLY <2>1, <2>2, <2>3, <2>4, <2>5, <2>6, InsertKeeps
<1>8. QED
  BY <1>7, Combine DEF StartStep, Rest, world

(* Hold, release and the updates write a column of a row that waits, or    *)
(* nothing.                                                                *)
LEMMA WaitingKeeps ==
    ASSUME IInv, NEW j \in JobId, Hold(j) \/ Release(j) \/ Update(j)
    PROVE  IInv'
<1> USE DEF IInv, TypeOK
<1>1. j \in Rows(jobs)
  BY DEF Hold, Release, Update, InState, Rows
<1>2. jobs[j] \in Row
  BY <1>1, GoodRow
<1>3. CASE jobs' = jobs
  BY <1>3, Combine DEF Hold, Release, Update, Rest, Phase, world
<1>4. ASSUME jobs' # jobs
      PROVE  \E row \in Row :
                /\ jobs' = [jobs EXCEPT ![j] = row]
                /\ jobs[j].state = "PENDING" /\ row.state = "PENDING"
                /\ row.gpuIds = jobs[j].gpuIds /\ row.req = jobs[j].req
                /\ row.array = jobs[j].array /\ row.parent = jobs[j].parent
  <2>1. jobs[j].state = "PENDING"
    BY <1>4 DEF Hold, Release, Update, HoldJob, ReleaseJob, InState
  <2>2. ASSUME NEW b \in BOOLEAN, jobs' = [jobs EXCEPT ![j] = [@ EXCEPT !.held = b]]
        PROVE  <1>4!2
    <3>1. /\ [jobs[j] EXCEPT !.held = b] \in Row
          /\ [jobs[j] EXCEPT !.held = b].state = jobs[j].state
          /\ [jobs[j] EXCEPT !.held = b].gpuIds = jobs[j].gpuIds
          /\ [jobs[j] EXCEPT !.held = b].req = jobs[j].req
          /\ [jobs[j] EXCEPT !.held = b].array = jobs[j].array
          /\ [jobs[j] EXCEPT !.held = b].parent = jobs[j].parent
      BY <1>2 DEF Row
    <3>2. QED
      BY <2>1, <2>2, <3>1
  <2>3. ASSUME NEW p \in Partitions \cup OtherPartitions, jobs' = UpdatePartition(jobs, j, p)
        PROVE  <1>4!2
    <3>1. p \in STRING
      BY PartitionNames, PartitionAssumption
    <3>2. /\ [jobs[j] EXCEPT !.partition = p] \in Row
          /\ [jobs[j] EXCEPT !.partition = p].state = jobs[j].state
          /\ [jobs[j] EXCEPT !.partition = p].gpuIds = jobs[j].gpuIds
          /\ [jobs[j] EXCEPT !.partition = p].req = jobs[j].req
          /\ [jobs[j] EXCEPT !.partition = p].array = jobs[j].array
          /\ [jobs[j] EXCEPT !.partition = p].parent = jobs[j].parent
      BY <1>2, <3>1 DEF Row
    <3>3. QED
      BY <2>1, <2>3, <3>2 DEF UpdatePartition
  <2>4. ASSUME NEW p \in Priorities, jobs' = UpdatePriority(jobs, j, p)
        PROVE  <1>4!2
    <3>1. /\ [jobs[j] EXCEPT !.priority = p] \in Row
          /\ [jobs[j] EXCEPT !.priority = p].state = jobs[j].state
          /\ [jobs[j] EXCEPT !.priority = p].gpuIds = jobs[j].gpuIds
          /\ [jobs[j] EXCEPT !.priority = p].req = jobs[j].req
          /\ [jobs[j] EXCEPT !.priority = p].array = jobs[j].array
          /\ [jobs[j] EXCEPT !.priority = p].parent = jobs[j].parent
      BY <1>2, CapacityAssumption DEF Row
    <3>2. QED
      BY <2>1, <2>4, <3>1 DEF UpdatePriority
  <2>5. ASSUME NEW r \in Requests, jobs' = UpdateName(jobs, j, r.name)
        PROVE  <1>4!2
    <3>1. r.name \in STRING
      BY RequestAssumption DEF Request
    <3>2. /\ [jobs[j] EXCEPT !.name = r.name] \in Row
          /\ [jobs[j] EXCEPT !.name = r.name].state = jobs[j].state
          /\ [jobs[j] EXCEPT !.name = r.name].gpuIds = jobs[j].gpuIds
          /\ [jobs[j] EXCEPT !.name = r.name].req = jobs[j].req
          /\ [jobs[j] EXCEPT !.name = r.name].array = jobs[j].array
          /\ [jobs[j] EXCEPT !.name = r.name].parent = jobs[j].parent
      BY <1>2, <3>1 DEF Row
    <3>3. QED
      BY <2>1, <2>5, <3>2 DEF UpdateName
  <2>6. CASE Hold(j)
    BY <1>4, <2>1, <2>2, <2>6 DEF Hold, HoldJob
  <2>7. CASE Release(j)
    BY <1>4, <2>1, <2>2, <2>7 DEF Release, ReleaseJob
  <2>8. CASE Update(j)
    BY <2>3, <2>4, <2>5, <2>8 DEF Update
  <2>9. QED
    BY <2>6, <2>7, <2>8
<1>5. CASE jobs' # jobs
  <2>1. Good(jobs')
    BY <1>4, <1>5, WaitingRowKeeps DEF InState
  <2>2. Rest
    BY DEF Hold, Release, Update, Rest, Phase, world
  <2>3. QED
    BY <2>1, <2>2, Combine
<1>6. QED
  BY <1>3, <1>5

(* scancel of a job that waits, and the beginning of an end. *)
LEMMA EndingKeeps ==
    ASSUME IInv, NEW j \in JobId, NEW final \in {"CANCELLED", "TIMEOUT"},
           CancelWaiting(j) \/ Terminate(j, final)
    PROVE  IInv'
<1> USE DEF IInv, TypeOK
<1>1. CASE CancelWaiting(j)
  <2>1. /\ j \in Rows(jobs) /\ jobs' = MarkState(jobs, j, "CANCELLED")
        /\ jobs[j].state = "PENDING"
    BY <1>1 DEF CancelWaiting, CancelPending, InState, Rows
  <2>2. Good(jobs')
    BY <2>1, MarkStateKeeps
  <2>3. QED
    BY <1>1, <2>2, Combine DEF CancelWaiting, Rest, world
<1>2. CASE Terminate(j, final)
  <2>1. /\ j \in Rows(jobs) /\ jobs' = MarkState(jobs, j, "COMPLETING")
        /\ jobs[j].state = "RUNNING" \/ jobs[j].parent # 0 \/ jobs[j].req.alloc
    BY <1>2 DEF Terminate, ClientOwned
  <2>2. Good(jobs') /\ j \in Rows(jobs') /\ jobs'[j].state = "COMPLETING"
    BY <2>1, MarkStateKeeps
  <2>3. ending' = [job |-> j, final |-> final] /\ ending' # NoEnding
    BY <1>2, StoreAssumption DEF Terminate, NoEnding, JobId
  <2>4. Rest
    BY <1>2, <2>2, <2>3 DEF Terminate, Rest, Phase
  <2>5. QED
    BY <2>2, <2>4, Combine
<1>3. QED
  BY <1>1, <1>2

LEMMA EndsKeeps == ASSUME IInv, Ends PROVE IInv'
<1> USE DEF IInv, TypeOK
<1>1. ASSUME NEW j \in JobId, NEW final \in Outcomes, JobEnds(j, final) \/ FinishAllocation(j, final)
      PROVE  IInv'
  <2>1. /\ j \in Rows(jobs) /\ final \in Terminal /\ jobs' = MarkFinished(jobs, j, final)
        /\ jobs[j].state \notin Terminal \/ jobs[j].parent # 0 \/ jobs[j].req.alloc
    BY <1>1, CapacityAssumption DEF JobEnds, FinishAllocation, ClientOwned, Terminal
  <2>2. Good(jobs')
    BY <2>1, MarkFinishedKeeps
  <2>3. Rest
    BY <1>1 DEF JobEnds, FinishAllocation, Rest, Phase, world
  <2>4. QED
    BY <2>2, <2>3, Combine
<1>2. ASSUME GraceEnds PROVE IInv'
  <2>1. /\ ending.job \in Rows(jobs) /\ ending.final \in Terminal
        /\ jobs[ending.job].state \notin Terminal
    BY <1>2 DEF GraceEnds, Terminal
  <2>2. PICK final \in Terminal : jobs' = MarkFinished(jobs, ending.job, final)
    BY <1>2, <2>1, CapacityAssumption DEF GraceEnds
  <2>3. Good(jobs')
    BY <2>1, <2>2, MarkFinishedKeeps
  <2>4. Rest
    BY <1>2 DEF GraceEnds, Rest, Phase
  <2>5. QED
    BY <2>3, <2>4, Combine
<1>3. QED
  BY <1>1, <1>2 DEF Ends

(* A pass starts what waits for nothing and fits. *)
LEMMA PassKeeps == ASSUME IInv, Pass PROVE IInv'
<1> USE DEF IInv, TypeOK
<1>1. ASSUME NEW j \in JobId, PassStart(j) PROVE IInv'
  <2>1. /\ j \in Pending(jobs) /\ Unblocked(jobs, j) /\ Fits(jobs, j)
        /\ jobs' = StartJob(jobs, j)
    BY <1>1 DEF PassStart, Startable
  <2>2. DependencySatisfied(jobs, j) /\ ~AtArrayLimit(jobs, j)
    BY <2>1 DEF Unblocked
  <2>3. Good(jobs')
    BY <2>1, <2>2, StartJobKeeps
  <2>4. Rest
    BY <1>1 DEF PassStart, InPass, Rest, world
  <2>5. QED
    BY <2>3, <2>4, Combine
<1>2. ASSUME NEW j \in JobId, PassStumbles(j) PROVE IInv'
  BY <1>2, Combine DEF PassStumbles, AbandonPass, InPass, Rest, Phase, world
<1>3. ASSUME PassEnd PROVE IInv'
  BY <1>3, Combine DEF PassEnd, Rest, Phase, world
<1>4. QED
  BY <1>1, <1>2, <1>3 DEF Pass

(* Steps that leave the table alone. *)
LEMMA OthersKeep == ASSUME IInv, LoopStep \/ Failure \/ Restart \/ Tick PROVE IInv'
<1> USE DEF IInv, TypeOK
<1>1. UNCHANGED jobs
  BY DEF LoopStep, Failure, Crash, PassFails, Restart, Tick, world
<1>2. CASE LoopStep \/ Restart
  BY <1>1, <1>2, Combine DEF LoopStep, Restart, Rest, Phase, world
<1>3. CASE Failure
  <2>1. Rest
    BY <1>1, <1>3, CapacityAssumption DEF Failure, Crash, PassFails, AbandonPass, Rest, Phase
  <2>2. QED
    BY <1>1, <2>1, Combine
<1>4. CASE Tick
  BY <1>1, <1>4, Combine, CapacityAssumption DEF Tick, Rest
<1>5. QED
  BY <1>2, <1>3, <1>4

LEMMA StepKeeps == ASSUME IInv, [Next]_vars PROVE IInv'
<1>1. CASE Submit
  BY <1>1, SubmitKeeps
<1>2. CASE Control
  BY <1>2, StartStepKeeps, WaitingKeeps, EndingKeeps DEF Control
<1>3. CASE Ends
  BY <1>3, EndsKeeps
<1>4. CASE Pass
  BY <1>4, PassKeeps
<1>5. CASE LoopStep \/ Failure \/ Restart \/ Tick
  BY <1>5, OthersKeep
<1>6. CASE UNCHANGED vars
  BY <1>6, Combine DEF vars, IInv, TypeOK, Rest
<1>7. QED
  BY <1>1, <1>2, <1>3, <1>4, <1>5, <1>6 DEF Next

----------------------------------------------------------------------------
(* Theorems *)

THEOREM Invariant == Spec => []IInv
<1>1. Init => IInv
  BY InitHolds
<1>2. IInv /\ [Next]_vars => IInv'
  BY StepKeeps
<1>3. QED
  BY <1>1, <1>2, PTL DEF Spec

(* The table, the clock and the daemon's position keep their types. *)
THEOREM TypeCorrect == Spec => []TypeOK
<1>1. IInv => TypeOK
  BY DEF IInv
<1>2. QED
  BY <1>1, Invariant, PTL

(* Whatever the host's size and whoever submits, runs at once, updates,    *)
(* requeues, crashes: the running jobs' reservations fit the host.         *)
THEOREM CapacityHolds == Spec => []CapacityRespected
<1>1. IInv => CapacityRespected
  BY DEF IInv, Good, WithinHost, CapacityRespected
<1>2. QED
  BY <1>1, Invariant, PTL

(* An exclusive job runs beside no other job. *)
THEOREM ExclusiveRunsAlone == Spec => []ExclusiveAlone
<1>1. IInv => ExclusiveAlone
  BY DEF IInv, Good, Alone, ExclusiveAlone
<1>2. QED
  BY <1>1, Invariant, PTL

(* No GPU id is handed out to two running jobs. *)
THEOREM GpusNotShared == Spec => []GpuIdsDisjoint
<1>1. IInv => GpuIdsDisjoint
  BY DEF IInv, Good, IdsApart, GpuIdsDisjoint
<1>2. QED
  BY <1>1, Invariant, PTL

(* Two singletons of one name are never active together. *)
THEOREM SingletonsApart == Spec => []SingletonsNeverOverlap
<1>1. IInv => SingletonsNeverOverlap
  BY DEF IInv, Good, NamesApart, SingletonsNeverOverlap, Singleton, IsSingleton, Active
<1>2. QED
  BY <1>1, Invariant, PTL

(* No array has more tasks running than its %N. *)
THEOREM ArraysWithinLimits == Spec => []ArrayLimitRespected
<1>1. IInv => ArrayLimitRespected
  BY DEF IInv, Good, WithinLimits, ArrayLimitRespected, TopLevel
<1>2. QED
  BY <1>1, Invariant, PTL

(* What a dependency was satisfied by does not change while the job that   *)
(* waited for it runs.                                                     *)
THEOREM DependenciesStay == Spec => []DependencyStays
<1>1. ASSUME IInv,
             NEW j \in RunningTopLevel(jobs), NEW c \in Clauses(jobs[j].req), NEW i \in c.ids,
             ~jobs[i].req.alloc
      PROVE  /\ c.kind \in {"afterok", "afternotok", "afterany"} => jobs[i].state \in Terminal
             /\ c.kind = "afterok" => jobs[i].state = "COMPLETED"
             /\ c.kind = "afternotok" => jobs[i].state # "COMPLETED"
  <2>1. StillMet(jobs, c, i)
    BY <1>1 DEF IInv, Good, DependenciesMet
  <2>2. QED
    BY <1>1, <2>1 DEF StillMet
<1>2. IInv => DependencyStays
  BY <1>1 DEF DependencyStays
<1>3. QED
  BY <1>2, Invariant, PTL

(* Whenever the sums of admission let a job in, there are GPU ids enough   *)
(* for it, so that no launch fails for want of one.                        *)
THEOREM LaunchesFindGpus == Spec => []LaunchNeverShortOfGpus
<1>1. ASSUME IInv, NEW j \in JobId, Startable(jobs, j)
      PROVE  LaunchPossible(jobs, j)
  <2>1. WellFormed(jobs) /\ j \in Rows(jobs)
    BY <1>1 DEF IInv, Good, Startable, Pending, InState, Rows
  <2>2. jobs[j].req.gpus \in Nat
    BY <2>1, GoodRow DEF WellFormed
  <2>3. IsGpuPartition(jobs[j].partition) => jobs[j].req.gpus <= SaturatingSub(TotalGpus, UsedGpus(jobs))
    BY <1>1 DEF Startable, Fits, ResourcesFit
  <2>4. QED
    BY <2>1, <2>2, <2>3, EnoughIds DEF LaunchPossible
<1>2. IInv => LaunchNeverShortOfGpus
  BY <1>1 DEF LaunchNeverShortOfGpus
<1>3. QED
  BY <1>2, Invariant, PTL

----------------------------------------------------------------------------
(* The order of a pass *)

(* A job outside any array is a group of its own. *)
LEMMA AloneInGroup ==
    ASSUME NEW t, WellFormed(t), NEW k \in Pending(t), t[k].array = 0
    PROVE  PendingGroup(t, k) = {k} /\ Round(t, k) = 0 /\ TopOfGroup(t, k) = k
<1>1. k \in Rows(t) /\ k \in JobId
  BY DEF Pending, TopLevel, Rows
<1>2. ASSUME NEW i \in Pending(t), GroupKey(t, i) = GroupKey(t, k) PROVE i = k
  <2>1. i \in Rows(t)
    BY DEF Pending, TopLevel
  <2>2. QED
    BY <1>1, <1>2, <2>1 DEF GroupKey, WellFormed
<1>3. PendingGroup(t, k) = {k}
  BY <1>2 DEF PendingGroup
<1>4. t[k].priority \in Int
  BY <1>1, GoodRow DEF WellFormed, Row
<1>5. {i \in PendingGroup(t, k) : Better(t, i, k)} = {}
  BY <1>1, <1>3, <1>4 DEF Better, JobId
<1>6. Round(t, k) = 0
  BY <1>5, FS_EmptySet DEF Round
<1>7. QED
  BY <1>3, <1>6 DEF TopOfGroup

(* A job that is read in the first round is the best of its group. *)
LEMMA FirstOfGroup ==
    ASSUME NEW t, WellFormed(t), NEW i \in Pending(t)
    PROVE  Round(t, i) \in Nat /\ (Round(t, i) = 0 => TopOfGroup(t, i) = i)
<1> DEFINE before == {m \in PendingGroup(t, i) : Better(t, m, i)}
<1>1. Pending(t) \subseteq Rows(t)
  BY DEF Pending, TopLevel
<1>2. \A m \in Pending(t) : m \in Int /\ t[m].priority \in Int
  BY <1>1, GoodRow DEF WellFormed, Row, Rows, JobId
<1>3. before \subseteq JobId
  BY DEF PendingGroup, Pending, TopLevel, Rows
<1>4. IsFiniteSet(JobId)
  BY StoreAssumption, FS_Interval DEF JobId
<1>5. IsFiniteSet(before)
  BY <1>3, <1>4, FS_Subset
<1>6. Cardinality(before) \in Nat /\ (Cardinality(before) = 0 <=> before = {})
  BY <1>5, FS_CardinalityType, FS_EmptySet
<1>7. ASSUME before = {} PROVE TopOfGroup(t, i) = i
  <2> DEFINE G == PendingGroup(t, i)
  <2>1. i \in G /\ G \subseteq Pending(t)
    BY DEF PendingGroup
  <2>2. \A m \in G \ {i} : Better(t, i, m)
    BY <1>2, <1>7, <2>1 DEF Better
  <2>3. \A n \in G : (\A m \in G \ {n} : Better(t, n, m)) => n = i
    BY <1>2, <2>1, <2>2 DEF Better
  <2> HIDE DEF G
  <2>4. QED
    BY <2>1, <2>2, <2>3 DEF TopOfGroup, G
<1>8. QED
  BY <1>6, <1>7 DEF Round

(* So nothing outside the arrays is overtaken by a job of lesser priority. *)
LEMMA BetterPrecedes ==
    ASSUME NEW t, WellFormed(t), NEW i \in Pending(t), NEW k \in Pending(t),
           t[k].array = 0, Better(t, k, i)
    PROVE  Precedes(t, k, i)
<1>1. i \in Int /\ t[i].priority \in Int
  BY GoodRow DEF WellFormed, Row, Rows, JobId, Pending, TopLevel
<1>2. /\ PendingGroup(t, k) = {k} /\ Round(t, k) = 0 /\ TopOfGroup(t, k) = k
      /\ Round(t, i) \in Nat /\ (Round(t, i) = 0 => TopOfGroup(t, i) = i)
  BY AloneInGroup, FirstOfGroup
<1>3. i # k
  BY <1>1 DEF Better
<1>4. GroupKey(t, i) # GroupKey(t, k)
  BY <1>2, <1>3 DEF PendingGroup
<1>5. QED
  BY <1>2, <1>4 DEF Precedes

(* Only the pass starts a job while the daemon is in one. *)
LEMMA StartsInPass ==
    ASSUME Next, NEW i \in JobId, StartedByPass(i)
    PROVE  PassStart(i)
<1>1. CASE Submit
  BY <1>1 DEF Submit, SubmitBatch, SubmitRun, SubmitAlloc, StartedByPass, InPass
<1>2. CASE Control
  BY <1>2 DEF Control, StartStep, Hold, Release, Update, CancelWaiting, Terminate,
              StartedByPass, InPass
<1>3. CASE Ends
  BY <1>3 DEF Ends, JobEnds, FinishAllocation, GraceEnds, StartedByPass, InPass
<1>4. CASE Pass
  <2>1. PICK j \in JobId : PassStart(j)
    BY <1>4 DEF Pass, PassEnd, PassStumbles, StartedByPass
  <2>2. ASSUME i # j PROVE jobs'[i] = jobs[i]
    BY <2>1, <2>2 DEF PassStart, StartJob, MarkAllocationRunning, MarkRunning
  <2>3. QED
    BY <2>1, <2>2 DEF StartedByPass
<1>5. CASE LoopStep \/ Failure \/ Restart \/ Tick
  BY <1>5 DEF LoopStep, Failure, Crash, PassFails, Restart, Tick, StartedByPass
<1>6. QED
  BY <1>1, <1>2, <1>3, <1>4, <1>5 DEF Next

(* A pass starts no job while a better one outside any array could start:  *)
(* neither the grouping by array nor beginning again after each launch     *)
(* puts it behind.                                                         *)
THEOREM PriorityHonoured == Spec => PassHonoursPriority
<1> DEFINE Honoured ==
        \A i, k \in JobId :
            StartedByPass(i) /\ Startable(jobs, k) /\ jobs[k].array = 0
            => /\ jobs[k].priority <= jobs[i].priority
               /\ jobs[k].priority = jobs[i].priority => i <= k
<1>1. ASSUME IInv, Next, NEW i \in JobId, NEW k \in JobId,
             StartedByPass(i), Startable(jobs, k), jobs[k].array = 0
      PROVE  /\ jobs[k].priority <= jobs[i].priority
             /\ jobs[k].priority = jobs[i].priority => i <= k
  <2>1. PassStart(i)
    BY <1>1, StartsInPass
  <2>2. WellFormed(jobs) /\ i \in Pending(jobs) /\ k \in Pending(jobs)
    BY <1>1, <2>1 DEF IInv, Good, PassStart, Startable
  <2>3. ~Better(jobs, k, i)
    BY <1>1, <2>1, <2>2, BetterPrecedes DEF PassStart, Reached
  <2>4. /\ i \in Int /\ k \in Int
        /\ jobs[i].priority \in Int /\ jobs[k].priority \in Int
    BY <2>2, GoodRow DEF WellFormed, Row, Rows, JobId, Pending, TopLevel
  <2>5. QED
    BY <2>3, <2>4 DEF Better
<1>2. ASSUME IInv, [Next]_vars PROVE [Honoured]_vars
  BY <1>1, <1>2
<1>3. QED
  BY <1>2, Invariant, PTL DEF PassHonoursPriority, Spec
=============================================================================
