--------------------------- MODULE ReportsProofs ---------------------------
(***************************************************************************)
(* Theorems about Reports, for any host and any submissions: sinfo's sums  *)
(* are those of admission, "alloc" means that nothing starts, squeue       *)
(* --start never puts off a job that the next pass starts, and the loop of *)
(* order_pending_jobs reads the queue in its order.                        *)
(*                                                                         *)
(* The reports are state functions of the table, so all of them follow     *)
(* from the scheduler's inductive invariant and from how sums over rows    *)
(* split and grow.                                                         *)
(***************************************************************************)
EXTENDS SchedulerProofs, Reports, SequenceTheorems

----------------------------------------------------------------------------
(* Sums over rows *)

RequestColumn(t, S, field) == [j \in S |-> t[j].req[field]]

LEMMA RowSlotsFinite ==
    ASSUME NEW t \in Table, NEW field \in Counted
    PROVE  \A S \in SUBSET Rows(t) : IsFiniteSet(UNION {{j} \X (1 .. t[j].req[field]) : j \in S})
<1> TAKE S \in SUBSET Rows(t)
<1> DEFINE f == RequestColumn(t, S, field)
<1>1. S \in SUBSET JobId
  BY DEF Rows
<1>2. f \in [S -> Nat] /\ \A j \in S : f[j] = t[j].req[field]
  BY GoodRow DEF RequestColumn, Counted
<1> HIDE DEF f
<1>3. IsFiniteSet(UNION {{j} \X (1 .. f[j]) : j \in S})
  BY <1>1, <1>2, SlotsFinite
<1>4. \A j \in S : {j} \X (1 .. t[j].req[field]) = {j} \X (1 .. f[j])
  BY <1>2
<1>5. UNION {{j} \X (1 .. t[j].req[field]) : j \in S} = UNION {{j} \X (1 .. f[j]) : j \in S}
  BY <1>4
<1>6. QED
  BY <1>3, <1>5

LEMMA SumIsNumber ==
    ASSUME NEW t \in Table, NEW S \in SUBSET Rows(t), NEW field \in Counted
    PROVE  Sum(t, S, field) \in Nat
BY RowSlotsFinite, FS_CardinalityType DEF Sum

(* More rows reserve no less. *)
LEMMA SumGrows ==
    ASSUME NEW t \in Table, NEW T \in SUBSET Rows(t), NEW S \in SUBSET T, NEW field \in Counted
    PROVE  Sum(t, S, field) <= Sum(t, T, field)
<1> DEFINE F == UNION {{j} \X (1 .. t[j].req[field]) : j \in S}
           G == UNION {{j} \X (1 .. t[j].req[field]) : j \in T}
<1>1. F \in SUBSET G
  OBVIOUS
<1>2. IsFiniteSet(G)
  BY RowSlotsFinite
<1>3. Sum(t, S, field) = Cardinality(F) /\ Sum(t, T, field) = Cardinality(G)
  BY DEF Sum
<1> HIDE DEF F, G
<1>4. QED
  BY <1>1, <1>2, <1>3, FS_Subset

(* Rows of two sets that have none in common reserve together what the     *)
(* sets do.                                                                *)
LEMMA SumSplits ==
    ASSUME NEW t \in Table, NEW S \in SUBSET Rows(t), NEW T \in SUBSET Rows(t),
           S \cap T = {}, NEW field \in Counted
    PROVE  Sum(t, S \cup T, field) = Sum(t, S, field) + Sum(t, T, field)
<1> DEFINE F == UNION {{j} \X (1 .. t[j].req[field]) : j \in S}
           G == UNION {{j} \X (1 .. t[j].req[field]) : j \in T}
<1>1. UNION {{j} \X (1 .. t[j].req[field]) : j \in S \cup T} = F \cup G
  OBVIOUS
<1>2. F \cap G = {}
  <2>1. (\A x \in F : x[1] \in S) /\ (\A x \in G : x[1] \in T)
    OBVIOUS
  <2> HIDE DEF F, G
  <2>2. QED
    BY <2>1
<1>3. IsFiniteSet(F) /\ IsFiniteSet(G)
  BY RowSlotsFinite
<1>4. /\ Sum(t, S, field) = Cardinality(F) /\ Sum(t, T, field) = Cardinality(G)
      /\ Sum(t, S \cup T, field) = Cardinality(F \cup G)
  BY <1>1 DEF Sum
<1> HIDE DEF F, G
<1>5. Cardinality(F) \in Nat /\ Cardinality(G) \in Nat /\ Cardinality(F \cap G) = 0
  BY <1>2, <1>3, FS_CardinalityType, FS_EmptySet
<1>6. Cardinality(F \cup G) = Cardinality(F) + Cardinality(G) - Cardinality(F \cap G)
  BY <1>3, FS_Union
<1>7. QED
  BY <1>4, <1>5, <1>6

(* Admission's sums are sums over the running top-level rows. *)
LEMMA UsedIsSum ==
    ASSUME NEW t \in Table
    PROVE  /\ RunningTopLevel(t) \in SUBSET Rows(t)
           /\ UsedCpus(t) = Sum(t, RunningTopLevel(t), "cpus")
           /\ UsedMem(t) = Sum(t, RunningTopLevel(t), "mem")
           /\ UsedGpus(t) = Sum(t, RunningTopLevel(t), "gpus")
           /\ UsedCpus(t) \in Nat /\ UsedMem(t) \in Nat /\ UsedGpus(t) \in Nat
<1>1. RunningTopLevel(t) \in SUBSET Rows(t)
  BY UsedIsReserved
<1>2. \A field \in Counted : Sum(t, RunningTopLevel(t), field) \in Nat
  BY <1>1, SumIsNumber
<1>3. /\ UsedCpus(t) = Sum(t, RunningTopLevel(t), "cpus")
      /\ UsedMem(t) = Sum(t, RunningTopLevel(t), "mem")
      /\ UsedGpus(t) = Sum(t, RunningTopLevel(t), "gpus")
  BY DEF UsedCpus, UsedMem, UsedGpus, CpuSlots, MemSlots, GpuSlots, Sum
<1>4. QED
  BY <1>1, <1>2, <1>3 DEF Counted

(* What a set of rows without the waiting job leaves free. *)
LEMMA LessIsFree ==
    ASSUME NEW total \in Nat, NEW used \in Nat, NEW more \in Nat, used <= more
    PROVE  SaturatingSub(total, more) <= SaturatingSub(total, used)
BY DEF SaturatingSub

----------------------------------------------------------------------------
(* squeue --start *)

(* A job that may start has the time "now": what -p leaves out of the      *)
(* listing only leaves more room than admission sees.                      *)
LEMMA StartableIsNow ==
    ASSUME NEW t \in Table, now \in Nat, NEW j \in Pending(t), Startable(t, j),
           NEW partitions
    PROVE  Estimate(t, Listed(t, partitions), j) = {"now"}
<1> DEFINE listed == Listed(t, partitions)
           busy == listed \cap Running(t)
<1>1. /\ j \in Rows(t) /\ t[j].state = "PENDING" /\ t[j].req.begin <= now
      /\ ResourcesFit(t, t[j].partition, t[j].req)
  BY DEF Startable, Unblocked, Fits, Pending, InState, TopLevel
<1>2. /\ t[j].req.cpus \in Nat /\ t[j].req.mem \in Nat /\ t[j].req.gpus \in Nat
      /\ t[j].req.begin \in Nat
  BY <1>1, GoodRow DEF Request
<1>3. busy \subseteq RunningTopLevel(t) /\ RunningTopLevel(t) \in SUBSET Rows(t)
  BY UsedIsSum DEF Listed, RunningTopLevel
<1> HIDE DEF busy
<1>4. ASSUME NEW field \in Counted
      PROVE  /\ Sum(t, busy, field) \in Nat /\ Sum(t, RunningTopLevel(t), field) \in Nat
             /\ Sum(t, busy, field) <= Sum(t, RunningTopLevel(t), field)
  BY <1>3, SumIsNumber, SumGrows
<1>5. /\ SaturatingSub(TotalCpus, UsedCpus(t)) <= SaturatingSub(TotalCpus, Sum(t, busy, "cpus"))
      /\ SaturatingSub(TotalMem, UsedMem(t)) <= SaturatingSub(TotalMem, Sum(t, busy, "mem"))
      /\ SaturatingSub(TotalGpus, UsedGpus(t)) <= SaturatingSub(TotalGpus, Sum(t, busy, "gpus"))
  BY <1>4, LessIsFree, UsedIsSum, CapacityAssumption, StoreAssumption DEF Counted
<1>6. /\ SaturatingSub(TotalCpus, UsedCpus(t)) \in Nat
      /\ SaturatingSub(TotalMem, UsedMem(t)) \in Nat
      /\ SaturatingSub(TotalGpus, UsedGpus(t)) \in Nat
      /\ SaturatingSub(TotalCpus, Sum(t, busy, "cpus")) \in Nat
      /\ SaturatingSub(TotalMem, Sum(t, busy, "mem")) \in Nat
      /\ SaturatingSub(TotalGpus, Sum(t, busy, "gpus")) \in Nat
  BY <1>4, UsedIsSum, CapacityAssumption, StoreAssumption DEF Counted, SaturatingSub
<1>7. FitsListed(t, listed, j)
  BY <1>1, <1>2, <1>5, <1>6 DEF FitsListed, ResourcesFit, busy
<1> HIDE DEF listed
<1>8. QED
  BY <1>1, <1>2, <1>7 DEF Estimate, listed

(* No startable job is told a time that is yet to come, whichever          *)
(* partitions squeue --start was asked for.                                *)
THEOREM EstimatesAreNow == Spec => []EstimateNeverLate
<1>1. ASSUME IInv, NEW j \in Pending(jobs), Startable(jobs, j), NEW partitions
      PROVE  Estimate(jobs, Listed(jobs, partitions), j) = {"now"}
  <2>1. jobs \in Table /\ now \in Nat
    BY <1>1, CapacityAssumption DEF IInv, TypeOK
  <2>2. QED
    BY <1>1, <2>1, StartableIsNow
<1>2. IInv => EstimateNeverLate
  BY <1>1 DEF EstimateNeverLate
<1>3. QED
  BY <1>2, Invariant, PTL

----------------------------------------------------------------------------
(* sinfo *)

(* A partition's rows are rows that admission counts. *)
LEMMA PartitionRows ==
    ASSUME NEW t \in Table, NEW p
    PROVE  RunningIn(t, p) \subseteq RunningTopLevel(t) /\ RunningIn(t, p) \in SUBSET Rows(t)
BY UsedIsSum DEF RunningIn

(* A full CPU partition leaves no CPU to start with. *)
LEMMA AllocIsFull ==
    ASSUME NEW t \in Table, NEW p, ~IsGpuPartition(p), PartitionState(t, p) = "alloc",
           NEW j \in Rows(t), t[j].req.cpus > 0
    PROVE  ~Fits(t, j)
<1> DEFINE used == Sum(t, RunningIn(t, p), "cpus")
<1>1. used \in Nat /\ used <= UsedCpus(t) /\ UsedCpus(t) \in Nat
  <2>1. "cpus" \in Counted
    BY DEF Counted
  <2>2. QED
    BY <2>1, PartitionRows, SumIsNumber, SumGrows, UsedIsSum
<1>2. Stats(t, p).cpus = used
  BY DEF Stats
<1>3. used >= TotalCpus
  BY <1>2 DEF PartitionState, Level
<1>4. t[j].req.cpus \in Nat
  BY GoodRow
<1> HIDE DEF used
<1>5. SaturatingSub(TotalCpus, UsedCpus(t)) = 0
  BY <1>1, <1>3, CapacityAssumption DEF SaturatingSub
<1>6. QED
  BY <1>4, <1>5 DEF Fits, ResourcesFit

(* Where the lists put a partition: CPU partitions come first. *)
LEMMA PlacesOfPartitions ==
    /\ Len(CpuPartitions) \in Nat /\ Len(CpuPartitions) > 0 /\ Len(GpuPartitions) \in Nat
    /\ DOMAIN ActivePartitions = 1 .. Len(CpuPartitions) + Len(GpuPartitions)
    /\ \A n \in 1 .. Len(CpuPartitions) : ActivePartitions[n] = CpuPartitions[n]
    /\ DOMAIN GpuPartitions = 1 .. Len(GpuPartitions)
    /\ \A n \in DOMAIN GpuPartitions :
          ActivePartitions[Len(CpuPartitions) + n] = GpuPartitions[n]
<1>1. /\ CpuPartitions \in Seq(STRING) /\ CpuPartitions # <<>>
      /\ GpuPartitions \in Seq(STRING)
  BY PartitionAssumption
<1>2. QED
  BY <1>1 DEF ActivePartitions

(* Listed once, a partition is a GPU partition where the GPU list has it. *)
LEMMA GpuPlaces ==
    ASSUME EachListedOnce, NEW n \in DOMAIN ActivePartitions
    PROVE  IsGpuPartition(ActivePartitions[n]) <=> n > Len(CpuPartitions)
<1>1. ASSUME n > Len(CpuPartitions)
      PROVE  IsGpuPartition(ActivePartitions[n])
  <2> DEFINE k == n - Len(CpuPartitions)
  <2>1. k \in DOMAIN GpuPartitions /\ n = Len(CpuPartitions) + k
    BY <1>1, PlacesOfPartitions
  <2>2. ActivePartitions[n] = GpuPartitions[k]
    BY <2>1, PlacesOfPartitions
  <2>3. QED
    BY <2>1, <2>2 DEF IsGpuPartition
<1>2. ASSUME IsGpuPartition(ActivePartitions[n])
      PROVE  n > Len(CpuPartitions)
  <2>1. PICK k \in DOMAIN GpuPartitions : GpuPartitions[k] = ActivePartitions[n]
    BY <1>2 DEF IsGpuPartition
  <2> DEFINE m == Len(CpuPartitions) + k
  <2>2. m \in DOMAIN ActivePartitions /\ m > Len(CpuPartitions)
    BY PlacesOfPartitions
  <2>3. ActivePartitions[m] = ActivePartitions[n]
    BY <2>1, PlacesOfPartitions
  <2>4. m = n
    BY <2>2, <2>3 DEF EachListedOnce
  <2>5. QED
    BY <2>2, <2>4
<1>3. QED
  BY <1>1, <1>2

(* `-c 0` is accepted, and such a job fits a full host. *)
AllAskForCpus == \A r \in Requests : r.cpus > 0

(* When sinfo calls the node, or a CPU partition, "alloc", no waiting job  *)
(* that asks for a CPU can start.                                          *)
THEOREM AllocIsTrue == AllAskForCpus => (Spec => []AllocMeansFull)
<1> SUFFICES ASSUME AllAskForCpus PROVE Spec => []AllocMeansFull
  OBVIOUS
<1>1. ASSUME IInv, NEW j \in Pending(jobs), Startable(jobs, j), NEW p, ~IsGpuPartition(p)
      PROVE  PartitionState(jobs, p) \in {"idle", "mix"}
  <2>1. jobs \in Table /\ j \in Rows(jobs) /\ Fits(jobs, j)
    BY <1>1 DEF IInv, TypeOK, Startable, Pending, TopLevel
  <2>2. jobs[j].req.cpus > 0
    BY <2>1, GoodRow DEF Row, AllAskForCpus
  <2>3. PartitionState(jobs, p) # "alloc"
    BY <1>1, <2>1, <2>2, AllocIsFull
  <2>4. QED
    BY <2>3 DEF PartitionState, Level
<1>2. ASSUME IInv, NEW j \in Pending(jobs), Startable(jobs, j), EachListedOnce
      PROVE  NodeState(jobs, ActivePartitions) # "alloc"
  <2>1. 1 \in DOMAIN ActivePartitions /\ ~IsGpuPartition(ActivePartitions[1])
    BY <1>2, PlacesOfPartitions, GpuPlaces
  <2>2. PartitionState(jobs, ActivePartitions[1]) \in {"idle", "mix"}
    BY <1>1, <1>2, <2>1
  <2>3. QED
    BY <2>1, <2>2 DEF NodeState
<1>3. IInv => AllocMeansFull
  BY <1>1, <1>2 DEF AllocMeansFull
<1>4. QED
  BY <1>3, Invariant, PTL

----------------------------------------------------------------------------
(* The sums of the node row *)

(* All covers the finite sets A[n], which are apart, and Slots numbers the *)
(* elements of each.                                                       *)
Apart(D, A) ==
    /\ \A n \in D : IsFiniteSet(A[n])
    /\ \A m, n \in D : m # n => A[m] \cap A[n] = {}
Covers(All, D, A) == \A x : x \in All <=> \E n \in D : x \in A[n]
Numbers(Slots, D, A) == \A s : s \in Slots <=> \E n \in D : s \in {n} \X (1 .. Cardinality(A[n]))

(* Sets that have nothing in common count together what each of them does: *)
(* the k-th of A[n] is paired with <<n, k>>.                               *)
LEMMA FiguresAddUp ==
    ASSUME NEW D, NEW A, Apart(D, A), NEW All, IsFiniteSet(All), Covers(All, D, A),
           NEW Slots, Numbers(Slots, D, A)
    PROVE  Cardinality(Slots) = Cardinality(All)
<1> USE DEF Apart, Covers, Numbers
<1> DEFINE count == [n \in D |-> CHOOSE f : f \in Bijection(A[n], 1 .. Cardinality(A[n]))]
           owner == [x \in All |-> CHOOSE n \in D : x \in A[n]]
           slot == [x \in All |-> <<owner[x], count[owner[x]][x]>>]
<1>1. ASSUME NEW n \in D
      PROVE  count[n] \in Bijection(A[n], 1 .. Cardinality(A[n]))
  <2>1. IsFiniteSet(A[n]) /\ Cardinality(A[n]) \in Nat
    BY FS_CardinalityType
  <2>2. /\ IsFiniteSet(1 .. Cardinality(A[n]))
        /\ Cardinality(1 .. Cardinality(A[n])) = Cardinality(A[n])
    BY <2>1, FS_Interval
  <2>3. ExistsBijection(A[n], 1 .. Cardinality(A[n]))
    BY <2>1, <2>2, FS_SameCardinalityBij
  <2>4. QED
    BY <2>3 DEF ExistsBijection
<1>2. \A x \in All : owner[x] \in D /\ x \in A[owner[x]]
  OBVIOUS
<1>3. \A x \in All : slot[x] = <<owner[x], count[owner[x]][x]>>
  OBVIOUS
<1>4. \A n \in D : \A x \in A[n] : x \in All /\ owner[x] = n
  BY <1>2
<1> HIDE DEF count, owner
<1>5. ASSUME NEW n \in D
      PROVE  /\ \A x \in A[n] : count[n][x] \in 1 .. Cardinality(A[n])
             /\ \A x, y \in A[n] : count[n][x] = count[n][y] => x = y
             /\ \A k \in 1 .. Cardinality(A[n]) : \E x \in A[n] : count[n][x] = k
  BY <1>1 DEF Bijection, Injection, IsInjective, Surjection
<1>6. slot \in [All -> Slots]
  <2>1. ASSUME NEW x \in All PROVE slot[x] \in Slots
    <3>1. /\ owner[x] \in D
          /\ count[owner[x]][x] \in 1 .. Cardinality(A[owner[x]])
      BY <1>2, <1>5
    <3>2. slot[x] \in {owner[x]} \X (1 .. Cardinality(A[owner[x]]))
      BY <1>3, <3>1
    <3>3. QED
      BY <3>1, <3>2
  <2>2. QED
    BY <2>1
<1> HIDE DEF slot
<1>7. \A x, y \in All : slot[x] = slot[y] => x = y
  <2>1. ASSUME NEW x \in All, NEW y \in All, slot[x] = slot[y] PROVE x = y
    <3>1. owner[x] = owner[y] /\ count[owner[x]][x] = count[owner[y]][y]
      BY <1>3, <2>1
    <3>2. QED
      BY <1>2, <1>5, <3>1
  <2>2. QED
    BY <2>1
<1>8. \A s \in Slots : \E x \in All : slot[x] = s
  <2>1. ASSUME NEW s \in Slots PROVE \E x \in All : slot[x] = s
    <3>1. PICK n \in D : s \in {n} \X (1 .. Cardinality(A[n]))
      OBVIOUS
    <3>2. PICK k \in 1 .. Cardinality(A[n]) : s = <<n, k>>
      BY <3>1
    <3>3. PICK x \in A[n] : count[n][x] = k
      BY <1>5
    <3>4. x \in All /\ slot[x] = <<n, k>>
      BY <1>3, <1>4, <3>3
    <3>5. QED
      BY <3>2, <3>4
  <2>2. QED
    BY <2>1
<1>9. slot \in Bijection(All, Slots)
  BY <1>6, <1>7, <1>8 DEF Bijection, Injection, IsInjective, Surjection
<1>10. IsFiniteSet(All) /\ ExistsBijection(All, Slots)
  BY <1>9 DEF ExistsBijection
<1>11. QED
  BY <1>10, FS_Bijection

LEMMA RowsFinite == ASSUME NEW t, NEW S \in SUBSET Rows(t) PROVE IsFiniteSet(S)
<1>1. IsFiniteSet(1 .. MaxJobs)
  BY StoreAssumption, FS_Interval
<1>2. QED
  BY <1>1, FS_Subset DEF Rows, JobId

(* Rows of S, by the partitions listed. *)
InPlace(t, S, n) == {j \in S : t[j].partition = ActivePartitions[n]}
Housed(t, S) == {j \in S : t[j].partition \in Partitions}

LEMMA PlacesApart ==
    ASSUME EachListedOnce, NEW t, NEW S \in SUBSET Rows(t)
    PROVE  /\ UNION {InPlace(t, S, n) : n \in DOMAIN ActivePartitions} = Housed(t, S)
           /\ \A n \in DOMAIN ActivePartitions : InPlace(t, S, n) \in SUBSET Rows(t)
           /\ \A m, n \in DOMAIN ActivePartitions :
                 m # n => InPlace(t, S, m) \cap InPlace(t, S, n) = {}
BY DEF InPlace, Housed, Partitions, EachListedOnce

(* Rows are counted once, in the partition they are in. *)
LEMMA CountsAddUp ==
    ASSUME EachListedOnce, NEW t, NEW S \in SUBSET Rows(t)
    PROVE  Cardinality(UNION {{n} \X (1 .. Cardinality(InPlace(t, S, n))) : n \in DOMAIN ActivePartitions})
             = Cardinality(Housed(t, S))
<1> DEFINE D == DOMAIN ActivePartitions
           All == Housed(t, S)
           Slots == UNION {{n} \X (1 .. Cardinality(InPlace(t, S, n))) : n \in D}
           A == [n \in D |-> InPlace(t, S, n)]
<1>1. /\ \A n \in D : A[n] = InPlace(t, S, n) /\ IsFiniteSet(A[n])
      /\ \A m, n \in D : m # n => A[m] \cap A[n] = {}
  BY PlacesApart, RowsFinite
<1>2. IsFiniteSet(All)
  BY RowsFinite DEF Housed
<1> HIDE DEF A
<1>3. \A x : x \in All <=> \E n \in D : x \in A[n]
  <2>1. \A x : x \in All <=> \E n \in D : x \in InPlace(t, S, n)
    BY DEF InPlace, Housed, Partitions
  <2> HIDE DEF All, D
  <2>2. QED
    BY ONLY <1>1, <2>1
<1>4. \A s : s \in Slots <=> \E n \in D : s \in {n} \X (1 .. Cardinality(A[n]))
  BY <1>1
<1> HIDE DEF D, Slots, All
<1>5. Apart(D, A) /\ Covers(All, D, A) /\ Numbers(Slots, D, A)
  BY <1>1, <1>3, <1>4 DEF Apart, Covers, Numbers
<1>6. QED
  BY <1>2, <1>5, FiguresAddUp DEF D, Slots, All

(* And so is what they reserve. *)
SlotsOf(t, S, field) == UNION {{j} \X (1 .. t[j].req[field]) : j \in S}

LEMMA SumsAddUp ==
    ASSUME EachListedOnce, NEW t \in Table, NEW S \in SUBSET Rows(t), NEW field \in Counted
    PROVE  Cardinality(UNION {{n} \X (1 .. Sum(t, InPlace(t, S, n), field)) : n \in DOMAIN ActivePartitions})
             = Sum(t, Housed(t, S), field)
<1> DEFINE D == DOMAIN ActivePartitions
           Slots == UNION {{n} \X (1 .. Sum(t, InPlace(t, S, n), field)) : n \in D}
           All == SlotsOf(t, Housed(t, S), field)
           A == [n \in D |-> SlotsOf(t, InPlace(t, S, n), field)]
<1>1. Housed(t, S) \in SUBSET Rows(t)
  BY DEF Housed
<1>2. \A T \in SUBSET Rows(t) : IsFiniteSet(SlotsOf(t, T, field))
  BY RowSlotsFinite DEF SlotsOf
<1>3. \A n \in D : A[n] = SlotsOf(t, InPlace(t, S, n), field) /\ IsFiniteSet(A[n])
  BY <1>2, PlacesApart
<1>4. ASSUME NEW m \in D, NEW n \in D, m # n PROVE A[m] \cap A[n] = {}
  <2>1. InPlace(t, S, m) \cap InPlace(t, S, n) = {}
    BY <1>4, PlacesApart
  <2>2. \A T : \A x \in SlotsOf(t, T, field) : x[1] \in T
    BY DEF SlotsOf
  <2>3. QED
    BY <1>3, <2>1, <2>2
<1>5. \A x : x \in All <=> \E n \in D : x \in A[n]
  <2>1. \A n \in D : InPlace(t, S, n) \subseteq Housed(t, S)
    BY DEF InPlace, Housed, Partitions
  <2>2. \A j \in Housed(t, S) : \E n \in D : j \in InPlace(t, S, n)
    BY DEF InPlace, Housed, Partitions
  <2>3. ASSUME NEW x \in All PROVE \E n \in D : x \in A[n]
    <3>1. PICK j \in Housed(t, S) : x \in {j} \X (1 .. t[j].req[field])
      BY DEF SlotsOf
    <3>2. PICK n \in D : j \in InPlace(t, S, n)
      BY <2>2
    <3>3. QED
      BY <1>3, <3>1, <3>2 DEF SlotsOf
  <2>4. ASSUME NEW n \in D, NEW x \in A[n] PROVE x \in All
    BY <1>3, <2>1, <2>4 DEF SlotsOf
  <2> HIDE DEF A, D, All
  <2>5. QED
    BY <2>3, <2>4
<1>6. \A n \in D : Sum(t, InPlace(t, S, n), field) = Cardinality(A[n])
  BY <1>3 DEF Sum, SlotsOf
<1> HIDE DEF A
<1>7. \A s : s \in Slots <=> \E n \in D : s \in {n} \X (1 .. Cardinality(A[n]))
  BY <1>6
<1>8. IsFiniteSet(All)
  BY <1>1, <1>2
<1> HIDE DEF D, Slots, All
<1>9. Apart(D, A) /\ Covers(All, D, A) /\ Numbers(Slots, D, A)
  BY <1>3, <1>4, <1>5, <1>7 DEF Apart, Covers, Numbers
<1>10. Cardinality(Slots) = Cardinality(All)
  BY <1>8, <1>9, FiguresAddUp
<1>11. QED
  BY <1>10 DEF D, Slots, All, Sum, SlotsOf

(* Each figure of the node is that of all rows in a listed partition. *)
LEMMA NodeAddsUp ==
    ASSUME EachListedOnce, NEW t \in Table
    PROVE  LET node == Node(t, ActivePartitions)
               in == Housed(t, RunningTopLevel(t))
           IN  /\ node.cpus = Sum(t, in, "cpus") /\ node.mem = Sum(t, in, "mem")
               /\ node.gpus = Sum(t, in, "gpus")
               /\ node.running = Cardinality(in)
               /\ node.pending = Cardinality(Housed(t, Pending(t)))
               /\ node.ids = FirstGpuIds(t, ActivePartitions)
<1> DEFINE D == DOMAIN ActivePartitions
           R == RunningTopLevel(t)
           P == Pending(t)
           Total(field) ==
               Cardinality(UNION {{n} \X (1 .. Stats(t, ActivePartitions[n])[field]) : n \in D})
<1>1. R \in SUBSET Rows(t) /\ P \in SUBSET Rows(t)
  BY UsedIsSum DEF Pending, TopLevel
<1>2. \A n \in D : /\ RunningIn(t, ActivePartitions[n]) = InPlace(t, R, n)
                   /\ PendingIn(t, ActivePartitions[n]) = InPlace(t, P, n)
  BY DEF RunningIn, PendingIn, InPlace
<1>3. \A n \in D :
         LET stats == Stats(t, ActivePartitions[n])
         IN  /\ stats["cpus"] = Sum(t, InPlace(t, R, n), "cpus")
             /\ stats["mem"] = Sum(t, InPlace(t, R, n), "mem")
             /\ stats["gpus"] = Sum(t, InPlace(t, R, n), "gpus")
             /\ stats["running"] = Cardinality(InPlace(t, R, n))
             /\ stats["pending"] = Cardinality(InPlace(t, P, n))
  BY <1>2 DEF Stats
<1>4. Node(t, ActivePartitions) =
        [cpus |-> Total("cpus"), mem |-> Total("mem"), gpus |-> Total("gpus"),
         running |-> Total("running"), pending |-> Total("pending"),
         ids |-> FirstGpuIds(t, ActivePartitions)]
  BY DEF Node
<1> HIDE DEF R, P
<1>5. \A field \in Counted : Total(field) = Sum(t, Housed(t, R), field)
  <2>1. ASSUME NEW field \in Counted PROVE Total(field) = Sum(t, Housed(t, R), field)
    <3>1. \A n \in D : Stats(t, ActivePartitions[n])[field] = Sum(t, InPlace(t, R, n), field)
      BY <1>3 DEF Counted
    <3>2. UNION {{n} \X (1 .. Stats(t, ActivePartitions[n])[field]) : n \in D}
            = UNION {{n} \X (1 .. Sum(t, InPlace(t, R, n), field)) : n \in D}
      BY <3>1
    <3>3. QED
      BY <1>1, <3>2, SumsAddUp
  <2> HIDE DEF Total
  <2>2. QED
    BY <2>1
<1>6. Total("running") = Cardinality(Housed(t, R))
  <2>1. UNION {{n} \X (1 .. Stats(t, ActivePartitions[n])["running"]) : n \in D}
          = UNION {{n} \X (1 .. Cardinality(InPlace(t, R, n))) : n \in D}
    BY <1>3
  <2>2. QED
    BY <1>1, <2>1, CountsAddUp
<1>7. Total("pending") = Cardinality(Housed(t, P))
  <2>1. UNION {{n} \X (1 .. Stats(t, ActivePartitions[n])["pending"]) : n \in D}
          = UNION {{n} \X (1 .. Cardinality(InPlace(t, P, n))) : n \in D}
    BY <1>3
  <2>2. QED
    BY <1>1, <2>1, CountsAddUp
<1> HIDE DEF Total
<1>8. QED
  BY <1>4, <1>5, <1>6, <1>7 DEF Counted, R, P

LEMMA CountSplits ==
    ASSUME NEW t, NEW S \in SUBSET Rows(t), NEW T \in SUBSET Rows(t), S \cap T = {}
    PROVE  Cardinality(S \cup T) = Cardinality(S) + Cardinality(T)
<1>1. IsFiniteSet(S) /\ IsFiniteSet(T)
  BY RowsFinite
<1>2. Cardinality(S) \in Nat /\ Cardinality(T) \in Nat /\ Cardinality(S \cap T) = 0
  BY <1>1, FS_CardinalityType, FS_EmptySet
<1>3. Cardinality(S \cup T) = Cardinality(S) + Cardinality(T) - Cardinality(S \cap T)
  BY <1>1, FS_Union
<1>4. QED
  BY <1>2, <1>3

(* Rows outside the listed partitions are those the sums leave out. *)
LEMMA AstraySplits ==
    ASSUME jobs \in Table, NEW S \in SUBSET Rows(jobs)
    PROVE  /\ Cardinality(Housed(jobs, S)) + Cardinality(Astray(S)) = Cardinality(S)
           /\ \A field \in Counted :
                 Sum(jobs, Housed(jobs, S), field) + Sum(jobs, Astray(S), field)
                   = Sum(jobs, S, field)
<1> DEFINE H == Housed(jobs, S)
           L == Astray(S)
<1>1. /\ H \in SUBSET Rows(jobs) /\ L \in SUBSET Rows(jobs)
      /\ H \cap L = {} /\ H \cup L = S
  BY DEF Housed, Astray
<1> HIDE DEF H, L
<1>2. Cardinality(H \cup L) = Cardinality(H) + Cardinality(L)
  BY <1>1, CountSplits
<1>3. \A field \in Counted :
          Sum(jobs, H \cup L, field) = Sum(jobs, H, field) + Sum(jobs, L, field)
  BY <1>1, SumSplits
<1>4. QED
  BY <1>1, <1>2, <1>3 DEF H, L

(* A job that strayed reserves no GPU. *)
LEMMA AstrayHoldsNoGpu ==
    ASSUME WellFormed(jobs), GpusPlaced(jobs)
    PROVE  Sum(jobs, Astray(RunningTopLevel(jobs)), "gpus") = 0
<1> DEFINE L == Astray(RunningTopLevel(jobs))
<1>1. ASSUME NEW p, IsGpuPartition(p) PROVE p \in Partitions
  <2>1. PICK n \in DOMAIN GpuPartitions : GpuPartitions[n] = p
    BY <1>1 DEF IsGpuPartition
  <2>2. Len(CpuPartitions) + n \in DOMAIN ActivePartitions
    BY PlacesOfPartitions
  <2>3. ActivePartitions[Len(CpuPartitions) + n] = p
    BY <2>1, PlacesOfPartitions
  <2>4. QED
    BY <2>2, <2>3 DEF Partitions
<1>2. \A j \in L : jobs[j].req.gpus = 0
  BY <1>1 DEF Astray, GpusPlaced
<1> HIDE DEF L
<1>3. \A j \in L : 1 .. jobs[j].req["gpus"] = {}
  BY <1>2
<1>4. UNION {{j} \X (1 .. jobs[j].req["gpus"]) : j \in L} = {}
  BY <1>3
<1>5. QED
  BY <1>4, FS_EmptySet DEF Sum, L

(* The ids shown are in use; with one GPU partition they are all of those. *)
LEMMA IdsShown ==
    ASSUME EachListedOnce, NEW t, WellFormed(t)
    PROVE  /\ FirstGpuIds(t, ActivePartitions) \subseteq GpuIdsInUse(t)
           /\ Len(GpuPartitions) = 1 => FirstGpuIds(t, ActivePartitions) = GpuIdsInUse(t)
<1> DEFINE first == {m \in DOMAIN ActivePartitions :
                        /\ IsGpuPartition(ActivePartitions[m])
                        /\ \A k \in 1 .. m - 1 : ~IsGpuPartition(ActivePartitions[k])}
<1>1. \A p : Stats(t, p).ids = UNION {t[j].gpuIds : j \in RunningIn(t, p)}
  BY DEF Stats
<1>2. \A p : Stats(t, p).ids \subseteq GpuIdsInUse(t)
  BY <1>1 DEF RunningIn, GpuIdsInUse
<1>3. FirstGpuIds(t, ActivePartitions) = UNION {Stats(t, ActivePartitions[n]).ids : n \in first}
  BY DEF FirstGpuIds
<1>4. ASSUME Len(GpuPartitions) = 1, NEW x \in GpuIdsInUse(t)
      PROVE  x \in FirstGpuIds(t, ActivePartitions)
  <2> DEFINE g == Len(CpuPartitions) + 1
  <2>1. 1 \in DOMAIN GpuPartitions /\ DOMAIN GpuPartitions = {1}
    BY <1>4, PlacesOfPartitions
  <2>2. g \in DOMAIN ActivePartitions /\ ActivePartitions[g] = GpuPartitions[1]
    BY <1>4, <2>1, PlacesOfPartitions
  <2>3. \A k \in 1 .. g - 1 : k \in DOMAIN ActivePartitions /\ ~(k > Len(CpuPartitions))
    BY <1>4, PlacesOfPartitions
  <2>4. g \in first
    BY <2>2, <2>3, GpuPlaces, PlacesOfPartitions
  <2>5. PICK j \in RunningTopLevel(t) : x \in t[j].gpuIds
    BY <1>4 DEF GpuIdsInUse
  <2>6. IsGpuPartition(t[j].partition)
    BY <2>5, UsedIsSum DEF WellFormed, Sound
  <2>7. t[j].partition = ActivePartitions[g]
    BY <2>1, <2>2, <2>6 DEF IsGpuPartition
  <2>8. x \in Stats(t, ActivePartitions[g]).ids
    BY <1>1, <2>5, <2>7 DEF RunningIn
  <2>9. QED
    BY <1>3, <2>4, <2>8
<1> HIDE DEF first
<1>5. FirstGpuIds(t, ActivePartitions) \subseteq GpuIdsInUse(t)
  BY <1>2, <1>3
<1>6. QED
  BY <1>4, <1>5

(* For any lists of partitions in which none is named twice, what sinfo's  *)
(* node row shows and what is left in partitions that are not configured   *)
(* is what admission compares requests with; GPUs are all shown.           *)
THEOREM SinfoIsAdmission == Spec => []SinfoAddsUp
<1>1. ASSUME IInv, EachListedOnce
      PROVE  LET node == Node(jobs, ActivePartitions)
                 left == Astray(RunningTopLevel(jobs))
             IN  /\ node.cpus + Sum(jobs, left, "cpus") = UsedCpus(jobs)
                 /\ node.mem + Sum(jobs, left, "mem") = UsedMem(jobs)
                 /\ node.gpus = UsedGpus(jobs)
                 /\ node.running + Cardinality(left) = Cardinality(RunningTopLevel(jobs))
                 /\ node.pending + Cardinality(Astray(Pending(jobs))) = Cardinality(Pending(jobs))
                 /\ node.ids \subseteq GpuIdsInUse(jobs)
                 /\ Len(GpuPartitions) = 1 => node.ids = GpuIdsInUse(jobs)
                 /\ Cardinality(node.ids) <= node.gpus
  <2> DEFINE node == Node(jobs, ActivePartitions)
             R == RunningTopLevel(jobs)
             P == Pending(jobs)
             left == Astray(R)
             in == Housed(jobs, R)
  <2>1. jobs \in Table /\ WellFormed(jobs) /\ GpusPlaced(jobs)
    BY <1>1 DEF IInv, TypeOK, Good
  <2>2. R \in SUBSET Rows(jobs) /\ P \in SUBSET Rows(jobs)
    BY <2>1, UsedIsSum DEF Pending, TopLevel
  <2>3. /\ node.cpus = Sum(jobs, in, "cpus") /\ node.mem = Sum(jobs, in, "mem")
        /\ node.gpus = Sum(jobs, in, "gpus")
        /\ node.running = Cardinality(in)
        /\ node.pending = Cardinality(Housed(jobs, P))
        /\ node.ids = FirstGpuIds(jobs, ActivePartitions)
    BY <1>1, <2>1, NodeAddsUp
  <2>4. Sum(jobs, left, "gpus") = 0
    BY <2>1, AstrayHoldsNoGpu
  <2>5. /\ UsedCpus(jobs) = Sum(jobs, R, "cpus") /\ UsedMem(jobs) = Sum(jobs, R, "mem")
        /\ UsedGpus(jobs) = Sum(jobs, R, "gpus")
    BY <2>1, UsedIsSum
  <2> HIDE DEF R, P, node
  <2>6. /\ Cardinality(in) + Cardinality(left) = Cardinality(R)
        /\ Cardinality(Housed(jobs, P)) + Cardinality(Astray(P)) = Cardinality(P)
        /\ \A field \in Counted :
              Sum(jobs, in, field) + Sum(jobs, left, field) = Sum(jobs, R, field)
    BY <2>1, <2>2, AstraySplits
  <2>7. in \in SUBSET Rows(jobs)
    BY <2>2 DEF Housed
  <2> HIDE DEF left, in
  <2>8. Sum(jobs, in, "gpus") \in Nat
    BY <2>1, <2>7, SumIsNumber DEF Counted
  <2>9. node.gpus = UsedGpus(jobs)
    BY <2>3, <2>4, <2>5, <2>6, <2>8 DEF Counted
  <2>10. /\ node.ids \subseteq GpuIdsInUse(jobs)
         /\ Len(GpuPartitions) = 1 => node.ids = GpuIdsInUse(jobs)
    BY <1>1, <2>1, <2>3, IdsShown
  <2>11. Cardinality(node.ids) <= node.gpus
    <3>1. /\ IsFiniteSet(GpuIdsInUse(jobs)) /\ Cardinality(GpuIdsInUse(jobs)) \in Nat
          /\ UsedGpus(jobs) \in Nat /\ Cardinality(GpuIdsInUse(jobs)) <= UsedGpus(jobs)
      BY <2>1, IdsWithinSlots
    <3>2. /\ IsFiniteSet(node.ids)
          /\ Cardinality(node.ids) <= Cardinality(GpuIdsInUse(jobs))
      BY <2>10, <3>1, FS_Subset
    <3>3. Cardinality(node.ids) \in Nat
      BY <3>2, FS_CardinalityType
    <3>4. QED
      BY <2>9, <3>1, <3>2, <3>3
  <2>12. /\ node.cpus + Sum(jobs, left, "cpus") = UsedCpus(jobs)
         /\ node.mem + Sum(jobs, left, "mem") = UsedMem(jobs)
    BY <2>3, <2>5, <2>6 DEF Counted
  <2>13. QED
    BY <2>3, <2>6, <2>9, <2>10, <2>11, <2>12 DEF node, left, in, R, P
<1>2. IInv => SinfoAddsUp
  BY <1>1 DEF SinfoAddsUp
<1>3. QED
  BY <1>2, Invariant, PTL

----------------------------------------------------------------------------
(* The order of the queue *)

(* R holds <<x, y>> if x comes before y: a strict order of all of S. *)
Strict(S, R) ==
    /\ \A x \in S : <<x, x>> \notin R
    /\ \A x, y, z \in S : <<x, y>> \in R /\ <<y, z>> \in R => <<x, z>> \in R
    /\ \A x, y \in S : x = y \/ <<x, y>> \in R \/ <<y, x>> \in R

InOrder(s, S, R) ==
    /\ s \in [1 .. Cardinality(S) -> S]
    /\ \A m, n \in DOMAIN s : m < n => <<s[m], s[n]>> \in R

Before(S, R, x) == {y \in S : <<y, x>> \in R}

(* The elements of a finite set can be sorted: each has a place of its     *)
(* own, the number of those before it.                                     *)
LEMMA CanBeSorted ==
    ASSUME NEW S, IsFiniteSet(S), NEW R, Strict(S, R)
    PROVE  \E s : InOrder(s, S, R)
<1> DEFINE N == Cardinality(S)
           rank == [x \in S |-> Cardinality(Before(S, R, x)) + 1]
<1>1. N \in Nat
  BY FS_CardinalityType
<1>2. ASSUME NEW x \in S
      PROVE  /\ IsFiniteSet(Before(S, R, x)) /\ Cardinality(Before(S, R, x)) \in Nat
             /\ rank[x] \in 1 .. N /\ rank[x] = Cardinality(Before(S, R, x)) + 1
  <2>1. Before(S, R, x) \in SUBSET S /\ Before(S, R, x) # S
    BY DEF Before, Strict
  <2>2. /\ IsFiniteSet(Before(S, R, x)) /\ Cardinality(Before(S, R, x)) <= N
        /\ Cardinality(Before(S, R, x)) # N
    BY <2>1, FS_Subset
  <2>3. Cardinality(Before(S, R, x)) \in Nat
    BY <2>2, FS_CardinalityType
  <2>4. QED
    BY <1>1, <2>2, <2>3
<1>3. ASSUME NEW x \in S, NEW y \in S, <<x, y>> \in R
      PROVE  rank[x] < rank[y]
  <2>1. Before(S, R, x) \in SUBSET Before(S, R, y)
    BY <1>3 DEF Before, Strict
  <2>2. x \in Before(S, R, y) /\ x \notin Before(S, R, x)
    BY <1>3 DEF Before, Strict
  <2>3. /\ Cardinality(Before(S, R, x)) <= Cardinality(Before(S, R, y))
        /\ Cardinality(Before(S, R, x)) # Cardinality(Before(S, R, y))
    BY <1>2, <2>1, <2>2, FS_Subset
  <2>4. QED
    BY <1>2, <2>3
<1> HIDE DEF rank
<1>4. ASSUME NEW x \in S, NEW y \in S, rank[x] = rank[y]
      PROVE  x = y
  <2>1. rank[x] \in Int /\ rank[y] \in Int
    BY <1>2
  <2>2. <<x, y>> \notin R /\ <<y, x>> \notin R
    BY <1>3, <1>4, <2>1
  <2>3. QED
    BY <2>2 DEF Strict
<1>5. rank \in [S -> 1 .. N]
  BY <1>2 DEF rank
<1>6. rank \in Injection(S, 1 .. N)
  BY <1>4, <1>5 DEF Injection, IsInjective
<1>7. IsFiniteSet(1 .. N) /\ Cardinality(1 .. N) = N
  BY <1>1, FS_Interval
<1>8. rank \in Surjection(S, 1 .. N)
  BY <1>6, <1>7, FS_Injection
<1>9. \A m \in 1 .. N : \E x \in S : rank[x] = m
  BY <1>5, <1>8 DEF Surjection
<1> DEFINE s == [m \in 1 .. N |-> CHOOSE x \in S : rank[x] = m]
<1>10. \A m \in 1 .. N : s[m] \in S /\ rank[s[m]] = m
  BY <1>9
<1>11. s \in [1 .. N -> S]
  BY <1>10
<1>12. ASSUME NEW m \in 1 .. N, NEW n \in 1 .. N, m < n
       PROVE  <<s[m], s[n]>> \in R
  <2>1. s[m] \in S /\ rank[s[m]] = m /\ s[n] \in S /\ rank[s[n]] = n
    BY <1>10
  <2> HIDE DEF s
  <2>2. s[m] # s[n] /\ ~(rank[s[n]] < rank[s[m]])
    BY <1>12, <2>1
  <2>3. QED
    BY <1>3, <2>1, <2>2 DEF Strict
<1> HIDE DEF s
<1>13. QED
  BY <1>11, <1>12 DEF InOrder

(* Sorted, every element is somewhere, and has those before it on its left. *)
LEMMA SortedPlaces ==
    ASSUME NEW S, IsFiniteSet(S), NEW R, Strict(S, R), NEW s, InOrder(s, S, R)
    PROVE  /\ Cardinality(S) \in Nat /\ DOMAIN s = 1 .. Cardinality(S)
           /\ s \in Seq(S) /\ Len(s) = Cardinality(S)
           /\ \A x \in S : \E m \in DOMAIN s : s[m] = x
           /\ \A m \in DOMAIN s : s[m] \in S /\ Cardinality(Before(S, R, s[m])) = m - 1
           /\ \A m, n \in DOMAIN s : m < n <=> <<s[m], s[n]>> \in R
<1> DEFINE N == Cardinality(S)
<1>1. N \in Nat
  BY FS_CardinalityType
<1>2. s \in [1 .. N -> S] /\ DOMAIN s = 1 .. N /\ \A m \in 1 .. N : s[m] \in S
  BY DEF InOrder
<1>3. \A m, n \in 1 .. N : m < n => <<s[m], s[n]>> \in R
  BY <1>2 DEF InOrder
<1>4. s \in Seq(S)
  BY <1>1, <1>2, SeqDef
<1>5. Len(s) = N
  <2>1. Len(s) \in Nat /\ 1 .. Len(s) = 1 .. N
    BY <1>2, <1>4, LenProperties
  <2>2. \A a, b \in Nat : 1 .. a = 1 .. b => ~(a < b)
    <3> SUFFICES ASSUME NEW a \in Nat, NEW b \in Nat, 1 .. a = 1 .. b, a < b PROVE FALSE
      OBVIOUS
    <3>1. b \in 1 .. b /\ b \notin 1 .. a
      OBVIOUS
    <3>2. QED
      BY <3>1
  <2>3. QED
    BY <1>1, <2>1, <2>2
<1>6. \A m, n \in 1 .. N : s[m] = s[n] => m = n
  <2> SUFFICES ASSUME NEW m \in 1 .. N, NEW n \in 1 .. N, s[m] = s[n], m < n PROVE FALSE
    BY <1>1
  <2>1. QED
    BY <1>2, <1>3 DEF Strict
<1>7. \A m, n \in 1 .. N : m < n <=> <<s[m], s[n]>> \in R
  <2> SUFFICES ASSUME NEW m \in 1 .. N, NEW n \in 1 .. N, <<s[m], s[n]>> \in R
               PROVE  m < n
    BY <1>3
  <2>1. m # n
    BY <1>2 DEF Strict
  <2>2. ASSUME n < m PROVE FALSE
    <3>1. <<s[n], s[m]>> \in R
      BY <1>3, <2>2
    <3>2. <<s[m], s[m]>> \in R
      BY <1>2, <3>1 DEF Strict
    <3>3. QED
      BY <1>2, <3>2 DEF Strict
  <2>3. QED
    BY <1>1, <2>1, <2>2
<1>8. s \in Injection(1 .. N, S)
  BY <1>2, <1>6 DEF Injection, IsInjective
<1>9. IsFiniteSet(1 .. N) /\ Cardinality(1 .. N) = N
  BY <1>1, FS_Interval
<1>10. s \in Surjection(1 .. N, S)
  BY <1>8, <1>9, FS_Injection
<1>11. \A x \in S : \E m \in 1 .. N : s[m] = x
  BY <1>2, <1>10 DEF Surjection
<1>12. ASSUME NEW m \in 1 .. N
       PROVE  Cardinality(Before(S, R, s[m])) = m - 1
  <2> DEFINE f == [k \in 1 .. m - 1 |-> s[k]]
             B == Before(S, R, s[m])
  <2>1. \A k \in 1 .. m - 1 : k \in 1 .. N /\ k < m
    BY <1>1
  <2>2. \A k \in 1 .. m - 1 : s[k] \in B
    BY <1>2, <1>3, <2>1 DEF Before
  <2>3. \A y \in B : \E k \in 1 .. m - 1 : s[k] = y
    <3> SUFFICES ASSUME NEW y \in B PROVE \E k \in 1 .. m - 1 : s[k] = y
      OBVIOUS
    <3>1. y \in S /\ <<y, s[m]>> \in R
      BY DEF Before
    <3>2. PICK k \in 1 .. N : s[k] = y
      BY <1>11, <3>1
    <3>3. k < m
      BY <1>7, <3>1, <3>2
    <3>4. k \in 1 .. m - 1
      BY <1>1, <3>3
    <3>5. QED
      BY <3>2, <3>4
  <2> HIDE DEF B
  <2>4. f \in [1 .. m - 1 -> B] /\ \A k \in 1 .. m - 1 : f[k] = s[k]
    BY <2>2
  <2> HIDE DEF f
  <2>5. f \in Injection(1 .. m - 1, B)
    BY <1>6, <2>1, <2>4 DEF Injection, IsInjective
  <2>6. f \in Surjection(1 .. m - 1, B)
    BY <2>3, <2>4 DEF Surjection
  <2>7. IsFiniteSet(1 .. m - 1) /\ Cardinality(1 .. m - 1) = m - 1
    <3>1. m - 1 \in Nat
      BY <1>1
    <3> DEFINE k == m - 1
    <3> HIDE DEF k
    <3>2. IsFiniteSet(1 .. k) /\ Cardinality(1 .. k) = k
      BY <3>1, FS_Interval DEF k
    <3>3. QED
      BY <3>2 DEF k
  <2>8. QED
    BY <2>5, <2>6, <2>7, FS_Surjection DEF B
<1>13. QED
  BY <1>1, <1>2, <1>4, <1>5, <1>7, <1>11, <1>12

(* Jobs by Better, and positions in a sequence. *)
Than(t) == {p \in Pending(t) \X Pending(t) : Better(t, p[1], p[2])}
Less == {p \in Nat \X Nat : p[1] < p[2]}

LEMMA BetterIsStrict ==
    ASSUME NEW t \in Table, NEW S \in SUBSET Pending(t)
    PROVE  IsFiniteSet(S) /\ Strict(S, Than(t))
<1>1. Pending(t) \subseteq Rows(t) /\ Pending(t) \subseteq JobId
  BY DEF Pending, TopLevel, Rows
<1>2. \A x \in S : x \in Int /\ t[x].priority \in Int /\ x \in Pending(t)
  BY <1>1, GoodRow DEF Row, JobId
<1>3. IsFiniteSet(S)
  <2>1. IsFiniteSet(JobId)
    BY StoreAssumption, FS_Interval DEF JobId
  <2>2. QED
    BY <1>1, <2>1, FS_Subset
<1>4. \A x, y \in S : <<x, y>> \in Than(t) <=> Better(t, x, y)
  BY <1>2 DEF Than
<1>5. \A x \in S : ~Better(t, x, x)
  BY <1>2 DEF Better
<1>6. \A x, y, z \in S : Better(t, x, y) /\ Better(t, y, z) => Better(t, x, z)
  BY <1>2 DEF Better
<1>7. \A x, y \in S : x = y \/ Better(t, x, y) \/ Better(t, y, x)
  BY <1>2 DEF Better
<1>8. QED
  BY <1>3, <1>4, <1>5, <1>6, <1>7 DEF Strict

LEMMA JobsSorted ==
    ASSUME NEW t \in Table, NEW S \in SUBSET Pending(t)
    PROVE  InOrder(SortedBy(t, S), S, Than(t))
<1> DEFINE P(s) == \A m, n \in DOMAIN s : m < n => Better(t, s[m], s[n])
           F == [1 .. Cardinality(S) -> S]
<1>1. \A s \in F : InOrder(s, S, Than(t)) <=> P(s)
  BY DEF InOrder, Than
<1>2. \E s \in F : P(s)
  BY <1>1, BetterIsStrict, CanBeSorted DEF InOrder
<1>3. SortedBy(t, S) = CHOOSE s \in F : P(s)
  BY DEF SortedBy, Sorted
<1> HIDE DEF F, P
<1>4. SortedBy(t, S) \in F /\ P(SortedBy(t, S))
  BY <1>2, <1>3
<1>5. QED
  BY <1>1, <1>4

LEMMA PositionsSorted ==
    ASSUME NEW K \in Nat, NEW S \in SUBSET (1 .. K)
    PROVE  /\ InOrder(Sorted(S, LAMBDA a, b : a < b), S, Less)
           /\ IsFiniteSet(S) /\ Strict(S, Less)
<1> DEFINE P(s) == \A m, n \in DOMAIN s : m < n => s[m] < s[n]
           F == [1 .. Cardinality(S) -> S]
<1>1. \A x \in S : x \in Nat
  OBVIOUS
<1>2. IsFiniteSet(S)
  <2>1. IsFiniteSet(1 .. K)
    BY FS_Interval
  <2>2. QED
    BY <2>1, FS_Subset
<1>3. Strict(S, Less)
  BY <1>1 DEF Strict, Less
<1>4. \A s \in F : InOrder(s, S, Less) <=> P(s)
  BY <1>1 DEF InOrder, Less
<1>5. \E s \in F : P(s)
  BY <1>2, <1>3, <1>4, CanBeSorted DEF InOrder
<1>6. Sorted(S, LAMBDA a, b : a < b) = CHOOSE s \in F : P(s)
  BY DEF Sorted
<1> DEFINE s0 == Sorted(S, LAMBDA a, b : a < b)
<1> HIDE DEF F, P, s0
<1>7. s0 \in F /\ P(s0)
  BY <1>5, <1>6 DEF s0
<1>8. QED
  BY <1>2, <1>3, <1>4, <1>7 DEF s0

(* A group's jobs are read from the best one on, one in each round. *)
LEMMA GroupIs ==
    ASSUME NEW t \in Table, NEW j \in Pending(t)
    PROVE  LET G == PendingGroup(t, j)
               g == SortedBy(t, G)
           IN  /\ j \in G /\ G \subseteq Pending(t)
               /\ Len(g) \in Nat /\ DOMAIN g = 1 .. Len(g) /\ 1 \in DOMAIN g
               /\ \A m \in DOMAIN g : g[m] \in G /\ Round(t, g[m]) = m - 1
               /\ \A x \in G : \E m \in DOMAIN g : g[m] = x
               /\ TopOfGroup(t, j) = g[1]
               /\ \A x \in G : PendingGroup(t, x) = G /\ TopOfGroup(t, x) = TopOfGroup(t, j)
<1> DEFINE G == PendingGroup(t, j)
           g == SortedBy(t, G)
           R == Than(t)
<1>1. j \in G /\ G \in SUBSET Pending(t)
  BY DEF PendingGroup
<1>2. IsFiniteSet(G) /\ Strict(G, R) /\ InOrder(g, G, R)
  BY <1>1, BetterIsStrict, JobsSorted
<1>3. \A x \in G : PendingGroup(t, x) = G
  BY DEF PendingGroup
<1>4. \A x, y \in G : <<x, y>> \in R <=> Better(t, x, y)
  BY <1>1 DEF Than
<1>5. \A x \in G : Round(t, x) = Cardinality(Before(G, R, x))
  <2> SUFFICES ASSUME NEW x \in G PROVE Round(t, x) = Cardinality(Before(G, R, x))
    OBVIOUS
  <2>1. {i \in G : Better(t, i, x)} = Before(G, R, x)
    BY <1>4 DEF Before
  <2>2. QED
    BY <1>3, <2>1 DEF Round
<1>6. \A x \in G : TopOfGroup(t, x) = TopOfGroup(t, j)
  BY <1>1, <1>3 DEF TopOfGroup
<1> HIDE DEF G, R, g
<1>7. /\ Cardinality(G) \in Nat /\ DOMAIN g = 1 .. Cardinality(G) /\ Len(g) = Cardinality(G)
      /\ \A x \in G : \E m \in DOMAIN g : g[m] = x
      /\ \A m \in DOMAIN g : g[m] \in G /\ Cardinality(Before(G, R, g[m])) = m - 1
      /\ \A m, n \in DOMAIN g : m < n <=> <<g[m], g[n]>> \in R
  BY <1>2, SortedPlaces
<1>8. 1 \in DOMAIN g
  BY <1>1, <1>7
<1>9. \A m \in DOMAIN g : Round(t, g[m]) = m - 1
  BY <1>5, <1>7
<1>10. TopOfGroup(t, j) = g[1]
  <2>1. TopOfGroup(t, j) = CHOOSE i \in G : \A k \in G \ {i} : Better(t, i, k)
    BY DEF TopOfGroup, G
  <2>2. g[1] \in G /\ \A k \in G \ {g[1]} : Better(t, g[1], k)
    <3>1. \A m \in DOMAIN g : m # 1 => 1 < m
      BY <1>7
    <3>2. \A m \in DOMAIN g : m # 1 => <<g[1], g[m]>> \in R
      BY <1>7, <1>8, <3>1
    <3>3. QED
      BY <1>4, <1>7, <1>8, <3>2
  <2>3. \A i \in G : (\A k \in G \ {i} : Better(t, i, k)) => i = g[1]
    <3> SUFFICES ASSUME NEW i \in G, \A k \in G \ {i} : Better(t, i, k), i # g[1]
                 PROVE  FALSE
      OBVIOUS
    <3>1. <<i, g[1]>> \in R /\ <<g[1], i>> \in R
      BY <1>4, <2>2
    <3>2. QED
      BY <1>2, <2>2, <3>1 DEF Strict
  <2>4. QED
    BY <2>1, <2>2, <2>3
<1>11. QED
  BY <1>1, <1>3, <1>6, <1>7, <1>8, <1>9, <1>10 DEF G, g

(* group_order: each group's best job once, the best first. *)
LEMMA TopsAre ==
    ASSUME NEW t \in Table
    PROVE  LET u == SortedTops(t)
           IN  /\ Len(u) \in Nat /\ DOMAIN u = 1 .. Len(u)
               /\ \A k \in DOMAIN u : u[k] \in Pending(t) /\ TopOfGroup(t, u[k]) = u[k]
               /\ \A x \in Pending(t) : \E k \in DOMAIN u : u[k] = TopOfGroup(t, x)
               /\ \A k, l \in DOMAIN u : k < l <=> Better(t, u[k], u[l])
<1> DEFINE T == {SortedBy(t, PendingGroup(t, j))[1] : j \in Pending(t)}
           u == SortedTops(t)
           R == Than(t)
<1>1. ASSUME NEW j \in Pending(t)
      PROVE  /\ SortedBy(t, PendingGroup(t, j))[1] = TopOfGroup(t, j)
             /\ TopOfGroup(t, j) \in Pending(t)
             /\ TopOfGroup(t, TopOfGroup(t, j)) = TopOfGroup(t, j)
  BY GroupIs
<1>2. /\ T \in SUBSET Pending(t)
      /\ \A x \in T : TopOfGroup(t, x) = x
      /\ \A x \in Pending(t) : TopOfGroup(t, x) \in T
  BY <1>1
<1>3. u = SortedBy(t, T)
  BY DEF SortedTops
<1> HIDE DEF T, u
<1>4. IsFiniteSet(T) /\ Strict(T, R) /\ InOrder(u, T, R)
  BY <1>2, <1>3, BetterIsStrict, JobsSorted
<1>5. \A x, y \in T : <<x, y>> \in R <=> Better(t, x, y)
  BY <1>2 DEF Than
<1> HIDE DEF R
<1>6. /\ Cardinality(T) \in Nat /\ DOMAIN u = 1 .. Cardinality(T) /\ Len(u) = Cardinality(T)
      /\ \A x \in T : \E m \in DOMAIN u : u[m] = x
      /\ \A m \in DOMAIN u : u[m] \in T
      /\ \A m, n \in DOMAIN u : m < n <=> <<u[m], u[n]>> \in R
  BY <1>4, SortedPlaces
<1>7. QED
  BY <1>2, <1>5, <1>6 DEF u

(* The n-th turn takes the jobs of the n-th round, in the order of the     *)
(* queue.                                                                  *)
LEMMA TurnIs ==
    ASSUME NEW t \in Table, NEW n \in Nat, n # 0
    PROVE  LET a == Turn(SortedGroups(t), n)
           IN  /\ a \in Seq(Pending(t))
               /\ \A i \in DOMAIN a : a[i] \in Pending(t) /\ Round(t, a[i]) = n - 1
               /\ \A x \in Pending(t) : Round(t, x) = n - 1 => \E i \in DOMAIN a : a[i] = x
               /\ \A i, l \in DOMAIN a : i < l => Precedes(t, a[i], a[l])
<1> DEFINE u == SortedTops(t)
           K == Len(u)
           groups == SortedGroups(t)
           S == {k \in DOMAIN groups : Len(groups[k]) >= n}
           left == Sorted(S, LAMBDA x, y : x < y)
           a == Turn(groups, n)
<1>1. /\ K \in Nat /\ DOMAIN u = 1 .. K
      /\ \A k \in 1 .. K : u[k] \in Pending(t) /\ TopOfGroup(t, u[k]) = u[k]
      /\ \A x \in Pending(t) : \E k \in 1 .. K : u[k] = TopOfGroup(t, x)
      /\ \A k, l \in 1 .. K : k < l <=> Better(t, u[k], u[l])
  BY TopsAre
<1>2. DOMAIN groups = 1 .. K /\ \A k \in 1 .. K : groups[k] = SortedBy(t, PendingGroup(t, u[k]))
  BY <1>1 DEF SortedGroups
<1>3. a = [i \in DOMAIN left |-> groups[left[i]][n]]
  BY DEF Turn
<1> HIDE DEF u, K, groups, a
<1>4. ASSUME NEW k \in 1 .. K
      PROVE  /\ Len(groups[k]) \in Nat /\ DOMAIN groups[k] = 1 .. Len(groups[k])
             /\ \A m \in DOMAIN groups[k] :
                    /\ groups[k][m] \in Pending(t) /\ Round(t, groups[k][m]) = m - 1
                    /\ TopOfGroup(t, groups[k][m]) = u[k]
             /\ \A x \in Pending(t) : TopOfGroup(t, x) = u[k] =>
                    \E m \in DOMAIN groups[k] : groups[k][m] = x
  <2>1. u[k] \in Pending(t) /\ TopOfGroup(t, u[k]) = u[k]
        /\ groups[k] = SortedBy(t, PendingGroup(t, u[k]))
    BY <1>1, <1>2
  <2> DEFINE G == PendingGroup(t, u[k])
             g == groups[k]
  <2>2. /\ G \subseteq Pending(t)
        /\ Len(g) \in Nat /\ DOMAIN g = 1 .. Len(g)
        /\ \A m \in DOMAIN g : g[m] \in G /\ Round(t, g[m]) = m - 1
        /\ \A x \in G : \E m \in DOMAIN g : g[m] = x
        /\ \A x \in G : TopOfGroup(t, x) = u[k]
    BY <2>1, GroupIs
  <2>3. ASSUME NEW x \in Pending(t), TopOfGroup(t, x) = u[k]
        PROVE  x \in G
    <3>1. /\ x \in PendingGroup(t, x)
          /\ TopOfGroup(t, x) \in PendingGroup(t, x)
          /\ \A y \in PendingGroup(t, x) : PendingGroup(t, y) = PendingGroup(t, x)
      BY GroupIs
    <3>2. QED
      BY <2>3, <3>1
  <2> HIDE DEF G, g
  <2>4. QED
    BY <2>2, <2>3 DEF g
<1>5. S \in SUBSET (1 .. K)
  BY <1>2
<1>6. InOrder(left, S, Less) /\ IsFiniteSet(S) /\ Strict(S, Less)
  BY <1>1, <1>5, PositionsSorted
<1>7. \A k \in S : n \in DOMAIN groups[k]
  BY <1>2, <1>4
<1>8. \A k \in 1 .. K : n \in DOMAIN groups[k] => k \in S
  BY <1>2, <1>4
<1> HIDE DEF S, left
<1>9. /\ Cardinality(S) \in Nat /\ DOMAIN left = 1 .. Cardinality(S)
      /\ \A k \in S : \E i \in DOMAIN left : left[i] = k
      /\ \A i \in DOMAIN left : left[i] \in S
      /\ \A i, l \in DOMAIN left : i < l <=> <<left[i], left[l]>> \in Less
  BY <1>6, SortedPlaces
<1>10. ASSUME NEW i \in DOMAIN a
       PROVE  /\ left[i] \in 1 .. K /\ a[i] \in Pending(t) /\ Round(t, a[i]) = n - 1
              /\ TopOfGroup(t, a[i]) = u[left[i]]
  <2>1. i \in DOMAIN left /\ left[i] \in S /\ left[i] \in 1 .. K /\ a[i] = groups[left[i]][n]
    BY <1>3, <1>5, <1>9
  <2>2. n \in DOMAIN groups[left[i]]
    BY <1>7, <2>1
  <2>3. QED
    BY <1>4, <2>1, <2>2
<1>11. DOMAIN a = 1 .. Cardinality(S)
  BY <1>3, <1>9
<1>12. a \in Seq(Pending(t))
  <2>1. a \in [1 .. Cardinality(S) -> Pending(t)]
    BY <1>3, <1>10, <1>11
  <2>2. QED
    BY <1>9, <2>1, SeqDef
<1>13. ASSUME NEW x \in Pending(t), Round(t, x) = n - 1
       PROVE  \E i \in DOMAIN a : a[i] = x
  <2>1. PICK k \in 1 .. K : u[k] = TopOfGroup(t, x)
    BY <1>1
  <2>2. PICK m \in DOMAIN groups[k] : groups[k][m] = x
    BY <1>4, <2>1
  <2>3. m - 1 = n - 1 /\ m \in Int
    BY <1>4, <1>13, <2>2
  <2>4. m = n
    BY <2>3
  <2>5. PICK i \in DOMAIN left : left[i] = k
    BY <1>8, <1>9, <2>2, <2>4
  <2>6. QED
    BY <1>3, <2>2, <2>4, <2>5
<1>14. ASSUME NEW i \in DOMAIN a, NEW l \in DOMAIN a, i < l
       PROVE  Precedes(t, a[i], a[l])
  <2>1. <<left[i], left[l]>> \in Less
    BY <1>9, <1>11, <1>14
  <2>2. left[i] < left[l]
    BY <2>1 DEF Less
  <2>3. Better(t, TopOfGroup(t, a[i]), TopOfGroup(t, a[l]))
    BY <1>1, <1>10, <2>2
  <2>4. ASSUME GroupKey(t, a[i]) = GroupKey(t, a[l]) PROVE FALSE
    <3>1. PendingGroup(t, a[i]) = PendingGroup(t, a[l])
      BY <2>4 DEF PendingGroup
    <3>2. u[left[i]] = u[left[l]]
      BY <1>10, <3>1 DEF TopOfGroup
    <3>3. Better(t, u[left[i]], u[left[i]])
      BY <1>10, <2>3, <3>2
    <3>4. left[i] < left[i] /\ left[i] \in Int
      BY <1>1, <1>10, <3>3
    <3>5. QED
      BY <3>4
  <2>5. QED
    BY <1>10, <2>3, <2>4 DEF Precedes
<1>15. QED
  BY <1>10, <1>12, <1>13, <1>14 DEF a, groups

LEMMA CountUp ==
    ASSUME NEW N \in Nat, NEW Reachable, 0 \in Reachable,
           \A k \in 0 .. N - 1 : k \in Reachable => k + 1 \in Reachable
    PROVE  \A n \in 0 .. N : n \in Reachable
<1> DEFINE T == {n \in 0 .. N : n \notin Reachable}
<1> SUFFICES ASSUME T # {} PROVE FALSE
  OBVIOUS
<1>1. T \in SUBSET Nat
  OBVIOUS
<1>2. PICK m \in T : \A n \in T : m <= n
  <2> HIDE DEF T
  <2>1. QED
    BY <1>1, LeastNumber
<1>3. m \in 0 .. N /\ m \notin Reachable /\ m # 0
  OBVIOUS
<1>4. m - 1 \in 0 .. N - 1 /\ m - 1 \in 0 .. N /\ (m - 1) + 1 = m /\ ~(m <= m - 1)
  BY <1>3
<1>5. m - 1 \in Reachable
  BY <1>2, <1>4
<1>6. QED
  BY <1>3, <1>4, <1>5

(* The loop: what a turn takes is appended to what was taken before. *)
Joins(f, e, N) == f = [n \in 0 .. N |-> IF n = 0 THEN <<>> ELSE f[n - 1] \o e[n]]

LEMMA LoopExists ==
    ASSUME NEW e, NEW N \in Nat
    PROVE  \E f : Joins(f, e, N)
<1> DEFINE Reachable == {k \in Nat : \E f : Joins(f, e, k)}
<1>1. 0 \in Reachable
  <2> DEFINE f == [n \in 0 .. 0 |-> <<>>]
             h == [n \in 0 .. 0 |-> IF n = 0 THEN <<>> ELSE f[n - 1] \o e[n]]
  <2>1. f = h
    <3>1. \A n \in 0 .. 0 : n = 0
      OBVIOUS
    <3>2. QED
      BY <3>1
  <2>2. Joins(f, e, 0)
    BY <2>1 DEF Joins
  <2>3. QED
    BY <2>2
<1>2. ASSUME NEW k \in 0 .. N - 1, k \in Reachable
      PROVE  k + 1 \in Reachable
  <2>1. PICK f : Joins(f, e, k)
    BY <1>2
  <2>2. \A n \in 0 .. k : f[n] = IF n = 0 THEN <<>> ELSE f[n - 1] \o e[n]
    BY <2>1 DEF Joins
  <2> DEFINE g == [n \in 0 .. k + 1 |-> IF n = k + 1 THEN f[k] \o e[k + 1] ELSE f[n]]
             h == [n \in 0 .. k + 1 |-> IF n = 0 THEN <<>> ELSE g[n - 1] \o e[n]]
  <2>3. ASSUME NEW n \in 0 .. k + 1
        PROVE  g[n] = h[n]
    <3>1. CASE n = k + 1
      <4>1. k \in 0 .. k + 1 /\ k # k + 1 /\ n - 1 = k /\ n # 0
        BY <3>1
      <4>2. g[k] = f[k]
        BY <4>1
      <4>3. QED
        BY <3>1, <4>1, <4>2
    <3>2. CASE n # k + 1
      <4>1. n \in 0 .. k
        BY <3>2
      <4>2. n # 0 => n - 1 \in 0 .. k + 1 /\ n - 1 # k + 1
        BY <4>1
      <4>3. n # 0 => g[n - 1] = f[n - 1]
        BY <4>2
      <4>4. g[n] = f[n]
        BY <3>2
      <4>5. h[n] = IF n = 0 THEN <<>> ELSE g[n - 1] \o e[n]
        OBVIOUS
      <4> HIDE DEF g, h
      <4>6. QED
        BY <2>2, <4>1, <4>3, <4>4, <4>5
    <3>3. QED
      BY <3>1, <3>2
  <2>4. g = h
    BY <2>3
  <2>5. Joins(g, e, k + 1)
    BY <2>4 DEF Joins
  <2>6. QED
    BY <2>5
<1> HIDE DEF Reachable
<1>3. N \in Reachable
  BY <1>1, <1>2, CountUp
<1>4. QED
  BY <1>3 DEF Reachable

(* After n turns the jobs of the first n rounds were taken, in order. *)
Taken(s, t, n) ==
    /\ s \in Seq(Pending(t))
    /\ \A i \in DOMAIN s : s[i] \in Pending(t) /\ Round(t, s[i]) < n
    /\ \A x \in Pending(t) : Round(t, x) < n => \E i \in DOMAIN s : s[i] = x
    /\ \A i, l \in DOMAIN s : i < l => Precedes(t, s[i], s[l])

LEMMA RoundIsNumber ==
    ASSUME NEW t \in Table, NEW x \in Pending(t)
    PROVE  Round(t, x) \in Nat /\ Round(t, x) < Cardinality(Pending(t))
<1> DEFINE G == PendingGroup(t, x)
           before == {i \in G : Better(t, i, x)}
<1>1. IsFiniteSet(Pending(t)) /\ Strict(Pending(t), Than(t))
  BY BetterIsStrict
<1>2. before \in SUBSET Pending(t)
  BY DEF PendingGroup
<1>3. x \notin before
  <2>1. <<x, x>> \notin Than(t)
    BY <1>1 DEF Strict
  <2>2. QED
    BY <2>1 DEF Than
<1>4. Round(t, x) = Cardinality(before)
  BY DEF Round
<1> HIDE DEF before
<1>5. /\ IsFiniteSet(before) /\ Cardinality(before) <= Cardinality(Pending(t))
      /\ Cardinality(before) # Cardinality(Pending(t))
  BY <1>1, <1>2, <1>3, FS_Subset
<1>6. Cardinality(before) \in Nat /\ Cardinality(Pending(t)) \in Nat
  BY <1>1, <1>5, FS_CardinalityType
<1>7. QED
  BY <1>4, <1>5, <1>6

LEMMA TurnTaken ==
    ASSUME NEW t \in Table, NEW k \in Nat, NEW s, Taken(s, t, k)
    PROVE  Taken(s \o Turn(SortedGroups(t), k + 1), t, k + 1)
<1> DEFINE a == Turn(SortedGroups(t), k + 1)
           sa == s \o a
           n == Len(s)
<1>1. /\ s \in Seq(Pending(t))
      /\ \A i \in DOMAIN s : s[i] \in Pending(t) /\ Round(t, s[i]) < k
      /\ \A x \in Pending(t) : Round(t, x) < k => \E i \in DOMAIN s : s[i] = x
      /\ \A i, l \in DOMAIN s : i < l => Precedes(t, s[i], s[l])
  BY DEF Taken
<1>2. k + 1 \in Nat /\ k + 1 # 0 /\ (k + 1) - 1 = k
  OBVIOUS
<1>3. /\ a \in Seq(Pending(t))
      /\ \A i \in DOMAIN a : a[i] \in Pending(t) /\ Round(t, a[i]) = k
      /\ \A x \in Pending(t) : Round(t, x) = k => \E i \in DOMAIN a : a[i] = x
      /\ \A i, l \in DOMAIN a : i < l => Precedes(t, a[i], a[l])
  BY <1>2, TurnIs
<1> HIDE DEF a
<1>4. /\ sa \in Seq(Pending(t)) /\ Len(sa) = n + Len(a) /\ n \in Nat /\ Len(a) \in Nat
      /\ DOMAIN sa = 1 .. n + Len(a) /\ DOMAIN s = 1 .. n /\ DOMAIN a = 1 .. Len(a)
      /\ \A i \in 1 .. n + Len(a) : sa[i] = IF i <= n THEN s[i] ELSE a[i - n]
  BY <1>1, <1>3, ConcatProperties, LenProperties
<1> HIDE DEF sa, n
<1>5. ASSUME NEW i \in DOMAIN sa
      PROVE  \/ i \in DOMAIN s /\ sa[i] = s[i]
             \/ i > n /\ i - n \in DOMAIN a /\ sa[i] = a[i - n]
  BY <1>4
<1>6. /\ \A i \in DOMAIN s : i \in DOMAIN sa /\ sa[i] = s[i]
      /\ \A i \in DOMAIN a : i + n \in DOMAIN sa /\ sa[i + n] = a[i]
  BY <1>4
<1>7. \A x \in Pending(t) : Round(t, x) \in Nat
  BY RoundIsNumber
<1>8. ASSUME NEW i \in DOMAIN sa
      PROVE  sa[i] \in Pending(t) /\ Round(t, sa[i]) < k + 1
  BY <1>1, <1>3, <1>5, <1>7
<1>9. ASSUME NEW x \in Pending(t), Round(t, x) < k + 1
      PROVE  \E i \in DOMAIN sa : sa[i] = x
  <2>1. Round(t, x) < k \/ Round(t, x) = k
    BY <1>7, <1>9
  <2>2. QED
    BY <1>1, <1>3, <1>6, <2>1
<1>10. ASSUME NEW i \in DOMAIN sa, NEW l \in DOMAIN sa, i < l
       PROVE  Precedes(t, sa[i], sa[l])
  <2>1. CASE i \in DOMAIN s /\ sa[i] = s[i]
    <3>1. CASE l \in DOMAIN s /\ sa[l] = s[l]
      BY <1>1, <1>10, <2>1, <3>1
    <3>2. CASE l > n /\ l - n \in DOMAIN a /\ sa[l] = a[l - n]
      <4>1. Round(t, sa[i]) < Round(t, sa[l])
        BY <1>1, <1>3, <2>1, <3>2
      <4>2. QED
        BY <4>1 DEF Precedes
    <3>3. QED
      BY <1>5, <3>1, <3>2
  <2>2. CASE i > n /\ i - n \in DOMAIN a /\ sa[i] = a[i - n]
    <3>1. l > n /\ l - n \in DOMAIN a /\ sa[l] = a[l - n] /\ i - n < l - n
      BY <1>4, <1>5, <1>10, <2>2
    <3>2. QED
      BY <1>3, <2>2, <3>1
  <2>3. QED
    BY <1>5, <2>1, <2>2
<1>11. QED
  BY <1>4, <1>8, <1>9, <1>10 DEF Taken, sa, a

(* Precedes is a strict order, so it tells every position. *)
LEMMA PrecedesOneWay ==
    ASSUME NEW t \in Table, NEW x \in Pending(t), NEW y \in Pending(t), Precedes(t, x, y)
    PROVE  ~Precedes(t, y, x)
<1>1. Round(t, x) \in Nat /\ Round(t, y) \in Nat
  BY RoundIsNumber
<1>2. TopOfGroup(t, x) \in Pending(t) /\ TopOfGroup(t, y) \in Pending(t)
  BY GroupIs
<1>3. ~(Better(t, TopOfGroup(t, x), TopOfGroup(t, y))
        /\ Better(t, TopOfGroup(t, y), TopOfGroup(t, x)))
  <2>1. Strict(Pending(t), Than(t))
    BY BetterIsStrict
  <2>2. QED
    BY <1>2, <2>1 DEF Strict, Than
<1>4. QED
  BY <1>1, <1>3 DEF Precedes

LEMMA LoopIsInOrder ==
    ASSUME NEW t \in Table
    PROVE  LoopReadsInOrder(t)
<1> DEFINE P == Pending(t)
           N == Cardinality(P)
           groups == SortedGroups(t)
           e == [n \in 1 .. N |-> Turn(groups, n)]
           Loop(f) == f = [n \in 0 .. N |-> IF n = 0 THEN <<>>
                                            ELSE f[n - 1] \o Turn(groups, n)]
           f0 == CHOOSE f : Loop(f)
           order == OrderPendingJobs(t)
<1>1. IsFiniteSet(P) /\ N \in Nat
  BY BetterIsStrict, FS_CardinalityType
<1>2. order = f0[N]
  BY DEF OrderPendingJobs
<1> HIDE DEF P, N, groups
<1>3. \A f : Loop(f) <=> Joins(f, e, N)
  <2> SUFFICES ASSUME NEW f PROVE Loop(f) <=> Joins(f, e, N)
    OBVIOUS
  <2> DEFINE a == [n \in 0 .. N |-> IF n = 0 THEN <<>> ELSE f[n - 1] \o Turn(groups, n)]
             b == [n \in 0 .. N |-> IF n = 0 THEN <<>> ELSE f[n - 1] \o e[n]]
  <2>1. \A n \in 0 .. N : n # 0 => e[n] = Turn(groups, n)
    BY <1>1
  <2> HIDE DEF e
  <2>2. a = b
    BY <2>1
  <2>3. QED
    BY <2>2 DEF Joins
<1> HIDE DEF e
<1>4. \E f : Loop(f)
  BY <1>1, <1>3, LoopExists
<1> HIDE DEF Loop
<1>5. Loop(f0)
  BY <1>4
<1> HIDE DEF f0
<1>6. \A n \in 0 .. N : f0[n] = IF n = 0 THEN <<>> ELSE f0[n - 1] \o Turn(groups, n)
  BY <1>5 DEF Loop
<1> DEFINE Reachable == {n \in 0 .. N : Taken(f0[n], t, n)}
<1>7. 0 \in Reachable
  <2>1. f0[0] = <<>> /\ 0 \in 0 .. N
    BY <1>1, <1>6
  <2>2. <<>> \in Seq(Pending(t)) /\ DOMAIN <<>> = {}
    BY EmptySeq
  <2>3. Taken(<<>>, t, 0)
    BY <2>2, RoundIsNumber DEF Taken
  <2>4. QED
    BY <2>1, <2>3
<1>8. ASSUME NEW k \in 0 .. N - 1, k \in Reachable
      PROVE  k + 1 \in Reachable
  <2>1. k \in Nat /\ k + 1 \in 0 .. N /\ k + 1 # 0 /\ (k + 1) - 1 = k
    BY <1>1
  <2>2. f0[k + 1] = f0[k] \o Turn(groups, k + 1)
    BY <1>6, <2>1
  <2>3. Taken(f0[k], t, k)
    BY <1>8
  <2>4. Taken(f0[k + 1], t, k + 1)
    BY <2>1, <2>2, <2>3, TurnTaken DEF groups
  <2>5. QED
    BY <2>1, <2>4
<1>9. Taken(order, t, N)
  <2>1. N \in 0 .. N
    BY <1>1
  <2> HIDE DEF order
  <2>2. N \in Reachable
    <3> HIDE DEF Reachable
    <3>1. QED
      BY <1>1, <1>7, <1>8, <2>1, CountUp
  <2>3. QED
    BY <1>2, <2>2
<1> HIDE DEF order, Reachable
<1>10. /\ order \in Seq(P) /\ Len(order) \in Nat /\ DOMAIN order = 1 .. Len(order)
       /\ \A i \in DOMAIN order : order[i] \in P
       /\ \A i, l \in DOMAIN order : i < l => Precedes(t, order[i], order[l])
  BY <1>9, LenProperties DEF Taken, P
<1>11. \A x \in P : \E i \in DOMAIN order : order[i] = x
  BY <1>9, RoundIsNumber DEF Taken, P, N
<1>12. Range(order) = P
  BY <1>10, <1>11 DEF Range
<1>13. \A m, n \in DOMAIN order : m < n <=> Precedes(t, order[m], order[n])
  <2> SUFFICES ASSUME NEW m \in DOMAIN order, NEW n \in DOMAIN order,
                      Precedes(t, order[m], order[n]), ~(m < n)
               PROVE  FALSE
    BY <1>10
  <2>1. order[m] \in P /\ order[n] \in P
    BY <1>10
  <2>2. ~Precedes(t, order[n], order[m])
    BY <2>1, PrecedesOneWay DEF P
  <2>3. m = n \/ n < m
    BY <1>10
  <2>4. QED
    BY <1>10, <2>2, <2>3
<1>14. \A m, n \in DOMAIN order : order[m] = order[n] => m = n
  <2> SUFFICES ASSUME NEW m \in DOMAIN order, NEW n \in DOMAIN order,
                      order[m] = order[n], m # n
               PROVE  FALSE
    OBVIOUS
  <2>1. m < n \/ n < m
    BY <1>10
  <2>2. Precedes(t, order[m], order[m])
    BY <1>13, <2>1
  <2>3. QED
    BY <1>10, <2>2, PrecedesOneWay DEF P
<1>15. Len(order) = N
  <2>1. order \in [1 .. Len(order) -> P]
    BY <1>10, LenProperties
  <2>2. order \in Injection(1 .. Len(order), P)
    BY <1>10, <1>14, <2>1 DEF Injection, IsInjective
  <2>3. order \in Surjection(1 .. Len(order), P)
    BY <1>10, <1>11, <2>1 DEF Surjection
  <2>4. IsFiniteSet(1 .. Len(order)) /\ Cardinality(1 .. Len(order)) = Len(order)
    <3> DEFINE k == Len(order)
    <3>1. k \in Nat
      BY <1>10
    <3> HIDE DEF k
    <3>2. IsFiniteSet(1 .. k) /\ Cardinality(1 .. k) = k
      BY <3>1, FS_Interval
    <3>3. QED
      BY <3>2 DEF k
  <2>5. QED
    BY <1>1, <2>2, <2>3, <2>4, FS_Surjection DEF N
<1>16. QED
  BY <1>12, <1>13, <1>15 DEF LoopReadsInOrder, order, P, N

(* The loop of order_pending_jobs reads every waiting job once, in the     *)
(* order by which the scheduler's model and its properties compare jobs,   *)
(* whatever became of the table.                                           *)
THEOREM QueueOrdered == Spec => []QueueInOrder
<1>1. IInv => QueueInOrder
  BY LoopIsInOrder DEF IInv, TypeOK, QueueInOrder
<1>2. QED
  BY <1>1, Invariant, PTL
=============================================================================
