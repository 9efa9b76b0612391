SPECIFICATION Spec
CONSTANTS
    MaxJobs = 3
    TotalCpus = 2
    TotalMem = 3
    TotalGpus = 2
    CpuPartitions <- Cpu
    GpuPartitions <- Gpu
    OtherPartitions = {"other"}
    MaxTime = 0
    Outcomes = {"FAILED"}
    MaxFaults = 0
    Priorities = {}
    Groups = {}
    NoGroup = NoGroup
    Requests <- MixedRequests
INVARIANTS
    TypeOK
    CapacityRespected
    ExclusiveAlone
    GpuIdsDisjoint
    LaunchNeverShortOfGpus
    SinfoAddsUp
    EstimateNeverLate
