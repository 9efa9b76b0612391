SPECIFICATION FairSpec
CONSTANTS
    MaxJobs = 3
    TotalCpus = 2
    TotalMem = 2
    TotalGpus = 0
    CpuPartitions <- Cpu
    GpuPartitions <- None
    OtherPartitions = {}
    MaxTime = 1
    Outcomes = {"FAILED"}
    MaxFaults = 0
    Priorities = {1}
    Groups = {}
    NoGroup = NoGroup
    Requests <- Waiting
INVARIANTS
    ArrayLimitRespected
    QueueInOrder
PROPERTIES
    PassHonoursPriority
    EligibleStarts
