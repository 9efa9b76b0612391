SPECIFICATION Spec
CONSTANTS
    MaxJobs = 3
    TotalCpus = 2
    TotalMem = 2
    TotalGpus = 0
    CpuPartitions <- Cpu
    GpuPartitions <- None
    OtherPartitions = {}
    MaxTime = 0
    Outcomes = {"COMPLETED", "FAILED"}
    MaxFaults = 2
    Priorities = {}
    Groups = {}
    NoGroup = NoGroup
    Requests <- Dependents
INVARIANTS
    DependencyStays
    SingletonsNeverOverlap
    AllocMeansFull
