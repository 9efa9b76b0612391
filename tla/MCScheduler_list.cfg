SPECIFICATION FairSpec
CONSTANTS
    MaxJobs = 3
    TotalCpus = 1
    TotalMem = 1
    TotalGpus = 0
    CpuPartitions <- Cpu
    GpuPartitions <- None
    OtherPartitions = {}
    MaxTime = 0
    Outcomes = {"COMPLETED"}
    MaxFaults = 0
    Priorities = {}
    Groups = {}
    NoGroup = NoGroup
    Requests <- ListRequests
PROPERTIES
    ListDependencyStarts
