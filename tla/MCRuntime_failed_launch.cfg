SPECIFICATION Spec
CONSTANTS
    MaxJobs = 1
    TotalGpus = 0
    Groups = {1}
    NoGroup = 0
    UseCgroup = TRUE
    MaxFaults = 1
    Requests <- OneKind
INVARIANTS
    FailedLaunchRunsNothing
