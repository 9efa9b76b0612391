SPECIFICATION FairSpec
CONSTANTS
    MaxJobs = 2
    TotalGpus = 0
    Groups = {1, 2}
    NoGroup = 0
    Clients = {c1, c2}
    NoJob = 0
    MaxCrashes = 1
    Requests <- Limited
INVARIANTS
    ReportStands
    CompletedReturnedZero
PROPERTIES
    EndedNeverRunsAgain
    DeadIsCleaned
