SPECIFICATION FairSpec
CONSTANTS
    MaxJobs = 3
    TotalGpus = 0
    Groups = {}
    NoGroup = NoGroup
    Clients = {c1, c2}
    Slots = 2
    Stops = {"CANCELLED", "OUT_OF_MEMORY"}
    MaxCrashes = 1
    MaxErrors = 1
    Requests <- Mixed
    Segments <- Ids
INVARIANTS
    AnsweredIsComplete
    WaitIsHonest
PROPERTIES
    WaitEnds
