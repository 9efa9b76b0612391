SPECIFICATION FairSpec
CONSTANTS
    MaxJobs = 1
    TotalGpus = 0
    Groups = {}
    NoGroup = NoGroup
    Clients = {c1}
    Slots = 1
    Stops = {}
    MaxCrashes = 0
    MaxErrors = 1
    Requests <- OneKind
    Segments <- NoIds
PROPERTIES
    LoopRuns
