SPECIFICATION FairSpec
CONSTANTS
    MaxJobs = 1
    TotalGpus = 0
    Groups = {1, 2}
    NoGroup = 0
    UseCgroup = TRUE
    MaxFaults = 2
    Requests <- Warned
INVARIANTS
    TypeOK
    RunnerMatchesTable
    RunsDoNotOverlap
    RunsBounded
    CompletedIsHonest
    NotifiedOnce
PROPERTIES
    TerminalIsFinal
    ImplementsLifecycle
    DeathIsNoticed
    TerminationEnds
