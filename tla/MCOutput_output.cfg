SPECIFICATION FairSpec
CONSTANTS
    Runs <- TwoRuns
    Steps = {srun}
    MaxTasks = 2
    JobOptions <- Jobs
    MaxLines = 2
    MaxLeft = 1
    MaxFaults = 1
INVARIANTS
    JobOutputKept
    StepOutputKept
    StatusOfAllTasks
PROPERTIES
    StepsReport
CHECK_DEADLOCK FALSE
