SPECIFICATION Spec
CONSTANTS
    MaxWord = 1048575999
    CpuPartitions <- Cpu
    GpuPartitions <- Gpu
    LocalFeatures = {"fast"}
    Inputs <- CheckedInputs
    Now <- Evening
    Updates <- ScontrolUpdates
INVARIANTS
    StrongestSourceWins
    ConstraintHolds
    BeginIsAsAsked
    LimitReadsBack
CHECK_DEADLOCK FALSE
