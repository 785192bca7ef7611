SPECIFICATION Spec
CONSTANTS
    HasPlanner = TRUE
    HasValidator = TRUE
    StepDriven = FALSE
    Milestones = 1
    MaxAttempts <- MCAttempts
    MaxPlans = 1
    MaxIterations = 2
    MaxTries <- MCTries
    ToolLimit = 2
    MaxCalls = 2
    QueueSize <- MCQueue
    MaxRuns = 1
    MaxGuides = 1
INVARIANTS OnlyValidPlansExecute
