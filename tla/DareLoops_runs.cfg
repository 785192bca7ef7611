SPECIFICATION Spec
CONSTANTS
    HasPlanner = FALSE
    HasValidator = TRUE
    StepDriven = FALSE
    Milestones = 1
    MaxAttempts <- MCAttempts
    MaxPlans = 1
    MaxIterations = 2
    MaxTries <- MCTries
    ToolLimit = 1
    MaxCalls = 2
    QueueSize <- MCQueue
    MaxRuns = 2
    MaxGuides = 1
INVARIANTS TypeOK DroppedLeavesNoTrace CallsAnswered HostHeard
PROPERTIES KeepsContract
