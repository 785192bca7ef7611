SPECIFICATION Spec
CONSTANTS
    HasPlanner = FALSE
    HasValidator = FALSE
    StepDriven = FALSE
    Milestones = 1
    MaxAttempts <- MCAttempts
    MaxPlans = 1
    MaxIterations = 2
    MaxTries <- MCTries
    ToolLimit = 2
    MaxCalls = 2
    QueueSize <- MCQueue
    MaxRuns = 2
    MaxGuides = 1
INVARIANTS EveryCallAnswered
