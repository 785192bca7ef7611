SPECIFICATION LiveSpec
CONSTANTS
    HasPlanner = TRUE
    HasValidator = TRUE
    StepDriven = TRUE
    Milestones = 2
    MaxAttempts <- MCAttempts
    MaxPlans = 2
    MaxIterations = 2
    MaxTries <- MCTries
    ToolLimit = 2
    MaxCalls = 2
    QueueSize <- MCQueue
    MaxRuns = 1
    MaxGuides = 2
INVARIANTS AuditTrail BudgetBound SessionHonest
PROPERTIES RunEnds
