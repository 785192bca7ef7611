SPECIFICATION Spec
CONSTANTS
    c1 = c1
    c2 = c2
    c3 = c3
    run = run
    ls = ls
    status = status
    A = A
    B = B
    k1 = k1
    k2 = k2
    k3 = k3
    k4 = k4
    Calls = {c1, c2}
    Invocation <- MCInvocation
    Requests = {r1}
    RuleIds = {k1, k3, k4}
    Sessions = {A, B}
    NoSession = NoSession
    NoCall = NoCall
    NoRequest = NoRequest
    NoRule = NoRule
    Pollers = {p1}
    SavedRules <- HandWritten
    Options <- FileOptions
    MaxRestarts = 1
    MaxInterrupts = 0
INVARIANTS MemoryMatchesFiles OnceSpentOnce NoLostWakeup
PROPERTIES DecisionDelivered
CHECK_DEADLOCK FALSE
