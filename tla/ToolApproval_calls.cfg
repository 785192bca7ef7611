SPECIFICATION Spec
CONSTANTS
    c1 = c1
    c2 = c2
    c3 = c3
    run = run
    ls = ls
    status = status
    A = A
    B = B
    k1 = k1
    k2 = k2
    k3 = k3
    k4 = k4
    Calls = {c1, c2, c3}
    Invocation <- MCInvocation
    Requests = {r1, r2}
    RuleIds = {k1, k2}
    Sessions = {A, B}
    NoSession = NoSession
    NoCall = NoCall
    NoRequest = NoRequest
    NoRule = NoRule
    Pollers = {}
    SavedRules <- NothingSaved
    Options <- CallOptions
    MaxRestarts = 0
    MaxInterrupts = 1
SYMMETRY Interchangeable
INVARIANTS TypeOK Books Authorised
PROPERTIES DecisionIsFinal ImplementsContract
CHECK_DEADLOCK FALSE
