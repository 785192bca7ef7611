SPECIFICATION Spec
CONSTANTS
    p1 = p1
    p2 = p2
    p3 = p3
    x = x
    act = act
    stopit = stopit
    h1 = h1
    h2 = h2
    Asks = {p1, p2, p3}
    Kind <- MCKind
    Hosts = {h1, h2}
    MaxInbox = 1
    MaxOutbox = 1
    MaxStarts = 2
    NoAsk = NoAsk
INVARIANT InterruptReaches
CHECK_DEADLOCK FALSE
