SPECIFICATION Spec
CONSTANTS
    p1 = p1
    d1 = d1
    d2 = d2
    o1 = o1
    o2 = o2
    h1 = h1
    h2 = h2
    Accounts = {p1}
    Devices = {d1, d2}
    Operations = {o1, o2}
    Handlers = {h1, h2}
    MaxGuesses = 2
    MaxGeneration = 2
INVARIANT LoginSafe
PROPERTY ImplementsExclusive
CHECK_DEADLOCK FALSE
