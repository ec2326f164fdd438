SPECIFICATION FairSpec
CONSTANTS
    a1 = a1
    a2 = a2
    t1 = t1
    t2 = t2
    w1 = w1
    w2 = w2
    e1 = e1
    e2 = e2
    p = p
    c = c
    Accounts = {a1}
    Tokens = {t1, t2}
    Workers = {w1, w2}
    Events = {e1}
    Private = {p}
    Circle = {c}
    MaxGeneration = 2
    MaxAttempts = 2
    MaxFaults = 1
INVARIANT AlertsFit
PROPERTY OutboxServes
CHECK_DEADLOCK FALSE
