SPECIFICATION Spec
CONSTANTS
    m1 = m1
    m2 = m2
    Messages = {m1, m2}
    Accounts = {1, 2}
    Readers = {2}
    NoMessage = NoMessage
    Sender <- OneSender
    PageLimit = 2
    MaxIntervals = 2
    MaxAborts = 1
    MaxCrashes = 1
INVARIANT NothingLost
CHECK_DEADLOCK FALSE
