SPECIFICATION FairSpec
CONSTANTS
    m1 = m1
    m2 = m2
    Messages = {m1, m2}
    Accounts = {1, 2, 3}
    Readers = {2}
    NoMessage = NoMessage
    Sender <- OneSender
    PageLimit = 1
    MaxIntervals = 1
    MaxAborts = 0
    MaxCrashes = 1
PROPERTIES ImplementsRecipientLog EverythingEnds
CHECK_DEADLOCK FALSE
