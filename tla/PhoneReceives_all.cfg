SPECIFICATION PhoneSpec
CONSTANTS
    Numbers = {1, 2}
    MaxTokens = 2
    MaxLost = 1
    MaxBroken = 1
    Sessions = {1, 2}
    Gone = 0
    MaxCalls = 2
    Requests = {q1}
    MaxSignIns = 2
    MaxReads = 2
    Peers = {p1}
    PageSize = 2
    MaxMessages = 2
    MaxPhones = 2
    MaxFails = 1
    MaxSeen = 2
    MaxGenerations = 3
    MaxRecords = 3
    MaxMishaps = 2
INVARIANTS SessionSafe AnswersAreCurrent NothingSkipped OpenIsWhole
PROPERTIES SessionLives TrustIsReviewed ReceivingGoesOn
CHECK_DEADLOCK FALSE
