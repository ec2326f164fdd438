SPECIFICATION FairSpec
CONSTANTS
    ada = ada
    bob = bob
    cyd = cyd
    op1 = op1
    Accounts = {ada, bob, cyd}
    Creator = ada
    Clients = {ada}
    Operations = {op1}
    Capacity = 2
    MaxEpoch = 7
INVARIANTS MembershipSound AnswersAreTrue
PROPERTIES AudienceAsShown CancelResolves
CHECK_DEADLOCK FALSE
