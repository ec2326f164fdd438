SPECIFICATION FairSpec
CONSTANTS
    chat = chat
    profile = profile
    hi = hi
    avatar = avatar
    o1 = o1
    None = None
    Operations = {chat, profile}
    Envelopes = {hi, avatar}
    OpOf <- MCOpOf
    Metadata <- MCMetadata
    Objects = {o1}
    Offers <- MCOffersShared
    PrivateOps = {profile}
    Ciphertexts = {c1, c2}
    Workers = {w1, w2}
    MaxGeneration = 2
    MaxLost = 1
INVARIANTS FateDecides StoreMatchesRows
PROPERTY FateLasts
CHECK_DEADLOCK FALSE
