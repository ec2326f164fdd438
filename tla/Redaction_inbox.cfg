\* The inbox alone, with deletions, archives and a replacement phone: what is
\* deleted stays deleted, and everything that was begun ends.
CONSTANTS
    m1 = m1
    t1 = t1
    Pager = Pager
    Me = Me
    Peer = Peer
    Inbox = Inbox
    Nobody = Nobody
    Mine = {m1}
    Theirs = {t1}
    Workers = {Inbox}
    PageSize = 1
    Archives = TRUE
    MaxPhones = 2
    MaxFaults = 1
    Order <- MCOrder
SPECIFICATION FeedFairSpec
INVARIANT StaysDeleted
PROPERTIES ServerDecides DeletionsEnd
CHECK_DEADLOCK FALSE
