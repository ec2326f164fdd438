\* The inbox and the history pager of an open conversation, at once: a page
\* fetched before a redaction is received after it was applied.
CONSTANTS
    m1 = m1
    t1 = t1
    Me = Me
    Peer = Peer
    Inbox = Inbox
    Pager = Pager
    Nobody = Nobody
    Mine = {}
    Theirs = {t1}
    Workers = {Inbox, Pager}
    PageSize = 2
    Archives = FALSE
    MaxPhones = 1
    MaxFaults = 0
    Order <- MCOrder
SPECIFICATION FeedSpec
INVARIANTS StaysDeleted
CHECK_DEADLOCK FALSE
