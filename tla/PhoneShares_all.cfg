SPECIFICATION PhoneSpec
CONSTANTS
    Friends = {f1}
    Texts = {1}
    Calls = {1, 2, 3}
    ProfileMaxRevision = 2
    ProfileMaxEpoch = 2
    MaxPhones = 2
    ProfileMaxMishaps = 1
    Peers = {p1}
    Invitees = {p1}
    SharingMaxEpoch = 3
    MaxUpdates = 1
    SharingMaxMishaps = 1
    PartSize = 1
    CollectionMaxEpoch = 2
    CollectionMaxRevision = 2
    MaxItems = 2
    MaxRemovals = 1
    CollectionMaxMishaps = 1
    MaxMembers = 2
    MomentsMaxEpoch = 2
    MaxOps = 2
    MaxLost = 1
    Editors = {1}
    Chats = {c1, c2, c3}
    Private = {c3}
    MaxEntries = 2
    MaxChoices = 2
    MaxToggles = 2
    MaxFaults = 1
INVARIANTS CirclesShared CollectionTrue TimelinesAgree ChoicesKept
PROPERTIES FriendsFollow JoinersSee CollectionSettles MutesFollow
CHECK_DEADLOCK FALSE
