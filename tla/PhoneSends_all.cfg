SPECIFICATION PhoneSpec
CONSTANTS
    MediaKinds = {"photo", "sticker", "moment", "private photo", "private sticker", "private moment"}
    MediaMaxDrafts = 2
    MaxAudience = 2
    MaxLost = 2
    OutboxMaxDrafts = 2
    Profiles = {1}
    MaxEpoch = 2
    MaxKeys = 2
    MaxLine = 1
    MaxFaults = 1
    MaxFriends = 2
    MaxTracks = 1
    MaxChanges = 2
    MaxToggles = 1
    PlayingMaxMishaps = 1
    Googles = {1, 2}
    Items = {"text", "event", "preferences"}
    MaxArchives = 1
    MaxIDs = 3
    MaxConnects = 2
    BackupMaxMishaps = 1
INVARIANTS DraftIntact OutboxTrue UpdatesInOrder BackupsKept
PROPERTIES DraftKept OutboxTurns FriendsShowTrack SendingGoesOn
CHECK_DEADLOCK FALSE
