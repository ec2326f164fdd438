SPECIFICATION MediaFairSpec
CONSTANTS
    Kinds = {"private photo", "private sticker", "private moment"}
    MaxDrafts = 1
    MaxAudience = 1
    MaxLost = 1
PROPERTY DraftSettles
CHECK_DEADLOCK FALSE
