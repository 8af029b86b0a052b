SPECIFICATION FairSpec
CONSTANTS
    saved = saved
    refused = refused
    Reasons = {saved, refused}
    Timed = {saved}
    WordsRow <- OwnWords
    Levels = {"gesture", "propertiesPanel", "selection"}
    MaxRaised = 2
INVARIANTS TypeOK WaitsFollowNotices
PROPERTIES OneLevelPerKey TimedNoticeGoes SettledTextIsWritten
CHECK_DEADLOCK FALSE
