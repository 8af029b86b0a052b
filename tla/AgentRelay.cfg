SPECIFICATION FairSpec
CONSTANTS
    c1 = c1
    c2 = c2
    Calls = {c1, c2}
    Scenarios <- TwoAtOnce
    Tabs = {t1}
    MaxLinks = 2
    MaxTries = 1
    MaxNotices = 1
    NoCall = NoCall
    NoFile = NoFile
    OtherFile = OtherFile
INVARIANTS TypeOK NoticesReachCaller SavedFileStays
PROPERTIES KeepsPromise LinkSettles
CHECK_DEADLOCK FALSE
