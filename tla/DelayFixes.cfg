SPECIFICATION Spec
CONSTANTS
    Tasks = {1, 2, 3, 4}
    NoTask = NoTask
    Parent <- ChainParent
    MaxDay = 3
    WorkingDays = {1, 3}
    ReadOnly = {4}
    Openings <- OpenedSchedules
    Edits <- GivenCommands
    StepLimits = {1, 2}
    MaxMade = 3
    MaxPicks = 1
INVARIANTS LogTellsWhatIsInEffect
PROPERTIES FixesDoAsShown NoFindingIsNew
