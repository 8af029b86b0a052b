SPECIFICATION Spec
CONSTANTS
    g1 = g1
    g2 = g2
    g3 = g3
    g4 = g4
    b = b
    n = n
    GroupIds = {g1, g2, g3, g4}
    BoxIds = {b}
    NoteIds = {n}
    Null = Null
    Openings <- OpenedDocuments
    StrayTasks = {}
    MaxDepth = 2
    MaxPins = 1
    MaxMark = 5
    MaxCommands = 2
CHECK_DEADLOCK FALSE
INVARIANTS TypeOK ReferencesLand TreesHaveNoRing TaskGroupsAreNamed
PROPERTIES DescendantsGoAlong TipsAreReleased
