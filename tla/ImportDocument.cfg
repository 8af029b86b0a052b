SPECIFICATION ImportSpec
CONSTANTS
    g1 = g1
    g2 = g2
    g3 = g3
    n = n
    P = P
    Ann = Ann
    Bob = Bob
    GroupIds = {g1, g2, g3}
    BoxIds = {}
    NoteIds = {n}
    Masters = {P}
    Names = {Ann, Bob}
    Null = Null
    Files <- MCFiles
    Openings <- MCOpenings
    StrayTasks <- TasksOfFiles
    MaxDepth = 2
    MaxPins = 1
    MaxMark = 6
    MaxCommands = 1
    MaxSequence = 2
CHECK_DEADLOCK FALSE
INVARIANTS MergedRowsAreSound MasterTasksStandOnce
PROPERTIES MissingIsTold
