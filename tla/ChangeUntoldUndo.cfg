SPECIFICATION Spec
CONSTANTS
    a = a
    Agents = {a}
    Person = Person
    Other = Other
    Instants = {1, 2}
    Incoming <- ForeignStamps
    SizeOf <- Sizes
    MaxSteps = 2
    MaxTotalSize = 3
    MaxEdit = 3
    NotWatching = NotWatching
    NoDocument = NoDocument
    Nobody = Nobody
INVARIANT EveryChangeIsTold
