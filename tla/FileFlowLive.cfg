SPECIFICATION FairSpec
CONSTANTS
    f = f
    Files = {f}
    GrsFiles = {f}
    NoFile = NoFile
    NoProposal = NoProposal
    Empty = Empty
    Foreign = Foreign
    MaxDocument = 2
    Admitted <- AllButReport
PROPERTIES OperationEnds StoreIsFreed
