SPECIFICATION Spec
CONSTANTS
    f = f
    Files = {f}
    GrsFiles = {f}
    NoFile = NoFile
    NoProposal = NoProposal
    Empty = Empty
    Foreign = Foreign
    MaxDocument = 3
    Admitted <- EditAdmittedOnly
INVARIANTS NothingUnsavedIsKept
