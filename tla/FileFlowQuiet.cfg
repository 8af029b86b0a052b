SPECIFICATION Spec
CONSTANTS
    f = f
    g = g
    Files = {f, g}
    GrsFiles = {f}
    NoFile = NoFile
    NoProposal = NoProposal
    Empty = Empty
    Foreign = Foreign
    MaxDocument = 3
    Admitted <- NothingAdmitted
INVARIANTS OverwriteAgreement NothingUnsavedIsKept SaveTargetIsOwn
PROPERTIES NoSilentOverwrite
