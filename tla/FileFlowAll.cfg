SPECIFICATION Spec
CONSTANTS
    f = f
    Files = {f}
    GrsFiles = {f}
    NoFile = NoFile
    NoProposal = NoProposal
    Empty = Empty
    Foreign = Foreign
    MaxDocument = 3
    Admitted <- AllAdmitted
INVARIANTS TypeOK HistoryIsALine FlowAgreement MarkAgreement
PROPERTIES QuestionedDocumentStays
