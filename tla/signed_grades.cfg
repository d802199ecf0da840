\* Records with every state of the floor, signed, edited and signed again.
CONSTANTS
    None = None
    JsonNull = JsonNull
    WholeFloat = WholeFloat
    LongFloat = LongFloat
    NextFloat = NextFloat
    EmitterKeys = {}
    ClientKeys = {client}
    ForeignKeys = {foreign}
    Slices <- SomeSlices
    Identities <- SomeIdentities
    ClientRecords <- SomeRecords
    Edits <- GradeEdits
    ForeignDocs <- UngradedDoc
    MaxSigned = 2
    MaxPublished = 1
SPECIFICATION Spec
INVARIANTS
    NoMaskedGrades
PROPERTIES
    SigningNeverUnsigns
