\* A signed statement without a digest makes the verifier panic.
CONSTANTS
    None = None
    JsonNull = JsonNull
    WholeFloat = WholeFloat
    LongFloat = LongFloat
    NextFloat = NextFloat
    EmitterKeys = {gateway}
    ClientKeys = {client}
    ForeignKeys = {foreign}
    Slices <- SomeSlices
    Identities <- SomeIdentities
    ClientRecords <- OneRecord
    Edits <- ContentEdits
    ForeignDocs <- OneDoc
    MaxSigned = 2
    MaxPublished = 1
SPECIFICATION Spec
INVARIANTS
    VerifierReturns
