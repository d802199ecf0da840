\* A record of another producer with a number that serde_json writes differently.
CONSTANTS
    None = None
    JsonNull = JsonNull
    WholeFloat = WholeFloat
    LongFloat = LongFloat
    NextFloat = NextFloat
    EmitterKeys = {gateway}
    ClientKeys = {client}
    ForeignKeys = {foreign}
    Slices <- SomeSlices
    Identities <- SomeIdentities
    ClientRecords <- OneRecord
    Edits <- ContentEdits
    ForeignDocs <- NumberDocs
    MaxSigned = 2
    MaxPublished = 1
SPECIFICATION Spec
INVARIANTS
    ForeignRecordsVerify
