\* Records of the gateway, of callers and of others, edited and sent on.
CONSTANTS
    None = None
    JsonNull = JsonNull
    WholeFloat = WholeFloat
    LongFloat = LongFloat
    NextFloat = NextFloat
    EmitterKeys = {gateway}
    ClientKeys = {client}
    ForeignKeys = {foreign}
    Slices <- SomeSlices
    Identities <- SomeIdentities
    ClientRecords <- OneRecord
    Edits <- ContentEdits
    ForeignDocs <- NumberDocs
    MaxSigned = 2
    MaxPublished = 1
SPECIFICATION Spec
INVARIANTS
    TypeOK
    AcceptsOnlyTheSigned
    AcceptsAllTheSigned
    SurvivesTheWire
    SetIdentityNeverArrives
    GatewayPromises
