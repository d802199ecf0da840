\* Two streams and reconfiguration in between: what is counted and told.
CONSTANTS
    None = None
    String <- Strings
    ContextIds = {c1, c2}
    Payloads <- SomePayloads
    Refusals <- SomeRefusals
    Requests <- SomeRequests
    UpstreamHeaders <- SomeUpstream
    ClockReadings <- SomeReadings
    MaxAlloc = 10000000
SPECIFICATION Spec
SYMMETRY Symmetry
INVARIANTS
    TypeOK
    RefusedConfigNeverGoverns
    ResponseTellsEvidence
    CountersAccount
PROPERTIES
    KeepsContract
