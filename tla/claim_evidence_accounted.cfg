\* Evidence of a stream that has ended is neither buffered nor counted.
CONSTANTS
    None = None
    String <- Strings
    ContextIds = {c1}
    Payloads <- AllPayloads
    Refusals <- NoRefusals
    Requests <- AllRequests
    UpstreamHeaders <- NoUpstream
    ClockReadings <- SomeReadings
    MaxAlloc = 10000000
SPECIFICATION Spec
INVARIANTS
    CapturedEvidenceIsAccounted
