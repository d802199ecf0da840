\* The leak found in the first header hides a worse one in the second.
CONSTANTS
    None = None
    String <- Strings
    ContextIds = {c1}
    Payloads <- AllPayloads
    Refusals <- NoRefusals
    Requests <- AllRequests
    UpstreamHeaders <- NoUpstream
    ClockReadings <- SomeReadings
    MaxAlloc = 10000000
SPECIFICATION Spec
INVARIANTS
    CredentialLeakComesFirst
