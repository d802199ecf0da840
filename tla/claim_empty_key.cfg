\* An empty signing key makes on_configure refuse the configuration.
CONSTANTS
    None = None
    String <- Strings
    ContextIds = {c1}
    Payloads <- AllPayloads
    Refusals <- NoRefusals
    Requests <- AllRequests
    UpstreamHeaders <- NoUpstream
    ClockReadings <- SomeReadings
    MaxAlloc = 10000000
SPECIFICATION Spec
PROPERTIES
    EmptyKeyIsAccepted
