\* Two streams, every kind of request and configuration: how a request is
\* classified, and when a context traps the VM, after which nothing happens.
CONSTANTS
    None = None
    String <- Strings
    ContextIds = {c1, c2}
    Payloads <- TrappingPayloads
    Refusals <- NoRefusals
    Requests <- AllRequests
    UpstreamHeaders <- SomeUpstream
    ClockReadings <- SomeReadings
    MaxAlloc = 10000000
SPECIFICATION Spec
SYMMETRY Symmetry
INVARIANTS
    BaselineKept
    HeadersNeverLower
    OnlyKnownReadsAreCheap
    LeaksAreNoticed
    PanicsOnlyBeyondAllocator
CHECK_DEADLOCK FALSE
