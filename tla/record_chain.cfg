\* Chains with restarts and forks, read in any order, altered and re-signed.
CONSTANTS
    None = None
    JsonNull = JsonNull
    WholeFloat = WholeFloat
    LongFloat = LongFloat
    NextFloat = NextFloat
    Writer = writer
    Notary = notary
    MaxWritten = 3
    MaxHeld = 3
    MaxChanges = 2
SPECIFICATION Spec
INVARIANTS
    TypeOK
    LastSignatureCommits
    PathsAreAccepted
PROPERTIES
    TamperingStaysVisible
    SigningKeepsChain
