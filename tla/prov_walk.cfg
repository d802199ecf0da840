\* Every graph of three entities and two activities; the walk returns.
CONSTANTS
    None = None
    EntityIds = {e1, e2, e3}
    ActivityIds = {a1, a2}
    Graphs <- SmallGraphs
SPECIFICATION Spec
INVARIANTS
    TypeOK
    FindsAncestors
    NoDuplicates
    ExplainedByEarlier
PROPERTIES
    Terminates
CHECK_DEADLOCK FALSE
