SPECIFICATION Spec
CONSTANTS
    Requests <- DispatchRequests
INVARIANTS
    TypeOK
    RepliesInKind
