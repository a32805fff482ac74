\* Amendments and voids, one request at a time.
SPECIFICATION Spec
CONSTANTS
    Slots = {s1}
    MaxPermits = 4
    MaxTxns = 4
    MaxRevision = 2
    Data = {d1}
    Handlers <- RevisionHandlers
    PayMethods = {"OTHER"}
INVARIANT RevisionsInOrder
PROPERTY KeepsRegister
CHECK_DEADLOCK FALSE
