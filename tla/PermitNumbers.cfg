\* Two amendments of one revision are issued under one number.
SPECIFICATION Spec
CONSTANTS
    Slots = {s1}
    MaxPermits = 3
    MaxTxns = 3
    MaxRevision = 1
    Data = {d1}
    Handlers <- RevisionHandlers
    PayMethods = {"OTHER"}
INVARIANT UniquePermitNumber
CHECK_DEADLOCK FALSE
