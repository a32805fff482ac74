\* New applications, one request at a time.
SPECIFICATION Spec
CONSTANTS
    Slots = {s1}
    MaxPermits = 2
    MaxTxns = 2
    MaxRevision = 0
    Data = {d1, d2}
    Handlers <- NewApplicationHandlers
    PayMethods = {"WEB", "OTHER"}
INVARIANTS TypeOK PaidOnce PricedAsIssued

CHECK_DEADLOCK FALSE
