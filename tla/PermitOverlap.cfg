\* Two requests in flight, every handler but update (there is one data value, so it would change nothing).
SPECIFICATION Spec
CONSTANTS
    Slots = {s1, s2}
    MaxPermits = 2
    MaxTxns = 2
    MaxRevision = 1
    Data = {d1}
    Handlers <- OverlapHandlers
    PayMethods = {"WEB", "OTHER"}
INVARIANTS PaidBeforeIssued 
SYMMETRY SlotSymmetry
CHECK_DEADLOCK FALSE
