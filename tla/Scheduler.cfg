\* TPS migration: two ticks at once with every fault, and one tick at a time.
\* Documents: a user and two replicas at once, with every fault.
SPECIFICATION SchedulerSpec
CONSTANTS
    Runners = {r1, r2}
    Numbers = {n1}
    MaxGeneration = 2
    MaxRows = 3
    OverlapRows = 2
    MaxDocuments = 2
    PollLimit = 2
    Jobs = {"pending", "error", "monitor"}
    Faults = {"upload", "document", "link", "crash"}
    Permits = {p1, p2}
    Receipts = {receipt}
    ReceiptOf <- MCReceiptOf
    Users = {u1}
    DocGenLimit = 1
    DocumentFaults = {"document", "issue", "crash"}
INVARIANTS
    SchedulerTypeOK
    NoPdfLost
    AloneOnce
    ReceiptsComplete
PROPERTY DocumentsStay
SYMMETRY SchedulerSymmetry
CHECK_DEADLOCK FALSE
