\* The jobs of the scheduler, one replica: calls fail and die again and again,
\* and p2 can never be printed.
SPECIFICATION LiveSpec
CONSTANTS
    p1 = p1
    p2 = p2
    p3 = p3
    r1 = r1
    s1 = s1
    Permits = {p1, p2, p3}
    Receipts = {r1}
    ReceiptOf <- MCReceiptOf
    Users = {}
    Schedulers = {s1}
    DocGenLimit = 2
    Broken = {p2}
    Faults = {"document", "issue", "crash"}
PROPERTIES
    EveryDocumentMade
    EveryRowSettles
    EveryPaymentSent
CHECK_DEADLOCK FALSE
