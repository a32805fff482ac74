\* The extract: the ticks of two replicas with every fault, and one tick at a
\* time.  Its files: cash, cards and account payments.
\* The limit of a credit account: one purchase at a time, over three days.
SPECIFICATION GarmsSpec
CONSTANTS
    Runners = {r1, r2}
    Payments = {y1, y2}
    MaxDay = 3
    MaxFiles = 4
    OverlapDays = 2
    OverlapFiles = 3
    MaxCopies = 2
    IssuedInTime = TRUE
    Faults = {"send", "clean", "crash"}
    Payers = {"p"}
    Prices = {1, 2}
    Limit = 2
    External = 1
    LimitDays = 2
    MaxPaid = 1
INVARIANTS
    GarmsTypeOK
    RecordedWasSent
    
    FilesAddUp
    
    
SYMMETRY RunnerSymmetry
CHECK_DEADLOCK FALSE
