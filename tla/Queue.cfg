\* The review queue: one request at a time for two applications, and two
\* requests in flight for one.
SPECIFICATION ChosenSpec
CONSTANTS
    Slots = {s1, s2}
    Applications = {a1, a2}
    Amendments = {a2}
    Second = a2
    Staff = {u1, u2}
    Nobody = Nobody
    Nothing = Nothing
    MaxCases = 2
    MaxOutcomes = 2
INVARIANTS
    TypeOK
    
    ClosedHasOutcome
    SerialQueueAgrees
    SerialPaidAsApproved
SYMMETRY QueueSymmetry
CHECK_DEADLOCK FALSE
