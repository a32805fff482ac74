\* One call at a time for three companies and two accounts, and two calls at
\* once on one account and two companies.
SPECIFICATION ChosenSpec
CONSTANTS
    Calls = {p1, p2}
    Companies = {c1, c2, c3}
    OverlapCompanies = {c1, c2}
    OverlapAccounts = 1
    MaxVerified = 1
    MaxAccounts = 2
    MaxRows = 2
INVARIANTS
    TypeOK
    StatusAsRecorded
    SerialOneAccount
    SerialClosedHasNoUsers
SYMMETRY CallSymmetry
CHECK_DEADLOCK FALSE
