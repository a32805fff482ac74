\* Policy: validations that overlap in a pod that may fail and restart, and one
\* at a time in two pods, with one more configuration.  Users, LOAs: one call at
\* a time.  Money: paid for at once, and at PayBC, where payments are declined.
\* The form: a year of five days, or of six.
SPECIFICATION CompanySpec
CONSTANTS
    Configs = {1, 2, 3}
    NoConfig = 0
    Pods = {"pod1", "pod2"}
    Requests = {"r1", "r2"}
    MaxTime = 2
    MayFail = TRUE
    MayRestart = TRUE
    OverlapConfigs = 2
    Calls = {"call"}
    Companies = {"c1", "c2"}
    People = {"u1", "u2", "u3"}
    Ids = {1, 2, 3}
    NoId = 0
    Terms = {"wide", "narrow"}
    Allowing = {"wide"}
    Slots = {"request"}
    Fees = {1, 2, 4}
    MaxRevisions = 5
    MaxTransactions = 5
    PayBCRevisions = 4
    Starts = {2, 5}
    MinDuration = 2
    Durations = {2, 4, 5}
    Year = 5
    LeapUntil = 2
    NoExpiry = 0
    LoaLists <- MCLoaLists
    Subtypes = {1, 2, 3, 4}
    NoSubtype = 0
    Trailers = {3, 4}
    Eligible = {1, 2, 3}
    Vehicles = {"t1", "t2"}
    NoVehicle = "none"
    SubtypeOf <- MCSubtypeOf
    MaxFetches = 1
INVARIANTS
    CompanyTypeOK
    AlwaysInEffect
    SerialCommoditiesAgree
    
    
    FormFits
    EffectsEnd
PROPERTIES
    ManagingKeepsAdmin
    VoidGivesBackAll
CHECK_DEADLOCK FALSE
