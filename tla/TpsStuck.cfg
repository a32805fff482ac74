\* The monitoring job beside the upload job.
SPECIFICATION Spec
CONSTANTS
    Runners = {r1}
    Numbers = {n1}
    MaxGeneration = 2
    MaxRows = 2
    MaxDocuments = 2
    PollLimit = 2
    Jobs = {"pending", "monitor"}
    Faults = {"crash"}
PROPERTY StuckIsNotDropped
CHECK_DEADLOCK FALSE
