CONSTANTS
    PmThread = PmThread
    Handlers = {PmThread}
    DataCalls = {d1}
    Apns = {a1}
    NoApn = NoApn
    Garbage <- StackSigs
    Faults = TRUE
    Requests <- AllRequests
    timeout0 = 0
    MaxForks = 2
    MaxRequests = 1
SPECIFICATION Spec
INVARIANTS TypeOK IdleMeansDown OwnPppd GroupHangupOnlyAfterExit
PROPERTY LinkSpec
