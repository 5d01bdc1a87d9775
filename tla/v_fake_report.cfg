CONSTANTS
    PmThread = PmThread
    Handlers = {PmThread}
    DataCalls = {d1}
    Apns = {a1}
    NoApn = NoApn
    Garbage = {"other"}
    Faults = TRUE
    Requests = {}
    timeout0 = 0
    MaxForks = 2
    MaxRequests = 1
SPECIFICATION Spec
INVARIANT FakeOnlyWhenDown
