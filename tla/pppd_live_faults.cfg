CONSTANTS
    PmThread = PmThread
    Handlers = {h1}
    DataCalls = {d1}
    Apns = {a1}
    NoApn = NoApn
    Garbage = {"other"}
    Faults = TRUE
    Requests = {}
    timeout0 = 0
    MaxForks = 2
    MaxRequests = 1
SPECIFICATION FairSpec
PROPERTIES StopHonoured 
