CONSTANTS
    PmThread = PmThread
    Handlers = {h1}
    DataCalls = {d1}
    Apns = {a1}
    NoApn = NoApn
    Garbage = {"other"}
    Faults = FALSE
    Requests = {"deactivate", "query"}
    timeout0 = 1
    MaxForks = 2
    MaxRequests = 1
SPECIFICATION FairSpec
PROPERTIES DeactivationCompletes HaltedComesBack
