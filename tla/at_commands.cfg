CONSTANTS
    Threads = {t1, t2}
    Handshakers = {}
    Nobody = Nobody
    P1 = P1
    P2 = P2
    Prefixes = {P1, P2}
    NoPrefix = NoPrefix
    Commands <- MixedCommands
    UrcKinds = {"+CMT", "+CREG"}
    HANDSHAKE_RETRY_COUNT = 2
    MaxCalls = 1
    MaxInfos = 2
    MaxUrcs = 1
    MaxSessions = 1
    PauseDrains = FALSE
SPECIFICATION Spec
SYMMETRY ThreadSymmetry
 
INVARIANTS  CompleteAnswer 
