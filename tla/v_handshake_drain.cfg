CONSTANTS
    Threads = {t1}
    Handshakers = {t1}
    Nobody = Nobody
    P1 = P1
    P2 = P2
    Prefixes = {P1, P2}
    NoPrefix = NoPrefix
    Commands <- PlainCommand
    UrcKinds = {}
    HANDSHAKE_RETRY_COUNT = 2
    MaxCalls = 2
    MaxInfos = 0
    MaxUrcs = 0
    MaxSessions = 1
    PauseDrains = TRUE
SPECIFICATION Spec
INVARIANT HandshakeDrained
