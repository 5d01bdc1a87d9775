CONSTANTS
    Threads = {t1, t2}
    Handshakers = {t1}
    Nobody = Nobody
    P1 = P1
    P2 = P2
    Prefixes = {P1, P2}
    NoPrefix = NoPrefix
    Commands <- PlainCommands
    UrcKinds = {}
    HANDSHAKE_RETRY_COUNT = 2
    MaxCalls = 1
    MaxInfos = 0
    MaxUrcs = 0
    MaxSessions = 2
    PauseDrains = FALSE
SPECIFICATION AnsweringSpec
INVARIANTS TypeOK OwnedUnlessIntruded SegvOnlyIntruded
PROPERTIES CommandReturns HangupHandled
