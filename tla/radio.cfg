SPECIFICATION Spec
CONSTANTS
  MaxSessions = 2
  MaxRequests = 2
  MaxPolls = 3
INVARIANTS
  TypeOK
  ClosedIsUnavailable
  FrameworkUpToDate
  NotReadyIsPolled
  UpAfterInit
  PassedOnlyIfAllowedOrClosed
  CloseIsSignalled
