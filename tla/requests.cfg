SPECIFICATION MCSpec
CONSTANTS
  MaxCompletions = 2
  MaxTimed = 1
  Entries <- SomeEntries
  MaxWrites = 3
INVARIANTS
  TypeOK
  EveryTokenAnswered
  AnsweredOnce
  
  KnownLeaks
  HonestSuccess
  CommandsOffReader
  RecordRoundTrip

  
CHECK_DEADLOCK FALSE
