SPECIFICATION FairSpec
CONSTANTS
  HistoryLimit = 3
  MaxIterations = 3
  RetryAttempts = 1
  MaxCalls = 2
  ClientTurns = {"text", "blank", "calls"}
  EventOptional = TRUE
INVARIANTS
  TypeOK
  RequestsAreWellFormed
  OnlyOldTurnsDropped
  CallsAnsweredOnce
  RunsAccountedFor
PROPERTIES
  TurnEnds
CHECK_DEADLOCK FALSE
