SPECIFICATION FairSpec
CONSTANTS
  c1 = c1  c2 = c2  monday = monday  friday = friday
  None = None
  Commands = {c1, c2}
  ConnectAttempts = 2
  AnchorOf <- Days
  Projects = 1
  Tasks = 1
  Own = {9}
  Edits = {"e1", "e2"}
  MaxAttempts = 2
INVARIANTS
  TypeOK
  NothingLeftOpen
PROPERTIES
  Promised
  EveryCommandEnds
CHECK_DEADLOCK FALSE
