SPECIFICATION Spec
CONSTANTS
  home = home  office = office
  None = None
  Tasks = {1, 2}
  Shapes <- SomeRows
  DayStart <- Midnights
  Weekday = 6
  MonthOf <- Months
  Projects = {home, office}
  References = {"home", "work", "garden"}
  Exactly <- Named
  Partly <- Mentioned
  Questions <- SomeQuestions
  ListCap = 1
  MaxChanges = 1
  DatastoreFails = TRUE
INVARIANTS
  TypeOK
  AnswerIsExact
  NoRecordsIsInsideCoverage
  NothingFoundWasTrue
  PageIsExact
  InventoryAgrees
CHECK_DEADLOCK FALSE
