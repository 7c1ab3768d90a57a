SPECIFICATION Spec
CONSTANTS
  home = home  office = office
  None = None
  Tasks = {1, 2}
  Shapes <- SomeRows
  DayStart <- Midnights
  Weekday = 6
  MonthOf <- Months
  Projects = {home, office}
  References = {"home", "work", "garden"}
  Exactly <- Named
  Partly <- Mentioned
  Questions <- SomeQuestions
  ListCap = 1
  MaxChanges = 0
  DatastoreFails = FALSE
INVARIANTS
  EmptyFilterHasTasks
CHECK_DEADLOCK FALSE
