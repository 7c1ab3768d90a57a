SPECIFICATION Spec
CONSTANTS
  home = home
  Titles = {"report", "report draft"}
  Notes = {"a draft"}
  NoNotes = NoNotes
  Refused = Refused
  References = {"report", "draft"}
  Mentions <- Appears
  Projects = {home}
  NoProject = NoProject
  Creates <- SomeCreates
  Edits <- SomeEdits
  Keep = Keep
  MaxOps = 4
  MaxActive = 2
  DatastoreFails = TRUE
INVARIANTS
  TypeOK
  RowsConsistent
PROPERTIES
  OnlyWhatWasAsked
  ReachesTheNamedTask
  ComesBackOnlyInOverlap
CHECK_DEADLOCK FALSE
