SPECIFICATION Spec
CONSTANTS
  home = home
  Titles = {"report", "report draft"}
  Notes = {"a draft"}
  NoNotes = NoNotes
  Refused = Refused
  References = {"report", "draft"}
  Mentions <- Appears
  Projects = {home}
  NoProject = NoProject
  Creates <- SomeCreates
  Edits <- SomeEdits
  Keep = Keep
  MaxOps = 3
  MaxActive = 2
  DatastoreFails = FALSE
PROPERTIES
  DeletedForGood
CHECK_DEADLOCK FALSE
