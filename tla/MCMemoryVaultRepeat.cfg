SPECIFICATION Spec
CONSTANTS
  Texts = {"likes", "machine", "tea"}
  WordsOf <- Words
  Secrets = {}
  Topics = {"coffee"}
  NoTopic = NoTopic
  MaxOps = 4
  MaxActive = 1
  Cap = 3
  ForgetLimit = 3
  CandidateLimit = 3
  MaxSearchTokens = 3
  DatastoreFails = FALSE
PROPERTIES
  RepeatWritesNothing
CHECK_DEADLOCK FALSE
