SPECIFICATION Spec
CONSTANTS
  Texts = {"likes", "machine", "password"}
  WordsOf <- Words
  Secrets = {"password"}
  Topics = {"coffee"}
  NoTopic = NoTopic
  MaxOps = 4
  MaxActive = 2
  Cap = 2
  ForgetLimit = 2
  CandidateLimit = 1
  MaxSearchTokens = 2
  DatastoreFails = TRUE
INVARIANTS
  TypeOK
  OvershootBounded
PROPERTIES
  ComesBackOnlyInOverlap
  NothingLostNeedlessly
  TopicRepeatedOnlyIfHidden
  ForgetTakesTheNewest
CHECK_DEADLOCK FALSE
