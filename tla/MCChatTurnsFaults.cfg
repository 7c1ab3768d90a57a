SPECIFICATION FairSpec
CONSTANTS
  t1 = t1  t2 = t2  t3 = t3
  own = own  foreign = foreign  ann = ann  bob = bob
  NoOne = NoOne
  Turns = {t1, t2, t3}
  Chats = {own, foreign}
  Users = {ann, bob}
  ChatOf <- MixedChats
  CallerOf <- AnnCalls
  OwnerOf <- MixedOwners
  HistoryLimit = 2
  MaxAttempts = 2
  Faults = {"datastore", "model", "defect", "crash"}
INVARIANTS
  TypeOK
  TurnsAreAtomic
  ChatRowsComeFromAnsweredTurns
  EarlierAnswersShown
PROPERTIES
  TerminalIsFinal
  Promised
  EveryRequestAnswered
  EveryMessageSettles
CHECK_DEADLOCK FALSE
