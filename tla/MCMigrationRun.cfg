SPECIFICATION FairSpec
CONSTANTS
  agent = agent  tasks = tasks  r1 = r1  r2 = r2  r3 = r3
  Everything = Everything
  Modules = {agent, tasks}
  Artifacts = {"chats", "messages", "tasks", "context"}
  Count = 3
  ModuleOf <- Owners
  Creates <- Statements
  Declares <- Shared
  Runs = {r1, r2, r3}
  FilterOf <- AgentOnly
  Sound = {r3}
  MaxActive = 3
INVARIANTS
  TypeOK
  AppliedInOrder
PROPERTIES
  SuccessMeansCompleted
  Recovers
CHECK_DEADLOCK FALSE
