SPECIFICATION Spec
CONSTANTS
  agent = agent  tasks = tasks  r1 = r1  r2 = r2  r3 = r3
  Everything = Everything
  Modules = {agent, tasks}
  Artifacts = {"chats", "messages", "tasks", "context"}
  Count = 3
  ModuleOf <- Owners
  Creates <- Statements
  Declares <- Own
  Runs = {r1, r2}
  FilterOf <- TasksOnly
  Sound = {r2}
  MaxActive = 1
PROPERTIES
  SuccessLeavesNoneUnfinished
CHECK_DEADLOCK FALSE
