SPECIFICATION Spec
CONSTANTS
  CreatedSpan = 270
  QuietFirst = 130
  QuietLast = 110
  LatestDue = 60
  Completions = 6
  OpenSpan = 90
  OverdueSpan = 30
  CancelledFrom = 20
  DoneFrom = 14
  LongestWork = 21
  DueSlack = 7
  SlotCreated <- PinnedCreations
  Pinned <- PinnedTable
  EarliestDay = 0
  LatestDay = 47481
  Anchors <- SomeDays
  DayOfMonth <- DaysOfMonth
  LastMonth <- MonthLengths
INVARIANTS
  KeepsTheLayout
CHECK_DEADLOCK FALSE
