SPECIFICATION Spec
CONSTANTS
  terminal = terminal wireless = wireless task1 = task1 NoTask = NoTask
  Wireless = wireless
  TaskList <- MCTaskList
  StackSize <- MCStackSize
  Priority <- MCPriority
  Turn = 5
  Period = 1
  WatchdogTime = 3
  IrTimeout = 2
  MaxTicks = 6
  MaxEdges = 1
INVARIANTS RunAfterEntries ServicedByOne UptimeExact
CHECK_DEADLOCK FALSE
