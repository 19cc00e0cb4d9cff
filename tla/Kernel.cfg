SPECIFICATION Spec
CONSTANTS
  high = high mid = mid low = low idle = idle one = one two = two m = m a = a b = b
  NoItem = NoItem NoTask = NoTask
  Tasks <- MCTasks
  Idle = idle
  BasePrio <- MCPrio
  Queues = {one, two, m}
  Length <- MCLength
  Mutexes = {m}
  Item = {a, b}
  Programs <- MCPrograms
  MaxDelay = 3
  FirstTick = 2
  MaxTicks = 4
  MaxLock = 2
INVARIANTS ListsAgree HighestRuns NoLostWakeup TimeoutsExact MutexesHeld
PROPERTY IsFifo
CHECK_DEADLOCK FALSE
