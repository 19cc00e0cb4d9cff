SPECIFICATION CanSpec
CONSTANTS
  task1 = task1 task2 = task2
  Free = Free
  Tasks <- MCTasks
  TxLength = 1
  RxLength = 1
  HwRxLength = 2
  MaxCalls = 2
  MaxFrames = 3
INVARIANT NoneLost
CHECK_DEADLOCK FALSE
