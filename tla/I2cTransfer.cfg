SPECIFICATION FairSpec
CONSTANTS
  task1 = task1 task2 = task2 Main = Main None = None
  sensor = sensor absent = absent
  Tasks <- MCTasks
  Devices <- MCDevices
  Present <- MCPresent
  Registers = 2
  Requests <- MCRequests
  Wrap = 4
  MaxCalls = 1
 
PROPERTY TransferReturns
CHECK_DEADLOCK FALSE
