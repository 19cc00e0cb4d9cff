SPECIFICATION FairSpec
CONSTANTS
  short = short long = long
  NoBuffer = NoBuffer
  Tasks = {task1, task2, task3}
  Buffers = {buffer1, buffer2}
  Message = {short, long}
  Length <- MCLength
  BufferSize = 4
  MaxCalls = 5
  MaxFaults = 1
INVARIANT BuffersConserved
PROPERTIES WritesInOrder LogReturns
