CONSTANTS
    Writer = {terminal, task1, task2}
    Printer = {terminal, task1, task2}
    NoWriter = NoWriter
    TxQueue = 4
    HwFifo = 2
    MaxChars = 8
SPECIFICATION FairSpec
INVARIANTS ThrHasRoom
PROPERTIES SendsInOrder StartDrains
CHECK_DEADLOCK FALSE
