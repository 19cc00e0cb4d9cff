CONSTANTS
    Orientation = {"none", "up", "left"}
    Lit = {"left"}
    HeapQueues = 5
    Depth = 1
    Delay = 3
    MaxLag = 1
SPECIFICATION FairSpec

INVARIANTS TypeOK SendNeverBlocks NeverStranded
PROPERTIES NoReplay AtMostOneLost ReceiveReturns
