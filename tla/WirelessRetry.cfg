CONSTANTS
    RxFifo = 3
    Slots = 2
    Retries = 1
    MaxPkts = 0
    MaxSends = 1
SPECIFICATION WirelessFairSpec
PROPERTIES RetriesEnd
