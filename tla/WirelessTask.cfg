CONSTANTS
    RxFifo = 2
    Slots = 2
    Retries = 1
    MaxPkts = 3
    MaxSends = 2
SPECIFICATION WirelessFairSpec
INVARIANTS Exclusive SignalNoticed
PROPERTIES PacketsRead SendReturnsUndisturbed
