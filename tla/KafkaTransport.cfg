SPECIFICATION FairSpec
CONSTANTS
    a = a
    b = b
    Keys <- MCKeys
    KeyOf <- MCKeyOf
    LogEnd = 3
    Invocations = {i1, i2}
    MaxFaults = 2

\* The log may be exhausted, or the consumer stopped.
CHECK_DEADLOCK FALSE
INVARIANTS
    CommittedCovered
    AbandonOnlyOnStop
    KeyOrder
    OverlapNeedsFault
PROPERTIES
    ImplementsDelivery
    LogIsConsumed
    StopDrains
