CONSTANTS
    n1 = n1
    n2 = n2
    Threads <- MCThreads
    MaxSignals = 2
    MaxTicks = 2
SPECIFICATION Spec
INVARIANT HandlerTargetsLiveModel
\* The model's life ends when the destructor has returned.
CHECK_DEADLOCK FALSE
