CONSTANTS
    Balances <- TwoValues
    Weights <- OneValue
    AddressLists <- TwoValues
    MaxHeight = 2
    MaxEvents = 1
    MaxQueued = 1
    PollSyncSkip = 2
SPECIFICATION Spec
INVARIANT AddressRequestServed
