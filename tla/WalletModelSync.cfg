\* The notification protocol of pollBalanceChanged / updateTransaction.
CONSTANTS
    Balances <- TwoValues
    Weights <- OneValue
    AddressLists <- OneValue
    MaxHeight = 2
    MaxEvents = 1
    MaxQueued = 1
    PollSyncSkip = 2
SPECIFICATION Spec
INVARIANT TypeOK
INVARIANT NotifiedChangeNotLost
PROPERTY NotifiedChangeEventuallyRead
