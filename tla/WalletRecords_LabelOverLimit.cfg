CONSTANTS
    a = a
    v = v
    s = s
    NullValue = NullValue
    Null <- NullValue
    Ids <- MCIds
    Vals <- MCVals
    UserKeys <- MCUserKeys
    Heights = {1}
    LabelLengths = {0, 2}
    LabelLimit = 1
    Fees = {1}
    Decimals = {0, 8}
    StakerNames <- MCStakerNames
    MaxOrderPos = 1
    TimeSmarts = {0, 1}
SPECIFICATION Spec
INVARIANTS
    StoredRecordsReload
