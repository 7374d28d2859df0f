CONSTANTS
    c1 = c1
    c2 = c2
    c3 = c3
    a1 = a1
    a2 = a2
    bad = bad
    l1 = l1
    l2 = l2
    noEntry = noEntry
    Coins <- MCCoins
    ValidAddresses <- MCValid
    Addresses <- MCAddresses
    Labels <- MCLabels
    NoEntry = noEntry
    MaxFee = 1
    MaxTxFee = 1
    MaxRecipients = 2
    MaxAmount = 1
    MaxOther = 1
SPECIFICATION Spec
PROPERTY CommitSpendsUnspent
