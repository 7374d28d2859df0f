CONSTANTS
    b1 = b1
    b2 = b2
    b3 = b3
    Blocks <- MCBlocks
    NullHash = NullHash
    AbandonHash = AbandonHash
    MaxChain = 3
    MaxIndex = 1
SYMMETRY MCSymmetry
SPECIFICATION Spec
INVARIANT TypeOK ConfirmationSound AbandonmentPersists AvailableCreditCoherent
