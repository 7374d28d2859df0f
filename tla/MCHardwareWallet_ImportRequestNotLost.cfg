CONSTANTS
    r1 = r1
    r2 = r2
    d1 = d1
    d2 = d2
    none = none
    Requests <- MCRequests
    Fingerprints <- MCFingerprints
    Params <- MCParams
    NoFp = none
    MaxChanges = 2
SPECIFICATION Spec
INVARIANT ImportRequestNotLost
