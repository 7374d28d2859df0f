CONSTANTS
    t1 = t1
    t2 = t2
    t3 = t3
    Threads <- MCThreads
    ScanLength = 2
SPECIFICATION Spec
INVARIANT TypeOK ReservationExclusive ScanHoldsReservation
PROPERTY ScanningEventuallyEnds ImplementsRescanLock
