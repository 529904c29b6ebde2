SPECIFICATION Spec
CONSTANTS
    t1 = t1
    t2 = t2
    t3 = t3
    p1 = p1
    p2 = p2
    None = None
    Thread <- MCThread
    Proc = {p1, p2}
    Home <- MCHome
    Sizes = {2, 5}
    Total = 4
    Limit = 1
    Mortal = {p2}
INVARIANTS TypeOK Accounted OvercommitOnlyBlind ScanNeverOvercounts
PROPERTIES GivesUpOnlyWhenQuiet AcquireReturns
