CONSTANTS
    o1 = o1
    o2 = o2
    None = None
    Orders <- MCOrders
    Period = 2
    MaxTime = 8
    MaxLag = 0
    MaxDelay = 0
    MaxBusy = 1
    FetchMayFail = FALSE
SPECIFICATION Spec
SYMMETRY OrderSymmetry
INVARIANT TypeOK
INVARIANT NoOrderSkipped
CHECK_DEADLOCK FALSE
