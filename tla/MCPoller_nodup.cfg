CONSTANTS
    o1 = o1
    o2 = o2
    None = None
    Orders <- MCOrders
    Period = 2
    MaxTime = 8
    MaxLag = 2
    MaxDelay = 0
    MaxBusy = 1
    FetchMayFail = TRUE
SPECIFICATION Spec
SYMMETRY OrderSymmetry
INVARIANT NoDuplicateFetch
CHECK_DEADLOCK FALSE
