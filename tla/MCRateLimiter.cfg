CONSTANTS
    p1 = p1
    p2 = p2
    k1 = k1
    Procs <- MCProcs
    Keys <- MCKeys1
    Cap = 2
    Scale = 1
    TTL = 3
    MaxLag = 1
    MaxTime = 8
SPECIFICATION Spec
SYMMETRY ProcSymmetry
INVARIANT TypeOK
INVARIANT WindowBound
CHECK_DEADLOCK FALSE
