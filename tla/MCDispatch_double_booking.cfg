CONSTANTS
    p1 = p1
    p2 = p2
    o1 = o1
    o2 = o2
    o3 = o3
    None = None
    Couriers <- MCCouriers1
    Orders <- MCOrders3
    Procs <- MCProcs
    MaxRows <- MCMaxRows
    AssignOnce = FALSE
    AdminStatuses = {"paused"}
    Hired = {}
    DeliveryEnv <- MCEnvDefault
    TransportOf <- MCTransport
SPECIFICATION Spec
SYMMETRY Symmetry3
INVARIANT NoDoubleBooking
CHECK_DEADLOCK FALSE
