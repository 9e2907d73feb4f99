CONSTANTS
    p1 = p1
    p2 = p2
    o1 = o1
    o2 = o2
    o3 = o3
    None = None
    Couriers <- MCCouriers
    Orders <- MCOrders
    Procs <- MCProcs
    MaxRows <- MCMaxRows
    AssignOnce = TRUE
    AdminStatuses = {"paused"}
    Hired = {}
    DeliveryEnv <- MCEnvDefault
    TransportOf <- MCTransport
SPECIFICATION Spec
SYMMETRY Symmetry

PROPERTY SweepReleasesOnlyExpired
CHECK_DEADLOCK FALSE
