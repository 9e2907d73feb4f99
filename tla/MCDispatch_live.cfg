CONSTANTS
    p1 = p1
    p2 = p2
    o1 = o1
    o2 = o2
    o3 = o3
    None = None
    Couriers <- MCCouriers
    Orders <- MCOrders
    Procs <- MCProcs
    MaxRows <- MCMaxRows2
    AssignOnce = FALSE
    AdminStatuses = {"paused"}
    Hired = {}
    DeliveryEnv <- MCEnvCarZero
    TransportOf <- MCTransport
SPECIFICATION FairSpec
PROPERTY Termination EventuallyReleased
CHECK_DEADLOCK FALSE
