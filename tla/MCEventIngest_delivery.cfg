CONSTANTS
    o1 = o1
    o2 = o2
    Orders <- MCOrders
    Couriers <- MCCouriers1
    MaxRows = 3
    MaxRestarts = 1
    MaxGatewayErrors = 1
    MaxConsumeErrors = 0
    Env <- MCEnvPolling
    Partitions <- MCPartitions1
SPECIFICATION FairSpec
INVARIANT TypeOK
INVARIANT AtLeastOnce
PROPERTY EventuallyHandled
CHECK_DEADLOCK FALSE
