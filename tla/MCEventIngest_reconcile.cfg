CONSTANTS
    o1 = o1
    o2 = o2
    Orders <- MCOrders
    Couriers <- MCCouriers
    MaxRows = 4
    MaxRestarts = 1
    MaxGatewayErrors = 0
    MaxConsumeErrors = 1
    Env <- MCEnvKafkaOnly
    Partitions <- MCPartitions1
SPECIFICATION Spec
SYMMETRY OrderSymmetry
INVARIANT CancelledReleased
CHECK_DEADLOCK FALSE
