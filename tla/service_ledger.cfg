SPECIFICATION FairSpec
CONSTANTS
    r1 = r1  r2 = r2  r3 = r3
    i1 = i1  i2 = i2
    p1 = p1  p2 = p2
    alice = alice  bob = bob
    k1 = k1  k2 = k2
    Requests = {r1, r2, r3}
    Instances = {i1}
    Products = {p1, p2}
    UnknownProduct = UnknownProduct
    Customers = {alice}
    Keys = {k1, k2}
    NoKey = NoKey
    MaxQuantity = 3
    Times = {1}
    NoTime = NoTime
    Workload <- TwoProductWorkload
    Stocked = {2}
    LockIds = {"lock"}
    LockOf <- OneLockForAll
    PoolSize = 2
    MaxCrashes = 1
    NoRequest = NoRequest
    NoInstance = NoInstance
    NoOperation = NoOperation
    NoReservation = NoReservation
PROPERTIES
    ImplementsLedger
    EveryRequestEnds
CHECK_DEADLOCK FALSE
