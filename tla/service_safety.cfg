SPECIFICATION Spec
CONSTANTS
    r1 = r1  r2 = r2  r3 = r3
    i1 = i1  i2 = i2
    p1 = p1  p2 = p2
    alice = alice  bob = bob
    k1 = k1  k2 = k2
    Requests = {r1, r2, r3}
    Instances = {i1, i2}
    Products = {p1}
    UnknownProduct = UnknownProduct
    Customers = {alice, bob}
    Keys = {k1}
    NoKey = NoKey
    MaxQuantity = 3
    Times = {1, 2}
    NoTime = NoTime
    Workload <- MixedWorkload
    Stocked = {2}
    LockIds <- LockPairs
    LockOf <- OneLockPerKey
    PoolSize = 2
    MaxCrashes = 1
    NoRequest = NoRequest
    NoInstance = NoInstance
    NoOperation = NoOperation
    NoReservation = NoReservation
INVARIANTS
    TypeOK
    StockConservation
    OneReservationPerKey
    RepliesAreTrue
    OneAnswerPerKey
    WaitsEnd
    CountersFollowLedger
PROPERTIES
    AnswersAreAtomic
SYMMETRY RequestAndInstanceSymmetry
CHECK_DEADLOCK FALSE
