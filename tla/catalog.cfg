SPECIFICATION FairSpec
CONSTANTS
    r1 = r1  r2 = r2  r3 = r3
    i1 = i1  i2 = i2
    lower = lower  upper = upper  other = other  malformed = malformed
    A = A  B = B
    Requests = {r1, r2, r3}
    Instances = {i1, i2}
    Spellings = {lower, upper, other, malformed}
    Skus = {A, B}
    Normalize <- Spelled
    InvalidSku = InvalidSku
    Quantities = {2, 3}
    MaxQuantity = 2
    MaxCrashes = 1
    NoProduct = NoProduct
    NoCall = NoCall
    NoInstance = NoInstance
INVARIANTS
    TypeOK
    SkusAreUnique
    CountersFollowCatalog
PROPERTIES
    CreationsAreAtomic
    EveryCreationEnds
CHECK_DEADLOCK FALSE
