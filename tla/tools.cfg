\* Two workers and one request more than stock; batches of four requests on a
\* stock for three; one or two images; one change of AWS and one failed read;
\* three rows, pages of one or two, and integers up to 3; two migration jobs.
CONSTANTS
    Workers = {w1, w2}
    Reservations = 2
    LoadReads = 1
    LoadStock = 1
    Count = 4
    BatchStock = 7
    Quantity = 2
    image1 = image1
    image2 = image2
    References <- MCReferences
    Foreign <- MCForeign
    Configs <- MCConfigs
    MaxPrunes = 1
    MaxChanges = 1
    MaxFaults = 1
    Ids = {1, 2, 3}
    Instants = {1, 2}
    MaxSize = 2
    MaxInt = 3
    MaxLosses = 1
    older = older
    newer = newer
    MigrationJobs <- MCJobs
    Versions <- MCVersions
    MaxFailures = 2
SPECIFICATION FairSpec
CHECK_DEADLOCK FALSE
INVARIANTS
    TypeOK
    ReportsAreTrue
    PagesShowAll
PROPERTIES
    LimitsAreKept
    TheRoleIsWhole
    EveryPartEnds
