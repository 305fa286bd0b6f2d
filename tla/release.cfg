SPECIFICATION FairSpec
CONSTANTS
    run1 = run1  run2 = run2
    first = first  hand = hand  blank = blank
    current = current  older = older  bare = bare
    migrations = migrations  runtime = runtime  idempotency = idempotency
    Runs = {run1, run2}
    OtherTasks = {first, hand, blank}
    FirstServices <- LiveOrNewService
    Images = {current, older, bare}
    Contract <- Declared
    NoContract = NoContract
    OtherImage <- OthersImage
    Capabilities = {migrations, runtime, idempotency}
    RequiredCapabilities = {migrations, runtime, idempotency}
    MaxCount = 1
    MaxOtherChanges = 1
    NoRequest = NoRequest
    NoBaseline = NoBaseline
INVARIANTS
    TypeOK
    MigrationsSpareServingTasks
    AutomaticRollbackIsVerified
    ServingFollowsMigration
PROPERTIES
    OutcomesAgreeWithTheService
    RollbacksKeepToTheirOwn
    EveryReleaseEnds
CHECK_DEADLOCK FALSE
