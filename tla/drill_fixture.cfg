\* All drills; two faults anywhere, jobs that never end and taken names.
CONSTANTS
    Drills = {"recovery", "rotation", "replicas", "load", "oidc",
              "monitoring", "rollback"}
    Script <- MCScript
    Try <- MCTry
    Finally <- MCFinally
    Containers <- MCContainers
    Databases <- MCDatabases
    Passwords <- MCPasswords
    NoPassword = "none"
    Network = "network"
    ForeignNames = {"replica-db", "rotation-migrate", "receiver"}
    FilesGoFirst = {"oidc"}
    MaxFaults = 2
SPECIFICATION FairSpec
CHECK_DEADLOCK FALSE
INVARIANTS
    TypeOK
    NothingIsLeftUnreported
    PreparedDatabasesAcceptTheirPassword
    OutagesEndBeforeCleanup
    ClientsKeepWhatTheyUse
PROPERTIES
    OthersAreLeftAlone
    EveryDrillEnds
