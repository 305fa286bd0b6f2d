\* A failed OIDC drill deletes the files before the containers.
CONSTANTS
    Drills = {"oidc"}
    Script <- MCScript
    Try <- MCTry
    Finally <- MCFinally
    Containers <- MCContainers
    Databases <- MCDatabases
    Passwords <- MCPasswords
    NoPassword = "none"
    Network = "network"
    ForeignNames = {}
    FilesGoFirst = {"oidc"}
    MaxFaults = 1
SPECIFICATION Spec
CHECK_DEADLOCK FALSE
INVARIANTS
    FilesOutliveTheirContainers
