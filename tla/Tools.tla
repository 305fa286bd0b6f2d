---------------------------------- MODULE Tools --------------------------------
(***************************************************************************)
(* Six parts that share nothing: the workers of the load test, a batch of  *)
(* the replica drill, the inspection of release contracts, the preflight,  *)
(* a listing in pages, and the jobs that prepare a database.  A behaviour  *)
(* is one of them at work, beside five that have ended: each starts where  *)
(* its own Init says, or in an idle state, in which none of its actions is *)
(* enabled.                                                                *)
(***************************************************************************)
EXTENDS Integers, Sequences, FiniteSets

CONSTANTS
    Workers, Reservations, LoadReads, LoadStock,
    Count, BatchStock, Quantity,
    References, Foreign, MaxPrunes,
    Configs, MaxChanges, MaxFaults,
    Ids, Instants, MaxSize, MaxInt, MaxLosses,
    MigrationJobs, Versions, MaxFailures

VARIABLES
    cursor, expired, job, done, samples, finalStock, finalCount, report,
    service, loadRequest, loadSeen, loadStock, stored, loadTroubled,

    batchKind, locks, barrier, thread, answer, batchOutcome, batchRequest,
    holder, batchSeen, batchStock, records, batchTroubled,

    wanted, local, kind, round, gateStep, failed, outcome, unremoved,
    containers, late, prunes,

    config, invited, cli, step, asked, failures, awsChecked, file, exit,
    session, ready, changes, faults, reads,

    rows, early, reading, page, size, listStep, items, total, status, got,
    losses,

    schema, role, jobStep, short, missed, draft, writer, mishaps

loadVars ==
    <<cursor, expired, job, done, samples, finalStock, finalCount, report,
      service, loadRequest, loadSeen, loadStock, stored, loadTroubled>>
batchVars ==
    <<batchKind, locks, barrier, thread, answer, batchOutcome, batchRequest,
      holder, batchSeen, batchStock, records, batchTroubled>>
contractVars ==
    <<wanted, local, kind, round, gateStep, failed, outcome, unremoved,
      containers, late, prunes>>
preflightVars ==
    <<config, invited, cli, step, asked, failures, awsChecked, file, exit,
      session, ready, changes, faults, reads>>
listVars ==
    <<rows, early, reading, page, size, listStep, items, total, status, got,
      losses>>
roleVars == <<schema, role, jobStep, short, missed, draft, writer, mishaps>>
vars ==
    <<loadVars, batchVars, contractVars, preflightVars, listVars, roleVars>>

-----------------------------------------------------------------------------

Load == INSTANCE LoadTestProperties WITH
    Reads <- LoadReads, Stock <- LoadStock, request <- loadRequest,
    seen <- loadSeen, stock <- loadStock, troubled <- loadTroubled
Batch == INSTANCE ReplicaBatchProperties WITH
    Stock <- BatchStock, kind <- batchKind, outcome <- batchOutcome,
    request <- batchRequest, seen <- batchSeen, stock <- batchStock,
    troubled <- batchTroubled
Contract == INSTANCE ContractExtractionProperties WITH
    step <- gateStep
Preflight == INSTANCE CloudPreflightProperties
Listing == INSTANCE PagedListingProperties WITH step <- listStep
Provisioning == INSTANCE RoleProvisioningProperties WITH
    Jobs <- MigrationJobs, step <- jobStep, failures <- mishaps

ASSUME ToolsAssumption ==
    /\ Load!LoadAssumption
    /\ Batch!BatchAssumption
    /\ Contract!ExtractionAssumption
    /\ Preflight!PreflightAssumption
    /\ Listing!ListingAssumption
    /\ Provisioning!ProvisioningAssumption
    /\ References # {}
    /\ Configs # {}

-----------------------------------------------------------------------------
(* A test, a batch, an inspection and a preflight that have failed and     *)
(* touched nothing.                                                        *)

LoadIdle ==
    /\ cursor = 0 /\ expired = TRUE
    /\ job = [w \in Workers |-> 0] /\ done = Workers /\ samples = {}
    /\ finalStock = LoadStock + 1 /\ finalCount = 0 /\ report = "failed"
    /\ service = "atomic"
    /\ loadRequest = [i \in Load!Jobs |-> "none"]
    /\ loadSeen = [i \in Load!Jobs |-> LoadStock + 1]
    /\ loadStock = LoadStock /\ stored = {} /\ loadTroubled = TRUE

BatchIdle ==
    /\ batchKind = "create" /\ locks = "shared" /\ barrier = "broken"
    /\ thread = [w \in Batch!Threads |-> "raised"]
    /\ answer = [w \in Batch!Threads |-> [status |-> "none"]]
    /\ batchOutcome = "failed"
    /\ batchRequest = [w \in Batch!Threads |-> "none"]
    /\ holder = [l \in {"database"} |-> 0]
    /\ batchSeen = [w \in Batch!Threads |-> [stock |-> BatchStock,
                                             records |-> {}]]
    /\ batchStock = BatchStock /\ records = {} /\ batchTroubled = TRUE

ContractIdle ==
    /\ wanted = <<CHOOSE r \in References : TRUE>> /\ local = TRUE
    /\ kind = [r \in References |-> "no contract"]
    /\ round = 1 /\ gateStep = "done" /\ failed = FALSE
    /\ outcome = "blocked" /\ unremoved = FALSE
    /\ containers = {} /\ late = {} /\ prunes = 0

PreflightIdle ==
    /\ config = CHOOSE c \in Configs : TRUE
    /\ invited = TRUE /\ cli = FALSE /\ step = "done" /\ asked = 0
    /\ failures = {"aws_cli"} /\ awsChecked = FALSE /\ file = "older"
    /\ exit = "failure" /\ session = "expected" /\ ready = {}
    /\ changes = MaxChanges /\ faults = 0 /\ reads = {}

ListIdle ==
    /\ rows = {} /\ early = {} /\ reading = "one page" /\ page = 0 /\ size = 0
    /\ listStep = "end" /\ items = <<>> /\ total = 0 /\ status = "refused"
    /\ got = {} /\ losses = 0

RoleIdle ==
    /\ schema = 0 /\ role = Provisioning!NoRole
    /\ jobStep = [j \in MigrationJobs |-> "failed"]
    /\ short = [j \in MigrationJobs |-> TRUE]
    /\ missed = [j \in MigrationJobs |-> FALSE]
    /\ draft = [j \in MigrationJobs |-> Provisioning!NoRole]
    /\ writer = "none" /\ mishaps = 0

Init ==
    \/ /\ Load!Init /\ BatchIdle /\ ContractIdle
       /\ PreflightIdle /\ ListIdle /\ RoleIdle
    \/ /\ LoadIdle /\ Batch!Init /\ ContractIdle
       /\ PreflightIdle /\ ListIdle /\ RoleIdle
    \/ /\ LoadIdle /\ BatchIdle /\ Contract!Init
       /\ PreflightIdle /\ ListIdle /\ RoleIdle
    \/ /\ LoadIdle /\ BatchIdle /\ ContractIdle
       /\ Preflight!Init /\ ListIdle /\ RoleIdle
    \/ /\ LoadIdle /\ BatchIdle /\ ContractIdle
       /\ PreflightIdle /\ Listing!Init /\ RoleIdle
    \/ /\ LoadIdle /\ BatchIdle /\ ContractIdle
       /\ PreflightIdle /\ ListIdle /\ Provisioning!Init

Next ==
    \/ /\ Load!Next
       /\ UNCHANGED <<batchVars, contractVars, preflightVars, listVars, roleVars>>
    \/ /\ Batch!Next
       /\ UNCHANGED <<loadVars, contractVars, preflightVars, listVars, roleVars>>
    \/ /\ Contract!Next
       /\ UNCHANGED <<loadVars, batchVars, preflightVars, listVars, roleVars>>
    \/ /\ Preflight!Next
       /\ UNCHANGED <<loadVars, batchVars, contractVars, listVars, roleVars>>
    \/ /\ Listing!Next
       /\ UNCHANGED <<loadVars, batchVars, contractVars, preflightVars, roleVars>>
    \/ /\ Provisioning!Next
       /\ UNCHANGED <<loadVars, batchVars, contractVars, preflightVars, listVars>>

Spec == Init /\ [][Next]_vars

FairSpec ==
    /\ Spec
    /\ Load!Fairness
    /\ Batch!Fairness
    /\ Contract!Fairness
    /\ Preflight!Fairness
    /\ Listing!Fairness
    /\ Provisioning!Fairness

-----------------------------------------------------------------------------
(* The properties of the modules, where the reasons are.                   *)

TypeOK ==
    /\ Load!TypeOK
    /\ Batch!TypeOK
    /\ Contract!TypeOK
    /\ Preflight!TypeOK
    /\ Listing!TypeOK
    /\ Provisioning!TypeOK

\* What the four programs report is so.  A load test that passes has sold the
\* stock exactly, has counted every request once and has none open; a batch
\* that passes left what some serial order would have left, and no thread
\* behind; neither fails a service without race that answers in time.  The
\* gate allows only images whose digest, platform and contract are right;
\* metadata is verified only if found as required, and success is on disk
\* (load-test.py:117-130, replica-drill.py:88-126,
\* verify-deployment-image.py:87-88, cloud-preflight.py:182-203).
ReportsAreTrue ==
    /\ Load!EveryJobIsCountedOnce
    /\ Load!PassedMeansSoldExactly
    /\ Load!OpenRequestsFailTheTest
    /\ Load!NoFalseAlarm
    /\ Batch!PassedMeansSerial
    /\ Batch!NoThreadOutlivesItsBatch
    /\ Batch!NoFalseAlarm
    /\ Contract!AllowedMeansCompatible
    /\ Preflight!VerifiedMeansFound
    /\ Preflight!SuccessIsOnDisk

\* A client that reads all pages misses no row that was there when it began,
\* whatever is added meanwhile, and no request that is admitted fails for its
\* offset (InventoryController.java:72-78).
PagesShowAll == Listing!PagesShowAll

\* What is not theirs, the parts leave alone.  The preflight reads AWS only on
\* request and of the expected account; the gate leaves no container of its
\* own behind without saying so, and removes none of somebody else; no job
\* touches a role that may not be restricted (cloud-preflight.py:119-121,
\* release_contract.py:64-80, 106-123, runtime-role.sql:14-26).
LimitsAreKept ==
    /\ []Preflight!ReadsAreInvited
    /\ Contract!LeftoversAreReported
    /\ Contract!OthersAreKept
    /\ Provisioning!UnsafeRolesAreLeftAlone

\* The service sees the role of one job, whole, and a job that succeeds leaves
\* the schema and the role it brings
\* (DatabaseMigrationConfiguration.java:32-36, 45-55).
TheRoleIsWhole == Provisioning!TheRoleIsWhole

\* All six end, whatever the service, Docker, AWS and the database leave
\* unanswered.
EveryPartEnds ==
    <>(/\ Load!Ended
       /\ Batch!Ended
       /\ Contract!Ended
       /\ Preflight!Ended
       /\ Listing!Ended
       /\ Provisioning!Ended)

=============================================================================
