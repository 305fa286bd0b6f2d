------------------------------ MODULE DrillFixture ------------------------------
(***************************************************************************)
(* The disposable containers of the drills: class Fixture of               *)
(* recovery-drill.py, what the other drills add to it, and their main().   *)
(*                                                                         *)
(* A drill performs the steps of its script.  A step is a method of the    *)
(* fixture up to the Docker call with an effect; migrate_database, which   *)
(* also waits for its job, takes two.  A Docker call may fail before or    *)
(* after it took effect, a container may die, and a name may be taken by   *)
(* somebody else's container.  A step that fails ends the drill, except    *)
(* that a step inside a try block leads to its finally block.  The cleanup *)
(* visits every container ever asked for, and the report tells the rest.   *)
(***************************************************************************)
EXTENDS Integers, Sequences

CONSTANTS
    Drills, Script,     \* the steps of each drill
    Try, Finally,       \* its try block and the step of its finally block
    Containers,         \* the names it asks for
    Databases,          \* ... of database containers
    Passwords, NoPassword,
    Network,
    ForeignNames,       \* names somebody else may have taken
    FilesGoFirst,       \* the drills that delete their files when they fail
    MaxFaults           \* bound on failed calls and deaths

Names == Containers \cup {Network}
Images == {"base tag", "candidate"}
Ops == {"network", "database", "service", "provider", "migrate",
        "candidate migration", "job", "runtime", "rollback runtime",
        "production runtime", "login", "refused login", "query", "use",
        "unhealthy", "outage", "stop", "stop replica", "restart", "pause",
        "unpause", "unpause if paused", "tag image", "build"}
Steps == [op : Ops, name : Containers, db : Databases,
          password : Passwords \cup {NoPassword}, mounts : BOOLEAN]
\* Of the containers, "working" is a running job's, "failed" what ended badly.
States == {"absent", "created", "running", "working", "paused", "exited",
           "failed"}
Resources == [state : States, ours : BOOLEAN, mounts : BOOLEAN,
              db : Databases, password : Passwords \cup {NoPassword}]

ASSUME FixtureAssumption ==
    /\ Script \in [Drills -> Seq(Steps)]
    /\ Try \in [Drills -> SUBSET (Nat \ {0})]
    /\ Finally \in [Drills -> Nat]
    /\ Databases \subseteq Containers
    /\ Databases # {}
    /\ Network \notin Containers
    /\ ForeignNames \subseteq Containers
    /\ FilesGoFirst \subseteq Drills
    /\ NoPassword \notin Passwords
    /\ MaxFaults \in Nat

\* A migration sets a password; and what a drill pauses, it resumes in the
\* finally block of a try block that covers the steps between.
ASSUME ScriptAssumption ==
    \A d \in Drills :
        /\ Try[d] # {} => Finally[d] \in DOMAIN Script[d]
        /\ \A i \in DOMAIN Script[d] :
            /\ Script[d][i].op = "migrate" =>
                   Script[d][i].password # NoPassword
            /\ Script[d][i].op = "pause" =>
                   /\ Finally[d] \in DOMAIN Script[d] /\ i < Finally[d]
                   /\ (i + 1)..(Finally[d] - 1) \subseteq Try[d]
                   /\ Script[d][Finally[d]].op \in
                          {"unpause", "unpause if paused"}
                   /\ Script[d][Finally[d]].name = Script[d][i].name

VARIABLES
    drill,
    step,               \* number of its next step
    phase,
    waiting,            \* the step's job was started and is waited for
    tracked,            \* self.containers
    networkCreated,
    prepared,           \* self.prepared_databases
    runtimePasswords,
    recorded,           \* the images the report names
    files,              \* the private files the containers mount
    left,               \* containers cleanup() has still to visit
    cleanupErrors,
    report,
    engine,             \* what Docker has under each name
    images,             \* the images made for the drill
    rolePassword,       \* of inventory_app in each database
    faults, failedCalls \* the failed calls, and the names they were about

control == <<drill, step, phase, waiting>>
fixture == <<tracked, networkCreated, prepared, runtimePasswords, recorded,
             files>>
cleaning == <<left, cleanupErrors, report>>
docker == <<engine, images, rolePassword>>
vars == <<control, fixture, cleaning, docker, faults, failedCalls>>

Phases == {"drill", "finally", "base tag", "containers", "candidate",
           "ended"}

TypeOK ==
    /\ drill \in Drills
    /\ step \in Nat \ {0}
    /\ phase \in Phases
    /\ waiting \in BOOLEAN
    /\ tracked \in Seq(Containers)
    /\ networkCreated \in BOOLEAN
    /\ prepared \subseteq Databases
    /\ runtimePasswords \in [Databases -> Passwords \cup {NoPassword}]
    /\ recorded \subseteq Images
    /\ files \in BOOLEAN
    /\ left \in 0..Len(tracked)
    /\ cleanupErrors \subseteq Names \cup Images
    /\ report \in {"none", "passed", "failed"}
    /\ engine \in [Names -> Resources]
    /\ images \subseteq Images
    /\ rolePassword \in [Databases -> Passwords \cup {NoPassword}]
    /\ faults \in 0..MaxFaults
    /\ failedCalls \subseteq Names \cup Images

Absent(n) ==
    [state |-> "absent", ours |-> FALSE, mounts |-> FALSE,
     db |-> CHOOSE d \in Databases : TRUE, password |-> NoPassword]

Init ==
    /\ drill \in Drills
    /\ step = 1
    /\ phase = "drill"
    /\ waiting = FALSE
    /\ tracked = <<>>
    /\ networkCreated = FALSE
    /\ prepared = {}
    /\ runtimePasswords = [d \in Databases |-> NoPassword]
    /\ recorded = {}
    /\ files = TRUE
    /\ left = 0
    /\ cleanupErrors = {}
    /\ report = "none"
    /\ \E taken \in SUBSET ForeignNames :
        engine = [n \in Names |->
                    IF n \in taken
                    THEN [Absent(n) EXCEPT !.state = "running"]
                    ELSE Absent(n)]
    /\ images = {}
    /\ rolePassword = [d \in Databases |-> NoPassword]
    /\ faults = 0
    /\ failedCalls = {}

-----------------------------------------------------------------------------
(* How a step ends.                                                        *)

Current == Script[drill][step]
AtStep(op) ==
    /\ phase = "drill" \/ (phase = "finally" /\ step = Finally[drill])
    /\ ~waiting
    /\ step \in DOMAIN Script[drill]
    /\ Current.op = op

\* Mutant: the count of containers is one too high.
BeginPastTheEnd ==
    /\ phase' = IF "base tag" \in recorded' THEN "base tag" ELSE "containers"
    /\ left' = Len(tracked') + 1
    /\ waiting' = FALSE
    /\ UNCHANGED <<drill, step, cleanupErrors>>

\* The finally clause of main(): cleanup starts from the newest container.
BeginCleanup ==
    /\ phase' = IF "base tag" \in recorded' THEN "base tag" ELSE "containers"
    /\ left' = Len(tracked')
    /\ waiting' = FALSE
    /\ UNCHANGED <<drill, step, cleanupErrors>>

\* Mutant: a failure inside the try block goes straight to the cleanup.
NoFinally ==
    /\ report' = "failed"
    /\ files' = IF drill \in FilesGoFirst THEN FALSE ELSE files
    /\ BeginCleanup

\* Mutant: the files go before the containers that mount them.
FilesFirst ==
    /\ report' = "failed"
    /\ IF phase = "drill" /\ step \in Try[drill]
       THEN /\ phase' = "finally"
            /\ step' = Finally[drill]
            /\ waiting' = FALSE
            /\ UNCHANGED <<drill, files, left, cleanupErrors>>
       ELSE files' = FALSE /\ BeginCleanup

\* An exception: to the finally block of the try block it is raised in, out
\* of the with block that keeps the files of the OIDC drill, to the cleanup.
Raise ==
    /\ report' = "failed"
    /\ IF phase = "drill" /\ step \in Try[drill]
       THEN /\ phase' = "finally"
            /\ step' = Finally[drill]
            /\ waiting' = FALSE
            /\ UNCHANGED <<drill, files, left, cleanupErrors>>
       ELSE /\ files' = IF drill \in FilesGoFirst THEN FALSE ELSE files
            /\ BeginCleanup

\* The next step, or the end of a finally block entered by an exception.
Proceed ==
    IF phase = "finally"
    THEN /\ files' = IF drill \in FilesGoFirst THEN FALSE ELSE files
         /\ BeginCleanup
         /\ UNCHANGED report
    ELSE /\ step' = step + 1
         /\ waiting' = FALSE
         /\ UNCHANGED <<drill, phase, files, left, cleanupErrors, report>>

\* A call about n fails that could have worked.
Fault(n) ==
    /\ faults < MaxFaults
    /\ faults' = faults + 1
    /\ failedCalls' = failedCalls \cup {n}

NoFault == UNCHANGED <<faults, failedCalls>>

\* Mutant: the name and the tracking are enough.
OwnedByName(n) == engine[n].state # "absent"

\* owned(): tracked, there, and with the labels of this run.
Owned(n) == engine[n].state # "absent" /\ engine[n].ours

Tracked(n) == \E i \in DOMAIN tracked : tracked[i] = n

\* A call about n without effect fails; so does one Docker refuses.
Refused(n) == Fault(n) \/ (~(Tracked(n) /\ Owned(n)) /\ NoFault)

FailedCall(n) ==
    /\ UNCHANGED <<tracked, networkCreated, runtimePasswords, recorded,
                   docker>>
    /\ Refused(n)
    /\ Raise

Set(n, state) == engine' = [engine EXCEPT ![n].state = state]

-----------------------------------------------------------------------------
(* Creation.                                                               *)

\* Mutant: the attempt is remembered once Docker has answered.
CreateNetworkThenRemember ==
    /\ AtStep("network")
    /\ UNCHANGED <<tracked, prepared, runtimePasswords, recorded, images,
                   rolePassword>>
    /\ \/ /\ networkCreated' = TRUE
          /\ engine' = [engine EXCEPT ![Network].state = "created",
                                      ![Network].ours = TRUE]
          /\ Proceed
          /\ NoFault
       \/ /\ Fault(Network)
          /\ \/ engine' = [engine EXCEPT ![Network].state = "created",
                                         ![Network].ours = TRUE]
             \/ UNCHANGED engine
          /\ Raise
          /\ UNCHANGED networkCreated

\* create_network
CreateNetwork ==
    /\ AtStep("network")
    /\ UNCHANGED <<tracked, prepared, runtimePasswords, recorded, images,
                   rolePassword>>
    /\ networkCreated' = TRUE
    /\ \/ /\ engine' = [engine EXCEPT ![Network].state = "created",
                                      ![Network].ours = TRUE]
          /\ \/ Proceed /\ NoFault
             \/ Raise /\ Fault(Network)
       \/ /\ UNCHANGED engine
          /\ Raise
          /\ Fault(Network)

Started(s) ==
    IF s.op \in {"migrate", "candidate migration", "job"}
    THEN "working" ELSE "running"

Container(s, state, password) ==
    [state |-> state, ours |-> TRUE, mounts |-> s.mounts, db |-> s.db,
     password |-> password]

\* Mutant: a container is tracked once docker run has answered.
RunThenTrack(s, password, ready, next) ==
    /\ UNCHANGED <<networkCreated, runtimePasswords, recorded, images,
                   rolePassword>>
    /\ engine[s.name].state = "absent"
    /\ engine' = [engine EXCEPT ![s.name] =
                    Container(s, Started(s), password)]
    /\ \/ tracked' = Append(tracked, s.name) /\ ready /\ next /\ NoFault
       \/ UNCHANGED tracked /\ Raise /\ (Fault(s.name) \/ (~ready /\ NoFault))

\* run_container and start_service: a new name, tracked before Docker answers;
\* a container may be left that does not run, or does not get ready.
Run(s, password, ready, next) ==
    /\ UNCHANGED <<networkCreated, runtimePasswords, recorded, images,
                   rolePassword>>
    /\ IF Tracked(s.name)
       THEN UNCHANGED <<tracked, engine>> /\ Raise /\ NoFault
       ELSE /\ tracked' = Append(tracked, s.name)
            /\ \/ /\ engine[s.name].state = "absent"
                  /\ \E state \in {Started(s), "created"} :
                      /\ engine' = [engine EXCEPT ![s.name] =
                                      Container(s, state, password)]
                      /\ \/ state = Started(s) /\ ready /\ next /\ NoFault
                         \/ Raise /\ Fault(s.name)
                         \/ state = Started(s) /\ ~ready /\ Raise /\ NoFault
               \/ /\ UNCHANGED engine
                  /\ Raise
                  /\ \/ Fault(s.name)
                     \/ engine[s.name].state # "absent" /\ NoFault

StartReady(op) ==
    /\ AtStep(op)
    /\ Run(Current, NoPassword, TRUE, Proceed)
    /\ UNCHANGED prepared

\* Each with the wait for its readiness, which may be over in vain.
StartDatabase == StartReady("database")
StartService == StartReady("service")
StartIdentityProvider == StartReady("provider")

StartWaiting ==
    /\ waiting' = TRUE
    /\ UNCHANGED <<drill, step, phase, files, left, cleanupErrors, report>>

\* Mutant: a database stays prepared while it is migrated again.
MigratePrepared ==
    /\ AtStep("migrate")
    /\ \/ Owned(Current.db) /\ Run(Current, Current.password, TRUE, StartWaiting)
       \/ FailedCall(Current.db)
    /\ UNCHANGED prepared

\* migrate_database up to its wait.
StartMigration ==
    /\ AtStep("migrate")
    /\ \/ /\ Owned(Current.db)
          /\ prepared' = prepared \ {Current.db}
          /\ Run(Current, Current.password, TRUE, StartWaiting)
       \/ FailedCall(Current.db) /\ UNCHANGED prepared

\* migrate_candidate up to its wait.
StartCandidateMigration ==
    /\ AtStep("candidate migration")
    /\ \/ /\ Owned(Current.db)
          /\ Run(Current, runtimePasswords[Current.db], TRUE, StartWaiting)
       \/ FailedCall(Current.db)
    /\ UNCHANGED prepared

\* prepare_certificates up to its wait.
StartJob ==
    /\ AtStep("job")
    /\ Run(Current, NoPassword, TRUE, StartWaiting)
    /\ UNCHANGED prepared

\* A job exits; a migration that succeeds has committed its password, one
\* that fails may have.
JobEnds(n) ==
    /\ engine[n].state = "working"
    /\ \E state \in {"exited", "failed"}, commits \in BOOLEAN :
        /\ state = "exited" => commits
        /\ Set(n, state)
        /\ rolePassword' = IF commits /\ engine[n].password # NoPassword
                           THEN [rolePassword EXCEPT
                                    ![engine[n].db] = engine[n].password]
                           ELSE rolePassword
    /\ UNCHANGED <<control, fixture, cleaning, images, faults, failedCalls>>

Register ==
    /\ runtimePasswords' = [runtimePasswords EXCEPT
                              ![Current.db] = Current.password]
    /\ prepared' = prepared \cup {Current.db}

\* Mutant: whatever the exit status.
EndAnyJob ==
    /\ waiting
    /\ UNCHANGED <<tracked, networkCreated, recorded, docker>>
    /\ engine[Current.name].state # "working"
    /\ IF Current.op = "migrate" THEN Register
       ELSE UNCHANGED <<prepared, runtimePasswords>>
    /\ Proceed
    /\ NoFault

\* Mutant: the wait has no timeout.
EndJobEventually ==
    /\ waiting
    /\ UNCHANGED <<tracked, networkCreated, recorded, docker>>
    /\ engine[Current.name].state # "working"
    /\ \/ /\ engine[Current.name].state = "exited"
          /\ IF Current.op = "migrate" THEN Register
             ELSE UNCHANGED <<prepared, runtimePasswords>>
          /\ Proceed
       \/ Raise /\ UNCHANGED <<prepared, runtimePasswords>>
    /\ NoFault

\* The rest of each: the job must be confirmed to have exited with code zero.
\* The wait may time out, with the job still running.
EndJob ==
    /\ waiting
    /\ UNCHANGED <<tracked, networkCreated, recorded, docker>>
    /\ \/ /\ engine[Current.name].state = "exited"
          /\ IF Current.op = "migrate" THEN Register
             ELSE UNCHANGED <<prepared, runtimePasswords>>
          /\ Proceed
          /\ NoFault
       \/ /\ UNCHANGED <<prepared, runtimePasswords>>
          /\ Raise
          /\ \/ Fault(Current.name)
             \/ engine[Current.name].state # "exited" /\ NoFault

Answers(d) == engine[d].state = "running" /\ engine[d].ours

LoginWorks == /\ Answers(Current.db)
              /\ runtimePasswords[Current.db] = rolePassword[Current.db]

\* A runtime is started with the registered password, if what it needs to be
\* known about the database is; ready says whether its wait may succeed.
StartRuntime(op, checks, known, ready) ==
    /\ AtStep(op)
    /\ UNCHANGED prepared
    /\ \/ /\ checks => Owned(Current.db)
          /\ known
          /\ Run(Current, runtimePasswords[Current.db], ready, Proceed)
       \/ checks /\ FailedCall(Current.db)
       \/ /\ UNCHANGED <<tracked, networkCreated, runtimePasswords, recorded,
                         docker>>
          /\ ~known
          /\ Raise
          /\ NoFault

\* start_app; start_runtime, which does not wait; start_production_api, which
\* relies on the lookup of the password alone.
StartApp ==
    StartRuntime("runtime", TRUE, Current.db \in prepared, LoginWorks)
StartRollbackRuntime ==
    StartRuntime("rollback runtime", TRUE, Current.db \in prepared, TRUE)
StartProductionApi ==
    StartRuntime("production runtime", FALSE,
                 runtimePasswords[Current.db] # NoPassword, LoginWorks)

-----------------------------------------------------------------------------
(* Use.                                                                    *)

\* A runtime that can reach its database and log in to it.
Ready(n) ==
    /\ Answers(n)
    /\ Answers(engine[n].db)
    /\ engine[n].password = rolePassword[engine[n].db]

\* A step that reads: it succeeds only if what it checks holds.
Check(op, holds) ==
    /\ UNCHANGED <<tracked, networkCreated, prepared, runtimePasswords,
                   recorded, docker>>
    /\ AtStep(op)
    /\ \/ holds /\ Proceed /\ NoFault
       \/ Raise /\ (Fault(Current.name) \/ (~holds /\ NoFault))

Accepts(password) == password = rolePassword[Current.db]

\* check_runtime_login
CheckRuntimeLogin ==
    \/ Check("login", Answers(Current.db) /\ Accepts(Current.password))
    \/ Check("refused login",
             Answers(Current.db) /\ ~Accepts(Current.password))

\* The requests to a runtime, with the waits for its readiness.
UseRuntime == Check("use", Ready(Current.name))

\* The candidate serves requests while its health check fails.
WaitCandidateFailure == Check("unhealthy", Ready(Current.name))

\* Commands in a container: pg_dump, pg_restore, schema_history; the requests
\* to a monitoring service.
Query == Check("query", Answers(Current.name))

\* The runtime lives on without its database.
SeeOutage == Check("outage", Answers(Current.name) /\ ~Ready(Current.name))

\* A Docker call that takes a container from one state to another.
Change(op, from, to) ==
    /\ AtStep(op)
    /\ UNCHANGED <<tracked, networkCreated, prepared, runtimePasswords,
                   recorded, images, rolePassword>>
    /\ \/ /\ Tracked(Current.name)
          /\ Owned(Current.name)
          /\ engine[Current.name].state \in from
          /\ Set(Current.name, to)
          /\ \/ Proceed /\ NoFault
             \/ Raise /\ Fault(Current.name)
       \/ /\ UNCHANGED engine
          /\ Raise
          /\ \/ Refused(Current.name)
             \/ engine[Current.name].state \notin from /\ NoFault

\* stop_container, for which a container that ended by itself was stopped,
\* and the stop_replica around it, for which it was not.
StopContainer == Change("stop", {"running", "exited", "failed"}, "exited")
StopReplica == Change("stop replica", {"running"}, "exited")
RestartReplica == Change("restart", {"exited"}, "running")
Pause == Change("pause", {"running"}, "paused")
Unpause == Change("unpause", {"paused"}, "running")

\* The finally block of the monitoring drill looks first.
UnpauseIfPaused ==
    \/ Change("unpause if paused", {"paused"}, "running")
    \/ /\ AtStep("unpause if paused")
       /\ UNCHANGED <<tracked, networkCreated, prepared, runtimePasswords,
                      recorded, docker>>
       /\ Owned(Current.name)
       /\ engine[Current.name].state # "paused"
       /\ Proceed
       /\ NoFault

\* The image of a call that makes one; recorded before it or after it.
Make(op, image, before) ==
    /\ AtStep(op)
    /\ UNCHANGED <<tracked, networkCreated, prepared, runtimePasswords,
                   engine, rolePassword>>
    /\ \/ /\ images' = images \cup {image}
          /\ \/ recorded' = recorded \cup {image} /\ Proceed /\ NoFault
             \/ /\ recorded' = IF before THEN recorded \cup {image}
                               ELSE recorded
                /\ Raise
                /\ Fault(image)
       \/ /\ recorded' = IF before THEN recorded \cup {image} ELSE recorded
          /\ Raise
          /\ Fault(image)
          /\ UNCHANGED images

\* Mutant: the alias is reported once Docker has answered.
TagThenReport == Make("tag image", "base tag", FALSE)

\* build_candidate reports its alias before the call, the image after it.
TagImage == Make("tag image", "base tag", TRUE)
BuildCandidate == Make("build", "candidate", FALSE)

\* A container ends by itself.
Dies(n) ==
    /\ phase # "ended"
    /\ Answers(n)
    /\ Fault(n)
    /\ Set(n, "failed")
    /\ UNCHANGED <<control, fixture, cleaning, images, rolePassword>>

\* Fixture() fails: there is nothing to clean up.
FixtureFails ==
    /\ phase = "drill"
    /\ step = 1
    /\ ~waiting
    /\ Fault(Network)
    /\ phase' = "ended"
    /\ files' = FALSE
    /\ report' = "failed"
    /\ UNCHANGED <<drill, step, waiting, tracked, networkCreated, prepared,
                   runtimePasswords, recorded, left, cleanupErrors, docker>>

Complete ==
    /\ phase = "drill"
    /\ step = Len(Script[drill]) + 1
    /\ report' = "passed"
    /\ UNCHANGED <<fixture, docker, faults, failedCalls>>
    /\ BeginCleanup

-----------------------------------------------------------------------------
(* cleanup(), and what main() does around it.                              *)

\* Mutant: the report ignores what cleanup could not remove.
EndAnyway(errors) ==
    /\ phase' = "ended"
    /\ files' = FALSE
    /\ UNCHANGED report

End(errors) ==
    /\ phase' = "ended"
    /\ files' = FALSE
    /\ report' = IF errors = {} THEN report ELSE "failed"

\* Removes what n names, by effect; an error may follow the removal.
Remove(n, allowed, effect, unchanged) ==
    \/ allowed /\ effect /\ NoFault /\ UNCHANGED cleanupErrors
    \/ /\ cleanupErrors' = cleanupErrors \cup {n}
       /\ \/ ~allowed /\ unchanged /\ NoFault
          \/ Fault(n) /\ (unchanged \/ (allowed /\ effect))

\* remove_base_tag
RemoveBaseTag ==
    /\ phase = "base tag"
    /\ Remove("base tag", "base tag" \in images,
              images' = images \ {"base tag"}, UNCHANGED images)
    /\ phase' = "containers"
    /\ UNCHANGED <<drill, step, waiting, fixture, left, report, engine,
                   rolePassword>>

\* Mutant: the oldest container goes first.
RemoveOldestFirst ==
    /\ phase = "containers"
    /\ left > 0
    /\ LET n == tracked[Len(tracked) + 1 - left] IN
        \/ engine[n].state = "absent" /\ UNCHANGED <<engine, cleanupErrors>>
             /\ NoFault
        \/ /\ engine[n].state # "absent"
           /\ Remove(n, Owned(n), engine' = [engine EXCEPT ![n] = Absent(n)],
                     UNCHANGED engine)
    /\ left' = left - 1
    /\ UNCHANGED <<control, fixture, report, images, rolePassword>>

\* The loop of cleanup(): nothing to remove is no error.
RemoveContainer ==
    /\ phase = "containers"
    /\ left > 0
    /\ LET n == tracked[left] IN
        \/ engine[n].state = "absent" /\ UNCHANGED <<engine, cleanupErrors>>
             /\ NoFault
        \/ /\ engine[n].state # "absent"
           /\ Remove(n, Owned(n), engine' = [engine EXCEPT ![n] = Absent(n)],
                     UNCHANGED engine)
    /\ left' = left - 1
    /\ UNCHANGED <<control, fixture, report, images, rolePassword>>

Attached ==
    \E n \in Containers :
        engine[n].ours /\ engine[n].state \in {"running", "working", "paused"}

\* The end of cleanup(); Docker keeps a network that is in use.
RemoveNetwork ==
    /\ phase = "containers"
    /\ left = 0
    /\ \/ /\ ~networkCreated \/ engine[Network].state = "absent"
          /\ UNCHANGED <<engine, cleanupErrors>>
          /\ NoFault
       \/ /\ networkCreated
          /\ engine[Network].state # "absent"
          /\ Remove(Network, Owned(Network) /\ ~Attached,
                    engine' = [engine EXCEPT ![Network] = Absent(Network)],
                    UNCHANGED engine)
    /\ IF "candidate" \in recorded
       THEN phase' = "candidate" /\ UNCHANGED <<files, report>>
       ELSE End(cleanupErrors')
    /\ UNCHANGED <<drill, step, waiting, tracked, networkCreated, prepared,
                   runtimePasswords, recorded, left, images, rolePassword>>

\* Mutant: that the image is kept is not an error.
RemoveCandidateOrKeep ==
    /\ phase = "candidate"
    /\ \/ Remove("candidate", "candidate" \in images,
                 images' = images \ {"candidate"}, UNCHANGED images)
       \/ /\ \E n \in Containers : Owned(n)
          /\ UNCHANGED <<cleanupErrors, images>>
          /\ NoFault
    /\ End(cleanupErrors')
    /\ UNCHANGED <<drill, step, waiting, tracked, networkCreated, prepared,
                   runtimePasswords, recorded, left, engine, rolePassword>>

\* remove_candidate; Docker may keep an image a container still needs.
RemoveCandidate ==
    /\ phase = "candidate"
    /\ \/ Remove("candidate", "candidate" \in images,
                 images' = images \ {"candidate"}, UNCHANGED images)
       \/ /\ \E n \in Containers : Owned(n)
          /\ cleanupErrors' = cleanupErrors \cup {"candidate"}
          /\ UNCHANGED images
          /\ NoFault
    /\ End(cleanupErrors')
    /\ UNCHANGED <<drill, step, waiting, tracked, networkCreated, prepared,
                   runtimePasswords, recorded, left, engine, rolePassword>>

-----------------------------------------------------------------------------

DrillNext ==
    \/ FixtureFails \/ CreateNetwork \/ StartDatabase \/ StartService
    \/ StartIdentityProvider \/ StartMigration \/ StartCandidateMigration
    \/ StartJob \/ EndJob \/ StartApp \/ StartRollbackRuntime
    \/ StartProductionApi \/ CheckRuntimeLogin \/ UseRuntime
    \/ WaitCandidateFailure \/ Query \/ SeeOutage \/ StopContainer
    \/ StopReplica \/ RestartReplica \/ Pause \/ Unpause \/ UnpauseIfPaused
    \/ TagImage \/ BuildCandidate \/ Complete \/ RemoveBaseTag
    \/ RemoveContainer \/ RemoveNetwork \/ RemoveCandidate

DockerNext == \E n \in Containers : JobEnds(n) \/ Dies(n)

Next == DrillNext \/ DockerNext

\* Every call the drill makes has a timeout; a job need not end.
Fairness == WF_vars(DrillNext)

Spec == Init /\ [][Next]_vars
FairSpec == Spec /\ Fairness

=============================================================================
