--------------------------- MODULE DrillFixtureProofs --------------------------
(***************************************************************************)
(* Proofs about DrillFixture, for any drills, containers, passwords and    *)
(* faults.                                                                 *)
(*                                                                         *)
(* The argument: Docker's labels tell the drill's containers from others   *)
(* (LabelsTell), whatever is the drill's is remembered (Remembered), and   *)
(* the cleanup has been at what it has passed (Visited).  A job at work is *)
(* the one that is waited for, and has the password that will be           *)
(* registered (JobsAtWork); a paused container has its unpause ahead       *)
(* (PausesEnd); what a container uses was tracked before it                *)
(* (ClientsComeLater).                                                     *)
(*                                                                         *)
(* The steps of the scripts are of few kinds.  DrillStep says what they    *)
(* have in common, so that each invariant is looked at once for all of     *)
(* them, and not once for each.                                            *)
(***************************************************************************)
EXTENDS DrillFixtureProperties, TLAPS

JobOps == {"migrate", "candidate migration", "job"}
Unpauses == {"unpause", "unpause if paused"}
Working == {"drill", "finally"}

\* The password a step's container is started with.
GivenPassword ==
    IF Current.op = "migrate" THEN Current.password
    ELSE IF Current.op \in {"candidate migration", "runtime",
                            "rollback runtime", "production runtime"}
         THEN runtimePasswords[Current.db] ELSE NoPassword

-----------------------------------------------------------------------------
(* The invariants.                                                         *)

\* What somebody else has is as it was; Network is never somebody else's.
LabelsTell ==
    \A n \in Names :
        engine[n].state # "absent" /\ ~engine[n].ours =>
            /\ n # Network
            /\ engine[n].state = "running"
            /\ engine[n].password = NoPassword
            /\ ~engine[n].mounts

Remembered ==
    /\ \A n \in Containers : Owned(n) => Tracked(n)
    /\ Owned(Network) => networkCreated
    /\ "base tag" \in images => "base tag" \in recorded
    /\ "candidate" \in images =>
           \/ "candidate" \in recorded
           \/ "candidate" \in failedCalls /\ report = "failed"

Once ==
    \A i, j \in DOMAIN tracked : tracked[i] = tracked[j] => i = j

\* Before its first step has had an effect a drill has nothing.
Fresh ==
    phase = "drill" /\ step = 1 /\ ~waiting =>
        tracked = <<>> /\ ~networkCreated /\ images = {}

Progress ==
    /\ phase \in Working => left = 0 /\ cleanupErrors = {}
    /\ phase = "drill" => report = "none"
    /\ phase = "finally" => report = "failed" /\ step = Finally[drill]
    /\ report = "none" => phase = "drill"
    /\ report = "passed" => step = Len(Script[drill]) + 1
    /\ waiting => /\ phase \in Working
                  /\ step \in DOMAIN Script[drill]
                  /\ Current.op \in JobOps
    /\ ~files /\ phase # "ended" => drill \in FilesGoFirst /\ report = "failed"

Visited ==
    /\ phase = "base tag" => left = Len(tracked)
    /\ phase \in {"containers", "candidate", "ended"} =>
        /\ \A n \in Containers : Owned(n) =>
               n \in cleanupErrors \/ \E i \in 1..left : tracked[i] = n
        /\ "base tag" \in images => "base tag" \in cleanupErrors
    /\ phase \in {"candidate", "ended"} =>
        /\ left = 0
        /\ Owned(Network) => Network \in cleanupErrors
    /\ phase = "ended" =>
        /\ "candidate" \in images =>
               \/ "candidate" \in cleanupErrors
               \/ "candidate" \in failedCalls \ recorded
        /\ report = "passed" => cleanupErrors = {}
        /\ ~files

FixtureInv ==
    /\ TypeOK
    /\ LabelsTell
    /\ Remembered
    /\ Once
    /\ Fresh
    /\ Progress
    /\ Visited

\* While a drill goes on, the one job at work is the one it waits for.
JobsAtWork ==
    phase = "drill" =>
        /\ \A n \in Containers :
               engine[n].state = "working" => waiting /\ n = Current.name
        /\ waiting =>
               /\ engine[Current.name].state \in {"working", "exited", "failed"}
               /\ engine[Current.name].db = Current.db
               /\ engine[Current.name].password = GivenPassword
               /\ Current.op = "migrate" =>
                      /\ Current.db \notin prepared
                      /\ engine[Current.name].state = "exited" =>
                             rolePassword[Current.db] = Current.password

JobInv == JobsAtWork /\ PreparedDatabasesAcceptTheirPassword

PausesEnd ==
    \A n \in Containers :
        engine[n].state = "paused" =>
            \/ n \in failedCalls
            \/ /\ phase = "drill"
               /\ \E i \in DOMAIN Script[drill] :
                      /\ Script[drill][i].op = "pause"
                      /\ Script[drill][i].name = n
                      /\ i < step /\ step <= Finally[drill]
            \/ /\ phase = "finally"
               /\ Finally[drill] \in DOMAIN Script[drill]
               /\ Script[drill][Finally[drill]].op \in Unpauses
               /\ Script[drill][Finally[drill]].name = n

ClientsComeLater ==
    \A n \in Containers :
        engine[n].state # "absent" /\ engine[n].password # NoPassword =>
            \E i, j \in DOMAIN tracked :
                i < j /\ tracked[i] = engine[n].db /\ tracked[j] = n

RegisteredAreThere ==
    /\ phase \in Working =>
           \A d \in Databases : runtimePasswords[d] # NoPassword => Owned(d)
    /\ waiting /\ Current.op = "migrate" => Owned(Current.db)

ClientsHaveDatabases ==
    \A n \in Containers :
        engine[n].state # "absent" /\ engine[n].password # NoPassword =>
            engine[engine[n].db].state # "absent" \/ n \in cleanupErrors

ClientInv == ClientsComeLater /\ RegisteredAreThere /\ ClientsHaveDatabases

-----------------------------------------------------------------------------
(* What the steps of the scripts have in common.                           *)

CreatesNetwork ==
    /\ networkCreated' = TRUE
    /\ UNCHANGED tracked
    /\ \/ UNCHANGED engine
       \/ engine' = [engine EXCEPT ![Network].state = "created",
                                   ![Network].ours = TRUE]
    /\ Raise \/ Proceed

StartsContainer ==
    /\ ~Tracked(Current.name)
    /\ tracked' = Append(tracked, Current.name)
    /\ UNCHANGED networkCreated
    /\ \/ UNCHANGED engine /\ Raise
       \/ /\ engine[Current.name].state = "absent"
          /\ Current.op = "migrate" => Owned(Current.db)
          /\ \E state \in {Started(Current), "created"} :
                /\ engine' = [engine EXCEPT ![Current.name] =
                                Container(Current, state, GivenPassword)]
                /\ \/ Raise
                   \/ /\ state = Started(Current)
                      /\ \/ Current.op \in JobOps /\ StartWaiting
                         \/ Current.op \notin JobOps /\ Proceed

ChangesContainer ==
    /\ Owned(Current.name)
    /\ UNCHANGED <<tracked, networkCreated>>
    /\ \E state \in {"running", "paused", "exited"} :
          /\ Set(Current.name, state)
          /\ state = "paused" => Current.op = "pause"
          /\ Proceed \/ (Raise /\ Fault(Current.name))

LeavesContainers ==
    /\ UNCHANGED <<tracked, networkCreated, engine>>
    /\ Raise \/ Proceed

StepOnContainers ==
    CreatesNetwork \/ StartsContainer \/ ChangesContainer \/ LeavesContainers

StepOnImages ==
    \/ UNCHANGED <<images, recorded>>
    \/ /\ images' \in {images, images \cup {"base tag"}}
       /\ recorded' = recorded \cup {"base tag"}
       /\ Raise \/ Proceed
    \/ /\ images' \in {images, images \cup {"candidate"}}
       /\ \/ recorded' = recorded \cup {"candidate"} /\ Proceed
          \/ recorded' = recorded /\ Raise /\ Fault("candidate")

StepOnPasswords ==
    /\ UNCHANGED <<runtimePasswords, rolePassword>>
    /\ prepared' \in {prepared, prepared \ {Current.db}}
    /\ Current.op = "migrate" /\ StartWaiting => Current.db \notin prepared'

MayFault == NoFault \/ \E n \in Names \cup Images : Fault(n)

DrillStep ==
    /\ phase \in Working
    /\ ~waiting
    /\ step \in DOMAIN Script[drill]
    /\ StepOnContainers
    /\ StepOnImages
    /\ StepOnPasswords
    /\ MayFault
    /\ Current.op \in Unpauses /\ engine'[Current.name].state = "paused" =>
           Raise /\ Refused(Current.name)

-----------------------------------------------------------------------------
(* Each step of a script is of these kinds.                                *)

LEMMA CurrentTypes ==
    ASSUME TypeOK, step \in DOMAIN Script[drill]
    PROVE  /\ Current \in Steps
           /\ Current.name \in Containers
           /\ Current.name \in Names
           /\ Current.db \in Databases
           /\ Current.db \in Containers
           /\ Current.password \in Passwords \cup {NoPassword}
           /\ Current.mounts \in BOOLEAN
           /\ Current.name # Network
<1>1. Script[drill] \in Seq(Steps)
  BY FixtureAssumption DEF TypeOK
<1>2. Current \in Steps
  BY <1>1 DEF Current
<1>3. QED
  BY <1>2, FixtureAssumption DEF Steps, Names

LEMMA StepStarts ==
    ASSUME TypeOK, NEW op, AtStep(op)
    PROVE  /\ phase \in Working
           /\ ~waiting
           /\ step \in DOMAIN Script[drill]
           /\ Current.op = op
BY DEF AtStep, Working

LEMMA CheckIsStep ==
    ASSUME TypeOK, NEW op, op \notin Unpauses, op \notin JobOps,
           AtStep(op), Raise \/ Proceed,
           NoFault \/ Fault(Current.name),
           UNCHANGED <<tracked, networkCreated, prepared, runtimePasswords,
                       recorded, docker>>
    PROVE  DrillStep
<1>1. /\ phase \in Working /\ ~waiting /\ step \in DOMAIN Script[drill]
      /\ Current.op = op
      /\ Current.name \in Names
  BY StepStarts, CurrentTypes
<1>2. StepOnContainers /\ StepOnImages /\ StepOnPasswords
  BY <1>1 DEF StepOnContainers, LeavesContainers, StepOnImages,
              StepOnPasswords, docker, JobOps
<1>3. MayFault
  BY <1>1 DEF MayFault
<1>4. QED
  BY <1>1, <1>2, <1>3 DEF DrillStep

LEMMA ReadsAreSteps ==
    ASSUME TypeOK,
           \/ CheckRuntimeLogin \/ UseRuntime \/ WaitCandidateFailure
           \/ Query \/ SeeOutage
    PROVE  DrillStep
<1>1. PICK op \in {"login", "refused login", "use", "unhealthy", "query",
                   "outage"} :
          /\ AtStep(op) /\ (Raise \/ Proceed)
          /\ NoFault \/ Fault(Current.name)
          /\ UNCHANGED <<tracked, networkCreated, prepared, runtimePasswords,
                         recorded, docker>>
  BY DEF CheckRuntimeLogin, UseRuntime, WaitCandidateFailure, Query,
         SeeOutage, Check
<1>2. op \notin Unpauses /\ op \notin JobOps
  BY DEF Unpauses, JobOps
<1>3. QED
  BY <1>1, <1>2, CheckIsStep

LEMMA ChangeIsStep ==
    ASSUME TypeOK, NEW op, NEW from, NEW to \in {"running", "paused", "exited"},
           op \notin JobOps,
           to = "paused" <=> op = "pause",
           op \in Unpauses => from = {"paused"},
           Change(op, from, to)
    PROVE  DrillStep
<1>1. /\ phase \in Working /\ ~waiting /\ step \in DOMAIN Script[drill]
      /\ Current.op = op
      /\ Current.name \in Names
      /\ UNCHANGED <<tracked, networkCreated, prepared, runtimePasswords,
                     recorded, images, rolePassword>>
  BY StepStarts, CurrentTypes DEF Change
<1>2. StepOnImages /\ StepOnPasswords
  BY <1>1 DEF StepOnImages, StepOnPasswords, JobOps
<1>3. CASE /\ Owned(Current.name)
           /\ Set(Current.name, to)
           /\ (Proceed /\ NoFault) \/ (Raise /\ Fault(Current.name))
  <2>1. ChangesContainer
    BY <1>1, <1>3 DEF ChangesContainer
  <2>2. op \in Unpauses => engine'[Current.name].state # "paused"
    <3>1. op \in Unpauses => to # "paused"
      BY DEF Unpauses
    <3>2. engine'[Current.name].state = to
      BY <1>1, <1>3 DEF Set, TypeOK, Resources
    <3>3. QED
      BY <3>1, <3>2
  <2>3. MayFault
    BY <1>1, <1>3 DEF MayFault
  <2>4. QED
    BY <1>1, <1>2, <2>1, <2>2, <2>3 DEF DrillStep, StepOnContainers
<1>4. CASE /\ UNCHANGED engine
           /\ Raise
           /\ \/ Refused(Current.name)
              \/ engine[Current.name].state \notin from /\ NoFault
  <2>1. LeavesContainers
    BY <1>1, <1>4 DEF LeavesContainers
  <2>2. op \in Unpauses /\ engine'[Current.name].state = "paused" =>
            Refused(Current.name)
    BY <1>4
  <2>3. MayFault
    BY <1>1, <1>4 DEF MayFault, Refused
  <2>4. QED
    BY <1>1, <1>2, <1>4, <2>1, <2>2, <2>3 DEF DrillStep, StepOnContainers
<1>5. QED
  BY <1>3, <1>4 DEF Change

LEMMA UnpauseIfPausedIsStep ==
    ASSUME TypeOK, UnpauseIfPaused PROVE DrillStep
<1>1. CASE Change("unpause if paused", {"paused"}, "running")
  BY <1>1, ChangeIsStep DEF JobOps
<1>2. CASE /\ AtStep("unpause if paused")
           /\ UNCHANGED <<tracked, networkCreated, prepared, runtimePasswords,
                          recorded, docker>>
           /\ engine[Current.name].state # "paused"
           /\ Proceed
           /\ NoFault
  <2>1. /\ phase \in Working /\ ~waiting /\ step \in DOMAIN Script[drill]
        /\ Current.op = "unpause if paused"
    BY <1>2, StepStarts
  <2>2. StepOnContainers /\ StepOnImages /\ StepOnPasswords
    BY <1>2, <2>1 DEF StepOnContainers, LeavesContainers, StepOnImages,
                      StepOnPasswords, docker
  <2>3. engine'[Current.name].state # "paused"
    BY <1>2 DEF docker
  <2>4. QED
    BY <1>2, <2>1, <2>2, <2>3 DEF DrillStep, MayFault
<1>3. QED
  BY <1>1, <1>2 DEF UnpauseIfPaused

LEMMA ChangesAreSteps ==
    ASSUME TypeOK,
           \/ StopContainer \/ StopReplica \/ RestartReplica \/ Pause
           \/ Unpause \/ UnpauseIfPaused
    PROVE  DrillStep
<1>1. CASE StopContainer
  BY <1>1, ChangeIsStep DEF StopContainer, JobOps, Unpauses
<1>2. CASE StopReplica
  BY <1>2, ChangeIsStep DEF StopReplica, JobOps, Unpauses
<1>3. CASE RestartReplica
  BY <1>3, ChangeIsStep DEF RestartReplica, JobOps, Unpauses
<1>4. CASE Pause
  BY <1>4, ChangeIsStep DEF Pause, JobOps, Unpauses
<1>5. CASE Unpause
  BY <1>5, ChangeIsStep DEF Unpause, JobOps
<1>6. QED
  BY <1>1, <1>2, <1>3, <1>4, <1>5, UnpauseIfPausedIsStep

LEMMA MakesAreSteps ==
    ASSUME TypeOK, TagImage \/ BuildCandidate PROVE DrillStep
<1>1. PICK op \in {"tag image", "build"} : AtStep(op)
  BY DEF TagImage, BuildCandidate, Make
<1>2. /\ phase \in Working /\ ~waiting /\ step \in DOMAIN Script[drill]
      /\ Current.op \in {"tag image", "build"}
  BY <1>1, StepStarts
<1>3. UNCHANGED <<tracked, networkCreated, prepared, runtimePasswords,
                  engine, rolePassword>>
  BY DEF TagImage, BuildCandidate, Make
<1>4. Raise \/ Proceed
  BY DEF TagImage, BuildCandidate, Make
<1>5. StepOnContainers /\ StepOnPasswords
  BY <1>2, <1>3, <1>4 DEF StepOnContainers, LeavesContainers, StepOnPasswords
<1>6. StepOnImages
  BY DEF TagImage, BuildCandidate, Make, StepOnImages
<1>7. MayFault
  BY DEF TagImage, BuildCandidate, Make, MayFault, Images
<1>8. QED
  BY <1>2, <1>5, <1>6, <1>7 DEF DrillStep, Unpauses

LEMMA CreateNetworkIsStep ==
    ASSUME TypeOK, CreateNetwork PROVE DrillStep
<1>1. /\ phase \in Working /\ ~waiting /\ step \in DOMAIN Script[drill]
      /\ Current.op = "network"
  BY StepStarts DEF CreateNetwork
<1>2. StepOnContainers
  BY DEF CreateNetwork, StepOnContainers, CreatesNetwork
<1>3. StepOnImages /\ StepOnPasswords
  BY <1>1 DEF CreateNetwork, StepOnImages, StepOnPasswords
<1>4. MayFault
  BY DEF CreateNetwork, MayFault, Names
<1>5. QED
  BY <1>1, <1>2, <1>3, <1>4 DEF DrillStep, Unpauses

\* A call about something that must be there fails.
LEMMA FailedCallIsStep ==
    ASSUME TypeOK, NEW op, op \notin Unpauses, AtStep(op), NEW n \in Names,
           FailedCall(n), UNCHANGED prepared
    PROVE  DrillStep
<1>1. /\ phase \in Working /\ ~waiting /\ step \in DOMAIN Script[drill]
      /\ Current.op = op
  BY StepStarts
<1>2. Raise /\ UNCHANGED <<tracked, networkCreated, runtimePasswords, recorded,
                           docker>>
  BY DEF FailedCall
<1>3. StepOnContainers /\ StepOnImages
  BY <1>2 DEF StepOnContainers, LeavesContainers, StepOnImages, docker
<1>4. StepOnPasswords
  <2>1. ~StartWaiting
    BY <1>2 DEF Raise, BeginCleanup, StartWaiting
  <2>2. QED
    BY <1>2, <2>1 DEF StepOnPasswords, docker
<1>5. MayFault
  BY DEF FailedCall, Refused, MayFault
<1>6. QED
  BY <1>1, <1>3, <1>4, <1>5 DEF DrillStep

\* run_container, whatever follows it.
LEMMA RunIsStep ==
    ASSUME TypeOK, NEW op, op \notin Unpauses, AtStep(op),
           op = "migrate" => Owned(Current.db) /\ Current.db \notin prepared',
           prepared' \in {prepared, prepared \ {Current.db}},
           UNCHANGED <<networkCreated, runtimePasswords, recorded, images,
                       rolePassword>>,
           NoFault \/ Fault(Current.name),
           \/ UNCHANGED <<tracked, engine>> /\ Raise
           \/ /\ ~Tracked(Current.name)
              /\ tracked' = Append(tracked, Current.name)
              /\ \/ UNCHANGED engine /\ Raise
                 \/ /\ engine[Current.name].state = "absent"
                    /\ \E state \in {Started(Current), "created"} :
                          /\ engine' = [engine EXCEPT ![Current.name] =
                                Container(Current, state, GivenPassword)]
                          /\ \/ Raise
                             \/ /\ state = Started(Current)
                                /\ \/ op \in JobOps /\ StartWaiting
                                   \/ op \notin JobOps /\ Proceed
    PROVE  DrillStep
<1>1. /\ phase \in Working /\ ~waiting /\ step \in DOMAIN Script[drill]
      /\ Current.op = op
      /\ Current.name \in Names
  BY StepStarts, CurrentTypes
<1>2. StepOnContainers
  BY <1>1 DEF StepOnContainers, LeavesContainers, StartsContainer
<1>3. StepOnImages /\ StepOnPasswords
  BY <1>1 DEF StepOnImages, StepOnPasswords
<1>4. MayFault
  BY <1>1 DEF MayFault
<1>5. QED
  BY <1>1, <1>2, <1>3, <1>4 DEF DrillStep

LEMMA ReadyStartsAreSteps ==
    ASSUME TypeOK,
           StartDatabase \/ StartService \/ StartIdentityProvider
    PROVE  DrillStep
<1>1. PICK op \in {"database", "service", "provider"} : StartReady(op)
  BY DEF StartDatabase, StartService, StartIdentityProvider
<1>2. AtStep(op) /\ Run(Current, NoPassword, TRUE, Proceed) /\ UNCHANGED prepared
  BY <1>1 DEF StartReady
<1>3. Current.op = op
  BY <1>2, StepStarts
<1>4. GivenPassword = NoPassword
  BY <1>1, <1>3 DEF GivenPassword
<1>5. op \notin Unpauses /\ op \notin JobOps /\ op # "migrate"
  BY <1>1 DEF Unpauses, JobOps
<1>6. QED
  BY <1>2, <1>4, <1>5, RunIsStep DEF Run

\* migrate_database, migrate_candidate and prepare_certificates.
LEMMA JobStartIsStep ==
    ASSUME TypeOK, NEW op \in JobOps, AtStep(op),
           op = "migrate" => Owned(Current.db) /\ Current.db \notin prepared',
           prepared' \in {prepared, prepared \ {Current.db}},
           Run(Current, GivenPassword, TRUE, StartWaiting)
    PROVE  DrillStep
<1>1. op \notin Unpauses
  BY DEF Unpauses, JobOps
<1>2. QED
  BY <1>1, RunIsStep DEF Run

LEMMA JobStartsAreSteps ==
    ASSUME TypeOK, StartMigration \/ StartCandidateMigration \/ StartJob
    PROVE  DrillStep
<1>1. CASE StartMigration
  <2>1. AtStep("migrate") /\ Current.op = "migrate" /\ Current.db \in Names
        /\ GivenPassword = Current.password
    BY <1>1, StepStarts, CurrentTypes DEF StartMigration, GivenPassword, Names
  <2>2. CASE FailedCall(Current.db) /\ UNCHANGED prepared
    BY <2>1, <2>2, FailedCallIsStep DEF Unpauses
  <2>3. CASE /\ Owned(Current.db)
             /\ prepared' = prepared \ {Current.db}
             /\ Run(Current, Current.password, TRUE, StartWaiting)
    BY <2>1, <2>3, JobStartIsStep DEF JobOps
  <2>4. QED
    BY <1>1, <2>2, <2>3 DEF StartMigration
<1>2. CASE StartCandidateMigration
  <2> AtStep("candidate migration") /\ UNCHANGED prepared
    BY <1>2 DEF StartCandidateMigration
  <2> Current.op = "candidate migration" /\ Current.db \in Names
    BY StepStarts, CurrentTypes DEF Names
  <2>1. GivenPassword = runtimePasswords[Current.db]
    BY DEF GivenPassword
  <2>2. CASE FailedCall(Current.db)
    BY <2>1, <2>2, FailedCallIsStep DEF Unpauses
  <2>3. CASE Run(Current, runtimePasswords[Current.db], TRUE, StartWaiting)
    BY <2>1, <2>3, JobStartIsStep DEF JobOps
  <2>4. QED
    BY <1>2, <2>2, <2>3 DEF StartCandidateMigration
<1>3. CASE StartJob
  <2> /\ AtStep("job")
      /\ Run(Current, NoPassword, TRUE, StartWaiting)
      /\ UNCHANGED prepared
    BY <1>3 DEF StartJob
  <2> Current.op = "job"
    BY StepStarts
  <2>1. GivenPassword = NoPassword
    BY DEF GivenPassword
  <2>2. QED
    BY <2>1, JobStartIsStep DEF JobOps
<1>4. QED
  BY <1>1, <1>2, <1>3

\* start_app, start_runtime and start_production_api.
LEMMA RuntimeStartsAreSteps ==
    ASSUME TypeOK, StartApp \/ StartRollbackRuntime \/ StartProductionApi
    PROVE  DrillStep
<1>1. PICK op \in {"runtime", "rollback runtime", "production runtime"} :
          /\ AtStep(op)
          /\ UNCHANGED prepared
          /\ \/ Run(Current, runtimePasswords[Current.db], LoginWorks, Proceed)
             \/ Run(Current, runtimePasswords[Current.db], TRUE, Proceed)
             \/ FailedCall(Current.db)
             \/ /\ UNCHANGED <<tracked, networkCreated, runtimePasswords,
                               recorded, docker>>
                /\ Raise
                /\ NoFault
  BY DEF StartApp, StartRollbackRuntime, StartProductionApi, StartRuntime
<1>2. /\ Current.op = op /\ Current.db \in Names
      /\ GivenPassword = runtimePasswords[Current.db]
  BY <1>1, StepStarts, CurrentTypes DEF GivenPassword, Names
<1>3. op \notin Unpauses /\ op \notin JobOps /\ op # "migrate"
  BY <1>1 DEF Unpauses, JobOps
<1>4. CASE Run(Current, runtimePasswords[Current.db], LoginWorks, Proceed)
  BY <1>1, <1>2, <1>3, <1>4, RunIsStep DEF Run
<1>5. CASE Run(Current, runtimePasswords[Current.db], TRUE, Proceed)
  BY <1>1, <1>2, <1>3, <1>5, RunIsStep DEF Run
<1>6. CASE FailedCall(Current.db)
  BY <1>1, <1>2, <1>3, <1>6, FailedCallIsStep
<1>7. CASE /\ UNCHANGED <<tracked, networkCreated, runtimePasswords,
                          recorded, docker>>
           /\ Raise
           /\ NoFault
  BY <1>1, <1>3, <1>7, CheckIsStep
<1>8. QED
  BY <1>1, <1>4, <1>5, <1>6, <1>7

\* What else happens, in the drill and around it.
LEMMA NextIsOneOf ==
    ASSUME TypeOK, Next
    PROVE  \/ DrillStep \/ EndJob \/ FixtureFails \/ Complete
           \/ RemoveBaseTag \/ RemoveContainer \/ RemoveNetwork
           \/ RemoveCandidate
           \/ \E n \in Containers : JobEnds(n) \/ Dies(n)
BY ReadsAreSteps, ChangesAreSteps, MakesAreSteps, CreateNetworkIsStep,
   ReadyStartsAreSteps, JobStartsAreSteps, RuntimeStartsAreSteps
   DEF Next, DrillNext, DockerNext

-----------------------------------------------------------------------------
(* What a step does to the containers and to the drill's progress.         *)

LEMMA NewContainer ==
    ASSUME TypeOK, step \in DOMAIN Script[drill],
           NEW state \in {Started(Current), "created"}
    PROVE  /\ Container(Current, state, GivenPassword) \in Resources
           /\ state \in {"working", "running", "created"}
<1>1. state \in {"working", "running", "created"}
  BY DEF Started
<1>2. GivenPassword \in Passwords \cup {NoPassword}
  BY CurrentTypes DEF GivenPassword, TypeOK
<1>3. Container(Current, state, GivenPassword) =
          [state |-> state, ours |-> TRUE, mounts |-> Current.mounts,
           db |-> Current.db, password |-> GivenPassword]
  BY DEF Container
<1>4. QED
  BY <1>1, <1>2, <1>3, CurrentTypes DEF Resources, States

LEMMA StateSet ==
    ASSUME TypeOK, NEW n \in Names, NEW state \in States, Set(n, state)
    PROVE  /\ engine' \in [Names -> Resources]
           /\ engine'[n].state = state
           /\ engine'[n].ours = engine[n].ours
           /\ engine'[n].mounts = engine[n].mounts
           /\ engine'[n].db = engine[n].db
           /\ engine'[n].password = engine[n].password
           /\ \A m \in Names : m # n => engine'[m] = engine[m]
<1>1. engine \in [Names -> Resources] /\ engine[n] \in Resources
  BY DEF TypeOK
<1>2. engine' = [engine EXCEPT ![n].state = state]
  BY DEF Set
<1>3. [engine[n] EXCEPT !.state = state] \in Resources
  BY <1>1 DEF Resources
<1>4. engine'[n] = [engine[n] EXCEPT !.state = state]
  BY <1>1, <1>2
<1>5. QED
  BY <1>1, <1>2, <1>3, <1>4 DEF Resources

LEMMA NetworkEffect ==
    ASSUME TypeOK, CreatesNetwork
    PROVE  /\ engine' \in [Names -> Resources]
           /\ \A n \in Names : n # Network => engine'[n] = engine[n]
           /\ engine' = engine \/ Owned(Network)'
           /\ engine'[Network].password = engine[Network].password
<1>1. engine \in [Names -> Resources] /\ Network \in Names
      /\ engine[Network] \in Resources
  BY DEF TypeOK, Names
<1>2. CASE UNCHANGED engine
  BY <1>1, <1>2
<1>3. CASE engine' = [engine EXCEPT ![Network].state = "created",
                                    ![Network].ours = TRUE]
  <2>1. engine'[Network] = [engine[Network] EXCEPT !.state = "created",
                                                   !.ours = TRUE]
    BY <1>1, <1>3
  <2>2. engine'[Network] \in Resources
    BY <1>1, <2>1 DEF Resources, States
  <2>3. /\ engine'[Network].state = "created" /\ engine'[Network].ours = TRUE
        /\ engine'[Network].password = engine[Network].password
    BY <1>1, <2>1 DEF Resources
  <2>4. /\ engine' \in [Names -> Resources]
        /\ \A n \in Names : n # Network => engine'[n] = engine[n]
    BY <1>1, <1>3, <2>2
  <2>5. QED
    BY <2>3, <2>4 DEF Owned
<1>4. QED
  BY <1>2, <1>3 DEF CreatesNetwork

LEMMA TrackedOneMore ==
    ASSUME TypeOK, NEW n \in Containers, tracked' = Append(tracked, n)
    PROVE  /\ tracked' \in Seq(Containers)
           /\ Len(tracked) \in Nat
           /\ Len(tracked') = Len(tracked) + 1
           /\ tracked'[Len(tracked) + 1] = n
           /\ \A i \in 1..Len(tracked) : tracked'[i] = tracked[i]
           /\ DOMAIN tracked = 1..Len(tracked)
           /\ DOMAIN tracked' = 1..(Len(tracked) + 1)
           /\ Tracked(n)'
           /\ \A m : Tracked(m) => Tracked(m)'
<1>1. tracked \in Seq(Containers)
  BY DEF TypeOK
<1>2. /\ tracked' \in Seq(Containers)
      /\ Len(tracked) \in Nat
      /\ Len(tracked') = Len(tracked) + 1
      /\ tracked'[Len(tracked) + 1] = n
      /\ \A i \in 1..Len(tracked) : tracked'[i] = tracked[i]
      /\ DOMAIN tracked = 1..Len(tracked)
      /\ DOMAIN tracked' = 1..(Len(tracked) + 1)
  BY <1>1
<1>3. /\ Len(tracked) + 1 \in DOMAIN tracked'
      /\ \A i \in DOMAIN tracked : i \in DOMAIN tracked'
  BY <1>2
<1>4. QED
  BY <1>2, <1>3 DEF Tracked

LEMMA StartEffect ==
    ASSUME TypeOK, step \in DOMAIN Script[drill], StartsContainer
    PROVE  /\ engine' \in [Names -> Resources]
           /\ \A n \in Names : n # Current.name => engine'[n] = engine[n]
           /\ \/ engine' = engine
              \/ /\ engine[Current.name].state = "absent"
                 /\ \E state \in {"working", "running", "created"} :
                        engine'[Current.name] =
                            Container(Current, state, GivenPassword)
                 /\ Owned(Current.name) \/ engine'[Current.name].ours
                 /\ engine'[Current.name].state # "absent"
                 /\ engine'[Current.name].state # "paused"
                 /\ engine'[Current.name].db = Current.db
                 /\ engine'[Current.name].password = GivenPassword
<1>1. engine \in [Names -> Resources] /\ Current.name \in Names
  BY CurrentTypes DEF TypeOK
<1>2. CASE UNCHANGED engine
  BY <1>1, <1>2
<1>3. CASE /\ engine[Current.name].state = "absent"
           /\ \E state \in {Started(Current), "created"} :
                 engine' = [engine EXCEPT ![Current.name] =
                                Container(Current, state, GivenPassword)]
  <2>1. PICK state \in {Started(Current), "created"} :
            engine' = [engine EXCEPT ![Current.name] =
                            Container(Current, state, GivenPassword)]
    BY <1>3
  <2>2. /\ Container(Current, state, GivenPassword) \in Resources
        /\ state \in {"working", "running", "created"}
    BY NewContainer
  <2>3. /\ engine' \in [Names -> Resources]
        /\ engine'[Current.name] = Container(Current, state, GivenPassword)
        /\ \A n \in Names : n # Current.name => engine'[n] = engine[n]
    BY <1>1, <2>1, <2>2
  <2>4. /\ engine'[Current.name].state = state
        /\ engine'[Current.name].ours
        /\ engine'[Current.name].db = Current.db
        /\ engine'[Current.name].password = GivenPassword
    BY <2>3 DEF Container
  <2>5. QED
    BY <1>3, <2>2, <2>3, <2>4
<1>4. QED
  BY <1>2, <1>3 DEF StartsContainer

LEMMA ChangeEffect ==
    ASSUME TypeOK, step \in DOMAIN Script[drill], ChangesContainer
    PROVE  /\ engine' \in [Names -> Resources]
           /\ \A n \in Names : n # Current.name => engine'[n] = engine[n]
           /\ engine[Current.name].ours /\ engine'[Current.name].ours
           /\ engine[Current.name].state # "absent"
           /\ engine'[Current.name].state \in {"running", "paused", "exited"}
           /\ engine'[Current.name].state = "paused" => Current.op = "pause"
           /\ engine'[Current.name].db = engine[Current.name].db
           /\ engine'[Current.name].password = engine[Current.name].password
<1>1. PICK state \in {"running", "paused", "exited"} :
          /\ Set(Current.name, state)
          /\ state = "paused" => Current.op = "pause"
  BY DEF ChangesContainer
<1>2. state \in States /\ Current.name \in Names
  BY CurrentTypes DEF States
<1>3. /\ engine' \in [Names -> Resources]
      /\ engine'[Current.name].state = state
      /\ engine'[Current.name].ours = engine[Current.name].ours
      /\ engine'[Current.name].db = engine[Current.name].db
      /\ engine'[Current.name].password = engine[Current.name].password
      /\ \A m \in Names : m # Current.name => engine'[m] = engine[m]
  BY <1>1, <1>2, StateSet
<1>4. Owned(Current.name)
  BY DEF ChangesContainer
<1>5. QED
  BY <1>1, <1>3, <1>4 DEF Owned

\* Where a step leads: on, to the finally block, or to the cleanup.
LEMMA ControlMoves ==
    ASSUME TypeOK, Progress, phase \in Working, step \in DOMAIN Script[drill],
           tracked' \in Seq(Containers),
           \/ Raise \/ Proceed
           \/ Current.op \in JobOps /\ StartWaiting
    PROVE  /\ drill' \in Drills /\ step' \in Nat \ {0} /\ phase' \in Phases
           /\ waiting' \in BOOLEAN /\ files' \in BOOLEAN
           /\ left' \in 0..Len(tracked')
           /\ report' \in {"none", "passed", "failed"}
           /\ drill' = drill /\ cleanupErrors' = cleanupErrors
           /\ Progress'
           /\ \/ phase' \in Working
              \/ /\ phase' = IF "base tag" \in recorded'
                             THEN "base tag" ELSE "containers"
                 /\ left' = Len(tracked')
           /\ phase' = "drill" => phase = "drill"
           /\ phase' = "drill" => step' = step + 1 \/ waiting'
           /\ report' \in {report, "failed"}
           /\ Raise => report' = "failed"
<1>1. /\ drill \in Drills /\ step \in Nat \ {0}
      /\ Len(tracked') \in Nat
      /\ files \in BOOLEAN
      /\ left = 0
      /\ report \in {"none", "failed"}
      /\ phase = "drill" => report = "none"
      /\ phase = "finally" => report = "failed" /\ step = Finally[drill]
      /\ cleanupErrors = {}
      /\ ~files => drill \in FilesGoFirst /\ report = "failed"
  BY DEF TypeOK, Progress, Working
<1>0. Len(tracked') \in 0..Len(tracked') /\ 0 \in 0..Len(tracked')
  <2>1. Len(tracked') \in Nat
    OBVIOUS
  <2>2. QED
    BY <2>1
<1>2. CASE Raise /\ phase = "drill" /\ step \in Try[drill]
  <2>1. /\ phase' = "finally" /\ step' = Finally[drill] /\ waiting' = FALSE
        /\ report' = "failed"
        /\ UNCHANGED <<drill, files, left, cleanupErrors>>
    BY <1>2 DEF Raise
  <2>2. Finally[drill] \in DOMAIN Script[drill]
    BY <1>1, <1>2, ScriptAssumption
  <2>3. Script[drill] \in Seq(Steps)
    BY <1>1, FixtureAssumption
  <2>4. DOMAIN Script[drill] = 1..Len(Script[drill]) /\ Len(Script[drill]) \in Nat
    BY <2>3
  <2>5. Finally[drill] \in Nat \ {0}
    BY <2>2, <2>4
  <2>6. Progress'
    BY <1>1, <2>1, <2>5 DEF Progress, Working
  <2>7. left' \in 0..Len(tracked')
    BY <1>0, <1>1, <2>1, <2>5
  <2>8. QED
    BY <1>1, <2>1, <2>5, <2>6, <2>7 DEF Working, Phases
<1>3. CASE Raise /\ ~(phase = "drill" /\ step \in Try[drill])
  <2>1. /\ report' = "failed" /\ waiting' = FALSE
        /\ phase' = IF "base tag" \in recorded'
                    THEN "base tag" ELSE "containers"
        /\ left' = Len(tracked')
        /\ files' = IF drill \in FilesGoFirst THEN FALSE ELSE files
        /\ UNCHANGED <<drill, step, cleanupErrors>>
    BY <1>3 DEF Raise, BeginCleanup
  <2>2. Progress'
    BY <1>1, <2>1 DEF Progress, Working
  <2>3. left' \in 0..Len(tracked')
    BY <1>0, <1>1, <2>1
  <2>4. QED
    BY <1>1, <2>1, <2>2, <2>3 DEF Working, Phases
<1>4. CASE Proceed /\ phase = "finally"
  <2>1. /\ report' = report /\ waiting' = FALSE
        /\ phase' = IF "base tag" \in recorded'
                    THEN "base tag" ELSE "containers"
        /\ left' = Len(tracked')
        /\ files' = IF drill \in FilesGoFirst THEN FALSE ELSE files
        /\ UNCHANGED <<drill, step, cleanupErrors>>
    BY <1>4 DEF Proceed, BeginCleanup
  <2>2. report = "failed" /\ phase' # "drill"
    BY <1>1, <1>4, <2>1
  <2>3. ~Raise \/ report' = "failed"
    BY <2>1, <2>2
  <2>4. Progress'
    BY <1>1, <2>1, <2>2, <2>3 DEF Progress, Working
  <2>5. left' \in 0..Len(tracked')
    BY <1>0, <1>1, <2>1, <2>2, <2>3
  <2>6. QED
    BY <1>1, <2>1, <2>2, <2>3, <2>4, <2>5 DEF Working, Phases
<1>5. CASE Proceed /\ phase # "finally"
  <2>1. /\ step' = step + 1 /\ waiting' = FALSE
        /\ UNCHANGED <<drill, phase, files, left, cleanupErrors, report>>
    BY <1>5 DEF Proceed
  <2>2. phase = "drill" /\ report = "none"
    BY <1>1, <1>5 DEF Working
  <2>3. Raise => report' = "failed"
    BY DEF Raise
  <2>4. Progress'
    BY <1>1, <2>1, <2>2, <2>3 DEF Progress, Working
  <2>5. left' \in 0..Len(tracked')
    BY <1>0, <1>1, <2>1, <2>2, <2>3
  <2>6. step' \in Nat \ {0}
    BY <1>1, <2>1
  <2>7. drill' \in Drills /\ phase' \in Phases /\ waiting' \in BOOLEAN
        /\ files' \in BOOLEAN
    BY <1>1, <2>1, <2>2 DEF Phases
  <2>8. QED
    BY <1>1, <2>1, <2>2, <2>3, <2>4, <2>5, <2>6, <2>7 DEF Working
<1>6. CASE Current.op \in JobOps /\ StartWaiting
  <2>1. /\ waiting' = TRUE
        /\ UNCHANGED <<drill, step, phase, files, left, cleanupErrors, report>>
    BY <1>6 DEF StartWaiting
  <2>2. Current' = Current
    BY <2>1 DEF Current
  <2>3. Raise => report' = "failed"
    BY DEF Raise
  <2>4. Progress'
    BY <1>1, <1>6, <2>1, <2>2, <2>3 DEF Progress, Working
  <2>5. left' \in 0..Len(tracked')
    BY <1>0, <1>1, <1>6, <2>1, <2>2, <2>3
  <2>6. QED
    BY <1>1, <1>6, <2>1, <2>2, <2>3, <2>4, <2>5 DEF Working, Phases
<1>7. QED
  BY <1>2, <1>3, <1>4, <1>5, <1>6

-----------------------------------------------------------------------------
(* Labels, what is remembered, and the cleanup: the steps of the scripts.  *)

RemembersContainers ==
    /\ \A n \in Containers : Owned(n) => Tracked(n)
    /\ Owned(Network) => networkCreated

RemembersImages ==
    /\ "base tag" \in images => "base tag" \in recorded
    /\ "candidate" \in images =>
           \/ "candidate" \in recorded
           \/ "candidate" \in failedCalls /\ report = "failed"

LEMMA ContainersKeep ==
    ASSUME FixtureInv, step \in DOMAIN Script[drill], StepOnContainers
    PROVE  /\ tracked' \in Seq(Containers)
           /\ networkCreated' \in BOOLEAN
           /\ engine' \in [Names -> Resources]
           /\ LabelsTell' /\ RemembersContainers' /\ Once'
           /\ \/ Raise \/ Proceed
              \/ Current.op \in JobOps /\ StartWaiting
<1>1. /\ TypeOK /\ LabelsTell /\ RemembersContainers /\ Once
      /\ tracked \in Seq(Containers) /\ networkCreated \in BOOLEAN
      /\ engine \in [Names -> Resources]
  BY DEF FixtureInv, Remembered, RemembersContainers, TypeOK
<1>2. /\ Current.name \in Names /\ Current.name \in Containers
      /\ Current.name # Network
      /\ \A n \in Containers : n \in Names /\ n # Network
      /\ Network \in Names
  BY <1>1, CurrentTypes, FixtureAssumption DEF Names
<1>3. CASE CreatesNetwork
  <2>1. /\ engine' \in [Names -> Resources]
        /\ \A n \in Names : n # Network => engine'[n] = engine[n]
        /\ engine' = engine \/ Owned(Network)'
    BY <1>1, <1>3, NetworkEffect
  <2>2. tracked' = tracked /\ networkCreated' = TRUE /\ (Raise \/ Proceed)
    BY <1>3 DEF CreatesNetwork
  <2>3. LabelsTell'
    BY <1>1, <2>1 DEF LabelsTell, Owned
  <2>4. RemembersContainers'
    BY <1>1, <1>2, <2>1, <2>2 DEF RemembersContainers, Owned, Tracked
  <2>5. Once'
    BY <1>1, <2>2 DEF Once
  <2>6. QED
    BY <1>1, <2>1, <2>2, <2>3, <2>4, <2>5
<1>4. CASE StartsContainer
  <2>1. /\ engine' \in [Names -> Resources]
        /\ \A n \in Names : n # Current.name => engine'[n] = engine[n]
        /\ engine' = engine \/ engine'[Current.name].ours
                            \/ Owned(Current.name)
        /\ engine' = engine \/ engine[Current.name].state = "absent"
    BY <1>1, <1>4, StartEffect
  <2>2. ~Tracked(Current.name) /\ tracked' = Append(tracked, Current.name)
        /\ networkCreated' = networkCreated
    BY <1>4 DEF StartsContainer
  <2>3. /\ tracked' \in Seq(Containers)
        /\ Len(tracked) \in Nat
        /\ tracked'[Len(tracked) + 1] = Current.name
        /\ \A i \in 1..Len(tracked) : tracked'[i] = tracked[i]
        /\ DOMAIN tracked = 1..Len(tracked)
        /\ DOMAIN tracked' = 1..(Len(tracked) + 1)
        /\ \A m : Tracked(m) => Tracked(m)'
        /\ \E i \in DOMAIN tracked' : tracked'[i] = Current.name
    BY <1>1, <1>2, <2>2, TrackedOneMore DEF Tracked
  <2>4. LabelsTell'
    BY <1>1, <2>1 DEF LabelsTell, Owned
  <2>5. RemembersContainers'
    <3>1. ASSUME NEW n \in Containers, Owned(n)' PROVE Tracked(n)'
      <4>1. CASE n = Current.name
        BY <2>3, <4>1 DEF Tracked
      <4>2. CASE n # Current.name
        <5>1. Owned(n)
          BY <1>2, <2>1, <3>1, <4>2 DEF Owned
        <5>2. QED
          BY <1>1, <2>3, <5>1 DEF RemembersContainers
      <4>3. QED
        BY <4>1, <4>2
    <3>2. Owned(Network)' => networkCreated'
      BY <1>1, <1>2, <2>1, <2>2 DEF RemembersContainers, Owned
    <3>3. QED
      BY <3>1, <3>2 DEF RemembersContainers
  <2>6. Once'
    <3>1. ASSUME NEW i \in DOMAIN tracked', NEW j \in DOMAIN tracked',
                 tracked'[i] = tracked'[j], i # j
          PROVE  FALSE
      <4>1. i \in 1..Len(tracked) \/ i = Len(tracked) + 1
        BY <2>3
      <4>2. j \in 1..Len(tracked) \/ j = Len(tracked) + 1
        BY <2>3
      <4>3. CASE i \in 1..Len(tracked) /\ j \in 1..Len(tracked)
        BY <1>1, <2>3, <3>1, <4>3 DEF Once
      <4>4. CASE i \in 1..Len(tracked) /\ j = Len(tracked) + 1
        BY <2>2, <2>3, <3>1, <4>4 DEF Tracked
      <4>5. CASE j \in 1..Len(tracked) /\ i = Len(tracked) + 1
        BY <2>2, <2>3, <3>1, <4>5 DEF Tracked
      <4>6. QED
        BY <3>1, <4>1, <4>2, <4>3, <4>4, <4>5
    <3>2. QED
      BY <3>1 DEF Once
  <2>7. \/ Raise \/ Proceed
        \/ Current.op \in JobOps /\ StartWaiting
    BY <1>4 DEF StartsContainer
  <2>8. QED
    BY <1>1, <2>1, <2>2, <2>3, <2>4, <2>5, <2>6, <2>7
<1>5. CASE ChangesContainer
  <2>1. /\ engine' \in [Names -> Resources]
        /\ \A n \in Names : n # Current.name => engine'[n] = engine[n]
        /\ engine[Current.name].ours /\ engine'[Current.name].ours
        /\ engine[Current.name].state # "absent"
    BY <1>1, <1>5, ChangeEffect
  <2>2. UNCHANGED <<tracked, networkCreated>> /\ (Raise \/ Proceed)
    BY <1>5 DEF ChangesContainer
  <2>3. LabelsTell'
    BY <1>1, <2>1 DEF LabelsTell
  <2>4. \A n \in Names : Owned(n)' => Owned(n)
    BY <2>1 DEF Owned
  <2>5. RemembersContainers'
    BY <1>1, <1>2, <2>2, <2>4 DEF RemembersContainers, Tracked
  <2>6. Once'
    BY <1>1, <2>2 DEF Once
  <2>7. QED
    BY <1>1, <2>1, <2>2, <2>3, <2>5, <2>6
<1>6. CASE LeavesContainers
  <2>1. UNCHANGED <<tracked, networkCreated, engine>> /\ (Raise \/ Proceed)
    BY <1>6 DEF LeavesContainers
  <2>2. LabelsTell' /\ RemembersContainers' /\ Once'
    BY <1>1, <2>1 DEF LabelsTell, RemembersContainers, Once, Owned, Tracked
  <2>3. QED
    BY <1>1, <2>1, <2>2
<1>7. QED
  BY <1>3, <1>4, <1>5, <1>6 DEF StepOnContainers

LEMMA FaultTypes ==
    ASSUME TypeOK, MayFault
    PROVE  /\ faults' \in 0..MaxFaults
           /\ failedCalls' \subseteq Names \cup Images
           /\ failedCalls \subseteq failedCalls'
<1>1. CASE NoFault
  BY <1>1 DEF NoFault, TypeOK
<1>2. CASE \E n \in Names \cup Images : Fault(n)
  <2>1. PICK n \in Names \cup Images : Fault(n)
    BY <1>2
  <2>2. /\ faults < MaxFaults /\ faults' = faults + 1
        /\ failedCalls' = failedCalls \cup {n}
    BY <2>1 DEF Fault
  <2>3. faults' \in 0..MaxFaults
    <3>1. faults \in 0..MaxFaults /\ MaxFaults \in Nat
      BY FixtureAssumption DEF TypeOK
    <3>2. QED
      BY <2>2, <3>1
  <2>4. QED
    BY <2>2, <2>3 DEF TypeOK
<1>3. QED
  BY <1>1, <1>2 DEF MayFault

LEMMA ImagesKeep ==
    ASSUME FixtureInv, StepOnImages, MayFault,
           report' \in {report, "failed"}, Raise => report' = "failed"
    PROVE  RemembersImages' /\ images' \subseteq Images /\ recorded' \subseteq Images
<1>1. RemembersImages /\ images \subseteq Images /\ recorded \subseteq Images
      /\ "base tag" \in Images /\ "candidate" \in Images
  BY DEF FixtureInv, Remembered, RemembersImages, TypeOK, Images
<1>2. failedCalls \subseteq failedCalls'
  BY FaultTypes DEF FixtureInv
<1>3. CASE UNCHANGED <<images, recorded>>
  BY <1>1, <1>2, <1>3 DEF RemembersImages
<1>4. CASE /\ images' \in {images, images \cup {"base tag"}}
           /\ recorded' = recorded \cup {"base tag"}
  BY <1>1, <1>2, <1>4 DEF RemembersImages
<1>5. CASE /\ images' \in {images, images \cup {"candidate"}}
           /\ \/ recorded' = recorded \cup {"candidate"}
              \/ recorded' = recorded /\ Raise /\ Fault("candidate")
  <2>1. Fault("candidate") => "candidate" \in failedCalls'
    BY DEF Fault
  <2>2. QED
    BY <1>1, <1>2, <1>5, <2>1 DEF RemembersImages
<1>6. QED
  BY <1>3, <1>4, <1>5 DEF StepOnImages

LEMMA DomainOfSeq ==
    ASSUME NEW S, NEW s \in Seq(S) PROVE DOMAIN s = 1..Len(s)
OBVIOUS

\* The cleanup starts with everything still to visit.
LEMMA CleanupStarts ==
    ASSUME tracked' \in Seq(Containers),
           RemembersContainers', RemembersImages',
           \/ phase' \in Working
           \/ /\ phase' = IF "base tag" \in recorded'
                          THEN "base tag" ELSE "containers"
              /\ left' = Len(tracked')
    PROVE  Visited'
<1>1. CASE phase' \in Working
  BY <1>1 DEF Visited, Working
<1>2. CASE /\ phase' = IF "base tag" \in recorded'
                       THEN "base tag" ELSE "containers"
           /\ left' = Len(tracked')
  <2> DOMAIN tracked' = 1..Len(tracked')
    BY DomainOfSeq
  <2>1. DOMAIN tracked' = 1..left'
    BY <1>2
  <2>2. \A n \in Containers : Owned(n)' => \E i \in 1..left' : tracked'[i] = n
    BY <2>1 DEF RemembersContainers, Tracked
  <2>3. phase' = "containers" => "base tag" \notin images'
    BY <1>2 DEF RemembersImages
  <2>4. phase' \in {"base tag", "containers"}
    BY <1>2
  <2>5. QED
    BY <1>2, <2>2, <2>3, <2>4 DEF Visited
<1>3. QED
  BY <1>1, <1>2

LEMMA DrillStepKeeps ==
    ASSUME FixtureInv, DrillStep PROVE FixtureInv'
<1>1. /\ TypeOK /\ Progress
      /\ phase \in Working /\ step \in DOMAIN Script[drill]
      /\ StepOnContainers /\ StepOnImages /\ StepOnPasswords /\ MayFault
  BY DEF FixtureInv, DrillStep
<1>2. /\ tracked' \in Seq(Containers)
      /\ networkCreated' \in BOOLEAN
      /\ engine' \in [Names -> Resources]
      /\ LabelsTell' /\ RemembersContainers' /\ Once'
      /\ \/ Raise \/ Proceed
         \/ Current.op \in JobOps /\ StartWaiting
  BY <1>1, ContainersKeep
<1>3. /\ drill' \in Drills /\ step' \in Nat \ {0} /\ phase' \in Phases
      /\ waiting' \in BOOLEAN /\ files' \in BOOLEAN
      /\ left' \in 0..Len(tracked')
      /\ report' \in {"none", "passed", "failed"}
      /\ cleanupErrors' = cleanupErrors
      /\ Progress'
      /\ \/ phase' \in Working
         \/ /\ phase' = IF "base tag" \in recorded'
                        THEN "base tag" ELSE "containers"
            /\ left' = Len(tracked')
      /\ phase' = "drill" => step' = step + 1 \/ waiting'
      /\ report' \in {report, "failed"}
      /\ Raise => report' = "failed"
  BY <1>1, <1>2, ControlMoves
<1>4. RemembersImages' /\ images' \subseteq Images /\ recorded' \subseteq Images
  BY <1>1, <1>3, ImagesKeep
<1>5. /\ faults' \in 0..MaxFaults
      /\ failedCalls' \subseteq Names \cup Images
  BY <1>1, FaultTypes
<1>6. /\ prepared' \subseteq Databases
      /\ runtimePasswords' \in [Databases -> Passwords \cup {NoPassword}]
      /\ rolePassword' \in [Databases -> Passwords \cup {NoPassword}]
  BY <1>1 DEF StepOnPasswords, TypeOK
<1>7. TypeOK'
  BY <1>1, <1>2, <1>3, <1>4, <1>5, <1>6 DEF TypeOK
<1>8. Visited'
  BY <1>2, <1>3, <1>4, CleanupStarts
<1>9. Remembered'
  BY <1>2, <1>4 DEF Remembered, RemembersContainers, RemembersImages
<1>10. Fresh'
  <2>1. step \in Nat \ {0}
    BY <1>1 DEF TypeOK
  <2>2. phase' = "drill" => step' # 1 \/ waiting'
    BY <1>3, <2>1
  <2>3. QED
    BY <2>2 DEF Fresh
<1>11. QED
  BY <1>2, <1>3, <1>7, <1>8, <1>9, <1>10 DEF FixtureInv

LEMMA EndJobKeeps ==
    ASSUME FixtureInv, EndJob PROVE FixtureInv'
<1>1. /\ waiting
      /\ UNCHANGED <<tracked, networkCreated, recorded, docker>>
      /\ Raise \/ Proceed
  BY DEF EndJob
<1>2. /\ TypeOK /\ Progress
      /\ phase \in Working /\ step \in DOMAIN Script[drill]
      /\ tracked' \in Seq(Containers)
  BY <1>1 DEF FixtureInv, Progress, TypeOK
<1>3. /\ drill' \in Drills /\ step' \in Nat \ {0} /\ phase' \in Phases
      /\ waiting' \in BOOLEAN /\ files' \in BOOLEAN
      /\ left' \in 0..Len(tracked')
      /\ report' \in {"none", "passed", "failed"}
      /\ cleanupErrors' = cleanupErrors
      /\ Progress'
      /\ \/ phase' \in Working
         \/ /\ phase' = IF "base tag" \in recorded'
                        THEN "base tag" ELSE "containers"
            /\ left' = Len(tracked')
      /\ phase' = "drill" => step' = step + 1 \/ waiting'
      /\ report' \in {report, "failed"}
  BY <1>1, <1>2, ControlMoves
<1>4. Current.name \in Names /\ Current.db \in Databases
      /\ Current.password \in Passwords \cup {NoPassword}
  BY <1>2, CurrentTypes
<1>5. MayFault
  BY <1>4 DEF EndJob, MayFault
<1>6. /\ faults' \in 0..MaxFaults
      /\ failedCalls' \subseteq Names \cup Images
      /\ failedCalls \subseteq failedCalls'
  BY <1>2, <1>5, FaultTypes
<1>7. /\ prepared' \subseteq Databases
      /\ runtimePasswords' \in [Databases -> Passwords \cup {NoPassword}]
  BY <1>2, <1>4 DEF EndJob, Register, TypeOK
<1>8. TypeOK'
  BY <1>1, <1>2, <1>3, <1>6, <1>7 DEF TypeOK, docker
<1>9. LabelsTell' /\ Once' /\ RemembersContainers'
  BY <1>1 DEF FixtureInv, LabelsTell, Once, Remembered, RemembersContainers,
              Owned, Tracked, docker
<1>10. RemembersImages'
  BY <1>1, <1>3, <1>6 DEF FixtureInv, Remembered, RemembersImages, docker
<1>11. Visited'
  BY <1>2, <1>3, <1>9, <1>10, CleanupStarts
<1>12. Remembered'
  BY <1>9, <1>10 DEF Remembered, RemembersContainers, RemembersImages
<1>13. Fresh'
  <2>1. step \in Nat \ {0}
    BY <1>2 DEF TypeOK
  <2>2. phase' = "drill" => step' # 1 \/ waiting'
    BY <1>3, <2>1
  <2>3. QED
    BY <2>2 DEF Fresh
<1>14. QED
  BY <1>3, <1>8, <1>9, <1>11, <1>12, <1>13 DEF FixtureInv

\* A container of the drill changes by itself.
LEMMA StateChangeKeeps ==
    ASSUME FixtureInv, NEW n \in Containers, NEW state \in States,
           state # "absent", Owned(n), Set(n, state),
           UNCHANGED <<control, fixture, cleaning, images>>, MayFault,
           rolePassword' \in [Databases -> Passwords \cup {NoPassword}]
    PROVE  FixtureInv'
<1>1. n \in Names /\ n # Network
  BY FixtureAssumption DEF Names
<1>2. /\ engine' \in [Names -> Resources]
      /\ engine'[n].state = state
      /\ engine'[n].ours = engine[n].ours
      /\ \A m \in Names : m # n => engine'[m] = engine[m]
  BY <1>1, StateSet DEF FixtureInv
<1>3. /\ faults' \in 0..MaxFaults
      /\ failedCalls' \subseteq Names \cup Images
      /\ failedCalls \subseteq failedCalls'
  BY FaultTypes DEF FixtureInv
<1>4. /\ UNCHANGED <<drill, step, phase, waiting, tracked, networkCreated,
                     prepared, runtimePasswords, recorded, files, left,
                     cleanupErrors, report, images>>
  BY DEF control, fixture, cleaning
<1>5. TypeOK'
  BY <1>2, <1>3, <1>4 DEF FixtureInv, TypeOK
<1>6. engine[n].ours /\ engine'[n].ours
  BY <1>2 DEF Owned
<1>7. \A m \in Names : Owned(m)' <=> Owned(m)
  BY <1>2, <1>6 DEF Owned
<1>8. LabelsTell'
  BY <1>2, <1>6 DEF FixtureInv, LabelsTell
<1>9. Containers \subseteq Names /\ Network \in Names
  BY DEF Names
<1>10. Remembered'
  BY <1>3, <1>4, <1>7, <1>9 DEF FixtureInv, Remembered, Tracked
<1>11. Once' /\ Fresh'
  BY <1>4 DEF FixtureInv, Once, Fresh
<1>12. Progress'
  BY <1>4 DEF FixtureInv, Progress, Current
<1>13. Visited'
  BY <1>3, <1>4, <1>7, <1>9 DEF FixtureInv, Visited
<1>14. QED
  BY <1>5, <1>8, <1>10, <1>11, <1>12, <1>13 DEF FixtureInv

LEMMA JobEndsKeeps ==
    ASSUME FixtureInv, NEW n \in Containers, JobEnds(n) PROVE FixtureInv'
<1>1. engine[n].state = "working"
      /\ UNCHANGED <<control, fixture, cleaning, images, faults, failedCalls>>
  BY DEF JobEnds
<1>2. PICK state \in {"exited", "failed"}, commits \in BOOLEAN :
          /\ Set(n, state)
          /\ rolePassword' = IF commits /\ engine[n].password # NoPassword
                             THEN [rolePassword EXCEPT
                                      ![engine[n].db] = engine[n].password]
                             ELSE rolePassword
  BY DEF JobEnds
<1>3. n \in Names
  BY DEF Names
<1>4. Owned(n)
  BY <1>1, <1>3 DEF FixtureInv, LabelsTell, Owned
<1>5. engine[n] \in Resources
  BY <1>3 DEF FixtureInv, TypeOK
<1>6. engine[n].password \in Passwords \cup {NoPassword}
  BY <1>5 DEF Resources
<1>7. rolePassword' \in [Databases -> Passwords \cup {NoPassword}]
  BY <1>2, <1>6 DEF FixtureInv, TypeOK
<1>8. MayFault /\ state \in States /\ state # "absent"
  BY <1>1, <1>2 DEF MayFault, NoFault, States
<1>9. QED
  BY <1>1, <1>2, <1>4, <1>7, <1>8, StateChangeKeeps

LEMMA DiesKeeps ==
    ASSUME FixtureInv, NEW n \in Containers, Dies(n) PROVE FixtureInv'
<1>1. /\ Owned(n) /\ Set(n, "failed") /\ Fault(n)
      /\ UNCHANGED <<control, fixture, cleaning, images, rolePassword>>
  BY DEF Dies, Answers, Owned
<1>2. MayFault /\ "failed" \in States
  BY <1>1 DEF MayFault, States, Names
<1>3. rolePassword' \in [Databases -> Passwords \cup {NoPassword}]
  BY <1>1 DEF FixtureInv, TypeOK
<1>4. QED
  BY <1>1, <1>2, <1>3, StateChangeKeeps

LEMMA FixtureFailsKeeps ==
    ASSUME FixtureInv, FixtureFails PROVE FixtureInv'
<1>1. /\ phase = "drill" /\ step = 1 /\ ~waiting
      /\ phase' = "ended" /\ files' = FALSE /\ report' = "failed"
      /\ Fault(Network)
      /\ UNCHANGED <<drill, step, waiting, tracked, networkCreated, prepared,
                     runtimePasswords, recorded, left, cleanupErrors, docker>>
  BY DEF FixtureFails
<1>2. MayFault
  BY <1>1 DEF MayFault, Names
<1>3. /\ faults' \in 0..MaxFaults
      /\ failedCalls' \subseteq Names \cup Images
      /\ failedCalls \subseteq failedCalls'
  BY <1>2, FaultTypes DEF FixtureInv
<1>4. TypeOK'
  BY <1>1, <1>3 DEF FixtureInv, TypeOK, Phases, docker
<1>5. LabelsTell' /\ Once'
  BY <1>1 DEF FixtureInv, LabelsTell, Once, docker
<1>6. tracked = <<>> /\ ~networkCreated /\ images = {}
  BY <1>1 DEF FixtureInv, Fresh
<1>7. \A n \in Containers : ~Tracked(n)
  BY <1>6 DEF Tracked
<1>8. ~Owned(Network) /\ \A n \in Containers : ~Owned(n)
  BY <1>6, <1>7 DEF FixtureInv, Remembered
<1>9. ~Owned(Network)' /\ \A n \in Containers : ~Owned(n)'
  BY <1>1, <1>8 DEF Owned, docker
<1>10. Remembered'
  BY <1>1, <1>6, <1>9 DEF Remembered, docker
<1>11. Fresh'
  BY <1>1 DEF Fresh
<1>12. Progress'
  BY <1>1 DEF FixtureInv, Progress, Working
<1>13. Visited'
  BY <1>1, <1>6, <1>9 DEF FixtureInv, Progress, Working, Visited, docker
<1>14. QED
  BY <1>4, <1>5, <1>10, <1>11, <1>12, <1>13 DEF FixtureInv

LEMMA CompleteKeeps ==
    ASSUME FixtureInv, Complete PROVE FixtureInv'
<1>1. /\ phase = "drill" /\ step = Len(Script[drill]) + 1
      /\ report' = "passed"
      /\ UNCHANGED <<fixture, docker, faults, failedCalls>>
      /\ phase' = IF "base tag" \in recorded'
                  THEN "base tag" ELSE "containers"
      /\ left' = Len(tracked')
      /\ waiting' = FALSE
      /\ UNCHANGED <<drill, step, cleanupErrors>>
  BY DEF Complete, BeginCleanup
<1>2. UNCHANGED <<tracked, networkCreated, prepared, runtimePasswords,
                  recorded, files, engine, images, rolePassword>>
  BY <1>1 DEF fixture, docker
<1>3. Len(tracked') \in 0..Len(tracked')
  <2>1. Len(tracked') \in Nat
    BY <1>2 DEF FixtureInv, TypeOK
  <2>2. QED
    BY <2>1
<1>4. TypeOK'
  BY <1>1, <1>2, <1>3 DEF FixtureInv, TypeOK, Phases
<1>5. LabelsTell' /\ Once' /\ RemembersContainers'
  BY <1>2 DEF FixtureInv, LabelsTell, Once, Remembered, RemembersContainers,
              Owned, Tracked
<1>6. RemembersImages'
  BY <1>1, <1>2 DEF FixtureInv, Remembered, RemembersImages, Progress
<1>7. Visited'
  BY <1>1, <1>4, <1>5, <1>6, CleanupStarts DEF TypeOK
<1>8. phase' \notin {"drill", "finally", "ended"}
  BY <1>1
<1>9. Fresh' /\ Progress'
  BY <1>1, <1>2, <1>8 DEF FixtureInv, Fresh, Progress, Working
<1>10. QED
  BY <1>4, <1>5, <1>6, <1>7, <1>9
     DEF FixtureInv, Remembered, RemembersContainers, RemembersImages

-----------------------------------------------------------------------------
(* Labels, what is remembered, and the cleanup: the steps of the cleanup.  *)

\* What a removal does to the errors and to the failed calls.
LEMMA RemoveEffect ==
    ASSUME FixtureInv, NEW n \in Names \cup Images, NEW allowed, NEW effect,
           NEW unchanged, Remove(n, allowed, effect, unchanged)
    PROVE  /\ effect \/ unchanged
           /\ (effect /\ allowed) \/ unchanged
           /\ cleanupErrors \subseteq cleanupErrors'
           /\ cleanupErrors' \subseteq Names \cup Images
           /\ n \in cleanupErrors' \/ (effect /\ allowed)
           /\ faults' \in 0..MaxFaults
           /\ failedCalls' \subseteq Names \cup Images
           /\ failedCalls \subseteq failedCalls'
<1>1. MayFault
  BY DEF Remove, MayFault
<1>2. TypeOK /\ cleanupErrors \subseteq Names \cup Images
  BY DEF FixtureInv, TypeOK
<1>3. /\ faults' \in 0..MaxFaults
      /\ failedCalls' \subseteq Names \cup Images
      /\ failedCalls \subseteq failedCalls'
  BY <1>1, <1>2, FaultTypes
<1>4. QED
  BY <1>2, <1>3 DEF Remove

LEMMA AbsentIsResource ==
    ASSUME NEW n
    PROVE  Absent(n) \in Resources /\ Absent(n).state = "absent"
<1>1. (CHOOSE d \in Databases : TRUE) \in Databases
  BY FixtureAssumption
<1>2. QED
  BY <1>1 DEF Absent, Resources, States

\* What one removal does to what Docker has.
LEMMA AbsentEffect ==
    ASSUME FixtureInv, NEW n \in Names,
           engine' \in {engine, [engine EXCEPT ![n] = Absent(n)]}
    PROVE  /\ engine' \in [Names -> Resources]
           /\ \A m \in Names : m # n => engine'[m] = engine[m]
           /\ \A m \in Names : Owned(m)' => Owned(m)
           /\ engine' = engine \/ engine'[n].state = "absent"
           /\ LabelsTell'
<1>1. engine \in [Names -> Resources] /\ LabelsTell
  BY DEF FixtureInv, TypeOK
<1>2. CASE engine' = engine
  BY <1>1, <1>2 DEF Owned, LabelsTell
<1>3. CASE engine' = [engine EXCEPT ![n] = Absent(n)]
  <2>1. /\ engine' \in [Names -> Resources]
        /\ engine'[n] = Absent(n)
        /\ \A m \in Names : m # n => engine'[m] = engine[m]
    BY <1>1, <1>3, AbsentIsResource
  <2>2. engine'[n].state = "absent"
    BY <2>1, AbsentIsResource
  <2>3. \A m \in Names : Owned(m)' => Owned(m)
    BY <2>1, <2>2 DEF Owned
  <2>4. LabelsTell'
    BY <1>1, <2>1, <2>2 DEF LabelsTell
  <2>5. QED
    BY <2>1, <2>2, <2>3, <2>4
<1>4. QED
  BY <1>2, <1>3

LEMMA RemoveBaseTagKeeps ==
    ASSUME FixtureInv, RemoveBaseTag PROVE FixtureInv'
<1>1. /\ phase = "base tag" /\ phase' = "containers"
      /\ UNCHANGED <<drill, step, waiting, tracked, networkCreated, prepared,
                     runtimePasswords, recorded, files, left, report, engine,
                     rolePassword>>
      /\ Remove("base tag", "base tag" \in images,
                images' = images \ {"base tag"}, UNCHANGED images)
  BY DEF RemoveBaseTag, fixture
<1>2. "base tag" \in Names \cup Images
  BY DEF Images
<1>3. /\ images' = images \ {"base tag"} \/ images' = images
      /\ cleanupErrors \subseteq cleanupErrors'
      /\ cleanupErrors' \subseteq Names \cup Images
      /\ "base tag" \in cleanupErrors' \/ images' = images \ {"base tag"}
      /\ faults' \in 0..MaxFaults
      /\ failedCalls' \subseteq Names \cup Images
      /\ failedCalls \subseteq failedCalls'
  BY <1>1, <1>2, RemoveEffect
<1>4. images' \subseteq images
  BY <1>3
<1>5. TypeOK'
  BY <1>1, <1>3, <1>4 DEF FixtureInv, TypeOK, Phases
<1>6. LabelsTell' /\ Once' /\ Fresh'
  BY <1>1 DEF FixtureInv, LabelsTell, Once, Fresh
<1>7. Remembered'
  BY <1>1, <1>3, <1>4 DEF FixtureInv, Remembered, Owned, Tracked
<1>8. Progress'
  BY <1>1 DEF FixtureInv, Progress, Working
<1>9. Visited'
  <2>1. left' = Len(tracked') /\ tracked' \in Seq(Containers)
    BY <1>1 DEF FixtureInv, Visited, TypeOK
  <2>2. DOMAIN tracked' = 1..left'
    BY <2>1, DomainOfSeq
  <2>3. \A n \in Containers : Owned(n)' => \E i \in 1..left' : tracked'[i] = n
    BY <1>7, <2>2 DEF Remembered, Tracked
  <2>4. "base tag" \in images' => "base tag" \in cleanupErrors'
    BY <1>3
  <2>5. QED
    BY <1>1, <2>3, <2>4 DEF Visited
<1>10. QED
  BY <1>5, <1>6, <1>7, <1>8, <1>9 DEF FixtureInv

\* What the loop of the cleanup does to its container.
LEMMA RemoveContainerEffect ==
    ASSUME FixtureInv, RemoveContainer
    PROVE  LET n == tracked[left] IN
           /\ left \in 1..Len(tracked)
           /\ n \in Containers /\ n \in Names
           /\ engine' \in {engine, [engine EXCEPT ![n] = Absent(n)]}
           /\ engine' # engine => Owned(n)
           /\ cleanupErrors \subseteq cleanupErrors'
           /\ cleanupErrors' \subseteq Names \cup Images
           /\ \A m \in Names : m = n /\ Owned(m)' => m \in cleanupErrors'
           /\ faults' \in 0..MaxFaults
           /\ failedCalls' \subseteq Names \cup Images
           /\ failedCalls \subseteq failedCalls'
<1> DEFINE n == tracked[left]
<1>1. left \in 0..Len(tracked) /\ Len(tracked) \in Nat
      /\ left > 0 /\ tracked \in Seq(Containers)
      /\ cleanupErrors \subseteq Names \cup Images
      /\ faults \in 0..MaxFaults /\ failedCalls \subseteq Names \cup Images
      /\ engine \in [Names -> Resources]
  BY DEF FixtureInv, TypeOK, RemoveContainer
<1>2. left \in 1..Len(tracked)
  BY <1>1
<1>3. n \in Containers /\ n \in Names
  BY <1>1, <1>2 DEF Names
<1>4. CASE engine[n].state = "absent" /\ UNCHANGED <<engine, cleanupErrors>>
           /\ NoFault
  <2>1. \A m \in Names : m = n => ~Owned(m)'
    BY <1>4 DEF Owned
  <2>2. QED
    BY <1>1, <1>2, <1>3, <1>4, <2>1 DEF NoFault
<1>5. CASE Remove(n, Owned(n), engine' = [engine EXCEPT ![n] = Absent(n)],
                  UNCHANGED engine)
  <2>1. n \in Names \cup Images
    BY <1>3
  <2>2. /\ \/ engine' = [engine EXCEPT ![n] = Absent(n)] /\ Owned(n)
           \/ engine' = engine
        /\ cleanupErrors \subseteq cleanupErrors'
        /\ cleanupErrors' \subseteq Names \cup Images
        /\ n \in cleanupErrors' \/ engine' = [engine EXCEPT ![n] = Absent(n)]
        /\ faults' \in 0..MaxFaults
        /\ failedCalls' \subseteq Names \cup Images
        /\ failedCalls \subseteq failedCalls'
    <3>1. MayFault
      BY <1>5, <2>1 DEF Remove, MayFault
    <3>2. /\ faults' \in 0..MaxFaults
          /\ failedCalls' \subseteq Names \cup Images
          /\ failedCalls \subseteq failedCalls'
      BY <3>1, FaultTypes DEF FixtureInv
    <3>3. QED
      BY <1>1, <1>5, <2>1, <3>2 DEF Remove
  <2>3. engine' = [engine EXCEPT ![n] = Absent(n)] =>
            \A m \in Names : m = n => ~Owned(m)'
    BY <1>1, <1>3, AbsentIsResource DEF Owned
  <2>4. QED
    BY <1>2, <1>3, <2>2, <2>3
<1>6. QED
  BY <1>4, <1>5 DEF RemoveContainer

LEMMA RemoveContainerKeeps ==
    ASSUME FixtureInv, RemoveContainer PROVE FixtureInv'
<1> DEFINE n == tracked[left]
<1>1. /\ left \in 1..Len(tracked)
      /\ n \in Containers /\ n \in Names
      /\ engine' \in {engine, [engine EXCEPT ![n] = Absent(n)]}
      /\ cleanupErrors \subseteq cleanupErrors'
      /\ cleanupErrors' \subseteq Names \cup Images
      /\ \A m \in Names : m = n /\ Owned(m)' => m \in cleanupErrors'
      /\ faults' \in 0..MaxFaults
      /\ failedCalls' \subseteq Names \cup Images
      /\ failedCalls \subseteq failedCalls'
  BY RemoveContainerEffect
<1>2. /\ phase = "containers" /\ left' = left - 1
      /\ UNCHANGED <<drill, step, phase, waiting, tracked, networkCreated,
                     prepared, runtimePasswords, recorded, files, report,
                     images, rolePassword>>
  BY DEF RemoveContainer, control, fixture
<1> HIDE DEF n
<1>3. /\ engine' \in [Names -> Resources]
      /\ \A m \in Names : Owned(m)' => Owned(m)
      /\ LabelsTell'
  BY <1>1, AbsentEffect
<1>4. left' \in 0..Len(tracked')
  <2>1. Len(tracked) \in Nat
    BY DEF FixtureInv, TypeOK
  <2>2. QED
    BY <1>1, <1>2, <2>1
<1>5. TypeOK'
  BY <1>1, <1>2, <1>3, <1>4 DEF FixtureInv, TypeOK
<1>6. Once' /\ Fresh'
  BY <1>2 DEF FixtureInv, Once, Fresh
<1>7. Containers \subseteq Names /\ Network \in Names
  BY DEF Names
<1>8. Remembered'
  BY <1>1, <1>2, <1>3, <1>7 DEF FixtureInv, Remembered, Tracked
<1>9. Progress'
  BY <1>2 DEF FixtureInv, Progress, Working
<1>10. Visited'
  <2>1. \A m \in Containers : Owned(m) =>
            m \in cleanupErrors \/ \E i \in 1..left : tracked[i] = m
    BY <1>2 DEF FixtureInv, Visited
  <2>2. ASSUME NEW m \in Containers, Owned(m)'
        PROVE  m \in cleanupErrors' \/ \E i \in 1..left' : tracked'[i] = m
    <3>1. CASE m \in cleanupErrors
      BY <1>1, <3>1
    <3>2. CASE \E i \in 1..left : tracked[i] = m
      <4>1. PICK i \in 1..left : tracked[i] = m
        BY <3>2
      <4>2. CASE i = left
        <5>1. m = n /\ m \in Names
          BY <1>7, <4>1, <4>2 DEF n
        <5>2. QED
          BY <1>1, <2>2, <5>1
      <4>3. CASE i # left
        <5>1. i \in 1..left'
          BY <1>1, <1>2, <4>1, <4>3
        <5>2. QED
          BY <1>2, <4>1, <5>1
      <4>4. QED
        BY <4>2, <4>3
    <3>3. QED
      BY <1>3, <1>7, <2>1, <2>2, <3>1, <3>2
  <2>3. "base tag" \in images' => "base tag" \in cleanupErrors'
    BY <1>1, <1>2 DEF FixtureInv, Visited
  <2>4. QED
    BY <1>2, <2>2, <2>3 DEF Visited
<1>11. QED
  BY <1>3, <1>5, <1>6, <1>8, <1>9, <1>10 DEF FixtureInv

LEMMA RemoveNetworkKeeps ==
    ASSUME FixtureInv, RemoveNetwork PROVE FixtureInv'
<1>1. /\ phase = "containers" /\ left = 0
      /\ \/ /\ ~networkCreated \/ engine[Network].state = "absent"
            /\ UNCHANGED <<engine, cleanupErrors>>
            /\ NoFault
         \/ Remove(Network, Owned(Network) /\ ~Attached,
                   engine' = [engine EXCEPT ![Network] = Absent(Network)],
                   UNCHANGED engine)
      /\ \/ /\ "candidate" \in recorded
            /\ phase' = "candidate" /\ UNCHANGED <<files, report>>
         \/ /\ "candidate" \notin recorded
            /\ phase' = "ended" /\ files' = FALSE
            /\ report' = IF cleanupErrors' = {} THEN report ELSE "failed"
      /\ UNCHANGED <<drill, step, waiting, tracked, networkCreated, prepared,
                     runtimePasswords, recorded, left, images, rolePassword>>
  BY DEF RemoveNetwork, End
<1>2. /\ TypeOK /\ cleanupErrors \subseteq Names \cup Images
      /\ faults \in 0..MaxFaults /\ failedCalls \subseteq Names \cup Images
      /\ engine \in [Names -> Resources]
      /\ Network \in Names /\ Network \in Names \cup Images
      /\ \A m \in Containers : m \in Names /\ m # Network
  BY FixtureAssumption DEF FixtureInv, TypeOK, Names
<1>3. /\ engine' \in {engine, [engine EXCEPT ![Network] = Absent(Network)]}
      /\ cleanupErrors \subseteq cleanupErrors'
      /\ cleanupErrors' \subseteq Names \cup Images
      /\ Owned(Network)' => Network \in cleanupErrors'
      /\ faults' \in 0..MaxFaults
      /\ failedCalls' \subseteq Names \cup Images
      /\ failedCalls \subseteq failedCalls'
  <2>1. CASE /\ ~networkCreated \/ engine[Network].state = "absent"
             /\ UNCHANGED <<engine, cleanupErrors>>
             /\ NoFault
    <3>1. ~Owned(Network)
      BY <2>1 DEF FixtureInv, Remembered, Owned
    <3>2. ~Owned(Network)'
      BY <2>1, <3>1 DEF Owned
    <3>3. QED
      BY <1>2, <2>1, <3>2 DEF NoFault
  <2>2. CASE Remove(Network, Owned(Network) /\ ~Attached,
                    engine' = [engine EXCEPT ![Network] = Absent(Network)],
                    UNCHANGED engine)
    <3>1. /\ engine' = [engine EXCEPT ![Network] = Absent(Network)]
             \/ engine' = engine
          /\ cleanupErrors \subseteq cleanupErrors'
          /\ cleanupErrors' \subseteq Names \cup Images
          /\ Network \in cleanupErrors'
             \/ engine' = [engine EXCEPT ![Network] = Absent(Network)]
          /\ faults' \in 0..MaxFaults
          /\ failedCalls' \subseteq Names \cup Images
          /\ failedCalls \subseteq failedCalls'
      BY <1>2, <2>2, RemoveEffect
    <3>2. engine' = [engine EXCEPT ![Network] = Absent(Network)] =>
              ~Owned(Network)'
      BY <1>2, AbsentIsResource DEF Owned
    <3>3. QED
      BY <3>1, <3>2
  <2>3. QED
    BY <1>1, <2>1, <2>2
<1>4. /\ engine' \in [Names -> Resources]
      /\ \A m \in Names : Owned(m)' => Owned(m)
      /\ LabelsTell'
  BY <1>2, <1>3, AbsentEffect
<1>5. /\ report \in {"none", "passed", "failed"} /\ files \in BOOLEAN
      /\ "candidate" \in images =>
             \/ "candidate" \in recorded
             \/ "candidate" \in failedCalls /\ report = "failed"
  BY <1>2 DEF FixtureInv, TypeOK, Remembered
<1>6. TypeOK'
  BY <1>1, <1>2, <1>3, <1>4 DEF TypeOK, Phases
<1>7. Once' /\ Fresh'
  BY <1>1 DEF FixtureInv, Once, Fresh
<1>8. Remembered'
  BY <1>1, <1>2, <1>3, <1>4, <1>5 DEF FixtureInv, Remembered, Tracked
<1>9. Progress'
  <2>1. report # "none"
    BY <1>1 DEF FixtureInv, Progress
  <2>2. report' \in {report, "failed"}
    BY <1>1
  <2>3. QED
    BY <1>1, <2>1, <2>2 DEF FixtureInv, Progress, Working
<1>10. Visited'
  <2>0. \A m \in Containers : Owned(m) =>
            m \in cleanupErrors \/ \E i \in 1..left : tracked[i] = m
    BY <1>1 DEF FixtureInv, Visited
  <2>1. \A m \in Containers : Owned(m)' => m \in cleanupErrors'
    <3>1. \A i \in 1..left : FALSE
      BY <1>1
    <3>2. \A m \in Containers : Owned(m)' => m \in cleanupErrors
      BY <1>2, <1>4, <2>0, <3>1
    <3>3. QED
      BY <1>3, <3>2
  <2>2. "base tag" \in images' => "base tag" \in cleanupErrors'
    BY <1>1, <1>3 DEF FixtureInv, Visited
  <2>3. phase' = "ended" =>
            /\ "candidate" \in images' =>
                   "candidate" \in failedCalls' \ recorded'
            /\ report' = "passed" => cleanupErrors' = {}
            /\ ~files'
    BY <1>1, <1>3, <1>5
  <2>4. QED
    BY <1>1, <1>3, <2>1, <2>2, <2>3 DEF Visited
<1>11. QED
  BY <1>4, <1>6, <1>7, <1>8, <1>9, <1>10 DEF FixtureInv

LEMMA RemoveCandidateKeeps ==
    ASSUME FixtureInv, RemoveCandidate PROVE FixtureInv'
<1>1. /\ phase = "candidate" /\ phase' = "ended" /\ files' = FALSE
      /\ report' = IF cleanupErrors' = {} THEN report ELSE "failed"
      /\ \/ Remove("candidate", "candidate" \in images,
                   images' = images \ {"candidate"}, UNCHANGED images)
         \/ /\ cleanupErrors' = cleanupErrors \cup {"candidate"}
            /\ UNCHANGED images
            /\ NoFault
      /\ UNCHANGED <<drill, step, waiting, tracked, networkCreated, prepared,
                     runtimePasswords, recorded, left, engine, rolePassword>>
  BY DEF RemoveCandidate, End
<1>2. /\ TypeOK /\ cleanupErrors \subseteq Names \cup Images
      /\ "candidate" \in Names \cup Images
  BY DEF FixtureInv, TypeOK, Images
<1>3. /\ images' \in {images, images \ {"candidate"}}
      /\ cleanupErrors \subseteq cleanupErrors'
      /\ cleanupErrors' \subseteq Names \cup Images
      /\ "candidate" \in images' => "candidate" \in cleanupErrors'
  BY <1>1, <1>2 DEF Remove
<1>4. /\ faults' \in 0..MaxFaults
      /\ failedCalls' \subseteq Names \cup Images
      /\ failedCalls \subseteq failedCalls'
  <2>1. MayFault
    BY <1>1, <1>2 DEF Remove, MayFault
  <2>2. QED
    BY <1>2, <2>1, FaultTypes
<1>5. images' \subseteq images /\ report \in {"none", "passed", "failed"}
  BY <1>2, <1>3 DEF TypeOK
<1>6. TypeOK'
  BY <1>1, <1>2, <1>3, <1>4, <1>5 DEF TypeOK, Phases
<1>7. LabelsTell' /\ Once' /\ Fresh'
  BY <1>1 DEF FixtureInv, LabelsTell, Once, Fresh
<1>8. Remembered'
  BY <1>1, <1>4, <1>5 DEF FixtureInv, Remembered, Owned, Tracked
<1>9. Progress'
  <2>1. report # "none"
    BY <1>1 DEF FixtureInv, Progress
  <2>2. report' \in {report, "failed"}
    BY <1>1
  <2>3. QED
    BY <1>1, <2>1, <2>2 DEF FixtureInv, Progress, Working
<1>10. Visited'
  <2>1. /\ \A m \in Containers : Owned(m) =>
               m \in cleanupErrors \/ \E i \in 1..left : tracked[i] = m
        /\ "base tag" \in images => "base tag" \in cleanupErrors
        /\ left = 0
        /\ Owned(Network) => Network \in cleanupErrors
    BY <1>1 DEF FixtureInv, Visited
  <2>2. \A m : Owned(m)' <=> Owned(m)
    BY <1>1 DEF Owned
  <2>3. /\ \A m \in Containers : Owned(m)' =>
               m \in cleanupErrors' \/ \E i \in 1..left' : tracked'[i] = m
        /\ "base tag" \in images' => "base tag" \in cleanupErrors'
        /\ left' = 0
        /\ Owned(Network)' => Network \in cleanupErrors'
    BY <1>1, <1>3, <1>5, <2>1, <2>2
  <2>4. report' = "passed" => cleanupErrors' = {}
    BY <1>1
  <2>5. QED
    BY <1>1, <1>3, <2>3, <2>4 DEF Visited
<1>11. QED
  BY <1>6, <1>7, <1>8, <1>9, <1>10 DEF FixtureInv

-----------------------------------------------------------------------------
(* The invariant of the containers, and what follows from it.              *)

LEMMA InitFixtureInv == Init => FixtureInv
<1> SUFFICES ASSUME Init PROVE FixtureInv
  OBVIOUS
<1>1. PICK taken \in SUBSET ForeignNames :
          engine = [n \in Names |->
                      IF n \in taken
                      THEN [Absent(n) EXCEPT !.state = "running"]
                      ELSE Absent(n)]
  BY DEF Init
<1>2. /\ drill \in Drills /\ step = 1 /\ phase = "drill" /\ waiting = FALSE
      /\ tracked = <<>> /\ networkCreated = FALSE /\ prepared = {}
      /\ runtimePasswords = [d \in Databases |-> NoPassword]
      /\ recorded = {} /\ files = TRUE /\ left = 0 /\ cleanupErrors = {}
      /\ report = "none" /\ images = {}
      /\ rolePassword = [d \in Databases |-> NoPassword]
      /\ faults = 0 /\ failedCalls = {}
  BY DEF Init
<1>3. ASSUME NEW n \in Names
      PROVE  /\ engine[n] \in Resources
             /\ ~engine[n].ours
             /\ engine[n].password = NoPassword
             /\ ~engine[n].mounts
             /\ engine[n].state # "absent" =>
                    engine[n].state = "running" /\ n \in taken
  <2>1. Absent(n) \in Resources /\ Absent(n).state = "absent"
        /\ ~Absent(n).ours /\ Absent(n).password = NoPassword
        /\ ~Absent(n).mounts
    BY AbsentIsResource DEF Absent
  <2>2. CASE n \in taken
    <3>1. engine[n] = [Absent(n) EXCEPT !.state = "running"]
      BY <1>1, <2>2
    <3>2. QED
      BY <2>1, <2>2, <3>1 DEF Resources, States
  <2>3. CASE n \notin taken
    BY <1>1, <2>1, <2>3
  <2>4. QED
    BY <2>2, <2>3
<1>4. engine \in [Names -> Resources]
  BY <1>1, <1>3
<1>5. tracked \in Seq(Containers) /\ Len(tracked) = 0 /\ DOMAIN tracked = {}
  BY <1>2
<1>6. left \in 0..Len(tracked) /\ faults \in 0..MaxFaults
  BY <1>2, <1>5, FixtureAssumption
<1>7. TypeOK
  <2>1. /\ runtimePasswords \in [Databases -> Passwords \cup {NoPassword}]
        /\ rolePassword \in [Databases -> Passwords \cup {NoPassword}]
    BY <1>2
  <2>2. step \in Nat \ {0}
    BY <1>2
  <2>3. phase \in Phases /\ report \in {"none", "passed", "failed"}
    BY <1>2 DEF Phases
  <2>4. waiting \in BOOLEAN /\ networkCreated \in BOOLEAN /\ files \in BOOLEAN
    BY <1>2
  <2>5. QED
    BY <1>2, <1>4, <1>5, <1>6, <2>1, <2>2, <2>3, <2>4 DEF TypeOK
<1>8. Network \notin taken
  BY FixtureAssumption
<1>9. LabelsTell
  BY <1>3, <1>8 DEF LabelsTell
<1>10. Remembered
  BY <1>2, <1>3 DEF Remembered, Owned, Names
<1>11. Once /\ Fresh /\ Progress /\ Visited
  BY <1>2, <1>5 DEF Once, Fresh, Progress, Visited, Working
<1>12. QED
  BY <1>7, <1>9, <1>10, <1>11 DEF FixtureInv

LEMMA StutterKeeps ==
    ASSUME FixtureInv, UNCHANGED vars PROVE FixtureInv'
<1>1. UNCHANGED <<drill, step, phase, waiting, tracked, networkCreated,
                  prepared, runtimePasswords, recorded, files, left,
                  cleanupErrors, report, engine, images, rolePassword,
                  faults, failedCalls>>
  BY DEF vars, control, fixture, cleaning, docker
<1>2. TypeOK' /\ LabelsTell' /\ Once' /\ Fresh'
  BY <1>1 DEF FixtureInv, TypeOK, LabelsTell, Once, Fresh
<1>3. Remembered'
  BY <1>1 DEF FixtureInv, Remembered, Owned, Tracked
<1>4. Progress'
  BY <1>1 DEF FixtureInv, Progress, Current
<1>5. Visited'
  BY <1>1 DEF FixtureInv, Visited, Owned
<1>6. QED
  BY <1>2, <1>3, <1>4, <1>5 DEF FixtureInv

LEMMA NextFixtureInv == FixtureInv /\ [Next]_vars => FixtureInv'
<1> SUFFICES ASSUME FixtureInv, [Next]_vars PROVE FixtureInv'
  OBVIOUS
<1>1. CASE UNCHANGED vars
  BY <1>1, StutterKeeps
<1>2. CASE Next
  <2>1. TypeOK
    BY DEF FixtureInv
  <2>2. QED
    BY <1>2, <2>1, NextIsOneOf, DrillStepKeeps, EndJobKeeps, FixtureFailsKeeps,
       CompleteKeeps, RemoveBaseTagKeeps, RemoveContainerKeeps,
       RemoveNetworkKeeps, RemoveCandidateKeeps, JobEndsKeeps, DiesKeeps
<1>3. QED
  BY <1>1, <1>2

\* In every reachable state of every drill the labels tell the drill's
\* containers from others', what is the drill's is remembered, and the cleanup
\* has reported what it passed and did not remove (class Fixture,
\* recovery-drill.py:99-265, and the main() of the drills).
THEOREM FixtureInvariant == Spec => []FixtureInv
<1>1. Init => FixtureInv
  BY InitFixtureInv
<1>2. FixtureInv /\ [Next]_vars => FixtureInv'
  BY NextFixtureInv
<1>3. QED
  BY <1>1, <1>2, PTL DEF Spec

\* The state of the drills has its types (recovery-drill.py:99-108).
THEOREM FixtureTypes == Spec => []TypeOK
<1>1. FixtureInv => TypeOK
  BY DEF FixtureInv
<1>2. QED
  BY <1>1, FixtureInvariant, PTL

\* However a drill ends, what it leaves behind on the machine is named by its
\* report, which then does not say passed (recovery-drill.py:227-265;
\* rollback-drill.py:302-331).
THEOREM NothingIsLeft == Spec => []NothingIsLeftUnreported
<1>1. FixtureInv => NothingIsLeftUnreported
  <2> SUFFICES ASSUME FixtureInv, phase = "ended"
               PROVE  /\ \A n \in Names : Owned(n) => n \in cleanupErrors
                      /\ "base tag" \in images => "base tag" \in cleanupErrors
                      /\ "candidate" \in images =>
                             \/ "candidate" \in cleanupErrors
                             \/ "candidate" \in failedCalls \ recorded
                      /\ report = "passed" =>
                             /\ step = Len(Script[drill]) + 1
                             /\ \A n \in Names : ~Owned(n)
                             /\ images = {}
                             /\ ~files
    BY DEF NothingIsLeftUnreported, Reported
  <2>1. left = 0 /\ Visited /\ Progress /\ Remembered
    BY DEF FixtureInv, Visited
  <2>2. \A i \in 1..left : FALSE
    BY <2>1
  <2>3. \A n \in Names : Owned(n) => n \in cleanupErrors
    BY <2>1, <2>2 DEF Visited, Names
  <2>4. /\ "base tag" \in images => "base tag" \in cleanupErrors
        /\ "candidate" \in images =>
               \/ "candidate" \in cleanupErrors
               \/ "candidate" \in failedCalls \ recorded
    BY <2>1 DEF Visited
  <2>5. CASE report = "passed"
    <3>1. cleanupErrors = {} /\ ~files /\ step = Len(Script[drill]) + 1
      BY <2>1, <2>5 DEF Visited, Progress
    <3>2. "base tag" \notin images /\ "candidate" \notin images
      BY <2>1, <2>4, <2>5, <3>1 DEF Remembered
    <3>3. images = {}
      BY <3>2 DEF FixtureInv, TypeOK, Images
    <3>4. QED
      BY <2>3, <2>4, <3>1, <3>3
  <2>6. QED
    BY <2>3, <2>4, <2>5
<1>2. QED
  BY <1>1, FixtureInvariant, PTL

\* No step of a drill, of its cleanup or of Docker touches what somebody else
\* has under a name the drill asked for (recovery-drill.py:115-124, 250-256).
THEOREM OthersAreLeft == Spec => OthersAreLeftAlone
<1>1. ASSUME FixtureInv, [Next]_vars,
             NEW n \in Names, engine[n].state # "absent", ~engine[n].ours
      PROVE  engine'[n] = engine[n]
  <2>1. TypeOK /\ LabelsTell /\ ~Owned(n) /\ engine \in [Names -> Resources]
    BY <1>1 DEF FixtureInv, Owned, TypeOK
  <2>2. n # Network /\ engine[n].state = "running"
    BY <1>1, <2>1 DEF LabelsTell
  <2>3. CASE DrillStep
    <3>1. step \in DOMAIN Script[drill] /\ StepOnContainers
      BY <2>3 DEF DrillStep
    <3>2. CASE CreatesNetwork
      BY <2>1, <2>2, <3>2, NetworkEffect
    <3>3. CASE StartsContainer
      BY <1>1, <2>1, <3>1, <3>3, StartEffect
    <3>4. CASE ChangesContainer
      BY <1>1, <2>1, <3>1, <3>4, ChangeEffect
    <3>5. QED
      BY <3>1, <3>2, <3>3, <3>4 DEF StepOnContainers, LeavesContainers
  <2>4. CASE RemoveContainer
    <3>1. engine' # engine => Owned(tracked[left])
      BY <1>1, <2>4, RemoveContainerEffect
    <3>2. engine' \in {engine,
                       [engine EXCEPT ![tracked[left]] = Absent(tracked[left])]}
      BY <1>1, <2>4, RemoveContainerEffect
    <3>3. tracked[left] \in Names
      BY <1>1, <2>4, RemoveContainerEffect
    <3>4. QED
      BY <2>1, <3>1, <3>2, <3>3
  <2>5. CASE RemoveNetwork
    <3>1. engine' = engine
          \/ engine' = [engine EXCEPT ![Network] = Absent(Network)]
      BY <2>5 DEF RemoveNetwork, Remove
    <3>2. QED
      BY <2>1, <2>2, <3>1
  <2>6. CASE \E m \in Containers : JobEnds(m) \/ Dies(m)
    <3>1. PICK m \in Containers : JobEnds(m) \/ Dies(m)
      BY <2>6
    <3>2. PICK state \in States : Set(m, state)
      BY <3>1 DEF JobEnds, Dies, States
    <3>3. m \in Names
      BY DEF Names
    <3>4. m # n
      BY <1>1, <2>2, <3>1 DEF JobEnds, Dies, Answers
    <3>5. QED
      BY <2>1, <3>2, <3>3, <3>4, StateSet
  <2>7. CASE UNCHANGED engine
    BY <2>7
  <2>8. EndJob \/ FixtureFails \/ Complete \/ RemoveBaseTag \/ RemoveCandidate
        \/ UNCHANGED vars => UNCHANGED engine
    BY DEF EndJob, FixtureFails, Complete, RemoveBaseTag, RemoveCandidate,
           vars, docker
  <2>9. QED
    BY <1>1, <2>1, <2>3, <2>4, <2>5, <2>6, <2>7, <2>8, NextIsOneOf
<1>2. FixtureInv /\ [Next]_vars =>
          \A n \in Names :
              engine[n].state # "absent" /\ ~engine[n].ours
                  => engine'[n] = engine[n]
  BY <1>1
<1>3. FixtureInv /\ [Next]_vars =>
          [\A n \in Names :
              engine[n].state # "absent" /\ ~engine[n].ours
                  => engine'[n] = engine[n]]_vars
  BY <1>2
<1>4. QED
  BY <1>3, FixtureInvariant, PTL DEF Spec, OthersAreLeftAlone

-----------------------------------------------------------------------------
(* The jobs, and the passwords of the databases.                           *)

\* A drill that goes on has taken a step, or waits for the job it started.
LEMMA DrillGoesOn ==
    ASSUME FixtureInv, DrillStep, phase' = "drill"
    PROVE  /\ phase = "drill"
           /\ UNCHANGED <<drill, cleanupErrors>>
           /\ ~Raise
           /\ \/ Proceed /\ step' = step + 1 /\ waiting' = FALSE
              \/ /\ StartWaiting /\ waiting' = TRUE /\ step' = step
                 /\ Current.op \in JobOps
                 /\ StartsContainer
                 /\ engine' = [engine EXCEPT ![Current.name] =
                        Container(Current, "working", GivenPassword)]
                 /\ Current.op = "migrate" => Owned(Current.db)
<1>1. /\ TypeOK /\ Progress /\ step \in DOMAIN Script[drill]
      /\ phase \in {"drill", "finally"}
  BY DEF FixtureInv, DrillStep, Working
<1>2. ~Raise
  BY DEF Raise, BeginCleanup
<1>3. Proceed => phase = "drill" /\ step' = step + 1 /\ waiting' = FALSE
                 /\ UNCHANGED <<drill, cleanupErrors>>
  BY <1>1 DEF Proceed, BeginCleanup
<1>4. StartWaiting => phase = "drill" /\ waiting' = TRUE /\ step' = step
                      /\ UNCHANGED <<drill, cleanupErrors>>
  <2>1. phase = "finally" => phase' # phase
    OBVIOUS
  <2>2. QED
    BY <1>1, <2>1 DEF StartWaiting
<1>5. CASE ~Proceed
  <2>1. StartsContainer
    BY <1>2, <1>5 DEF DrillStep, StepOnContainers, CreatesNetwork,
                      ChangesContainer, LeavesContainers
  <2>2. /\ engine' = [engine EXCEPT ![Current.name] =
                        Container(Current, Started(Current), GivenPassword)]
        /\ Current.op \in JobOps /\ StartWaiting
        /\ Current.op = "migrate" => Owned(Current.db)
    BY <1>2, <1>5, <2>1 DEF StartsContainer
  <2>3. Started(Current) = "working"
    BY <2>2 DEF Started, JobOps
  <2>4. QED
    BY <1>2, <1>4, <2>1, <2>2, <2>3
<1>6. QED
  BY <1>2, <1>3, <1>5

LEMMA NoJobStarts ==
    ASSUME FixtureInv, DrillStep, Proceed,
           phase' = "drill", NEW n \in Containers, engine[n].state # "working"
    PROVE  engine'[n].state # "working"
<1>1. /\ TypeOK /\ step \in DOMAIN Script[drill] /\ StepOnContainers
      /\ n \in Names /\ n # Network /\ engine \in [Names -> Resources]
  BY FixtureAssumption DEF FixtureInv, DrillStep, TypeOK, Names
<1>2. ~Raise /\ ~StartWaiting
  <2>1. ~Raise /\ waiting' = FALSE
    BY DrillGoesOn DEF Proceed, BeginCleanup
  <2>2. QED
    BY <2>1 DEF StartWaiting
<1>3. CASE CreatesNetwork
  BY <1>1, <1>3, NetworkEffect
<1>4. CASE StartsContainer
  <2>1. /\ Current.op \notin JobOps
        /\ engine' = [engine EXCEPT ![Current.name] =
                        Container(Current, Started(Current), GivenPassword)]
    BY <1>2, <1>4 DEF StartsContainer
  <2>2. Started(Current) = "running"
    BY <2>1 DEF Started, JobOps
  <2>3. CASE n = Current.name
    BY <1>1, <2>1, <2>2, <2>3 DEF Container
  <2>4. CASE n # Current.name
    BY <1>1, <2>1, <2>4
  <2>5. QED
    BY <2>3, <2>4
<1>5. CASE ChangesContainer
  BY <1>1, <1>5, ChangeEffect
<1>6. QED
  BY <1>1, <1>3, <1>4, <1>5 DEF StepOnContainers, LeavesContainers

LEMMA DrillStepJobs ==
    ASSUME FixtureInv, JobInv, DrillStep PROVE JobInv'
<1> SUFFICES ASSUME phase' = "drill" PROVE JobInv'
  BY DEF JobInv, JobsAtWork, PreparedDatabasesAcceptTheirPassword
<1>1. /\ phase = "drill" /\ ~waiting /\ step \in DOMAIN Script[drill]
      /\ StepOnPasswords /\ TypeOK /\ engine \in [Names -> Resources]
      /\ drill' = drill
  BY DrillGoesOn DEF FixtureInv, DrillStep, TypeOK
<1>2. \A n \in Containers : engine[n].state # "working"
  BY <1>1 DEF JobInv, JobsAtWork
<1>3. PreparedDatabasesAcceptTheirPassword'
  <2>1. /\ UNCHANGED <<runtimePasswords, rolePassword>>
        /\ prepared' \subseteq prepared
    BY <1>1 DEF StepOnPasswords
  <2>2. QED
    BY <1>1, <2>1 DEF JobInv, PreparedDatabasesAcceptTheirPassword
<1>4. CASE Proceed
  <2>1. \A n \in Containers : engine'[n].state # "working"
    BY <1>2, <1>4, NoJobStarts
  <2>2. waiting' = FALSE
    BY <1>1, <1>4 DEF Proceed
  <2>3. QED
    BY <1>3, <2>1, <2>2 DEF JobInv, JobsAtWork
<1>5. CASE /\ StartWaiting /\ waiting' = TRUE /\ step' = step
           /\ Current.op \in JobOps
           /\ engine' = [engine EXCEPT ![Current.name] =
                  Container(Current, "working", GivenPassword)]
  <2>1. /\ Current' = Current
        /\ runtimePasswords' = runtimePasswords
    BY <1>1, <1>5 DEF Current, StepOnPasswords
  <2>2. GivenPassword' = GivenPassword
    BY <2>1 DEF GivenPassword
  <2>3. Current.name \in Names /\ Containers \subseteq Names
    BY <1>1, CurrentTypes DEF Names
  <2>4. /\ engine'[Current.name] =
               Container(Current, "working", GivenPassword)
        /\ \A n \in Containers : n # Current.name => engine'[n] = engine[n]
    BY <1>1, <1>5, <2>3
  <2>5. /\ engine'[Current.name].state = "working"
        /\ engine'[Current.name].db = Current.db
        /\ engine'[Current.name].password = GivenPassword
    BY <2>4 DEF Container
  <2>6. \A n \in Containers : engine'[n].state = "working" => n = Current.name
    BY <1>2, <2>4
  <2>7. Current.op = "migrate" => Current.db \notin prepared'
    BY <1>1, <1>5 DEF StepOnPasswords
  <2>8. JobsAtWork'
    BY <1>5, <2>1, <2>2, <2>5, <2>6, <2>7 DEF JobsAtWork
  <2>9. QED
    BY <1>3, <2>8 DEF JobInv
<1>6. QED
  BY <1>4, <1>5, DrillGoesOn

LEMMA EndJobGoesOn ==
    ASSUME FixtureInv, EndJob, phase' = "drill"
    PROVE  /\ phase = "drill" /\ step \in DOMAIN Script[drill]
           /\ Current.op \in JobOps
           /\ drill' = drill /\ step' = step + 1 /\ waiting' = FALSE
           /\ engine[Current.name].state = "exited"
           /\ IF Current.op = "migrate" THEN Register
              ELSE UNCHANGED <<prepared, runtimePasswords>>
           /\ UNCHANGED <<tracked, engine, rolePassword, failedCalls>>
<1>1. ~Raise
  BY DEF Raise, BeginCleanup
<1>2. /\ Proceed /\ NoFault /\ waiting
      /\ engine[Current.name].state = "exited"
      /\ IF Current.op = "migrate" THEN Register
         ELSE UNCHANGED <<prepared, runtimePasswords>>
      /\ UNCHANGED <<tracked, engine, rolePassword>>
  BY <1>1 DEF EndJob, docker
<1>3. phase = "drill" /\ drill' = drill /\ step' = step + 1 /\ waiting' = FALSE
  BY <1>2 DEF Proceed, BeginCleanup
<1>4. QED
  BY <1>2, <1>3 DEF FixtureInv, Progress, NoFault

LEMMA EndJobJobs ==
    ASSUME FixtureInv, JobInv, EndJob PROVE JobInv'
<1> SUFFICES ASSUME phase' = "drill" PROVE JobInv'
  BY DEF JobInv, JobsAtWork, PreparedDatabasesAcceptTheirPassword
<1>1. /\ phase = "drill" /\ step \in DOMAIN Script[drill] /\ waiting
      /\ waiting' = FALSE
      /\ engine[Current.name].state = "exited"
      /\ IF Current.op = "migrate" THEN Register
         ELSE UNCHANGED <<prepared, runtimePasswords>>
      /\ UNCHANGED <<engine, rolePassword>>
  BY EndJobGoesOn DEF EndJob
<1>2. JobsAtWork'
  <2>1. \A n \in Containers : engine'[n].state # "working"
    BY <1>1 DEF JobInv, JobsAtWork
  <2>2. QED
    BY <1>1, <2>1 DEF JobsAtWork
<1>3. CASE Current.op = "migrate"
  <2>1. /\ runtimePasswords' = [runtimePasswords EXCEPT
                                  ![Current.db] = Current.password]
        /\ prepared' = prepared \cup {Current.db}
        /\ rolePassword[Current.db] = Current.password
        /\ \A d \in prepared : rolePassword[d] = runtimePasswords[d]
    BY <1>1, <1>3 DEF JobInv, JobsAtWork, Register,
                      PreparedDatabasesAcceptTheirPassword
  <2>2. Current.db \in Databases /\ prepared \subseteq Databases
        /\ runtimePasswords \in [Databases -> Passwords \cup {NoPassword}]
    BY <1>1, CurrentTypes DEF FixtureInv, TypeOK
  <2>3. \A d \in prepared' : rolePassword'[d] = runtimePasswords'[d]
    BY <1>1, <2>1, <2>2
  <2>4. QED
    BY <1>2, <2>3 DEF JobInv, PreparedDatabasesAcceptTheirPassword
<1>4. CASE Current.op # "migrate"
  BY <1>1, <1>2, <1>4 DEF JobInv, PreparedDatabasesAcceptTheirPassword
<1>5. QED
  BY <1>3, <1>4

LEMMA JobEndsJobs ==
    ASSUME FixtureInv, JobInv, NEW n \in Containers, JobEnds(n) PROVE JobInv'
<1>1. /\ UNCHANGED <<drill, step, phase, waiting, prepared, runtimePasswords>>
      /\ engine[n].state = "working"
  BY DEF JobEnds, control, fixture
<1> SUFFICES ASSUME phase = "drill" PROVE JobInv'
  BY <1>1 DEF JobInv, JobsAtWork, PreparedDatabasesAcceptTheirPassword
<1>2. PICK state \in {"exited", "failed"}, commits \in BOOLEAN :
          /\ state = "exited" => commits
          /\ Set(n, state)
          /\ rolePassword' = IF commits /\ engine[n].password # NoPassword
                             THEN [rolePassword EXCEPT
                                      ![engine[n].db] = engine[n].password]
                             ELSE rolePassword
  BY DEF JobEnds
<1>3. /\ waiting /\ n = Current.name
      /\ engine[n].db = Current.db
      /\ engine[n].password = GivenPassword
      /\ Current.op = "migrate" => Current.db \notin prepared
  BY <1>1 DEF JobInv, JobsAtWork
<1>4. /\ step \in DOMAIN Script[drill] /\ Current.op \in JobOps /\ TypeOK
      /\ n \in Names /\ state \in States /\ Containers \subseteq Names
  BY <1>3 DEF FixtureInv, Progress, Names, States
<1>5. /\ engine'[n].state = state
      /\ engine'[n].db = engine[n].db
      /\ engine'[n].password = engine[n].password
      /\ \A m \in Names : m # n => engine'[m] = engine[m]
  BY <1>2, <1>4, StateSet
<1>6. Current' = Current /\ GivenPassword' = GivenPassword
  BY <1>1 DEF Current, GivenPassword
<1>7. Current.db \in Databases
      /\ rolePassword \in [Databases -> Passwords \cup {NoPassword}]
      /\ prepared \subseteq Databases
  BY <1>4, CurrentTypes DEF TypeOK
<1>8. Current.op = "migrate" =>
          GivenPassword = Current.password /\ GivenPassword # NoPassword
  <2>1. drill \in Drills
    BY <1>4 DEF TypeOK
  <2>2. Current.op = "migrate" => Current.password # NoPassword
    BY <1>4, <2>1, ScriptAssumption DEF Current
  <2>3. QED
    BY <2>2 DEF GivenPassword
<1>9. JobsAtWork'
  <2>1. \A m \in Containers : engine'[m].state = "working" => FALSE
    <3>1. \A m \in Containers : engine[m].state = "working" => m = Current.name
      BY DEF JobInv, JobsAtWork
    <3>2. QED
      BY <1>2, <1>3, <1>4, <1>5, <3>1
  <2>2. /\ engine'[Current.name].state \in {"working", "exited", "failed"}
        /\ engine'[Current.name].db = Current.db
        /\ engine'[Current.name].password = GivenPassword
    BY <1>2, <1>3, <1>5
  <2>3. Current.op = "migrate" /\ engine'[Current.name].state = "exited" =>
            rolePassword'[Current.db] = Current.password
    BY <1>2, <1>3, <1>5, <1>7, <1>8
  <2>4. QED
    BY <1>1, <1>3, <1>6, <2>1, <2>2, <2>3 DEF JobsAtWork
<1>10. ASSUME NEW d \in prepared' PROVE rolePassword'[d] = runtimePasswords'[d]
  <2>1. d \in prepared /\ rolePassword[d] = runtimePasswords[d]
        /\ d \in Databases
    BY <1>1, <1>7, <1>10 DEF JobInv, PreparedDatabasesAcceptTheirPassword
  <2>2. CASE rolePassword' = rolePassword
    BY <1>1, <2>1, <2>2
  <2>3. CASE /\ GivenPassword # NoPassword
             /\ rolePassword' = [rolePassword EXCEPT
                                    ![Current.db] = GivenPassword]
    <3>1. CASE d # Current.db
      BY <1>1, <1>7, <2>1, <2>3, <3>1
    <3>2. CASE d = Current.db
      <4>1. Current.op = "candidate migration"
        BY <1>3, <1>4, <2>1, <2>3, <3>2 DEF JobOps, GivenPassword
      <4>2. GivenPassword = runtimePasswords[d]
        BY <3>2, <4>1 DEF GivenPassword
      <4>3. QED
        BY <1>1, <1>7, <2>3, <3>2, <4>2
    <3>3. QED
      BY <3>1, <3>2
  <2>4. QED
    BY <1>2, <1>3, <2>2, <2>3
<1>11. QED
  BY <1>9, <1>10 DEF JobInv, PreparedDatabasesAcceptTheirPassword

LEMMA DiesJobs ==
    ASSUME FixtureInv, JobInv, NEW n \in Containers, Dies(n) PROVE JobInv'
<1>1. /\ UNCHANGED <<drill, step, phase, waiting, prepared, runtimePasswords,
                     rolePassword>>
      /\ engine[n].state = "running" /\ Set(n, "failed")
  BY DEF Dies, Answers, control, fixture
<1>2. /\ TypeOK /\ n \in Names /\ "failed" \in States
      /\ Containers \subseteq Names
  BY DEF FixtureInv, Names, States
<1>3. /\ engine'[n].state = "failed"
      /\ \A m \in Names : m # n => engine'[m] = engine[m]
  BY <1>1, <1>2, StateSet
<1>4. Current' = Current /\ GivenPassword' = GivenPassword
  BY <1>1 DEF Current, GivenPassword
<1>5. PreparedDatabasesAcceptTheirPassword'
  BY <1>1 DEF JobInv, PreparedDatabasesAcceptTheirPassword
<1>6. ASSUME phase = "drill", waiting
      PROVE  engine'[Current.name] = engine[Current.name]
  <2>1. Current.name \in Names
    BY <1>2, <1>6, CurrentTypes DEF FixtureInv, Progress
  <2>2. engine[Current.name].state # "running"
    BY <1>6 DEF JobInv, JobsAtWork
  <2>3. QED
    BY <1>1, <1>3, <2>1, <2>2
<1>7. \A m \in Containers :
          engine'[m].state = "working" => engine[m].state = "working"
  BY <1>2, <1>3
<1>8. JobsAtWork'
  BY <1>1, <1>4, <1>6, <1>7 DEF JobInv, JobsAtWork
<1>9. QED
  BY <1>5, <1>8 DEF JobInv

LEMMA NextJobInv == FixtureInv /\ JobInv /\ [Next]_vars => JobInv'
<1> SUFFICES ASSUME FixtureInv, JobInv, [Next]_vars PROVE JobInv'
  OBVIOUS
<1>1. CASE UNCHANGED vars
  <2>1. UNCHANGED <<drill, step, phase, waiting, prepared, runtimePasswords,
                    engine, rolePassword>>
    BY <1>1 DEF vars, control, fixture, docker
  <2>2. Current' = Current /\ GivenPassword' = GivenPassword
    BY <2>1 DEF Current, GivenPassword
  <2>3. QED
    BY <2>1, <2>2 DEF JobInv, JobsAtWork, PreparedDatabasesAcceptTheirPassword
<1>2. CASE phase' # "drill"
  BY <1>2 DEF JobInv, JobsAtWork, PreparedDatabasesAcceptTheirPassword
<1>3. FixtureFails \/ Complete \/ RemoveBaseTag \/ RemoveContainer
      \/ RemoveNetwork \/ RemoveCandidate => phase' # "drill"
  BY DEF FixtureFails, Complete, BeginCleanup, RemoveBaseTag,
         RemoveContainer, control, RemoveNetwork, RemoveCandidate, End
<1>4. TypeOK
  BY DEF FixtureInv
<1>5. QED
  BY <1>1, <1>2, <1>3, <1>4, NextIsOneOf, DrillStepJobs, EndJobJobs,
     JobEndsJobs, DiesJobs

\* While a drill goes on, a database it counts as prepared accepts the password
\* registered for it, whatever a job does on its own (recovery-drill.py:164,
\* 187-188).
THEOREM PreparedAccept == Spec => []PreparedDatabasesAcceptTheirPassword
<1>1. Init => JobInv
  <2> SUFFICES ASSUME Init PROVE JobInv
    OBVIOUS
  <2>1. \A n \in Containers : engine[n].state # "working"
    <3>1. \A n \in Names : Absent(n).state = "absent"
      BY DEF Absent
    <3>2. \A n \in Names : engine[n].state \in {"running", "absent"}
      BY <3>1 DEF Init, Absent
    <3>3. QED
      BY <3>2 DEF Names
  <2>2. ~waiting /\ prepared = {}
    BY DEF Init
  <2>3. QED
    BY <2>1, <2>2 DEF JobInv, JobsAtWork, PreparedDatabasesAcceptTheirPassword
<1>2. FixtureInv /\ JobInv /\ [Next]_vars => JobInv'
  BY NextJobInv
<1>3. JobInv => PreparedDatabasesAcceptTheirPassword
  BY DEF JobInv
<1>4. QED
  BY <1>1, <1>2, <1>3, FixtureInvariant, PTL DEF Spec

-----------------------------------------------------------------------------
(* The outages.                                                            *)

LEMMA OwnPauses ==
    ASSUME FixtureInv, NEW n \in Containers, engine[n].state = "paused"
    PROVE  Owned(n) /\ Tracked(n)
BY DEF FixtureInv, LabelsTell, Remembered, Owned, Names

\* The unpause that is ahead of a drill in an outage, and the try block.
LEMMA OutageAhead ==
    ASSUME FixtureInv, NEW n, NEW i \in DOMAIN Script[drill],
           Script[drill][i].op = "pause", Script[drill][i].name = n
    PROVE  /\ Finally[drill] \in DOMAIN Script[drill]
           /\ Script[drill][Finally[drill]].op \in Unpauses
           /\ Script[drill][Finally[drill]].name = n
           /\ i \in Nat /\ Finally[drill] \in Nat /\ step \in Nat
           /\ i < Finally[drill]
           /\ i < step /\ step < Finally[drill] => step \in Try[drill]
           /\ Finally[drill] <= Len(Script[drill])
           /\ Len(Script[drill]) \in Nat
           /\ 1 <= i
<1>1. drill \in Drills /\ step \in Nat
  BY DEF FixtureInv, TypeOK
<1>2. Script[drill] \in Seq(Steps)
  BY <1>1, FixtureAssumption
<1>3. DOMAIN Script[drill] = 1..Len(Script[drill]) /\ Len(Script[drill]) \in Nat
  BY <1>2
<1>4. /\ Finally[drill] \in DOMAIN Script[drill] /\ i < Finally[drill]
      /\ (i + 1)..(Finally[drill] - 1) \subseteq Try[drill]
      /\ Script[drill][Finally[drill]].op \in {"unpause", "unpause if paused"}
      /\ Script[drill][Finally[drill]].name = Script[drill][i].name
  BY <1>1, ScriptAssumption
<1>5. i \in 1..Len(Script[drill]) /\ Finally[drill] \in 1..Len(Script[drill])
  BY <1>3, <1>4
<1>6. ASSUME i < step, step < Finally[drill] PROVE step \in Try[drill]
  <2>1. step \in (i + 1)..(Finally[drill] - 1)
    BY <1>1, <1>3, <1>5, <1>6
  <2>2. QED
    BY <1>4, <2>1
<1>7. /\ i \in Nat /\ Finally[drill] \in Nat /\ 1 <= i
      /\ Finally[drill] <= Len(Script[drill])
  BY <1>3, <1>5
<1>8. QED
  BY <1>1, <1>3, <1>4, <1>6, <1>7 DEF Unpauses

Ahead(n) ==
    /\ phase = "drill"
    /\ \E i \in DOMAIN Script[drill] :
           /\ Script[drill][i].op = "pause"
           /\ Script[drill][i].name = n
           /\ i < step /\ step <= Finally[drill]

AtHand(n) ==
    /\ phase = "finally"
    /\ Finally[drill] \in DOMAIN Script[drill]
    /\ Script[drill][Finally[drill]].op \in Unpauses
    /\ Script[drill][Finally[drill]].name = n

LEMMA PausesAhead ==
    PausesEnd <=> \A n \in Containers :
                      engine[n].state = "paused" =>
                          n \in failedCalls \/ Ahead(n) \/ AtHand(n)
BY DEF PausesEnd, Ahead, AtHand

\* From a step between the pause and its unpause both are still ahead.
LEMMA AheadMoves ==
    ASSUME FixtureInv, NEW n, Ahead(n), step # Finally[drill],
           \/ Raise \/ Proceed
           \/ StartWaiting
    PROVE  (Ahead(n) \/ AtHand(n))'
<1>1. PICK i \in DOMAIN Script[drill] :
          /\ Script[drill][i].op = "pause"
          /\ Script[drill][i].name = n
          /\ i < step /\ step <= Finally[drill]
  BY DEF Ahead
<1>2. /\ Finally[drill] \in DOMAIN Script[drill]
      /\ Script[drill][Finally[drill]].op \in Unpauses
      /\ Script[drill][Finally[drill]].name = n
      /\ i \in Nat /\ Finally[drill] \in Nat /\ step \in Nat
      /\ i < step /\ step < Finally[drill] => step \in Try[drill]
  BY <1>1, OutageAhead
<1>3. step < Finally[drill] /\ step \in Try[drill] /\ phase = "drill"
  BY <1>1, <1>2 DEF Ahead
<1>4. CASE Raise
  <2>1. phase' = "finally" /\ drill' = drill
    BY <1>3, <1>4 DEF Raise
  <2>2. QED
    BY <1>2, <2>1 DEF AtHand
<1>5. CASE Proceed
  <2>1. phase' = "drill" /\ drill' = drill /\ step' = step + 1
    BY <1>3, <1>5 DEF Proceed
  <2>2. i < step' /\ step' <= Finally[drill]
    BY <1>1, <1>2, <1>3, <2>1
  <2>3. QED
    BY <1>1, <2>1, <2>2 DEF Ahead
<1>6. CASE StartWaiting
  BY <1>1, <1>3, <1>6 DEF StartWaiting, Ahead
<1>7. QED
  BY <1>4, <1>5, <1>6

\* Where the drill is in an outage it is at the unpause, or before it.
LEMMA AtTheUnpause ==
    ASSUME FixtureInv, NEW n,
           \/ Ahead(n) /\ step = Finally[drill]
           \/ AtHand(n)
    PROVE  Current.op \in Unpauses /\ Current.name = n
<1>1. step = Finally[drill]
  BY DEF FixtureInv, Progress, AtHand
<1>2. /\ Script[drill][Finally[drill]].op \in Unpauses
      /\ Script[drill][Finally[drill]].name = n
  BY OutageAhead DEF Ahead, AtHand
<1>3. QED
  BY <1>1, <1>2 DEF Current

LEMMA DrillStepPauses ==
    ASSUME FixtureInv, PausesEnd, DrillStep PROVE PausesEnd'
<1> SUFFICES ASSUME NEW n \in Containers, engine'[n].state = "paused"
             PROVE  (n \in failedCalls \/ Ahead(n) \/ AtHand(n))'
  BY DEF PausesEnd, Ahead, AtHand
<1>1. /\ TypeOK /\ step \in DOMAIN Script[drill] /\ StepOnContainers
      /\ n \in Names /\ n # Network /\ failedCalls \subseteq failedCalls'
      /\ engine \in [Names -> Resources]
  BY FaultTypes, FixtureAssumption DEF FixtureInv, DrillStep, TypeOK, Names
<1>2. \/ engine[n].state = "paused"
      \/ ChangesContainer /\ n = Current.name /\ Current.op = "pause"
  <2>1. CASE CreatesNetwork
    BY <1>1, <2>1, NetworkEffect
  <2>2. CASE StartsContainer
    BY <1>1, <2>2, StartEffect
  <2>3. CASE ChangesContainer
    BY <1>1, <2>3, ChangeEffect
  <2>4. QED
    BY <1>1, <2>1, <2>2, <2>3 DEF StepOnContainers, LeavesContainers
<1>3. Raise \/ Proceed \/ StartWaiting
  BY <1>1 DEF StepOnContainers, CreatesNetwork, StartsContainer,
              ChangesContainer, LeavesContainers
<1>4. CASE ChangesContainer /\ n = Current.name /\ Current.op = "pause"
  <2>1. Proceed \/ (Raise /\ n \in failedCalls')
    BY <1>4 DEF ChangesContainer, Fault
  <2>2. /\ Script[drill][step].op = "pause" /\ Script[drill][step].name = n
    BY <1>4 DEF Current
  <2>3. /\ step \in Nat /\ Finally[drill] \in Nat /\ step < Finally[drill]
    BY <1>1, <2>2, OutageAhead
  <2>4. phase # "finally"
    BY <2>3 DEF FixtureInv, Progress
  <2>5. CASE Proceed
    <3>1. phase' = "drill" /\ drill' = drill /\ step' = step + 1
      BY <2>4, <2>5 DEF Proceed, DrillStep, Working
    <3>2. step < step' /\ step' <= Finally[drill]
      BY <2>3, <3>1
    <3>3. QED
      BY <1>1, <2>2, <3>1, <3>2 DEF Ahead
  <2>6. QED
    BY <2>1, <2>5
<1>5. CASE engine[n].state = "paused"
  <2>1. n \in failedCalls \/ Ahead(n) \/ AtHand(n)
    BY <1>5, PausesAhead
  <2>2. CASE n \in failedCalls
    BY <1>1, <2>2
  <2>3. CASE Ahead(n) /\ step # Finally[drill]
    BY <1>3, <2>3, AheadMoves
  <2>4. CASE (Ahead(n) /\ step = Finally[drill]) \/ AtHand(n)
    <3>1. Current.op \in Unpauses /\ Current.name = n
      BY <2>4, AtTheUnpause
    <3>2. Refused(n)
      BY <3>1 DEF DrillStep
    <3>3. Fault(n)
      BY <1>5, <3>2, OwnPauses DEF Refused
    <3>4. QED
      BY <3>3 DEF Fault
  <2>5. QED
    BY <2>1, <2>2, <2>3, <2>4
<1>6. QED
  BY <1>2, <1>4, <1>5

LEMMA EndJobPauses ==
    ASSUME FixtureInv, PausesEnd, EndJob PROVE PausesEnd'
<1> SUFFICES ASSUME NEW n \in Containers, engine'[n].state = "paused"
             PROVE  (n \in failedCalls \/ Ahead(n) \/ AtHand(n))'
  BY DEF PausesEnd, Ahead, AtHand
<1>1. /\ engine[n].state = "paused"
      /\ Raise \/ Proceed
      /\ Current.op \in JobOps
      /\ failedCalls \subseteq failedCalls'
  BY DEF EndJob, docker, FixtureInv, Progress, NoFault, Fault
<1>2. n \in failedCalls \/ Ahead(n) \/ AtHand(n)
  BY <1>1, PausesAhead
<1>3. ~(Ahead(n) /\ step = Finally[drill]) /\ ~AtHand(n)
  <2>1. Current.op \notin Unpauses
    BY <1>1 DEF JobOps, Unpauses
  <2>2. QED
    BY <2>1, AtTheUnpause
<1>4. QED
  BY <1>1, <1>2, <1>3, AheadMoves

LEMMA OtherPauses ==
    ASSUME FixtureInv, PausesEnd, failedCalls \subseteq failedCalls',
           \A n \in Containers :
               engine'[n].state = "paused" => engine[n].state = "paused",
           \/ UNCHANGED <<drill, step, phase>>
           \/ phase \notin Working
    PROVE  PausesEnd'
<1> SUFFICES ASSUME NEW n \in Containers, engine'[n].state = "paused"
             PROVE  (n \in failedCalls \/ Ahead(n) \/ AtHand(n))'
  BY DEF PausesEnd, Ahead, AtHand
<1>1. n \in failedCalls \/ Ahead(n) \/ AtHand(n)
  BY PausesAhead
<1>2. CASE phase \notin Working
  BY <1>1, <1>2 DEF Working, Ahead, AtHand
<1>3. CASE UNCHANGED <<drill, step, phase>>
  BY <1>1, <1>3 DEF Ahead, AtHand
<1>4. QED
  BY <1>2, <1>3

\* The drill is not in an outage when it ends by itself.
LEMMA EndsWithoutOutage ==
    ASSUME FixtureInv, PausesEnd, phase = "drill",
           \/ step = 1
           \/ step = Len(Script[drill]) + 1,
           failedCalls \subseteq failedCalls', engine' = engine
    PROVE  PausesEnd'
<1> SUFFICES ASSUME NEW n \in Containers, engine[n].state = "paused"
             PROVE  n \in failedCalls
  BY DEF PausesEnd
<1>1. n \in failedCalls \/ Ahead(n) \/ AtHand(n)
  BY PausesAhead
<1>2. ASSUME Ahead(n) PROVE FALSE
  <2>1. PICK i \in DOMAIN Script[drill] :
            /\ Script[drill][i].op = "pause"
            /\ Script[drill][i].name = n
            /\ i < step /\ step <= Finally[drill]
    BY <1>2 DEF Ahead
  <2>2. /\ i \in Nat /\ Finally[drill] \in Nat /\ 1 <= i
        /\ Finally[drill] <= Len(Script[drill]) /\ Len(Script[drill]) \in Nat
    BY <2>1, OutageAhead
  <2>3. QED
    BY <2>1, <2>2
<1>3. ~AtHand(n)
  BY DEF AtHand
<1>4. QED
  BY <1>1, <1>2, <1>3

LEMMA NextPausesEnd == FixtureInv /\ PausesEnd /\ [Next]_vars => PausesEnd'
<1> SUFFICES ASSUME FixtureInv, PausesEnd, [Next]_vars PROVE PausesEnd'
  OBVIOUS
<1>0. TypeOK /\ Containers \subseteq Names
  BY DEF FixtureInv, Names
<1>1. CASE UNCHANGED vars
  BY <1>1, OtherPauses DEF vars, control, docker
<1>2. CASE FixtureFails
  BY <1>2, EndsWithoutOutage DEF FixtureFails, docker, Fault
<1>3. CASE Complete
  BY <1>3, EndsWithoutOutage DEF Complete, docker
<1>4. CASE RemoveBaseTag
  <2>1. engine' = engine /\ failedCalls \subseteq failedCalls'
        /\ phase \notin Working
    BY <1>4 DEF RemoveBaseTag, Remove, NoFault, Fault, Working
  <2>2. QED
    BY <2>1, OtherPauses
<1>5. CASE RemoveContainer
  <2>1. /\ tracked[left] \in Names
        /\ engine' \in {engine,
                        [engine EXCEPT ![tracked[left]] = Absent(tracked[left])]}
        /\ failedCalls \subseteq failedCalls'
    BY <1>5, RemoveContainerEffect
  <2>2. \A n \in Containers :
            engine'[n].state = "paused" => engine[n].state = "paused"
    BY <1>0, <2>1, AbsentEffect
  <2>3. phase \notin Working
    BY <1>5 DEF RemoveContainer, Working
  <2>4. QED
    BY <2>1, <2>2, <2>3, OtherPauses
<1>6. CASE RemoveNetwork
  <2>1. /\ engine' \in {engine, [engine EXCEPT ![Network] = Absent(Network)]}
        /\ failedCalls \subseteq failedCalls'
        /\ phase \notin Working
    BY <1>6 DEF RemoveNetwork, Remove, NoFault, Fault, Working
  <2>2. Network \in Names
    BY DEF Names
  <2>3. \A n \in Containers :
            engine'[n].state = "paused" => engine[n].state = "paused"
    BY <1>0, <2>1, <2>2, AbsentEffect
  <2>4. QED
    BY <2>1, <2>3, OtherPauses
<1>7. CASE RemoveCandidate
  <2>1. engine' = engine /\ failedCalls \subseteq failedCalls'
        /\ phase \notin Working
    BY <1>7 DEF RemoveCandidate, Remove, NoFault, Fault, Working
  <2>2. QED
    BY <2>1, OtherPauses
<1>8. CASE \E n \in Containers : JobEnds(n) \/ Dies(n)
  <2>1. PICK n \in Containers : JobEnds(n) \/ Dies(n)
    BY <1>8
  <2>2. PICK state \in {"exited", "failed"} : Set(n, state)
    BY <2>1 DEF JobEnds, Dies
  <2>3. /\ UNCHANGED <<drill, step, phase>>
        /\ failedCalls \subseteq failedCalls'
    BY <2>1 DEF JobEnds, Dies, control, Fault
  <2>4. n \in Names /\ state \in States
    BY <1>0, <2>2 DEF States
  <2>5. /\ engine'[n].state = state
        /\ \A m \in Names : m # n => engine'[m] = engine[m]
    BY <1>0, <2>2, <2>4, StateSet
  <2>6. \A m \in Containers :
            engine'[m].state = "paused" => engine[m].state = "paused"
    BY <1>0, <2>2, <2>5
  <2>7. QED
    BY <2>3, <2>6, OtherPauses
<1>9. QED
  BY <1>0, <1>1, <1>2, <1>3, <1>4, <1>5, <1>6, <1>7, <1>8, NextIsOneOf,
     DrillStepPauses, EndJobPauses

\* When the cleanup runs, a database is still paused only if a call about it
\* has failed: an exception during the outage has led through the finally block
\* (monitoring-drill.py:261-282; recovery-drill.py:363-371).
THEOREM OutagesEnd == Spec => []OutagesEndBeforeCleanup
<1>1. Init => PausesEnd
  <2> SUFFICES ASSUME Init PROVE PausesEnd
    OBVIOUS
  <2>1. \A n \in Names : Absent(n).state = "absent"
    BY DEF Absent
  <2>2. \A n \in Names : engine[n].state \in {"running", "absent"}
    BY <2>1 DEF Init, Absent
  <2>3. QED
    BY <2>2 DEF Names, PausesEnd
<1>2. FixtureInv /\ PausesEnd /\ [Next]_vars => PausesEnd'
  BY NextPausesEnd
<1>3. PausesEnd => OutagesEndBeforeCleanup
  BY FixtureAssumption DEF PausesEnd, OutagesEndBeforeCleanup, Cleaning
<1>4. QED
  BY <1>1, <1>2, <1>3, FixtureInvariant, PTL DEF Spec

-----------------------------------------------------------------------------
(* What the containers use.                                                *)

\* A client is a container that logs in to a database.
Client(n) == engine[n].state # "absent" /\ engine[n].password # NoPassword

LEMMA ClientTypes ==
    ASSUME FixtureInv, NEW n \in Containers
    PROVE  /\ n \in Names
           /\ engine[n].db \in Databases
           /\ engine[n].db \in Containers /\ engine[n].db \in Names
           /\ Client(n) => Owned(n)
<1>1. n \in Names /\ engine[n] \in Resources
  BY DEF FixtureInv, TypeOK, Names
<1>2. engine[n].db \in Databases
  BY <1>1 DEF Resources
<1>3. Client(n) => Owned(n)
  BY <1>1 DEF FixtureInv, LabelsTell, Owned, Client
<1>4. QED
  BY <1>1, <1>2, <1>3, FixtureAssumption DEF Names

\* No step of a script takes a container away, or lets it change its database;
\* the one that comes is the step's, and its database is there.
LEMMA ContainersStay ==
    ASSUME FixtureInv, RegisteredAreThere, DrillStep
    PROVE  /\ \A n \in Containers :
                  engine[n].state # "absent" =>
                      /\ engine'[n].state # "absent"
                      /\ engine'[n].ours = engine[n].ours
                      /\ engine'[n].db = engine[n].db
                      /\ engine'[n].password = engine[n].password
           /\ \A n \in Containers :
                  engine[n].state = "absent" /\ Client(n)' =>
                      /\ n = Current.name /\ tracked' = Append(tracked, n)
                      /\ engine'[n].db = Current.db
                      /\ Owned(Current.db)
           /\ \/ tracked' = tracked
              \/ tracked' = Append(tracked, Current.name)
<1>1. /\ TypeOK /\ step \in DOMAIN Script[drill] /\ StepOnContainers
      /\ phase \in Working
      /\ \A n \in Containers : n \in Names /\ n # Network
      /\ engine \in [Names -> Resources]
      /\ Current.name \in Containers /\ Current.db \in Databases
  BY CurrentTypes, FixtureAssumption DEF FixtureInv, DrillStep, TypeOK, Names
<1>2. CASE CreatesNetwork
  BY <1>1, <1>2, NetworkEffect DEF CreatesNetwork, Client
<1>3. CASE StartsContainer
  <2>1. /\ tracked' = Append(tracked, Current.name)
        /\ \A n \in Names : n # Current.name => engine'[n] = engine[n]
        /\ \/ engine' = engine
           \/ /\ engine[Current.name].state = "absent"
              /\ engine'[Current.name].db = Current.db
              /\ engine'[Current.name].password = GivenPassword
    BY <1>1, <1>3, StartEffect DEF StartsContainer
  <2>2. /\ engine' # engine
        /\ GivenPassword # NoPassword
        => Owned(Current.db)
    <3>1. ASSUME engine' # engine, GivenPassword # NoPassword
          PROVE  Owned(Current.db)
      <4>1. Current.op = "migrate" => Owned(Current.db)
        BY <1>3, <3>1 DEF StartsContainer
      <4>2. Current.op # "migrate" => runtimePasswords[Current.db] # NoPassword
        BY <3>1 DEF GivenPassword
      <4>3. QED
        BY <1>1, <4>1, <4>2 DEF RegisteredAreThere
    <3>2. QED
      BY <3>1
  <2>3. QED
    BY <1>1, <2>1, <2>2 DEF Client
<1>4. CASE ChangesContainer
  <2>1. UNCHANGED tracked
    BY <1>4 DEF ChangesContainer
  <2>2. /\ \A n \in Names : n # Current.name => engine'[n] = engine[n]
        /\ engine[Current.name].ours /\ engine'[Current.name].ours
        /\ engine[Current.name].state # "absent"
        /\ engine'[Current.name].state \in {"running", "paused", "exited"}
        /\ engine'[Current.name].db = engine[Current.name].db
        /\ engine'[Current.name].password = engine[Current.name].password
        /\ engine' \in [Names -> Resources]
    BY <1>1, <1>4, ChangeEffect
  <2>3. engine'[Current.name].ours = engine[Current.name].ours
    <3>1. engine[Current.name] \in Resources /\ engine'[Current.name] \in Resources
      BY <1>1, <2>2
    <3>2. engine[Current.name].ours \in BOOLEAN
          /\ engine'[Current.name].ours \in BOOLEAN
      BY <3>1 DEF Resources
    <3>3. QED
      BY <2>2, <3>2
  <2>4. QED
    BY <1>1, <2>1, <2>2, <2>3 DEF Client
<1>5. CASE LeavesContainers
  BY <1>5 DEF LeavesContainers, Client
<1>6. QED
  BY <1>1, <1>2, <1>3, <1>4, <1>5 DEF StepOnContainers

\* Where nothing is taken away the order of the containers is kept.
LEMMA OrderStays ==
    ASSUME FixtureInv, NEW n \in Containers, NEW d,
           \E i, j \in DOMAIN tracked :
               i < j /\ tracked[i] = d /\ tracked[j] = n,
           \/ tracked' = tracked
           \/ \E m \in Containers : tracked' = Append(tracked, m)
    PROVE  \E i, j \in DOMAIN tracked' :
               i < j /\ tracked'[i] = d /\ tracked'[j] = n
<1>1. CASE tracked' = tracked
  BY <1>1
<1>2. CASE \E m \in Containers : tracked' = Append(tracked, m)
  <2>1. /\ \A i \in 1..Len(tracked) : tracked'[i] = tracked[i]
        /\ DOMAIN tracked = 1..Len(tracked)
        /\ DOMAIN tracked' = 1..(Len(tracked) + 1)
        /\ Len(tracked) \in Nat
    BY <1>2, TrackedOneMore DEF FixtureInv
  <2>2. \A i \in DOMAIN tracked : i \in DOMAIN tracked'
    BY <2>1
  <2>3. QED
    BY <2>1, <2>2
<1>3. QED
  BY <1>1, <1>2

LEMMA DrillStepClients ==
    ASSUME FixtureInv, ClientInv, DrillStep PROVE ClientInv'
<1>1. /\ \A n \in Containers :
             engine[n].state # "absent" =>
                 /\ engine'[n].state # "absent"
                 /\ engine'[n].ours = engine[n].ours
                 /\ engine'[n].db = engine[n].db
                 /\ engine'[n].password = engine[n].password
      /\ \A n \in Containers :
             engine[n].state = "absent" /\ Client(n)' =>
                 /\ n = Current.name /\ tracked' = Append(tracked, n)
                 /\ engine'[n].db = Current.db
                 /\ Owned(Current.db)
      /\ \/ tracked' = tracked
         \/ tracked' = Append(tracked, Current.name)
  BY ContainersStay DEF ClientInv
<1>2. /\ step \in DOMAIN Script[drill] /\ phase \in Working /\ TypeOK
      /\ Current.name \in Containers /\ Current.db \in Containers
      /\ runtimePasswords' = runtimePasswords
      /\ Databases \subseteq Containers
  BY CurrentTypes, FixtureAssumption
     DEF DrillStep, StepOnPasswords, FixtureInv
<1>3. \A n \in Containers : Owned(n) => Owned(n)'
  BY <1>1 DEF Owned
<1>4. cleanupErrors' = cleanupErrors /\ (phase' \in Working => phase \in Working)
  <2>1. Raise \/ Proceed \/ StartWaiting
    BY DEF DrillStep, StepOnContainers, CreatesNetwork, StartsContainer,
           ChangesContainer, LeavesContainers
  <2>2. QED
    BY <1>2, <2>1 DEF Raise, Proceed, StartWaiting, BeginCleanup
<1>5. ASSUME NEW n \in Containers, Client(n)', engine[n].state # "absent"
      PROVE  Client(n) /\ engine'[n].db = engine[n].db
  BY <1>1, <1>5 DEF Client
<1>6. ClientsComeLater'
  <2>1. ASSUME NEW n \in Containers, Client(n)'
        PROVE  \E i, j \in DOMAIN tracked' :
                   i < j /\ tracked'[i] = engine'[n].db /\ tracked'[j] = n
    <3>1. CASE engine[n].state # "absent"
      <4>1. \E i, j \in DOMAIN tracked :
                i < j /\ tracked[i] = engine[n].db /\ tracked[j] = n
        BY <1>5, <2>1, <3>1 DEF ClientInv, ClientsComeLater, Client
      <4>2. QED
        BY <1>1, <1>2, <1>5, <2>1, <3>1, <4>1, OrderStays
    <3>2. CASE engine[n].state = "absent"
      <4>1. /\ n = Current.name /\ tracked' = Append(tracked, n)
            /\ engine'[n].db = Current.db
            /\ Owned(Current.db)
        BY <1>1, <2>1, <3>2
      <4>2. Tracked(Current.db)
        BY <1>2, <4>1 DEF FixtureInv, Remembered
      <4>3. PICK i \in DOMAIN tracked : tracked[i] = Current.db
        BY <4>2 DEF Tracked
      <4>4. /\ \A k \in 1..Len(tracked) : tracked'[k] = tracked[k]
            /\ DOMAIN tracked = 1..Len(tracked)
            /\ DOMAIN tracked' = 1..(Len(tracked) + 1)
            /\ Len(tracked) \in Nat
            /\ tracked'[Len(tracked) + 1] = n
        BY <1>2, <4>1, TrackedOneMore
      <4>5. /\ i \in DOMAIN tracked' /\ Len(tracked) + 1 \in DOMAIN tracked'
            /\ i < Len(tracked) + 1
        BY <4>4
      <4>6. QED
        BY <4>1, <4>3, <4>4, <4>5
    <3>3. QED
      BY <3>1, <3>2
  <2>2. QED
    BY <2>1 DEF ClientsComeLater, Client
<1>7. RegisteredAreThere'
  <2>1. phase' \in Working =>
            \A d \in Databases : runtimePasswords'[d] # NoPassword => Owned(d)'
    BY <1>2, <1>3, <1>4 DEF ClientInv, RegisteredAreThere
  <2>2. ASSUME waiting', (Current.op = "migrate")' PROVE Owned(Current.db)'
    <3>1. ~Raise /\ ~Proceed
      BY <2>2 DEF Raise, Proceed, BeginCleanup
    <3>2. StartWaiting /\ (Current.op = "migrate" => Owned(Current.db))
      BY <3>1 DEF DrillStep, StepOnContainers, CreatesNetwork,
                  StartsContainer, ChangesContainer, LeavesContainers
    <3>3. Current' = Current
      BY <3>2 DEF StartWaiting, Current
    <3>4. \A m : m = Current.db => Owned(m)'
      BY <1>2, <1>3, <2>2, <3>2, <3>3
    <3>5. QED
      BY <3>3, <3>4
  <2>3. QED
    BY <2>1, <2>2 DEF RegisteredAreThere
<1>8. ClientsHaveDatabases'
  <2>1. ASSUME NEW n \in Containers, Client(n)'
        PROVE  engine'[engine'[n].db].state # "absent" \/ n \in cleanupErrors'
    <3>1. CASE engine[n].state # "absent"
      <4>1. engine[engine[n].db].state # "absent" \/ n \in cleanupErrors
        BY <1>5, <2>1, <3>1 DEF ClientInv, ClientsHaveDatabases, Client
      <4>2. engine[n].db \in Containers
        BY ClientTypes
      <4>3. QED
        BY <1>1, <1>4, <1>5, <2>1, <3>1, <4>1, <4>2
    <3>2. CASE engine[n].state = "absent"
      BY <1>1, <1>2, <2>1, <3>2 DEF Owned
    <3>3. QED
      BY <3>1, <3>2
  <2>2. QED
    BY <2>1 DEF ClientsHaveDatabases, Client
<1>9. QED
  BY <1>6, <1>7, <1>8 DEF ClientInv

\* Nothing comes and nothing goes; what is registered is there.
LEMMA SameClients ==
    ASSUME FixtureInv, ClientInv,
           tracked' = tracked, cleanupErrors \subseteq cleanupErrors',
           \A n \in Containers :
               /\ engine'[n].state # "absent" <=> engine[n].state # "absent"
               /\ engine'[n].db = engine[n].db
               /\ engine'[n].password = engine[n].password,
           RegisteredAreThere'
    PROVE  ClientInv'
<1>1. \A n \in Containers : Client(n)' <=> Client(n)
  BY DEF Client
<1>2. ClientsComeLater'
  BY <1>1 DEF ClientInv, ClientsComeLater, Client
<1>3. ClientsHaveDatabases'
  BY <1>1, ClientTypes DEF ClientInv, ClientsHaveDatabases, Client
<1>4. QED
  BY <1>2, <1>3 DEF ClientInv

LEMMA EndJobClients ==
    ASSUME FixtureInv, ClientInv, EndJob PROVE ClientInv'
<1>1. /\ waiting /\ UNCHANGED <<tracked, engine>>
      /\ Raise \/ Proceed
      /\ IF Current.op = "migrate"
         THEN Register \/ UNCHANGED runtimePasswords
         ELSE UNCHANGED runtimePasswords
  BY DEF EndJob, docker
<1>2. phase \in Working /\ step \in DOMAIN Script[drill] /\ TypeOK
  BY <1>1 DEF FixtureInv, Progress
<1>3. cleanupErrors' = cleanupErrors /\ waiting' = FALSE
  BY <1>1 DEF Raise, Proceed, BeginCleanup
<1>4. \A d : Owned(d)' <=> Owned(d)
  BY <1>1 DEF Owned
<1>5. \A d \in Databases : runtimePasswords'[d] # NoPassword => Owned(d)
  <2>1. \A d \in Databases : runtimePasswords[d] # NoPassword => Owned(d)
    BY <1>2 DEF ClientInv, RegisteredAreThere
  <2>2. CASE UNCHANGED runtimePasswords
    BY <2>1, <2>2
  <2>3. CASE Current.op = "migrate" /\ Register
    <3>1. Owned(Current.db)
      BY <1>1, <2>3 DEF ClientInv, RegisteredAreThere
    <3>2. Current.db \in Databases
          /\ runtimePasswords \in [Databases -> Passwords \cup {NoPassword}]
      BY <1>2, CurrentTypes DEF TypeOK
    <3>3. QED
      BY <2>1, <2>3, <3>1, <3>2 DEF Register
  <2>4. QED
    BY <1>1, <2>2, <2>3
<1>6. RegisteredAreThere'
  BY <1>3, <1>4, <1>5 DEF RegisteredAreThere
<1>7. QED
  BY <1>1, <1>3, <1>6, SameClients

LEMMA StateChangeClients ==
    ASSUME FixtureInv, ClientInv, NEW n \in Containers, NEW state \in States,
           state # "absent", Owned(n), Set(n, state),
           UNCHANGED <<control, fixture, cleaning>>
    PROVE  ClientInv'
<1>1. /\ UNCHANGED <<drill, step, phase, waiting, tracked, runtimePasswords,
                     cleanupErrors>>
      /\ n \in Names /\ TypeOK /\ Containers \subseteq Names
  BY DEF control, fixture, cleaning, Names, FixtureInv
<1>2. /\ engine'[n].state = state
      /\ engine'[n].ours = engine[n].ours
      /\ engine'[n].db = engine[n].db
      /\ engine'[n].password = engine[n].password
      /\ \A m \in Names : m # n => engine'[m] = engine[m]
  BY <1>1, StateSet
<1>3. \A m \in Containers :
          /\ engine'[m].state # "absent" <=> engine[m].state # "absent"
          /\ engine'[m].db = engine[m].db
          /\ engine'[m].password = engine[m].password
          /\ Owned(m) => Owned(m)'
  BY <1>1, <1>2 DEF Owned
<1>4. Current' = Current
  BY <1>1 DEF Current
<1>5. RegisteredAreThere'
  <2>1. \A d \in Databases : Owned(d) => Owned(d)'
    BY <1>3, FixtureAssumption
  <2>2. waiting => Current.db \in Databases
    BY <1>1, CurrentTypes DEF FixtureInv, Progress
  <2>3. \A m : m = Current.db /\ waiting /\ Owned(m) => Owned(m)'
    BY <2>1, <2>2
  <2>4. phase' \in Working =>
            \A d \in Databases : runtimePasswords'[d] # NoPassword => Owned(d)'
    BY <1>1, <2>1 DEF ClientInv, RegisteredAreThere
  <2>5. waiting' /\ (Current.op = "migrate")' => Owned(Current.db)'
    BY <1>1, <1>4, <2>3 DEF ClientInv, RegisteredAreThere
  <2>6. QED
    BY <2>4, <2>5 DEF RegisteredAreThere
<1>6. QED
  BY <1>1, <1>3, <1>5, SameClients

\* The cleanup takes the newer of two containers first.
LEMMA RemoveContainerClients ==
    ASSUME FixtureInv, ClientInv, RemoveContainer PROVE ClientInv'
<1> DEFINE n == tracked[left]
<1>1. /\ left \in 1..Len(tracked)
      /\ n \in Containers /\ n \in Names
      /\ engine' \in {engine, [engine EXCEPT ![n] = Absent(n)]}
      /\ cleanupErrors \subseteq cleanupErrors'
  BY RemoveContainerEffect
<1>2. /\ phase = "containers" /\ UNCHANGED <<drill, step, phase, waiting, tracked>>
  BY DEF RemoveContainer, control, fixture
<1>3. /\ \A m \in Names : m # n => engine'[m] = engine[m]
      /\ engine' = engine \/ engine'[n].state = "absent"
  BY <1>1, AbsentEffect
<1>4. /\ DOMAIN tracked = 1..Len(tracked) /\ Len(tracked) \in Nat
      /\ Containers \subseteq Names
  BY DomainOfSeq DEF FixtureInv, TypeOK, Names
<1>5. RegisteredAreThere'
  <2>1. ~waiting
    BY <1>2 DEF FixtureInv, Progress, Working
  <2>2. QED
    BY <1>2, <2>1 DEF RegisteredAreThere, Working
<1>6. \A m \in Containers : Client(m)' => Client(m) /\ engine'[m] = engine[m]
  BY <1>3, <1>4 DEF Client
<1>7. ClientsComeLater'
  BY <1>2, <1>6 DEF ClientInv, ClientsComeLater, Client
<1>8. ClientsHaveDatabases'
  <2>1. ASSUME NEW m \in Containers, Client(m)'
        PROVE  engine'[engine[m].db].state # "absent" \/ m \in cleanupErrors'
    <3>1. /\ Client(m) /\ Owned(m) /\ engine[m].db \in Names
      BY <1>6, <2>1, ClientTypes
    <3>2. engine[engine[m].db].state # "absent" \/ m \in cleanupErrors
      BY <3>1 DEF ClientInv, ClientsHaveDatabases, Client
    <3>3. CASE engine[m].db # n
      BY <1>1, <1>3, <3>1, <3>2, <3>3
    <3>4. CASE engine[m].db = n
      <4>1. PICK i \in DOMAIN tracked, j \in DOMAIN tracked :
                i < j /\ tracked[i] = engine[m].db /\ tracked[j] = m
        BY <3>1 DEF ClientInv, ClientsComeLater, Client
      <4>2. i = left
        BY <1>1, <1>4, <3>4, <4>1 DEF FixtureInv, Once
      <4>3. m \in cleanupErrors \/ \E k \in 1..left : tracked[k] = m
        BY <1>2, <3>1 DEF FixtureInv, Visited
      <4>4. ASSUME NEW k \in 1..left, tracked[k] = m PROVE FALSE
        <5>1. k \in DOMAIN tracked /\ k <= left
          BY <1>1, <1>4
        <5>2. k = j
          BY <4>1, <4>4, <5>1 DEF FixtureInv, Once
        <5>3. QED
          BY <1>1, <1>4, <4>1, <4>2, <5>1, <5>2
      <4>5. QED
        BY <1>1, <4>3, <4>4
    <3>5. QED
      BY <3>3, <3>4
  <2>2. QED
    BY <1>6, <2>1 DEF ClientsHaveDatabases, Client
<1>9. QED
  BY <1>5, <1>7, <1>8 DEF ClientInv

\* Before and after the steps only the network and the images change.
LEMMA OtherClients ==
    ASSUME FixtureInv, ClientInv, tracked' = tracked,
           cleanupErrors \subseteq cleanupErrors',
           \A n \in Containers : engine'[n] = engine[n],
           phase' \notin Working, ~waiting'
    PROVE  ClientInv'
<1>1. RegisteredAreThere'
  BY DEF RegisteredAreThere
<1>2. QED
  BY <1>1, SameClients

LEMMA NextClientInv == FixtureInv /\ ClientInv /\ [Next]_vars => ClientInv'
<1> SUFFICES ASSUME FixtureInv, ClientInv, [Next]_vars PROVE ClientInv'
  OBVIOUS
<1>0. /\ TypeOK /\ Containers \subseteq Names /\ Network \in Names
      /\ \A n \in Containers : n # Network
      /\ phase \notin Working => ~waiting
  BY FixtureAssumption DEF FixtureInv, Names, Progress
<1>1. CASE UNCHANGED vars
  <2>1. UNCHANGED <<drill, step, phase, waiting, tracked, runtimePasswords,
                    engine, cleanupErrors>>
    BY <1>1 DEF vars, control, fixture, cleaning, docker
  <2>2. RegisteredAreThere'
    BY <2>1 DEF ClientInv, RegisteredAreThere, Owned, Current
  <2>3. QED
    BY <2>1, <2>2, SameClients
<1>2. CASE FixtureFails
  BY <1>2, OtherClients DEF FixtureFails, docker, Working
<1>3. CASE Complete
  <2>1. /\ phase' \notin Working /\ ~waiting'
        /\ UNCHANGED <<tracked, cleanupErrors, engine>>
    BY <1>3 DEF Complete, BeginCleanup, fixture, docker, Working
  <2>2. QED
    BY <2>1, OtherClients
<1>4. CASE RemoveBaseTag
  <2>1. /\ phase' \notin Working /\ ~waiting'
        /\ UNCHANGED <<tracked, engine>>
        /\ cleanupErrors \subseteq cleanupErrors'
    BY <1>0, <1>4 DEF RemoveBaseTag, Remove, fixture, Working
  <2>2. QED
    BY <2>1, OtherClients
<1>5. CASE RemoveNetwork
  <2>1. /\ phase' \notin Working /\ ~waiting'
        /\ tracked' = tracked
        /\ cleanupErrors \subseteq cleanupErrors'
        /\ engine' \in {engine, [engine EXCEPT ![Network] = Absent(Network)]}
    BY <1>0, <1>5 DEF RemoveNetwork, Remove, End, Working
  <2>2. \A n \in Containers : engine'[n] = engine[n]
    BY <1>0, <2>1, AbsentEffect
  <2>3. QED
    BY <2>1, <2>2, OtherClients
<1>6. CASE RemoveCandidate
  <2>1. /\ phase' \notin Working /\ ~waiting'
        /\ UNCHANGED <<tracked, engine>>
        /\ cleanupErrors \subseteq cleanupErrors'
    BY <1>0, <1>6 DEF RemoveCandidate, Remove, End, Working
  <2>2. QED
    BY <2>1, OtherClients
<1>7. ASSUME NEW n \in Containers, JobEnds(n) \/ Dies(n) PROVE ClientInv'
  <2>1. PICK state \in {"exited", "failed"} : Set(n, state)
    BY <1>7 DEF JobEnds, Dies
  <2>2. UNCHANGED <<control, fixture, cleaning>>
    BY <1>7 DEF JobEnds, Dies
  <2>3. Owned(n)
    BY <1>0, <1>7 DEF JobEnds, Dies, Answers, FixtureInv, LabelsTell, Owned
  <2>4. state \in States /\ state # "absent"
    BY <2>1 DEF States
  <2>5. QED
    BY <2>1, <2>2, <2>3, <2>4, StateChangeClients
<1>8. QED
  BY <1>0, <1>1, <1>2, <1>3, <1>4, <1>5, <1>6, <1>7, NextIsOneOf,
     DrillStepClients, EndJobClients, RemoveContainerClients

\* The cleanup takes neither its database nor its private files away from a
\* process that it has not failed to remove (recovery-drill.py:247;
\* monitoring-drill.py:312-331, rollback-drill.py:302-331,
\* oidc-drill.py:342-345).
THEOREM ClientsKeep == Spec => []ClientsKeepWhatTheyUse
<1>1. Init => ClientInv
  <2> SUFFICES ASSUME Init PROVE ClientInv
    OBVIOUS
  <2>1. \A n \in Names : engine[n].password = NoPassword
    <3>1. \A n \in Names : Absent(n).password = NoPassword
      BY DEF Absent
    <3>2. QED
      BY <3>1 DEF Init, Absent
  <2>2. \A d \in Databases : runtimePasswords[d] = NoPassword
    BY DEF Init
  <2>3. ~waiting
    BY DEF Init
  <2>4. QED
    BY <2>1, <2>2, <2>3 DEF ClientInv, ClientsComeLater, RegisteredAreThere,
                            ClientsHaveDatabases, Names
<1>2. FixtureInv /\ ClientInv /\ [Next]_vars => ClientInv'
  BY NextClientInv
<1>3. FixtureInv /\ ClientInv => ClientsKeepWhatTheyUse
  <2> SUFFICES ASSUME FixtureInv, ClientInv PROVE ClientsKeepWhatTheyUse
    OBVIOUS
  <2>1. DatabasesAreThere
    <3>1. "running" # "absent" /\ "working" # "absent"
      OBVIOUS
    <3>2. QED
      BY <3>1 DEF ClientInv, ClientsHaveDatabases, DatabasesAreThere
  <2>2. ASSUME drill \in FilesGoFirst => report # "failed", ~files,
               NEW n \in Containers, engine[n].mounts,
               engine[n].state \in {"running", "working"}
        PROVE  n \in cleanupErrors
    <3>1. phase = "ended"
      BY <2>2 DEF FixtureInv, Progress
    <3>2. Owned(n)
      BY <2>2 DEF FixtureInv, LabelsTell, Owned, Names
    <3>3. left = 0
      BY <3>1 DEF FixtureInv, Visited
    <3>4. \A i \in 1..left : FALSE
      BY <3>3
    <3>5. QED
      BY <3>1, <3>2, <3>4 DEF FixtureInv, Visited
  <2>3. (drill \in FilesGoFirst => report # "failed")
            => FilesOutliveTheirContainers
    BY <2>2 DEF FilesOutliveTheirContainers
  <2>4. QED
    BY <2>1, <2>3 DEF ClientsKeepWhatTheyUse
<1>4. QED
  BY <1>1, <1>2, <1>3, FixtureInvariant, PTL DEF Spec

=============================================================================
