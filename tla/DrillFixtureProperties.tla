------------------------- MODULE DrillFixtureProperties ------------------------
(***************************************************************************)
(* What the drills promise about the machine they run on.                  *)
(***************************************************************************)
EXTENDS DrillFixture

Cleaning == phase \in {"base tag", "containers", "candidate", "ended"}

\* A container the drill did not create, though it has a name the drill asked
\* for, is neither stopped nor removed (recovery-drill.py:115-124, 250-256;
\* "Cleanup refuses resources outside that ownership", docs/monitoring.md:63).
OthersAreLeftAlone ==
    [][\A n \in Names :
        engine[n].state # "absent" /\ ~engine[n].ours
            => engine'[n] = engine[n]]_vars

\* While a drill goes on, the password registered for a database it counts as
\* prepared is the one the database accepts, although jobs change it on their
\* own and may outlive the wait for them (recovery-drill.py:164, 187-188).
PreparedDatabasesAcceptTheirPassword ==
    phase = "drill" =>
        \A d \in prepared : rolePassword[d] = runtimePasswords[d]

\* An exception during the outage resumes the database before the cleanup; it
\* is found paused there only if a call about it failed (docs/monitoring.md:63).
OutagesEndBeforeCleanup ==
    Cleaning =>
        \A d \in Databases : engine[d].state = "paused" => d \in failedCalls

\* No container runs without the private files mounted into it, unless it
\* could not be removed ("Clean up containers before deleting their private
\* bind-mounted files", oidc-drill.py:342).
FilesOutliveTheirContainers ==
    ~files =>
        \A n \in Containers :
            engine[n].mounts /\ engine[n].state \in {"running", "working"}
                => n \in cleanupErrors

DatabasesAreThere ==
    \A n \in Containers :
        /\ engine[n].state \in {"running", "working"}
        /\ engine[n].password # NoPassword
        => engine[engine[n].db].state # "absent" \/ n \in cleanupErrors

\* The cleanup takes nothing away from a process that still uses it, unless
\* that process could not be removed: not its database (recovery-drill.py:247)
\* nor its private files (monitoring-drill.py:312-331, rollback-drill.py:
\* 302-331, oidc-drill.py:343-345), but for an OIDC drill that has failed.
ClientsKeepWhatTheyUse ==
    /\ DatabasesAreThere
    /\ (drill \in FilesGoFirst => report # "failed")
           => FilesOutliveTheirContainers

Reported(resource) == resource \in cleanupErrors

\* Whatever fails and wherever, what is left of the drill when it has ended is
\* named by the cleanup errors of its report, which then does not say passed:
\* a container or network, remembered before Docker answers
\* (recovery-drill.py:110, 129), the alias of the verified image
\* (rollback-drill.py:113), the candidate image once its build has answered
\* (docs/rollback-validation.md:70-71).  The image of a build whose answer is
\* lost is not known to the report (rollback-drill.py:129-132, 314).
NothingIsLeftUnreported ==
    phase = "ended" =>
        /\ \A n \in Names : Owned(n) => Reported(n)
        /\ "base tag" \in images => Reported("base tag")
        /\ "candidate" \in images =>
               Reported("candidate") \/ "candidate" \in failedCalls \ recorded
        /\ report = "passed" =>
               /\ step = Len(Script[drill]) + 1
               /\ \A n \in Names : ~Owned(n)
               /\ images = {}
               /\ ~files

\* Every drill ends and reports, although a job it waits for may never end.
EveryDrillEnds == <>(phase = "ended")

=============================================================================
