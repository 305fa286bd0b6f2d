----------------------------- MODULE MCDrillFixture ----------------------------
(***************************************************************************)
(* The drills of scripts/ for TLC, in the groups the configurations name.  *)
(***************************************************************************)
EXTENDS DrillFixtureProperties

Scripts == INSTANCE DrillScripts

MCScript == [d \in Drills |-> Scripts!ScriptOf(d)]
MCTry == [d \in Drills |-> Scripts!TryOf(d)]
MCFinally == [d \in Drills |-> Scripts!FinallyOf(d)]

MCContainers ==
    UNION {{MCScript[d][i].name : i \in DOMAIN MCScript[d]} : d \in Drills}

MCDatabases ==
    UNION {{MCScript[d][i].db : i \in DOMAIN MCScript[d]} : d \in Drills}

MCPasswords == {"initial", "new"}

=============================================================================
