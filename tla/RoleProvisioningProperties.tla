----------------------- MODULE RoleProvisioningProperties ----------------------
(***************************************************************************)
(* What the migration jobs promise to the service that is connected, and   *)
(* to the release that waits for them.                                     *)
(***************************************************************************)
EXTENDS RoleProvisioning

Prepared(password) ==
    [exists |-> TRUE, password |-> password, owner |-> FALSE,
     elevated |-> FALSE, needed |-> TRUE, more |-> FALSE]

\* The service never sees a role that is half prepared: without a right that
\* it had, or with its new password and the rights that others gave it.  Its
\* rights and its password change at once, to those of one job, whatever fails
\* (DatabaseMigrationConfiguration.java:45-55).
TheRoleChangesAtOnce ==
    [][role' = role \/ \E j \in Jobs : role' = Prepared(j)]_vars

\* A role that owns objects or has elevated privileges never gets a password
\* or a right, and no job succeeds on it (runtime-role.sql:14-26).
UnsafeRolesAreLeftAlone ==
    [][role.owner \/ role.elevated =>
           /\ role' = role
           /\ \A j \in Jobs : step'[j] # "done"]_vars

\* When a job succeeds, the schema has all its migrations, and the role is as
\* it prepared it, although others were at work; what it prepared stays until
\* a later commit of another job, and the schema never goes back
\* (DatabaseMigrationConfiguration.java:32-36).
SuccessMeansPrepared ==
    [][/\ schema' >= schema
       /\ \A j \in Jobs :
              /\ step[j] # "done" /\ step'[j] = "done" =>
                     role' = Prepared(j) /\ schema' >= Versions[j]
              /\ role' = Prepared(j) /\ role' # role => step[j] = "commit"]_vars

\* The service sees the role of one job, whole, and a job that succeeds leaves
\* the schema and the role it brings (DatabaseMigrationConfiguration.java:32-55).
TheRoleIsWhole == TheRoleChangesAtOnce /\ SuccessMeansPrepared

Ended == \A j \in Jobs : step[j] \in {"done", "failed"}

\* No job waits for ever for another, or for the role.
EveryJobEnds == <>Ended

=============================================================================
