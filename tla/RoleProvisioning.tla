---------------------------- MODULE RoleProvisioning ---------------------------
(***************************************************************************)
(* Migration jobs (DatabaseMigrationConfiguration, runtime-role.sql) of    *)
(* several releases against one database: each applies the migrations it   *)
(* brings, each in a transaction of its own, and then creates or repairs   *)
(* the role of the service, with its password and its rights, in one.      *)
(* A job that was given up still runs when that of the next release starts *)
(* (migrate-ecs.sh:39-43).  Statements fail, jobs die, and the answer to a *)
(* commit may be lost.                                                     *)
(*                                                                         *)
(* What the role may do is what the service needs (needed), and what the   *)
(* script takes back (more): its memberships, its own rights and those of  *)
(* PUBLIC on the database, its tables, and creation in its schema, and its *)
(* own on the schema and on sequences (runtime-role.sql:28-48).  Rights of *)
(* PUBLIC on sequences, functions and other schemas, which it leaves as    *)
(* they are, are in neither.                                               *)
(***************************************************************************)
EXTENDS Integers

CONSTANTS
    Jobs,
    Versions,       \* Versions[j]: the last migration that job j brings
    MaxFailures     \* bound on statements and commits that fail, jobs that die

ProvisioningAssumption ==
    /\ Versions \in [Jobs -> Nat]
    /\ "none" \notin Jobs
    /\ MaxFailures \in Nat

VARIABLES
    schema,         \* the last migration applied
    role,           \* the role, as committed
    step,           \* step[j], of job j
    short,          \* short[j]: its DB_APP_PASSWORD has less than 16 characters
    missed,         \* missed[j]: it found no role
    draft,          \* draft[j]: the role as its transaction leaves it
    writer,         \* the job whose open transaction has written the role
    failures

vars == <<schema, role, step, short, missed, draft, writer, failures>>

Passwords == Jobs \cup {"another", "none"}
Roles ==
    [exists : BOOLEAN, password : Passwords, owner : BOOLEAN,
     elevated : BOOLEAN, needed : BOOLEAN, more : BOOLEAN]
NoRole ==
    [exists |-> FALSE, password |-> "none", owner |-> FALSE,
     elevated |-> FALSE, needed |-> FALSE, more |-> TRUE]

TypeOK ==
    /\ schema \in Nat
    /\ role \in Roles
    /\ step \in [Jobs -> {"start", "migrate", "look", "write", "wait",
                          "revoke", "grant", "commit", "done", "failed"}]
    /\ short \in [Jobs -> BOOLEAN]
    /\ missed \in [Jobs -> BOOLEAN]
    /\ draft \in [Jobs -> Roles]
    /\ writer \in Jobs \cup {"none"}
    /\ failures \in 0..MaxFailures

Init ==
    /\ schema = 0
    /\ role \in {NoRole} \cup
                {r \in Roles : r.exists /\ r.password = "another"}
    /\ step = [j \in Jobs |-> "start"]
    /\ short \in [Jobs -> BOOLEAN]
    /\ missed = [j \in Jobs |-> FALSE]
    /\ draft = [j \in Jobs |-> NoRole]
    /\ writer = "none"
    /\ failures = 0

Goto(j, s) == step' = [step EXCEPT ![j] = s]

-----------------------------------------------------------------------------

Start(j) ==
    /\ step[j] = "start"
    /\ Goto(j, IF short[j] THEN "failed" ELSE "migrate")
    /\ UNCHANGED <<schema, role, short, missed, draft, writer, failures>>

\* Mutant: the role is prepared before the schema is.
MigrateLater(j) ==
    /\ step[j] = "migrate"
    /\ Goto(j, "look")
    /\ UNCHANGED <<schema, role, short, missed, draft, writer, failures>>

\* Flyway applies what is missing, one migration at a time under its lock, and
\* does not mind a schema that is newer than what it brings.
Migrate(j) ==
    /\ step[j] = "migrate"
    /\ IF schema < Versions[j]
       THEN schema' = schema + 1 /\ UNCHANGED step
       ELSE Goto(j, "look") /\ UNCHANGED schema
    /\ UNCHANGED <<role, short, missed, draft, writer, failures>>

\* IF NOT EXISTS (SELECT 1 FROM pg_roles ...).
Look(j) ==
    /\ step[j] = "look"
    /\ missed' = [missed EXCEPT ![j] = ~role.exists]
    /\ Goto(j, "write")
    /\ UNCHANGED <<schema, role, short, draft, writer, failures>>

-----------------------------------------------------------------------------

\* Mutant: an elevated role is repaired like any other.
AcceptableUnlessOwner(r) == ~r.owner

\* A role that owns objects or has elevated privileges is refused.
Acceptable(r) == ~r.owner /\ ~r.elevated

\* The rest of the DO block.  The first write of the role waits for an open
\* transaction that has written it; CREATE ROLE fails if it exists by now.
Write(j) ==
    /\ step[j] = "write"
    /\ IF (missed[j] /\ role.exists) \/ ~Acceptable(role)
       THEN Goto(j, "failed") /\ UNCHANGED <<draft, writer>>
       ELSE IF writer # "none"
       THEN Goto(j, "wait") /\ UNCHANGED <<draft, writer>>
       ELSE /\ draft' = [draft EXCEPT ![j] =
                            [role EXCEPT !.exists = TRUE, !.password = j]]
            /\ writer' = j
            /\ Goto(j, "revoke")
    /\ UNCHANGED <<schema, role, short, missed, failures>>

\* Mutant: every statement is a transaction of its own.
RevokeAtOnce(j) ==
    /\ step[j] = "revoke"
    /\ draft' = [draft EXCEPT ![j].needed = FALSE, ![j].more = FALSE]
    /\ role' = draft'[j]
    /\ Goto(j, "grant")
    /\ UNCHANGED <<schema, short, missed, writer, failures>>

Revoke(j) ==
    /\ step[j] = "revoke"
    /\ draft' = [draft EXCEPT ![j].needed = FALSE, ![j].more = FALSE]
    /\ Goto(j, "grant")
    /\ UNCHANGED <<schema, role, short, missed, writer, failures>>

Grant(j) ==
    /\ step[j] = "grant"
    /\ draft' = [draft EXCEPT ![j].needed = TRUE]
    /\ Goto(j, "commit")
    /\ UNCHANGED <<schema, role, short, missed, writer, failures>>

-----------------------------------------------------------------------------

\* PostgreSQL ends the transaction of job j, which goes to step s.  A job that
\* waits to write the role fails if it was committed ("tuple concurrently
\* updated", "already exists"), and writes it otherwise.
End(j, s, committed) ==
    /\ step' = [k \in Jobs |->
                   IF k = j THEN s
                   ELSE IF step[k] = "wait" /\ writer = j
                   THEN (IF committed THEN "failed" ELSE "write")
                   ELSE step[k]]
    /\ writer' = IF writer = j THEN "none" ELSE writer

\* Mutant: the connection is closed without a commit.
CommitNothing(j) ==
    /\ step[j] = "commit"
    /\ End(j, "done", FALSE)
    /\ UNCHANGED <<schema, role, short, missed, draft, failures>>

\* The commit, whose answer may be lost.
Commit(j) ==
    /\ step[j] = "commit"
    /\ role' = draft[j]
    /\ \/ End(j, "done", TRUE) /\ UNCHANGED failures
       \/ /\ failures < MaxFailures
          /\ failures' = failures + 1
          /\ End(j, "failed", TRUE)
    /\ UNCHANGED <<schema, short, missed, draft>>

\* A statement, or the job, fails.
Fail(j) ==
    /\ step[j] \notin {"done", "failed"}
    /\ failures < MaxFailures
    /\ failures' = failures + 1
    /\ End(j, "failed", FALSE)
    /\ UNCHANGED <<schema, role, short, missed, draft>>

Work(j) ==
    \/ Start(j) \/ Migrate(j) \/ Look(j) \/ Write(j) \/ Revoke(j) \/ Grant(j)
    \/ Commit(j)

Next == \E j \in Jobs : Work(j) \/ Fail(j)

Spec == Init /\ [][Next]_vars

\* The database answers, or the connection breaks.
Fairness == WF_vars(\E j \in Jobs : Work(j))
FairSpec == Spec /\ Fairness

=============================================================================
