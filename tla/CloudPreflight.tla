----------------------------- MODULE CloudPreflight ----------------------------
(***************************************************************************)
(* cloud-preflight.py: it validates a file of identifiers, and, when it is *)
(* asked to and only then, compares them with the metadata of an AWS       *)
(* account, through a session that others may change, of resources that    *)
(* others may change.                                                      *)
(*                                                                         *)
(* An identifier is missing, malformed, of another account or region, or   *)
(* right.  A resource is as required or is not.  A read may fail or time   *)
(* out, and the report may fail to be written over that of an earlier run. *)
(***************************************************************************)
EXTENDS Integers, Sequences, FiniteSets

CONSTANTS
    Configs,        \* the files the program is given
    MaxChanges,     \* bound on changes of the session or of a resource
    MaxFaults       \* bound on reads that fail or time out

Required ==
    {"aws_region", "aws_account_id", "state_bucket_name", "container_image",
     "certificate_arn", "public_hostname", "jwt_issuer_uri", "jwt_audience",
     "runtime_database_secret_arn"}
Github == {"github_repository", "github_oidc_provider_arn"}
\* Identifiers that name an account, and a region where they have one.
Placed == {"container_image", "certificate_arn", "alarm_actions",
           "runtime_database_secret_arn", "github_oidc_provider_arn"}
Fields == Required \cup Github \cup {"alarm_actions"}

\* json says whether the file is a JSON object; other, whether it has fields
\* that are not supported; github, whether it has either field of Github.
ConfigSpace ==
    [json : {"object", "another value", "unreadable"}, other : BOOLEAN,
     github : BOOLEAN, missing : SUBSET Fields, malformed : SUBSET Fields,
     elsewhere : SUBSET Placed]

\* What validate_aws asks, in its order.
Order == <<"aws_account_access", "ecr_immutable_repository", "ecr_image_exists",
           "acm_certificate_ready", "runtime_secret_metadata",
           "state_bucket_versioning", "state_bucket_public_access",
           "state_bucket_encryption", "two_availability_zones",
           "github_oidc_provider">>
Checks == {Order[i] : i \in 1..Len(Order)}
\* Questions that do not say of which account: the session answers for its own.
Unbound == {"ecr_immutable_repository", "ecr_image_exists",
            "two_availability_zones"}

PreflightAssumption ==
    /\ Configs \subseteq ConfigSpace
    /\ MaxChanges \in Nat
    /\ MaxFaults \in Nat

VARIABLES
    config, invited, cli,   \* the file, --aws-read-only, aws is installed
    step,                   \* "config", "aws", "report" or "done"
    asked,                  \* how many checks of Order were made
    failures,               \* names of failed checks
    awsChecked,             \* aws_checked
    file, exit,             \* the report on disk, the exit status
    session, ready,         \* the account of the session, what is as required
    changes, faults,
    reads                   \* history: what was read, of whom, and was it right

input == <<config, invited, cli>>
program == <<step, asked, failures, awsChecked, file, exit>>
world == <<session, ready, changes>>
vars == <<input, program, world, faults, reads>>

Readiness == {"blocked", "metadata_verified", "configuration_valid_unverified"}
Reads == [check : Checks, account : {"expected", "another"}, right : BOOLEAN]

TypeOK ==
    /\ config \in Configs
    /\ invited \in BOOLEAN
    /\ cli \in BOOLEAN
    /\ step \in {"config", "aws", "report", "done"}
    /\ asked \in 0..Len(Order)
    /\ failures \subseteq
           Fields \cup Checks \cup {"configuration", "configuration_fields",
                                    "aws_cli"}
    /\ awsChecked \in BOOLEAN
    /\ file \in Readiness \cup {"older"}
    /\ exit \in {"none", "success", "failure"}
    /\ session \in {"expected", "another"}
    /\ ready \subseteq Checks
    /\ changes \in 0..MaxChanges
    /\ faults \in 0..MaxFaults
    /\ reads \subseteq Reads

Init ==
    /\ config \in Configs
    /\ invited \in BOOLEAN
    /\ cli \in BOOLEAN
    /\ step = "config"
    /\ asked = 0
    /\ failures = {}
    /\ awsChecked = FALSE
    /\ file = "older"
    /\ exit = "none"
    /\ session \in {"expected", "another"}
    /\ ready \in {Checks} \cup {Checks \ {c} : c \in Checks}
    /\ changes = 0
    /\ faults = 0
    /\ reads = {}

-----------------------------------------------------------------------------

\* Mutant: the place of the alarm topics is not compared.
FailuresButAlarms ==
    IF config.json # "object" THEN {"configuration"}
    ELSE LET unusable == (config.missing \cap Required)
                         \cup {f \in {"configuration_fields"} : config.other}
         IN IF unusable # {} THEN unusable
            ELSE {f \in config.malformed \cup config.elsewhere :
                      /\ f \in Github => config.github
                      /\ f # "alarm_actions"}

\* validate_config: fields that are missing or not supported end it early, and
\* optional ones are looked at when there are any.
ConfigFailures ==
    IF config.json # "object" THEN {"configuration"}
    ELSE LET unusable == (config.missing \cap Required)
                         \cup {f \in {"configuration_fields"} : config.other}
         IN IF unusable # {} THEN unusable
            ELSE {f \in config.malformed \cup config.elsewhere :
                      f \in Github => config.github}
                 \cup {f \in Github \cap config.missing : config.github}

ValidateConfig ==
    /\ step = "config"
    /\ failures' = ConfigFailures
                   \cup {f \in {"aws_cli"} :
                             invited /\ ConfigFailures = {} /\ ~cli}
    /\ awsChecked' = (invited /\ ConfigFailures = {} /\ cli)
    /\ step' = IF awsChecked' THEN "aws" ELSE "report"
    /\ UNCHANGED <<input, asked, file, exit, world, faults, reads>>

-----------------------------------------------------------------------------

Check == Order[asked + 1]

Right(check) ==
    IF check = "aws_account_access" THEN session = "expected"
    ELSE /\ check \in ready
         /\ session = "expected" \/ check \in Unbound

\* The provider is the last check, and only made when there is one.
Last == IF config.github THEN Len(Order) ELSE Len(Order) - 1

\* Mutant: another account is inspected all the same.
ContinueAnywhere(failed) ==
    step' = IF asked + 1 = Last THEN "report" ELSE "aws"

\* Another account than the expected one ends the checks.
Continue(failed) ==
    step' = IF asked + 1 = Last \/ (Check = "aws_account_access" /\ failed)
            THEN "report" ELSE "aws"

\* Mutant: a check that could not be made does not fail.
ReadOrSkip ==
    /\ step = "aws"
    /\ \/ /\ reads' = reads \cup {[check |-> Check, account |-> session,
                                   right |-> Right(Check)]}
          /\ failures' = IF Right(Check) THEN failures
                         ELSE failures \cup {Check}
          /\ Continue(~Right(Check))
          /\ UNCHANGED faults
       \/ /\ faults < MaxFaults
          /\ faults' = faults + 1
          /\ Continue(FALSE)
          /\ UNCHANGED <<reads, failures>>
    /\ asked' = asked + 1
    /\ UNCHANGED <<input, awsChecked, file, exit, world>>

\* Mutant: a check is repeated until it passes.
ReadUntilRight ==
    /\ step = "aws"
    /\ Right(Check)
    /\ reads' = reads \cup {[check |-> Check, account |-> session,
                              right |-> TRUE]}
    /\ Continue(FALSE)
    /\ asked' = asked + 1
    /\ UNCHANGED <<input, failures, awsChecked, file, exit, world, faults>>

\* check() around one AwsMetadata.read, which may fail or time out.
Read ==
    /\ step = "aws"
    /\ \/ /\ reads' = reads \cup {[check |-> Check, account |-> session,
                                   right |-> Right(Check)]}
          /\ failures' = IF Right(Check) THEN failures
                         ELSE failures \cup {Check}
          /\ Continue(~Right(Check))
          /\ UNCHANGED faults
       \/ /\ faults < MaxFaults
          /\ faults' = faults + 1
          /\ failures' = failures \cup {Check}
          /\ Continue(TRUE)
          /\ UNCHANGED reads
    /\ asked' = asked + 1
    /\ UNCHANGED <<input, awsChecked, file, exit, world>>

\* Mutant: the report is written when it can be.
ReportIfPossible ==
    /\ step = "report"
    /\ step' = "done"
    /\ exit' = IF failures = {} THEN "success" ELSE "failure"
    /\ \/ file' = IF failures # {} THEN "blocked"
                  ELSE IF awsChecked THEN "metadata_verified"
                  ELSE "configuration_valid_unverified"
       \/ UNCHANGED file
    /\ UNCHANGED <<input, asked, failures, awsChecked, world, faults, reads>>

\* Mutant: what the metadata show is called a deployment that is ready.
ReportDeployable ==
    /\ step = "report"
    /\ step' = "done"
    /\ exit' = IF failures = {} THEN "success" ELSE "failure"
    /\ file' = IF failures # {} THEN "blocked"
               ELSE IF awsChecked THEN "deployment_ready"
               ELSE "configuration_valid_unverified"
    /\ UNCHANGED <<input, asked, failures, awsChecked, world, faults, reads>>

\* The end of main().
Report ==
    /\ step = "report"
    /\ step' = "done"
    /\ \/ /\ exit' = IF failures = {} THEN "success" ELSE "failure"
          /\ file' = IF failures # {} THEN "blocked"
                     ELSE IF awsChecked THEN "metadata_verified"
                     ELSE "configuration_valid_unverified"
       \/ /\ exit' = "failure"
          /\ UNCHANGED file
    /\ UNCHANGED <<input, asked, failures, awsChecked, world, faults, reads>>

PreflightNext == ValidateConfig \/ Read \/ Report

-----------------------------------------------------------------------------

SwitchSession ==
    /\ changes < MaxChanges
    /\ changes' = changes + 1
    /\ session' \in {"expected", "another"} \ {session}
    /\ UNCHANGED <<input, program, ready, faults, reads>>

ChangeResource ==
    /\ changes < MaxChanges
    /\ changes' = changes + 1
    /\ \E c \in Checks \ {"aws_account_access"} :
           ready' = IF c \in ready THEN ready \ {c} ELSE ready \cup {c}
    /\ UNCHANGED <<input, program, session, faults, reads>>

Next == PreflightNext \/ SwitchSession \/ ChangeResource

Spec == Init /\ [][Next]_vars

\* Every read has a timeout.
Fairness == WF_vars(PreflightNext)
FairSpec == Spec /\ Fairness

=============================================================================
