------------------------ MODULE CloudPreflightProperties -----------------------
(***************************************************************************)
(* What the preflight promises to the operator and to the AWS account.     *)
(***************************************************************************)
EXTENDS CloudPreflight

\* A usable file whose identifiers are all of one account and one region
\* (docs/release-security.md:79).
Consistent ==
    /\ config.json = "object"
    /\ ~config.other
    /\ config.missing \cap Required = {}
    /\ config.malformed \subseteq Github
    /\ config.elsewhere \subseteq Github
    /\ config.github =>
           /\ config.missing \cap Github = {}
           /\ config.malformed \cup config.elsewhere = {}

\* AWS is asked about nothing unless the operator asked for it and the file is
\* consistent, and about nothing but the account until the session is known to
\* be of the expected one, whatever becomes of the session afterwards
\* (cloud-preflight.py:119-121, 176; docs/release-security.md:87).
ReadsAreInvited ==
    reads # {} =>
        /\ invited
        /\ Consistent
        /\ \/ {r.check : r \in reads} = {"aws_account_access"}
           \/ [check |-> "aws_account_access", account |-> "expected",
               right |-> TRUE] \in reads

\* "metadata_verified" means that every resource was found as required, in the
\* expected account where the question names one, although the session was
\* compared with it only once (cloud-preflight.py:118-158, 190).
VerifiedMeansFound ==
    file = "metadata_verified" =>
        \A c \in Checks \ (IF config.github THEN {} ELSE {"github_oidc_provider"}) :
            \E r \in reads :
                /\ r.check = c /\ r.right
                /\ c \notin Unbound => r.account = "expected"

\* Success is reported by a report of this run, and never by a report that
\* calls resources verified which nobody looked at; an older report may only
\* stay behind a failure (cloud-preflight.py:182-203).
SuccessIsOnDisk ==
    exit = "success" =>
        /\ Consistent
        /\ file = IF invited THEN "metadata_verified"
                  ELSE "configuration_valid_unverified"

Ended == exit # "none"

\* Every preflight ends, with an exit status.
ThePreflightEnds == <>Ended

=============================================================================
