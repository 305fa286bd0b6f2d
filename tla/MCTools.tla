--------------------------------- MODULE MCTools -------------------------------
(***************************************************************************)
(* The six parts of Tools, for TLC.                                        *)
(***************************************************************************)
EXTENDS Tools, TLC

CONSTANTS image1, image2, older, newer

MCReferences == {image1, image2}

\* Containers of somebody else with our name and with a longer one.
MCForeign ==
    [name : {"ours", "ours and more"}, round : {1}, owner : {"another"},
     image : {image1}]

\* Unreadable files, and those with at most one thing wrong in them.
File(json, other, github, missing, malformed, elsewhere) ==
    [json |-> json, other |-> other, github |-> github, missing |-> missing,
     malformed |-> malformed, elsewhere |-> elsewhere]

MCConfigs ==
    {File(json, FALSE, FALSE, {}, {}, {}) :
        json \in {"another value", "unreadable"}}
    \cup {File("object", other, github, {}, {}, {}) :
            other \in BOOLEAN, github \in BOOLEAN}
    \cup {File("object", FALSE, github, {f}, {}, {}) :
            github \in BOOLEAN,
            f \in {"jwt_audience", "github_repository", "alarm_actions"}}
    \cup {File("object", FALSE, github, {}, {f}, {}) :
            github \in BOOLEAN, f \in {"aws_region", "github_repository"}}
    \cup {File("object", FALSE, github, {}, {}, {f}) :
            github \in BOOLEAN,
            f \in {"container_image", "certificate_arn", "alarm_actions",
                   "runtime_database_secret_arn",
                   "github_oidc_provider_arn"}}

\* The job of the release before, given up and still at work, and the next.
MCJobs == {older, newer}
MCVersions == older :> 1 @@ newer :> 2

=============================================================================
