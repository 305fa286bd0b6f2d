---------------------- MODULE ContractExtractionProperties ---------------------
(***************************************************************************)
(* What the inspection of release contracts promises to the deployment and *)
(* to the machine it runs on.                                              *)
(***************************************************************************)
EXTENDS ContractExtraction

\* The gate allows a deployment only when every image it asked for, that of
\* the running service too, has the digest, the platform and the contract
\* required (release_contract.py:145, 91, 39-52;
\* verify-deployment-image.py:87-88).
AllowedMeansCompatible ==
    outcome = "allowed" =>
        \A i \in 1..Len(wanted) : kind[wanted[i]] = "compatible"

\* A gate that ends leaves no extraction container behind, unless it has said
\* that the removal failed: not when the creation, the copy or the removal was
\* carried out and not answered either (release_contract.py:106, 120-123).  A
\* container Docker creates only after that was looked for is not found.
LeftoversAreReported ==
    [][GateNext /\ step' = "done" =>
        (unremoved' /\ outcome' = "blocked")
        \/ ~\E c \in containers' : c.owner = "us"]_vars

\* No command of the gate removes a container of somebody else, not even one
\* with the name of ours (release_contract.py:69-79).
OthersAreKept ==
    [][GateNext => \A c \in containers \ containers' : c.owner = "us"]_vars

Ended == outcome # "none"

\* Every inspection ends, with an answer.
TheGateAnswers == <>Ended

=============================================================================
