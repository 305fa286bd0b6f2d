--------------------------- MODULE MCReleasePipeline ---------------------------
(***************************************************************************)
(* Small instances of ReleasePipeline: one image that meets the contract,  *)
(* one from before idempotent reservations, one without any contract.      *)
(***************************************************************************)
EXTENDS ReleasePipelineProperties, TLC

CONSTANTS run1, run2, first, hand, blank, current, older, bare,
          migrations, runtime, idempotency

Declared ==
    current :> [service |-> "inventory-cloud-service",
                capabilities |-> {migrations, runtime, idempotency}]
 @@ older :> [service |-> "inventory-cloud-service",
              capabilities |-> {migrations, runtime}]
 @@ bare :> NoContract

\* What Terraform registered, and what an operator may put there by hand.
OthersImage == first :> current @@ hand :> older @@ blank :> bare

\* The service is in order.
LiveService == {[task |-> first, count |-> 1]}

\* The service was created, with no task, from an image without a contract.
NewService == {[task |-> blank, count |-> 0]}

LiveOrNewService == LiveService \cup NewService
=============================================================================
