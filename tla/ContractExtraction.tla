--------------------------- MODULE ContractExtraction --------------------------
(***************************************************************************)
(* The inspection of release contracts by release_contract.py, for         *)
(* verify-deployment-image.py (the candidate, then the image of a running  *)
(* service) and for the drills (one local image): pull, inspect, create a  *)
(* container that never runs, copy the contract out of it, validate it,    *)
(* and remove the container again.                                         *)
(*                                                                         *)
(* Every command is answered, fails, or loses its answer after the Docker  *)
(* daemon has done what it asks, which run_checked reports as one error.   *)
(* A container whose creation timed out may also appear later.  Containers *)
(* of others are there from the start, and some of them have a name that   *)
(* contains ours, or is ours.  Their owners may remove containers, ours    *)
(* too (docker container prune): none of them runs.                        *)
(***************************************************************************)
EXTENDS Integers, Sequences, FiniteSets

CONSTANTS
    References,     \* of images
    Foreign,        \* containers of others that may be there
    MaxPrunes       \* bound on removals by others

\* What an image turns out to be.  All but the first are refused.
Kinds == {"compatible", "other digest", "other platform", "no contract",
          "invalid contract"}

\* Names of containers: ours in each inspection, and a longer one.
Names == {"ours", "ours and more"}
Owners == {"us", "another"}
Containers == [name : Names, round : 1..2, owner : Owners, image : References]

\* Docker gives a name once.
ExtractionAssumption ==
    /\ Foreign \subseteq {c \in Containers : c.owner = "another"}
    /\ \A c, d \in Foreign : c.name = d.name /\ c.round = d.round => c = d
    /\ MaxPrunes \in Nat

VARIABLES
    wanted,         \* the images to inspect, in their order
    local,          \* inspect_local_contract: no pull, an image id
    kind,           \* of each image
    round, step,    \* which inspection, and its next command
    failed,         \* the try block of _extract_contract raised an exception
    outcome,        \* "none", "allowed" or "blocked"
    unremoved,      \* removal of a container was reported as failed
    containers,     \* of the daemon
    late,           \* containers it is still to create
    prunes

question == <<wanted, local, kind>>
gate == <<round, step, failed, outcome, unremoved>>
vars == <<question, gate, containers, late, prunes>>

Steps == {"pull", "inspect", "create", "copy", "validate", "list", "look",
          "remove", "done"}

TypeOK ==
    /\ wanted \in {<<r>> : r \in References} \cup (References \X References)
    /\ local \in BOOLEAN
    /\ kind \in [References -> Kinds]
    /\ round \in 1..Len(wanted)
    /\ step \in Steps
    /\ failed \in BOOLEAN
    /\ outcome \in {"none", "allowed", "blocked"}
    /\ unremoved \in BOOLEAN
    /\ containers \subseteq Containers
    /\ late \subseteq Containers
    /\ prunes \in 0..MaxPrunes

Init ==
    /\ wanted \in {<<r>> : r \in References} \cup (References \X References)
    /\ local \in BOOLEAN
    /\ local => Len(wanted) = 1
    /\ kind \in [References -> Kinds]
    /\ round = 1
    /\ step = IF local THEN "inspect" ELSE "pull"
    /\ failed = FALSE
    /\ outcome = "none"
    /\ unremoved = FALSE
    /\ containers \in SUBSET Foreign
    /\ late = {}
    /\ prunes = 0

Image == wanted[round]
Ours == [name |-> "ours", round |-> round, owner |-> "us", image |-> Image]

\* docker container ls --filter name= finds every name that contains it, and
\* docker names its containers uniquely.
Listed == {c \in containers : c.round = round}
Named == {c \in containers : c.round = round /\ c.name = "ours"}

-----------------------------------------------------------------------------

Block ==
    /\ step' = "done"
    /\ outcome' = "blocked"
    /\ UNCHANGED <<round, failed>>

Goto(s) ==
    /\ step' = s
    /\ UNCHANGED <<round, failed, outcome>>

\* Mutant: clean up only what docker create has answered for.
RaiseUnlessCreated ==
    /\ IF step = "create"
       THEN step' = "done" /\ outcome' = "blocked"
       ELSE step' = "list" /\ UNCHANGED outcome
    /\ failed' = TRUE
    /\ UNCHANGED round

\* An exception in the try block, whose finally block follows.
Raise ==
    /\ step' = "list"
    /\ failed' = TRUE
    /\ UNCHANGED <<round, outcome>>

\* Mutant: the baseline of a running service is not inspected.
AllowTheCandidate ==
    /\ step' = "done"
    /\ outcome' = IF failed THEN "blocked" ELSE "allowed"
    /\ UNCHANGED <<round, failed>>

\* Mutant: one inspection too many.
InspectOneMore ==
    \/ /\ failed
       /\ Block
    \/ /\ ~failed
       /\ round <= Len(wanted)
       /\ round' = round + 1
       /\ step' = "pull"
       /\ UNCHANGED <<failed, outcome>>

\* The end of an inspection whose container is removed, or was never there.
Conclude ==
    \/ /\ failed
       /\ Block
    \/ /\ ~failed
       /\ round < Len(wanted)
       /\ round' = round + 1
       /\ step' = "pull"
       /\ UNCHANGED <<failed, outcome>>
    \/ /\ ~failed
       /\ round = Len(wanted)
       /\ step' = "done"
       /\ outcome' = "allowed"
       /\ UNCHANGED <<round, failed>>

\* An exception in the finally block replaces the result, or the exception,
\* of the try block.
RemovalFails == Block /\ unremoved' = TRUE

-----------------------------------------------------------------------------

Pull ==
    /\ step = "pull"
    /\ \/ Goto("inspect")
       \/ Block
    /\ UNCHANGED <<question, unremoved, containers, late, prunes>>

\* Mutant: the digests of the pulled image are not compared.
InspectPlatform ==
    /\ step = "inspect"
    /\ \/ kind[Image] # "other platform" /\ Goto("create")
       \/ Block
    /\ UNCHANGED <<question, unremoved, containers, late, prunes>>

Inspect ==
    /\ step = "inspect"
    /\ \/ kind[Image] \notin {"other digest", "other platform"} /\ Goto("create")
       \/ Block
    /\ UNCHANGED <<question, unremoved, containers, late, prunes>>

\* docker create: done and answered, failed, done but unanswered, or timed out
\* and done later.
Create ==
    /\ step = "create"
    /\ \/ /\ Named = {}
          /\ containers' = containers \cup {Ours}
          /\ Goto("copy") \/ Raise
          /\ UNCHANGED late
       \/ /\ Named = {}
          /\ late' = late \cup {Ours}
          /\ Raise
          /\ UNCHANGED containers
       \/ /\ Raise
          /\ UNCHANGED <<containers, late>>
    /\ UNCHANGED <<question, unremoved, prunes>>

Copy ==
    /\ step = "copy"
    /\ \/ /\ \E c \in Named : kind[c.image] # "no contract"
          /\ Goto("validate")
       \/ Raise
    /\ UNCHANGED <<question, unremoved, containers, late, prunes>>

Validate ==
    /\ step = "validate"
    /\ IF kind[Image] = "invalid contract" THEN Raise ELSE Goto("list")
    /\ UNCHANGED <<question, unremoved, containers, late, prunes>>

\* _remove_owned_container, its first command.
List ==
    /\ step = "list"
    /\ \/ Listed = {} /\ Conclude /\ UNCHANGED unremoved
       \/ Cardinality(Listed) = 1 /\ Goto("look") /\ UNCHANGED unremoved
       \/ RemovalFails
    /\ UNCHANGED <<question, containers, late, prunes>>

\* Mutant: the name alone shows whose container it is.
LookAtName ==
    /\ step = "look"
    /\ \/ Named # {} /\ Goto("remove") /\ UNCHANGED unremoved
       \/ RemovalFails
    /\ UNCHANGED <<question, containers, late, prunes>>

\* Name, label and image must be those of the container to be removed.
Look ==
    /\ step = "look"
    /\ \/ Ours \in Named /\ Goto("remove") /\ UNCHANGED unremoved
       \/ RemovalFails
    /\ UNCHANGED <<question, containers, late, prunes>>

\* Mutant: the container is called removed before it is.
RemoveUnasked ==
    /\ step = "remove"
    /\ Conclude
    /\ UNCHANGED <<question, unremoved, containers, late, prunes>>

\* Mutant: the removal is repeated until it removes something.
RemovePatiently ==
    /\ step = "remove"
    /\ Named # {}
    /\ containers' = containers \ Named
    /\ Conclude /\ UNCHANGED unremoved
    /\ UNCHANGED <<question, late, prunes>>

Remove ==
    /\ step = "remove"
    /\ \/ /\ Named # {}
          /\ containers' = containers \ Named
          /\ (Conclude /\ UNCHANGED unremoved) \/ RemovalFails
       \/ /\ RemovalFails
          /\ UNCHANGED containers
    /\ UNCHANGED <<question, late, prunes>>

GateNext ==
    Pull \/ Inspect \/ Create \/ Copy \/ Validate \/ List \/ Look \/ Remove

-----------------------------------------------------------------------------

CreatedLate ==
    \E c \in late :
        /\ ~\E d \in containers : d.name = c.name /\ d.round = c.round
        /\ containers' = containers \cup {c}
        /\ late' = late \ {c}
        /\ UNCHANGED <<question, gate, prunes>>

Prune ==
    /\ prunes < MaxPrunes
    /\ \E c \in containers : containers' = containers \ {c}
    /\ prunes' = prunes + 1
    /\ UNCHANGED <<question, gate, late>>

Next == GateNext \/ CreatedLate \/ Prune

Spec == Init /\ [][Next]_vars

\* run_checked bounds every command.
Fairness == WF_vars(GateNext)
FairSpec == Spec /\ Fairness

=============================================================================
