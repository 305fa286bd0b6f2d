------------------------- MODULE DrillChecksProperties -------------------------
(***************************************************************************)
(* What the reports of the drills claim: that a drill which passes has     *)
(* seen the behaviours it lists, and that a sound application passes.      *)
(***************************************************************************)
EXTENDS DrillChecks

LOCAL Idempotency ==
    {"replay reserves again", "replay subtracts again",
     "reserving subtracts nothing", "cancelled keys are free",
     "cancelling keeps the status", "cancelling adds every time",
     "cancelling returns nothing"}

\* What the "checks" of each report say was verified
\* (recovery-drill.py:355-357, credential-rotation-drill.py:66-69,
\* rollback-drill.py:238-279, replica-drill.py:239-244, oidc-drill.py:242-289,
\* monitoring-drill.py:297-299, demo-local.py:55).
Claimed ==
    [recovery |-> Idempotency \cup
         {"keys end with their process", "dump misses reservations",
          "dump misses stock", "restored runtime serves the source"},
     rotation |-> Idempotency \cup
         {"keys end with their process", "passwords are not rotated",
          "old passwords stay valid"},
     rollback |-> Idempotency \cup
         {"keys end with their process", "old code fails on the new schema",
          "candidate rewrites history", "rollback removes the column",
          "rollback starts the candidate"},
     replicas |-> Idempotency \cup
         {"keys end with their process", "sells more than there is"},
     oidc |-> BadCredentials \cup
         {"customers create products", "anyone reads", "anyone lists",
          "anyone cancels", "replay reserves again", "replay subtracts again",
          "reserving subtracts nothing", "cancelling keeps the status",
          "cancelling adds every time", "cancelling returns nothing"},
     monitoring |-> {"replay reserves again", "replay subtracts again",
                     "cancelling returns nothing"},
     demo |-> (Idempotency \cup {"any payload replays", "nobody"})]

\* A drill that passes has met none of the defects its report rules out: some
\* answer on the way to the end gives each of them away.
PassedMeansClaimed == verdict = "passed" => defect \notin Claimed[drill]

\* A drill of a sound application passes unless something interrupts it: every
\* number and every status in the scripts is the one the service must give.
SoundApplicationsPass ==
    <>(verdict = "passed" \/ interrupted \/ defect # NoDefect)

=============================================================================
