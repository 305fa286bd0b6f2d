--------------------------- MODULE LoadTestProperties --------------------------
(***************************************************************************)
(* What a reader of the load report relies on.                             *)
(***************************************************************************)
EXTENDS LoadTest

Held == {w \in Workers : job[w] # 0}

\* Every job up to the cursor is held by one worker or has one sample, so that
\* the samples are as many as the requests sent (load-test.py:64-68, 94).
EveryJobIsCountedOnce ==
    /\ {job[w] : w \in Held} \cup {s.index : s \in samples} = 1..cursor
    /\ Cardinality(Held) + Cardinality(samples) = cursor

\* A passed test did sell the stock, exactly, whether or not the service has a
\* race, and nothing it sent is still to be carried out.
PassedMeansSoldExactly ==
    report = "passed" =>
        /\ stock = 0
        /\ Cardinality(stored) = Stock
        /\ \A i \in Jobs : request[i] \notin {"none", "sent", "read"}

\* A service without race, that answers every request in time, passes.
NoFalseAlarm ==
    service = "atomic" /\ ~troubled /\ ~expired => report # "failed"

\* The requests still open when the report is there are those nobody waits for,
\* and then it does not say passed.
OpenRequestsFailTheTest ==
    report \in {"read", "counted", "passed"} =>
        \A i \in Jobs :
            request[i] \in {"sent", "read"} =>
                \E s \in samples : s.index = i /\ s.status = "transport error"

Ended == report \in {"passed", "failed"}

\* The test ends although the service may never answer.
TheTestEnds == <>Ended

=============================================================================
