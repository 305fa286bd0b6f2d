------------------------- MODULE ReplicaBatchProperties ------------------------
(***************************************************************************)
(* What a passed batch says about the replicas.                            *)
(***************************************************************************)
EXTENDS ReplicaBatch

\* Whatever the locks of the service are, a batch passes only if the database
\* then holds what a serial service would have stored: one reservation for one
\* key, no more than the stock, one restoration (replica-drill.py:99-126).
PassedMeansSerial ==
    outcome = "passed" =>
        /\ stock = ExpectedStock
        /\ CASE kind = "contend" -> Cardinality(records) = Fits
             [] kind = "cancel" -> records = {[Earlier EXCEPT !.status =
                                                 "CANCELLED"]}
             [] kind = "replay" -> records = {Earlier}
             [] kind = "create" -> Cardinality(records) = 1

\* Replicas that lock in the database and answer in time are not accused.
NoFalseAlarm == locks = "shared" /\ ~troubled => outcome # "failed"

\* When a batch is over, failed or not, none of its threads is left to send
\* requests while the cleanup removes what they use (replica-drill.py:88-89).
NoThreadOutlivesItsBatch ==
    outcome # "none" =>
        \A w \in Threads : thread[w] \in {"ended", "raised"}

Ended == outcome \in {"passed", "failed"}

\* The barrier and the requests have timeouts: every batch ends.
EveryBatchEnds == <>Ended

=============================================================================
