-------------------------------- MODULE LoadTest -------------------------------
(***************************************************************************)
(* run_load of load-test.py: workers take jobs from a list under a lock,   *)
(* first all reservations of one unit, then reads, until the list or the   *)
(* time is over, and the final stock and reservations are compared with    *)
(* what the workers were told.                                             *)
(*                                                                         *)
(* The service the test judges either decides and stores a reservation in  *)
(* one step, as the program does, or reads the stock first, as a broken    *)
(* one would.  A request without key is not retried: one whose client gave *)
(* up may still be carried out.                                            *)
(***************************************************************************)
EXTENDS Integers, FiniteSets

CONSTANTS
    Workers,
    Reservations,   \* reservations_target
    Reads,
    Stock

Requests == Reservations + Reads
Jobs == 1..Requests

LoadAssumption ==
    /\ Workers # {}
    /\ IsFiniteSet(Workers)
    /\ Stock \in Nat
    /\ Reservations \in Nat
    /\ Reservations > Stock
    /\ Reads \in Nat

VARIABLES
    cursor,
    expired,        \* the deadline has passed
    job,            \* of each worker, 0 when it has none
    done,           \* the workers that have returned
    samples,
    finalStock, finalCount,
    report,
    service,        \* "atomic", or "racy"
    request,        \* what the service does about each job
    seen,           \* the stock a racy request has read
    stock, stored,
    troubled        \* some request failed or timed out

client == <<cursor, expired, job, done, samples>>
verdict == <<finalStock, finalCount, report>>
server == <<service, request, seen, stock, stored>>
vars == <<client, verdict, server, troubled>>

Operation(i) == IF i <= Reservations THEN "reserve" ELSE "read"
Unread == Stock + 1
Statuses == {"200", "201", "409 stock", "other", "transport error"}

TypeOK ==
    /\ cursor \in 0..Requests
    /\ expired \in BOOLEAN
    /\ job \in [Workers -> {0} \cup Jobs]
    /\ done \subseteq Workers
    /\ samples \subseteq [index : Jobs, worker : Workers, status : Statuses]
    /\ finalStock \in 0..Unread
    /\ finalCount \in Nat
    /\ report \in {"none", "read", "counted", "passed", "failed"}
    /\ service \in {"atomic", "racy"}
    /\ request \in [Jobs -> {"none", "sent", "read"} \cup Statuses]
    /\ seen \in [Jobs -> 0..Unread]
    /\ stock \in 0..Stock
    /\ stored \subseteq Jobs
    /\ troubled \in BOOLEAN

Init ==
    /\ cursor = 0
    /\ expired = FALSE
    /\ job = [w \in Workers |-> 0]
    /\ done = {}
    /\ samples = {}
    /\ finalStock = Unread
    /\ finalCount = 0
    /\ report = "none"
    /\ service \in {"atomic", "racy"}
    /\ request = [i \in Jobs |-> "none"]
    /\ seen = [i \in Jobs |-> Unread]
    /\ stock = Stock
    /\ stored = {}
    /\ troubled = FALSE

Fault == troubled' = TRUE

-----------------------------------------------------------------------------
(* The workers.                                                            *)

\* Mutant: the cursor moves on when the answer is there.
TakeLate(w) ==
    /\ w \notin done
    /\ job[w] = 0
    /\ cursor < Requests
    /\ ~expired
    /\ job' = [job EXCEPT ![w] = cursor + 1]
    /\ request' = [request EXCEPT ![cursor + 1] = "sent"]
    /\ cursor' = IF \E v \in Workers : job[v] = cursor + 1
                 THEN cursor + 1 ELSE cursor
    /\ UNCHANGED <<expired, done, samples, verdict, service, seen, stock,
                   stored, troubled>>

\* The next job is taken under the lock, and its request sent.
Take(w) ==
    /\ w \notin done
    /\ job[w] = 0
    /\ cursor < Requests
    /\ ~expired
    /\ cursor' = cursor + 1
    /\ job' = [job EXCEPT ![w] = cursor + 1]
    /\ request' = [request EXCEPT ![cursor + 1] = "sent"]
    /\ UNCHANGED <<expired, done, samples, verdict, service, seen, stock,
                   stored, troubled>>

\* No job or no time is left.
Return(w) ==
    /\ w \notin done
    /\ job[w] = 0
    /\ cursor >= Requests \/ expired
    /\ done' = done \cup {w}
    /\ UNCHANGED <<cursor, expired, job, samples, verdict, server, troubled>>

Sample(w, status) ==
    /\ samples' = samples \cup
                    {[index |-> job[w], worker |-> w, status |-> status]}
    /\ job' = [job EXCEPT ![w] = 0]
    /\ UNCHANGED <<cursor, expired, done, verdict, server>>

\* The answer is received.
Receive(w) ==
    /\ job[w] # 0
    /\ request[job[w]] \in Statuses
    /\ Sample(w, request[job[w]])
    /\ UNCHANGED troubled

\* Mutant: the wait for an answer has no timeout.
NeverGiveUp(w) ==
    /\ job[w] # 0
    /\ request[job[w]] \in Statuses
    /\ Fault
    /\ Sample(w, "transport error")

\* The request fails or times out, whatever becomes of it.
GiveUp(w) ==
    /\ job[w] # 0
    /\ Fault
    /\ Sample(w, "transport error")

Expire ==
    /\ ~expired
    /\ expired' = TRUE
    /\ UNCHANGED <<cursor, job, done, samples, verdict, server, troubled>>

-----------------------------------------------------------------------------
(* The service.                                                            *)

Answer(i, status) == request' = [request EXCEPT ![i] = status]

\* Mutant: the stock is not compared.
StoreAlways(i, from) ==
    /\ stock' = from - 1
    /\ stored' = stored \cup {i}
    /\ Answer(i, "201")

Store(i, from) ==
    IF from > 0
    THEN /\ stock' = from - 1
         /\ stored' = stored \cup {i}
         /\ Answer(i, "201")
    ELSE Answer(i, "409 stock") /\ UNCHANGED <<stock, stored>>

Reserve(i) ==
    /\ Operation(i) = "reserve"
    /\ \/ service = "atomic" /\ request[i] = "sent" /\ Store(i, stock)
          /\ UNCHANGED seen
       \/ /\ service = "racy"
          /\ request[i] = "sent"
          /\ seen' = [seen EXCEPT ![i] = stock]
          /\ request' = [request EXCEPT ![i] = "read"]
          /\ UNCHANGED <<stock, stored>>
       \/ request[i] = "read" /\ Store(i, seen[i]) /\ UNCHANGED seen
    /\ UNCHANGED <<client, verdict, service, troubled>>

Read(i) ==
    /\ Operation(i) = "read"
    /\ request[i] = "sent"
    /\ Answer(i, "200")
    /\ UNCHANGED <<client, verdict, service, seen, stock, stored, troubled>>

\* Another answer: a conflict about a lock, an error.
Refuse(i) ==
    /\ request[i] = "sent"
    /\ Fault
    /\ Answer(i, "other")
    /\ UNCHANGED <<client, verdict, service, seen, stock, stored>>

-----------------------------------------------------------------------------
(* The result.                                                             *)

\* Mutant: nobody waits for the workers.
ReadStockEarly ==
    /\ report = "none"
    /\ cursor = Requests
    /\ \/ report' = "read" /\ finalStock' = stock /\ UNCHANGED troubled
       \/ report' = "failed" /\ Fault /\ UNCHANGED finalStock
    /\ UNCHANGED <<client, finalCount, server>>

\* The workers have been joined; each of the two reads may fail.
ReadStock ==
    /\ report = "none"
    /\ done = Workers
    /\ \/ report' = "read" /\ finalStock' = stock /\ UNCHANGED troubled
       \/ report' = "failed" /\ Fault /\ UNCHANGED finalStock
    /\ UNCHANGED <<client, finalCount, server>>

CountReservations ==
    /\ report = "read"
    /\ \/ report' = "counted" /\ finalCount' = Cardinality(stored)
          /\ UNCHANGED troubled
       \/ report' = "failed" /\ Fault /\ UNCHANGED finalCount
    /\ UNCHANGED <<client, finalStock, server>>

With(status) == {s \in samples : s.status = status}
Successes == Cardinality(With("201"))

\* Mutant: errors are only counted.
MeetsWithErrors ==
    /\ Cardinality(samples) = Requests
    /\ Successes = Stock
    /\ finalStock = 0
    /\ finalCount = Successes

\* Mutant: one reservation more than the stock is expected.
MeetsOneMore ==
    /\ Cardinality(samples) = Requests
    /\ With("other") \cup With("transport error") = {}
    /\ Successes = Stock + 1
    /\ finalCount = Successes

\* What the report requires.
Meets ==
    /\ Cardinality(samples) = Requests
    /\ With("other") \cup With("transport error") = {}
    /\ Successes = Stock
    /\ finalStock = 0
    /\ finalCount = Successes

\* A test that used its time up may also have used too much.
Judge ==
    /\ report = "counted"
    /\ \/ report' = IF Meets THEN "passed" ELSE "failed"
       \/ expired /\ report' = "failed"
    /\ UNCHANGED <<client, finalStock, finalCount, server, troubled>>

-----------------------------------------------------------------------------

WorkerNext == \E w \in Workers : Take(w) \/ Return(w) \/ Receive(w) \/ GiveUp(w)
ServiceNext == \E i \in Jobs : Reserve(i) \/ Read(i) \/ Refuse(i)
MainNext == ReadStock \/ CountReservations \/ Judge

Next == WorkerNext \/ ServiceNext \/ MainNext \/ Expire

\* Time passes and the workers and the main thread run; the service may not.
Fairness ==
    /\ WF_vars(Expire)
    /\ WF_vars(WorkerNext \/ MainNext)

Spec == Init /\ [][Next]_vars
FairSpec == Spec /\ Fairness

=============================================================================
