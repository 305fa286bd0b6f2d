------------------------------ MODULE ReplicaBatch -----------------------------
(***************************************************************************)
(* concurrent_batch of replica-drill.py and the requirements that follow:  *)
(* one thread per request waits at a barrier, then sends its request to    *)
(* one of two replicas; when all threads have ended the answers and the    *)
(* stock are compared with what one serial service would have produced.    *)
(*                                                                         *)
(* The replicas either lock rows in their shared database, as the program  *)
(* does, or each locks within its own process only, the mistake the drill  *)
(* is there to find.                                                       *)
(***************************************************************************)
EXTENDS Integers, FiniteSets

CONSTANTS
    Count,      \* threads
    Stock, Quantity

Threads == 1..Count
Replica(w) == w % 2

BatchAssumption ==
    /\ Count \in Nat
    /\ Count >= 2
    /\ Count % 2 = 0
    /\ Stock \in Nat
    /\ Quantity \in 1..Stock

\* "create" and "replay" reserve with one key, "contend" with a key each.
Kinds == {"create", "contend", "cancel", "replay"}

VARIABLES
    kind, locks,
    barrier,        \* "filling", "open" or "broken"
    thread,         \* what each thread does
    answer,         \* of its request
    outcome,        \* of the batch
    request,        \* what the service does about each request
    holder,         \* the request that holds each lock
    seen,           \* what a request has read under its lock
    stock, records, \* the database
    troubled        \* a request or a wait has failed

batch == <<kind, locks>>
client == <<barrier, thread, answer, outcome>>
server == <<request, holder, seen, stock, records>>
vars == <<batch, client, server, troubled>>

Locks == IF locks = "shared" THEN {"database"} ELSE {0, 1}
LockOf(w) == IF locks = "shared" THEN "database" ELSE Replica(w)

Records == [id : 0..Count, status : {"ACTIVE", "CANCELLED"}]
NoAnswer == [status |-> "none"]
\* "409" is a refusal for want of stock.
Plain == {"none", "409", "other"}
Answers == [status : Plain] \cup [status : {"200", "201"}, record : Records]
Snapshots == [stock : 0..(Stock + Quantity), records : SUBSET Records]

TypeOK ==
    /\ kind \in Kinds
    /\ locks \in {"shared", "local"}
    /\ barrier \in {"filling", "open", "broken"}
    /\ thread \in [Threads -> {"start", "waiting", "sent", "ended", "raised"}]
    /\ answer \in [Threads -> Answers]
    /\ outcome \in {"none", "answered", "passed", "failed"}
    /\ request \in [Threads -> {"none", "sent", "locked", "done"}]
    /\ holder \in [Locks -> 0..Count]
    /\ seen \in [Threads -> Snapshots]
    /\ stock \in 0..Stock
    /\ records \subseteq Records
    /\ troubled \in BOOLEAN

\* The reservation an earlier batch has left.
Earlier == [id |-> 0, status |-> "ACTIVE"]

Init ==
    /\ kind \in Kinds
    /\ locks \in {"shared", "local"}
    /\ barrier = "filling"
    /\ thread = [w \in Threads |-> "start"]
    /\ answer = [w \in Threads |-> NoAnswer]
    /\ outcome = "none"
    /\ request = [w \in Threads |-> "none"]
    /\ holder = [l \in Locks |-> 0]
    /\ records = IF kind \in {"cancel", "replay"} THEN {Earlier} ELSE {}
    /\ stock = IF records = {} THEN Stock ELSE Stock - Quantity
    /\ seen = [w \in Threads |-> [stock |-> stock, records |-> records]]
    /\ troubled = FALSE

Fault == troubled' = TRUE

-----------------------------------------------------------------------------
(* The threads.                                                            *)

\* A thread comes to the barrier; the last one opens it.
Arrive(w) ==
    /\ thread[w] = "start"
    /\ thread' = [thread EXCEPT ![w] =
                    IF barrier = "broken" THEN "raised" ELSE "waiting"]
    /\ barrier' = IF \A v \in Threads : thread'[v] = "waiting"
                  THEN "open" ELSE barrier
    /\ UNCHANGED <<batch, answer, outcome, server, troubled>>

\* The wait of some thread times out before the last one comes.
Break ==
    /\ barrier = "filling"
    /\ \E v \in Threads : thread[v] = "waiting"
    /\ barrier' = "broken"
    /\ Fault
    /\ UNCHANGED <<batch, thread, answer, outcome, server>>

Send(w) ==
    /\ thread[w] = "waiting"
    /\ \/ /\ barrier = "open"
          /\ thread' = [thread EXCEPT ![w] = "sent"]
          /\ request' = [request EXCEPT ![w] = "sent"]
       \/ /\ barrier = "broken"
          /\ thread' = [thread EXCEPT ![w] = "raised"]
          /\ UNCHANGED request
    /\ UNCHANGED <<batch, barrier, answer, outcome, holder, seen, stock,
                   records, troubled>>

Receive(w) ==
    /\ thread[w] = "sent"
    /\ request[w] = "done"
    /\ thread' = [thread EXCEPT ![w] = "ended"]
    /\ UNCHANGED <<batch, barrier, answer, outcome, server, troubled>>

\* Mutant: a request has no timeout.
GiveUpAnswered(w) ==
    /\ thread[w] = "sent"
    /\ request[w] = "done"
    /\ thread' = [thread EXCEPT ![w] = "raised"]
    /\ Fault
    /\ UNCHANGED <<batch, barrier, answer, outcome, server>>

\* The request times out or fails, whatever becomes of it.
GiveUp(w) ==
    /\ thread[w] = "sent"
    /\ thread' = [thread EXCEPT ![w] = "raised"]
    /\ Fault
    /\ UNCHANGED <<batch, barrier, answer, outcome, server>>

-----------------------------------------------------------------------------
(* The service, reduced to one lock around one read and one write.         *)

Lock(w) ==
    /\ request[w] = "sent"
    /\ holder[LockOf(w)] = 0
    /\ holder' = [holder EXCEPT ![LockOf(w)] = w]
    /\ seen' = [seen EXCEPT ![w] = [stock |-> stock, records |-> records]]
    /\ request' = [request EXCEPT ![w] = "locked"]
    /\ UNCHANGED <<batch, client, stock, records, troubled>>

Reply(w, status, record) ==
    answer' = [answer EXCEPT ![w] = [status |-> status, record |-> record]]

\* Mutant: the stock is not compared.
CreateAlways(w) ==
    LET new == [id |-> w, status |-> "ACTIVE"] IN
    /\ stock' = seen[w].stock - Quantity
    /\ records' = records \cup {new}
    /\ Reply(w, "201", new)

Create(w) ==
    LET new == [id |-> w, status |-> "ACTIVE"] IN
    IF seen[w].stock >= Quantity
    THEN /\ stock' = seen[w].stock - Quantity
         /\ records' = records \cup {new}
         /\ Reply(w, "201", new)
    ELSE /\ answer' = [answer EXCEPT ![w] = [status |-> "409"]]
         /\ UNCHANGED <<stock, records>>

Decide(w) ==
    CASE kind = "contend" -> Create(w)
      [] kind \in {"create", "replay"} ->
            \/ seen[w].records = {} /\ Create(w)
            \/ \E record \in seen[w].records :
                 Reply(w, "200", record) /\ UNCHANGED <<stock, records>>
      [] kind = "cancel" ->
            \E record \in seen[w].records :
                LET cancelled == [record EXCEPT !.status = "CANCELLED"] IN
                /\ Reply(w, "200", cancelled)
                /\ IF record.status = "ACTIVE"
                   THEN /\ stock' = seen[w].stock + Quantity
                        /\ records' = (records \ {record}) \cup {cancelled}
                   ELSE UNCHANGED <<stock, records>>

Commit(w) ==
    /\ request[w] = "locked"
    /\ Decide(w)
    /\ request' = [request EXCEPT ![w] = "done"]
    /\ holder' = [holder EXCEPT ![LockOf(w)] = 0]
    /\ UNCHANGED <<batch, barrier, thread, outcome, seen, troubled>>

\* The lock or something else is not to be had in time.
Refuse(w) ==
    /\ request[w] = "sent"
    /\ request' = [request EXCEPT ![w] = "done"]
    /\ answer' = [answer EXCEPT ![w] = [status |-> "other"]]
    /\ Fault
    /\ UNCHANGED <<batch, barrier, thread, outcome, holder, seen, stock,
                   records>>

-----------------------------------------------------------------------------
(* The result.                                                             *)

\* Mutant: the first exception ends the batch.
JoinFirst ==
    /\ outcome = "none"
    /\ \/ /\ \E w \in Threads : thread[w] = "raised"
          /\ outcome' = "failed"
       \/ /\ \A w \in Threads : thread[w] = "ended"
          /\ outcome' = "answered"
    /\ UNCHANGED <<batch, barrier, thread, answer, server, troubled>>

\* The pool is left when every thread has ended; an exception of one is raised.
Join ==
    /\ outcome = "none"
    /\ \A w \in Threads : thread[w] \in {"ended", "raised"}
    /\ outcome' = IF \A w \in Threads : thread[w] = "ended"
                  THEN "answered" ELSE "failed"
    /\ UNCHANGED <<batch, barrier, thread, answer, server, troubled>>

Number(status) == Cardinality({w \in Threads : answer[w].status = status})

SameRecord ==
    /\ \A w \in Threads : answer[w].status \in {"200", "201"}
    /\ \A v, w \in Threads : answer[v].record = answer[w].record

\* require_same_reservation
RequireSameReservation(created) ==
    /\ Number("201") = created
    /\ Number("200") = Count - created
    /\ SameRecord
    /\ \A w \in Threads :
        answer[w].record.status =
            IF kind = "cancel" THEN "CANCELLED" ELSE "ACTIVE"
    /\ kind \in {"cancel", "replay"} =>
        \A w \in Threads : answer[w].record.id = Earlier.id

Capacity == Stock \div Quantity
Fits == IF Capacity < Count THEN Capacity ELSE Count

\* Mutant: more successes are as good.
RequireAtLeast ==
    /\ Number("201") >= Fits
    /\ Number("409") = Count - Number("201")

\* require_stock_conflicts
RequireStockConflicts ==
    /\ Number("201") = Fits
    /\ Number("409") = Count - Fits
    /\ Cardinality({answer[w].record.id :
            w \in {v \in Threads : answer[v].status = "201"}}) = Fits

\* Mutant: the conflicting requests count as served.
OneConflictLess ==
    CASE kind = "create" -> RequireSameReservation(1)
      [] kind = "contend" -> RequireStockConflicts /\ Number("409") = 0
      [] OTHER -> RequireSameReservation(0)

Requirement ==
    CASE kind = "create" -> RequireSameReservation(1)
      [] kind = "contend" -> RequireStockConflicts
      [] OTHER -> RequireSameReservation(0)

ExpectedStock ==
    CASE kind = "contend" -> Stock - Fits * Quantity
      [] kind = "cancel" -> Stock
      [] OTHER -> Stock - Quantity

\* The requirement, then verify_stock on both replicas.
Verify ==
    /\ outcome = "answered"
    /\ \/ /\ outcome' = IF Requirement /\ stock = ExpectedStock
                        THEN "passed" ELSE "failed"
          /\ UNCHANGED troubled
       \/ outcome' = "failed" /\ Fault
    /\ UNCHANGED <<batch, barrier, thread, answer, server>>

-----------------------------------------------------------------------------

ThreadNext(w) == Arrive(w) \/ Send(w) \/ Receive(w) \/ GiveUp(w)
DrillNext == (\E w \in Threads : ThreadNext(w)) \/ Join \/ Verify
ServiceNext == \E w \in Threads : Lock(w) \/ Commit(w) \/ Refuse(w)

Next == DrillNext \/ ServiceNext \/ Break

\* The threads run, and their waits have timeouts; the service may not answer.
Fairness == WF_vars(DrillNext)

Spec == Init /\ [][Next]_vars
FairSpec == Spec /\ Fairness

=============================================================================
