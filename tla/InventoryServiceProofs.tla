------------------------ MODULE InventoryServiceProofs ------------------------
(***************************************************************************)
(* Proofs about InventoryService, for every set of requests, instances,    *)
(* products and keys and every workload.                                   *)
(*                                                                         *)
(* The argument: the locks are where the position of each request says     *)
(* they are (LocksInv), so the holder of a product's lock is the only      *)
(* request with a pending write to it, and what it read is still there     *)
(* (WorkInv); the holder of a key's lock is the only one with a pending    *)
(* insert under that key.  Hence a commit is one step of the ledger, whose *)
(* steps conserve stock (ConservationInv); and a commit adds to the tables *)
(* what it owes to the counters, until it is acknowledged or lost          *)
(* (CountersInv).  What a refusal was decided on is protected in the same  *)
(* way, so that each call is one instant for its client (AtomicInv).       *)
(***************************************************************************)
EXTENDS InventoryServiceProperties, FiniteSums, TLAPS

Refusals == {"badRequest", "notFound", "conflict", "retry"}

\* Positions and arguments agree.
CallsInv ==
    \A r \in Requests :
        /\ pc[r] # "idle" => /\ call[r] \in Workload \cup CancelCalls
                             /\ home[r] \in Instances
        /\ pc[r] = "idle" => home[r] = NoInstance
        /\ pc[r] \in {"acquireKey", "findByKey"} => Keyed(r)
        /\ pc[r] = "lockReservation" => Kind(r) = "cancel"
        /\ pc[r] \notin {"idle", "answered"} /\ Kind(r) # "cancel" =>
              call[r].quantity \in 1..MaxQuantity
        /\ pc[r] # "idle" /\ Kind(r) = "cancel" =>
              call[r].reservation \in Stored
        /\ r \in abandoned => pc[r] \in Waits

\* A lock is held exactly from the statement that takes it to the end of the
\* transaction.
HoldsKey(r, l) ==
    /\ pc[r] \in {"findByKey", "lockProduct", "commit"}
    /\ Keyed(r)
    /\ KeyLock(r) = l

HoldsProduct(r, p) ==
    /\ pc[r] = "commit"
    /\ work[r].effect \in Writes
    /\ Target(r) = p

HoldsReservation(r, id) ==
    /\ pc[r] \in {"lockProduct", "commit"}
    /\ Kind(r) = "cancel"
    /\ call[r].reservation = id

LocksInv ==
    \A r \in Requests :
        /\ \A l \in LockIds : keyOwner[l] = r <=> HoldsKey(r, l)
        /\ \A p \in Products : productOwner[p] = r <=> HoldsProduct(r, p)
        /\ \A id \in Requests :
              reservationOwner[id] = r <=> HoldsReservation(r, id)

\* A stored reservation that is what a reserve call asked for.
Describes(id, r) ==
    /\ id \in Stored
    /\ reservations[id].product = call[r].product
    /\ reservations[id].quantity = call[r].quantity
    /\ reservations[id].customer = call[r].customer
    /\ reservations[id].key = call[r].key

\* The reservation a cancel call names, in the given status.
Names(id, r, status) ==
    /\ id = call[r].reservation
    /\ id \in Stored
    /\ reservations[id].customer = call[r].customer
    /\ reservations[id].status = status

KeyIsFree(r) ==
    call[r].key # NoKey => FindByKey(call[r].customer, call[r].key) = {}

\* What a request read under its locks still holds when it commits.
Pending(r) ==
    LET w == work[r] IN
    \/ /\ w.effect = "restock" /\ Kind(r) = "addStock"
       /\ Target(r) \in Products
       /\ w.stock = stock[Target(r)] + call[r].quantity
    \/ /\ w.effect = "reserve" /\ Kind(r) = "reserve"
       /\ Target(r) \in Products
       /\ w.stock = stock[Target(r)] - call[r].quantity
       /\ w.id = r /\ KeyIsFree(r)
       /\ w.row = NewReservation(call[r].product, call[r].quantity,
                    call[r].customer, call[r].key, w.row.createdAt)
       /\ w.row \in Reservation
    \/ /\ w.effect = "cancel" /\ Kind(r) = "cancel"
       /\ Names(w.id, r, "ACTIVE")
       /\ w.stock = stock[Target(r)] + reservations[w.id].quantity
       /\ w.row = Cancelled(reservations[w.id], w.row.cancelledAt)
       /\ w.row \in Reservation
    \/ /\ w.effect = "replay" /\ Kind(r) = "reserve"
       /\ Describes(w.id, r)
    \/ /\ w.effect = "cancelReplay" /\ Kind(r) = "cancel"
       /\ Names(w.id, r, "CANCELLED")

\* What the acknowledgement of a commit will say.
Done(r) ==
    LET w == work[r] IN
    \/ w.effect = "restock" /\ Kind(r) = "addStock"
    \/ /\ w.effect \in {"reserve", "replay"} /\ Kind(r) = "reserve"
       /\ Describes(w.id, r)
       /\ w.effect = "reserve" => w.id = r /\ w.row \in Reservation
    \/ /\ w.effect \in {"cancel", "cancelReplay"} /\ Kind(r) = "cancel"
       /\ Names(w.id, r, "CANCELLED")
       /\ w.effect = "cancel" => w.row \in Reservation

WorkOf(r) ==
    /\ pc[r] = "lockProduct" /\ Kind(r) = "cancel" =>
          Names(call[r].reservation, r, "ACTIVE")
    /\ pc[r] = "lockProduct" /\ Kind(r) = "reserve" => KeyIsFree(r)
    /\ pc[r] = "commit" => Pending(r)
    /\ pc[r] = "committed" => Done(r)

WorkInv == \A r \in Requests : WorkOf(r)

\* Reservations come from reserve calls that committed, one per key.
StoredInv ==
    /\ \A id \in Stored : /\ pc[id] \in {"committed", "answered"}
                          /\ answer[id].status \in {"none", "created", "error"}
                          /\ pc[id] = "committed" => work[id].effect = "reserve"
    /\ \A s, t \in Stored :
          /\ reservations[s].customer = reservations[t].customer
          /\ reservations[s].key = reservations[t].key
          /\ reservations[s].key # NoKey
          => s = t

\* What each response says stays true.
AnswerOf(r) ==
    /\ answer[r].status # "none" => pc[r] = "answered" \/ answer[r].status = "error"
    /\ answer[r].status \in Refusals => r \notin Stored
    /\ Granted(r) => /\ Kind(r) = "reserve"
                     /\ Describes(answer[r].reservation, r)
    /\ answer[r].status = "created" => answer[r].reservation = r
    /\ answer[r].status = "ok" /\ Kind(r) = "cancel" =>
          Names(answer[r].reservation, r, "CANCELLED")

AnswersInv == \A r \in Requests : AnswerOf(r)

IInv ==
    TypeOK /\ CallsInv /\ LocksInv /\ WorkInv /\ StoredInv /\ AnswersInv

-----------------------------------------------------------------------------
(***************************************************************************)
(* Ends of transactions                                                    *)
(***************************************************************************)

\* The arguments of a request are those of one of the three calls.
LEMMA CallKinds ==
    ASSUME NEW o \in Workload \cup CancelCalls
    PROVE  \/ o \in AddStockCalls /\ o.kind = "addStock"
           \/ o \in ReserveCalls /\ o.kind = "reserve"
           \/ o \in CancelCalls /\ o.kind = "cancel"
BY ServiceAssumption DEF AddStockCalls, ReserveCalls, CancelCalls

LEMMA KeyLockType ==
    ASSUME NEW r \in Requests, Keyed(r), call[r] \in Workload \cup CancelCalls
    PROVE  KeyLock(r) \in LockIds
<1>1. call[r] \in ReserveCalls
  BY CallKinds DEF Keyed, Kind
<1>2. QED
  BY <1>1, ServiceAssumption DEF KeyLock, ReserveCalls, Keyed

\* A step that leaves the tables and a request alone leaves alone what is
\* known of it.
LEMMA UntouchedWork ==
    ASSUME NEW s \in Requests, WorkOf(s),
           UNCHANGED <<stock, reservations>>,
           pc'[s] = pc[s], call'[s] = call[s], work'[s] = work[s]
    PROVE  WorkOf(s)'
<1>1. Stored' = Stored /\ Kind(s)' = Kind(s) /\ Target(s)' = Target(s)
  BY DEF Stored, Kind, Target
<1>2. \A id, status : Names(id, s, status)' <=> Names(id, s, status)
  BY <1>1 DEF Names
<1>3. \A id : Describes(id, s)' <=> Describes(id, s)
  BY <1>1 DEF Describes
<1>4. KeyIsFree(s)' <=> KeyIsFree(s)
  BY <1>1 DEF KeyIsFree, FindByKey
<1>5. Pending(s) => Pending(s)'
  BY <1>1, <1>2, <1>3, <1>4 DEF Pending
<1>6. Done(s) => Done(s)'
  BY <1>1, <1>2, <1>3 DEF Done
<1>7. QED
  BY <1>1, <1>2, <1>4, <1>5, <1>6 DEF WorkOf

LEMMA QuietWork ==
    ASSUME WorkInv, NEW r \in Requests, UNCHANGED <<stock, reservations>>,
           \A s \in Requests \ {r} : /\ pc'[s] = pc[s] /\ call'[s] = call[s]
                                     /\ work'[s] = work[s],
           WorkOf(r)'
    PROVE  WorkInv'
<1>1. ASSUME NEW s \in Requests, s # r PROVE WorkOf(s)'
  <2>1. WorkOf(s)
    BY DEF WorkInv
  <2>2. QED
    BY <1>1, <2>1, UntouchedWork
<1>2. QED
  BY <1>1 DEF WorkInv

\* The same of what its response says.
LEMMA UntouchedAnswer ==
    ASSUME NEW s \in Requests, AnswerOf(s), UNCHANGED reservations,
           call'[s] = call[s], answer'[s] = answer[s],
           pc[s] = "answered" => pc'[s] = "answered"
    PROVE  AnswerOf(s)'
<1>1. Stored' = Stored /\ Kind(s)' = Kind(s) /\ Granted(s)' = Granted(s)
  BY DEF Stored, Kind, Granted
<1>2. \A id : Names(id, s, "CANCELLED")' <=> Names(id, s, "CANCELLED")
  BY <1>1 DEF Names
<1>3. \A id : Describes(id, s)' <=> Describes(id, s)
  BY <1>1 DEF Describes
<1>4. QED
  BY <1>1, <1>2, <1>3 DEF AnswerOf

LEMMA QuietAnswers ==
    ASSUME StoredInv, AnswersInv, NEW r \in Requests,
           pc[r] \notin {"committed", "answered"},
           UNCHANGED <<reservations, call, answer>>,
           \A s \in Requests \ {r} : pc'[s] = pc[s] /\ work'[s] = work[s]
    PROVE  StoredInv' /\ AnswersInv'
<1>1. Stored' = Stored /\ r \notin Stored /\ Stored \subseteq Requests
  BY DEF StoredInv, Stored
<1>2. StoredInv'
  BY <1>1 DEF StoredInv
<1>3. ASSUME NEW s \in Requests PROVE AnswerOf(s)'
  <2>1. AnswerOf(s) /\ pc[s] = "answered" => pc'[s] = "answered"
    BY DEF AnswersInv
  <2>2. AnswerOf(s)
    BY DEF AnswersInv
  <2>3. QED
    BY <2>1, <2>2, UntouchedAnswer
<1>4. QED
  BY <1>2, <1>3 DEF AnswersInv

\* Requests R end, by rollback or after their commit; others may only lose
\* their client.
Ends(R) ==
    /\ ReleaseLocks(R)
    /\ pc' = [r \in Requests |-> IF r \in R THEN "answered" ELSE pc[r]]
    /\ answer' \in [Requests -> Answer]
    /\ \A r \in Requests :
          \/ answer'[r] = answer[r]
          \/ answer'[r].status = "error"
          \/ /\ r \in R
             /\ answer'[r].status \in Refusals
             /\ pc[r] \notin {"committed", "answered"}
    /\ abandoned' \subseteq Requests
    /\ \A r \in abandoned' : r \notin R /\ pc[r] \in Waits
    /\ counters' \in [Instances -> [Meters -> Nat]]
    /\ crashes' \in 0..MaxCrashes
    /\ UNCHANGED <<dbVars, call, home, work>>

LEMMA EndsKeepIInv ==
    ASSUME IInv, NEW R \in SUBSET Requests, Ends(R),
           \A r \in R : pc[r] # "idle"
    PROVE  IInv'
<1> USE DEF IInv
<1>1. TypeOK'
  BY DEF TypeOK, Ends, ReleaseLocks, dbVars, Statements, Waits
<1>2. \A r \in Requests : /\ r \in R => pc'[r] = "answered"
                          /\ r \notin R => pc'[r] = pc[r]
  BY DEF Ends
<1>3. UNCHANGED <<stock, reservations, call, home, work>>
  BY DEF Ends, dbVars
<1>4. CallsInv'
  BY <1>2, <1>3 DEF CallsInv, Ends, Stored, Keyed, Kind
<1>5. LocksInv'
  <2> SUFFICES ASSUME NEW r \in Requests
               PROVE  /\ \A l \in LockIds :
                            keyOwner'[l] = r <=> HoldsKey(r, l)'
                      /\ \A p \in Products :
                            productOwner'[p] = r <=> HoldsProduct(r, p)'
                      /\ \A id \in Requests :
                            reservationOwner'[id] = r
                                <=> HoldsReservation(r, id)'
    BY DEF LocksInv
  <2>1. CASE r \in R
    BY <1>2, <2>1, ServiceAssumption
       DEF Ends, ReleaseLocks, HoldsKey, HoldsProduct, HoldsReservation
  <2>2. CASE r \notin R
    <3>1. /\ \A l \in LockIds : HoldsKey(r, l)' <=> HoldsKey(r, l)
          /\ \A p \in Products : HoldsProduct(r, p)' <=> HoldsProduct(r, p)
          /\ \A id \in Requests :
                HoldsReservation(r, id)' <=> HoldsReservation(r, id)
      BY <1>2, <1>3, <2>2
         DEF HoldsKey, HoldsProduct, HoldsReservation, Keyed, Kind, KeyLock,
             Target
    <3>2. QED
      BY <2>2, <3>1, ServiceAssumption DEF Ends, ReleaseLocks, LocksInv
  <2>3. QED
    BY <2>1, <2>2
<1>6. WorkInv'
  <2> SUFFICES ASSUME NEW s \in Requests PROVE WorkOf(s)'
    BY DEF WorkInv
  <2>1. CASE s \in R
    BY <1>2, <2>1 DEF WorkOf
  <2>2. CASE s \notin R
    <3>1. WorkOf(s) /\ pc'[s] = pc[s]
      BY <1>2, <2>2 DEF WorkInv
    <3>2. QED
      BY <1>3, <3>1, UntouchedWork
  <2>3. QED
    BY <2>1, <2>2
<1>7. StoredInv'
  BY <1>2, <1>3 DEF StoredInv, Stored, Ends, Refusals
<1>8. AnswersInv'
  <2> SUFFICES ASSUME NEW s \in Requests PROVE AnswerOf(s)'
    BY DEF AnswersInv
  <2>1. pc[s] = "answered" => pc'[s] = "answered"
    BY <1>2
  <2>2. CASE answer'[s] = answer[s]
    <3>1. AnswerOf(s)
      BY DEF AnswersInv
    <3>2. QED
      BY <1>3, <2>1, <2>2, <3>1, UntouchedAnswer
  <2>3. CASE answer'[s].status = "error"
    BY <2>3 DEF AnswerOf, Granted, Refusals
  <2>4. CASE /\ s \in R /\ answer'[s].status \in Refusals
             /\ pc[s] \notin {"committed", "answered"}
    <3>1. s \notin Stored'
      BY <1>3, <2>4 DEF StoredInv, Stored
    <3>2. QED
      BY <1>2, <2>4, <3>1 DEF AnswerOf, Granted, Refusals
  <2>5. QED
    BY <2>2, <2>3, <2>4 DEF Ends
<1>9. QED
  BY <1>1, <1>4, <1>5, <1>6, <1>7, <1>8

LEMMA RollbackKeepsIInv ==
    ASSUME IInv, NEW r \in Requests, pc[r] # "idle", r \notin abandoned,
           NEW status \in Refusals \cup {"error"},
           status = "error" \/ pc[r] \notin {"committed", "answered"},
           Rollback(r, status)
    PROVE  IInv'
<1>1. answer' = [answer EXCEPT ![r] = Reply(status, NoRequest)]
  BY DEF Rollback, Respond
<1>2. Reply(status, NoRequest) \in Answer
  BY DEF Reply, Answer, Statuses, Refusals
<1>3. answer' \in [Requests -> Answer]
  BY <1>1, <1>2 DEF IInv, TypeOK
<1>4. \A s \in Requests \ {r} : answer'[s] = answer[s]
  BY <1>1 DEF IInv, TypeOK
<1>5. answer'[r].status = status
  BY <1>1 DEF IInv, TypeOK, Reply
<1>6. Ends({r})
  BY <1>3, <1>4, <1>5
     DEF Ends, IInv, TypeOK, CallsInv, Rollback, Respond, instanceVars
<1>7. QED
  BY <1>6, EndsKeepIInv

-----------------------------------------------------------------------------
(***************************************************************************)
(* Arrival and connection                                                  *)
(***************************************************************************)

LEMMA ReceiveKeepsIInv ==
    ASSUME IInv, NEW r \in Requests, NEW i \in Instances,
           NEW o \in Workload \cup CancelCalls,
           o.kind = "cancel" => o.reservation \in Stored,
           Receive(r, i, o)
    PROVE  IInv'
<1> USE DEF IInv
<1>1. /\ pc[r] = "idle" /\ call' = [call EXCEPT ![r] = o]
      /\ home' = [home EXCEPT ![r] = i]
      /\ UNCHANGED <<stock, reservations, supplied, lockVars, work, abandoned,
                      counters, crashes>>
  BY DEF Receive, dbVars, instanceVars
<1>2. \/ /\ o.kind # "cancel" => ValidPositiveQuantity(o.quantity)
         /\ pc' = [pc EXCEPT ![r] = "begin"]
         /\ answer' = answer
      \/ /\ pc' = [pc EXCEPT ![r] = "answered"]
         /\ answer' = [answer EXCEPT ![r] = Reply("badRequest", NoRequest)]
  BY DEF Receive, Respond
<1>3. \A s \in Requests \ {r} : /\ pc'[s] = pc[s] /\ call'[s] = call[s]
                               /\ home'[s] = home[s]
                               /\ answer'[s] = answer[s]
  BY <1>1, <1>2 DEF TypeOK
<1>4. /\ pc'[r] \in {"begin", "answered"} /\ call'[r] = o /\ home'[r] = i
      /\ pc'[r] = "begin" => answer'[r] = answer[r]
      /\ pc'[r] = "begin" /\ o.kind # "cancel" => o.quantity \in 1..MaxQuantity
      /\ pc'[r] = "answered" => answer'[r] = Reply("badRequest", NoRequest)
  BY <1>1, <1>2 DEF TypeOK, ValidPositiveQuantity
<1>5. r \notin Stored /\ r \notin abandoned
  BY <1>1 DEF StoredInv, CallsInv, Waits
<1>6. TypeOK'
  <2>1. Reply("badRequest", NoRequest) \in Answer
    BY DEF Reply, Answer, Statuses
  <2>2. answer' = answer \/
            answer' = [answer EXCEPT ![r] = Reply("badRequest", NoRequest)]
    BY <1>2
  <2>3. answer' \in [Requests -> Answer]
    BY <2>1, <2>2 DEF TypeOK
  <2>4. pc' \in [Requests -> Statements]
    BY <1>2 DEF TypeOK, Statements
  <2>5. QED
    BY <1>1, <2>3, <2>4 DEF TypeOK, lockVars
<1>7. CallsInv'
  BY <1>1, <1>3, <1>4, <1>5 DEF CallsInv, Stored, Keyed, Kind
<1>8. LocksInv'
  <2> SUFFICES ASSUME NEW s \in Requests
               PROVE  /\ \A l \in LockIds : HoldsKey(s, l)' <=> HoldsKey(s, l)
                      /\ \A p \in Products :
                            HoldsProduct(s, p)' <=> HoldsProduct(s, p)
                      /\ \A id \in Requests :
                            HoldsReservation(s, id)' <=> HoldsReservation(s, id)
    BY <1>1 DEF LocksInv, lockVars
  <2>1. QED
    BY <1>1, <1>3, <1>4
       DEF HoldsKey, HoldsProduct, HoldsReservation, Keyed, Kind, KeyLock,
           Target
<1>9. WorkInv'
  <2>1. WorkOf(r)'
    BY <1>4 DEF WorkOf
  <2>2. QED
    BY <1>1, <1>3, <2>1, QuietWork
<1>10. StoredInv'
  BY <1>1, <1>3, <1>5 DEF StoredInv, Stored
<1>11. answer[r].status = "none" \/ answer[r].status = "error"
  BY <1>1 DEF AnswersInv, AnswerOf
<1>12. AnswersInv'
  <2> SUFFICES ASSUME NEW s \in Requests
               PROVE  AnswerOf(s)'
    BY DEF AnswersInv
  <2>1. CASE s = r
    BY <1>1, <1>4, <1>5, <1>11, <2>1
       DEF AnswerOf, Granted, Refusals, Reply, Stored
  <2>2. CASE s # r
    <3>1. AnswerOf(s) /\ (pc[s] = "answered" => pc'[s] = "answered")
      BY <1>3, <2>2 DEF AnswersInv
    <3>2. QED
      BY <1>1, <1>3, <2>2, <3>1, UntouchedAnswer
  <2>3. QED
    BY <2>1, <2>2
<1>13. QED
  BY <1>6, <1>7, <1>8, <1>9, <1>10, <1>12

LEMMA BeginKeepsIInv ==
    ASSUME IInv, NEW r \in Requests, Begin(r)
    PROVE  IInv'
<1> USE DEF IInv
<1>1. /\ pc[r] = "begin" /\ r \notin abandoned
      /\ pc' = [pc EXCEPT ![r] = FirstStatement(call[r])]
      /\ UNCHANGED <<stock, reservations, supplied, lockVars, call, home, work,
                      abandoned, answer, counters, crashes>>
  BY DEF Begin, At, dbVars, instanceVars
<1>2. /\ FirstStatement(call[r]) \in Waits
      /\ FirstStatement(call[r]) = "acquireKey" => Keyed(r)
      /\ FirstStatement(call[r]) = "lockReservation" <=> Kind(r) = "cancel"
      /\ FirstStatement(call[r]) = "lockProduct" =>
            ~Keyed(r) /\ Kind(r) # "cancel"
  BY DEF FirstStatement, Waits, Keyed, Kind
<1>3. /\ pc'[r] = FirstStatement(call[r])
      /\ \A s \in Requests \ {r} : pc'[s] = pc[s]
  BY <1>1 DEF TypeOK
<1>4. TypeOK'
  BY <1>1, <1>2 DEF TypeOK, Statements, lockVars
<1>5. CallsInv'
  BY <1>1, <1>2, <1>3 DEF CallsInv, Stored, Keyed, Kind, Waits
<1>6. LocksInv'
  <2> SUFFICES ASSUME NEW s \in Requests
               PROVE  /\ \A l \in LockIds : HoldsKey(s, l)' <=> HoldsKey(s, l)
                      /\ \A p \in Products :
                            HoldsProduct(s, p)' <=> HoldsProduct(s, p)
                      /\ \A id \in Requests :
                            HoldsReservation(s, id)' <=> HoldsReservation(s, id)
    BY <1>1 DEF LocksInv, lockVars
  <2>1. QED
    BY <1>1, <1>2, <1>3
       DEF HoldsKey, HoldsProduct, HoldsReservation, Keyed, Kind, KeyLock,
           Target, Waits
<1>7. WorkInv'
  <2>1. FirstStatement(call[r]) = "lockProduct" /\ Kind(r) = "reserve" =>
            call[r].key = NoKey
    BY <1>2 DEF Keyed
  <2>2. WorkOf(r)'
    BY <1>1, <1>2, <1>3, <2>1 DEF WorkOf, KeyIsFree, Kind, Waits
  <2>3. QED
    BY <1>1, <1>3, <2>2, QuietWork
<1>8. StoredInv' /\ AnswersInv'
  BY <1>1, <1>3, QuietAnswers
<1>9. QED
  BY <1>4, <1>5, <1>6, <1>7, <1>8

-----------------------------------------------------------------------------
(***************************************************************************)
(* Statements                                                              *)
(***************************************************************************)

LEMMA AcquireKeyKeepsIInv ==
    ASSUME IInv, NEW r \in Requests, AcquireKey(r)
    PROVE  IInv'
<1> USE DEF IInv
<1>1. /\ pc[r] = "acquireKey" /\ r \notin abandoned
      /\ keyOwner[KeyLock(r)] = NoRequest
      /\ keyOwner' = [keyOwner EXCEPT ![KeyLock(r)] = r]
      /\ pc' = [pc EXCEPT ![r] = "findByKey"]
      /\ UNCHANGED <<stock, reservations, supplied, productOwner,
                      reservationOwner, call, home, work, abandoned, answer,
                      counters, crashes>>
  BY Zenon DEF AcquireKey, At, Blocked, Holder, dbVars, instanceVars
<1>2. Keyed(r) /\ KeyLock(r) \in LockIds
  <2>1. Keyed(r) /\ call[r] \in Workload \cup CancelCalls
    BY <1>1 DEF CallsInv
  <2>2. call[r] \in ReserveCalls
    BY <2>1, CallKinds DEF Keyed, Kind
  <2>3. QED
    BY <2>1, <2>2, ServiceAssumption DEF KeyLock, ReserveCalls, Keyed
<1>3. /\ pc'[r] = "findByKey" /\ keyOwner'[KeyLock(r)] = r
      /\ \A s \in Requests \ {r} : pc'[s] = pc[s]
      /\ \A l \in LockIds : l # KeyLock(r) => keyOwner'[l] = keyOwner[l]
  BY <1>1, <1>2 DEF TypeOK
<1>4. TypeOK'
  BY <1>1, <1>2 DEF TypeOK, Statements
<1>5. CallsInv'
  BY <1>1, <1>2, <1>3 DEF CallsInv, Stored, Keyed, Kind, Waits
<1>6. LocksInv'
  <2> SUFFICES ASSUME NEW s \in Requests
               PROVE  /\ \A l \in LockIds :
                            keyOwner'[l] = s <=> HoldsKey(s, l)'
                      /\ \A p \in Products :
                            HoldsProduct(s, p)' <=> HoldsProduct(s, p)
                      /\ \A id \in Requests :
                            HoldsReservation(s, id)' <=> HoldsReservation(s, id)
    BY <1>1 DEF LocksInv
  <2>1. /\ \A p \in Products : HoldsProduct(s, p)' <=> HoldsProduct(s, p)
        /\ \A id \in Requests :
              HoldsReservation(s, id)' <=> HoldsReservation(s, id)
    BY <1>1, <1>3 DEF HoldsProduct, HoldsReservation, Kind, Target
  <2>2. ASSUME NEW l \in LockIds PROVE keyOwner'[l] = s <=> HoldsKey(s, l)'
    <3>1. CASE s = r
      BY <1>1, <1>2, <1>3, <3>1 DEF LocksInv, HoldsKey, Keyed, Kind, KeyLock
    <3>2. CASE s # r
      BY <1>1, <1>2, <1>3, <3>2, ServiceAssumption
         DEF LocksInv, HoldsKey, Keyed, Kind, KeyLock
    <3>3. QED
      BY <3>1, <3>2
  <2>3. QED
    BY <2>1, <2>2
<1>7. WorkInv'
  <2>1. WorkOf(r)'
    BY <1>3 DEF WorkOf
  <2>2. QED
    BY <1>1, <1>3, <2>1, QuietWork
<1>8. StoredInv' /\ AnswersInv'
  BY <1>1, <1>3, QuietAnswers
<1>9. QED
  BY <1>4, <1>5, <1>6, <1>7, <1>8

LEMMA LookupKeyKeepsIInv ==
    ASSUME IInv, NEW r \in Requests, LookupKey(r)
    PROVE  IInv'
<1> USE DEF IInv
<1>1. /\ pc[r] = "findByKey" /\ r \notin abandoned
      /\ Keyed(r) /\ Kind(r) = "reserve"
      /\ call[r] \in ReserveCalls
  BY CallKinds DEF LookupKey, At, CallsInv, Keyed, Kind
<1> DEFINE existing == FindByKey(call[r].customer, call[r].key)
           Quiet == UNCHANGED <<stock, reservations, supplied, lockVars, call,
                                home, abandoned, answer, counters, crashes>>
<1>2. CASE \E id \in existing : Rollback(r, "conflict")
  BY <1>1, <1>2, RollbackKeepsIInv DEF Refusals
<1>3. CASE /\ existing = {} /\ pc' = [pc EXCEPT ![r] = "lockProduct"]
           /\ work' = work /\ Quiet
  <2>1. pc'[r] = "lockProduct" /\ \A s \in Requests \ {r} : pc'[s] = pc[s]
    BY <1>3 DEF TypeOK
  <2>2. TypeOK'
    BY <1>3 DEF TypeOK, Statements, Waits, lockVars
  <2>3. CallsInv'
    BY <1>1, <1>3, <2>1 DEF CallsInv, Stored, Keyed, Kind, Waits
  <2>4. LocksInv'
    BY <1>1, <1>3, <2>1
       DEF LocksInv, HoldsKey, HoldsProduct, HoldsReservation, Keyed, Kind,
           KeyLock, Target, lockVars
  <2>5. WorkInv'
    <3>1. KeyIsFree(r)'
      BY <1>3 DEF KeyIsFree, FindByKey, Stored
    <3>2. WorkOf(r)'
      BY <1>1, <1>3, <2>1, <3>1 DEF WorkOf, Kind
    <3>3. QED
      BY <1>3, <2>1, <3>2, QuietWork
  <2>6. StoredInv' /\ AnswersInv'
    BY <1>1, <1>3, <2>1, QuietAnswers
  <2>7. QED
    BY <2>2, <2>3, <2>4, <2>5, <2>6
<1>4. CASE \E id \in existing :
              /\ SameRequest(reservations[id], call[r].product,
                             call[r].quantity)
              /\ ReadyToCommit(r, "replay", 0, id, reservations[id])
              /\ Quiet
  <2>1. PICK id \in existing :
              /\ SameRequest(reservations[id], call[r].product,
                             call[r].quantity)
              /\ ReadyToCommit(r, "replay", 0, id, reservations[id])
              /\ Quiet
    BY <1>4
  <2> DEFINE w == [effect |-> "replay", stock |-> 0, id |-> id,
                   row |-> reservations[id]]
  <2>2. Describes(id, r)
    BY <2>1 DEF Describes, FindByKey, SameRequest, Stored
  <2>3. w \in Work
    BY <2>1, DomainAssumption
       DEF Work, Effects, Writes, TypeOK, FindByKey, Stored
  <2>4. /\ pc'[r] = "commit" /\ work'[r] = w
        /\ \A s \in Requests \ {r} : pc'[s] = pc[s] /\ work'[s] = work[s]
    BY <2>1 DEF TypeOK, ReadyToCommit
  <2>5. TypeOK'
    BY <2>1, <2>3 DEF TypeOK, ReadyToCommit, Statements, lockVars
  <2>6. CallsInv'
    BY <1>1, <2>1, <2>4 DEF CallsInv, Stored, Keyed, Kind, Waits
  <2>7. LocksInv'
    BY <1>1, <2>1, <2>4
       DEF LocksInv, HoldsKey, HoldsProduct, HoldsReservation, Keyed, Kind,
           KeyLock, Target, lockVars, Writes
  <2>8. WorkInv'
    <3>1. Pending(r)'
      BY <1>1, <2>1, <2>2, <2>4 DEF Pending, Describes, Kind, Stored
    <3>2. WorkOf(r)'
      BY <2>4, <3>1 DEF WorkOf
    <3>3. QED
      BY <2>1, <2>4, <3>2, QuietWork
  <2>9. StoredInv' /\ AnswersInv'
    BY <1>1, <2>1, <2>4, QuietAnswers
  <2>10. QED
    BY <2>5, <2>6, <2>7, <2>8, <2>9
<1>5. QED
  BY <1>2, <1>3, <1>4 DEF LookupKey, dbVars, instanceVars

LEMMA LockReservationKeepsIInv ==
    ASSUME IInv, NEW r \in Requests, LockReservation(r)
    PROVE  IInv'
<1> USE DEF IInv
<1> DEFINE id == call[r].reservation
           row == reservations[id]
           Quiet == UNCHANGED <<stock, reservations, supplied, keyOwner,
                                productOwner, call, home, abandoned, answer,
                                counters, crashes>>
<1>1. /\ pc[r] = "lockReservation" /\ r \notin abandoned
      /\ Kind(r) = "cancel" /\ id \in Stored /\ id \in Requests
      /\ row \in Reservation
      /\ reservationOwner[id] = NoRequest
  <2>1. /\ pc[r] = "lockReservation" /\ r \notin abandoned
        /\ reservationOwner[id] = NoRequest
    BY Zenon DEF LockReservation, At, Blocked, Holder
  <2>2. Kind(r) = "cancel" /\ id \in Stored
    BY <2>1 DEF CallsInv
  <2>3. QED
    BY <2>1, <2>2 DEF Stored, TypeOK
<1>2. CASE Rollback(r, "notFound")
  BY <1>1, <1>2, RollbackKeepsIInv DEF Refusals
<1>3. CASE /\ row.customer = call[r].customer
           /\ reservationOwner' = [reservationOwner EXCEPT ![id] = r]
           /\ Quiet
           /\ \/ /\ row.status = "ACTIVE" /\ work' = work
                 /\ pc' = [pc EXCEPT ![r] = "lockProduct"]
              \/ /\ row.status = "CANCELLED"
                 /\ ReadyToCommit(r, "cancelReplay", 0, id, row)
  <2> DEFINE w == [effect |-> "cancelReplay", stock |-> 0, id |-> id,
                   row |-> row]
  <2>1. w \in Work
    BY <1>1, DomainAssumption DEF Work, Effects, Writes
  <2>2. \A s \in Requests \ {r} : pc'[s] = pc[s] /\ work'[s] = work[s]
    BY <1>3 DEF TypeOK, ReadyToCommit
  <2>3. \/ /\ row.status = "ACTIVE" /\ pc'[r] = "lockProduct"
           /\ work'[r] = work[r]
        \/ /\ row.status = "CANCELLED" /\ pc'[r] = "commit"
           /\ work'[r] = w
    BY <1>3 DEF TypeOK, ReadyToCommit
  <2>4. TypeOK'
    BY <1>1, <1>3, <2>1 DEF TypeOK, ReadyToCommit, Statements, Waits
  <2>5. CallsInv'
    BY <1>1, <1>3, <2>2, <2>3 DEF CallsInv, Stored, Keyed, Kind, Waits
  <2>6. LocksInv'
    <3> SUFFICES ASSUME NEW s \in Requests
                 PROVE  /\ \A l \in LockIds : HoldsKey(s, l)' <=> HoldsKey(s, l)
                        /\ \A p \in Products :
                              HoldsProduct(s, p)' <=> HoldsProduct(s, p)
                        /\ \A t \in Requests :
                              reservationOwner'[t] = s
                                  <=> HoldsReservation(s, t)'
      BY <1>3 DEF LocksInv
    <3>1. CASE s = r
      BY <1>1, <1>3, <2>3, <3>1
         DEF LocksInv, HoldsKey, HoldsProduct, HoldsReservation, Keyed, Kind,
             KeyLock, Target, Writes, TypeOK
    <3>2. CASE s # r
      <4>1. reservationOwner[id] # s /\ reservationOwner'[id] # s
        BY <1>1, <1>3, <3>2, ServiceAssumption DEF TypeOK
      <4>2. \A t \in Requests \ {id} :
                reservationOwner'[t] = reservationOwner[t]
        BY <1>3 DEF TypeOK
      <4>3. \A t \in Requests : HoldsReservation(s, t)' <=> HoldsReservation(s, t)
        BY <1>3, <2>2, <3>2 DEF HoldsReservation, Kind
      <4>4. /\ \A l \in LockIds : HoldsKey(s, l)' <=> HoldsKey(s, l)
            /\ \A p \in Products : HoldsProduct(s, p)' <=> HoldsProduct(s, p)
        BY <1>3, <2>2, <3>2
           DEF HoldsKey, HoldsProduct, Keyed, Kind, KeyLock, Target
      <4>5. QED
        BY <1>1, <4>1, <4>2, <4>3, <4>4 DEF LocksInv
    <3>3. QED
      BY <3>1, <3>2
  <2>7. WorkInv'
    <3>1. pc'[r] = "commit" => Pending(r)'
      BY <1>1, <1>3, <2>3 DEF Pending, Names, Kind, Stored
    <3>2. pc'[r] = "lockProduct" => Names(call[r].reservation, r, "ACTIVE")'
      BY <1>1, <1>3, <2>3 DEF Names, Stored
    <3>3. WorkOf(r)'
      BY <1>1, <1>3, <2>3, <3>1, <3>2 DEF WorkOf, Kind
    <3>4. QED
      BY <1>3, <2>2, <3>3, QuietWork
  <2>8. StoredInv' /\ AnswersInv'
    BY <1>1, <1>3, <2>2, QuietAnswers
  <2>9. QED
    BY <2>4, <2>5, <2>6, <2>7, <2>8
<1>4. QED
  BY <1>2, <1>3 DEF LockReservation, dbVars, instanceVars

\* A request that takes a product's lock and leaves changes pending, whatever
\* the changes are.
LEMMA LockedKeepsIInv ==
    ASSUME IInv, NEW r \in Requests, At(r, "lockProduct"),
           Target(r) \in Products, ~Blocked(r),
           NEW w \in Work, w.effect \in Writes,
           work' = [work EXCEPT ![r] = w],
           pc' = [pc EXCEPT ![r] = "commit"],
           Locked(r), Pending(r)'
    PROVE  IInv'
<1> USE DEF IInv
<1> DEFINE p0 == Target(r)
<1>1. /\ pc[r] = "lockProduct" /\ r \notin abandoned
      /\ productOwner[p0] = NoRequest
      /\ productOwner' = [productOwner EXCEPT ![p0] = r]
      /\ UNCHANGED <<stock, reservations, supplied, keyOwner, reservationOwner,
                      call, home, abandoned, answer, counters, crashes>>
  BY Zenon DEF At, Blocked, Holder, Locked, dbVars, instanceVars
<1>2. /\ pc'[r] = "commit" /\ work'[r] = w
      /\ \A s \in Requests \ {r} : pc'[s] = pc[s] /\ work'[s] = work[s]
  BY DEF TypeOK
<1>3. TypeOK'
  BY <1>1 DEF TypeOK, Statements
<1>4. CallsInv'
  BY <1>1, <1>2 DEF CallsInv, Stored, Keyed, Kind, Waits
<1>5. LocksInv'
  <2> SUFFICES ASSUME NEW s \in Requests
               PROVE  /\ \A l \in LockIds : HoldsKey(s, l)' <=> HoldsKey(s, l)
                      /\ \A p \in Products :
                            productOwner'[p] = s <=> HoldsProduct(s, p)'
                      /\ \A t \in Requests :
                            HoldsReservation(s, t)' <=> HoldsReservation(s, t)
    BY <1>1 DEF LocksInv
  <2>1. /\ \A l \in LockIds : HoldsKey(s, l)' <=> HoldsKey(s, l)
        /\ \A t \in Requests :
              HoldsReservation(s, t)' <=> HoldsReservation(s, t)
    BY <1>1, <1>2 DEF HoldsKey, HoldsReservation, Keyed, Kind, KeyLock
  <2>2. CASE s = r
    BY <1>1, <1>2, <2>1, <2>2
       DEF LocksInv, HoldsProduct, Target, Kind, TypeOK
  <2>3. CASE s # r
    <3>1. productOwner[p0] # s /\ productOwner'[p0] # s
      BY <1>1, <2>3, ServiceAssumption DEF TypeOK
    <3>2. \A p \in Products \ {p0} : productOwner'[p] = productOwner[p]
      BY <1>1 DEF TypeOK
    <3>3. \A p \in Products : HoldsProduct(s, p)' <=> HoldsProduct(s, p)
      BY <1>1, <1>2, <2>3 DEF HoldsProduct, Target, Kind
    <3>4. QED
      BY <2>1, <3>1, <3>2, <3>3 DEF LocksInv
  <2>4. QED
    BY <2>2, <2>3
<1>6. WorkInv'
  <2>1. WorkOf(r)'
    BY <1>2 DEF WorkOf
  <2>2. QED
    BY <1>1, <1>2, <2>1, QuietWork
<1>7. StoredInv' /\ AnswersInv'
  BY <1>1, <1>2, QuietAnswers
<1>8. QED
  BY <1>3, <1>4, <1>5, <1>6, <1>7

LEMMA LockProductKeepsIInv ==
    ASSUME IInv, NEW r \in Requests, LockProduct(r)
    PROVE  IInv'
<1> USE DEF IInv
<1> DEFINE p0 == Target(r)
           q == call[r].quantity
<1>1. At(r, "lockProduct") /\ pc[r] = "lockProduct" /\ r \notin abandoned
  BY DEF LockProduct, LockMissing, LockToRestock, LockToReserve, LockToCancel,
         At
<1>2. call[r] \in Workload \cup CancelCalls
  BY <1>1 DEF CallsInv
<1>3. Kind(r) # "cancel" => q \in 1..MaxQuantity
  BY <1>1 DEF CallsInv
<1>4. ASSUME NEW status \in {"notFound", "conflict"}, Rollback(r, status)
      PROVE  IInv'
  BY <1>1, <1>4, RollbackKeepsIInv DEF Refusals
<1>5. CASE LockToRestock(r)
  <2>1. CASE /\ CanAddStock(stock[p0], q)
             /\ ReadyToCommit(r, "restock", stock[p0] + q, NoRequest,
                              NoReservation)
             /\ Locked(r)
    <3> DEFINE w == [effect |-> "restock", stock |-> stock[p0] + q,
                     id |-> NoRequest, row |-> NoReservation]
    <3>1. Kind(r) = "addStock" /\ p0 \in Products /\ ~Blocked(r)
      BY <1>5 DEF LockToRestock
    <3>2. w \in Work
      BY <1>3, <2>1, <3>1, DomainAssumption
         DEF Work, Effects, Writes, CanAddStock, TypeOK
    <3>3. work' = [work EXCEPT ![r] = w] /\ pc' = [pc EXCEPT ![r] = "commit"]
      BY <2>1 DEF ReadyToCommit
    <3>4. Pending(r)'
      <4>1. UNCHANGED <<stock, reservations, call>> /\ work'[r] = w
        BY <2>1, <3>3 DEF Locked, dbVars, TypeOK
      <4>2. QED
        BY <3>1, <4>1 DEF Pending, Kind, Target
    <3>5. w.effect \in Writes
      BY DEF Writes
    <3>6. QED
      BY <1>1, <2>1, <3>1, <3>2, <3>3, <3>4, <3>5, LockedKeepsIInv
  <2>2. QED
    BY <1>4, <1>5, <2>1 DEF LockToRestock
<1>6. CASE LockToReserve(r)
  <2>1. ASSUME NEW now \in Times,
               CanReserveStock(stock[p0], q),
               ReadyToCommit(r, "reserve", stock[p0] - q, r,
                   NewReservation(p0, q, call[r].customer, call[r].key, now)),
               Locked(r)
        PROVE  IInv'
    <3> DEFINE row == NewReservation(p0, q, call[r].customer, call[r].key, now)
               w == [effect |-> "reserve", stock |-> stock[p0] - q,
                     id |-> r, row |-> row]
    <3>1. Kind(r) = "reserve" /\ p0 \in Products /\ ~Blocked(r)
      BY <1>6 DEF LockToReserve
    <3>2. call[r] \in ReserveCalls /\ p0 = call[r].product
      BY <1>2, <3>1, CallKinds DEF Kind, Target
    <3>3. row \in Reservation
      BY <1>3, <3>1, <3>2 DEF NewReservation, Reservation, ReserveCalls
    <3>4. w \in Work
      BY <1>3, <2>1, <3>1, <3>3, DomainAssumption
         DEF Work, Effects, Writes, CanReserveStock, TypeOK
    <3>5. work' = [work EXCEPT ![r] = w] /\ pc' = [pc EXCEPT ![r] = "commit"]
      BY <2>1 DEF ReadyToCommit
    <3>6. Pending(r)'
      <4>1. UNCHANGED <<stock, reservations, call>> /\ work'[r] = w
        BY <2>1, <3>5 DEF Locked, dbVars, TypeOK
      <4>2. KeyIsFree(r)
        BY <1>1, <3>1 DEF WorkInv, WorkOf
      <4>3. KeyIsFree(r)'
        BY <4>1, <4>2 DEF KeyIsFree, FindByKey, Stored
      <4>4. row = NewReservation(call[r].product, q, call[r].customer,
                                 call[r].key, row.createdAt)
        BY <3>2 DEF NewReservation
      <4>5. QED
        BY <3>1, <3>3, <4>1, <4>3, <4>4 DEF Pending, Kind, Target
    <3>7. w.effect \in Writes
      BY DEF Writes
    <3>8. QED
      BY <1>1, <2>1, <3>1, <3>4, <3>5, <3>6, <3>7, LockedKeepsIInv
  <2>2. QED
    BY <1>4, <1>6, <2>1 DEF LockToReserve
<1>7. CASE LockToCancel(r)
  <2> DEFINE id == call[r].reservation
  <2>1. /\ Kind(r) = "cancel" /\ ~Blocked(r) /\ Names(id, r, "ACTIVE")
        /\ id \in Requests /\ reservations[id] \in Reservation
        /\ p0 = reservations[id].product /\ p0 \in Products
    <3>1. Kind(r) = "cancel" /\ ~Blocked(r)
      BY <1>7 DEF LockToCancel
    <3>2. Names(id, r, "ACTIVE")
      BY <1>1, <3>1 DEF WorkInv, WorkOf
    <3>3. QED
      BY <3>1, <3>2 DEF Names, Stored, TypeOK, Target, Reservation
  <2>2. ASSUME NEW now \in Times,
               CanAddStock(stock[p0], reservations[id].quantity),
               ReadyToCommit(r, "cancel",
                   stock[p0] + reservations[id].quantity, id,
                   Cancelled(reservations[id], now)),
               Locked(r)
        PROVE  IInv'
    <3> DEFINE row == Cancelled(reservations[id], now)
               w == [effect |-> "cancel",
                     stock |-> stock[p0] + reservations[id].quantity,
                     id |-> id, row |-> row]
    <3>1. row \in Reservation /\ row.cancelledAt = now
      BY <2>1 DEF Cancelled, Reservation
    <3>2. w \in Work
      BY <2>1, <2>2, <3>1, DomainAssumption
         DEF Work, Effects, Writes, CanAddStock, TypeOK, Reservation
    <3>3. work' = [work EXCEPT ![r] = w] /\ pc' = [pc EXCEPT ![r] = "commit"]
      BY <2>2 DEF ReadyToCommit
    <3>4. Pending(r)'
      <4>1. UNCHANGED <<stock, reservations, call>> /\ work'[r] = w
        BY <2>2, <3>3 DEF Locked, dbVars, TypeOK
      <4>2. QED
        BY <2>1, <3>1, <4>1 DEF Pending, Kind, Target, Names, Stored
    <3>5. w.effect \in Writes
      BY DEF Writes
    <3>6. QED
      BY <1>1, <2>1, <2>2, <3>2, <3>3, <3>4, <3>5, LockedKeepsIInv
  <2>3. QED
    BY <1>4, <1>7, <2>2 DEF LockToCancel
<1>8. CASE LockMissing(r)
  BY <1>4, <1>8 DEF LockMissing
<1>9. QED
  BY <1>5, <1>6, <1>7, <1>8 DEF LockProduct

-----------------------------------------------------------------------------
(***************************************************************************)
(* Commit                                                                  *)
(***************************************************************************)

\* What a commit does to the tables, in terms of the locks its request holds.
LEMMA CommitEffects ==
    ASSUME IInv, NEW r \in Requests, Commit(r)
    PROVE  /\ pc[r] = "commit" /\ r \notin abandoned /\ r \notin Stored
           /\ Pending(r)
           /\ stock' \in [Products -> 0..MaxQuantity]
           /\ reservations' \in [Requests -> Reservation \cup {NoReservation}]
           /\ supplied' \in [Products -> Nat]
           /\ \A p \in Products : stock'[p] # stock[p] => productOwner[p] = r
           /\ \A id \in Stored :
                 /\ id \in Stored'
                 /\ reservations'[id].product = reservations[id].product
                 /\ reservations'[id].quantity = reservations[id].quantity
                 /\ reservations'[id].customer = reservations[id].customer
                 /\ reservations'[id].key = reservations[id].key
                 /\ reservations'[id] # reservations[id] =>
                       /\ reservationOwner[id] = r
                       /\ reservations[id].status = "ACTIVE"
           /\ \A id \in Stored' : id \notin Stored =>
                 /\ id = r /\ work[r].effect = "reserve"
                 /\ reservations'[r] = work[r].row
<1> USE DEF IInv
<1> DEFINE w == work[r]
<1>1. /\ pc[r] = "commit" /\ r \notin abandoned
      /\ stock' = IF w.effect \in Writes
                  THEN [stock EXCEPT ![Target(r)] = w.stock] ELSE stock
      /\ reservations' = IF w.effect \in {"reserve", "cancel"}
                         THEN [reservations EXCEPT ![w.id] = w.row]
                         ELSE reservations
      /\ supplied' = IF w.effect = "restock"
                     THEN [supplied EXCEPT ![Target(r)] = @ + call[r].quantity]
                     ELSE supplied
  BY DEF Commit, At
<1>2. Pending(r) /\ r \notin Stored
  BY <1>1 DEF WorkInv, WorkOf, StoredInv
<1>3. w \in Work
  BY DEF TypeOK
<1>4. CASE w.effect \in {"replay", "cancelReplay"}
  BY <1>1, <1>2, <1>4 DEF TypeOK, Writes, Stored
<1>5. CASE w.effect = "restock"
  <2>1. /\ stock' = [stock EXCEPT ![Target(r)] = w.stock]
        /\ reservations' = reservations
        /\ supplied' = [supplied EXCEPT ![Target(r)] = @ + call[r].quantity]
        /\ Target(r) \in Products
        /\ Kind(r) = "addStock"
    BY <1>1, <1>2, <1>5 DEF Writes, Pending
  <2>2. productOwner[Target(r)] = r
    BY <1>1, <1>5, <2>1 DEF LocksInv, HoldsProduct, Writes
  <2>3. call[r].quantity \in Nat
    BY <1>1, <2>1, DomainAssumption DEF CallsInv
  <2>4. supplied' \in [Products -> Nat]
    BY <2>1, <2>3 DEF TypeOK
  <2>5. stock' \in [Products -> 0..MaxQuantity]
    BY <1>3, <2>1 DEF TypeOK, Work
  <2>6. \A p \in Products : stock'[p] # stock[p] => productOwner[p] = r
    BY <2>1, <2>2 DEF TypeOK
  <2>7. QED
    BY <1>1, <1>2, <2>1, <2>4, <2>5, <2>6 DEF TypeOK, Stored
<1>6. CASE w.effect = "reserve"
  <2>1. /\ stock' = [stock EXCEPT ![Target(r)] = w.stock]
        /\ reservations' = [reservations EXCEPT ![r] = w.row]
        /\ supplied' = supplied
        /\ Target(r) \in Products
        /\ w.row \in Reservation
    BY <1>1, <1>2, <1>6 DEF Writes, Pending
  <2>2. productOwner[Target(r)] = r
    BY <1>1, <1>6, <2>1 DEF LocksInv, HoldsProduct, Writes
  <2>3. \A id \in Requests \ {r} : reservations'[id] = reservations[id]
    BY <2>1 DEF TypeOK
  <2>4. reservations'[r] = w.row
    BY <2>1 DEF TypeOK
  <2>5. \A id \in Stored : id \in Stored' /\ reservations'[id] = reservations[id]
    BY <1>2, <2>3 DEF Stored
  <2>6. \A id \in Stored' : id \notin Stored => id = r
    BY <2>3 DEF Stored
  <2>7. QED
    BY <1>1, <1>2, <1>3, <1>6, <2>1, <2>2, <2>4, <2>5, <2>6 DEF TypeOK, Work
<1>7. CASE w.effect = "cancel"
  <2>1. /\ stock' = [stock EXCEPT ![Target(r)] = w.stock]
        /\ reservations' = [reservations EXCEPT ![w.id] = w.row]
        /\ supplied' = supplied
        /\ Kind(r) = "cancel"
        /\ Names(w.id, r, "ACTIVE")
        /\ w.row = Cancelled(reservations[w.id], w.row.cancelledAt)
        /\ w.row \in Reservation
    BY <1>1, <1>2, <1>7 DEF Writes, Pending
  <2>2. /\ w.id \in Requests /\ w.id \in Stored /\ w.id = call[r].reservation
        /\ reservations[w.id] \in Reservation
        /\ reservations[w.id].status = "ACTIVE"
    BY <2>1 DEF Names, Stored, TypeOK
  <2>3. Target(r) \in Products
    BY <2>1, <2>2 DEF Target, Reservation
  <2>4. productOwner[Target(r)] = r /\ reservationOwner[w.id] = r
    BY <1>1, <1>7, <2>1, <2>2, <2>3
       DEF LocksInv, HoldsProduct, HoldsReservation, Writes
  <2>5. \A id \in Requests \ {w.id} : reservations'[id] = reservations[id]
    BY <2>1 DEF TypeOK
  <2>6. reservations'[w.id] = w.row
    BY <2>1, <2>2 DEF TypeOK
  <2>7. /\ w.row.product = reservations[w.id].product
        /\ w.row.quantity = reservations[w.id].quantity
        /\ w.row.customer = reservations[w.id].customer
        /\ w.row.key = reservations[w.id].key
    BY <2>1, <2>2 DEF Cancelled, Reservation
  <2>8. w.row # NoReservation
    BY <2>1, ServiceAssumption
  <2>9. Stored' = Stored
    BY <2>2, <2>5, <2>6, <2>8 DEF Stored
  <2>10. /\ stock' \in [Products -> 0..MaxQuantity]
         /\ reservations' \in [Requests -> Reservation \cup {NoReservation}]
         /\ supplied' \in [Products -> Nat]
    BY <1>3, <2>1 DEF TypeOK, Work
  <2>11. \A p \in Products : stock'[p] # stock[p] => productOwner[p] = r
    BY <2>1, <2>4 DEF TypeOK
  <2>12. \A id \in Stored : id # w.id => reservations'[id] = reservations[id]
    BY <2>5 DEF Stored
  <2>13. QED
    BY <1>1, <1>2, <2>2, <2>4, <2>6, <2>7, <2>9, <2>10, <2>11, <2>12
<1>8. QED
  BY <1>2, <1>4, <1>5, <1>6, <1>7 DEF Pending

\* The locks of other requests keep what they read valid.
LEMMA CommitKeepsOthers ==
    ASSUME IInv, NEW r \in Requests, Commit(r), NEW s \in Requests, s # r
    PROVE  /\ pc[s] \in {"lockProduct", "commit"} /\ Kind(s) = "reserve"
                /\ KeyIsFree(s) => KeyIsFree(s)'
           /\ \A id : Names(id, s, "CANCELLED") => Names(id, s, "CANCELLED")'
           /\ \A id : Describes(id, s) => Describes(id, s)'
           /\ \A id : /\ pc[s] \in {"lockProduct", "commit"}
                      /\ Kind(s) = "cancel" /\ Names(id, s, "ACTIVE")
                      => /\ Names(id, s, "ACTIVE")'
                         /\ reservations'[id] = reservations[id]
           /\ pc[s] # "idle" => Target(s)' = Target(s)
           /\ pc[s] = "commit" /\ work[s].effect \in Writes
                /\ Target(s) \in Products
                => stock'[Target(s)] = stock[Target(s)]
<1> USE DEF IInv
<1>1. UNCHANGED <<call, work>> /\ pc'[s] = pc[s]
  BY DEF Commit, TypeOK
<1>2. ASSUME pc[s] \in {"lockProduct", "commit"}, Kind(s) = "reserve",
             KeyIsFree(s), call[s].key # NoKey,
             NEW id \in FindByKey(call[s].customer, call[s].key)'
      PROVE  FALSE
  <2>1. /\ id \in Stored' /\ reservations'[id].customer = call[s].customer
        /\ reservations'[id].key = call[s].key
    BY <1>1 DEF FindByKey
  <2>2. FindByKey(call[s].customer, call[s].key) = {}
    BY <1>2 DEF KeyIsFree
  <2>3. id \notin Stored
    BY <2>1, <2>2, CommitEffects DEF FindByKey
  <2>4. /\ id = r /\ work[r].effect = "reserve" /\ pc[r] = "commit"
        /\ reservations'[r] = work[r].row /\ Pending(r)
    BY <2>1, <2>3, CommitEffects
  <2>5. /\ Kind(r) = "reserve"
        /\ work[r].row.customer = call[r].customer
        /\ work[r].row.key = call[r].key
    BY <2>4 DEF Pending, NewReservation
  <2>6. /\ Keyed(r) /\ Keyed(s) /\ KeyLock(r) = KeyLock(s)
    BY <1>2, <2>1, <2>4, <2>5 DEF Keyed, KeyLock
  <2>7. KeyLock(s) \in LockIds
    <3>1. call[s] \in Workload \cup CancelCalls
      BY <1>2 DEF CallsInv
    <3>2. call[s] \in ReserveCalls
      BY <1>2, <3>1, CallKinds DEF Kind
    <3>3. QED
      BY <1>2, <3>2, ServiceAssumption DEF KeyLock, ReserveCalls
  <2>8. keyOwner[KeyLock(s)] = s /\ keyOwner[KeyLock(s)] = r
    BY <1>2, <2>4, <2>6, <2>7 DEF LocksInv, HoldsKey
  <2>9. QED
    BY <2>8
<1>3. pc[s] \in {"lockProduct", "commit"} /\ Kind(s) = "reserve"
          /\ KeyIsFree(s) => KeyIsFree(s)'
  BY <1>1, <1>2 DEF KeyIsFree
<1>4. \A id : Names(id, s, "CANCELLED") => Names(id, s, "CANCELLED")'
  BY <1>1, CommitEffects DEF Names
<1>5. \A id : Describes(id, s) => Describes(id, s)'
  BY <1>1, CommitEffects DEF Describes
<1>6. ASSUME pc[s] \in {"lockProduct", "commit"}, Kind(s) = "cancel",
             NEW id, Names(id, s, "ACTIVE")
      PROVE  Names(id, s, "ACTIVE")' /\ reservations'[id] = reservations[id]
  <2>1. id \in Stored /\ id \in Requests /\ reservationOwner[id] = s
    BY <1>6 DEF Names, Stored, LocksInv, HoldsReservation
  <2>2. reservations'[id] = reservations[id] /\ id \in Stored'
    BY <2>1, CommitEffects
  <2>3. QED
    BY <1>1, <1>6, <2>2 DEF Names
<1>7. pc[s] # "idle" => Target(s)' = Target(s)
  BY <1>1, CommitEffects DEF Target, Kind, CallsInv
<1>8. pc[s] = "commit" /\ work[s].effect \in Writes
          /\ Target(s) \in Products
          => stock'[Target(s)] = stock[Target(s)]
  BY CommitEffects DEF LocksInv, HoldsProduct
<1>9. QED
  BY <1>3, <1>4, <1>5, <1>6, <1>7, <1>8

LEMMA CommitKeepsIInv ==
    ASSUME IInv, NEW r \in Requests, Commit(r)
    PROVE  IInv'
<1> USE DEF IInv
<1> DEFINE w == work[r]
<1>1. /\ pc[r] = "commit" /\ r \notin abandoned
      /\ ReleaseLocks({r})
      /\ pc' = [pc EXCEPT ![r] = "committed"]
      /\ UNCHANGED <<call, home, work, abandoned, answer, counters, crashes>>
  BY DEF Commit, At, instanceVars
<1>2. /\ pc'[r] = "committed"
      /\ \A s \in Requests \ {r} : pc'[s] = pc[s]
  BY <1>1 DEF TypeOK
<1>3. TypeOK'
  BY <1>1, CommitEffects DEF TypeOK, Statements, ReleaseLocks
<1>4. CallsInv'
  BY <1>1, <1>2, CommitEffects DEF CallsInv, Keyed, Kind, Waits
<1>5. LocksInv'
  <2> SUFFICES ASSUME NEW s \in Requests
               PROVE  LocksInv!(s)'
    BY DEF LocksInv
  <2>1. CASE s = r
    BY <1>1, <1>2, <2>1, ServiceAssumption
       DEF ReleaseLocks, HoldsKey, HoldsProduct, HoldsReservation
  <2>2. CASE s # r
    <3>1. /\ \A l \in LockIds : HoldsKey(s, l)' <=> HoldsKey(s, l)
          /\ \A id \in Requests :
                HoldsReservation(s, id)' <=> HoldsReservation(s, id)
      BY <1>1, <1>2, <2>2 DEF HoldsKey, HoldsReservation, Keyed, Kind, KeyLock
    <3>2. \A p \in Products : HoldsProduct(s, p)' <=> HoldsProduct(s, p)
      <4>1. pc[s] = "commit" => Target(s)' = Target(s)
        BY <2>2, CommitKeepsOthers
      <4>2. QED
        BY <1>1, <1>2, <2>2, <4>1 DEF HoldsProduct
    <3>3. QED
      BY <1>1, <2>2, <3>1, <3>2, ServiceAssumption DEF ReleaseLocks, LocksInv
  <2>3. QED
    BY <2>1, <2>2
<1>6. Done(r)'
  <2>1. Pending(r) /\ w \in Work
    BY CommitEffects DEF TypeOK
  <2>2. CASE w.effect = "restock"
    BY <1>1, <2>1, <2>2 DEF Pending, Done, Kind
  <2>3. CASE w.effect = "reserve"
    <3>1. /\ Kind(r) = "reserve" /\ w.id = r /\ w.row \in Reservation
          /\ w.row = NewReservation(call[r].product, call[r].quantity,
                    call[r].customer, call[r].key, w.row.createdAt)
      BY <2>1, <2>3 DEF Pending
    <3>2. reservations'[r] = w.row
      BY <2>3, <3>1 DEF Commit, TypeOK
    <3>3. r \in Stored'
      BY <3>1, <3>2, ServiceAssumption DEF Stored
    <3>4. QED
      BY <1>1, <2>3, <3>1, <3>2, <3>3
         DEF Done, Describes, NewReservation, Kind
  <2>4. CASE w.effect = "cancel"
    <3>1. /\ Kind(r) = "cancel" /\ Names(w.id, r, "ACTIVE")
          /\ w.row = Cancelled(reservations[w.id], w.row.cancelledAt)
          /\ w.id \in Requests /\ reservations[w.id] \in Reservation
          /\ w.row \in Reservation
      BY <2>1, <2>4 DEF Pending, Names, Stored, TypeOK
    <3>2. reservations'[w.id] = w.row
      BY <2>4, <3>1 DEF Commit, TypeOK
    <3>3. w.row.status = "CANCELLED" /\ w.id \in Stored'
      <4>1. w.id \in Stored
        BY <3>1 DEF Names
      <4>2. w.id \in Stored'
        BY <4>1, CommitEffects
      <4>3. QED
        BY <3>1, <4>2 DEF Cancelled, Reservation
    <3>4. reservations'[w.id].customer = call[r].customer
      BY <3>1, CommitEffects DEF Names
    <3>5. QED
      BY <1>1, <2>4, <3>1, <3>2, <3>3, <3>4 DEF Done, Names, Kind
  <2>5. CASE w.effect = "replay"
    <3>1. Describes(w.id, r) /\ Kind(r) = "reserve"
      BY <2>1, <2>5 DEF Pending
    <3>2. Describes(w.id, r)'
      BY <1>1, <3>1, CommitEffects DEF Describes
    <3>3. QED
      BY <1>1, <2>5, <3>1, <3>2 DEF Done, Kind
  <2>6. CASE w.effect = "cancelReplay"
    <3>1. Names(w.id, r, "CANCELLED") /\ Kind(r) = "cancel"
      BY <2>1, <2>6 DEF Pending
    <3>2. Names(w.id, r, "CANCELLED")'
      BY <1>1, <3>1, CommitEffects DEF Names
    <3>3. QED
      BY <1>1, <2>6, <3>1, <3>2 DEF Done, Kind
  <2>7. QED
    BY <2>1, <2>2, <2>3, <2>4, <2>5, <2>6 DEF Pending
<1>7. WorkInv'
  <2> SUFFICES ASSUME NEW s \in Requests
               PROVE  WorkOf(s)'
    BY DEF WorkInv
  <2>1. CASE s = r
    BY <1>2, <1>6, <2>1 DEF WorkOf
  <2>2. CASE s # r
    <3>1. pc'[s] = pc[s] /\ UNCHANGED <<call, work>> /\ WorkOf(s)
      BY <1>1, <1>2, <2>2 DEF WorkInv
    <3>2. pc[s] = "commit" => Pending(s)'
      <4> SUFFICES ASSUME pc[s] = "commit" PROVE Pending(s)'
        OBVIOUS
      <4>1. Pending(s)
        BY <3>1 DEF WorkOf
      <4>2. Target(s)' = Target(s)
        BY <2>2, CommitKeepsOthers
      <4>3. CASE work[s].effect = "restock"
        <5>1. stock'[Target(s)] = stock[Target(s)]
          BY <2>2, <4>1, <4>3, CommitKeepsOthers DEF Pending, Writes
        <5>2. QED
          BY <3>1, <4>1, <4>2, <4>3, <5>1 DEF Pending, Kind
      <4>4. CASE work[s].effect = "reserve"
        <5>1. stock'[Target(s)] = stock[Target(s)]
          BY <2>2, <4>1, <4>4, CommitKeepsOthers DEF Pending, Writes
        <5>2. KeyIsFree(s)'
          BY <2>2, <4>1, <4>4, CommitKeepsOthers DEF Pending
        <5>3. QED
          BY <3>1, <4>1, <4>2, <4>4, <5>1, <5>2 DEF Pending, Kind
      <4>5. CASE work[s].effect = "cancel"
        <5>1. /\ pc[s] \in {"lockProduct", "commit"}
              /\ Kind(s) = "cancel"
              /\ Names(work[s].id, s, "ACTIVE")
          BY <4>1, <4>5 DEF Pending
        <5>2. PICK id : id = work[s].id
          OBVIOUS
        <5>3. Names(id, s, "ACTIVE")' /\ reservations'[id] = reservations[id]
          BY <2>2, <5>1, <5>2, CommitKeepsOthers
        <5>4. work'[s].id = id
          BY <3>1, <5>2
        <5>5. Target(s) \in Products
          BY <5>1 DEF Target, Names, Stored, TypeOK, Reservation
        <5>6. stock'[Target(s)] = stock[Target(s)]
          BY <2>2, <4>5, <5>5, CommitKeepsOthers DEF Writes
        <5>7. QED
          BY <3>1, <4>1, <4>2, <4>5, <5>2, <5>3, <5>4, <5>6 DEF Pending, Kind
      <4>6. CASE work[s].effect \in {"replay", "cancelReplay"}
        BY <2>2, <3>1, <4>1, <4>6, CommitKeepsOthers DEF Pending, Kind
      <4>7. QED
        BY <4>1, <4>3, <4>4, <4>5, <4>6 DEF Pending
    <3>3. pc[s] = "committed" => Done(s)'
      BY <2>2, <3>1, CommitKeepsOthers DEF WorkOf, Done, Kind
    <3>4. pc[s] = "lockProduct" /\ Kind(s) = "cancel" =>
              Names(call[s].reservation, s, "ACTIVE")'
      BY <2>2, <3>1, CommitKeepsOthers DEF WorkOf
    <3>5. pc[s] = "lockProduct" /\ Kind(s) = "reserve" => KeyIsFree(s)'
      BY <2>2, <3>1, CommitKeepsOthers DEF WorkOf
    <3>6. QED
      BY <3>1, <3>2, <3>3, <3>4, <3>5 DEF WorkOf, Kind
  <2>3. QED
    BY <2>1, <2>2
<1>8. StoredInv'
  <2>1. answer[r].status \in {"none", "error"}
    BY <1>1 DEF AnswersInv, AnswerOf
  <2>2. \A id \in Stored' : /\ pc'[id] \in {"committed", "answered"}
                            /\ answer'[id].status \in {"none", "created", "error"}
                            /\ pc'[id] = "committed" => work'[id].effect = "reserve"
    BY <1>1, <1>2, <2>1, CommitEffects DEF StoredInv, Stored
  <2>3. ASSUME NEW s \in Stored', NEW t \in Stored', s # t,
               reservations'[s].customer = reservations'[t].customer,
               reservations'[s].key = reservations'[t].key,
               reservations'[s].key # NoKey
        PROVE  FALSE
    <3>1. CASE s \in Stored /\ t \in Stored
      BY <2>3, <3>1, CommitEffects DEF StoredInv
    <3>2. \A u \in Stored' : u \notin Stored =>
              \A v \in Stored : \/ reservations'[u].customer # reservations'[v].customer
                               \/ reservations'[u].key # reservations'[v].key
                               \/ reservations'[u].key = NoKey
      <4> SUFFICES ASSUME NEW u \in Stored', u \notin Stored, NEW v \in Stored,
                          reservations'[u].customer = reservations'[v].customer,
                          reservations'[u].key = reservations'[v].key,
                          reservations'[u].key # NoKey
                   PROVE  FALSE
        OBVIOUS
      <4>1. u = r /\ w.effect = "reserve" /\ reservations'[r] = w.row /\ Pending(r)
        BY CommitEffects
      <4>2. /\ KeyIsFree(r) /\ w.row.customer = call[r].customer
            /\ w.row.key = call[r].key
        BY <4>1 DEF Pending, NewReservation
      <4>3. reservations[v].customer = call[r].customer /\ reservations[v].key = call[r].key
        BY <4>1, <4>2, CommitEffects
      <4>4. v \in FindByKey(call[r].customer, call[r].key)
        BY <4>3 DEF FindByKey, Stored
      <4>5. QED
        BY <4>1, <4>2, <4>4 DEF KeyIsFree
    <3>3. QED
      BY <2>3, <3>1, <3>2, CommitEffects
  <2>4. QED
    BY <2>2, <2>3 DEF StoredInv
<1>9. AnswersInv'
  <2> SUFFICES ASSUME NEW s \in Requests
               PROVE  AnswerOf(s)'
    BY DEF AnswersInv
  <2>1. CASE s = r
    BY <1>1, <2>1 DEF AnswersInv, AnswerOf, Refusals, Granted
  <2>2. CASE s # r
    <3>1. s \in Stored' => s \in Stored
      BY <2>2, CommitEffects
    <3>2. QED
      BY <1>1, <1>2, <2>2, <3>1, CommitKeepsOthers
         DEF AnswersInv, AnswerOf, Granted, Kind
  <2>3. QED
    BY <2>1, <2>2
<1>10. QED
  BY <1>3, <1>4, <1>5, <1>7, <1>8, <1>9

LEMMA AcknowledgeKeepsIInv ==
    ASSUME IInv, NEW r \in Requests, Acknowledge(r)
    PROVE  IInv'
<1> USE DEF IInv
<1> DEFINE w == work[r]
           reply == Reply(SuccessStatus(w.effect), w.id)
           i == home[r]
           increments == Increments(w.effect, Units(r))
<1>1. /\ pc[r] = "committed" /\ r \notin abandoned
      /\ counters' = [counters EXCEPT ![i] = Counted(counters[i], increments)]
      /\ pc' = [pc EXCEPT ![r] = "answered"]
      /\ answer' = [answer EXCEPT ![r] = reply]
      /\ UNCHANGED <<stock, reservations, supplied, lockVars, call, home, work,
                      abandoned, crashes>>
  BY DEF Acknowledge, At, Respond, dbVars, TypeOK, CallsInv
<1>2. Done(r) /\ w \in Work
  BY <1>1 DEF WorkInv, WorkOf, TypeOK
<1>3. /\ pc'[r] = "answered" /\ answer'[r] = reply
      /\ \A s \in Requests \ {r} : pc'[s] = pc[s] /\ answer'[s] = answer[s]
  BY <1>1 DEF TypeOK
<1>4. /\ w.effect = "restock" => reply = Reply("ok", w.id)
      /\ w.effect = "reserve" => reply = Reply("created", w.id)
      /\ w.effect = "replay" => reply = Reply("replayed", w.id)
      /\ w.effect \in {"cancel", "cancelReplay"} => reply = Reply("ok", w.id)
  BY DEF SuccessStatus
<1>5. reply \in Answer
  BY <1>2, <1>4 DEF Done, Reply, Answer, Statuses, Work
<1>6. Counted(counters[i], increments) \in [Meters -> Nat]
  <2>1. i \in Instances /\ counters[i] \in [Meters -> Nat]
    BY <1>1 DEF CallsInv, TypeOK
  <2>2. w.effect # "cancelReplay" /\ w.effect # "replay" => Units(r) \in Nat
    <3>1. CASE w.effect = "restock"
      <4>1. Kind(r) = "addStock"
        BY <1>2, <3>1 DEF Done
      <4>2. call[r].quantity \in Nat
        BY <1>1, <4>1, DomainAssumption DEF CallsInv
      <4>3. QED
        BY <3>1, <4>2 DEF Units
    <3>2. CASE w.effect \in {"reserve", "cancel"}
      BY <1>2, <3>2, DomainAssumption DEF Done, Units, Reservation
    <3>3. QED
      BY <1>2, <3>1, <3>2 DEF Done
  <2>3. \A meter \in Meters : meter \in DOMAIN increments =>
            increments[meter] \in Nat
    BY <1>2, <2>2 DEF Increments, Done
  <2>4. QED
    BY <2>1, <2>3 DEF Counted
<1>7. TypeOK'
  <2>1. counters' \in [Instances -> [Meters -> Nat]]
    BY <1>1, <1>6 DEF TypeOK
  <2>2. answer' \in [Requests -> Answer] /\ pc' \in [Requests -> Statements]
    BY <1>1, <1>5 DEF TypeOK, Statements
  <2>3. QED
    BY <1>1, <2>1, <2>2 DEF TypeOK, lockVars
<1>8. CallsInv'
  BY <1>1, <1>3 DEF CallsInv, Stored, Keyed, Kind, Waits
<1>9. LocksInv'
  BY <1>1, <1>3
     DEF LocksInv, HoldsKey, HoldsProduct, HoldsReservation, Keyed, Kind,
         KeyLock, Target, lockVars
<1>10. WorkInv'
  <2>1. WorkOf(r)'
    BY <1>3 DEF WorkOf
  <2>2. QED
    BY <1>1, <1>3, <2>1, QuietWork
<1>11. StoredInv'
  <2>1. r \in Stored => w.effect = "reserve"
    BY <1>1 DEF StoredInv
  <2>2. w.effect = "reserve" => answer'[r].status = "created"
    BY <1>3, <1>4 DEF Reply
  <2>3. QED
    BY <1>1, <1>3, <2>1, <2>2 DEF StoredInv, Stored
<1>12. AnswersInv'
  <2> SUFFICES ASSUME NEW s \in Requests
               PROVE  AnswerOf(s)'
    BY DEF AnswersInv
  <2>1. CASE s = r
    <3>1. Done(r)'
      BY <1>1, <1>2 DEF Done, Describes, Names, Stored, Kind
    <3>2. work' = work
      BY <1>1
    <3>3. QED
      BY <1>3, <1>4, <2>1, <3>1, <3>2
         DEF AnswerOf, Done, Granted, Reply, Refusals, Kind
  <2>2. CASE s # r
    <3>1. AnswerOf(s) /\ (pc[s] = "answered" => pc'[s] = "answered")
      BY <1>3, <2>2 DEF AnswersInv
    <3>2. QED
      BY <1>1, <1>3, <2>2, <3>1, UntouchedAnswer
  <2>3. QED
    BY <2>1, <2>2
<1>13. QED
  BY <1>7, <1>8, <1>9, <1>10, <1>11, <1>12

-----------------------------------------------------------------------------
(***************************************************************************)
(* Failures                                                                *)
(***************************************************************************)

LEMMA BlockedWaits ==
    ASSUME NEW r \in Requests, Blocked(r)
    PROVE  pc[r] \in Waits
BY Zenon DEF Blocked, Holder, Waits

LEMMA RowTimeoutKeepsIInv ==
    ASSUME IInv, NEW r \in Requests, RowTimeout(r)
    PROVE  IInv'
<1>1. Reply("error", NoRequest) \in Answer
  BY DEF Reply, Answer, Statuses
<1>2. /\ answer' = [answer EXCEPT ![r] = Reply("error", NoRequest)]
      /\ abandoned' = abandoned \cup {r} /\ pc[r] \in Waits
      /\ UNCHANGED <<dbVars, keyOwner, productOwner, reservationOwner, pc, call,
                      home, work, counters, crashes>>
  BY DEF RowTimeout, At, Waits, lockVars, instanceVars
<1>3. ReleaseLocks({})
  BY <1>2 DEF ReleaseLocks, IInv, TypeOK
<1>4. /\ answer' \in [Requests -> Answer]
      /\ \A s \in Requests : \/ answer'[s] = answer[s]
                             \/ answer'[s].status = "error"
  BY <1>1, <1>2 DEF IInv, TypeOK, Reply
<1>5. Ends({})
  BY <1>2, <1>3, <1>4 DEF Ends, IInv, TypeOK, CallsInv
<1>6. QED
  BY <1>5, EndsKeepIInv

LEMMA AbandonedEndsKeepsIInv ==
    ASSUME IInv, NEW r \in Requests, AbandonedEnds(r)
    PROVE  IInv'
<1>1. pc[r] # "idle"
  BY DEF AbandonedEnds, IInv, CallsInv, Waits
<1>2. Ends({r})
  BY DEF AbandonedEnds, Ends, IInv, TypeOK, CallsInv, instanceVars
<1>3. QED
  BY <1>1, <1>2, EndsKeepIInv

LEMMA CrashKeepsIInv ==
    ASSUME IInv, NEW i \in Instances, Crash(i)
    PROVE  IInv'
<1> DEFINE inFlight == {r \in Requests : /\ home[r] = i
                                        /\ pc[r] # "answered"
                                        /\ r \notin abandoned}
           waiting == {r \in inFlight : Blocked(r)}
           gone == inFlight \ waiting
<1>1. /\ crashes < MaxCrashes /\ crashes' = crashes + 1
      /\ counters' = [counters EXCEPT ![i] = ZeroCounters]
      /\ abandoned' = abandoned \cup waiting
      /\ pc' = [r \in Requests |-> IF r \in gone THEN "answered" ELSE pc[r]]
      /\ answer' = [r \in Requests |->
                        IF r \in inFlight THEN Reply("error", NoRequest)
                                          ELSE answer[r]]
      /\ ReleaseLocks(gone)
      /\ UNCHANGED <<dbVars, call, home, work>>
  BY DEF Crash
<1>2. \A r \in waiting : pc[r] \in Waits
  BY BlockedWaits
<1>3. Reply("error", NoRequest) \in Answer
  BY DEF Reply, Answer, Statuses
<1>4. /\ answer' \in [Requests -> Answer]
      /\ \A r \in Requests : \/ answer'[r] = answer[r]
                             \/ answer'[r].status = "error"
  BY <1>1, <1>3 DEF IInv, TypeOK, Reply
<1>5. /\ counters' \in [Instances -> [Meters -> Nat]]
      /\ crashes' \in 0..MaxCrashes
  BY <1>1, ServiceAssumption DEF IInv, TypeOK, ZeroCounters
<1>6. /\ abandoned' \subseteq Requests
      /\ \A r \in abandoned' : r \notin gone /\ pc[r] \in Waits
  BY <1>1, <1>2 DEF IInv, TypeOK, CallsInv
<1>7. Ends(gone)
  BY <1>1, <1>4, <1>5, <1>6 DEF Ends
<1>8. \A r \in gone : pc[r] # "idle"
  BY ServiceAssumption DEF IInv, CallsInv
<1>9. QED
  BY <1>7, <1>8, EndsKeepIInv

-----------------------------------------------------------------------------
(***************************************************************************)
(* The inductive invariant                                                 *)
(***************************************************************************)

LEMMA InitIInv == Init => IInv
<1> SUFFICES ASSUME Init PROVE IInv
  OBVIOUS
<1>1. TypeOK
  <2>1. stock \in [Products -> 0..MaxQuantity] /\ supplied \in [Products -> Nat]
    <3>1. stock \in [Products -> 0..MaxQuantity] /\ supplied = stock
      BY ServiceAssumption DEF Init
    <3>2. 0..MaxQuantity \subseteq Nat
      BY DomainAssumption
    <3>3. QED
      BY <3>1, <3>2
  <2>2. NoWork \in Work /\ Reply("none", NoRequest) \in Answer
    BY DomainAssumption
       DEF NoWork, Work, Effects, Reply, Answer, Statuses
  <2>3. crashes \in 0..MaxCrashes /\ counters \in [Instances -> [Meters -> Nat]]
    BY ServiceAssumption DEF Init, ZeroCounters
  <2>4. QED
    BY <2>1, <2>2, <2>3 DEF Init, TypeOK, Statements
<1>2. CallsInv /\ LocksInv /\ WorkInv
  BY ServiceAssumption
     DEF Init, CallsInv, LocksInv, WorkInv, WorkOf, HoldsKey, HoldsProduct,
         HoldsReservation
<1>3. StoredInv /\ AnswersInv
  BY DEF Init, StoredInv, AnswersInv, AnswerOf, Stored, Reply, Refusals,
         Granted
<1>4. QED
  BY <1>1, <1>2, <1>3 DEF IInv

LEMMA ArriveKeepsIInv ==
    ASSUME IInv, NEW r \in Requests, Arrive(r)
    PROVE  IInv'
<1>1. ASSUME NEW i \in Instances, NEW o \in Workload, Receive(r, i, o)
      PROVE  IInv'
  <2>1. o.kind # "cancel"
    BY ServiceAssumption DEF AddStockCalls, ReserveCalls
  <2>2. QED
    BY <1>1, <2>1, ReceiveKeepsIInv
<1>2. ASSUME NEW i \in Instances, NEW id \in Stored, NEW customer \in Customers,
             Receive(r, i, [kind |-> "cancel", reservation |-> id,
                            customer |-> customer])
      PROVE  IInv'
  <2>1. [kind |-> "cancel", reservation |-> id, customer |-> customer]
            \in CancelCalls
    BY DEF CancelCalls, Stored
  <2>2. QED
    BY <1>2, <2>1, ReceiveKeepsIInv
<1>3. QED
  BY <1>1, <1>2 DEF Arrive

LEMMA FailureKeepsIInv ==
    ASSUME IInv, NEW r \in Requests, Failure(r) \/ RejectFlush(r)
    PROVE  IInv'
<1>1. CASE PoolTimeout(r)
  BY <1>1, RollbackKeepsIInv DEF PoolTimeout, At
<1>2. CASE KeyTimeout(r)
  BY <1>2, RollbackKeepsIInv DEF KeyTimeout, At, Refusals
<1>3. CASE RowTimeout(r)
  BY <1>3, RowTimeoutKeepsIInv
<1>4. CASE LoseConnection(r)
  BY <1>4, RollbackKeepsIInv DEF LoseConnection, At
<1>5. CASE RejectFlush(r)
  BY <1>5, RollbackKeepsIInv DEF RejectFlush, At, Refusals
<1>6. QED
  BY <1>1, <1>2, <1>3, <1>4, <1>5 DEF Failure

LEMMA NextKeepsIInv == IInv /\ [Next]_vars => IInv'
<1> SUFFICES ASSUME IInv, [Next]_vars PROVE IInv'
  OBVIOUS
<1>1. ASSUME NEW r \in Requests, Arrive(r) \/ Failure(r) PROVE IInv'
  BY <1>1, ArriveKeepsIInv, FailureKeepsIInv
<1>2. ASSUME NEW r \in Requests, Progress(r) PROVE IInv'
  BY <1>2, BeginKeepsIInv, AcquireKeyKeepsIInv, LookupKeyKeepsIInv,
     LockReservationKeepsIInv, LockProductKeepsIInv, CommitKeepsIInv,
     FailureKeepsIInv, AcknowledgeKeepsIInv, AbandonedEndsKeepsIInv
     DEF Progress
<1>3. ASSUME NEW i \in Instances, Crash(i) PROVE IInv'
  BY <1>3, CrashKeepsIInv
<1>4. CASE UNCHANGED vars
  <2> USE <1>4 DEF vars, dbVars, lockVars, requestVars, instanceVars
  <2>1. TypeOK' /\ CallsInv'
    BY DEF IInv, TypeOK, CallsInv, Stored, Keyed, Kind
  <2>2. LocksInv'
    BY DEF IInv, LocksInv, HoldsKey, HoldsProduct, HoldsReservation, Keyed,
           Kind, KeyLock, Target
  <2>3. WorkInv'
    <3>1. ASSUME NEW s \in Requests, WorkOf(s) PROVE WorkOf(s)'
      BY <3>1, UntouchedWork
    <3>2. QED
      BY <3>1 DEF IInv, WorkInv
  <2>4. StoredInv' /\ AnswersInv'
    <3>1. ASSUME NEW s \in Requests, AnswerOf(s) PROVE AnswerOf(s)'
      BY <3>1, UntouchedAnswer
    <3>2. QED
      BY <3>1 DEF IInv, StoredInv, Stored, AnswersInv
  <2>5. QED
    BY <2>1, <2>2, <2>3, <2>4 DEF IInv
<1>5. QED
  BY <1>1, <1>2, <1>3, <1>4 DEF Next

THEOREM InductiveInvariant == Spec => []IInv
BY InitIInv, NextKeepsIInv, PTL DEF Spec

\* Every variable keeps its type: in particular committed and pending stock
\* stay within 0..MaxQuantity (Product.java:71-86, V1:10).
THEOREM TypeCorrect == Spec => []TypeOK
BY InductiveInvariant, PTL DEF IInv

\* A reservation key can be bound once, for any number of instances, retries,
\* crashes and lost connections (InventoryService.java:73-85).
THEOREM KeysAreBoundOnce == Spec => []OneReservationPerKey
<1>1. IInv => OneReservationPerKey
  BY DomainAssumption
     DEF IInv, StoredInv, Stored, OneReservationPerKey,
         Ledger!OneReservationPerKey, Ledger!Bound, Ledger!Stored
<1>2. QED
  BY <1>1, InductiveInvariant, PTL

\* The unique index never has to refuse a keyed insert
\* (ReservationKeyLock.java:19-29, V2:5-6).
THEOREM KeyedInsertsNeverCollide == Spec => []KeyedInsertNeverCollides
<1>1. IInv => KeyedInsertNeverCollides
  BY DEF IInv, WorkInv, WorkOf, Pending, KeyIsFree,
         KeyedInsertNeverCollides
<1>2. QED
  BY <1>1, InductiveInvariant, PTL

\* What a response says is true when it is sent and stays true
\* (InventoryController.java:44-53, InventoryService.java:76-89, 105-121).
THEOREM RepliesStayTrue == Spec => []RepliesAreTrue
<1>1. IInv => RepliesAreTrue
  BY DEF IInv, AnswersInv, AnswerOf, RepliesAreTrue, Describes, Names
<1>2. QED
  BY <1>1, InductiveInvariant, PTL

\* However a keyed call is retried, its successes show one reservation and
\* one creation (docs/idempotency.md:19-27).
THEOREM RetriesGetOneAnswer == Spec => []OneAnswerPerKey
<1>1. IInv => OneAnswerPerKey
  <2> SUFFICES ASSUME IInv, NEW r \in Requests, NEW s \in Requests,
                      Granted(r), Granted(s),
                      call[r].customer = call[s].customer,
                      call[r].key = call[s].key, call[r].key # NoKey
               PROVE  /\ answer[r].reservation = answer[s].reservation
                      /\ answer[r].status = "created"
                            /\ answer[s].status = "created" => r = s
    BY DEF OneAnswerPerKey
  <2>1. /\ Describes(answer[r].reservation, r)
        /\ Describes(answer[s].reservation, s)
        /\ answer[r].status = "created" => answer[r].reservation = r
        /\ answer[s].status = "created" => answer[s].reservation = s
    BY DEF IInv, AnswersInv, AnswerOf
  <2>2. answer[r].reservation = answer[s].reservation
    BY <2>1 DEF IInv, StoredInv, Describes
  <2>3. QED
    BY <2>1, <2>2
<1>2. QED
  BY <1>1, InductiveInvariant, PTL

\* A refused request made no reservation (ReservationKeyLock.java:20-21,
\* docs/idempotency.md:26).
THEOREM RefusalsAreClean == Spec => []RefusalsLeaveNoTrace
<1>1. IInv => RefusalsLeaveNoTrace
  BY DEF IInv, AnswersInv, AnswerOf, RefusalsLeaveNoTrace, Refusals
<1>2. QED
  BY <1>1, InductiveInvariant, PTL

\* No wait is for ever: whoever holds a product's lock waits for nothing, and
\* everybody else waits for it or for somebody who does
\* (InventoryService.java:74, 86, 109, 112).
THEOREM NoDeadlock == Spec => []WaitsEnd
<1>1. ASSUME IInv, NEW r \in Requests, Blocked(r)
      PROVE  /\ Holder(r) \in Requests
             /\ pc[Holder(r)] \in {"findByKey", "lockProduct", "commit"}
             /\ pc[r] = "lockProduct" => pc[Holder(r)] = "commit"
  <2>1. CASE pc[r] = "acquireKey"
    <3>1. Holder(r) = keyOwner[KeyLock(r)]
      BY <2>1, Zenon DEF Holder
    <3>2. KeyLock(r) \in LockIds
      <4>1. Keyed(r) /\ call[r] \in Workload \cup CancelCalls
        BY <1>1, <2>1 DEF IInv, CallsInv
      <4>2. QED
        BY <4>1, KeyLockType
    <3>3. QED
      BY <1>1, <2>1, <3>1, <3>2
         DEF Blocked, IInv, TypeOK, LocksInv, HoldsKey
  <2>2. CASE pc[r] = "lockReservation"
    <3>1. Holder(r) = reservationOwner[call[r].reservation]
      BY <2>2, Zenon DEF Holder
    <3>2. call[r].reservation \in Requests
      BY <1>1, <2>2 DEF IInv, CallsInv, Stored
    <3>3. QED
      BY <1>1, <2>2, <3>1, <3>2
         DEF Blocked, IInv, TypeOK, LocksInv, HoldsReservation
  <2>3. CASE pc[r] = "lockProduct" /\ Target(r) \in Products
    <3>1. Holder(r) = productOwner[Target(r)]
      BY <2>3, Zenon DEF Holder
    <3>2. QED
      BY <1>1, <2>3, <3>1
         DEF Blocked, IInv, TypeOK, LocksInv, HoldsProduct
  <2>4. QED
    BY <1>1, <2>1, <2>2, <2>3, Zenon DEF Blocked, Holder
<1>2. ASSUME NEW r \in Requests, pc[r] = "commit"
      PROVE  ~Blocked(r)
  BY <1>2, BlockedWaits DEF Waits
<1>3. ASSUME NEW r \in Requests, pc[r] = "findByKey"
      PROVE  ~Blocked(r)
  BY <1>3, BlockedWaits DEF Waits
<1>4. IInv => WaitsEnd
  <2> SUFFICES ASSUME IInv PROVE WaitsEnd
    OBVIOUS
  <2>1. ASSUME NEW R \in SUBSET Requests, R # {},
               \A r \in R : Holder(r) \in R
        PROVE  FALSE
    <3>1. \A r \in R : Blocked(r)
      BY <2>1, ServiceAssumption DEF Blocked
    <3>2. PICK r \in R : TRUE
      BY <2>1
    <3>3. pc[Holder(r)] = "lockProduct"
      BY <1>1, <1>2, <1>3, <2>1, <3>1
    <3>4. pc[Holder(Holder(r))] = "commit"
      BY <1>1, <2>1, <3>1, <3>3
    <3>5. QED
      BY <1>2, <2>1, <3>1, <3>4
  <2>2. QED
    BY <1>1, <2>1 DEF WaitsEnd
<1>5. QED
  BY <1>4, InductiveInvariant, PTL

-----------------------------------------------------------------------------
(***************************************************************************)
(* The service implements the ledger                                       *)
(***************************************************************************)

\* Every step but a commit leaves the committed tables alone.
LEMMA OnlyCommitWrites ==
    ASSUME Next
    PROVE  UNCHANGED dbVars \/ \E r \in Requests : Commit(r)
<1>1. ASSUME NEW r \in Requests, Arrive(r) PROVE UNCHANGED dbVars
  BY <1>1 DEF Arrive, Receive
<1>2. ASSUME NEW r \in Requests, NEW status, Rollback(r, status)
      PROVE  UNCHANGED dbVars
  BY <1>2 DEF Rollback
<1>3. ASSUME NEW r \in Requests, Failure(r) \/ RejectFlush(r)
      PROVE  UNCHANGED dbVars
  BY <1>2, <1>3
     DEF Failure, PoolTimeout, KeyTimeout, RowTimeout, LoseConnection,
         RejectFlush
<1>4. ASSUME NEW r \in Requests, LockProduct(r) PROVE UNCHANGED dbVars
  BY <1>2, <1>4
     DEF LockProduct, LockMissing, LockToRestock, LockToReserve, LockToCancel,
         Locked
<1>5. ASSUME NEW r \in Requests, LockReservation(r) \/ LookupKey(r)
      PROVE  UNCHANGED dbVars
  BY <1>2, <1>5 DEF LockReservation, LookupKey
<1>6. ASSUME NEW r \in Requests, Progress(r)
      PROVE  UNCHANGED dbVars \/ Commit(r)
  BY <1>3, <1>4, <1>5, <1>6
     DEF Progress, Begin, AcquireKey, Acknowledge, AbandonedEnds
<1>7. ASSUME NEW i \in Instances, Crash(i) PROVE UNCHANGED dbVars
  BY <1>7 DEF Crash
<1>8. QED
  BY <1>1, <1>3, <1>6, <1>7 DEF Next

\* A commit does to the tables what its request asked for, in one step of the
\* ledger: what was read under the locks has not changed since, so overwriting
\* the rows is the ledger's update.
LEMMA CommitDoesWhatWasAsked ==
    ASSUME IInv, NEW r \in Requests, Commit(r)
    PROVE  LET o == call[r]
               effect == work[r].effect
           IN  \/ effect \in {"replay", "cancelReplay"} /\ UNCHANGED dbVars
               \/ /\ effect = "restock" /\ o.kind = "addStock"
                  /\ o.product \in Products /\ o.quantity \in 1..MaxQuantity
                  /\ Ledger!AddStock(o.product, o.quantity)
               \/ /\ effect = "reserve" /\ o.kind = "reserve"
                  /\ o.product \in Products /\ o.quantity \in 1..MaxQuantity
                  /\ o.customer \in Customers /\ o.key \in Keys \cup {NoKey}
                  /\ \E now \in Times :
                        Ledger!Reserve(r, o.product, o.quantity, o.customer,
                                       o.key, now)
               \/ /\ effect = "cancel" /\ o.kind = "cancel"
                  /\ Names(o.reservation, r, "ACTIVE")
                  /\ \E now \in Times :
                        Ledger!CancelReservation(o.reservation, now)
<1> USE DEF IInv
<1> DEFINE w == work[r]
           p0 == Target(r)
<1>1. /\ pc[r] = "commit" /\ ConstraintsHold(r)
      /\ stock' = IF w.effect \in Writes
                  THEN [stock EXCEPT ![p0] = w.stock] ELSE stock
      /\ reservations' = IF w.effect \in {"reserve", "cancel"}
                         THEN [reservations EXCEPT ![w.id] = w.row]
                         ELSE reservations
      /\ supplied' = IF w.effect = "restock"
                     THEN [supplied EXCEPT ![p0] = @ + call[r].quantity]
                     ELSE supplied
      /\ Pending(r) /\ w \in Work /\ r \notin Stored
  BY CommitEffects DEF Commit, At, TypeOK
<1>2. CASE w.effect \in {"replay", "cancelReplay"}
  BY <1>1, <1>2 DEF Writes, dbVars
<1>3. CASE w.effect = "restock"
  <2>1. /\ p0 \in Products /\ w.stock = stock[p0] + call[r].quantity
        /\ Kind(r) = "addStock"
    BY <1>1, <1>3 DEF Pending
  <2>2. call[r].quantity \in 1..MaxQuantity
    BY <1>1, <2>1 DEF CallsInv
  <2>3. w.stock <= MaxQuantity
    BY <1>1, DomainAssumption DEF Work
  <2>4. Ledger!AddStock(p0, call[r].quantity)
    BY <1>1, <1>3, <2>1, <2>3 DEF Ledger!AddStock, Writes
  <2>5. call[r].kind = "addStock" /\ p0 = call[r].product
    BY <2>1 DEF Kind, Target
  <2>6. QED
    BY <1>3, <2>1, <2>2, <2>4, <2>5
<1>4. CASE w.effect = "reserve"
  <2> DEFINE q == call[r].quantity
             now == w.row.createdAt
  <2>1. /\ p0 \in Products /\ w.stock = stock[p0] - q
        /\ Kind(r) = "reserve" /\ w.id = r /\ KeyIsFree(r)
        /\ w.row = NewReservation(call[r].product, q, call[r].customer,
                                  call[r].key, now)
        /\ w.row \in Reservation
    BY <1>1, <1>4 DEF Pending
  <2>2. /\ q \in 1..MaxQuantity /\ p0 = call[r].product
        /\ call[r].customer \in Customers
        /\ call[r].key \in Keys \cup {NoKey} /\ now \in Times
    <3>1. /\ w.row.customer \in Customers /\ w.row.key \in Keys \cup {NoKey}
          /\ now \in Times /\ w.row.quantity \in 1..MaxQuantity
      BY <2>1 DEF Reservation
    <3>2. /\ w.row.customer = call[r].customer /\ w.row.key = call[r].key
          /\ w.row.quantity = q
      BY <2>1 DEF NewReservation
    <3>3. p0 = call[r].product
      BY <2>1 DEF Target
    <3>4. QED
      BY <3>1, <3>2, <3>3
  <2>3. stock[p0] - q >= 0
    BY <1>1, <2>1, DomainAssumption DEF Work
  <2>4. reservations[r] = NoReservation
    BY <1>1 DEF Stored
  <2>5. call[r].key # NoKey =>
            Ledger!Bound(call[r].customer, call[r].key) = {}
    BY <2>1 DEF KeyIsFree, FindByKey, Stored, Ledger!Bound, Ledger!Stored
  <2>6. w.row = [product |-> p0, quantity |-> q,
                 customer |-> call[r].customer, key |-> call[r].key,
                 status |-> "ACTIVE", createdAt |-> now,
                 cancelledAt |-> NoTime]
    BY <2>1, <2>2 DEF NewReservation
  <2>7. /\ stock' = [stock EXCEPT ![p0] = stock[p0] - q]
        /\ reservations' = [reservations EXCEPT ![r] = w.row]
        /\ supplied' = supplied
    BY <1>1, <1>4, <2>1 DEF Writes
  <2>8. Ledger!Reserve(r, p0, q, call[r].customer, call[r].key, now)
    BY <2>3, <2>4, <2>5, <2>6, <2>7 DEF Ledger!Reserve
  <2>9. call[r].kind = "reserve"
    BY <2>1 DEF Kind
  <2>10. QED
    BY <1>4, <2>1, <2>2, <2>8, <2>9
<1>5. CASE w.effect = "cancel"
  <2> DEFINE id == w.id
             now == w.row.cancelledAt
  <2>1. /\ Kind(r) = "cancel" /\ Names(id, r, "ACTIVE")
        /\ w.stock = stock[p0] + reservations[id].quantity
        /\ w.row = Cancelled(reservations[id], now)
        /\ w.row \in Reservation
    BY <1>1, <1>5 DEF Pending
  <2>2. /\ id \in Requests /\ reservations[id] \in Reservation
        /\ reservations[id] # NoReservation
        /\ reservations[id].status = "ACTIVE"
        /\ p0 = reservations[id].product
    BY <2>1, ServiceAssumption DEF Names, Stored, TypeOK, Target
  <2>3. now \in Times /\ now >= reservations[id].createdAt
    <3>1. w.row.status = "CANCELLED" /\ w.row.createdAt = reservations[id].createdAt
      BY <2>1, <2>2 DEF Cancelled, Reservation
    <3>2. CancellationConsistent(w.row)
      BY <1>1, <1>5 DEF ConstraintsHold
    <3>3. now # NoTime /\ now >= w.row.createdAt
      BY <3>1, <3>2 DEF CancellationConsistent
    <3>4. QED
      BY <2>1, <3>1, <3>3 DEF Reservation
  <2>4. w.stock <= MaxQuantity
    BY <1>1, DomainAssumption DEF Work
  <2>5. /\ stock' = [stock EXCEPT ![p0] = w.stock]
        /\ reservations' = [reservations EXCEPT ![id] = w.row]
        /\ supplied' = supplied
    BY <1>1, <1>5 DEF Writes
  <2>6. reservations' = [reservations EXCEPT ![id].status = "CANCELLED",
                                             ![id].cancelledAt = now]
    BY <2>1, <2>2, <2>5 DEF Cancelled, TypeOK, Reservation
  <2>7. Ledger!CancelReservation(id, now)
    BY <2>1, <2>2, <2>3, <2>4, <2>5, <2>6 DEF Ledger!CancelReservation
  <2>8. call[r].kind = "cancel" /\ id = call[r].reservation
    BY <2>1 DEF Kind, Names
  <2>9. QED
    BY <1>5, <2>1, <2>3, <2>7, <2>8
<1>6. QED
  BY <1>1, <1>2, <1>3, <1>4, <1>5 DEF Pending

LEMMA CommitIsALedgerStep ==
    ASSUME IInv, NEW r \in Requests, Commit(r)
    PROVE  Ledger!Next \/ UNCHANGED dbVars
<1>1. ASSUME Names(call[r].reservation, r, "ACTIVE")
      PROVE  call[r].reservation \in Requests
  BY <1>1 DEF Names, Stored
<1> QED
  BY <1>1, CommitDoesWhatWasAsked DEF Ledger!Next

LEMMA StepsAreLedgerSteps ==
    ASSUME IInv, [Next]_vars
    PROVE  Ledger!Next \/ UNCHANGED dbVars
<1>1. CASE Next
  BY <1>1, OnlyCommitWrites, CommitIsALedgerStep
<1>2. CASE UNCHANGED vars
  BY <1>2 DEF vars
<1>3. QED
  BY <1>1, <1>2

\* Whatever interleaves and whatever fails, the committed tables evolve by
\* atomic, sequential steps of the ledger: no lost update, no overselling, no
\* stock returned twice (InventoryService.java:59-121).
THEOREM ServiceImplementsLedger == Spec => ImplementsLedger
<1>1. Init => Ledger!Init
  BY DEF Init, Ledger!Init
<1>2. IInv /\ [Next]_vars => [Ledger!Next]_(Ledger!vars)
  BY StepsAreLedgerSteps DEF Ledger!vars, dbVars
<1>3. QED
  BY <1>1, <1>2, InductiveInvariant, PTL
     DEF Spec, ImplementsLedger, Ledger!Spec

-----------------------------------------------------------------------------
(***************************************************************************)
(* The ledger conserves stock                                              *)
(***************************************************************************)

\* Every step adds one reservation at most, so the sums are over finite sets
\* however many requests there are.
ConservationInv ==
    /\ StockConservation
    /\ IsFiniteSet(Stored)

QuantityOf == [id \in Stored |-> reservations[id].quantity]

LEMMA HeldIsASum ==
    ASSUME NEW p
    PROVE  /\ Ledger!Held(p)
                = SumFunctionOnSet(QuantityOf, Ledger!Active(p))
           /\ Ledger!Held(p)'
                = SumFunctionOnSet(QuantityOf', Ledger!Active(p)')
BY DEF Ledger!Held, Ledger!Stored, Stored, QuantityOf,
       SumFunctionOnSet, FoldFunctionOnSet, MapThenFoldSet,
       Ledger!SumFunctionOnSet, Ledger!FoldFunctionOnSet,
       Ledger!MapThenFoldSet

LEMMA HeldUnits ==
    ASSUME TypeOK, IsFiniteSet(Stored), NEW p
    PROVE  /\ IsFiniteSet(Ledger!Active(p))
           /\ Ledger!Active(p) \subseteq Stored
           /\ \A id \in Stored : /\ reservations[id] \in Reservation
                                 /\ QuantityOf[id] = reservations[id].quantity
                                 /\ QuantityOf[id] \in Nat
           /\ SumFunctionOnSet(QuantityOf, Ledger!Active(p)) \in Nat
<1>1. \A id \in Stored :
        /\ reservations[id] \in Reservation
        /\ QuantityOf[id] = reservations[id].quantity
        /\ QuantityOf[id] \in Nat
  BY DomainAssumption DEF TypeOK, Stored, QuantityOf, Reservation
<1>2. Ledger!Active(p) \subseteq Stored
  BY DEF Ledger!Active, Ledger!Stored, Stored
<1>3. IsFiniteSet(Ledger!Active(p))
  BY <1>2, FS_Subset
<1> QED
  BY <1>1, <1>2, <1>3, SumIsNatural

LEMMA AddStockConserves ==
    ASSUME TypeOK, ConservationInv, NEW p \in Products, NEW q \in Nat,
           Ledger!AddStock(p, q)
    PROVE  ConservationInv'
<1>1. QuantityOf' = QuantityOf /\ Stored' = Stored
  BY DEF Ledger!AddStock, QuantityOf, Stored
<1>2. \A r \in Products : /\ Ledger!Held(r)' = Ledger!Held(r)
                          /\ Ledger!Held(r) \in Nat
  <2> TAKE r \in Products
  <2>1. Ledger!Active(r)' = Ledger!Active(r)
    BY DEF Ledger!AddStock, Ledger!Active, Ledger!Stored
  <2> QED BY <1>1, <2>1, HeldIsASum, HeldUnits DEF ConservationInv
<1>3. \A r \in Products :
        /\ stock'[r] = IF r = p THEN stock[p] + q ELSE stock[r]
        /\ supplied'[r] = IF r = p THEN supplied[p] + q ELSE supplied[r]
        /\ stock[r] \in Nat /\ supplied[r] \in Nat
  BY DomainAssumption DEF Ledger!AddStock, TypeOK
<1>4. \A r \in Products : stock[r] + Ledger!Held(r) = supplied[r]
  BY DEF ConservationInv, StockConservation, Ledger!StockConservation
<1>5. \A r \in Products : stock'[r] + Ledger!Held(r)' = supplied'[r]
  BY <1>2, <1>3, <1>4
<1> QED
  BY <1>1, <1>5
     DEF ConservationInv, StockConservation, Ledger!StockConservation

LEMMA ReserveConserves ==
    ASSUME TypeOK, ConservationInv, NEW id \in Requests,
           NEW p \in Products, NEW q \in 1..MaxQuantity,
           NEW customer \in Customers, NEW key \in Keys \cup {NoKey},
           NEW now \in Times,
           Ledger!Reserve(id, p, q, customer, key, now)
    PROVE  ConservationInv'
<1> DEFINE row == [product |-> p, quantity |-> q, customer |-> customer,
                   key |-> key, status |-> "ACTIVE", createdAt |-> now,
                   cancelledAt |-> NoTime]
<1>1. /\ id \notin Stored
      /\ reservations' = [reservations EXCEPT ![id] = row]
      /\ \A r \in Products :
            /\ stock'[r] = IF r = p THEN stock[p] - q ELSE stock[r]
            /\ stock[r] \in Nat /\ supplied[r] \in Nat
      /\ supplied' = supplied
      /\ q \in Nat
  BY DomainAssumption DEF Ledger!Reserve, TypeOK, Stored
<1>2. row # NoReservation
  <2>1. row \in Reservation
    BY DEF Reservation
  <2> QED BY <2>1, ServiceAssumption
<1>3. /\ Stored' = Stored \cup {id}
      /\ \A s \in Stored : QuantityOf'[s] = QuantityOf[s]
      /\ QuantityOf'[id] = q
  <2>1. reservations'[id] = row /\ \A s \in Requests \ {id} :
            reservations'[s] = reservations[s]
    BY <1>1 DEF TypeOK
  <2>2. Stored' = Stored \cup {id}
    BY <1>2, <2>1 DEF Stored
  <2> HIDE DEF row
  <2>3. \A s \in Stored : s \in Requests \ {id}
    BY <1>1 DEF Stored
  <2>4. row.quantity = q
    BY DEF row
  <2> QED BY <2>1, <2>2, <2>3, <2>4 DEF QuantityOf
<1>4. IsFiniteSet(Stored)'
  BY <1>3, FS_AddElement DEF ConservationInv
<1>5. ASSUME NEW r \in Products
      PROVE  stock'[r] + Ledger!Held(r)' = supplied'[r]
  <2> DEFINE A == Ledger!Active(r)
             B == Ledger!Active(r)'
  <2>1. B = IF r = p THEN A \cup {id} ELSE A
    <3>1. /\ reservations'[id] = row /\ row.product = p
          /\ row.status = "ACTIVE"
          /\ \A s \in Requests \ {id} : reservations'[s] = reservations[s]
      BY <1>1 DEF TypeOK
    <3> HIDE DEF row
    <3> QED BY <1>1, <1>2, <3>1 DEF Ledger!Active, Ledger!Stored, Stored
  <2>2. /\ IsFiniteSet(A) /\ A \subseteq Stored
        /\ \A s \in A : QuantityOf'[s] \in Nat
        /\ SumFunctionOnSet(QuantityOf, A) \in Nat
        /\ SumFunctionOnSet(QuantityOf', A) = SumFunctionOnSet(QuantityOf, A)
    <3>1. /\ IsFiniteSet(A) /\ A \subseteq Stored
          /\ \A s \in Stored : QuantityOf[s] \in Nat
          /\ SumFunctionOnSet(QuantityOf, A) \in Nat
      BY HeldUnits DEF ConservationInv
    <3>2. \A s \in A : QuantityOf'[s] = QuantityOf[s]
      BY <1>3, <3>1
    <3>3. SumFunctionOnSet(QuantityOf', A) = SumFunctionOnSet(QuantityOf, A)
      BY <3>1, <3>2, SumDependsOnValues
    <3> QED BY <3>1, <3>2, <3>3
  <2>3. Ledger!Held(r)' = IF r = p THEN Ledger!Held(r) + q ELSE Ledger!Held(r)
    <3>1. CASE r = p
      <4>1. id \notin A
        BY <1>1, <2>2
      <4>2. SumFunctionOnSet(QuantityOf', A \cup {id})
              = SumFunctionOnSet(QuantityOf', A) + q
        BY <1>1, <1>3, <2>2, <4>1, SumWithElement
      <4> QED BY <2>1, <2>2, <3>1, <4>2, HeldIsASum
    <3>2. CASE r # p
      BY <2>1, <2>2, <3>2, HeldIsASum
    <3> QED BY <3>1, <3>2
  <2>4. Ledger!Held(r) \in Nat
    BY <2>2, HeldIsASum
  <2>5. stock[r] + Ledger!Held(r) = supplied[r]
    BY DEF ConservationInv, StockConservation, Ledger!StockConservation
  <2> QED BY <1>1, <2>3, <2>4, <2>5
<1> QED
  BY <1>4, <1>5
     DEF ConservationInv, StockConservation, Ledger!StockConservation

LEMMA CancelConserves ==
    ASSUME TypeOK, ConservationInv, NEW id \in Requests, NEW now \in Times,
           Ledger!CancelReservation(id, now)
    PROVE  ConservationInv'
<1> DEFINE p == reservations[id].product
           q == reservations[id].quantity
<1>1. /\ id \in Stored /\ reservations[id] \in Reservation
      /\ p \in Products /\ q \in Nat /\ q = QuantityOf[id]
      /\ id \in Ledger!Active(p)
      /\ \A r \in Products :
            /\ stock'[r] = IF r = p THEN stock[p] + q ELSE stock[r]
            /\ stock[r] \in Nat /\ supplied[r] \in Nat
      /\ supplied' = supplied
  <2>1. id \in Stored /\ reservations[id] \in Reservation
    BY DEF Ledger!CancelReservation, TypeOK, Stored
  <2>2. p \in Products /\ q \in Nat /\ q = QuantityOf[id]
    BY <2>1, DomainAssumption DEF Reservation, QuantityOf
  <2>3. id \in Ledger!Active(p)
    BY <2>1 DEF Ledger!CancelReservation, Ledger!Active, Ledger!Stored
  <2>4. \A r \in Products :
            /\ stock'[r] = IF r = p THEN stock[p] + q ELSE stock[r]
            /\ stock[r] \in Nat /\ supplied[r] \in Nat
    BY DomainAssumption DEF Ledger!CancelReservation, TypeOK
  <2> QED BY <2>1, <2>2, <2>3, <2>4 DEF Ledger!CancelReservation
<1>2. /\ \A s \in Requests \ {id} : reservations'[s] = reservations[s]
      /\ reservations'[id]
            = [reservations[id] EXCEPT !.status = "CANCELLED",
                                       !.cancelledAt = now]
  BY DEF Ledger!CancelReservation, TypeOK
<1>3. /\ reservations'[id].quantity = q
      /\ reservations'[id].status = "CANCELLED"
      /\ reservations'[id] # NoReservation
  <2>1. reservations'[id] \in Reservation
    BY <1>1, <1>2 DEF Reservation
  <2> QED BY <1>1, <1>2, <2>1, ServiceAssumption DEF Reservation
<1>4. Stored' = Stored /\ QuantityOf' = QuantityOf
  <2>1. Stored' = Stored
    BY <1>1, <1>2, <1>3 DEF Stored
  <2>2. \A s \in Stored : reservations'[s].quantity = reservations[s].quantity
    BY <1>2, <1>3 DEF Stored
  <2> QED BY <2>1, <2>2 DEF QuantityOf
<1>5. ASSUME NEW r \in Products
      PROVE  stock'[r] + Ledger!Held(r)' = supplied'[r]
  <2> DEFINE A == Ledger!Active(r)
             B == Ledger!Active(r)'
  <2>1. B = IF r = p THEN A \ {id} ELSE A
    BY <1>1, <1>2, <1>3 DEF Ledger!Active, Ledger!Stored
  <2>2. /\ IsFiniteSet(A) /\ A \subseteq Stored
        /\ \A s \in A : QuantityOf[s] \in Nat
        /\ \A s \in B : QuantityOf[s] \in Nat
        /\ IsFiniteSet(B)
    BY <2>1, HeldUnits, FS_Subset DEF ConservationInv
  <2>3. Ledger!Held(r)' \in Nat /\ Ledger!Held(r) \in Nat
    BY <1>4, <2>2, HeldIsASum, SumIsNatural
  <2>4. Ledger!Held(r) = IF r = p THEN q + Ledger!Held(r)' ELSE Ledger!Held(r)'
    <3>1. CASE r = p
      BY <1>1, <1>4, <2>1, <2>2, <3>1, HeldIsASum, SumWithoutElement
    <3>2. CASE r # p
      BY <1>4, <2>1, <3>2, HeldIsASum
    <3> QED BY <3>1, <3>2
  <2>5. stock[r] + Ledger!Held(r) = supplied[r]
    BY DEF ConservationInv, StockConservation, Ledger!StockConservation
  <2> QED BY <1>1, <2>3, <2>4, <2>5
<1> QED
  BY <1>4, <1>5
     DEF ConservationInv, StockConservation, Ledger!StockConservation

LEMMA ConservationInvariant == Spec => []ConservationInv
<1>1. Init => ConservationInv
  <2> SUFFICES ASSUME Init PROVE ConservationInv
    OBVIOUS
  <2>1. Stored = {} /\ \A p \in Products : Ledger!Active(p) = {}
    BY DEF Init, Stored, Ledger!Active, Ledger!Stored
  <2>2. \A p \in Products : Ledger!Held(p) = 0
    BY <2>1, HeldIsASum, SumOfNothing
  <2>3. \A p \in Products : stock[p] \in Nat /\ supplied[p] = stock[p]
    <3>1. Stocked \subseteq 0..MaxQuantity /\ MaxQuantity \in Nat
      BY ServiceAssumption, DomainAssumption
    <3>2. stock \in [Products -> Stocked] /\ supplied = stock
      BY DEF Init
    <3>3. \A p \in Products : stock[p] \in Stocked
      BY <3>2
    <3>4. \A n \in Stocked : n \in Nat
      BY <3>1
    <3> QED
      BY <3>2, <3>3, <3>4
  <2> QED
    BY <2>1, <2>2, <2>3, FS_EmptySet
       DEF ConservationInv, StockConservation, Ledger!StockConservation
<1>2. IInv /\ ConservationInv /\ [Next]_vars => ConservationInv'
  <2> SUFFICES ASSUME IInv, ConservationInv, [Next]_vars
               PROVE  ConservationInv'
    OBVIOUS
  <2>1. TypeOK
    BY DEF IInv
  <2>2. CASE UNCHANGED dbVars
    <3>1. /\ UNCHANGED <<stock, supplied, Stored, QuantityOf>>
          /\ \A p : Ledger!Active(p)' = Ledger!Active(p)
      BY <2>2 DEF dbVars, Stored, QuantityOf, Ledger!Active, Ledger!Stored
    <3>2. \A p : Ledger!Held(p)' = Ledger!Held(p)
      BY <3>1, HeldIsASum
    <3> QED
      BY <3>1, <3>2
         DEF ConservationInv, StockConservation, Ledger!StockConservation
  <2>3. CASE Ledger!Next
    <3>1. 1..MaxQuantity \subseteq Nat
      BY DomainAssumption
    <3> QED
      BY <2>1, <2>3, <3>1, AddStockConserves, ReserveConserves,
         CancelConserves DEF Ledger!Next
  <2> QED
    BY <2>2, <2>3, StepsAreLedgerSteps
<1> QED
  BY <1>1, <1>2, InductiveInvariant, PTL DEF Spec

\* Whatever interleaves and whatever fails, the units on the shelf and those
\* that active reservations hold are the units ever supplied, for any number
\* of requests: the ledger conserves them, and the service takes its steps
\* (Product.java:71-86, Reservation.java:83-91).
THEOREM StockIsConserved == Spec => []StockConservation
<1>1. ConservationInv => StockConservation
  BY DEF ConservationInv
<1> QED
  BY <1>1, ConservationInvariant, PTL

-----------------------------------------------------------------------------
(***************************************************************************)
(* The business metrics follow the ledger                                  *)
(***************************************************************************)

\* Requests whose commit the counters have yet to hear of, and what it will
\* add to them.
InFlight == {r \in Requests : pc[r] = "committed"}

Gain(r) ==
    CASE work[r].effect = "reserve" ->
            [reservations |-> 1, stockReserved |-> work[r].row.quantity,
             cancelled |-> 0, stockReleased |-> 0]
      [] work[r].effect = "cancel" ->
            [reservations |-> 0, stockReserved |-> 0,
             cancelled |-> 1, stockReleased |-> work[r].row.quantity]
      [] OTHER -> [reservations |-> 0, stockReserved |-> 0,
                   cancelled |-> 0, stockReleased |-> 0]

GainIn(meter) == [r \in Requests |-> Gain(r)[meter]]
Owed(meter) == SumFunctionOnSet(GainIn(meter), InFlight)

MeterIn(meter) == [i \in Instances |-> counters[i][meter]]

FigureMeters == {"reservations", "stockReserved", "cancelled",
                 "stockReleased"}

Figures ==
    [reservations |-> Cardinality(Stored),
     stockReserved |-> SumFunctionOnSet(QuantityOf, Stored),
     cancelled |-> Cardinality(CancelledIds),
     stockReleased |-> SumFunctionOnSet(QuantityOf, CancelledIds)]

Undisturbed ==
    /\ crashes = 0
    /\ \A r \in Requests : answer[r].status # "error"

\* What the counters say and what they are about to be told is no more than
\* the tables hold, and as much as long as nothing was lost.
Balanced(meter) ==
    LET counted == SumFunctionOnSet(MeterIn(meter), Instances) + Owed(meter)
    IN  /\ counted <= Figures[meter]
        /\ Undisturbed => counted = Figures[meter]

\* Only a request that has ended, or lost its client, was answered an error.
ErrorsInv ==
    \A r \in Requests :
        answer[r].status = "error" => pc[r] = "answered" \/ r \in abandoned

CountersInv ==
    /\ ErrorsInv
    /\ IsFiniteSet(InFlight)
    /\ \A meter \in FigureMeters : Balanced(meter)

LEMMA GainsAreCounts ==
    ASSUME IInv, NEW r \in InFlight, NEW meter \in FigureMeters
    PROVE  /\ GainIn(meter)[r] = Gain(r)[meter]
           /\ Gain(r)[meter] \in Nat
           /\ \A current \in [Meters -> Nat] :
                Counted(current, Increments(work[r].effect, Units(r)))[meter]
                    = current[meter] + Gain(r)[meter]
<1>1. r \in Requests /\ Done(r)
  BY DEF InFlight, IInv, WorkInv, WorkOf
<1>2. work[r].effect \in {"reserve", "cancel"} =>
          /\ work[r].row \in Reservation
          /\ work[r].row.quantity \in Nat
          /\ Units(r) = work[r].row.quantity
  BY <1>1, DomainAssumption DEF Done, Reservation, Units
<1>3. meter \in Meters
  BY DEF FigureMeters, Meters
<1>4. CASE work[r].effect = "reserve"
  BY <1>1, <1>2, <1>3, <1>4
     DEF Gain, GainIn, Counted, Increments, FigureMeters
<1>5. CASE work[r].effect = "cancel"
  BY <1>1, <1>2, <1>3, <1>5
     DEF Gain, GainIn, Counted, Increments, FigureMeters
<1>6. CASE work[r].effect = "restock"
  BY <1>1, <1>3, <1>6 DEF Gain, GainIn, Counted, Increments, FigureMeters
<1>7. CASE work[r].effect = "replay"
  BY <1>1, <1>3, <1>7 DEF Gain, GainIn, Counted, Increments, FigureMeters
<1>8. CASE work[r].effect = "cancelReplay"
  BY <1>1, <1>3, <1>8 DEF Gain, GainIn, Counted, Increments, FigureMeters
<1> QED
  BY <1>1, <1>4, <1>5, <1>6, <1>7, <1>8 DEF Done

\* All that is summed is natural, over finite sets.
Summable(meter) ==
    /\ \A i \in Instances : /\ MeterIn(meter)[i] = counters[i][meter]
                            /\ MeterIn(meter)[i] \in Nat
    /\ SumFunctionOnSet(MeterIn(meter), Instances) \in Nat
    /\ \A r \in InFlight : GainIn(meter)[r] \in Nat
    /\ Owed(meter) \in Nat
    /\ \A id \in Stored : QuantityOf[id] \in Nat
    /\ IsFiniteSet(Stored) /\ IsFiniteSet(CancelledIds)
    /\ CancelledIds \subseteq Stored
    /\ Figures[meter] \in Nat

FlightInv == IInv /\ ConservationInv /\ IsFiniteSet(InFlight)
AllSummable == \A meter \in FigureMeters : Summable(meter)

LEMMA SumsAreNatural == FlightInv => AllSummable
<1> SUFFICES ASSUME IInv, ConservationInv, IsFiniteSet(InFlight),
                    NEW meter \in FigureMeters
             PROVE  Summable(meter)
  BY DEF FlightInv, AllSummable
<1>1. \A i \in Instances : /\ MeterIn(meter)[i] = counters[i][meter]
                           /\ MeterIn(meter)[i] \in Nat
  BY DEF IInv, TypeOK, MeterIn, FigureMeters, Meters
<1>2. SumFunctionOnSet(MeterIn(meter), Instances) \in Nat
  BY <1>1, FleetAssumption, SumIsNatural
<1>3. \A r \in InFlight : GainIn(meter)[r] \in Nat
  BY GainsAreCounts
<1>4. Owed(meter) \in Nat
  BY <1>3, SumIsNatural DEF Owed
<1>5. \A id \in Stored : QuantityOf[id] \in Nat
  BY HeldUnits DEF IInv, ConservationInv
<1>6. /\ IsFiniteSet(Stored) /\ IsFiniteSet(CancelledIds)
      /\ CancelledIds \subseteq Stored
  BY FS_Subset DEF ConservationInv, CancelledIds
<1>7. /\ Cardinality(Stored) \in Nat /\ Cardinality(CancelledIds) \in Nat
      /\ SumFunctionOnSet(QuantityOf, Stored) \in Nat
      /\ SumFunctionOnSet(QuantityOf, CancelledIds) \in Nat
  BY <1>5, <1>6, FS_CardinalityType, SumIsNatural
<1>8. Figures[meter] \in Nat
  BY <1>7 DEF Figures, FigureMeters
<1> QED
  BY <1>1, <1>2, <1>3, <1>4, <1>5, <1>6, <1>8 DEF Summable

LEMMA SumsStayNatural == FlightInv' => AllSummable'
BY SumsAreNatural, PTL

\* A step that commits nothing and counts nothing: requests in flight may be
\* lost and counters may be reset, and then the run is no longer undisturbed.
Quiet ==
    /\ UNCHANGED dbVars
    /\ InFlight' \subseteq InFlight
    /\ \A r \in InFlight' : work'[r] = work[r]
    /\ \A i \in Instances, meter \in FigureMeters :
          counters'[i][meter] <= counters[i][meter]
    /\ Undisturbed' => /\ Undisturbed
                       /\ InFlight' = InFlight
                       /\ counters' = counters

LEMMA QuietKeepsCounters ==
    ASSUME IInv, IInv', ConservationInv, ConservationInv', CountersInv, Quiet,
           ErrorsInv'
    PROVE  CountersInv'
<1>1. IsFiniteSet(InFlight)'
  BY FS_Subset DEF Quiet, CountersInv
<1>2. ASSUME NEW meter \in FigureMeters PROVE Balanced(meter)'
  <2> DEFINE counted == SumFunctionOnSet(MeterIn(meter), Instances)
  <2>1. /\ counted \in Nat /\ Owed(meter) \in Nat
        /\ \A i \in Instances : MeterIn(meter)[i] = counters[i][meter]
        /\ \A i \in Instances : MeterIn(meter)[i] \in Nat
        /\ \A r \in InFlight : GainIn(meter)[r] \in Nat
        /\ Figures[meter] \in Nat
    BY SumsAreNatural DEF FlightInv, AllSummable, CountersInv, Summable
  <2>2. /\ counted' \in Nat /\ Owed(meter)' \in Nat
        /\ \A i \in Instances : MeterIn(meter)'[i] = counters'[i][meter]
        /\ \A i \in Instances : MeterIn(meter)'[i] \in Nat
    BY <1>1, SumsStayNatural DEF FlightInv, AllSummable, Summable
  <2>3. Figures' = Figures
    BY DEF Quiet, dbVars, Figures, Stored, CancelledIds, QuantityOf
  <2>4. counted' <= counted
    <3>1. \A i \in Instances : MeterIn(meter)'[i] <= MeterIn(meter)[i]
      BY <2>1, <2>2 DEF Quiet
    <3> QED
      BY <2>1, <2>2, <3>1, FleetAssumption, SumIsMonotone
  <2>5. \A r \in InFlight' : GainIn(meter)'[r] = GainIn(meter)[r]
    BY DEF Quiet, InFlight, GainIn, Gain
  <2>6. Owed(meter)' = SumFunctionOnSet(GainIn(meter), InFlight')
    BY <1>1, <2>5, SumDependsOnValues DEF Owed
  <2>7. Owed(meter)' <= Owed(meter)
    BY <2>1, <2>6, SumIsMonotone DEF Owed, Quiet, CountersInv
  <2>8. Undisturbed' =>
            Undisturbed /\ counted' = counted /\ Owed(meter)' = Owed(meter)
    BY <2>6 DEF Quiet, Owed, MeterIn
  <2>9. Balanced(meter)
    BY DEF CountersInv
  <2> QED
    BY <2>1, <2>2, <2>3, <2>4, <2>7, <2>8, <2>9 DEF Balanced
<1> QED
  BY <1>1, <1>2 DEF CountersInv

\* An acknowledged commit moves from what is owed to what is counted.
LEMMA AcknowledgeKeepsCounters ==
    ASSUME IInv, IInv', ConservationInv, ConservationInv', CountersInv,
           NEW r \in Requests, Acknowledge(r), ErrorsInv'
    PROVE  CountersInv'
<1> DEFINE i == home[r]
<1>1. /\ r \in InFlight /\ i \in Instances
      /\ InFlight' = InFlight \ {r}
      /\ UNCHANGED <<dbVars, call, work, crashes>>
      /\ Undisturbed' => Undisturbed
  <2>1. pc[r] = "committed" /\ i \in Instances
    BY DEF Acknowledge, At, IInv, CallsInv
  <2>2. InFlight' = InFlight \ {r}
    BY <2>1 DEF Acknowledge, Respond, InFlight, IInv, TypeOK
  <2>3. UNCHANGED <<dbVars, call, work, crashes>>
    BY DEF Acknowledge
  <2>4. \A s \in Requests \ {r} : answer'[s] = answer[s]
    BY DEF Acknowledge, Respond, IInv, TypeOK
  <2>5. answer[r].status # "error"
    BY <2>1 DEF Acknowledge, At, CountersInv, ErrorsInv
  <2> QED
    BY <2>1, <2>2, <2>3, <2>4, <2>5 DEF Undisturbed, InFlight
<1>2. IsFiniteSet(InFlight)'
  BY <1>1, FS_Subset DEF CountersInv
<1>3. ASSUME NEW meter \in FigureMeters PROVE Balanced(meter)'
  <2> DEFINE counted == SumFunctionOnSet(MeterIn(meter), Instances)
             gain == GainIn(meter)[r]
  <2>1. /\ counted \in Nat /\ Owed(meter) \in Nat
        /\ \A j \in Instances : MeterIn(meter)[j] = counters[j][meter]
        /\ \A j \in Instances : MeterIn(meter)[j] \in Nat
        /\ \A s \in InFlight : GainIn(meter)[s] \in Nat
        /\ Figures[meter] \in Nat
    BY SumsAreNatural DEF FlightInv, AllSummable, CountersInv, Summable
  <2>2. /\ counted' \in Nat /\ Owed(meter)' \in Nat
        /\ \A j \in Instances : MeterIn(meter)'[j] = counters'[j][meter]
        /\ \A j \in Instances : MeterIn(meter)'[j] \in Nat
    BY <1>2, SumsStayNatural DEF FlightInv, AllSummable, Summable
  <2>3. Figures' = Figures
    BY <1>1 DEF dbVars, Figures, Stored, CancelledIds, QuantityOf
  <2>4. counted' = counted + gain
    <3>1. /\ counters'[i] = Counted(counters[i],
                                Increments(work[r].effect, Units(r)))
          /\ \A j \in Instances \ {i} : counters'[j] = counters[j]
      BY <1>1 DEF Acknowledge, IInv, TypeOK
    <3>2. MeterIn(meter)'[i] = MeterIn(meter)[i] + gain
      <4>1. counters[i] \in [Meters -> Nat]
        BY <1>1 DEF IInv, TypeOK
      <4>2. counters'[i][meter] = counters[i][meter] + Gain(r)[meter]
        BY <1>1, <3>1, <4>1, GainsAreCounts
      <4>3. gain = Gain(r)[meter]
        BY <1>1, GainsAreCounts
      <4> HIDE DEF gain
      <4> QED
        BY <1>1, <2>1, <2>2, <4>2, <4>3
    <3>3. \A j \in Instances \ {i} : MeterIn(meter)'[j] = MeterIn(meter)[j]
      BY <2>1, <2>2, <3>1
    <3>4. counted' + MeterIn(meter)[i] = counted + MeterIn(meter)'[i]
      BY <1>1, <2>1, <2>2, <3>3, FleetAssumption, SumChangesWithValue
    <3>5. MeterIn(meter)[i] \in Nat /\ gain \in Nat
      BY <1>1, <2>1
    <3> HIDE DEF counted, gain
    <3> QED
      BY <2>1, <2>2, <3>2, <3>4, <3>5
  <2>5. Owed(meter) = gain + Owed(meter)'
    <3>1. \A s \in InFlight' : GainIn(meter)'[s] = GainIn(meter)[s]
      BY <1>1 DEF InFlight, GainIn, Gain
    <3>2. Owed(meter)' = SumFunctionOnSet(GainIn(meter), InFlight \ {r})
      BY <1>1, <1>2, <3>1, SumDependsOnValues DEF Owed
    <3> QED
      BY <1>1, <2>1, <3>2, SumWithoutElement DEF Owed, CountersInv
  <2>6. gain \in Nat
    BY <1>1, <2>1
  <2>7. Balanced(meter)
    BY DEF CountersInv
  <2> HIDE DEF gain
  <2> QED
    BY <1>1, <2>1, <2>2, <2>3, <2>4, <2>5, <2>6, <2>7 DEF Balanced
<1> QED
  BY <1>2, <1>3 DEF CountersInv

\* What a commit adds to the figures it owes to the counters.
LEMMA CommitRaisesFigures ==
    ASSUME IInv, IInv', ConservationInv, ConservationInv',
           NEW r \in Requests, Commit(r), NEW meter \in FigureMeters
    PROVE  Figures'[meter] = Figures[meter] + Gain(r)[meter]
<1> DEFINE w == work[r]
<1>1. /\ pc[r] = "commit" /\ r \notin Stored /\ Pending(r)
      /\ reservations' = IF w.effect \in {"reserve", "cancel"}
                         THEN [reservations EXCEPT ![w.id] = w.row]
                         ELSE reservations
  BY CommitEffects DEF Commit, At
<1>2. /\ \A id \in Stored : QuantityOf[id] = reservations[id].quantity
      /\ \A id \in Stored : QuantityOf[id] \in Nat
      /\ \A id \in Stored : QuantityOf'[id] = QuantityOf[id]
      /\ IsFiniteSet(Stored) /\ IsFiniteSet(CancelledIds)
      /\ CancelledIds \subseteq Stored /\ Stored \subseteq Stored'
  <2>1. \A id \in Stored : QuantityOf[id] = reservations[id].quantity
    BY DEF QuantityOf
  <2>2. \A id \in Stored : QuantityOf[id] \in Nat
    BY HeldUnits DEF IInv, ConservationInv
  <2>3. \A id \in Stored : /\ id \in Stored'
                           /\ QuantityOf'[id] = QuantityOf[id]
    BY CommitEffects DEF QuantityOf
  <2>4. /\ IsFiniteSet(Stored) /\ IsFiniteSet(CancelledIds)
        /\ CancelledIds \subseteq Stored
    BY FS_Subset DEF ConservationInv, CancelledIds
  <2> QED
    BY <2>1, <2>2, <2>3, <2>4
<1>3. /\ SumFunctionOnSet(QuantityOf', Stored)
            = SumFunctionOnSet(QuantityOf, Stored)
      /\ SumFunctionOnSet(QuantityOf', CancelledIds)
            = SumFunctionOnSet(QuantityOf, CancelledIds)
      /\ SumFunctionOnSet(QuantityOf, Stored) \in Nat
      /\ SumFunctionOnSet(QuantityOf, CancelledIds) \in Nat
      /\ Cardinality(Stored) \in Nat /\ Cardinality(CancelledIds) \in Nat
  BY <1>2, SumDependsOnValues, SumIsNatural, FS_CardinalityType
<1>4. CASE w.effect \notin {"reserve", "cancel"}
  <2>1. Figures' = Figures
    BY <1>1, <1>4 DEF Figures, Stored, CancelledIds, QuantityOf
  <2>2. Gain(r)[meter] = 0
    BY <1>4 DEF Gain, FigureMeters
  <2>3. Figures[meter] \in Nat
    BY <1>3 DEF Figures, FigureMeters
  <2> QED
    BY <2>1, <2>2, <2>3
<1>5. CASE w.effect = "reserve"
  <2>1. /\ w.id = r /\ w.row \in Reservation /\ w.row.status = "ACTIVE"
        /\ w.row.quantity \in Nat /\ w.row # NoReservation
    BY <1>1, <1>5, DomainAssumption, ServiceAssumption
       DEF Pending, NewReservation, Reservation
  <2>2. /\ reservations'[r] = w.row
        /\ \A id \in Requests \ {r} : reservations'[id] = reservations[id]
    BY <1>1, <1>5, <2>1 DEF IInv, TypeOK
  <2>3. /\ Stored' = Stored \cup {r}
        /\ CancelledIds' = CancelledIds
        /\ QuantityOf'[r] = w.row.quantity
    BY <1>1, <2>1, <2>2 DEF Stored, CancelledIds, QuantityOf
  <2>4. Cardinality(Stored') = Cardinality(Stored) + 1
    BY <1>1, <1>2, <2>3, FS_AddElement
  <2>5. SumFunctionOnSet(QuantityOf', Stored')
          = SumFunctionOnSet(QuantityOf, Stored) + w.row.quantity
    BY <1>1, <1>2, <1>3, <2>1, <2>3, SumWithElement
  <2>6. Gain(r) = [reservations |-> 1, stockReserved |-> w.row.quantity,
                   cancelled |-> 0, stockReleased |-> 0]
    BY <1>5 DEF Gain
  <2> QED
    BY <1>3, <2>1, <2>3, <2>4, <2>5, <2>6 DEF Figures, FigureMeters
<1>6. CASE w.effect = "cancel"
  <2>1. /\ w.id \in Stored /\ reservations[w.id] \in Reservation
        /\ reservations[w.id].status = "ACTIVE"
        /\ w.row = Cancelled(reservations[w.id], w.row.cancelledAt)
        /\ w.row \in Reservation /\ w.row # NoReservation
    BY <1>1, <1>6, ServiceAssumption
       DEF Pending, Names, Stored, IInv, TypeOK
  <2>2. /\ w.row.status = "CANCELLED"
        /\ w.row.quantity = reservations[w.id].quantity
        /\ w.row.quantity \in Nat
    <3>1. /\ w.row.status = "CANCELLED"
          /\ w.row.quantity = reservations[w.id].quantity
      BY <2>1 DEF Cancelled, Reservation
    <3>2. w.row.quantity \in Nat
      BY <2>1, DomainAssumption DEF Reservation
    <3> QED
      BY <3>1, <3>2
  <2>3. /\ reservations'[w.id] = w.row /\ w.id \in Requests
        /\ \A id \in Requests \ {w.id} : reservations'[id] = reservations[id]
    BY <1>1, <1>6, <2>1 DEF IInv, TypeOK, Stored
  <2>4. Stored' = Stored
    BY <2>1, <2>3 DEF Stored
  <2>5. /\ CancelledIds' = CancelledIds \cup {w.id}
        /\ w.id \notin CancelledIds
        /\ QuantityOf[w.id] = w.row.quantity
    BY <1>2, <2>1, <2>2, <2>3, <2>4 DEF CancelledIds, Stored
  <2>6. Cardinality(CancelledIds') = Cardinality(CancelledIds) + 1
    BY <1>2, <2>5, FS_AddElement
  <2>7. SumFunctionOnSet(QuantityOf', CancelledIds')
          = SumFunctionOnSet(QuantityOf, CancelledIds) + w.row.quantity
    <3>1. \A id \in CancelledIds : QuantityOf'[id] \in Nat
      BY <1>2
    <3>2. QuantityOf'[w.id] = w.row.quantity
      BY <1>2, <2>1, <2>5
    <3> QED
      BY <1>2, <1>3, <2>2, <2>5, <3>1, <3>2, SumWithElement
  <2>8. Gain(r) = [reservations |-> 0, stockReserved |-> 0,
                   cancelled |-> 1, stockReleased |-> w.row.quantity]
    BY <1>6 DEF Gain
  <2> QED
    BY <1>3, <2>2, <2>4, <2>6, <2>7, <2>8 DEF Figures, FigureMeters
<1> QED
  BY <1>4, <1>5, <1>6

\* A commit raises a figure and what is owed by the same.
LEMMA CommitKeepsCounters ==
    ASSUME IInv, IInv', ConservationInv, ConservationInv', CountersInv,
           NEW r \in Requests, Commit(r), ErrorsInv'
    PROVE  CountersInv'
<1>1. /\ r \notin InFlight
      /\ InFlight' = InFlight \cup {r}
      /\ UNCHANGED <<call, work, counters, crashes, answer>>
  BY DEF Commit, At, InFlight, IInv, TypeOK, instanceVars
<1>2. IsFiniteSet(InFlight)'
  BY <1>1, FS_AddElement DEF CountersInv
<1>3. ASSUME NEW meter \in FigureMeters PROVE Balanced(meter)'
  <2> DEFINE counted == SumFunctionOnSet(MeterIn(meter), Instances)
  <2>1. /\ counted \in Nat /\ Owed(meter) \in Nat
        /\ \A s \in InFlight : GainIn(meter)[s] \in Nat
        /\ Figures[meter] \in Nat
    BY SumsAreNatural DEF FlightInv, AllSummable, CountersInv, Summable
  <2>2. \A s \in InFlight' : GainIn(meter)'[s] \in Nat
    BY <1>2, SumsStayNatural DEF FlightInv, AllSummable, Summable
  <2>3. counted' = counted
    BY <1>1 DEF MeterIn
  <2>4. GainIn(meter)' = GainIn(meter) /\ GainIn(meter)[r] = Gain(r)[meter]
    BY <1>1 DEF GainIn, Gain
  <2>5. Owed(meter)' = Owed(meter) + Gain(r)[meter]
    BY <1>1, <2>1, <2>2, <2>4, SumWithElement DEF Owed, CountersInv
  <2>6. Figures'[meter] = Figures[meter] + Gain(r)[meter]
    BY CommitRaisesFigures
  <2>7. Gain(r)[meter] \in Nat
    BY <1>1, <2>2, <2>4
  <2>8. Balanced(meter) /\ (Undisturbed' => Undisturbed)
    BY <1>1 DEF CountersInv, Undisturbed
  <2> QED
    BY <2>1, <2>3, <2>5, <2>6, <2>7, <2>8 DEF Balanced
<1> QED
  BY <1>2, <1>3 DEF CountersInv

\* A request with a client moves on, or ends with a response, without having
\* committed.
Moves(r) ==
    /\ pc[r] \notin {"committed", "answered"} /\ r \notin abandoned
    /\ UNCHANGED <<dbVars, abandoned, counters, crashes>>
    /\ \E s \in Statements \ {"committed"} :
          /\ pc' = [pc EXCEPT ![r] = s]
          /\ \/ UNCHANGED answer
             \/ /\ s = "answered"
                /\ \E status, id :
                      answer' = [answer EXCEPT ![r] = Reply(status, id)]
    /\ \A q \in Requests \ {r} : work'[q] = work[q]

LEMMA MovesAreQuiet ==
    ASSUME IInv, ErrorsInv, NEW r \in Requests, Moves(r)
    PROVE  Quiet /\ ErrorsInv'
<1>1. UNCHANGED <<dbVars, abandoned, counters, crashes>>
  BY DEF Moves
<1>2. InFlight' = InFlight /\ \A q \in InFlight : work'[q] = work[q]
  BY DEF Moves, InFlight, IInv, TypeOK
<1>3. \A q \in Requests \ {r} : answer'[q] = answer[q] /\ pc'[q] = pc[q]
  BY DEF Moves, IInv, TypeOK
<1>4. answer[r].status # "error"
  BY DEF Moves, ErrorsInv
<1>5. answer'[r] = answer[r] \/ pc'[r] = "answered"
  BY DEF Moves, IInv, TypeOK
<1>6. \A i \in Instances, meter \in FigureMeters : counters[i][meter] \in Nat
  BY DEF IInv, TypeOK, FigureMeters, Meters
<1>7. \A i \in Instances, meter \in FigureMeters :
          counters'[i][meter] <= counters[i][meter]
  BY <1>1, <1>6
<1>8. Undisturbed' => Undisturbed
  BY <1>1, <1>3, <1>4 DEF Undisturbed
<1>9. ErrorsInv'
  BY <1>1, <1>3, <1>4, <1>5 DEF ErrorsInv
<1> QED
  BY <1>1, <1>2, <1>7, <1>8, <1>9 DEF Quiet

\* A request or an instance fails: there is an error, or a crash, to show.
LEMMA FailuresAreQuiet ==
    ASSUME IInv, UNCHANGED dbVars, InFlight' \subseteq InFlight,
           UNCHANGED work, ~Undisturbed',
           \A i \in Instances : \/ counters'[i] = counters[i]
                                \/ counters'[i] = ZeroCounters
    PROVE  Quiet
<1>1. ASSUME NEW i \in Instances, NEW meter \in FigureMeters
      PROVE  counters'[i][meter] <= counters[i][meter]
  <2>1. counters[i][meter] \in Nat
    BY DEF IInv, TypeOK, FigureMeters, Meters
  <2>2. ZeroCounters[meter] = 0
    BY DEF ZeroCounters, FigureMeters, Meters
  <2> QED
    BY <2>1, <2>2
<1> QED
  BY <1>1 DEF Quiet, InFlight

LEMMA RollbackMoves ==
    ASSUME IInv, NEW r \in Requests, NEW status, Rollback(r, status),
           pc[r] \notin {"committed", "answered"}, r \notin abandoned
    PROVE  Moves(r)
<1>1. /\ UNCHANGED <<dbVars, abandoned, counters, crashes, work>>
      /\ pc' = [pc EXCEPT ![r] = "answered"]
      /\ answer' = [answer EXCEPT ![r] = Reply(status, NoRequest)]
  BY DEF Rollback, Respond, instanceVars
<1> QED
  BY <1>1 DEF Moves, Statements

LEMMA ReadyMoves ==
    ASSUME IInv, NEW r \in Requests, NEW effect, NEW available, NEW id,
           NEW row, ReadyToCommit(r, effect, available, id, row),
           pc[r] \notin {"committed", "answered"}, r \notin abandoned,
           UNCHANGED <<dbVars, abandoned, answer, instanceVars>>
    PROVE  Moves(r)
<1>1. /\ pc' = [pc EXCEPT ![r] = "commit"]
      /\ \A q \in Requests \ {r} : work'[q] = work[q]
  BY DEF ReadyToCommit, IInv, TypeOK
<1> QED
  BY <1>1 DEF Moves, Statements, instanceVars

LEMMA ProgressMoves ==
    ASSUME IInv, NEW r \in Requests, Progress(r)
    PROVE  Moves(r) \/ Commit(r) \/ Acknowledge(r) \/ AbandonedEnds(r)
<1>1. CASE Begin(r)
  <2>1. FirstStatement(call[r]) \in Statements \ {"committed"}
    BY DEF FirstStatement, Statements, Waits
  <2> QED
    BY <1>1, <2>1 DEF Begin, At, Moves, instanceVars
<1>2. CASE AcquireKey(r)
  BY <1>2 DEF AcquireKey, At, Moves, Statements, instanceVars
<1>3. CASE LookupKey(r)
  <2>1. pc[r] = "findByKey" /\ r \notin abandoned
    BY <1>3 DEF LookupKey, At
  <2>2. CASE /\ pc' = [pc EXCEPT ![r] = "lockProduct"]
             /\ UNCHANGED <<dbVars, lockVars, call, home, work, abandoned,
                            answer, instanceVars>>
    BY <2>1, <2>2 DEF Moves, Statements, Waits, instanceVars
  <2>3. CASE \E id \in FindByKey(call[r].customer, call[r].key) :
                /\ ReadyToCommit(r, "replay", 0, id, reservations[id])
                /\ UNCHANGED <<dbVars, abandoned, answer, instanceVars>>
    BY <2>1, <2>3, ReadyMoves
  <2>4. CASE Rollback(r, "conflict")
    BY <2>1, <2>4, RollbackMoves
  <2> QED
    BY <1>3, <2>2, <2>3, <2>4 DEF LookupKey
<1>4. CASE LockReservation(r)
  <2>1. pc[r] = "lockReservation" /\ r \notin abandoned
    BY <1>4 DEF LockReservation, At
  <2>2. CASE Rollback(r, "notFound")
    BY <2>1, <2>2, RollbackMoves
  <2>3. CASE /\ pc' = [pc EXCEPT ![r] = "lockProduct"]
             /\ UNCHANGED work
             /\ UNCHANGED <<dbVars, abandoned, answer, instanceVars>>
    BY <2>1, <2>3 DEF Moves, Statements, Waits, instanceVars
  <2>4. CASE \E id, row :
                /\ ReadyToCommit(r, "cancelReplay", 0, id, row)
                /\ UNCHANGED <<dbVars, abandoned, answer, instanceVars>>
    BY <2>1, <2>4, ReadyMoves
  <2> QED
    BY <1>4, <2>2, <2>3, <2>4 DEF LockReservation
<1>5. CASE LockProduct(r)
  <2>1. pc[r] = "lockProduct" /\ r \notin abandoned
    BY <1>5
       DEF LockProduct, LockMissing, LockToRestock, LockToReserve,
           LockToCancel, At
  <2>2. CASE \E status : Rollback(r, status)
    BY <2>1, <2>2, RollbackMoves
  <2>3. CASE \E effect, available, id, row :
                /\ ReadyToCommit(r, effect, available, id, row)
                /\ UNCHANGED <<dbVars, abandoned, answer, instanceVars>>
    BY <2>1, <2>3, ReadyMoves
  <2>4. LockMissing(r) => \E status : Rollback(r, status)
    BY DEF LockMissing
  <2>5. LockToRestock(r) =>
            \/ \E status : Rollback(r, status)
            \/ \E effect, available, id, row :
                  /\ ReadyToCommit(r, effect, available, id, row)
                  /\ UNCHANGED <<dbVars, abandoned, answer, instanceVars>>
    BY DEF LockToRestock, Locked
  <2>6. LockToReserve(r) =>
            \/ \E status : Rollback(r, status)
            \/ \E effect, available, id, row :
                  /\ ReadyToCommit(r, effect, available, id, row)
                  /\ UNCHANGED <<dbVars, abandoned, answer, instanceVars>>
    BY DEF LockToReserve, Locked
  <2>7. LockToCancel(r) =>
            \/ \E status : Rollback(r, status)
            \/ \E effect, available, id, row :
                  /\ ReadyToCommit(r, effect, available, id, row)
                  /\ UNCHANGED <<dbVars, abandoned, answer, instanceVars>>
    BY DEF LockToCancel, Locked
  <2> QED
    BY <1>5, <2>2, <2>3, <2>4, <2>5, <2>6, <2>7 DEF LockProduct
<1>6. CASE RejectFlush(r)
  BY <1>6, RollbackMoves DEF RejectFlush, At
<1> QED
  BY <1>1, <1>2, <1>3, <1>4, <1>5, <1>6 DEF Progress

LEMMA StepsAreQuiet ==
    ASSUME IInv, ErrorsInv, [Next]_vars
    PROVE  /\ ErrorsInv'
           /\ Quiet \/ \E r \in Requests : Commit(r) \/ Acknowledge(r)
<1>1. ASSUME NEW r \in Requests, Arrive(r) PROVE Moves(r)
  <2>1. pc[r] = "idle" /\ r \notin abandoned
    BY <1>1 DEF Arrive, Receive, IInv, CallsInv, Waits
  <2> QED
    BY <1>1, <2>1
       DEF Arrive, Receive, Respond, Moves, Statements, instanceVars
<1>2. ASSUME NEW r \in Requests, PoolTimeout(r) \/ KeyTimeout(r)
      PROVE  Moves(r)
  BY <1>2, RollbackMoves DEF PoolTimeout, KeyTimeout, At
<1>3. ASSUME NEW r \in Requests, RowTimeout(r)
      PROVE  Quiet /\ ErrorsInv'
  <2>1. /\ UNCHANGED <<dbVars, pc, work, counters, crashes>>
        /\ abandoned' = abandoned \cup {r}
        /\ answer' = [answer EXCEPT ![r] = Reply("error", NoRequest)]
    BY <1>3 DEF RowTimeout, instanceVars
  <2>2. ErrorsInv'
    BY <2>1 DEF ErrorsInv, IInv, TypeOK
  <2>3. ~Undisturbed'
    BY <2>1 DEF Undisturbed, Reply, IInv, TypeOK
  <2>4. InFlight' = InFlight
    BY <2>1 DEF InFlight
  <2> QED
    BY <2>1, <2>2, <2>3, <2>4, FailuresAreQuiet
<1>4. ASSUME NEW r \in Requests, LoseConnection(r)
      PROVE  Quiet /\ ErrorsInv'
  <2>1. /\ UNCHANGED <<dbVars, work, abandoned, counters, crashes>>
        /\ pc' = [pc EXCEPT ![r] = "answered"]
        /\ answer' = [answer EXCEPT ![r] = Reply("error", NoRequest)]
    BY <1>4 DEF LoseConnection, Rollback, Respond, instanceVars
  <2>2. ErrorsInv'
    BY <2>1 DEF ErrorsInv, IInv, TypeOK
  <2>3. ~Undisturbed'
    BY <2>1 DEF Undisturbed, Reply, IInv, TypeOK
  <2>4. InFlight' \subseteq InFlight
    BY <2>1 DEF InFlight, IInv, TypeOK
  <2> QED
    BY <2>1, <2>2, <2>3, <2>4, FailuresAreQuiet
<1>5. ASSUME NEW r \in Requests, AbandonedEnds(r)
      PROVE  Quiet /\ ErrorsInv'
  <2>1. /\ UNCHANGED <<dbVars, work, answer, counters, crashes>>
        /\ abandoned' = abandoned \ {r}
        /\ pc' = [pc EXCEPT ![r] = "answered"]
        /\ pc[r] \in Waits
    BY <1>5 DEF AbandonedEnds, instanceVars, IInv, CallsInv
  <2>2. ErrorsInv'
    BY <2>1 DEF ErrorsInv, IInv, TypeOK
  <2>3. InFlight' = InFlight
    BY <2>1 DEF InFlight, IInv, TypeOK, Waits
  <2>4. \A i \in Instances, meter \in FigureMeters :
            counters[i][meter] \in Nat
    BY DEF IInv, TypeOK, FigureMeters, Meters
  <2>5. \A i \in Instances, meter \in FigureMeters :
            counters'[i][meter] <= counters[i][meter]
    BY <2>1, <2>4
  <2> QED
    BY <2>1, <2>2, <2>3, <2>5 DEF Quiet, Undisturbed, InFlight
<1>6. ASSUME NEW i \in Instances, Crash(i)
      PROVE  Quiet /\ ErrorsInv'
  <2>1. /\ UNCHANGED <<dbVars, work>>
        /\ crashes' = crashes + 1 /\ crashes \in Nat
        /\ counters' = [counters EXCEPT ![i] = ZeroCounters]
        /\ counters \in [Instances -> [Meters -> Nat]]
    BY <1>6, ServiceAssumption DEF Crash, IInv, TypeOK
  <2>2. \A r \in Requests :
            /\ pc'[r] = pc[r] \/ pc'[r] = "answered"
            /\ r \in abandoned => r \in abandoned'
            /\ \/ answer'[r] = answer[r]
               \/ pc'[r] = "answered" \/ r \in abandoned'
            /\ pc[r] = "answered" => pc'[r] = "answered"
    BY <1>6 DEF Crash
  <2>3. ErrorsInv'
    BY <2>2 DEF ErrorsInv
  <2>4. InFlight' \subseteq InFlight
    BY <2>2 DEF InFlight
  <2>5. ~Undisturbed'
    BY <2>1 DEF Undisturbed
  <2>6. \A j \in Instances : \/ counters'[j] = counters[j]
                             \/ counters'[j] = ZeroCounters
    BY <2>1
  <2> QED
    BY <2>1, <2>3, <2>4, <2>5, <2>6, FailuresAreQuiet
<1>7. ASSUME NEW r \in Requests, Commit(r) \/ Acknowledge(r)
      PROVE  ErrorsInv'
  <2>1. CASE Commit(r)
    <3>1. /\ UNCHANGED <<answer, abandoned>>
          /\ pc[r] = "commit" /\ r \notin abandoned
          /\ \A s \in Requests \ {r} : pc'[s] = pc[s]
      BY <2>1 DEF Commit, At, IInv, TypeOK
    <3> QED
      BY <3>1 DEF ErrorsInv
  <2>2. CASE Acknowledge(r)
    <3>1. /\ UNCHANGED abandoned
          /\ pc'[r] = "answered"
          /\ \A s \in Requests \ {r} :
                pc'[s] = pc[s] /\ answer'[s] = answer[s]
      BY <2>2 DEF Acknowledge, Respond, IInv, TypeOK
    <3> QED
      BY <3>1 DEF ErrorsInv
  <2> QED
    BY <1>7, <2>1, <2>2
<1>8. CASE UNCHANGED vars
  <2>1. \A i \in Instances, meter \in FigureMeters :
            counters[i][meter] \in Nat
    BY DEF IInv, TypeOK, FigureMeters, Meters
  <2>2. UNCHANGED <<dbVars, pc, work, abandoned, answer, counters, crashes>>
    BY <1>8 DEF vars, requestVars, instanceVars
  <2>3. \A i \in Instances, meter \in FigureMeters :
            counters'[i][meter] <= counters[i][meter]
    BY <2>1, <2>2
  <2> QED
    BY <2>2, <2>3 DEF Quiet, Undisturbed, InFlight, ErrorsInv
<1>9. CASE Next
  BY <1>1, <1>2, <1>3, <1>4, <1>5, <1>6, <1>7, <1>9, ProgressMoves,
     MovesAreQuiet DEF Next, Failure
<1> QED
  BY <1>8, <1>9

LEMMA InitCounters == Init => CountersInv
<1> SUFFICES ASSUME Init PROVE CountersInv
  OBVIOUS
<1>1. /\ InFlight = {} /\ Stored = {} /\ CancelledIds = {}
      /\ ErrorsInv
  BY DEF Init, InFlight, Stored, CancelledIds, ErrorsInv, Reply
<1>2. IsFiniteSet({}) /\ Cardinality({}) = 0
  BY FS_EmptySet
<1>3. ASSUME NEW meter \in FigureMeters PROVE Balanced(meter)
  <2>1. /\ Owed(meter) = 0
        /\ SumFunctionOnSet(QuantityOf, Stored) = 0
        /\ SumFunctionOnSet(QuantityOf, CancelledIds) = 0
    BY <1>1, SumOfNothing DEF Owed
  <2>2. Figures[meter] = 0
    BY <1>1, <1>2, <2>1 DEF Figures, FigureMeters
  <2>3. \A i \in Instances : MeterIn(meter)[i] = 0
    BY DEF Init, MeterIn, ZeroCounters, FigureMeters, Meters
  <2>4. SumFunctionOnSet(MeterIn(meter), Instances) = 0
    BY <2>3, FleetAssumption, SumOfZeros
  <2> QED
    BY <2>1, <2>2, <2>4 DEF Balanced
<1> QED
  BY <1>1, <1>2, <1>3 DEF CountersInv

LEMMA TotalsAreSums ==
    ASSUME NEW meter
    PROVE  Total(meter) = SumFunctionOnSet(MeterIn(meter), Instances)
BY DEF Total, SumFunction, MeterIn

LEMMA QuantitiesAreSums ==
    ASSUME NEW ids \in SUBSET Stored, IsFiniteSet(ids)
    PROVE  Quantity(ids) = SumFunctionOnSet(QuantityOf, ids)
<1> DEFINE f == [id \in ids |-> reservations[id].quantity]
<1>1. \A id \in ids : f[id] = QuantityOf[id]
  BY DEF QuantityOf
<1>2. SumFunctionOnSet(f, ids) = SumFunctionOnSet(QuantityOf, ids)
  BY <1>1, SumDependsOnValues
<1> QED
  BY <1>2 DEF Quantity, SumFunction

\* However many instances and requests there are, and whatever is lost, the
\* counters never run ahead of the tables, and without a loss they lag only
\* by the commits still to be acknowledged (InventoryMetrics.java:43-83).
THEOREM CountersStayTrue == Spec => []CountersFollowLedger
<1>1. Init => CountersInv
  BY InitCounters
<1>2. IInv /\ IInv' /\ ConservationInv /\ ConservationInv' /\ CountersInv
          /\ [Next]_vars => CountersInv'
  <2> SUFFICES ASSUME IInv, IInv', ConservationInv, ConservationInv',
                      CountersInv, [Next]_vars
               PROVE  CountersInv'
    OBVIOUS
  <2>1. /\ ErrorsInv'
        /\ Quiet \/ \E r \in Requests : Commit(r) \/ Acknowledge(r)
    BY StepsAreQuiet DEF CountersInv
  <2> QED
    BY <2>1, QuietKeepsCounters, CommitKeepsCounters,
       AcknowledgeKeepsCounters
<1>3. IInv /\ ConservationInv /\ CountersInv => CountersFollowLedger
  <2> SUFFICES ASSUME IInv, ConservationInv, CountersInv
               PROVE  CountersFollowLedger
    OBVIOUS
  <2> DEFINE figures == [reservations |-> Cardinality(Stored),
                         stockReserved |-> Quantity(Stored),
                         cancelled |-> Cardinality(CancelledIds),
                         stockReleased |-> Quantity(CancelledIds)]
             undisturbed ==
                /\ crashes = 0
                /\ \A r \in Requests : /\ pc[r] # "committed"
                                       /\ answer[r].status # "error"
  <2>1. figures = Figures
    <3>1. /\ IsFiniteSet(Stored) /\ IsFiniteSet(CancelledIds)
          /\ CancelledIds \subseteq Stored
      BY FS_Subset DEF ConservationInv, CancelledIds
    <3> QED
      BY <3>1, QuantitiesAreSums DEF Figures
  <2>2. ASSUME NEW meter \in FigureMeters
        PROVE  /\ Total(meter) <= Figures[meter]
               /\ undisturbed => Total(meter) = Figures[meter]
    <3>1. /\ Total(meter) \in Nat /\ Owed(meter) \in Nat
          /\ Figures[meter] \in Nat
      BY SumsAreNatural, TotalsAreSums
         DEF FlightInv, AllSummable, CountersInv, Summable
    <3>2. undisturbed => Undisturbed /\ Owed(meter) = 0
      <4>1. undisturbed => Undisturbed /\ InFlight = {}
        BY DEF Undisturbed, InFlight
      <4> QED
        BY <4>1, SumOfNothing DEF Owed
    <3>3. /\ Total(meter) + Owed(meter) <= Figures[meter]
          /\ Undisturbed => Total(meter) + Owed(meter) = Figures[meter]
      BY TotalsAreSums DEF CountersInv, Balanced
    <3> QED
      BY <3>1, <3>2, <3>3
  <2>3. DOMAIN figures = FigureMeters
    BY DEF FigureMeters
  <2> QED
    BY <2>1, <2>2, <2>3 DEF CountersFollowLedger
<1> QED
  BY <1>1, <1>2, <1>3, InductiveInvariant, ConservationInvariant, PTL
     DEF Spec

-----------------------------------------------------------------------------
(***************************************************************************)
(* Calls are atomic for their clients                                      *)
(***************************************************************************)

\* A request has an answer from its end, or from the loss of its client, on.
ClientFor(r) ==
    /\ pc[r] = "idle" => call[r] = NoOperation /\ answer[r].status = "none"
    /\ answer[r].status # "none" <=> pc[r] = "answered" \/ r \in abandoned

\* What the service method returned with, beyond what it read.
PreparedFor(r) ==
    pc[r] \in {"commit", "committed"} =>
        /\ work[r].effect = "restock" => work[r].id = NoRequest
        /\ work[r].effect = "replay" => Keyed(r)
        /\ work[r].effect = "cancel" => work[r].row.cancelledAt \in Times

ClientInv == \A r \in Requests : ClientFor(r)
PreparedInv == \A r \in Requests : PreparedFor(r)

AtomicInv == IInv /\ ClientInv /\ PreparedInv

\* A request goes on to its next statement and tells nobody.
Forward(r) ==
    /\ pc[r] \notin {"idle", "committed", "answered"} /\ r \notin abandoned
    /\ \E s \in Statements \ {"idle", "committed", "answered"} :
          pc' = [pc EXCEPT ![r] = s]
    /\ \A q \in Requests \ {r} : work'[q] = work[q]
    /\ UNCHANGED <<dbVars, call, abandoned, answer>>

LEMMA ForwardIsUnseen ==
    ASSUME AtomicInv, NEW r \in Requests, Forward(r)
    PROVE  ClientInv' /\ UNCHANGED Atomic!atomicVars
<1>1. ClientInv'
  BY DEF AtomicInv, IInv, TypeOK, Forward, ClientInv, ClientFor
<1>2. UNCHANGED Effective
  BY DEF AtomicInv, IInv, TypeOK, Forward, Effective
<1> QED
  BY <1>1, <1>2 DEF Forward, dbVars, Atomic!atomicVars, Atomic!vars

LEMMA ReadyIsForward ==
    ASSUME AtomicInv, NEW r \in Requests, NEW effect, NEW available, NEW id,
           NEW row, ReadyToCommit(r, effect, available, id, row),
           pc[r] \notin {"idle", "committed", "answered"}, r \notin abandoned,
           UNCHANGED <<dbVars, call, abandoned, answer>>
    PROVE  Forward(r)
BY DEF ReadyToCommit, Forward, AtomicInv, IInv, TypeOK, Statements

\* A request whose client waits, seen from the abstract specification.
LEMMA UnfinishedWaits ==
    ASSUME AtomicInv, NEW r \in Requests, r \notin abandoned,
           pc[r] \notin {"idle", "answered"}
    PROVE  /\ Atomic!Waiting(r)
           /\ pc[r] # "committed" => Atomic!Undecided(r)
<1>1. call[r] \in Workload \cup CancelCalls
  BY DEF AtomicInv, IInv, CallsInv
<1>2. call[r] # NoOperation
  BY <1>1, ServiceAssumption
<1>3. answer[r].status = "none"
  BY DEF AtomicInv, ClientInv, ClientFor
<1> QED
  BY <1>2, <1>3 DEF Atomic!Waiting, Atomic!Undecided, Effective

\* A rollback is a response, and leaves no effect behind.
LEMMA RollbackResponds ==
    ASSUME AtomicInv, NEW r \in Requests, NEW status, status # "none",
           Rollback(r, status), r \notin abandoned
    PROVE  ClientInv' /\ Atomic!Respond(r, status, NoRequest)
<1>1. /\ pc' = [pc EXCEPT ![r] = "answered"]
      /\ answer' = [answer EXCEPT ![r] = Reply(status, NoRequest)]
      /\ UNCHANGED <<dbVars, call, work, abandoned>>
  BY DEF Rollback, Respond
<1>2. Reply(status, NoRequest).status # "none"
  BY DEF Reply
<1>3. ClientInv'
  BY <1>1, <1>2 DEF AtomicInv, IInv, TypeOK, ClientInv, ClientFor
<1>4. Effective' = Effective \ {r}
  BY <1>1 DEF AtomicInv, IInv, TypeOK, Effective
<1> QED
  BY <1>1, <1>3, <1>4
     DEF dbVars, Reply, Atomic!Respond, Atomic!Reply, Atomic!vars

\* The tables are those of the abstract specification.
LEMMA SameTables ==
    /\ Atomic!Stored = Stored
    /\ \A customer, key :
          Atomic!Bound(customer, key) = FindByKey(customer, key)
BY DEF Atomic!Stored, Atomic!Bound, Stored, FindByKey

LEMMA ReceiveAsks ==
    ASSUME AtomicInv, NEW r \in Requests, NEW i \in Instances, NEW o,
           Receive(r, i, o)
    PROVE  ClientInv' /\ Atomic!Ask(r, o)
<1> USE DEF AtomicInv
<1>1. /\ pc[r] = "idle" /\ r \notin abandoned
      /\ call[r] = NoOperation /\ answer[r].status = "none"
  BY DEF Receive, IInv, CallsInv, Waits, ClientInv, ClientFor
<1>2. /\ call' = [call EXCEPT ![r] = o]
      /\ UNCHANGED <<dbVars, work, abandoned>>
      /\ \/ ~Atomic!Malformed(o) /\ answer' = answer
            /\ pc' = [pc EXCEPT ![r] = "begin"]
         \/ /\ Atomic!Malformed(o) /\ pc' = [pc EXCEPT ![r] = "answered"]
            /\ answer' = [answer EXCEPT ![r] = Reply("badRequest", NoRequest)]
  BY DEF Receive, Respond, ValidPositiveQuantity, Atomic!Malformed
<1>3. ClientInv'
  BY <1>1, <1>2 DEF IInv, TypeOK, Reply, ClientInv, ClientFor
<1>4. UNCHANGED Effective
  BY <1>1, <1>2 DEF IInv, TypeOK, Effective
<1> QED
  BY <1>1, <1>2, <1>3, <1>4
     DEF dbVars, Reply, Atomic!Ask, Atomic!Reply, Atomic!vars

LEMMA ArriveAsks ==
    ASSUME AtomicInv, NEW r \in Requests, Arrive(r)
    PROVE  ClientInv' /\ Atomic!AtomicNext
<1>1. PICK o \in Atomic!Calls : \E i \in Instances : Receive(r, i, o)
  BY SameTables DEF Arrive, Atomic!Calls
<1> QED
  BY <1>1, ReceiveAsks DEF Atomic!AtomicNext

-----------------------------------------------------------------------------
\* Refusals: the reason holds in the state in which the response is decided.

LEMMA RefusalsAreTrue ==
    ASSUME AtomicInv, NEW r \in Requests, r \notin abandoned,
           pc[r] \notin {"idle", "committed", "answered"},
           \/ Rollback(r, "notFound") /\ Atomic!NothingToFind(call[r])
           \/ /\ Rollback(r, "conflict")
              /\ Atomic!KeyWasUsed(call[r]) \/ Atomic!DoesNotFit(call[r])
           \/ Rollback(r, "retry") /\ Keyed(r)
    PROVE  ClientInv' /\ Atomic!Refuse(r)
<1>1. Atomic!Undecided(r)
  BY UnfinishedWaits
<1> QED
  BY <1>1, RollbackResponds DEF Keyed, Kind, Atomic!Refuse

LEMMA LookupKeyAnswers ==
    ASSUME AtomicInv, NEW r \in Requests, LookupKey(r)
    PROVE  Forward(r) \/ (ClientInv' /\ Atomic!Refuse(r))
<1> USE DEF AtomicInv
<1>1. pc[r] = "findByKey" /\ r \notin abandoned /\ Keyed(r)
  BY DEF LookupKey, At, IInv, CallsInv
<1>2. CASE /\ pc' = [pc EXCEPT ![r] = "lockProduct"]
           /\ UNCHANGED <<dbVars, lockVars, call, home, work, abandoned,
                          answer, instanceVars>>
  BY <1>1, <1>2 DEF Forward, Statements, Waits
<1>3. CASE \E id \in FindByKey(call[r].customer, call[r].key) :
              /\ ReadyToCommit(r, "replay", 0, id, reservations[id])
              /\ UNCHANGED <<dbVars, call, abandoned, answer>>
  BY <1>1, <1>3, ReadyIsForward
<1>4. CASE \E id \in FindByKey(call[r].customer, call[r].key) :
              /\ ~SameRequest(reservations[id], call[r].product,
                              call[r].quantity)
              /\ Rollback(r, "conflict")
  <2>1. Atomic!KeyWasUsed(call[r])
    BY <1>1, <1>4, SameTables
       DEF SameRequest, Keyed, Kind, Atomic!KeyWasUsed, Atomic!Carries
  <2> QED
    BY <1>1, <1>4, <2>1, RefusalsAreTrue
<1> QED
  BY <1>2, <1>3, <1>4 DEF LookupKey

LEMMA LockReservationAnswers ==
    ASSUME AtomicInv, NEW r \in Requests, LockReservation(r)
    PROVE  Forward(r) \/ (ClientInv' /\ Atomic!Refuse(r))
<1> USE DEF AtomicInv
<1> DEFINE id == call[r].reservation
<1>1. /\ pc[r] = "lockReservation" /\ r \notin abandoned
      /\ Kind(r) = "cancel"
  BY DEF LockReservation, At, IInv, CallsInv
<1>2. CASE /\ reservations[id].customer # call[r].customer
           /\ Rollback(r, "notFound")
  <2>1. Atomic!NothingToFind(call[r])
    BY <1>1, <1>2
       DEF Kind, Atomic!NothingToFind, Atomic!Owned, Atomic!Row
  <2> QED
    BY <1>1, <1>2, <2>1, RefusalsAreTrue
<1>3. CASE /\ pc' = [pc EXCEPT ![r] = "lockProduct"]
           /\ UNCHANGED <<work, dbVars, call, abandoned, answer>>
  BY <1>1, <1>3 DEF Forward, Statements, Waits
<1>4. CASE /\ ReadyToCommit(r, "cancelReplay", 0, id, reservations[id])
           /\ UNCHANGED <<dbVars, call, abandoned, answer>>
  BY <1>1, <1>4, ReadyIsForward
<1> QED
  BY <1>2, <1>3, <1>4 DEF LockReservation

\* What the request found under its locks so far, when it locks the product.
LEMMA FoundBeforeLock ==
    ASSUME AtomicInv, NEW r \in Requests, At(r, "lockProduct")
    PROVE  /\ pc[r] = "lockProduct" /\ r \notin abandoned
           /\ \/ /\ Kind(r) \in {"addStock", "reserve"}
                 /\ Target(r) = call[r].product
                 /\ call[r].quantity \in 1..MaxQuantity
                 /\ Atomic!KeyIsFree(call[r])
              \/ /\ Kind(r) = "cancel"
                 /\ Names(call[r].reservation, r, "ACTIVE")
                 /\ reservations[call[r].reservation] \in Reservation
                 /\ Target(r) = reservations[call[r].reservation].product
                 /\ Target(r) \in Products
<1> USE DEF AtomicInv, IInv
<1>1. pc[r] = "lockProduct" /\ r \notin abandoned
  BY DEF At
<1>2. call[r] \in Workload \cup CancelCalls
  BY <1>1 DEF CallsInv
<1>3. Kind(r) \in {"addStock", "reserve", "cancel"}
  BY <1>2, CallKinds DEF Kind
<1>4. WorkOf(r)
  BY DEF WorkInv
<1>5. CASE Kind(r) \in {"addStock", "reserve"}
  <2>1. Target(r) = call[r].product /\ call[r].quantity \in 1..MaxQuantity
    BY <1>1, <1>5 DEF CallsInv, Target
  <2>2. Atomic!KeyIsFree(call[r])
    BY <1>1, <1>4, SameTables DEF WorkOf, KeyIsFree, Kind, Atomic!KeyIsFree
  <2> QED
    BY <1>1, <1>5, <2>1, <2>2
<1>6. CASE Kind(r) = "cancel"
  <2>1. Names(call[r].reservation, r, "ACTIVE")
    BY <1>1, <1>4, <1>6 DEF WorkOf
  <2>2. reservations[call[r].reservation] \in Reservation
    BY <2>1 DEF Names, Stored, TypeOK
  <2> QED
    BY <1>1, <1>6, <2>1, <2>2 DEF Target, Reservation
<1> QED
  BY <1>3, <1>5, <1>6

LEMMA LockProductAnswers ==
    ASSUME AtomicInv, NEW r \in Requests, LockProduct(r)
    PROVE  Forward(r) \/ (ClientInv' /\ Atomic!Refuse(r))
<1> DEFINE o == call[r]
           p0 == Target(r)
           row == reservations[o.reservation]
<1>1. At(r, "lockProduct")
  BY DEF LockProduct, LockMissing, LockToRestock, LockToReserve, LockToCancel
<1>2. pc[r] = "lockProduct" /\ r \notin abandoned
  BY <1>1, FoundBeforeLock
<1>3. ASSUME NEW effect, NEW available, NEW id, NEW new,
             ReadyToCommit(r, effect, available, id, new), Locked(r)
      PROVE  Forward(r)
  BY <1>2, <1>3, ReadyIsForward DEF Locked
<1>4. \A p \in Products : stock[p] \in 0..MaxQuantity
  BY DEF AtomicInv, IInv, TypeOK
<1>5. CASE LockMissing(r)
  <2>1. Atomic!NothingToFind(o) /\ Rollback(r, "notFound")
    BY <1>1, <1>5, FoundBeforeLock DEF LockMissing, Kind, Atomic!NothingToFind
  <2> QED
    BY <1>2, <2>1, RefusalsAreTrue
<1>6. CASE LockToRestock(r)
  <2>1. ASSUME ~CanAddStock(stock[p0], o.quantity)
        PROVE  Atomic!DoesNotFit(o)
    <3>1. /\ o.kind = "addStock" /\ p0 \in Products /\ p0 = o.product
          /\ o.quantity \in 1..MaxQuantity
      BY <1>1, <1>6, FoundBeforeLock DEF LockToRestock, Kind
    <3>2. stock[o.product] + o.quantity > MaxQuantity
      BY <1>4, <2>1, <3>1, DomainAssumption DEF CanAddStock
    <3> QED
      BY <3>1, <3>2 DEF Atomic!DoesNotFit
  <2> QED
    BY <1>2, <1>3, <1>6, <2>1, RefusalsAreTrue DEF LockToRestock
<1>7. CASE LockToReserve(r)
  <2>1. ASSUME ~CanReserveStock(stock[p0], o.quantity)
        PROVE  Atomic!DoesNotFit(o)
    <3>1. /\ o.kind = "reserve" /\ p0 \in Products /\ p0 = o.product
          /\ o.quantity \in 1..MaxQuantity /\ Atomic!KeyIsFree(o)
      BY <1>1, <1>7, FoundBeforeLock DEF LockToReserve, Kind
    <3>2. stock[o.product] - o.quantity < 0
      BY <1>4, <2>1, <3>1, DomainAssumption DEF CanReserveStock
    <3> QED
      BY <3>1, <3>2 DEF Atomic!DoesNotFit
  <2> QED
    BY <1>2, <1>3, <1>7, <2>1, RefusalsAreTrue DEF LockToReserve
<1>8. CASE LockToCancel(r)
  <2>1. ASSUME ~CanAddStock(stock[p0], row.quantity)
        PROVE  Atomic!DoesNotFit(o)
    <3>1. /\ o.kind = "cancel" /\ Names(o.reservation, r, "ACTIVE")
          /\ row \in Reservation /\ p0 = row.product /\ p0 \in Products
      BY <1>1, <1>8, FoundBeforeLock DEF LockToCancel, Kind
    <3>2. row.quantity \in 1..MaxQuantity
      BY <3>1 DEF Reservation
    <3>3. stock[row.product] + row.quantity > MaxQuantity
      BY <1>4, <2>1, <3>1, <3>2, DomainAssumption DEF CanAddStock
    <3> QED
      BY <3>1, <3>3 DEF Names, Atomic!DoesNotFit, Atomic!Owned, Atomic!Row
  <2> QED
    BY <1>2, <1>3, <1>8, <2>1, RefusalsAreTrue DEF LockToCancel
<1> QED
  BY <1>5, <1>6, <1>7, <1>8 DEF LockProduct

\* Only a clock that runs behind makes the constraints refuse a flush: what
\* the locks protect still satisfies every other one.
LEMMA RejectFlushAnswers ==
    ASSUME AtomicInv, NEW r \in Requests, RejectFlush(r)
    PROVE  ClientInv' /\ Atomic!Refuse(r)
<1> USE DEF AtomicInv, IInv
<1> DEFINE w == work[r]
           o == call[r]
<1>1. /\ pc[r] = "commit" /\ r \notin abandoned /\ ~ConstraintsHold(r)
      /\ Rollback(r, "conflict")
  BY DEF RejectFlush, At
<1>2. Pending(r) /\ PreparedFor(r)
  BY <1>1 DEF WorkInv, WorkOf, PreparedInv
<1>3. StockInRange(w.stock)
  BY DEF TypeOK, Work, StockInRange
<1>4. w.effect # "reserve"
  <2> SUFFICES ASSUME w.effect = "reserve" PROVE ConstraintsHold(r)
    BY <1>1
  <2>1. /\ w.row = NewReservation(o.product, o.quantity, o.customer, o.key,
                                  w.row.createdAt)
        /\ KeyIsFree(r)
    BY <1>2 DEF Pending
  <2>2. /\ w.row.customer = o.customer /\ w.row.key = o.key
        /\ w.row.status = "ACTIVE" /\ w.row.cancelledAt = NoTime
    BY <2>1 DEF NewReservation
  <2> QED
    BY <1>3, <2>1, <2>2 DEF ConstraintsHold, CancellationConsistent, KeyIsFree
<1>5. w.effect = "cancel"
  BY <1>1, <1>3, <1>4 DEF ConstraintsHold
<1>6. /\ Kind(r) = "cancel" /\ Names(w.id, r, "ACTIVE")
      /\ w.row = Cancelled(reservations[w.id], w.row.cancelledAt)
      /\ w.row \in Reservation
  BY <1>2, <1>5 DEF Pending
<1>7. reservations[w.id] \in Reservation /\ w.id = o.reservation
  BY <1>6 DEF Names, Stored, TypeOK
<1>8. /\ w.row.status = "CANCELLED"
      /\ w.row.createdAt = reservations[w.id].createdAt
      /\ w.row.cancelledAt \in Times /\ w.row.createdAt \in Times
  BY <1>1, <1>2, <1>5, <1>6, <1>7 DEF Cancelled, Reservation, PreparedFor
<1>9. w.row.cancelledAt < w.row.createdAt
  <2>1. ~CancellationConsistent(w.row)
    BY <1>1, <1>3, <1>5 DEF ConstraintsHold
  <2>2. ~(w.row.cancelledAt >= w.row.createdAt)
    BY <1>8, <2>1, DomainAssumption DEF CancellationConsistent
  <2>3. w.row.cancelledAt \in Nat /\ w.row.createdAt \in Nat
    BY <1>8, DomainAssumption
  <2> QED
    BY <2>2, <2>3
<1>10. Atomic!DoesNotFit(o)
  BY <1>6, <1>7, <1>8, <1>9
     DEF Kind, Names, Atomic!DoesNotFit, Atomic!Owned, Atomic!Row
<1> QED
  BY <1>1, <1>10, RefusalsAreTrue

-----------------------------------------------------------------------------
\* Effects and successes.

\* A write takes effect at its commit; a replay has nothing to commit.
LEMMA CommitTakesEffect ==
    ASSUME AtomicInv, NEW r \in Requests, Commit(r)
    PROVE  /\ ClientInv'
           /\ Atomic!TakeEffect(r) \/ UNCHANGED Atomic!atomicVars
<1> USE DEF AtomicInv
<1> DEFINE o == call[r]
           effect == work[r].effect
<1>1. /\ pc[r] = "commit" /\ r \notin abandoned
      /\ pc' = [pc EXCEPT ![r] = "committed"]
      /\ UNCHANGED <<call, work, abandoned, answer>>
  BY DEF Commit, At
<1>2. ClientInv'
  BY <1>1 DEF IInv, TypeOK, ClientInv, ClientFor
<1>3. CASE effect \in {"replay", "cancelReplay"} /\ UNCHANGED dbVars
  <2>1. UNCHANGED Effective
    BY <1>1, <1>3 DEF IInv, TypeOK, Effective, Writes
  <2> QED
    BY <1>1, <1>2, <1>3, <2>1 DEF dbVars, Atomic!atomicVars, Atomic!vars
<1>4. CASE effect \in Writes
  <2>1. Effective' = Effective \cup {r}
    BY <1>1, <1>4 DEF IInv, TypeOK, Effective
  <2>2. Atomic!Undecided(r)
    BY <1>1, UnfinishedWaits
  <2>3. CASE /\ o.kind = "addStock" /\ o.product \in Products
             /\ Ledger!AddStock(o.product, o.quantity)
    BY <1>1, <1>2, <2>1, <2>2, <2>3
       DEF Ledger!AddStock, Atomic!AddStock, Atomic!TakeEffect
  <2>4. CASE /\ o.kind = "reserve" /\ o.product \in Products
             /\ \E now \in Times :
                   Ledger!Reserve(r, o.product, o.quantity, o.customer,
                                  o.key, now)
    <3>1. \E now \in Times :
             Atomic!Reserve(r, o.product, o.quantity, o.customer, o.key, now)
      BY <2>4
         DEF Ledger!Reserve, Ledger!Bound, Ledger!Stored, Atomic!Reserve,
             Atomic!Bound, Atomic!Stored
    <3> QED
      BY <1>1, <1>2, <2>1, <2>2, <2>4, <3>1 DEF Atomic!TakeEffect
  <2>5. CASE /\ o.kind = "cancel" /\ Names(o.reservation, r, "ACTIVE")
             /\ \E now \in Times : Ledger!CancelReservation(o.reservation, now)
    <3>1. \E now \in Times : Atomic!CancelReservation(o.reservation, now)
      BY <2>5 DEF Ledger!CancelReservation, Atomic!CancelReservation
    <3>2. Atomic!Owned(o)
      BY <2>5 DEF Names, Atomic!Owned, Atomic!Row
    <3> QED
      BY <1>1, <1>2, <2>1, <2>2, <2>5, <3>1, <3>2 DEF Atomic!TakeEffect
  <2> QED
    BY <1>2, <1>4, <2>3, <2>4, <2>5, CommitDoesWhatWasAsked DEF Writes
<1> QED
  BY <1>2, <1>3, <1>4, CommitDoesWhatWasAsked DEF Writes

\* What is answered is the call's own effect, or the one it repeats.
LEMMA AcknowledgeSucceeds ==
    ASSUME AtomicInv, NEW r \in Requests, Acknowledge(r)
    PROVE  ClientInv' /\ Atomic!Succeed(r)
<1> USE DEF AtomicInv, IInv
<1> DEFINE o == call[r]
           w == work[r]
           status == SuccessStatus(w.effect)
<1>1. /\ pc[r] = "committed" /\ r \notin abandoned
      /\ pc' = [pc EXCEPT ![r] = "answered"]
      /\ answer' = [answer EXCEPT ![r] = Reply(status, w.id)]
      /\ UNCHANGED <<dbVars, call, work, abandoned>>
  BY DEF Acknowledge, Respond, At
<1>2. Done(r) /\ PreparedFor(r) /\ Atomic!Waiting(r)
  BY <1>1, UnfinishedWaits DEF WorkInv, WorkOf, PreparedInv
<1>3. ClientInv'
  <2>1. Reply(status, w.id).status # "none"
    BY DEF Reply, SuccessStatus
  <2> QED
    BY <1>1, <2>1 DEF TypeOK, ClientInv, ClientFor
<1>4. Atomic!Respond(r, status, w.id)
  <2>1. Effective' = Effective \ {r}
    BY <1>1 DEF TypeOK, Effective
  <2> QED
    BY <1>1, <2>1 DEF dbVars, Reply, Atomic!Respond, Atomic!Reply, Atomic!vars
<1>5. r \in Effective <=> w.effect \in Writes
  BY <1>1 DEF Effective
<1>6. CASE w.effect = "restock" /\ Kind(r) = "addStock"
  <2>1. status = "ok" /\ w.id = NoRequest /\ r \in Effective
    BY <1>1, <1>2, <1>5, <1>6 DEF SuccessStatus, PreparedFor, Writes
  <2> QED
    BY <1>2, <1>3, <1>4, <1>6, <2>1 DEF Kind, Atomic!Succeed
<1>7. CASE w.effect = "reserve" /\ Kind(r) = "reserve" /\ w.id = r
  <2>1. status = "created" /\ r \in Effective
    BY <1>5, <1>7 DEF SuccessStatus, Writes
  <2> QED
    BY <1>2, <1>3, <1>4, <1>7, <2>1 DEF Kind, Atomic!Succeed
<1>8. CASE w.effect = "replay" /\ Kind(r) = "reserve" /\ Describes(w.id, r)
  <2>1. status = "replayed" /\ r \notin Effective /\ o.key # NoKey
    BY <1>1, <1>2, <1>5, <1>8 DEF SuccessStatus, PreparedFor, Keyed, Writes
  <2>2. w.id \in Atomic!Bound(o.customer, o.key) /\ Atomic!Carries(w.id, o)
    BY <1>8, SameTables DEF Describes, FindByKey, Atomic!Carries
  <2> QED
    BY <1>2, <1>3, <1>4, <1>8, <2>1, <2>2 DEF Kind, Atomic!Succeed
<1>9. CASE /\ w.effect \in {"cancel", "cancelReplay"} /\ Kind(r) = "cancel"
           /\ Names(w.id, r, "CANCELLED")
  <2>1. status = "ok" /\ w.id = o.reservation
    BY <1>9 DEF SuccessStatus, Names
  <2> QED
    BY <1>2, <1>3, <1>4, <1>9, <2>1
       DEF Kind, Names, Atomic!Succeed, Atomic!Owned, Atomic!Row
<1> QED
  BY <1>2, <1>6, <1>7, <1>8, <1>9 DEF Done

-----------------------------------------------------------------------------
\* Failures: the client learns nothing.

LEMMA TimeoutFails ==
    ASSUME AtomicInv, NEW r \in Requests,
           PoolTimeout(r) \/ RowTimeout(r) \/ LoseConnection(r)
    PROVE  ClientInv' /\ Atomic!Fail({r})
<1> USE DEF AtomicInv, IInv
<1>1. pc[r] \notin {"idle", "answered"} /\ r \notin abandoned
  BY DEF PoolTimeout, RowTimeout, LoseConnection, At
<1>2. Atomic!Waiting(r)
  BY <1>1, UnfinishedWaits
<1>3. CASE Rollback(r, "error")
  <2>1. ClientInv' /\ Atomic!Respond(r, "error", NoRequest)
    BY <1>1, <1>3, RollbackResponds
  <2>2. answer' = [s \in Requests |->
            IF s \in {r} THEN Atomic!Reply("error", NoRequest) ELSE answer[s]]
    BY <2>1 DEF TypeOK, Atomic!Respond
  <2> QED
    BY <1>2, <2>1, <2>2 DEF Atomic!Fail, Atomic!Respond
<1>4. CASE RowTimeout(r)
  <2>1. /\ answer' = [answer EXCEPT ![r] = Reply("error", NoRequest)]
        /\ abandoned' = abandoned \cup {r}
        /\ UNCHANGED <<dbVars, pc, call, work>>
        /\ pc[r] # "committed"
    BY <1>4 DEF RowTimeout, At
  <2>2. ClientInv'
    BY <1>1, <2>1 DEF TypeOK, Reply, ClientInv, ClientFor
  <2>3. Effective' = Effective \ {r}
    BY <2>1 DEF Effective
  <2>4. answer' = [s \in Requests |->
            IF s \in {r} THEN Atomic!Reply("error", NoRequest) ELSE answer[s]]
    BY <2>1 DEF TypeOK, Reply, Atomic!Reply
  <2> QED
    BY <1>2, <2>1, <2>2, <2>3, <2>4 DEF dbVars, Atomic!Fail, Atomic!vars
<1> QED
  BY <1>3, <1>4 DEF PoolTimeout, LoseConnection

LEMMA CrashFails ==
    ASSUME AtomicInv, NEW i \in Instances, Crash(i)
    PROVE  ClientInv' /\ \E R \in SUBSET Requests : Atomic!Fail(R)
<1> USE DEF AtomicInv, IInv
<1> DEFINE inFlight == {r \in Requests : /\ home[r] = i
                                         /\ pc[r] # "answered"
                                         /\ r \notin abandoned}
           waiting == {r \in inFlight : Blocked(r)}
<1>1. /\ abandoned' = abandoned \cup waiting
      /\ pc' = [r \in Requests |->
                  IF r \in inFlight \ waiting THEN "answered" ELSE pc[r]]
      /\ answer' = [r \in Requests |->
                  IF r \in inFlight THEN Reply("error", NoRequest)
                                    ELSE answer[r]]
      /\ UNCHANGED <<dbVars, call, work>>
  BY DEF Crash
<1>2. \A r \in inFlight : pc[r] # "idle" /\ Atomic!Waiting(r)
  BY UnfinishedWaits, ServiceAssumption DEF CallsInv
<1>3. \A r \in waiting : pc[r] \in Waits
  BY BlockedWaits
<1>4. \A r \in inFlight : r \in Requests /\ pc[r] # "answered"
  OBVIOUS
<1> HIDE DEF inFlight
<1>5. ClientInv'
  BY <1>1, <1>2, <1>3, <1>4 DEF Reply, Waits, ClientInv, ClientFor
<1>6. Effective' = Effective \ inFlight
  BY <1>1, <1>3 DEF Effective, Waits
<1>7. Atomic!Fail(inFlight)
  BY <1>1, <1>2, <1>6 DEF dbVars, Reply, Atomic!Fail, Atomic!Reply, Atomic!vars
<1>8. inFlight \in SUBSET Requests
  BY <1>4
<1> QED
  BY <1>5, <1>7, <1>8

\* The backend ends after its client has been told.
LEMMA AbandonedEndsUnseen ==
    ASSUME AtomicInv, NEW r \in Requests, AbandonedEnds(r)
    PROVE  ClientInv' /\ UNCHANGED Atomic!atomicVars
<1> USE DEF AtomicInv, IInv
<1>1. /\ r \in abandoned /\ abandoned' = abandoned \ {r}
      /\ pc[r] \in Waits /\ pc' = [pc EXCEPT ![r] = "answered"]
      /\ UNCHANGED <<dbVars, call, work, answer>>
  BY DEF AbandonedEnds, CallsInv
<1>2. ClientInv'
  BY <1>1 DEF TypeOK, Waits, ClientInv, ClientFor
<1>3. UNCHANGED Effective
  BY <1>1 DEF TypeOK, Waits, Effective
<1> QED
  BY <1>1, <1>2, <1>3 DEF dbVars, Atomic!atomicVars, Atomic!vars

-----------------------------------------------------------------------------

\* A step by which no method returns leaves what was prepared as it was.
LEMMA KeptPrepared ==
    ASSUME AtomicInv,
           \A s \in Requests : pc'[s] \in {"commit", "committed"} =>
               /\ pc[s] \in {"commit", "committed"}
               /\ work'[s] = work[s] /\ call'[s] = call[s]
    PROVE  PreparedInv'
BY DEF AtomicInv, PreparedInv, PreparedFor, Keyed, Kind

LEMMA ReadyPrepares ==
    ASSUME AtomicInv, NEW r \in Requests, NEW effect, NEW available, NEW id,
           NEW row, ReadyToCommit(r, effect, available, id, row),
           UNCHANGED call,
           effect = "restock" => id = NoRequest,
           effect = "replay" => Keyed(r),
           effect = "cancel" => row.cancelledAt \in Times
    PROVE  PreparedInv'
<1>1. ASSUME NEW s \in Requests PROVE PreparedFor(s)'
  <2>1. CASE s = r
    <3>1. work'[r] = [effect |-> effect, stock |-> available, id |-> id,
                      row |-> row]
      BY DEF ReadyToCommit, AtomicInv, IInv, TypeOK
    <3> QED
      BY <2>1, <3>1 DEF PreparedFor, Keyed, Kind
  <2>2. CASE s # r
    <3>1. pc'[s] = pc[s] /\ work'[s] = work[s] /\ call'[s] = call[s]
      BY <2>2 DEF ReadyToCommit, AtomicInv, IInv, TypeOK
    <3> QED
      BY <3>1 DEF AtomicInv, PreparedInv, PreparedFor, Keyed, Kind
  <2> QED
    BY <2>1, <2>2
<1> QED
  BY <1>1 DEF PreparedInv

LEMMA PreparedInductive ==
    ASSUME AtomicInv, [Next]_vars
    PROVE  PreparedInv'
<1> USE DEF AtomicInv, IInv
<1>1. ASSUME NEW r \in Requests, NEW status, Rollback(r, status)
      PROVE  PreparedInv'
  BY <1>1, KeptPrepared DEF Rollback, Respond, TypeOK
<1>2. ASSUME NEW r \in Requests, Arrive(r) PROVE PreparedInv'
  BY <1>2, KeptPrepared DEF Arrive, Receive, Respond, TypeOK
<1>3. ASSUME NEW r \in Requests, LookupKey(r) PROVE PreparedInv'
  <2>1. Keyed(r)
    BY <1>3 DEF LookupKey, At, CallsInv
  <2>2. CASE /\ pc' = [pc EXCEPT ![r] = "lockProduct"]
             /\ UNCHANGED <<call, work>>
    BY <2>2, KeptPrepared DEF TypeOK
  <2> QED
    BY <1>1, <1>3, <2>1, <2>2, ReadyPrepares DEF LookupKey
<1>4. ASSUME NEW r \in Requests, LockReservation(r) PROVE PreparedInv'
  <2>1. CASE /\ pc' = [pc EXCEPT ![r] = "lockProduct"]
             /\ UNCHANGED <<call, work>>
    BY <2>1, KeptPrepared DEF TypeOK
  <2> QED
    BY <1>1, <1>4, <2>1, ReadyPrepares DEF LockReservation
<1>5. ASSUME NEW r \in Requests, LockProduct(r) PROVE PreparedInv'
  <2>1. CASE LockMissing(r) \/ LockToRestock(r) \/ LockToReserve(r)
    BY <1>1, <2>1, ReadyPrepares
       DEF LockMissing, LockToRestock, LockToReserve, Locked
  <2>2. CASE LockToCancel(r)
    <3> DEFINE row == reservations[call[r].reservation]
    <3>1. row \in Reservation
      BY <2>2, FoundBeforeLock DEF LockToCancel
    <3>2. \A now : Cancelled(row, now).cancelledAt = now
      BY <3>1 DEF Cancelled, Reservation
    <3> QED
      BY <1>1, <2>2, <3>2, ReadyPrepares DEF LockToCancel, Locked
  <2> QED
    BY <1>5, <2>1, <2>2 DEF LockProduct
<1>6. ASSUME NEW r \in Requests,
             \/ Begin(r) \/ AcquireKey(r) \/ Commit(r) \/ Acknowledge(r)
             \/ AbandonedEnds(r) \/ RowTimeout(r)
      PROVE  PreparedInv'
  <2>1. FirstStatement(call[r]) \notin {"commit", "committed"}
    BY DEF FirstStatement
  <2> QED
    BY <1>6, <2>1, KeptPrepared
       DEF Begin, AcquireKey, Commit, Acknowledge, AbandonedEnds, RowTimeout,
           At, Respond, TypeOK
<1>7. ASSUME NEW i \in Instances, Crash(i) PROVE PreparedInv'
  BY <1>7, KeptPrepared DEF Crash
<1>8. CASE UNCHANGED vars
  BY <1>8, KeptPrepared DEF vars, requestVars
<1>9. CASE Next
  BY <1>1, <1>2, <1>3, <1>4, <1>5, <1>6, <1>7, <1>9
     DEF Next, Progress, Failure, RejectFlush, PoolTimeout, KeyTimeout,
         LoseConnection
<1> QED
  BY <1>8, <1>9

\* Every step is one of the abstract specification, or none.
LEMMA StepsAreAtomic ==
    ASSUME AtomicInv, [Next]_vars
    PROVE  /\ ClientInv'
           /\ Atomic!AtomicNext \/ UNCHANGED Atomic!atomicVars
<1> DEFINE Seen == /\ ClientInv'
                   /\ Atomic!AtomicNext \/ UNCHANGED Atomic!atomicVars
<1>1. ASSUME NEW r \in Requests, Arrive(r) PROVE Seen
  BY <1>1, ArriveAsks
<1>2. ASSUME NEW r \in Requests, Forward(r) PROVE Seen
  BY <1>2, ForwardIsUnseen
<1>3. ASSUME NEW r \in Requests, Begin(r) \/ AcquireKey(r) PROVE Forward(r)
  <2>1. FirstStatement(call[r]) \in
            Statements \ {"idle", "committed", "answered"}
    BY DEF FirstStatement, Statements, Waits
  <2> QED
    BY <1>3, <2>1 DEF Begin, AcquireKey, At, Forward, Statements
<1>4. ASSUME NEW r \in Requests, KeyTimeout(r)
      PROVE  ClientInv' /\ Atomic!Refuse(r)
  <2>1. pc[r] = "acquireKey" /\ r \notin abandoned /\ Keyed(r)
    BY <1>4 DEF KeyTimeout, At, AtomicInv, IInv, CallsInv
  <2> QED
    BY <1>4, <2>1, RefusalsAreTrue DEF KeyTimeout
<1>5. ASSUME NEW r \in Requests,
             \/ Forward(r)
             \/ ClientInv' /\ (Atomic!Refuse(r) \/ Atomic!TakeEffect(r)
                               \/ Atomic!Succeed(r) \/ Atomic!Fail({r}))
      PROVE  Seen
  <2>1. {r} \in SUBSET Requests
    OBVIOUS
  <2> QED
    BY <1>2, <1>5, <2>1 DEF Atomic!AtomicNext
<1>6. ASSUME NEW r \in Requests, Commit(r) PROVE Seen
  BY <1>5, <1>6, CommitTakesEffect
<1>7. ASSUME NEW r \in Requests, Progress(r) PROVE Seen
  BY <1>3, <1>5, <1>6, <1>7, LookupKeyAnswers, LockReservationAnswers,
     LockProductAnswers, RejectFlushAnswers, AcknowledgeSucceeds,
     AbandonedEndsUnseen DEF Progress
<1>8. ASSUME NEW r \in Requests, Failure(r) PROVE Seen
  BY <1>4, <1>5, <1>8, TimeoutFails DEF Failure
<1>9. ASSUME NEW i \in Instances, Crash(i) PROVE Seen
  BY <1>9, CrashFails DEF Atomic!AtomicNext
<1>10. CASE UNCHANGED vars
  BY <1>10
     DEF vars, dbVars, requestVars, AtomicInv, ClientInv, ClientFor, Effective,
         Atomic!atomicVars, Atomic!vars
<1> QED
  BY <1>1, <1>7, <1>8, <1>9, <1>10 DEF Next

\* Whatever interleaves, times out, breaks or crashes, for any number of
\* clients, instances, keys and products: a call takes effect at one instant
\* between its request and its response, or not at all, and is refused for a
\* reason that holds while it is decided (InventoryController.java:22-54,
\* InventoryService.java:59-121).
THEOREM CallsStayAtomic == Spec => AnswersAreAtomic
<1>1. Init => ClientInv /\ PreparedInv /\ Atomic!AtomicInit
  <2> SUFFICES ASSUME Init PROVE ClientInv /\ PreparedInv /\ Atomic!AtomicInit
    OBVIOUS
  <2>1. ClientInv /\ PreparedInv
    BY DEF Init, Reply, ClientInv, ClientFor, PreparedInv, PreparedFor
  <2>2. Effective = {}
    BY DEF Init, Effective
  <2> QED
    BY <2>1, <2>2 DEF Init, Reply, Atomic!AtomicInit, Atomic!Init, Atomic!Reply
<1>2. IInv /\ ClientInv /\ PreparedInv /\ [Next]_vars
        => ClientInv' /\ PreparedInv' /\ [Atomic!AtomicNext]_(Atomic!atomicVars)
  BY StepsAreAtomic, PreparedInductive DEF AtomicInv
<1> QED
  BY <1>1, <1>2, InductiveInvariant, PTL
     DEF Spec, AnswersAreAtomic, Atomic!AtomicSpec
=============================================================================
