-------------------------- MODULE ProductCatalogProofs --------------------------
(***************************************************************************)
(* Proofs about ProductCatalog, for every set of requests, instances and   *)
(* spellings.                                                              *)
(*                                                                         *)
(* The argument: the index lets at most one transaction insert a SKU at a  *)
(* time, and only while no committed row has it, so a commit can add no    *)
(* duplicate (Exclusive); a row is the one its request asked for, written  *)
(* when the request passes its commit (Positions); and an answer is given  *)
(* at the end, when nothing can change it (Truthful).  A commit adds to    *)
(* the rows what it owes to the counters, until it is acknowledged or lost *)
(* (CountersInv).  A commit is the one step at which a product appears, so *)
(* that a creation is one instant for its client (ClientInv).              *)
(***************************************************************************)
EXTENDS ProductCatalogProperties, FiniteSums, TLAPS

BeforeCommit == {"idle", "exists", "insert", "commit"}

\* Positions, arguments and rows agree.
PositionOf(r) ==
    /\ pc[r] # "idle" => call[r] \in Calls /\ home[r] \in Instances
    /\ pc[r] = "idle" => home[r] = NoInstance
    /\ pc[r] \notin {"idle", "answered"} => Valid(call[r])
    /\ pc[r] \in BeforeCommit => products[r] = NoProduct
    /\ pc[r] = "committed" => products[r] = Row(r)
    /\ products[r] # NoProduct => products[r] = Row(r)
    /\ r \in abandoned => pc[r] = "insert"

\* An insert in progress has its SKU to itself.
ExclusiveFor(r) ==
    pc[r] = "commit" =>
        /\ ~Exists(Sku(r))
        /\ \A s \in Requests : pc[s] = "commit" /\ Sku(s) = Sku(r) => s = r

TruthfulFor(r) ==
    /\ answer[r] \in {"created", "badRequest", "conflict"} =>
           pc[r] = "answered"
    /\ answer[r] = "created" => products[r] = Row(r)
    /\ answer[r] \in {"badRequest", "conflict"} => r \notin Stored
    /\ answer[r] = "conflict" => Exists(Sku(r))

Positions == \A r \in Requests : PositionOf(r)
Exclusive == \A r \in Requests : ExclusiveFor(r)
Truthful == \A r \in Requests : TruthfulFor(r)

CatalogInv ==
    /\ TypeOK
    /\ Positions
    /\ Exclusive
    /\ SkusAreUnique
    /\ Truthful

LEMMA RowsAreTyped ==
    ASSUME NEW o \in Calls, Valid(o)
    PROVE  [sku |-> Normalize[o.sku], quantity |-> o.quantity] \in Rows
BY DEF Valid, Rows

LEMMA InitCatalogInv == Init => CatalogInv
BY CatalogAssumption
   DEF Init, CatalogInv, TypeOK, Statements, Answers, Meters, ZeroCounters,
       Positions, PositionOf, Exclusive, ExclusiveFor, SkusAreUnique, Stored,
       Truthful, TruthfulFor, BeforeCommit

\* A step that writes no row and starts no insert leaves the rows exclusive.
LEMMA QuietKeepsExclusive ==
    ASSUME CatalogInv, UNCHANGED products,
           \A r \in Requests : pc'[r] = "commit" =>
               pc[r] = "commit" /\ call'[r] = call[r]
    PROVE  Exclusive' /\ SkusAreUnique'
<1>1. SkusAreUnique'
  BY DEF CatalogInv, SkusAreUnique, Stored
<1>2. ASSUME NEW r \in Requests PROVE ExclusiveFor(r)'
  BY <1>2 DEF CatalogInv, Exclusive, ExclusiveFor, Exists, Stored, Sku
<1>3. QED
  BY <1>1, <1>2 DEF Exclusive

\* Untouched requests keep their position and their answer.
LEMMA UntouchedPosition ==
    ASSUME CatalogInv, NEW r \in Requests,
           pc'[r] = pc[r], call'[r] = call[r], home'[r] = home[r],
           products'[r] = products[r], r \in abandoned' => r \in abandoned
    PROVE  PositionOf(r)'
BY DEF CatalogInv, Positions, PositionOf, Valid, Row, Sku

\* Rows are only ever added: what a finished request was told stays true.
LEMMA UntouchedAnswer ==
    ASSUME CatalogInv, NEW r \in Requests,
           answer'[r] = answer[r], call'[r] = call[r],
           answer[r] \in {"created", "badRequest", "conflict"} =>
               pc'[r] = pc[r] /\ products'[r] = products[r],
           \A p \in Requests :
               products[p] # NoProduct => products'[p] = products[p]
    PROVE  TruthfulFor(r)'
BY DEF CatalogInv, Truthful, TruthfulFor, Row, Sku, Stored, Exists

LEMMA ReceiveKeepsInv ==
    ASSUME CatalogInv, NEW r \in Requests, NEW i \in Instances,
           NEW o \in Calls, Receive(r, i, o)
    PROVE  CatalogInv'
<1>. USE DEF CatalogInv
<1>1. TypeOK'
  BY DEF Receive, Respond, TypeOK, Statements, Answers
<1>2. ASSUME NEW s \in Requests PROVE PositionOf(s)'
  <2>1. CASE s = r
    BY <2>1 DEF Receive, Respond, TypeOK, Positions, PositionOf,
                BeforeCommit, Valid
  <2>2. CASE s # r
    BY <2>2, UntouchedPosition DEF Receive, Respond, TypeOK
  <2>3. QED
    BY <2>1, <2>2
<1>3. Exclusive' /\ SkusAreUnique'
  BY QuietKeepsExclusive DEF Receive, Respond, TypeOK
<1>4. ASSUME NEW s \in Requests PROVE TruthfulFor(s)'
  <2>1. CASE s = r
    BY <2>1 DEF Receive, Respond, TypeOK, Positions, PositionOf,
                BeforeCommit, Truthful, TruthfulFor, Stored
  <2>2. CASE s # r
    BY <2>2, UntouchedAnswer DEF Receive, Respond, TypeOK
  <2>3. QED
    BY <2>1, <2>2
<1>5. QED
  BY <1>1, <1>2, <1>3, <1>4 DEF Positions, Truthful

\* A request ends without a row and is told so, or is not told.
LEMMA RollbackKeepsInv ==
    ASSUME CatalogInv, NEW r \in Requests, r \notin abandoned,
           pc[r] \notin {"idle", "answered"},
           NEW status \in {"conflict", "error"}, Rollback(r, status),
           status = "conflict" => products[r] = NoProduct /\ Exists(Sku(r))
    PROVE  CatalogInv'
<1>. USE DEF CatalogInv
<1>1. TypeOK'
  BY DEF Rollback, Respond, TypeOK, Statements, Answers
<1>2. ASSUME NEW s \in Requests PROVE PositionOf(s)'
  <2>1. CASE s = r
    BY <2>1 DEF Rollback, Respond, TypeOK, Positions, PositionOf,
                BeforeCommit, Row, Sku
  <2>2. CASE s # r
    BY <2>2, UntouchedPosition DEF Rollback, Respond, TypeOK
  <2>3. QED
    BY <2>1, <2>2
<1>3. Exclusive' /\ SkusAreUnique'
  BY QuietKeepsExclusive DEF Rollback, Respond, TypeOK
<1>4. ASSUME NEW s \in Requests PROVE TruthfulFor(s)'
  <2>1. CASE s = r
    BY <2>1 DEF Rollback, Respond, TypeOK, TruthfulFor, Stored, Exists, Sku
  <2>2. CASE s # r
    BY <2>2, UntouchedAnswer DEF Rollback, Respond, TypeOK
  <2>3. QED
    BY <2>1, <2>2
<1>5. QED
  BY <1>1, <1>2, <1>3, <1>4 DEF Positions, Truthful

LEMMA CheckExistsKeepsInv ==
    ASSUME CatalogInv, NEW r \in Requests, CheckExists(r)
    PROVE  CatalogInv'
<1>. USE DEF CatalogInv
<1>1. /\ pc[r] = "exists"
      /\ r \notin abandoned
      /\ products[r] = NoProduct
  BY DEF CheckExists, At, Positions, PositionOf, BeforeCommit
<1>2. CASE Exists(Sku(r)) /\ Rollback(r, "conflict")
  BY <1>1, <1>2, RollbackKeepsInv
<1>3. CASE Goto(r, "insert")
  <2>1. TypeOK'
    BY <1>3 DEF Goto, TypeOK, Statements
  <2>2. ASSUME NEW s \in Requests PROVE PositionOf(s)'
    <3>1. CASE s = r
      BY <1>1, <1>3, <3>1 DEF Goto, TypeOK, Positions, PositionOf,
                              BeforeCommit, Valid
    <3>2. CASE s # r
      BY <1>3, <3>2, UntouchedPosition DEF Goto, TypeOK
    <3>3. QED
      BY <3>1, <3>2
  <2>3. Exclusive' /\ SkusAreUnique'
    BY <1>3, QuietKeepsExclusive DEF Goto, TypeOK
  <2>4. ASSUME NEW s \in Requests PROVE TruthfulFor(s)'
    <3>1. answer[s] \in {"created", "badRequest", "conflict"} => s # r
      BY <1>1 DEF Truthful, TruthfulFor
    <3>2. QED
      BY <1>3, <3>1, UntouchedAnswer DEF Goto, TypeOK
  <2>5. QED
    BY <2>1, <2>2, <2>3, <2>4 DEF Positions, Truthful
<1>4. QED
  BY <1>2, <1>3 DEF CheckExists

LEMMA InsertKeepsInv ==
    ASSUME CatalogInv, NEW r \in Requests, Insert(r)
    PROVE  CatalogInv'
<1>. USE DEF CatalogInv
<1>1. /\ pc[r] = "insert"
      /\ r \notin abandoned
      /\ products[r] = NoProduct
      /\ \A s \in Requests : pc[s] = "commit" => Sku(s) # Sku(r)
  BY DEF Insert, At, Positions, PositionOf, BeforeCommit, Blocked, Inserting
<1>2. CASE Exists(Sku(r)) /\ Rollback(r, "conflict")
  BY <1>1, <1>2, RollbackKeepsInv
<1>3. CASE ~Exists(Sku(r)) /\ Goto(r, "commit")
  <2>1. TypeOK'
    BY <1>3 DEF Goto, TypeOK, Statements
  <2>2. ASSUME NEW s \in Requests PROVE PositionOf(s)'
    <3>1. CASE s = r
      BY <1>1, <1>3, <3>1 DEF Goto, TypeOK, Positions, PositionOf,
                              BeforeCommit, Valid
    <3>2. CASE s # r
      BY <1>3, <3>2, UntouchedPosition DEF Goto, TypeOK
    <3>3. QED
      BY <3>1, <3>2
  <2>3. ASSUME NEW s \in Requests PROVE ExclusiveFor(s)'
    BY <1>1, <1>3 DEF Goto, TypeOK, Exclusive, ExclusiveFor, Exists, Stored,
                      Sku
  <2>4. SkusAreUnique'
    BY <1>3 DEF Goto, SkusAreUnique, Stored
  <2>5. ASSUME NEW s \in Requests PROVE TruthfulFor(s)'
    <3>1. answer[s] \in {"created", "badRequest", "conflict"} => s # r
      BY <1>1 DEF Truthful, TruthfulFor
    <3>2. QED
      BY <1>3, <3>1, UntouchedAnswer DEF Goto, TypeOK
  <2>6. QED
    BY <2>1, <2>2, <2>3, <2>4, <2>5 DEF Positions, Exclusive, Truthful
<1>4. QED
  BY <1>2, <1>3 DEF Insert

LEMMA CommitKeepsInv ==
    ASSUME CatalogInv, NEW r \in Requests, Commit(r)
    PROVE  CatalogInv'
<1>. USE DEF CatalogInv
<1>1. /\ pc[r] = "commit"
      /\ r \notin abandoned
      /\ products[r] = NoProduct
      /\ call[r] \in Calls
      /\ Valid(call[r])
      /\ ~Exists(Sku(r))
      /\ \A s \in Requests : pc[s] = "commit" /\ Sku(s) = Sku(r) => s = r
  BY DEF Commit, At, Positions, PositionOf, BeforeCommit, Exclusive,
         ExclusiveFor
<1>2. Row(r) \in Rows /\ Row(r) # NoProduct /\ Row(r).sku = Sku(r)
  BY <1>1, RowsAreTyped, CatalogAssumption DEF Row, Sku
<1>3. /\ products' = [products EXCEPT ![r] = Row(r)]
      /\ pc' = [pc EXCEPT ![r] = "committed"]
      /\ UNCHANGED <<call, home, abandoned, answer, counters, crashes>>
  BY DEF Commit
<1>4. TypeOK'
  BY <1>2, <1>3 DEF TypeOK, Statements
<1>5. ASSUME NEW s \in Requests PROVE PositionOf(s)'
  <2>1. CASE s = r
    BY <1>1, <1>3, <2>1 DEF TypeOK, Positions, PositionOf, BeforeCommit,
                            Valid, Row, Sku
  <2>2. CASE s # r
    BY <1>3, <2>2, UntouchedPosition DEF TypeOK
  <2>3. QED
    BY <2>1, <2>2
<1>6. Stored' = Stored \cup {r}
  BY <1>2, <1>3 DEF Stored, TypeOK
<1>7. ASSUME NEW s \in Requests PROVE ExclusiveFor(s)'
  <2>1. SUFFICES ASSUME pc'[s] = "commit" PROVE ExclusiveFor(s)'
    BY DEF ExclusiveFor
  <2>2. s # r /\ pc[s] = "commit" /\ Sku(s)' = Sku(s)
    BY <1>3, <2>1 DEF TypeOK, Sku
  <2>3. Sku(s) # Sku(r) /\ ~Exists(Sku(s))
    BY <1>1, <2>2 DEF Exclusive, ExclusiveFor
  <2>4. ~Exists(Sku(s))'
    BY <1>2, <1>3, <1>6, <2>2, <2>3 DEF Exists, TypeOK, Stored
  <2>5. QED
    BY <1>3, <2>2, <2>4 DEF ExclusiveFor, Exclusive, Sku, TypeOK
<1>8. SkusAreUnique'
  <2>1. SUFFICES ASSUME NEW p \in Stored', NEW q \in Stored',
                        products'[p].sku = products'[q].sku
                 PROVE  p = q
    BY DEF SkusAreUnique
  <2>2. ASSUME NEW s \in Stored PROVE s # r /\ products'[s] = products[s]
                                      /\ products[s].sku # Sku(r)
    BY <1>1, <1>3, <2>2 DEF Exists, Stored, TypeOK
  <2>3. products'[r].sku = Sku(r)
    BY <1>2, <1>3 DEF TypeOK
  <2>4. QED
    BY <1>6, <2>1, <2>2, <2>3 DEF SkusAreUnique
<1>9. ASSUME NEW s \in Requests PROVE TruthfulFor(s)'
  <2>1. answer[s] \in {"created", "badRequest", "conflict"} => s # r
    BY <1>1 DEF Truthful, TruthfulFor
  <2>2. QED
    BY <1>1, <1>3, <2>1, UntouchedAnswer DEF TypeOK
<1>10. QED
  BY <1>4, <1>5, <1>7, <1>8, <1>9 DEF Positions, Exclusive, Truthful

LEMMA AcknowledgeKeepsInv ==
    ASSUME CatalogInv, NEW r \in Requests, Acknowledge(r)
    PROVE  CatalogInv'
<1>. USE DEF CatalogInv
<1>1. /\ pc[r] = "committed"
      /\ r \notin abandoned
      /\ products[r] = Row(r)
      /\ call[r] \in Calls
      /\ home[r] \in Instances
      /\ Valid(call[r])
  BY DEF Acknowledge, At, Positions, PositionOf
<1>2. /\ pc' = [pc EXCEPT ![r] = "answered"]
      /\ answer' = [answer EXCEPT ![r] = "created"]
      /\ UNCHANGED <<products, call, home, abandoned, crashes>>
  BY DEF Acknowledge, Respond
<1>3. call[r].quantity \in Nat /\ Row(r) # NoProduct
  BY <1>1, RowsAreTyped, CatalogAssumption DEF Valid, Row, Sku
<1>4. counters' \in [Instances -> [Meters -> Nat]]
  <2>1. counters[home[r]] \in [Meters -> Nat]
    BY <1>1 DEF TypeOK
  <2>2. Counted(counters[home[r]], call[r].quantity) \in [Meters -> Nat]
    BY <1>3, <2>1 DEF Counted, Meters
  <2>3. QED
    BY <2>2 DEF Acknowledge, TypeOK
<1>5. TypeOK'
  BY <1>2, <1>4 DEF TypeOK, Statements, Answers
<1>6. ASSUME NEW s \in Requests PROVE PositionOf(s)'
  <2>1. CASE s = r
    BY <1>1, <1>2, <2>1 DEF TypeOK, PositionOf, BeforeCommit, Row, Sku
  <2>2. CASE s # r
    BY <1>2, <2>2, UntouchedPosition DEF TypeOK
  <2>3. QED
    BY <2>1, <2>2
<1>7. Exclusive' /\ SkusAreUnique'
  BY <1>2, QuietKeepsExclusive DEF TypeOK
<1>8. ASSUME NEW s \in Requests PROVE TruthfulFor(s)'
  <2>1. CASE s = r
    BY <1>1, <1>2, <2>1 DEF TypeOK, TruthfulFor, Row, Sku
  <2>2. CASE s # r
    BY <1>2, <2>2, UntouchedAnswer DEF TypeOK
  <2>3. QED
    BY <2>1, <2>2
<1>9. QED
  BY <1>5, <1>6, <1>7, <1>8 DEF Positions, Truthful

LEMMA InsertTimeoutKeepsInv ==
    ASSUME CatalogInv, NEW r \in Requests, InsertTimeout(r)
    PROVE  CatalogInv'
<1>. USE DEF CatalogInv
<1>1. /\ pc[r] = "insert"
      /\ abandoned' = abandoned \cup {r}
      /\ answer' = [answer EXCEPT ![r] = "error"]
      /\ UNCHANGED <<products, pc, call, home, counters, crashes>>
  BY DEF InsertTimeout, At
<1>2. TypeOK'
  BY <1>1 DEF TypeOK, Answers
<1>3. ASSUME NEW s \in Requests PROVE PositionOf(s)'
  BY <1>1 DEF Positions, PositionOf, Valid, Row, Sku, BeforeCommit
<1>4. Exclusive' /\ SkusAreUnique'
  BY <1>1, QuietKeepsExclusive
<1>5. ASSUME NEW s \in Requests PROVE TruthfulFor(s)'
  <2>1. CASE s = r
    BY <1>1, <2>1 DEF TypeOK, TruthfulFor
  <2>2. CASE s # r
    BY <1>1, <2>2, UntouchedAnswer DEF TypeOK
  <2>3. QED
    BY <2>1, <2>2
<1>6. QED
  BY <1>2, <1>3, <1>4, <1>5 DEF Positions, Truthful

LEMMA AbandonedEndsKeepsInv ==
    ASSUME CatalogInv, NEW r \in Requests, AbandonedEnds(r)
    PROVE  CatalogInv'
<1>. USE DEF CatalogInv
<1>1. /\ pc[r] = "insert"
      /\ products[r] = NoProduct
      /\ abandoned' = abandoned \ {r}
      /\ pc' = [pc EXCEPT ![r] = "answered"]
      /\ UNCHANGED <<products, call, home, answer, counters, crashes>>
  BY DEF AbandonedEnds, Positions, PositionOf, BeforeCommit
<1>2. TypeOK'
  BY <1>1 DEF TypeOK, Statements
<1>3. ASSUME NEW s \in Requests PROVE PositionOf(s)'
  <2>1. CASE s = r
    BY <1>1, <2>1 DEF TypeOK, Positions, PositionOf, BeforeCommit
  <2>2. CASE s # r
    BY <1>1, <2>2, UntouchedPosition DEF TypeOK
  <2>3. QED
    BY <2>1, <2>2
<1>4. Exclusive' /\ SkusAreUnique'
  BY <1>1, QuietKeepsExclusive DEF TypeOK
<1>5. ASSUME NEW s \in Requests PROVE TruthfulFor(s)'
  <2>1. answer[s] \in {"created", "badRequest", "conflict"} => s # r
    BY <1>1 DEF Truthful, TruthfulFor
  <2>2. QED
    BY <1>1, <2>1, UntouchedAnswer DEF TypeOK
<1>6. QED
  BY <1>2, <1>3, <1>4, <1>5 DEF Positions, Truthful

LEMMA LoseConnectionKeepsInv ==
    ASSUME CatalogInv, NEW r \in Requests, LoseConnection(r)
    PROVE  CatalogInv'
BY RollbackKeepsInv DEF LoseConnection, At

LEMMA CrashKeepsInv ==
    ASSUME CatalogInv, NEW i \in Instances, Crash(i)
    PROVE  CatalogInv'
<1>. USE DEF CatalogInv
<1>. DEFINE inFlight == {r \in Requests : /\ home[r] = i
                                          /\ pc[r] # "answered"
                                          /\ r \notin abandoned}
            waiting == {r \in inFlight : Blocked(r)}
<1>1. /\ crashes < MaxCrashes
      /\ crashes' = crashes + 1
      /\ counters' = [counters EXCEPT ![i] = ZeroCounters]
      /\ abandoned' = abandoned \cup waiting
      /\ pc' = [r \in Requests |->
                  IF r \in inFlight \ waiting THEN "answered" ELSE pc[r]]
      /\ answer' = [r \in Requests |->
                  IF r \in inFlight THEN "error" ELSE answer[r]]
      /\ UNCHANGED <<products, call, home>>
  BY DEF Crash
<1>. HIDE DEF inFlight
<1>2. \A r \in inFlight : r \in Requests /\ pc[r] # "answered"
                          /\ r \notin abandoned /\ home[r] = i
  BY DEF inFlight
<1>3. TypeOK'
  <2>1. /\ counters' \in [Instances -> [Meters -> Nat]]
        /\ crashes' \in 0..MaxCrashes
    BY <1>1, CatalogAssumption DEF TypeOK, ZeroCounters
  <2>2. /\ pc' \in [Requests -> Statements]
        /\ answer' \in [Requests -> Answers]
        /\ abandoned' \subseteq Requests
    BY <1>1, <1>2 DEF TypeOK, Statements, Answers
  <2>3. QED
    BY <1>1, <2>1, <2>2 DEF TypeOK
<1>4. ASSUME NEW s \in Requests PROVE PositionOf(s)'
  <2>1. CASE s \in inFlight \ waiting
    <3>1. pc'[s] = "answered" /\ s \notin abandoned'
      BY <1>1, <1>2, <2>1 DEF TypeOK
    <3>2. pc[s] # "idle"
      BY <1>2, <2>1, CatalogAssumption DEF Positions, PositionOf
    <3>3. QED
      BY <1>1, <3>1, <3>2 DEF Positions, PositionOf, BeforeCommit, Row, Sku
  <2>2. CASE s \in waiting
    <3>1. pc'[s] = "insert" /\ pc[s] = "insert"
      BY <1>1, <2>2 DEF Blocked
    <3>2. QED
      BY <1>1, <3>1 DEF Positions, PositionOf, Valid, Row, Sku, BeforeCommit
  <2>3. CASE s \notin inFlight
    BY <1>1, <2>3, UntouchedPosition
  <2>4. QED
    BY <2>1, <2>2, <2>3
<1>5. Exclusive' /\ SkusAreUnique'
  BY <1>1, QuietKeepsExclusive
<1>6. ASSUME NEW s \in Requests PROVE TruthfulFor(s)'
  <2>1. CASE s \in inFlight
    BY <1>1, <2>1 DEF TruthfulFor
  <2>2. CASE s \notin inFlight
    BY <1>1, <2>2, UntouchedAnswer
  <2>3. QED
    BY <2>1, <2>2
<1>7. QED
  BY <1>3, <1>4, <1>5, <1>6 DEF Positions, Truthful

LEMMA NextKeepsCatalogInv == CatalogInv /\ [Next]_vars => CatalogInv'
<1>. SUFFICES ASSUME CatalogInv, [Next]_vars PROVE CatalogInv'
  OBVIOUS
<1>1. ASSUME NEW r \in Requests, Arrive(r) PROVE CatalogInv'
  BY <1>1, ReceiveKeepsInv DEF Arrive
<1>2. ASSUME NEW r \in Requests, Progress(r) PROVE CatalogInv'
  BY <1>2, CheckExistsKeepsInv, InsertKeepsInv, CommitKeepsInv,
     AcknowledgeKeepsInv, AbandonedEndsKeepsInv
     DEF Progress
<1>3. CASE UNCHANGED vars
  BY <1>3 DEF vars, CatalogInv, TypeOK, Positions, PositionOf, Exclusive,
              ExclusiveFor, SkusAreUnique, Stored, Truthful, TruthfulFor,
              Exists, Row, Sku, Valid
<1>4. QED
  BY <1>1, <1>2, <1>3, InsertTimeoutKeepsInv, LoseConnectionKeepsInv,
     CrashKeepsInv
     DEF Next

\* Types, positions, exclusive inserts, unique SKUs and true answers are
\* preserved together by every statement, timeout, lost connection and crash
\* (InventoryService.java:35-50).
THEOREM CatalogInvariant == Spec => []CatalogInv
BY InitCatalogInv, NextKeepsCatalogInv, PTL DEF Spec

\* Two products never share a normalised SKU, for any number of instances
\* and of concurrent creations (InventoryService.java:35-50, V1:7).
THEOREM SkusStayUnique == Spec => []SkusAreUnique
BY CatalogInvariant, PTL DEF CatalogInv

\* A created product is there as asked for, a refused one is not, and a
\* duplicate is refused only for a product that is; then and ever after
\* (InventoryController.java:22-26, InventoryService.java:36-49).
THEOREM AnswersStayTrue == Spec => []AnswersAreTrue
<1>1. CatalogInv => AnswersAreTrue
  BY DEF CatalogInv, Truthful, TruthfulFor, AnswersAreTrue
<1>2. QED
  BY <1>1, CatalogInvariant, PTL

\* The rows, the requests and the counters keep their types.
THEOREM CatalogTypes == Spec => []TypeOK
BY CatalogInvariant, PTL DEF CatalogInv

-----------------------------------------------------------------------------
(***************************************************************************)
(* The business metrics follow the catalogue                               *)
(***************************************************************************)

\* Creations whose commit the counters have yet to hear of.
InFlight == {r \in Requests : pc[r] = "committed"}

\* What the creation of a row adds to a counter.
UnitsIn(meter) ==
    [p \in Requests |->
        IF meter = "productsCreated" THEN 1 ELSE products[p].quantity]

MeterIn(meter) == [i \in Instances |-> counters[i][meter]]

CountedIn(meter) == SumFunctionOnSet(MeterIn(meter), Instances)
Owed(meter) == SumFunctionOnSet(UnitsIn(meter), InFlight)
Held(meter) == SumFunctionOnSet(UnitsIn(meter), Stored)

Undisturbed == crashes = 0 /\ \A r \in Requests : answer[r] # "error"

\* What the counters say and what they are about to be told is no more than
\* the rows hold, and as much as long as nothing was lost.
Balanced(meter) ==
    /\ CountedIn(meter) + Owed(meter) <= Held(meter)
    /\ Undisturbed => CountedIn(meter) + Owed(meter) = Held(meter)

\* Only a request that has ended, or lost its client, was answered an error.
ErrorsInv ==
    \A r \in Requests :
        answer[r] = "error" => pc[r] = "answered" \/ r \in abandoned

CountersInv ==
    /\ ErrorsInv
    /\ IsFiniteSet(Stored)
    /\ \A meter \in Meters : Balanced(meter)

\* All that is summed is natural, over finite sets.
SummableIn(meter) ==
    /\ \A i \in Instances : /\ MeterIn(meter)[i] = counters[i][meter]
                            /\ MeterIn(meter)[i] \in Nat
    /\ InFlight \subseteq Stored /\ IsFiniteSet(InFlight)
    /\ \A p \in Stored : UnitsIn(meter)[p] \in Nat
    /\ CountedIn(meter) \in Nat
    /\ Owed(meter) \in Nat
    /\ Held(meter) \in Nat

FiniteCatalogInv == CatalogInv /\ IsFiniteSet(Stored)
Summable == \A meter \in Meters : SummableIn(meter)

LEMMA SumsAreNatural == FiniteCatalogInv => Summable
<1> SUFFICES ASSUME CatalogInv, IsFiniteSet(Stored), NEW meter \in Meters
             PROVE  SummableIn(meter)
  BY DEF FiniteCatalogInv, Summable
<1>1. \A i \in Instances : /\ MeterIn(meter)[i] = counters[i][meter]
                           /\ MeterIn(meter)[i] \in Nat
  BY DEF CatalogInv, TypeOK, MeterIn
<1>2. \A p \in Stored : UnitsIn(meter)[p] \in Nat
  <2>1. \A p \in Stored : products[p].quantity \in Nat
    BY CatalogAssumption DEF CatalogInv, TypeOK, Stored, Rows
  <2> QED
    BY <2>1 DEF UnitsIn, Stored
<1>3. InFlight \subseteq Stored
  <2>1. ASSUME NEW r \in InFlight PROVE products[r] \in Rows
    <3>1. products[r] = Row(r) /\ Valid(call[r]) /\ call[r] \in Calls
      BY DEF InFlight, CatalogInv, Positions, PositionOf
    <3> QED
      BY <3>1, RowsAreTyped DEF Row, Sku
  <2> QED
    BY <2>1, CatalogAssumption DEF InFlight, Stored
<1>4. IsFiniteSet(InFlight)
  BY <1>3, FS_Subset
<1>5. CountedIn(meter) \in Nat
  BY <1>1, FleetAssumption, SumIsNatural DEF CountedIn
<1>6. Owed(meter) \in Nat /\ Held(meter) \in Nat
  BY <1>2, <1>3, <1>4, SumIsNatural DEF Owed, Held
<1> QED
  BY <1>1, <1>2, <1>3, <1>4, <1>5, <1>6 DEF SummableIn

LEMMA SumsStayNatural == FiniteCatalogInv' => Summable'
BY SumsAreNatural, PTL

\* A step that commits nothing and counts nothing: requests in flight may be
\* lost and counters may be reset, and then the run is no longer undisturbed.
Quiet ==
    /\ UNCHANGED products
    /\ InFlight' \subseteq InFlight
    /\ \A i \in Instances :
          counters'[i] = counters[i] \/ counters'[i] = ZeroCounters
    /\ Undisturbed' => /\ Undisturbed
                       /\ InFlight' = InFlight
                       /\ counters' = counters

LEMMA QuietKeepsCounters ==
    ASSUME CatalogInv, CatalogInv', CountersInv, Quiet, ErrorsInv'
    PROVE  CountersInv'
<1>1. UNCHANGED <<products, Stored>> /\ IsFiniteSet(Stored)'
  BY DEF Quiet, Stored, CountersInv
<1>2. ASSUME NEW meter \in Meters PROVE Balanced(meter)'
  <2>1. SummableIn(meter) /\ SummableIn(meter)'
    BY <1>1, SumsAreNatural, SumsStayNatural
       DEF FiniteCatalogInv, Summable, CountersInv
  <2>2. UnitsIn(meter)' = UnitsIn(meter) /\ Held(meter)' = Held(meter)
    BY <1>1 DEF UnitsIn, Held
  <2>3. CountedIn(meter)' <= CountedIn(meter)
    <3>1. \A i \in Instances : MeterIn(meter)'[i] <= MeterIn(meter)[i]
      <4>1. ZeroCounters[meter] = 0
        BY DEF ZeroCounters
      <4> QED
        BY <2>1, <4>1 DEF Quiet, SummableIn
    <3> QED
      BY <2>1, <3>1, FleetAssumption, SumIsMonotone DEF CountedIn, SummableIn
  <2>4. Owed(meter)' <= Owed(meter)
    <3>1. \A r \in InFlight : UnitsIn(meter)[r] \in Nat
      BY <2>1 DEF SummableIn
    <3>2. \A r \in InFlight' : UnitsIn(meter)[r] <= UnitsIn(meter)[r]
      BY <3>1 DEF Quiet
    <3> QED
      BY <2>1, <2>2, <3>1, <3>2, SumIsMonotone DEF Owed, SummableIn, Quiet
  <2>5. Undisturbed' => /\ Undisturbed
                        /\ CountedIn(meter)' = CountedIn(meter)
                        /\ Owed(meter)' = Owed(meter)
    BY <2>2 DEF Quiet, CountedIn, MeterIn, Owed
  <2>6. Balanced(meter)
    BY DEF CountersInv
  <2> QED
    BY <2>1, <2>2, <2>3, <2>4, <2>5, <2>6 DEF Balanced, SummableIn
<1> QED
  BY <1>1, <1>2 DEF CountersInv

\* A commit adds a row and owes it to the counters.
LEMMA CommitKeepsCounters ==
    ASSUME CatalogInv, CatalogInv', CountersInv, NEW r \in Requests, Commit(r)
    PROVE  CountersInv'
<1>1. /\ pc[r] = "commit" /\ r \notin abandoned
      /\ UNCHANGED <<call, abandoned, answer, counters, crashes>>
      /\ \A s \in Requests \ {r} : pc'[s] = pc[s] /\ products'[s] = products[s]
      /\ pc'[r] = "committed" /\ products'[r] = Row(r)
  BY DEF Commit, At, CatalogInv, TypeOK
<1>2. r \notin Stored /\ r \notin InFlight /\ InFlight' = InFlight \cup {r}
  BY <1>1 DEF CatalogInv, Positions, PositionOf, BeforeCommit, Stored, InFlight
<1>3. Stored' = Stored \cup {r}
  <2>1. Row(r) \in Rows
    BY <1>1, RowsAreTyped DEF CatalogInv, Positions, PositionOf, Row, Sku
  <2> QED
    BY <1>1, <2>1, CatalogAssumption DEF Stored
<1>4. ErrorsInv' /\ (Undisturbed' <=> Undisturbed)
  BY <1>1 DEF ErrorsInv, CountersInv, Undisturbed
<1>5. IsFiniteSet(Stored)'
  BY <1>3, FS_AddElement DEF CountersInv
<1>6. ASSUME NEW meter \in Meters PROVE Balanced(meter)'
  <2> DEFINE unit == UnitsIn(meter)'[r]
  <2>1. SummableIn(meter) /\ SummableIn(meter)'
    BY <1>5, SumsAreNatural, SumsStayNatural
       DEF FiniteCatalogInv, Summable, CountersInv
  <2>2. /\ \A p \in Stored : UnitsIn(meter)'[p] = UnitsIn(meter)[p]
        /\ \A p \in Stored : UnitsIn(meter)'[p] \in Nat
        /\ unit \in Nat /\ InFlight \subseteq Stored
    BY <1>1, <1>2, <1>3, <2>1 DEF UnitsIn, SummableIn, Stored
  <2>3. CountedIn(meter)' = CountedIn(meter)
    BY <1>1 DEF CountedIn, MeterIn
  <2> HIDE DEF unit
  <2>4. Held(meter)' = Held(meter) + unit
    <3>1. Held(meter)' = SumFunctionOnSet(UnitsIn(meter)', Stored) + unit
      BY <1>2, <1>3, <2>2, SumWithElement DEF Held, CountersInv, unit
    <3>2. SumFunctionOnSet(UnitsIn(meter)', Stored) = Held(meter)
      BY <2>2, SumDependsOnValues DEF Held, CountersInv
    <3> QED
      BY <3>1, <3>2
  <2>5. Owed(meter)' = Owed(meter) + unit
    <3>1. IsFiniteSet(InFlight) /\ \A p \in InFlight :
            UnitsIn(meter)'[p] \in Nat /\ UnitsIn(meter)'[p] = UnitsIn(meter)[p]
      BY <2>1, <2>2 DEF SummableIn
    <3>2. Owed(meter)' = SumFunctionOnSet(UnitsIn(meter)', InFlight) + unit
      BY <1>2, <2>2, <3>1, SumWithElement DEF Owed, unit
    <3>3. SumFunctionOnSet(UnitsIn(meter)', InFlight) = Owed(meter)
      BY <3>1, SumDependsOnValues DEF Owed
    <3> QED
      BY <3>2, <3>3
  <2>6. Balanced(meter)
    BY DEF CountersInv
  <2> QED
    BY <1>4, <2>1, <2>2, <2>3, <2>4, <2>5, <2>6 DEF Balanced, SummableIn
<1> QED
  BY <1>4, <1>5, <1>6 DEF CountersInv

\* An acknowledged commit moves from what is owed to what is counted.
LEMMA AcknowledgeKeepsCounters ==
    ASSUME CatalogInv, CatalogInv', CountersInv, NEW r \in Requests,
           Acknowledge(r)
    PROVE  CountersInv'
<1> DEFINE i == home[r]
<1>1. /\ pc[r] = "committed" /\ r \notin abandoned /\ i \in Instances
      /\ UNCHANGED <<products, call, abandoned, crashes>>
      /\ \A s \in Requests \ {r} : pc'[s] = pc[s] /\ answer'[s] = answer[s]
      /\ pc'[r] = "answered" /\ answer'[r] = "created"
      /\ counters'[i] = Counted(counters[i], call[r].quantity)
      /\ \A j \in Instances \ {i} : counters'[j] = counters[j]
  BY DEF Acknowledge, Respond, At, CatalogInv, TypeOK, Positions, PositionOf
<1>2. r \in InFlight /\ InFlight' = InFlight \ {r} /\ Stored' = Stored
  BY <1>1 DEF InFlight, Stored
<1>3. answer[r] # "error"
  BY <1>1 DEF CountersInv, ErrorsInv
<1>4. ErrorsInv' /\ (Undisturbed' => Undisturbed)
  BY <1>1, <1>3 DEF ErrorsInv, CountersInv, Undisturbed
<1>5. IsFiniteSet(Stored)'
  BY <1>2 DEF CountersInv
<1>6. ASSUME NEW meter \in Meters PROVE Balanced(meter)'
  <2> DEFINE unit == UnitsIn(meter)[r]
  <2>1. SummableIn(meter) /\ SummableIn(meter)'
    BY <1>5, SumsAreNatural, SumsStayNatural
       DEF FiniteCatalogInv, Summable, CountersInv
  <2>2. UnitsIn(meter)' = UnitsIn(meter) /\ Held(meter)' = Held(meter)
    BY <1>1, <1>2 DEF UnitsIn, Held
  <2>3. unit \in Nat
    BY <1>2, <2>1 DEF SummableIn
  <2>4. counters'[i][meter] = counters[i][meter] + unit
    <3>1. products[r].quantity = call[r].quantity
      <4>1. products[r] = Row(r)
        BY <1>1 DEF CatalogInv, Positions, PositionOf
      <4> QED
        BY <4>1 DEF Row
    <3>2. meter \in {"productsCreated", "stockAdded"}
      BY DEF Meters
    <3> QED
      BY <1>1, <3>1, <3>2 DEF Counted, UnitsIn
  <2>5. CountedIn(meter)' = CountedIn(meter) + unit
    <3>1. \A j \in Instances \ {i} : MeterIn(meter)'[j] = MeterIn(meter)[j]
      BY <1>1 DEF MeterIn
    <3>2. CountedIn(meter)' + MeterIn(meter)[i]
            = CountedIn(meter) + MeterIn(meter)'[i]
      BY <1>1, <2>1, <3>1, FleetAssumption, SumChangesWithValue
         DEF CountedIn, SummableIn
    <3>3. /\ MeterIn(meter)'[i] = MeterIn(meter)[i] + unit
          /\ MeterIn(meter)[i] \in Nat
      BY <1>1, <2>1, <2>4 DEF SummableIn
    <3> HIDE DEF unit
    <3> QED
      BY <2>1, <2>3, <3>2, <3>3 DEF SummableIn
  <2>6. Owed(meter) = unit + Owed(meter)'
    BY <1>2, <2>1, <2>2, SumWithoutElement DEF Owed, SummableIn
  <2>7. Balanced(meter)
    BY DEF CountersInv
  <2> HIDE DEF unit
  <2> QED
    BY <1>4, <2>1, <2>2, <2>3, <2>5, <2>6, <2>7 DEF Balanced, SummableIn
<1> QED
  BY <1>4, <1>5, <1>6 DEF CountersInv

\* A request with a client moves on, or ends with a response, without having
\* committed.
Moves(r) ==
    /\ pc[r] \notin {"committed", "answered"} /\ r \notin abandoned
    /\ UNCHANGED <<products, abandoned, counters, crashes>>
    /\ \E s \in Statements \ {"committed"} :
          /\ pc' = [pc EXCEPT ![r] = s]
          /\ \/ UNCHANGED answer
             \/ /\ s = "answered"
                /\ \E status : answer' = [answer EXCEPT ![r] = status]

LEMMA MovesAreQuiet ==
    ASSUME CatalogInv, ErrorsInv, NEW r \in Requests, Moves(r)
    PROVE  Quiet /\ ErrorsInv'
<1>1. UNCHANGED <<products, abandoned, counters, crashes>>
  BY DEF Moves
<1>2. InFlight' = InFlight
  BY DEF Moves, InFlight, CatalogInv, TypeOK
<1>3. \A q \in Requests \ {r} : answer'[q] = answer[q] /\ pc'[q] = pc[q]
  BY DEF Moves, CatalogInv, TypeOK
<1>4. answer[r] # "error"
  BY DEF Moves, ErrorsInv
<1>5. answer'[r] = answer[r] \/ pc'[r] = "answered"
  BY DEF Moves, CatalogInv, TypeOK
<1>6. Undisturbed' => Undisturbed
  BY <1>1, <1>3, <1>4 DEF Undisturbed
<1>7. ErrorsInv'
  BY <1>1, <1>3, <1>4, <1>5 DEF ErrorsInv
<1> QED
  BY <1>1, <1>2, <1>6, <1>7 DEF Quiet

LEMMA StepsAreQuiet ==
    ASSUME CatalogInv, ErrorsInv, [Next]_vars
    PROVE  \/ Quiet /\ ErrorsInv'
           \/ \E r \in Requests : Commit(r) \/ Acknowledge(r)
<1>1. ASSUME NEW r \in Requests, Arrive(r) PROVE Moves(r)
  <2>1. pc[r] = "idle" /\ r \notin abandoned
    BY <1>1 DEF Arrive, Receive, CatalogInv, Positions, PositionOf
  <2> QED
    BY <1>1, <2>1 DEF Arrive, Receive, Respond, Moves, Statements
<1>2. ASSUME NEW r \in Requests, CheckExists(r) \/ Insert(r) PROVE Moves(r)
  BY <1>2
     DEF CheckExists, Insert, At, Rollback, Respond, Goto, Moves, Statements
<1>3. ASSUME NEW r \in Requests, InsertTimeout(r) PROVE Quiet /\ ErrorsInv'
  BY <1>3
     DEF InsertTimeout, Quiet, Undisturbed, InFlight, ErrorsInv, CatalogInv,
         TypeOK
<1>4. ASSUME NEW r \in Requests, LoseConnection(r)
      PROVE  Quiet /\ ErrorsInv'
  BY <1>4
     DEF LoseConnection, Rollback, Respond, Quiet, Undisturbed, InFlight,
         ErrorsInv, CatalogInv, TypeOK
<1>5. ASSUME NEW r \in Requests, AbandonedEnds(r) PROVE Quiet /\ ErrorsInv'
  <2>1. pc[r] = "insert"
    BY <1>5 DEF AbandonedEnds, CatalogInv, Positions, PositionOf
  <2> QED
    BY <1>5, <2>1
       DEF AbandonedEnds, Quiet, Undisturbed, InFlight, ErrorsInv, CatalogInv,
           TypeOK
<1>6. ASSUME NEW i \in Instances, Crash(i) PROVE Quiet /\ ErrorsInv'
  <2>1. /\ UNCHANGED products
        /\ crashes' = crashes + 1 /\ crashes \in Nat
        /\ \A j \in Instances : \/ counters'[j] = counters[j]
                                \/ counters'[j] = ZeroCounters
    BY <1>6, CatalogAssumption DEF Crash, CatalogInv, TypeOK
  <2>2. \A r \in Requests :
            /\ pc'[r] = pc[r] \/ pc'[r] = "answered"
            /\ r \in abandoned => r \in abandoned'
            /\ \/ answer'[r] = answer[r]
               \/ pc'[r] = "answered" \/ r \in abandoned'
            /\ pc[r] = "answered" => pc'[r] = "answered"
    BY <1>6 DEF Crash
  <2> QED
    BY <2>1, <2>2 DEF Quiet, Undisturbed, InFlight, ErrorsInv
<1>7. CASE UNCHANGED vars
  BY <1>7 DEF vars, Quiet, Undisturbed, InFlight, ErrorsInv
<1>8. CASE Next
  BY <1>1, <1>2, <1>3, <1>4, <1>5, <1>6, <1>8, MovesAreQuiet
     DEF Next, Progress
<1> QED
  BY <1>7, <1>8

LEMMA InitCounters == Init => CountersInv
<1> SUFFICES ASSUME Init PROVE CountersInv
  OBVIOUS
<1>1. InFlight = {} /\ Stored = {} /\ ErrorsInv /\ IsFiniteSet(Stored)
  BY FS_EmptySet DEF Init, InFlight, Stored, ErrorsInv
<1>2. ASSUME NEW meter \in Meters PROVE Balanced(meter)
  <2>1. Owed(meter) = 0 /\ Held(meter) = 0
    BY <1>1, SumOfNothing DEF Owed, Held
  <2>2. \A i \in Instances : MeterIn(meter)[i] = 0
    BY DEF Init, MeterIn, ZeroCounters
  <2>3. CountedIn(meter) = 0
    BY <2>2, FleetAssumption, SumOfZeros DEF CountedIn
  <2> QED
    BY <2>1, <2>3 DEF Balanced
<1> QED
  BY <1>1, <1>2 DEF CountersInv

\* However many instances and requests there are, and whatever is lost, the
\* counters never run ahead of the rows, and without a loss they lag only by
\* the commits still to be acknowledged (InventoryMetrics.java:32-37, 70-83).
THEOREM CountersStayTrue == Spec => []CountersFollowCatalog
<1>1. Init => CountersInv
  BY InitCounters
<1>2. CatalogInv /\ CatalogInv' /\ CountersInv /\ [Next]_vars => CountersInv'
  BY StepsAreQuiet, QuietKeepsCounters, CommitKeepsCounters,
     AcknowledgeKeepsCounters DEF CountersInv
<1>3. CatalogInv /\ CountersInv => CountersFollowCatalog
  <2> SUFFICES ASSUME CatalogInv, CountersInv PROVE CountersFollowCatalog
    OBVIOUS
  <2> DEFINE quantities == [p \in Stored |-> products[p].quantity]
             figures == [productsCreated |-> Cardinality(Stored),
                         stockAdded |-> SumFunction(quantities)]
             undisturbed ==
                /\ crashes = 0
                /\ \A r \in Requests :
                      pc[r] # "committed" /\ answer[r] # "error"
  <2>1. ASSUME NEW meter \in Meters PROVE figures[meter] = Held(meter)
    <3>1. CASE meter = "productsCreated"
      <4>1. \A p \in Stored : UnitsIn(meter)[p] = 1
        BY <3>1 DEF UnitsIn, Stored
      <4> QED
        BY <3>1, <4>1, SumOfOnes DEF Held, CountersInv
    <3>2. CASE meter = "stockAdded"
      <4>1. \A p \in Stored : UnitsIn(meter)[p] = quantities[p]
        BY <3>2 DEF UnitsIn, Stored
      <4>2. SumFunctionOnSet(UnitsIn(meter), Stored)
              = SumFunctionOnSet(quantities, Stored)
        BY <4>1, SumDependsOnValues DEF CountersInv
      <4> QED
        BY <3>2, <4>2 DEF Held, SumFunction
    <3> QED
      BY <3>1, <3>2 DEF Meters
  <2>2. ASSUME NEW meter \in Meters
        PROVE  /\ Total(meter) <= figures[meter]
               /\ undisturbed => Total(meter) = figures[meter]
    <3>1. SummableIn(meter)
      BY SumsAreNatural DEF FiniteCatalogInv, Summable, CountersInv
    <3>2. Total(meter) = CountedIn(meter)
      BY DEF Total, CountedIn, MeterIn, SumFunction
    <3>3. undisturbed => Undisturbed /\ Owed(meter) = 0
      <4>1. undisturbed => Undisturbed /\ InFlight = {}
        BY DEF Undisturbed, InFlight
      <4> QED
        BY <4>1, SumOfNothing DEF Owed
    <3>4. Balanced(meter)
      BY DEF CountersInv
    <3> HIDE DEF undisturbed, figures
    <3> QED
      BY <2>1, <3>1, <3>2, <3>3, <3>4 DEF Balanced, SummableIn
  <2> QED
    BY <2>2 DEF CountersFollowCatalog
<1> QED
  BY <1>1, <1>2, <1>3, CatalogInvariant, PTL DEF Spec

-----------------------------------------------------------------------------
(***************************************************************************)
(* Creations are atomic for their clients                                  *)
(***************************************************************************)

\* A request has an answer from its end, or from the loss of its client, on.
ClientFor(r) ==
    /\ pc[r] = "idle" => call[r] = NoCall /\ answer[r] = "none"
    /\ answer[r] # "none" <=> pc[r] = "answered" \/ r \in abandoned

ClientInv == \A r \in Requests : ClientFor(r)

LEMMA ClientInvInductive ==
    ASSUME CatalogInv, ClientInv, [Next]_vars
    PROVE  ClientInv'
<1>. USE DEF CatalogInv, TypeOK
<1>1. ASSUME NEW r \in Requests, Arrive(r) \/ CheckExists(r) \/ Insert(r)
                                 \/ LoseConnection(r)
      PROVE  ClientInv'
  <2>1. r \notin abandoned
    BY <1>1 DEF Arrive, Receive, CheckExists, Insert, LoseConnection, At,
                Positions, PositionOf
  <2> QED
    BY <1>1, <2>1
       DEF Arrive, Receive, CheckExists, Insert, LoseConnection, At, Rollback,
           Respond, Goto, ClientInv, ClientFor
<1>2. ASSUME NEW r \in Requests, Commit(r) \/ Acknowledge(r)
      PROVE  ClientInv'
  BY <1>2 DEF Commit, Acknowledge, At, Respond, ClientInv, ClientFor
<1>3. ASSUME NEW r \in Requests, InsertTimeout(r) \/ AbandonedEnds(r)
      PROVE  ClientInv'
  BY <1>3
     DEF InsertTimeout, AbandonedEnds, At, Positions, PositionOf, ClientInv,
         ClientFor
<1>4. ASSUME NEW i \in Instances, Crash(i) PROVE ClientInv'
  BY <1>4, CatalogAssumption
     DEF Crash, Blocked, Positions, PositionOf, ClientInv, ClientFor
<1>5. CASE UNCHANGED vars
  BY <1>5 DEF vars, ClientInv, ClientFor
<1>6. QED
  BY <1>1, <1>2, <1>3, <1>4, <1>5 DEF Next, Progress

\* A request whose client waits, seen from the abstract specification.
LEMMA UnfinishedWaits ==
    ASSUME CatalogInv, ClientInv, NEW r \in Requests, r \notin abandoned,
           pc[r] \notin {"idle", "answered"}
    PROVE  Atomic!Waiting(r)
BY CatalogAssumption
   DEF CatalogInv, Positions, PositionOf, ClientInv, ClientFor, Atomic!Waiting

LEMMA SameCatalog ==
    /\ Atomic!Stored = Stored
    /\ \A r \in Requests : Atomic!Sku(r) = Sku(r)
    /\ \A sku : Atomic!Taken(sku) <=> Exists(sku)
BY DEF Atomic!Stored, Atomic!Sku, Atomic!Taken, Stored, Sku, Exists

LEMMA ReceiveAsks ==
    ASSUME CatalogInv, ClientInv, NEW r \in Requests, NEW i \in Instances,
           NEW o \in Calls, Receive(r, i, o)
    PROVE  Atomic!Ask(r, o)
BY DEF Receive, Respond, Valid, ClientInv, ClientFor, Atomic!Ask

\* Found by the lookup or by the index, the other product is there now.
LEMMA DuplicateIsRefused ==
    ASSUME CatalogInv, ClientInv, NEW r \in Requests, r \notin abandoned,
           pc[r] \in {"exists", "insert"}, Exists(Sku(r)),
           Rollback(r, "conflict")
    PROVE  Atomic!Refuse(r)
<1>1. r \notin Stored
  BY DEF CatalogInv, Positions, PositionOf, BeforeCommit, Stored
<1> QED
  BY <1>1, UnfinishedWaits, SameCatalog
     DEF Rollback, Respond, Atomic!Refuse, Atomic!Respond

\* A product is there from its commit, when no other can have its SKU.
LEMMA CommitCreates ==
    ASSUME CatalogInv, ClientInv, NEW r \in Requests, Commit(r)
    PROVE  Atomic!Create(r)
<1>1. pc[r] = "commit" /\ r \notin abandoned
  BY DEF Commit, At
<1>2. r \notin Stored /\ ~Exists(Sku(r))
  BY <1>1
     DEF CatalogInv, Positions, PositionOf, BeforeCommit, Exclusive,
         ExclusiveFor, Stored
<1> QED
  BY <1>1, <1>2, UnfinishedWaits, SameCatalog
     DEF Commit, Row, Atomic!Create

LEMMA AcknowledgeConfirms ==
    ASSUME CatalogInv, ClientInv, NEW r \in Requests, Acknowledge(r)
    PROVE  Atomic!Confirm(r)
<1>1. pc[r] = "committed" /\ r \notin abandoned
  BY DEF Acknowledge, At
<1>2. r \in Stored
  <2>1. products[r] = Row(r) /\ Row(r) \in Rows
    BY <1>1, RowsAreTyped DEF CatalogInv, Positions, PositionOf, Row, Sku
  <2> QED
    BY <2>1, CatalogAssumption DEF Stored
<1> QED
  BY <1>1, <1>2, UnfinishedWaits, SameCatalog
     DEF Acknowledge, Respond, Atomic!Confirm, Atomic!Respond

LEMMA LossFails ==
    ASSUME CatalogInv, ClientInv, NEW r \in Requests,
           InsertTimeout(r) \/ LoseConnection(r)
    PROVE  Atomic!Fail({r})
<1>1. pc[r] \notin {"idle", "answered"} /\ r \notin abandoned
  BY DEF InsertTimeout, LoseConnection, At
<1>2. answer' = [s \in Requests |-> IF s \in {r} THEN "error" ELSE answer[s]]
  BY DEF InsertTimeout, LoseConnection, Rollback, Respond, CatalogInv, TypeOK
<1> QED
  BY <1>1, <1>2, UnfinishedWaits
     DEF InsertTimeout, LoseConnection, Rollback, Atomic!Fail

LEMMA CrashFails ==
    ASSUME CatalogInv, ClientInv, NEW i \in Instances, Crash(i)
    PROVE  \E R \in SUBSET Requests : Atomic!Fail(R)
<1> DEFINE inFlight == {r \in Requests : /\ home[r] = i
                                         /\ pc[r] # "answered"
                                         /\ r \notin abandoned}
<1>1. \A r \in inFlight : Atomic!Waiting(r)
  BY UnfinishedWaits, CatalogAssumption DEF CatalogInv, Positions, PositionOf
<1>2. Atomic!Fail(inFlight)
  BY <1>1 DEF Crash, Atomic!Fail
<1> QED
  BY <1>2

\* Whatever interleaves, times out or crashes, for any number of clients and
\* instances: a product appears at one instant between its request and its
\* response and is refused only while its SKU is taken
\* (InventoryController.java:22-26, InventoryService.java:35-50).
THEOREM CreationsStayAtomic == Spec => CreationsAreAtomic
<1>1. Init => ClientInv /\ Atomic!Init
  BY DEF Init, ClientInv, ClientFor, Atomic!Init
<1>2. CatalogInv /\ ClientInv /\ [Next]_vars => ClientInv'
  BY ClientInvInductive
<1>3. CatalogInv /\ ClientInv /\ [Next]_vars => [Atomic!Next]_(Atomic!vars)
  <2> SUFFICES ASSUME CatalogInv, ClientInv, [Next]_vars
               PROVE  Atomic!Next \/ UNCHANGED Atomic!vars
    OBVIOUS
  <2>1. ASSUME NEW r \in Requests, Arrive(r) PROVE Atomic!Next
    BY <2>1, ReceiveAsks DEF Arrive, Atomic!Next
  <2>2. ASSUME NEW r \in Requests, CheckExists(r) \/ Insert(r)
        PROVE  Atomic!Next \/ UNCHANGED Atomic!vars
    BY <2>2, DuplicateIsRefused
       DEF CheckExists, Insert, At, Goto, Atomic!Next, Atomic!vars
  <2>3. ASSUME NEW r \in Requests, Commit(r) \/ Acknowledge(r)
        PROVE  Atomic!Next
    BY <2>3, CommitCreates, AcknowledgeConfirms DEF Atomic!Next
  <2>4. ASSUME NEW r \in Requests, InsertTimeout(r) \/ LoseConnection(r)
        PROVE  Atomic!Next
    <3>1. Atomic!Fail({r}) /\ {r} \in SUBSET Requests
      BY <2>4, LossFails
    <3> QED
      BY <3>1 DEF Atomic!Next
  <2>5. ASSUME NEW r \in Requests, AbandonedEnds(r)
        PROVE  UNCHANGED Atomic!vars
    BY <2>5 DEF AbandonedEnds, Atomic!vars
  <2>6. ASSUME NEW i \in Instances, Crash(i) PROVE Atomic!Next
    BY <2>6, CrashFails DEF Atomic!Next
  <2>7. CASE UNCHANGED vars
    BY <2>7 DEF vars, Atomic!vars
  <2> QED
    BY <2>1, <2>2, <2>3, <2>4, <2>5, <2>6, <2>7 DEF Next, Progress
<1> QED
  BY <1>1, <1>2, <1>3, CatalogInvariant, PTL
     DEF Spec, CreationsAreAtomic, Atomic!Spec
=============================================================================
