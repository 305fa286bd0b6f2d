------------------------------ MODULE ToolsProofs ------------------------------
(***************************************************************************)
(* Proofs about Tools: for every value of the constants of all six parts.  *)
(*                                                                         *)
(* Each part has an invariant of its own, which its initial states and the *)
(* idle state satisfy and its steps keep.                                  *)
(*                                                                         *)
(* LoadInv: each request a worker took is with the worker or among the     *)
(* samples, once (Counted), and an answer is what the service decided      *)
(* (Answered), so that the successes of a test that passes are the         *)
(* reservations stored.                                                    *)
(*                                                                         *)
(* BatchInv: every answer is of a record that is, or was, stored (Stored); *)
(* if the replicas share one lock, its holder has read what is still there *)
(* and all answers fit one order of the transactions (Serial); the main    *)
(* thread judges only when all others have ended (Threading).              *)
(*                                                                         *)
(* ExtractionInv: what the gate has not found wrong with an image so far   *)
(* (Inspected), and which containers there are: ours and none with its     *)
(* name, once it was found (Known).                                        *)
(*                                                                         *)
(* PreflightInv: every check made so far has failed, or has found what is  *)
(* right in the account expected (ChecksMade).                             *)
(*                                                                         *)
(* ListingInv, in PagedListingProofs.                                      *)
(*                                                                         *)
(* RoleInv: only one job at a time has an open transaction that has        *)
(* written the role (Writers), so that nobody changes the role beneath it; *)
(* the draft it commits is the role of that job and no other (Drafts), of  *)
(* a role that was acceptable (Safe); and a job that is past its           *)
(* migrations finds them applied (Migrated).                               *)
(***************************************************************************)
EXTENDS Tools, FiniteSetTheorems, TLAPS

ListingProofs == INSTANCE PagedListingProofs WITH step <- listStep

-----------------------------------------------------------------------------
(* The workers of the load test.                                           *)

\* Counting in LoadTest is counting here.
LEMMA LoadCounts ==
    /\ \A S : Load!Cardinality(S) = Cardinality(S)
    /\ \A S : Load!IsFiniteSet(S) <=> IsFiniteSet(S)
BY DEF Load!Cardinality, Cardinality, Load!IsFiniteSet, IsFiniteSet

\* Who has which job, and what became of the requests.
Counted ==
    /\ \A v, w \in Workers : job[v] # 0 /\ job[v] = job[w] => v = w
    /\ \A w \in Workers : \A s \in samples : job[w] # s.index
    /\ \A s, t \in samples : s.index = t.index => s = t
    /\ \A w \in done : job[w] = 0
    /\ \A i \in Load!Jobs : loadRequest[i] = "none" <=> i > cursor
    /\ \A s \in samples :
           s.status # "transport error" => loadRequest[s.index] = s.status
    /\ report # "none" => done = Workers
    /\ done # {} => cursor = Load!Requests \/ expired
    /\ IsFiniteSet(samples)
    /\ Load!EveryJobIsCountedOnce

\* What the service has answered is what it has stored.
Answered ==
    /\ \A i \in Load!Jobs : loadRequest[i] # "transport error"
    /\ stored = {i \in Load!Jobs : loadRequest[i] = "201"}
    /\ \A i \in Load!Jobs :
           /\ loadRequest[i] = "read" => service = "racy"
           /\ i <= Reservations => loadRequest[i] # "200"
           /\ i > Reservations =>
                  loadRequest[i] \in {"none", "sent", "200", "other"}
    /\ service = "atomic" => loadStock + Cardinality(stored) = LoadStock
    /\ service = "atomic" =>
           \A i \in Load!Jobs : loadRequest[i] = "409 stock" => loadStock = 0

\* An answer other than these is a trouble.
Troubles ==
    ~loadTroubled =>
        /\ \A i \in Load!Jobs : loadRequest[i] # "other"
        /\ \A s \in samples : s.status # "transport error"

\* What was read at the end is still so, unless somebody has given up.
Final ==
    /\ report \in {"read", "counted", "passed"}
         /\ Load!With("transport error") = {} => finalStock = loadStock
    /\ report \in {"counted", "passed"}
         /\ Load!With("transport error") = {} => finalCount = Cardinality(stored)
    /\ report = "passed" => Load!Meets

LoadInv ==
    /\ Load!TypeOK
    /\ Counted
    /\ Answered
    /\ Troubles
    /\ Final
    /\ Load!NoFalseAlarm

LEMMA LoadSizes ==
    ASSUME Load!LoadAssumption
    PROVE  /\ Load!Requests \in Nat /\ Reservations \in Nat /\ LoadStock \in Nat
           /\ Reservations <= Load!Requests /\ LoadStock < Reservations
           /\ IsFiniteSet(Load!Jobs) /\ Cardinality(Load!Jobs) = Load!Requests
<1>1. Load!Requests \in Nat /\ Reservations <= Load!Requests
  BY DEF Load!LoadAssumption, Load!Requests
<1>2. IsFiniteSet(1..Load!Requests) /\ Cardinality(1..Load!Requests) = Load!Requests
  BY <1>1, FS_Interval
<1>3. QED
  BY <1>1, <1>2 DEF Load!LoadAssumption, Load!Jobs

\* A test that has not begun, and one that has failed and done nothing.
LEMMA UntouchedLoad ==
    ASSUME Load!LoadAssumption,
           cursor = 0, job = [w \in Workers |-> 0], samples = {},
           finalStock = Load!Unread, finalCount = 0,
           service \in {"atomic", "racy"},
           loadRequest = [i \in Load!Jobs |-> "none"],
           loadSeen = [i \in Load!Jobs |-> Load!Unread],
           loadStock = LoadStock, stored = {},
           \/ /\ done = {} /\ report = "none"
              /\ expired = FALSE /\ loadTroubled = FALSE
           \/ /\ done = Workers /\ report = "failed"
              /\ expired = TRUE /\ loadTroubled = TRUE
    PROVE  LoadInv
<1>1. Load!TypeOK
  <2>1. /\ Load!Requests \in Nat /\ Load!Unread \in Nat
        /\ LoadStock \in 0..LoadStock /\ Load!Unread \in 0..Load!Unread
    BY LoadSizes DEF Load!Unread
  <2>2. /\ cursor \in 0..Load!Requests /\ finalStock \in 0..Load!Unread
        /\ loadSeen \in [Load!Jobs -> 0..Load!Unread]
    BY <2>1
  <2>3. QED
    BY <2>1, <2>2 DEF Load!TypeOK, Load!Statuses
<1>2. Counted
  <2>1. Load!Held = {} /\ samples = {} /\ cursor = 0 /\ 1..cursor = {}
    BY DEF Load!Held
  <2>2. Cardinality({}) = 0 /\ IsFiniteSet({})
    BY FS_EmptySet
  <2>3. Load!EveryJobIsCountedOnce
    BY <2>1, <2>2, LoadCounts DEF Load!EveryJobIsCountedOnce
  <2>4. \A i \in Load!Jobs : i > 0
    BY LoadSizes DEF Load!Jobs
  <2>5. QED
    BY <2>1, <2>2, <2>3, <2>4 DEF Counted
<1>3. Answered
  <2>1. stored = {} /\ loadStock = LoadStock /\ \A i \in Load!Jobs : loadRequest[i] = "none"
    OBVIOUS
  <2>2. service = "atomic" => loadStock + Cardinality(stored) = LoadStock
    BY <2>1, FS_EmptySet DEF Load!LoadAssumption
  <2>3. stored = {i \in Load!Jobs : loadRequest[i] = "201"}
    BY <2>1
  <2>4. QED
    BY <2>1, <2>2, <2>3 DEF Answered
<1>4. Troubles /\ Final /\ Load!NoFalseAlarm
  BY DEF Troubles, Final, Load!NoFalseAlarm
<1>5. QED
  BY <1>1, <1>2, <1>3, <1>4 DEF LoadInv

LEMMA InitLoad == ASSUME Load!LoadAssumption, Load!Init PROVE LoadInv
BY UntouchedLoad DEF Load!Init

-----------------------------------------------------------------------------

LEMMA LoadTypes ==
    ASSUME Load!LoadAssumption, LoadInv
    PROVE  /\ cursor \in Nat /\ cursor <= Load!Requests
           /\ \A i \in Load!Jobs : i \in Nat /\ i # 0 /\ i <= Load!Requests
           /\ \A w \in Workers : job[w] \in Nat
           /\ \A s \in samples : s.index \in Load!Jobs /\ s.status \in Load!Statuses
           /\ loadStock \in Nat /\ loadStock <= LoadStock
           /\ IsFiniteSet(stored) /\ Cardinality(stored) \in Nat
           /\ IsFiniteSet(samples) /\ Cardinality(samples) \in Nat
<1>1. stored \subseteq Load!Jobs /\ IsFiniteSet(samples)
  BY DEF LoadInv, Load!TypeOK, Counted
<1>2. /\ IsFiniteSet(stored) /\ Cardinality(stored) \in Nat
      /\ Cardinality(samples) \in Nat
  BY <1>1, LoadSizes, FS_Subset, FS_CardinalityType
<1>3. \A i \in Load!Jobs : i \in Nat /\ i # 0 /\ i <= Load!Requests
  BY LoadSizes DEF Load!Jobs
<1>4. /\ cursor \in Nat /\ cursor <= Load!Requests
      /\ loadStock \in Nat /\ loadStock <= LoadStock
  BY LoadSizes DEF LoadInv, Load!TypeOK
<1>5. \A w \in Workers : job[w] \in Nat
  BY <1>3 DEF LoadInv, Load!TypeOK
<1>6. \A s \in samples : s.index \in Load!Jobs /\ s.status \in Load!Statuses
  BY DEF LoadInv, Load!TypeOK
<1>7. QED
  BY <1>1, <1>2, <1>3, <1>4, <1>5, <1>6

LEMMA HeldIsFinite ==
    ASSUME Load!LoadAssumption
    PROVE  IsFiniteSet(Load!Held) /\ Cardinality(Load!Held) \in Nat
BY FS_Subset, FS_CardinalityType, LoadCounts DEF Load!LoadAssumption, Load!Held

\* When all workers have returned, the samples are those of the requests sent.
LEMMA AllReturned ==
    ASSUME Load!LoadAssumption, LoadInv, report # "none"
    PROVE  /\ Load!Held = {}
           /\ \A i \in Load!Jobs : i <= cursor => \E s \in samples : s.index = i
           /\ Cardinality(samples) = cursor
<1>1. Load!Held = {}
  BY DEF LoadInv, Counted, Load!Held
<1>2. Cardinality(Load!Held) = 0
  BY <1>1, FS_EmptySet
<1>3. Cardinality(samples) \in Nat
  BY FS_CardinalityType DEF LoadInv, Counted
<1>4. Cardinality(samples) = cursor
  <2>1. cursor \in Nat
    BY LoadTypes
  <2>2. Cardinality(Load!Held) + Cardinality(samples) = cursor
    BY LoadCounts DEF LoadInv, Counted, Load!EveryJobIsCountedOnce
  <2>3. QED
    BY <1>2, <1>3, <2>1, <2>2
<1>5. {s.index : s \in samples} = 1..cursor
  BY <1>1 DEF LoadInv, Counted, Load!EveryJobIsCountedOnce
<1>6. ASSUME NEW i \in Load!Jobs, i <= cursor PROVE \E s \in samples : s.index = i
  <2>1. i \in 1..cursor
    BY <1>6, LoadSizes DEF LoadInv, Load!TypeOK, Load!Jobs
  <2>2. QED
    BY <1>5, <2>1
<1>7. QED
  BY <1>1, <1>4, <1>6

LEMMA RequestsAreTaken ==
    ASSUME Load!LoadAssumption, LoadInv, NEW i \in Load!Jobs,
           loadRequest[i] # "none"
    PROVE  i <= cursor
<1>1. cursor \in Nat /\ i \in Nat
  BY LoadTypes
<1>2. ~(i > cursor)
  BY DEF LoadInv, Counted
<1>3. QED
  BY <1>1, <1>2

LEMMA OneSampleMore ==
    ASSUME Load!LoadAssumption, LoadInv, NEW w \in Load!Held
    PROVE  Cardinality(Load!Held \ {w}) + (Cardinality(samples) + 1) = cursor
<1>1. /\ Cardinality(Load!Held \ {w}) = Cardinality(Load!Held) - 1
      /\ Cardinality(Load!Held) \in Nat
  BY HeldIsFinite, FS_RemoveElement
<1>2. Cardinality(samples) \in Nat /\ cursor \in Nat
  BY LoadTypes
<1>3. Cardinality(Load!Held) + Cardinality(samples) = cursor
  BY LoadCounts DEF LoadInv, Counted, Load!EveryJobIsCountedOnce
<1>4. QED
  BY <1>1, <1>2, <1>3

LEMMA OpenRequestsAreReported ==
    ASSUME Load!LoadAssumption, LoadInv
    PROVE  Load!OpenRequestsFailTheTest
<1> SUFFICES ASSUME report \in {"read", "counted", "passed"}, NEW i \in Load!Jobs,
                    loadRequest[i] \in {"sent", "read"}
             PROVE  \E s \in samples : s.index = i /\ s.status = "transport error"
  BY DEF Load!OpenRequestsFailTheTest
<1>1. i <= cursor
  BY RequestsAreTaken
<1>2. PICK s \in samples : s.index = i
  BY <1>1, AllReturned
<1>3. s.status \in Load!Statuses
  BY DEF LoadInv, Load!TypeOK
<1>4. s.status # "transport error" => loadRequest[i] = s.status
  BY <1>2 DEF LoadInv, Counted
<1>5. QED
  BY <1>2, <1>3, <1>4 DEF Load!Statuses

LEMMA PassedSoldExactly ==
    ASSUME Load!LoadAssumption, LoadInv
    PROVE  Load!PassedMeansSoldExactly
<1> SUFFICES ASSUME report = "passed"
             PROVE  /\ loadStock = 0
                    /\ Cardinality(stored) = LoadStock
                    /\ \A i \in Load!Jobs : loadRequest[i] \notin {"none", "sent", "read"}
  BY LoadCounts DEF Load!PassedMeansSoldExactly
<1>1. Load!Meets /\ Load!With("transport error") = {}
  BY DEF LoadInv, Final, Load!Meets
<1>2. loadStock = 0 /\ Cardinality(stored) = LoadStock
  BY <1>1 DEF LoadInv, Final, Load!Meets
<1>3. cursor = Load!Requests
  BY <1>1, AllReturned, LoadCounts DEF Load!Meets
<1>4. ASSUME NEW i \in Load!Jobs PROVE loadRequest[i] \in Load!Statuses
  <2>1. i <= cursor
    BY <1>3, LoadSizes DEF Load!Jobs
  <2>2. PICK s \in samples : s.index = i
    BY <2>1, AllReturned
  <2>3. s.status # "transport error" /\ s.status \in Load!Statuses
    BY <1>1 DEF Load!With, LoadInv, Load!TypeOK
  <2>4. QED
    BY <2>2, <2>3 DEF LoadInv, Counted
<1>5. QED
  BY <1>2, <1>4 DEF Load!Statuses

-----------------------------------------------------------------------------
(* The workers.                                                            *)

LEMMA TakeKeeps ==
    ASSUME Load!LoadAssumption, LoadInv, NEW w \in Workers, Load!Take(w)
    PROVE  LoadInv'
<1> DEFINE n == cursor + 1
<1>1. /\ w \notin done /\ job[w] = 0 /\ cursor < Load!Requests /\ ~expired
      /\ cursor' = n
      /\ UNCHANGED <<expired, done, samples, finalStock, finalCount, report,
                      service, loadSeen, loadStock, stored, loadTroubled>>
  BY DEF Load!Take, Load!verdict
<1>2. n \in Load!Jobs /\ n \in 1..Load!Requests /\ cursor \in Nat /\ n # 0
  BY <1>1, LoadSizes DEF LoadInv, Load!TypeOK, Load!Jobs
<1>3. /\ job'[w] = n /\ \A v \in Workers \ {w} : job'[v] = job[v]
      /\ job' \in [Workers -> {0} \cup Load!Jobs]
      /\ loadRequest'[n] = "sent" /\ \A i \in Load!Jobs \ {n} : loadRequest'[i] = loadRequest[i]
      /\ loadRequest' \in [Load!Jobs -> {"none", "sent", "read"} \cup Load!Statuses]
  BY <1>2 DEF Load!Take, LoadInv, Load!TypeOK
<1>4. loadRequest[n] = "none"
  <2>1. n > cursor
    BY <1>2
  <2>2. QED
    BY <1>2, <2>1 DEF LoadInv, Counted
<1> HIDE DEF n
<1>5. report = "none"
  BY <1>1 DEF LoadInv, Counted
<1>6. Load!TypeOK'
  BY <1>1, <1>2, <1>3, LoadSizes DEF LoadInv, Load!TypeOK
<1>7. Load!Held' = Load!Held \cup {w} /\ w \notin Load!Held
  BY <1>1, <1>2, <1>3 DEF Load!Held
<1>8. /\ \A v \in Workers : job[v] \in 0..cursor
      /\ \A s \in samples : s.index \in 1..cursor
  <2>1. /\ \A v \in Load!Held : job[v] \in 1..cursor
        /\ \A s \in samples : s.index \in 1..cursor
    BY LoadCounts DEF LoadInv, Counted, Load!EveryJobIsCountedOnce
  <2>2. \A v \in Workers \ Load!Held : job[v] = 0
    BY DEF Load!Held
  <2>3. QED
    BY <1>2, <2>1, <2>2
<1>9. Counted'
  <2>1. 1..cursor' = (1..cursor) \cup {n}
    BY <1>1, <1>2 DEF n
  <2>2. n \notin 0..cursor
    BY <1>2 DEF n
  <2>3. {job'[v] : v \in Load!Held'} = {job[v] : v \in Load!Held} \cup {n}
    BY <1>3, <1>7 DEF Load!Held
  <2>4. /\ Cardinality(Load!Held') = Cardinality(Load!Held) + 1
        /\ Cardinality(Load!Held) \in Nat
    BY <1>7, HeldIsFinite, FS_AddElement
  <2>5. Cardinality(samples) \in Nat
    BY FS_CardinalityType DEF LoadInv, Counted
  <2>6. Load!EveryJobIsCountedOnce'
    <3>1. {s.index : s \in samples'} = {s.index : s \in samples}
      BY <1>1
    <3>2. Cardinality(Load!Held) + Cardinality(samples) = cursor
      BY LoadCounts DEF LoadInv, Counted, Load!EveryJobIsCountedOnce
    <3>3. Cardinality(Load!Held') + Cardinality(samples') = cursor'
      BY <1>1, <1>2, <2>4, <2>5, <3>2 DEF n
    <3>4. {job[v] : v \in Load!Held} \cup {s.index : s \in samples} = 1..cursor
      BY LoadCounts DEF LoadInv, Counted, Load!EveryJobIsCountedOnce
    <3>5. QED
      BY <2>1, <2>3, <3>1, <3>3, <3>4, LoadCounts DEF Load!EveryJobIsCountedOnce
  <2>7. \A i \in Load!Jobs : loadRequest'[i] = "none" <=> i > cursor'
    <3>1. \A i \in Load!Jobs : i \in Nat /\ (loadRequest[i] = "none" <=> i > cursor)
      BY LoadTypes DEF LoadInv, Counted
    <3>2. \A i \in Load!Jobs \ {n} : loadRequest'[i] = "none" <=> i > cursor'
      BY <1>1, <1>2, <1>3, <3>1 DEF n
    <3>3. ~(n > cursor') /\ loadRequest'[n] # "none"
      BY <1>1, <1>2, <1>3
    <3>4. QED
      BY <3>2, <3>3
  <2>8. \A v, u \in Workers : job'[v] # 0 /\ job'[v] = job'[u] => v = u
    <3>1. \A v, u \in Workers : job[v] # 0 /\ job[v] = job[u] => v = u
      BY DEF LoadInv, Counted
    <3>2. QED
      BY <1>3, <1>8, <2>2, <3>1
  <2>9. \A v \in Workers : \A s \in samples' : job'[v] # s.index
    <3>1. \A v \in Workers : \A s \in samples : job[v] # s.index
      BY DEF LoadInv, Counted
    <3>2. \A s \in samples : s.index # n
      BY <1>8, <2>2
    <3>3. QED
      BY <1>1, <1>3, <3>1, <3>2
  <2>10. \A s \in samples : s.index # n
    BY <1>8, <2>2
  <2>11. \A s \in samples' :
             s.status # "transport error" => loadRequest'[s.index] = s.status
    BY <1>1, <1>3, <2>10 DEF LoadInv, Counted, Load!TypeOK
  <2>12. \A v \in done' : job'[v] = 0
    BY <1>1, <1>3 DEF LoadInv, Counted, Load!TypeOK
  <2>13. done' = {}
    <3>1. done # {} => cursor = Load!Requests \/ expired
      BY DEF LoadInv, Counted
    <3>2. cursor # Load!Requests
      BY <1>1, <1>2, LoadSizes
    <3>3. QED
      BY <1>1, <3>1, <3>2
  <2>14. QED
    BY <1>1, <1>5, <2>6, <2>7, <2>8, <2>9, <2>11, <2>12, <2>13
       DEF LoadInv, Counted
<1>10. Answered'
  <2>1. \A i \in Load!Jobs : loadRequest'[i] = "201" <=> loadRequest[i] = "201"
    BY <1>3, <1>4
  <2>2. stored' = {i \in Load!Jobs : loadRequest'[i] = "201"}
    BY <1>1, <2>1 DEF LoadInv, Answered
  <2>3. QED
    BY <1>1, <1>3, <2>2 DEF LoadInv, Answered
<1>11. Troubles'
  BY <1>1, <1>3 DEF LoadInv, Troubles
<1>12. Final' /\ Load!NoFalseAlarm'
  BY <1>1, <1>5 DEF Final, Load!NoFalseAlarm
<1>13. QED
  BY <1>6, <1>9, <1>10, <1>11, <1>12 DEF LoadInv

LEMMA ReturnKeeps ==
    ASSUME Load!LoadAssumption, LoadInv, NEW w \in Workers, Load!Return(w)
    PROVE  LoadInv'
<1>1. /\ job[w] = 0 /\ done' = done \cup {w} /\ w \notin done
      /\ cursor >= Load!Requests \/ expired
      /\ UNCHANGED <<cursor, expired, job, samples, finalStock, finalCount,
                      report, service, loadRequest, loadSeen, loadStock, stored,
                      loadTroubled>>
  BY DEF Load!Return, Load!verdict, Load!server
<1>2. Load!TypeOK'
  BY <1>1 DEF LoadInv, Load!TypeOK
<1>3. /\ Load!EveryJobIsCountedOnce' /\ Load!Meets' = Load!Meets
      /\ Load!With("transport error")' = Load!With("transport error")
  BY <1>1
     DEF LoadInv, Counted, Load!EveryJobIsCountedOnce, Load!Held, Load!Meets,
         Load!With, Load!Successes
<1>4. cursor = Load!Requests \/ expired
  BY <1>1, LoadSizes DEF LoadInv, Load!TypeOK
<1>5. report = "none"
  BY <1>1 DEF LoadInv, Counted
<1>6. Counted'
  BY <1>1, <1>3, <1>4, <1>5 DEF LoadInv, Counted
<1>7. Answered' /\ Troubles'
  BY <1>1 DEF LoadInv, Answered, Troubles
<1>8. Final' /\ Load!NoFalseAlarm'
  BY <1>1, <1>5 DEF Final, Load!NoFalseAlarm
<1>9. QED
  BY <1>2, <1>6, <1>7, <1>8 DEF LoadInv

LEMMA SampleKeeps ==
    ASSUME Load!LoadAssumption, LoadInv, NEW w \in Workers, job[w] # 0,
           NEW code \in Load!Statuses, Load!Sample(w, code),
           \/ UNCHANGED loadTroubled /\ code = loadRequest[job[w]]
           \/ Load!Fault /\ code = "transport error"
    PROVE  LoadInv'
<1> DEFINE new == [index |-> job[w], worker |-> w, status |-> code]
<1>1. /\ samples' = samples \cup {new}
      /\ UNCHANGED <<cursor, expired, done, finalStock, finalCount, report,
                      service, loadRequest, loadSeen, loadStock, stored>>
  BY DEF Load!Sample, Load!verdict, Load!server
<1>2. /\ job'[w] = 0 /\ \A v \in Workers \ {w} : job'[v] = job[v]
      /\ job' \in [Workers -> {0} \cup Load!Jobs]
      /\ job[w] \in Load!Jobs /\ loadTroubled' \in BOOLEAN
  BY DEF Load!Sample, Load!Fault, LoadInv, Load!TypeOK
<1>3. /\ new \in [index : Load!Jobs, worker : Workers, status : Load!Statuses]
      /\ new.index = job[w] /\ new.status = code
  BY <1>2
<1> HIDE DEF new
<1>4. Load!TypeOK'
  BY <1>1, <1>2, <1>3 DEF LoadInv, Load!TypeOK
<1>5. new \notin samples /\ w \notin done
  BY <1>3 DEF LoadInv, Counted
<1>6. Load!Held' = Load!Held \ {w} /\ w \in Load!Held
  BY <1>2 DEF Load!Held
<1>7. Load!EveryJobIsCountedOnce'
  <2>1. {job'[v] : v \in Load!Held'} \cup {s.index : s \in samples'}
            = {job[v] : v \in Load!Held} \cup {s.index : s \in samples}
    <3>1. {job'[v] : v \in Load!Held'} = {job[v] : v \in Load!Held \ {w}}
      BY <1>2, <1>6 DEF Load!Held
    <3>2. {job[v] : v \in Load!Held} = {job[v] : v \in Load!Held \ {w}} \cup {job[w]}
      BY <1>6
    <3>3. {s.index : s \in samples'} = {s.index : s \in samples} \cup {job[w]}
      BY <1>1, <1>3
    <3>4. QED
      BY <3>1, <3>2, <3>3
  <2>2. Cardinality(Load!Held \ {w}) + (Cardinality(samples) + 1) = cursor
    BY <1>6, OneSampleMore
  <2>3. /\ Cardinality(samples') = Cardinality(samples) + 1
        /\ Cardinality(samples) \in Nat
    BY <1>1, <1>5, FS_AddElement, FS_CardinalityType DEF LoadInv, Counted
  <2>4. Cardinality(Load!Held') + Cardinality(samples') = cursor'
    <3>1. cursor' = cursor
      BY <1>1
    <3>2. QED
      BY <1>6, <2>2, <2>3, <3>1
  <2>5. {job[v] : v \in Load!Held} \cup {s.index : s \in samples} = 1..cursor
    BY LoadCounts DEF LoadInv, Counted, Load!EveryJobIsCountedOnce
  <2>6. QED
    BY <1>1, <2>1, <2>4, <2>5, LoadCounts DEF Load!EveryJobIsCountedOnce
<1>8. report = "none"
  BY <1>5 DEF LoadInv, Counted
<1>9. IsFiniteSet(samples')
  BY <1>1, FS_AddElement DEF LoadInv, Counted
<1>10. Counted'
  <2>1. \A v, u \in Workers : job'[v] # 0 /\ job'[v] = job'[u] => v = u
    BY <1>2 DEF LoadInv, Counted
  <2>2. \A v \in Workers : \A s \in samples' : job'[v] # s.index
    <3>1. \A s \in samples' : s.index # 0
      <4>1. \A s \in samples : s.index # 0
        BY LoadTypes
      <4>2. QED
        BY <1>1, <1>3, <4>1
    <3>2. /\ \A v \in Workers : \A s \in samples : job[v] # s.index
          /\ \A v \in Workers \ {w} : job[v] # job[w]
      BY DEF LoadInv, Counted
    <3>3. QED
      BY <1>1, <1>2, <1>3, <3>1, <3>2
  <2>3. \A s, t \in samples' : s.index = t.index => s = t
    <3>1. /\ \A s \in samples : s.index # new.index
          /\ \A s, t \in samples : s.index = t.index => s = t
      <4>1. /\ \A s \in samples : job[w] # s.index
            /\ \A s, t \in samples : s.index = t.index => s = t
        BY DEF LoadInv, Counted
      <4>2. QED
        BY <1>3, <4>1
    <3>2. QED
      BY <1>1, <3>1
  <2>4. \A s \in samples' :
             s.status # "transport error" => loadRequest'[s.index] = s.status
    BY <1>1, <1>3 DEF LoadInv, Counted
  <2>5. \A v \in done' : job'[v] = 0
    BY <1>1, <1>2 DEF LoadInv, Counted, Load!TypeOK
  <2>6. QED
    BY <1>1, <1>7, <1>8, <1>9, <2>1, <2>2, <2>3, <2>4, <2>5 DEF LoadInv, Counted
<1>11. Answered'
  BY <1>1 DEF LoadInv, Answered
<1>12. Troubles'
  BY <1>1, <1>2, <1>3 DEF LoadInv, Troubles, Answered, Load!Fault
<1>13. Final' /\ Load!NoFalseAlarm'
  BY <1>1, <1>8 DEF Final, Load!NoFalseAlarm
<1>14. QED
  BY <1>4, <1>10, <1>11, <1>12, <1>13 DEF LoadInv

-----------------------------------------------------------------------------
(* The service.                                                            *)

\* What every step of the service leaves to be shown.
LEMMA LoadServiceKeeps ==
    ASSUME Load!LoadAssumption, LoadInv, NEW i \in Load!Jobs, Load!TypeOK',
           loadRequest[i] \in {"sent", "read"},
           loadRequest'[i] \in {"read", "200", "201", "409 stock", "other"},
           \A k \in Load!Jobs \ {i} : loadRequest'[k] = loadRequest[k],
           UNCHANGED <<cursor, expired, job, done, samples, finalStock,
                       finalCount, report, service>>,
           loadTroubled' = TRUE \/ UNCHANGED loadTroubled,
           loadRequest'[i] = "other" => loadTroubled' = TRUE,
           Answered'
    PROVE  LoadInv'
<1>1. i <= cursor
  BY RequestsAreTaken
<1>2. ASSUME NEW s \in samples, s.index = i PROVE s.status = "transport error"
  <2>1. s.status \in Load!Statuses
    BY DEF LoadInv, Load!TypeOK
  <2>2. QED
    BY <1>2, <2>1 DEF LoadInv, Counted, Load!Statuses
<1>3. Counted'
  <2>1. Load!EveryJobIsCountedOnce'
    <3>1. Load!EveryJobIsCountedOnce
      BY DEF LoadInv, Counted
    <3>2. QED
      BY <3>1 DEF Load!EveryJobIsCountedOnce, Load!Held
  <2>2. \A k \in Load!Jobs : loadRequest'[k] = "none" <=> k > cursor'
    BY DEF LoadInv, Counted
  <2>3. \A s \in samples' :
            s.status # "transport error" => loadRequest'[s.index] = s.status
    BY <1>2 DEF LoadInv, Counted, Load!TypeOK
  <2>4. QED
    BY <2>1, <2>2, <2>3 DEF LoadInv, Counted
<1>4. Troubles'
  BY DEF LoadInv, Troubles
<1>5. Load!NoFalseAlarm'
  BY DEF LoadInv, Load!NoFalseAlarm
<1>6. Final'
  <2>1. /\ Load!With("transport error")' = Load!With("transport error")
        /\ Load!Meets' = Load!Meets
    BY DEF Load!With, Load!Meets, Load!Successes
  <2>2. report \in {"read", "counted", "passed"} => Load!With("transport error") # {}
    BY OpenRequestsAreReported DEF Load!OpenRequestsFailTheTest, Load!With
  <2>3. QED
    BY <2>1, <2>2 DEF LoadInv, Final
<1>7. QED
  BY <1>3, <1>4, <1>5, <1>6 DEF LoadInv

LEMMA StoreKeeps ==
    ASSUME Load!LoadAssumption, LoadInv, NEW i \in Load!Jobs, i <= Reservations,
           loadRequest[i] \in {"sent", "read"},
           NEW from \in 0..Load!Unread, Load!Store(i, from),
           service = "atomic" => from = loadStock,
           UNCHANGED <<cursor, expired, job, done, samples, finalStock,
                       finalCount, report, service, loadSeen, loadTroubled>>
    PROVE  LoadInv'
<1>1. \A k \in Load!Jobs \ {i} : loadRequest'[k] = loadRequest[k]
  BY DEF Load!Store, Load!Answer, LoadInv, Load!TypeOK
<1>2. IsFiniteSet(stored) /\ Cardinality(stored) \in Nat /\ i \notin stored
  BY LoadSizes, FS_Subset, FS_CardinalityType DEF LoadInv, Load!TypeOK, Answered
<1>3. loadStock \in Nat /\ LoadStock \in Nat /\ Load!Unread = LoadStock + 1
  BY LoadSizes DEF LoadInv, Load!TypeOK, Load!Unread
<1>4. CASE from > 0
  <2>1. /\ loadStock' = from - 1 /\ stored' = stored \cup {i}
        /\ loadRequest'[i] = "201"
        /\ loadRequest' \in [Load!Jobs -> {"none", "sent", "read"} \cup Load!Statuses]
    BY <1>4 DEF Load!Store, Load!Answer, LoadInv, Load!TypeOK, Load!Statuses
  <2>2. loadStock' \in 0..LoadStock
    BY <1>3, <1>4, <2>1
  <2>3. Load!TypeOK'
    BY <2>1, <2>2 DEF LoadInv, Load!TypeOK
  <2>4. Cardinality(stored') = Cardinality(stored) + 1
    BY <1>2, <2>1, FS_AddElement
  <2>5. stored' = {k \in Load!Jobs : loadRequest'[k] = "201"}
    BY <1>1, <2>1 DEF LoadInv, Answered
  <2>6. service' = "atomic" => loadStock' + Cardinality(stored') = LoadStock
    <3>1. service = "atomic" => loadStock + Cardinality(stored) = LoadStock
      BY DEF LoadInv, Answered
    <3>2. QED
      BY <1>2, <1>3, <2>1, <2>4, <3>1
  <2>7. service' = "atomic" =>
            \A k \in Load!Jobs : loadRequest'[k] = "409 stock" => loadStock' = 0
    <3>1. service = "atomic" =>
              \A k \in Load!Jobs : loadRequest[k] = "409 stock" => loadStock = 0
      BY DEF LoadInv, Answered
    <3>2. service = "atomic" => \A k \in Load!Jobs : loadRequest[k] # "409 stock"
      <4>1. service = "atomic" => loadStock # 0
        BY <1>3, <1>4
      <4>2. QED
        BY <3>1, <4>1
    <3>3. QED
      BY <1>1, <2>1, <3>2
  <2>8. Answered'
    <3>1. i \in Nat /\ Reservations \in Nat
      BY LoadSizes, LoadTypes
    <3>2. /\ \A k \in Load!Jobs : loadRequest[k] # "transport error"
          /\ \A k \in Load!Jobs :
                 /\ loadRequest[k] = "read" => service = "racy"
                 /\ k <= Reservations => loadRequest[k] # "200"
                 /\ k > Reservations =>
                        loadRequest[k] \in {"none", "sent", "200", "other"}
      BY DEF LoadInv, Answered
    <3>3. \A k \in Load!Jobs : loadRequest'[k] # "transport error"
      BY <1>1, <2>1, <3>2
    <3>4. ~(i > Reservations)
      BY <3>1
    <3>5. \A k \in Load!Jobs :
              /\ loadRequest'[k] = "read" => service' = "racy"
              /\ k <= Reservations => loadRequest'[k] # "200"
              /\ k > Reservations =>
                     loadRequest'[k] \in {"none", "sent", "200", "other"}
      BY <1>1, <2>1, <3>2, <3>4
    <3>6. QED
      BY <2>5, <2>6, <2>7, <3>3, <3>5 DEF Answered
  <2>9. QED
    BY <1>1, <2>1, <2>3, <2>8, LoadServiceKeeps
<1>5. CASE ~(from > 0)
  <2>1. UNCHANGED <<loadStock, stored>> /\ loadRequest'[i] = "409 stock"
        /\ loadRequest' \in [Load!Jobs -> {"none", "sent", "read"} \cup Load!Statuses]
    BY <1>5 DEF Load!Store, Load!Answer, LoadInv, Load!TypeOK, Load!Statuses
  <2>2. Load!TypeOK'
    BY <2>1 DEF LoadInv, Load!TypeOK
  <2>3. service = "atomic" => loadStock = 0
    BY <1>3, <1>5
  <2>4. stored' = {k \in Load!Jobs : loadRequest'[k] = "201"}
    BY <1>1, <2>1 DEF LoadInv, Answered
  <2>5. Answered'
    <3>1. ~(i > Reservations)
      BY LoadSizes, LoadTypes
    <3>2. /\ \A k \in Load!Jobs : loadRequest[k] # "transport error"
          /\ \A k \in Load!Jobs :
                 /\ loadRequest[k] = "read" => service = "racy"
                 /\ k <= Reservations => loadRequest[k] # "200"
                 /\ k > Reservations =>
                        loadRequest[k] \in {"none", "sent", "200", "other"}
          /\ service = "atomic" => loadStock + Cardinality(stored) = LoadStock
          /\ service = "atomic" =>
                 \A k \in Load!Jobs : loadRequest[k] = "409 stock" => loadStock = 0
      BY DEF LoadInv, Answered
    <3>3. \A k \in Load!Jobs : loadRequest'[k] # "transport error"
      BY <1>1, <2>1, <3>2
    <3>4. \A k \in Load!Jobs :
              /\ loadRequest'[k] = "read" => service' = "racy"
              /\ k <= Reservations => loadRequest'[k] # "200"
              /\ k > Reservations =>
                     loadRequest'[k] \in {"none", "sent", "200", "other"}
      BY <1>1, <2>1, <3>1, <3>2
    <3>5. service' = "atomic" =>
              \A k \in Load!Jobs : loadRequest'[k] = "409 stock" => loadStock' = 0
      BY <1>1, <2>1, <2>3, <3>2
    <3>6. service' = "atomic" => loadStock' + Cardinality(stored') = LoadStock
      BY <1>1, <2>1, <3>2
    <3>7. QED
      BY <2>4, <3>3, <3>4, <3>5, <3>6 DEF Answered
  <2>6. QED
    BY <1>1, <2>1, <2>2, <2>5, LoadServiceKeeps
<1>6. QED
  BY <1>4, <1>5

LEMMA ServiceNextKeeps ==
    ASSUME Load!LoadAssumption, LoadInv, Load!ServiceNext
    PROVE  LoadInv'
<1>1. PICK i \in Load!Jobs : Load!Reserve(i) \/ Load!Read(i) \/ Load!Refuse(i)
  BY DEF Load!ServiceNext
<1>2. UNCHANGED <<cursor, expired, job, done, samples, finalStock, finalCount,
                  report, service>>
  BY <1>1 DEF Load!Reserve, Load!Read, Load!Refuse, Load!client, Load!verdict
<1>3. i \in Nat /\ Reservations \in Nat /\ (i <= Reservations \/ i > Reservations)
  BY LoadSizes DEF Load!Jobs
<1>4. CASE Load!Reserve(i)
  <2>1. i <= Reservations /\ UNCHANGED loadTroubled
    BY <1>4 DEF Load!Reserve, Load!Operation
  <2>2. CASE /\ service = "atomic" /\ loadRequest[i] = "sent" /\ Load!Store(i, loadStock)
             /\ UNCHANGED loadSeen
    <3>1. loadStock \in 0..Load!Unread
      BY LoadSizes DEF LoadInv, Load!TypeOK, Load!Unread
    <3>2. QED
      BY <1>2, <2>1, <2>2, <3>1, StoreKeeps
  <2>3. CASE loadRequest[i] = "read" /\ Load!Store(i, loadSeen[i]) /\ UNCHANGED loadSeen
    <3>1. loadSeen[i] \in 0..Load!Unread /\ service = "racy"
      BY <2>3 DEF LoadInv, Load!TypeOK, Answered
    <3>2. QED
      BY <1>2, <2>1, <2>3, <3>1, StoreKeeps
  <2>4. CASE /\ service = "racy"
             /\ loadRequest[i] = "sent"
             /\ loadSeen' = [loadSeen EXCEPT ![i] = loadStock]
             /\ loadRequest' = [loadRequest EXCEPT ![i] = "read"]
             /\ UNCHANGED <<loadStock, stored>>
    <3>1. loadStock \in 0..Load!Unread
      BY LoadSizes DEF LoadInv, Load!TypeOK, Load!Unread
    <3>2. Load!TypeOK'
      BY <1>2, <2>1, <2>4, <3>1 DEF LoadInv, Load!TypeOK
    <3>3. /\ loadRequest'[i] = "read"
          /\ \A k \in Load!Jobs \ {i} : loadRequest'[k] = loadRequest[k]
      BY <2>4 DEF LoadInv, Load!TypeOK
    <3>4. stored' = {k \in Load!Jobs : loadRequest'[k] = "201"}
      BY <2>4, <3>3 DEF LoadInv, Answered
    <3>5. Answered'
      <4>1. ~(i > Reservations)
        BY <1>3, <2>1
      <4>2. /\ \A k \in Load!Jobs : loadRequest[k] # "transport error"
            /\ \A k \in Load!Jobs :
                   /\ loadRequest[k] = "read" => service = "racy"
                   /\ k <= Reservations => loadRequest[k] # "200"
                   /\ k > Reservations =>
                          loadRequest[k] \in {"none", "sent", "200", "other"}
            /\ service = "atomic" => loadStock + Cardinality(stored) = LoadStock
            /\ service = "atomic" =>
                   \A k \in Load!Jobs : loadRequest[k] = "409 stock" => loadStock = 0
        BY DEF LoadInv, Answered
      <4>3. \A k \in Load!Jobs : loadRequest'[k] # "transport error"
        BY <1>2, <2>4, <3>3, <4>2
      <4>4. \A k \in Load!Jobs :
                /\ loadRequest'[k] = "read" => service' = "racy"
                /\ k <= Reservations => loadRequest'[k] # "200"
                /\ k > Reservations =>
                       loadRequest'[k] \in {"none", "sent", "200", "other"}
        BY <1>2, <2>4, <3>3, <4>1, <4>2
      <4>5. service' = "atomic" =>
                \A k \in Load!Jobs : loadRequest'[k] = "409 stock" => loadStock' = 0
        BY <1>2, <2>4, <3>3, <4>2
      <4>6. service' = "atomic" => loadStock' + Cardinality(stored') = LoadStock
        BY <1>2, <2>4, <3>3, <4>2
      <4>7. QED
        BY <3>4, <4>3, <4>4, <4>5, <4>6 DEF Answered
    <3>6. QED
      BY <1>2, <2>1, <2>4, <3>2, <3>3, <3>5, LoadServiceKeeps
  <2>5. QED
    BY <1>4, <2>2, <2>3, <2>4 DEF Load!Reserve
<1>5. CASE Load!Read(i) \/ Load!Refuse(i)
  <2>1. PICK reply \in {"200", "other"} :
            /\ loadRequest[i] = "sent"
            /\ loadRequest' = [loadRequest EXCEPT ![i] = reply]
            /\ UNCHANGED <<loadSeen, loadStock, stored>>
            /\ reply = "200" => i > Reservations
            /\ \/ reply = "200" /\ UNCHANGED loadTroubled
               \/ loadTroubled' = TRUE
    BY <1>3, <1>5
       DEF Load!Read, Load!Refuse, Load!Answer, Load!Fault, Load!Operation,
           LoadInv, Load!TypeOK
  <2>2. Load!TypeOK'
    BY <1>2, <2>1 DEF LoadInv, Load!TypeOK, Load!Statuses
  <2>3. /\ loadRequest'[i] = reply
        /\ \A k \in Load!Jobs \ {i} : loadRequest'[k] = loadRequest[k]
    BY <2>1 DEF LoadInv, Load!TypeOK
  <2>4. stored' = {k \in Load!Jobs : loadRequest'[k] = "201"}
    BY <2>1, <2>3 DEF LoadInv, Answered
  <2>5. Answered'
    <3>1. reply = "200" => ~(i <= Reservations)
      BY <1>3, <2>1
    <3>2. /\ \A k \in Load!Jobs : loadRequest[k] # "transport error"
          /\ \A k \in Load!Jobs :
                 /\ loadRequest[k] = "read" => service = "racy"
                 /\ k <= Reservations => loadRequest[k] # "200"
                 /\ k > Reservations =>
                        loadRequest[k] \in {"none", "sent", "200", "other"}
          /\ service = "atomic" => loadStock + Cardinality(stored) = LoadStock
          /\ service = "atomic" =>
                 \A k \in Load!Jobs : loadRequest[k] = "409 stock" => loadStock = 0
      BY DEF LoadInv, Answered
    <3>3. \A k \in Load!Jobs : loadRequest'[k] # "transport error"
      BY <1>2, <2>1, <2>3, <3>2
    <3>4. \A k \in Load!Jobs :
              /\ loadRequest'[k] = "read" => service' = "racy"
              /\ k <= Reservations => loadRequest'[k] # "200"
              /\ k > Reservations =>
                     loadRequest'[k] \in {"none", "sent", "200", "other"}
      BY <1>2, <2>1, <2>3, <3>1, <3>2
    <3>5. service' = "atomic" =>
              \A k \in Load!Jobs : loadRequest'[k] = "409 stock" => loadStock' = 0
      BY <1>2, <2>1, <2>3, <3>2
    <3>6. service' = "atomic" => loadStock' + Cardinality(stored') = LoadStock
      BY <1>2, <2>1, <2>3, <3>2
    <3>7. QED
      BY <2>4, <3>3, <3>4, <3>5, <3>6 DEF Answered
  <2>6. QED
    BY <1>2, <2>1, <2>2, <2>3, <2>5, LoadServiceKeeps
<1>6. QED
  BY <1>1, <1>4, <1>5

-----------------------------------------------------------------------------
(* The result.                                                             *)

\* A service without race that answers in time has sold the stock.
LEMMA AtomicServiceMeets ==
    ASSUME Load!LoadAssumption, LoadInv, report = "counted", service = "atomic",
           ~loadTroubled, ~expired
    PROVE  Load!Meets
<1>1. cursor = Load!Requests /\ Cardinality(samples) = Load!Requests
  BY AllReturned DEF LoadInv, Counted, Load!LoadAssumption
<1>2. \A i \in Load!Jobs : \E s \in samples : s.index = i
  <2>1. \A i \in Load!Jobs : i <= cursor
    BY <1>1, LoadSizes DEF Load!Jobs
  <2>2. QED
    BY <2>1, AllReturned
<1>3. \A s \in samples : /\ s.index \in Load!Jobs
                           /\ loadRequest[s.index] = s.status
                           /\ s.status \in Load!Statuses
  BY DEF LoadInv, Counted, Troubles, Load!TypeOK
<1>4. Load!With("transport error") = {} /\ Load!With("other") = {}
  BY <1>3 DEF LoadInv, Troubles, Load!With
<1>5. Load!Successes = Cardinality(stored)
  <2> DEFINE f == [i \in stored |-> CHOOSE s \in samples : s.index = i]
  <2>1. \A i \in stored : f[i] \in samples /\ f[i].index = i
    BY <1>2 DEF LoadInv, Load!TypeOK
  <2>2. \A i \in stored : f[i] \in Load!With("201")
    BY <2>1, <1>3 DEF Load!With, LoadInv, Answered
  <2>3. \A s \in Load!With("201") : s.index \in stored /\ f[s.index] = s
    <3>1. SUFFICES ASSUME NEW s \in Load!With("201") PROVE s.index \in stored /\ f[s.index] = s
      OBVIOUS
    <3>2. s \in samples /\ s.status = "201"
      BY DEF Load!With
    <3>3. s.index \in stored
      BY <1>3, <3>2 DEF LoadInv, Answered
    <3>4. QED
      BY <2>1, <3>2, <3>3 DEF LoadInv, Counted
  <2>4. f \in [stored -> Load!With("201")]
    BY <2>2
  <2> HIDE DEF f
  <2>5. \A i, k \in stored : f[i] = f[k] => i = k
    BY <2>1
  <2>6. f \in Bijection(stored, Load!With("201"))
    BY <2>3, <2>4, <2>5 DEF Bijection, Injection, Surjection, IsInjective
  <2>7. IsFiniteSet(stored)
    BY LoadSizes, FS_Subset DEF LoadInv, Load!TypeOK
  <2>8. QED
    BY <2>6, <2>7, FS_Bijection, LoadCounts DEF ExistsBijection, Load!Successes
<1>6. loadStock = 0
  <2>1. CASE \E i \in Load!Jobs : loadRequest[i] = "409 stock"
    BY <2>1 DEF LoadInv, Answered
  <2>2. CASE \A i \in Load!Jobs : loadRequest[i] # "409 stock"
    <3>1. ASSUME NEW i \in 1..Reservations PROVE i \in stored
      <4>1. i \in Load!Jobs /\ i <= Reservations
        BY LoadSizes DEF Load!Jobs
      <4>2. PICK s \in samples : s.index = i
        BY <1>2, <4>1
      <4>3. loadRequest[i] \in Load!Statuses
        BY <1>3, <4>2
      <4>4. loadRequest[i] = "201"
        BY <2>2, <4>1, <4>3 DEF LoadInv, Answered, Troubles, Load!Statuses
      <4>5. QED
        BY <4>1, <4>4 DEF LoadInv, Answered
    <3>2. IsFiniteSet(stored) /\ Cardinality(stored) \in Nat
      BY LoadSizes, FS_Subset, FS_CardinalityType DEF LoadInv, Load!TypeOK
    <3>3. Cardinality(1..Reservations) = Reservations
      BY LoadSizes, FS_Interval
    <3>4. Reservations <= Cardinality(stored)
      BY <3>1, <3>2, <3>3, FS_Subset
    <3>5. loadStock + Cardinality(stored) = LoadStock /\ loadStock \in Nat
      <4>1. loadStock \in Nat
        BY LoadTypes
      <4>2. QED
        BY <4>1 DEF LoadInv, Answered
    <3>6. QED
      BY <3>2, <3>4, <3>5, LoadSizes
  <2>3. QED
    BY <2>1, <2>2
<1>7. /\ Cardinality(stored) = LoadStock /\ finalStock = 0
      /\ finalCount = Cardinality(stored)
  <2>1. IsFiniteSet(stored) /\ Cardinality(stored) \in Nat
    BY LoadSizes, FS_Subset, FS_CardinalityType DEF LoadInv, Load!TypeOK
  <2>2. QED
    <3>1. loadStock + Cardinality(stored) = LoadStock
      BY DEF LoadInv, Answered
    <3>2. finalStock = loadStock /\ finalCount = Cardinality(stored)
      BY <1>4 DEF LoadInv, Final
    <3>3. QED
      BY <1>6, <2>1, <3>1, <3>2
<1>8. QED
  BY <1>1, <1>4, <1>5, <1>7, LoadCounts DEF Load!Meets

LEMMA MainNextKeeps ==
    ASSUME Load!LoadAssumption, LoadInv, Load!MainNext
    PROVE  LoadInv'
<1>1. UNCHANGED <<cursor, expired, job, done, samples, service, loadRequest,
                  loadSeen,
                  loadStock, stored>>
  BY DEF Load!MainNext, Load!ReadStock, Load!CountReservations, Load!Judge,
         Load!client, Load!server
<1>2. IsFiniteSet(stored) /\ Cardinality(stored) \in Nat
  BY LoadSizes, FS_Subset, FS_CardinalityType DEF LoadInv, Load!TypeOK
<1>3. /\ report' \in {"read", "counted", "passed", "failed"}
      /\ finalStock' \in {finalStock, loadStock} /\ finalCount' \in Nat
      /\ loadTroubled' \in BOOLEAN /\ (loadTroubled => loadTroubled')
  BY <1>2, LoadCounts
     DEF Load!MainNext, Load!ReadStock, Load!CountReservations, Load!Judge,
         Load!Fault, LoadInv, Load!TypeOK
<1>4. Load!TypeOK'
  <2>1. finalStock' \in 0..Load!Unread
    BY <1>3, LoadSizes DEF LoadInv, Load!TypeOK, Load!Unread
  <2>2. QED
    BY <1>1, <1>3, <2>1 DEF LoadInv, Load!TypeOK
<1>5. done = Workers
  BY DEF Load!MainNext, Load!ReadStock, Load!CountReservations, Load!Judge,
         LoadInv, Counted
<1>6. Counted'
  <2>1. Load!EveryJobIsCountedOnce'
    BY <1>1 DEF LoadInv, Counted, Load!EveryJobIsCountedOnce, Load!Held
  <2>2. QED
    BY <1>1, <1>5, <2>1 DEF LoadInv, Counted
<1>7. Answered'
  BY <1>1 DEF LoadInv, Answered
<1>8. Troubles'
  BY <1>1, <1>3 DEF LoadInv, Troubles
<1>9. Load!With("transport error")' = Load!With("transport error")
  BY <1>1 DEF Load!With
<1>10. ASSUME Load!ReadStock PROVE Final' /\ Load!NoFalseAlarm'
  <2>1. /\ report = "none" /\ UNCHANGED finalCount
        /\ \/ report' = "read" /\ finalStock' = loadStock
           \/ report' = "failed" /\ loadTroubled'
    BY <1>10 DEF Load!ReadStock, Load!Fault
  <2>2. QED
    BY <1>1, <2>1 DEF Final, Load!NoFalseAlarm
<1>11. ASSUME Load!CountReservations PROVE Final' /\ Load!NoFalseAlarm'
  <2>1. /\ report = "read" /\ UNCHANGED finalStock
        /\ \/ report' = "counted" /\ finalCount' = Cardinality(stored)
           \/ report' = "failed" /\ loadTroubled'
    BY <1>11, LoadCounts DEF Load!CountReservations, Load!Fault
  <2>2. QED
    BY <1>1, <1>9, <2>1 DEF LoadInv, Final, Load!NoFalseAlarm
<1>12. ASSUME Load!Judge PROVE Final' /\ Load!NoFalseAlarm'
  <2>1. /\ report = "counted" /\ UNCHANGED <<finalStock, finalCount, loadTroubled>>
        /\ \/ report' = IF Load!Meets THEN "passed" ELSE "failed"
           \/ expired /\ report' = "failed"
    BY <1>12 DEF Load!Judge
  <2>2. Load!Meets' = Load!Meets
    BY <1>1, <2>1 DEF Load!Meets, Load!With, Load!Successes
  <2>3. Final'
    BY <1>1, <1>9, <2>1, <2>2 DEF LoadInv, Final
  <2>4. Load!NoFalseAlarm'
    BY <1>1, <2>1, AtomicServiceMeets DEF Load!NoFalseAlarm
  <2>5. QED
    BY <2>3, <2>4
<1>13. Final' /\ Load!NoFalseAlarm'
  BY <1>10, <1>11, <1>12 DEF Load!MainNext
<1>14. QED
  BY <1>4, <1>6, <1>7, <1>8, <1>13 DEF LoadInv

LEMMA LoadStep ==
    ASSUME Load!LoadAssumption, LoadInv, [Load!Next]_loadVars
    PROVE  LoadInv'
<1>1. CASE Load!Expire \/ UNCHANGED loadVars
  <2>1. /\ UNCHANGED <<cursor, job, done, samples, finalStock, finalCount,
                        report, service, loadRequest, loadSeen, loadStock,
                        stored, loadTroubled>>
        /\ expired' \in BOOLEAN /\ (expired => expired')
    BY <1>1
       DEF Load!Expire, loadVars, Load!client, Load!verdict, Load!server,
           LoadInv, Load!TypeOK
  <2>2. Load!TypeOK'
    BY <2>1 DEF LoadInv, Load!TypeOK
  <2>3. /\ Load!EveryJobIsCountedOnce' = Load!EveryJobIsCountedOnce
        /\ Load!Meets' = Load!Meets
        /\ Load!With("transport error")' = Load!With("transport error")
    BY <2>1
       DEF Load!EveryJobIsCountedOnce, Load!Held, Load!Meets, Load!With,
           Load!Successes
  <2>4. Counted' /\ Answered' /\ Troubles'
    BY <2>1, <2>3 DEF LoadInv, Counted, Answered, Troubles
  <2>5. Final' /\ Load!NoFalseAlarm'
    BY <2>1, <2>3 DEF LoadInv, Final, Load!NoFalseAlarm
  <2>6. QED
    BY <2>2, <2>4, <2>5 DEF LoadInv
<1>2. ASSUME NEW w \in Workers, Load!Receive(w) \/ Load!GiveUp(w) PROVE LoadInv'
  <2>1. CASE Load!Receive(w)
    BY <2>1, SampleKeeps DEF Load!Receive
  <2>2. CASE Load!GiveUp(w)
    BY <2>2, SampleKeeps DEF Load!GiveUp, Load!Statuses
  <2>3. QED
    BY <1>2, <2>1, <2>2
<1>3. QED
  BY <1>1, <1>2, TakeKeeps, ReturnKeeps, ServiceNextKeeps, MainNextKeeps
     DEF Load!Next, Load!WorkerNext

LEMMA LoadIdleInv ==
    ASSUME Load!LoadAssumption, LoadIdle
    PROVE  LoadInv
BY UntouchedLoad DEF LoadIdle, Load!Unread

-----------------------------------------------------------------------------
(* A batch of the replica drill.                                           *)

\* Counting in ReplicaBatch is counting here.
LEMMA BatchCounts == \A S : Batch!Cardinality(S) = Cardinality(S)
BY DEF Batch!Cardinality, Cardinality

Fresh(w) == [id |-> w, status |-> "ACTIVE"]
Cancelled == [id |-> 0, status |-> "CANCELLED"]
Granted == {w \in Batch!Threads : answer[w].status = "201"}
Silent(w) == answer[w].status \in {"none", "other"}
Got(w, code, record) == answer[w] = [status |-> code, record |-> record]

\* How far the threads, their requests and the batch are.
Threading ==
    /\ \A w \in Batch!Threads :
           /\ thread[w] \in {"start", "waiting"} => batchRequest[w] = "none"
           /\ thread[w] = "ended" => batchRequest[w] = "done"
           /\ batchRequest[w] # "done" => answer[w] = Batch!NoAnswer
           /\ batchRequest[w] = "done" => answer[w].status # "none"
           /\ batchSeen[w].stock <= BatchStock
    /\ batchOutcome # "none" =>
           \A w \in Batch!Threads : thread[w] \in {"ended", "raised"}
    /\ batchOutcome \in {"answered", "passed"} =>
           \A w \in Batch!Threads : thread[w] = "ended"
    /\ batchOutcome = "passed" => Batch!Requirement /\ batchStock = Batch!ExpectedStock
    /\ ~batchTroubled =>
           /\ barrier # "broken"
           /\ \A w \in Batch!Threads :
                  thread[w] # "raised" /\ answer[w].status # "other"

\* What the answers say of the database, whatever the locks are.
Stored ==
    /\ batchKind \in {"create", "contend"} => records = {Fresh(w) : w \in Granted}
    /\ batchKind = "contend" =>
           \A w \in Batch!Threads :
               \/ Silent(w)
               \/ answer[w].status = "409"
               \/ Got(w, "201", Fresh(w))
    /\ batchKind = "replay" =>
           /\ records = {Batch!Earlier} /\ batchStock = BatchStock - Quantity
           /\ \A w \in Batch!Threads :
                  /\ batchSeen[w].records = {Batch!Earlier}
                  /\ Silent(w) \/ Got(w, "200", Batch!Earlier)
    /\ batchKind = "cancel" =>
           /\ \/ records = {Batch!Earlier} /\ batchStock = BatchStock - Quantity
              \/ records = {Cancelled} /\ batchStock = BatchStock
           /\ \A w \in Batch!Threads :
                  /\ \/ /\ batchSeen[w].records = {Batch!Earlier}
                        /\ batchSeen[w].stock = BatchStock - Quantity
                     \/ /\ batchSeen[w].records = {Cancelled}
                        /\ records = {Cancelled}
                  /\ \/ Silent(w)
                     \/ Got(w, "200", Cancelled) /\ records = {Cancelled}

\* One lock for both replicas: a request sees what the one before has left.
Serial ==
    locks = "shared" =>
        /\ \A w \in Batch!Threads :
               batchRequest[w] = "locked" =>
                   /\ holder["database"] = w
                   /\ batchSeen[w].stock = batchStock
                   /\ batchSeen[w].records = records
        /\ batchKind = "create" =>
               \/ /\ records = {} /\ batchStock = BatchStock
                  /\ \A w \in Batch!Threads : Silent(w)
               \/ \E v \in Batch!Threads :
                      /\ records = {Fresh(v)} /\ batchStock = BatchStock - Quantity
                      /\ Got(v, "201", Fresh(v))
                      /\ \A w \in Batch!Threads \ {v} :
                             Silent(w) \/ Got(w, "200", Fresh(v))
        /\ batchKind = "contend" =>
               /\ batchStock = BatchStock - Quantity * Cardinality(Granted)
               /\ \A w \in Batch!Threads :
                      answer[w].status = "409" => batchStock < Quantity

BatchInv ==
    /\ Batch!TypeOK
    /\ Threading
    /\ Stored
    /\ Serial
    /\ Batch!NoFalseAlarm

LEMMA Divided ==
    ASSUME NEW s \in Nat, NEW q \in Nat, q > 0, NEW n \in Nat, s - q * n >= 0
    PROVE  /\ n <= s \div q
           /\ s - q * n < q => s \div q = n
<1>1. s = q * (s \div q) + (s % q) /\ s % q \in 0..(q - 1) /\ s \div q \in Int
  BY Z3
<1> DEFINE d == s \div q
           r == s % q
<1>2. d \in Int /\ r \in Int /\ 0 <= r /\ r < q /\ s = q * d + r
  BY <1>1
<1> HIDE DEF d, r
<1>3. q * (n - d) <= r
  BY <1>2, Z3
<1>4. n <= d
  <2>1. SUFFICES ASSUME n >= d + 1 PROVE FALSE
    BY <1>2
  <2>2. q * (n - d) >= q
    BY <1>2, <2>1, Z3
  <2>3. QED
    BY <1>2, <1>3, <2>2, Z3
<1>5. ASSUME s - q * n < q PROVE d = n
  <2>1. SUFFICES ASSUME d >= n + 1 PROVE FALSE
    BY <1>2, <1>4
  <2>2. q * (d - n) >= q
    BY <1>2, <2>1, Z3
  <2>3. QED
    BY <1>2, <1>5, <2>2, Z3
<1>6. QED
  BY <1>4, <1>5 DEF d


LEMMA BatchSizes ==
    ASSUME Batch!BatchAssumption
    PROVE  /\ Count \in Nat /\ Count >= 2 /\ 1 \in Batch!Threads
           /\ 2 \in Batch!Threads
           /\ BatchStock \in Nat /\ Quantity \in Nat /\ Quantity > 0
           /\ Quantity <= BatchStock /\ BatchStock - Quantity \in 0..BatchStock
           /\ \A w \in Batch!Threads : w \in Nat /\ w # 0 /\ w \in 0..Count
           /\ IsFiniteSet(Batch!Threads) /\ Cardinality(Batch!Threads) = Count
           /\ IsFiniteSet(Granted) /\ Cardinality(Granted) \in Nat
<1>1. /\ Count \in Nat /\ Count >= 2 /\ BatchStock \in Nat
      /\ Quantity \in 1..BatchStock
  BY DEF Batch!BatchAssumption
<1>2. IsFiniteSet(Batch!Threads) /\ Cardinality(Batch!Threads) = Count
  BY <1>1, FS_Interval DEF Batch!Threads
<1>3. IsFiniteSet(Granted) /\ Cardinality(Granted) \in Nat
  BY <1>2, FS_Subset, FS_CardinalityType DEF Granted
<1>4. QED
  BY <1>1, <1>2, <1>3 DEF Batch!Threads

LEMMA EarlierIsARecord ==
    ASSUME Batch!BatchAssumption
    PROVE  /\ Batch!Earlier \in Batch!Records /\ Cancelled \in Batch!Records
           /\ Batch!Earlier # Cancelled
           /\ \A w \in Batch!Threads : Fresh(w) \in Batch!Records
           /\ [Batch!Earlier EXCEPT !.status = "CANCELLED"] = Cancelled
           /\ [Cancelled EXCEPT !.status = "CANCELLED"] = Cancelled
<1>1. 0 \in 0..Count /\ \A w \in Batch!Threads : w \in 0..Count
  BY BatchSizes
<1>2. /\ Batch!Earlier \in Batch!Records /\ Cancelled \in Batch!Records
      /\ \A w \in Batch!Threads : Fresh(w) \in Batch!Records
  BY <1>1 DEF Batch!Earlier, Cancelled, Fresh, Batch!Records
<1>3. Batch!Earlier # Cancelled
  BY DEF Batch!Earlier, Cancelled
<1>4. /\ [Batch!Earlier EXCEPT !.status = "CANCELLED"] = Cancelled
      /\ [Cancelled EXCEPT !.status = "CANCELLED"] = Cancelled
  BY DEF Batch!Earlier, Cancelled
<1>5. QED
  BY <1>2, <1>3, <1>4

\* A batch that has not begun, and one that has failed and sent nothing.
LEMMA UntouchedBatch ==
    ASSUME Batch!BatchAssumption, batchKind \in Batch!Kinds,
           locks \in {"shared", "local"},
           answer = [w \in Batch!Threads |-> Batch!NoAnswer],
           batchRequest = [w \in Batch!Threads |-> "none"],
           holder = [l \in Batch!Locks |-> 0],
           records = IF batchKind \in {"cancel", "replay"} THEN {Batch!Earlier} ELSE {},
           batchStock = IF records = {} THEN BatchStock ELSE BatchStock - Quantity,
           batchSeen = [w \in Batch!Threads |-> [stock |-> batchStock, records |-> records]],
           \/ /\ barrier = "filling" /\ batchOutcome = "none" /\ batchTroubled = FALSE
              /\ thread = [w \in Batch!Threads |-> "start"]
           \/ /\ barrier = "broken" /\ batchOutcome = "failed" /\ batchTroubled = TRUE
              /\ thread = [w \in Batch!Threads |-> "raised"]
    PROVE  BatchInv
<1>1. /\ \A w \in Batch!Threads : /\ thread[w] \in {"start", "raised"} /\ batchRequest[w] = "none"
                                  /\ answer[w] = Batch!NoAnswer
                                  /\ batchSeen[w].stock = batchStock
                                  /\ batchSeen[w].records = records
      /\ records \in {{}, {Batch!Earlier}} /\ batchStock \in 0..BatchStock
      /\ records = {} => batchStock = BatchStock
      /\ records = {Batch!Earlier} => batchStock = BatchStock - Quantity
      /\ records = {Batch!Earlier} <=> batchKind \in {"cancel", "replay"}
  <2>1. \A w \in Batch!Threads : /\ thread[w] \in {"start", "raised"} /\ batchRequest[w] = "none"
                                 /\ answer[w] = Batch!NoAnswer
                                 /\ batchSeen[w].stock = batchStock
                                 /\ batchSeen[w].records = records
    OBVIOUS
  <2>2. BatchStock \in 0..BatchStock /\ BatchStock - Quantity \in 0..BatchStock
    BY BatchSizes
  <2>3. records = IF batchKind \in {"cancel", "replay"} THEN {Batch!Earlier} ELSE {}
    OBVIOUS
  <2>4. batchStock = IF records = {} THEN BatchStock ELSE BatchStock - Quantity
    OBVIOUS
  <2>5. QED
    BY <2>1, <2>2, <2>3, <2>4
<1>2. Batch!TypeOK
  <2>1. Batch!NoAnswer \in Batch!Answers
    BY DEF Batch!NoAnswer, Batch!Answers, Batch!Plain
  <2>2. [stock |-> batchStock, records |-> records] \in Batch!Snapshots
    <3>1. batchStock \in 0..(BatchStock + Quantity)
      BY <1>1, BatchSizes
    <3>2. records \subseteq Batch!Records
      BY <1>1, EarlierIsARecord
    <3>3. QED
      BY <3>1, <3>2 DEF Batch!Snapshots
  <2>3. 0 \in 0..Count /\ records \subseteq Batch!Records
    BY <1>1, BatchSizes, EarlierIsARecord
  <2>4. QED
    BY <1>1, <2>1, <2>2, <2>3 DEF Batch!TypeOK
<1>3. \A w \in Batch!Threads : answer[w].status = "none" /\ Silent(w)
  BY <1>1 DEF Batch!NoAnswer, Silent
<1>4. Granted = {}
  BY <1>3 DEF Granted
<1>5. Threading
  <2>1. batchStock <= BatchStock
    BY <1>1, BatchSizes
  <2>2. QED
    BY <1>1, <1>3, <2>1 DEF Threading
<1>6. Stored
  <2>1. CASE batchKind \in {"create", "contend"}
    BY <1>1, <1>3, <1>4, <2>1 DEF Stored
  <2>2. CASE batchKind \in {"cancel", "replay"}
    BY <1>1, <1>3, <2>2 DEF Stored
  <2>3. QED
    BY <2>1, <2>2 DEF Batch!Kinds
<1>7. Serial
  <2>1. batchKind \in {"create", "contend"} => records = {} /\ batchStock = BatchStock
    BY <1>1 DEF Batch!Earlier
  <2>2. BatchStock = BatchStock - Quantity * Cardinality(Granted)
    BY <1>4, FS_EmptySet, BatchSizes
  <2>3. QED
    BY <1>1, <1>3, <2>1, <2>2 DEF Serial
<1>8. Batch!NoFalseAlarm
  BY DEF Batch!NoFalseAlarm
<1>9. QED
  BY <1>2, <1>5, <1>6, <1>7, <1>8 DEF BatchInv

LEMMA InitBatch == ASSUME Batch!BatchAssumption, Batch!Init PROVE BatchInv
BY UntouchedBatch DEF Batch!Init

-----------------------------------------------------------------------------
(* The threads.                                                            *)

\* What a step that leaves the database and the answers alone has to show.
LEMMA ClientKeeps ==
    ASSUME Batch!BatchAssumption, BatchInv, Batch!TypeOK', Threading',
           Batch!NoFalseAlarm',
           UNCHANGED <<batchKind, locks, answer, holder, batchSeen, batchStock,
                       records>>,
           \A w \in Batch!Threads : batchRequest'[w] = "locked" => batchRequest[w] = "locked"
    PROVE  BatchInv'
<1>1. Stored'
  BY DEF BatchInv, Stored, Granted, Silent, Got
<1>2. Serial'
  <2>1. SUFFICES ASSUME locks = "shared" PROVE Serial'
    BY DEF Serial
  <2>2. \A w \in Batch!Threads :
            batchRequest'[w] = "locked" =>
                /\ holder'["database"] = w
                /\ batchSeen'[w].stock = batchStock'
                /\ batchSeen'[w].records = records'
    BY <2>1 DEF BatchInv, Serial
  <2>3. batchKind = "create" =>
            \/ /\ records = {} /\ batchStock = BatchStock
               /\ \A w \in Batch!Threads : Silent(w)
            \/ \E v \in Batch!Threads :
                   /\ records = {Fresh(v)} /\ batchStock = BatchStock - Quantity
                   /\ Got(v, "201", Fresh(v))
                   /\ \A w \in Batch!Threads \ {v} :
                          Silent(w) \/ Got(w, "200", Fresh(v))
    BY <2>1 DEF BatchInv, Serial
  <2>4. batchKind = "contend" =>
            /\ batchStock = BatchStock - Quantity * Cardinality(Granted)
            /\ \A w \in Batch!Threads :
                   answer[w].status = "409" => batchStock < Quantity
    BY <2>1 DEF BatchInv, Serial
  <2>5. QED
    BY <2>2, <2>3, <2>4 DEF Serial, Granted, Silent, Got
<1>3. QED
  BY <1>1, <1>2 DEF BatchInv

\* No thread starts, waits or has sent: nothing is over.
LEMMA StillOpen ==
    ASSUME BatchInv, NEW w \in Batch!Threads,
           thread[w] \notin {"ended", "raised"}
    PROVE  batchOutcome = "none"
BY DEF BatchInv, Threading, Batch!TypeOK

LEMMA ThreadNextKeeps ==
    ASSUME Batch!BatchAssumption, BatchInv, NEW w \in Batch!Threads,
           Batch!ThreadNext(w)
    PROVE  BatchInv'
<1>1. /\ UNCHANGED <<batchKind, locks, answer, batchOutcome, holder, batchSeen,
                     batchStock, records>>
      /\ thread[w] \in {"start", "waiting", "sent"}
      /\ \A v \in Batch!Threads \ {w} :
             thread'[v] = thread[v] /\ batchRequest'[v] = batchRequest[v]
      /\ thread' \in [Batch!Threads -> {"start", "waiting", "sent", "ended", "raised"}]
      /\ batchRequest' \in [Batch!Threads -> {"none", "sent", "locked", "done"}]
  BY DEF Batch!ThreadNext, Batch!Arrive, Batch!Send, Batch!Receive,
         Batch!GiveUp, Batch!batch, Batch!client, Batch!server,
         BatchInv, Batch!TypeOK
<1>2. batchOutcome = "none"
  BY <1>1, StillOpen
<1>3. /\ barrier' \in {barrier, "open"}
      /\ barrier' = barrier \/ barrier' = "open"
      /\ UNCHANGED batchTroubled \/ batchTroubled' = TRUE
  BY DEF Batch!ThreadNext, Batch!Arrive, Batch!Send, Batch!Receive,
         Batch!GiveUp, Batch!Fault
<1>4. \/ /\ thread[w] = "start" /\ thread'[w] = "waiting"
         /\ UNCHANGED <<batchRequest, batchTroubled>>
      \/ /\ thread[w] = "waiting" /\ thread'[w] = "sent" /\ batchRequest'[w] = "sent"
         /\ UNCHANGED batchTroubled
      \/ /\ barrier = "broken" /\ thread[w] \in {"start", "waiting"}
         /\ thread'[w] = "raised" /\ UNCHANGED <<batchRequest, batchTroubled>>
      \/ /\ thread[w] = "sent" /\ batchRequest[w] = "done" /\ thread'[w] = "ended"
         /\ UNCHANGED <<batchRequest, batchTroubled>>
      \/ /\ thread[w] = "sent" /\ thread'[w] = "raised" /\ UNCHANGED batchRequest
         /\ batchTroubled' = TRUE
  BY DEF Batch!ThreadNext, Batch!Arrive, Batch!Send, Batch!Receive,
         Batch!GiveUp, Batch!Fault, Batch!server, BatchInv, Batch!TypeOK
<1>5. Batch!TypeOK'
  BY <1>1, <1>3 DEF BatchInv, Batch!TypeOK, Batch!Locks
<1>6. Threading'
  <2>1. /\ thread[w] \in {"start", "waiting"} => batchRequest[w] = "none"
        /\ batchRequest[w] # "done" => answer[w] = Batch!NoAnswer
        /\ batchRequest[w] = "done" => answer[w].status # "none"
        /\ batchSeen[w].stock <= BatchStock
        /\ ~batchTroubled => barrier # "broken" /\ answer[w].status # "other"
    BY DEF BatchInv, Threading
  <2>2. /\ thread'[w] \in {"start", "waiting"} => batchRequest'[w] = "none"
        /\ thread'[w] = "ended" => batchRequest'[w] = "done"
        /\ batchRequest'[w] # "done" => answer'[w] = Batch!NoAnswer
        /\ batchRequest'[w] = "done" => answer'[w].status # "none"
        /\ batchSeen'[w].stock <= BatchStock
    BY <1>1, <1>4, <2>1
  <2>3. ~batchTroubled' => ~batchTroubled /\ barrier' # "broken" /\ thread'[w] # "raised"
                           /\ answer'[w].status # "other"
    BY <1>1, <1>3, <1>4, <2>1
  <2>4. \A v \in Batch!Threads \ {w} :
            /\ thread'[v] \in {"start", "waiting"} => batchRequest'[v] = "none"
            /\ thread'[v] = "ended" => batchRequest'[v] = "done"
            /\ batchRequest'[v] # "done" => answer'[v] = Batch!NoAnswer
            /\ batchRequest'[v] = "done" => answer'[v].status # "none"
            /\ batchSeen'[v].stock <= BatchStock
    BY <1>1 DEF BatchInv, Threading
  <2>5. ~batchTroubled => \A v \in Batch!Threads \ {w} :
                             thread'[v] # "raised" /\ answer'[v].status # "other"
    BY <1>1 DEF BatchInv, Threading
  <2>6. QED
    BY <1>1, <1>2, <2>2, <2>3, <2>4, <2>5 DEF Threading
<1>7. Batch!NoFalseAlarm'
  BY <1>1, <1>2 DEF Batch!NoFalseAlarm
<1>8. \A v \in Batch!Threads : batchRequest'[v] = "locked" => batchRequest[v] = "locked"
  BY <1>1, <1>4
<1>9. QED
  BY <1>1, <1>5, <1>6, <1>7, <1>8, ClientKeeps

LEMMA BreakKeeps ==
    ASSUME Batch!BatchAssumption, BatchInv, Batch!Break
    PROVE  BatchInv'
<1>1. /\ barrier' = "broken" /\ batchTroubled' = TRUE
      /\ UNCHANGED <<batchKind, locks, thread, answer, batchOutcome,
                     batchRequest, holder,
                      batchSeen, batchStock, records>>
  BY DEF Batch!Break, Batch!Fault, Batch!batch, Batch!server
<1>2. Batch!TypeOK'
  BY <1>1 DEF BatchInv, Batch!TypeOK, Batch!Locks
<1>3. /\ Batch!Requirement' = Batch!Requirement
      /\ Batch!ExpectedStock' = Batch!ExpectedStock
  BY <1>1
     DEF Batch!Requirement, Batch!RequireSameReservation,
         Batch!RequireStockConflicts,
              Batch!Number, Batch!SameRecord, Batch!ExpectedStock
<1>4. Threading'
  BY <1>1, <1>3 DEF BatchInv, Threading
<1>5. Batch!NoFalseAlarm'
  BY <1>1 DEF Batch!NoFalseAlarm
<1>6. QED
  BY <1>1, <1>2, <1>4, <1>5, ClientKeeps


-----------------------------------------------------------------------------
(* The service.                                                            *)

\* What an open request leaves to be shown, whatever it does.
LEMMA BatchServiceKeeps ==
    ASSUME Batch!BatchAssumption, BatchInv, NEW w \in Batch!Threads,
           batchRequest[w] \in {"sent", "locked"},
           UNCHANGED <<batchKind, locks, barrier, thread, batchOutcome>>,
           Batch!TypeOK', Stored', Serial',
           \A v \in Batch!Threads \ {w} :
               /\ batchRequest'[v] = batchRequest[v] /\ answer'[v] = answer[v]
               /\ batchSeen'[v] = batchSeen[v],
           batchSeen'[w].stock <= BatchStock,
           \/ batchRequest'[w] = "locked" /\ answer'[w] = answer[w]
           \/ batchRequest'[w] = "done" /\ answer'[w].status # "none",
           \/ UNCHANGED batchTroubled /\ answer'[w].status # "other"
           \/ batchTroubled' = TRUE
    PROVE  BatchInv'
<1>1. thread[w] \notin {"start", "waiting", "ended"}
  BY DEF BatchInv, Threading
<1>2. batchOutcome \notin {"answered", "passed"}
  BY <1>1 DEF BatchInv, Threading
<1>3. Threading'
  <2>1. /\ thread'[w] \in {"start", "waiting"} => batchRequest'[w] = "none"
        /\ thread'[w] = "ended" => batchRequest'[w] = "done"
        /\ batchRequest'[w] # "done" => answer'[w] = Batch!NoAnswer
        /\ batchRequest'[w] = "done" => answer'[w].status # "none"
        /\ batchSeen'[w].stock <= BatchStock
    BY <1>1 DEF BatchInv, Threading
  <2>2. \A v \in Batch!Threads \ {w} :
            /\ thread'[v] \in {"start", "waiting"} => batchRequest'[v] = "none"
            /\ thread'[v] = "ended" => batchRequest'[v] = "done"
            /\ batchRequest'[v] # "done" => answer'[v] = Batch!NoAnswer
            /\ batchRequest'[v] = "done" => answer'[v].status # "none"
            /\ batchSeen'[v].stock <= BatchStock
    BY DEF BatchInv, Threading
  <2>3. ~batchTroubled' =>
            /\ barrier' # "broken"
            /\ \A v \in Batch!Threads :
                   thread'[v] # "raised" /\ answer'[v].status # "other"
    BY DEF BatchInv, Threading
  <2>4. batchOutcome' # "none" =>
            \A v \in Batch!Threads : thread'[v] \in {"ended", "raised"}
    BY DEF BatchInv, Threading
  <2>5. QED
    BY <1>2, <2>1, <2>2, <2>3, <2>4 DEF Threading
<1>4. Batch!NoFalseAlarm'
  BY DEF BatchInv, Batch!NoFalseAlarm
<1>5. QED
  BY <1>3, <1>4 DEF BatchInv

LEMMA LockKeeps ==
    ASSUME Batch!BatchAssumption, BatchInv, NEW w \in Batch!Threads, Batch!Lock(w)
    PROVE  BatchInv'
<1>1. /\ batchRequest[w] = "sent" /\ holder[Batch!LockOf(w)] = 0
      /\ UNCHANGED <<batchKind, locks, barrier, thread, answer, batchOutcome,
                     batchStock,
                      records, batchTroubled>>
  BY DEF Batch!Lock, Batch!batch, Batch!client
<1>2. /\ batchSeen'[w].stock = batchStock /\ batchSeen'[w].records = records
      /\ batchSeen'[w] \in Batch!Snapshots
      /\ batchSeen' \in [Batch!Threads -> Batch!Snapshots]
      /\ \A v \in Batch!Threads \ {w} : batchSeen'[v] = batchSeen[v]
  <2>1. [stock |-> batchStock, records |-> records] \in Batch!Snapshots
    <3>1. batchStock \in 0..(BatchStock + Quantity)
      BY BatchSizes DEF BatchInv, Batch!TypeOK
    <3>2. QED
      BY <3>1 DEF BatchInv, Batch!TypeOK, Batch!Snapshots
  <2>2. batchSeen' = [batchSeen EXCEPT ![w] = [stock |-> batchStock, records |-> records]]
    BY DEF Batch!Lock
  <2>3. batchSeen \in [Batch!Threads -> Batch!Snapshots]
    BY DEF BatchInv, Batch!TypeOK
  <2>4. QED
    BY <2>1, <2>2, <2>3
<1>3. /\ batchRequest'[w] = "locked"
      /\ batchRequest' \in [Batch!Threads -> {"none", "sent", "locked", "done"}]
      /\ \A v \in Batch!Threads \ {w} : batchRequest'[v] = batchRequest[v]
  BY DEF Batch!Lock, BatchInv, Batch!TypeOK
<1>4. /\ holder' \in [Batch!Locks -> 0..Count]
      /\ locks = "shared" => holder["database"] = 0 /\ holder'["database"] = w
  BY <1>1, BatchSizes
     DEF Batch!Lock, Batch!Locks, Batch!LockOf, Batch!Replica, BatchInv,
         Batch!TypeOK
<1>5. Batch!TypeOK'
  BY <1>1, <1>2, <1>3, <1>4 DEF BatchInv, Batch!TypeOK, Batch!Locks
<1>6. answer[w] = Batch!NoAnswer /\ answer[w].status = "none"
  BY <1>1 DEF BatchInv, Threading, Batch!NoAnswer
<1>7. Stored'
  <2>1. batchKind = "replay" => batchSeen'[w].records = {Batch!Earlier}
    BY <1>2 DEF BatchInv, Stored
  <2>2. batchKind = "cancel" =>
            \/ batchSeen'[w].records = {Batch!Earlier} /\ batchSeen'[w].stock = BatchStock - Quantity
            \/ batchSeen'[w].records = {Cancelled} /\ records = {Cancelled}
    BY <1>2 DEF BatchInv, Stored
  <2>3. QED
    BY <1>1, <1>2, <2>1, <2>2
       DEF BatchInv, Stored, Granted, Silent, Got
<1>8. Serial'
  <2>1. SUFFICES ASSUME locks = "shared" PROVE Serial'
    BY <1>1 DEF Serial
  <2>2. \A v \in Batch!Threads : batchRequest[v] # "locked"
    <3>1. \A v \in Batch!Threads : batchRequest[v] = "locked" => holder["database"] = v
      BY <2>1 DEF BatchInv, Serial
    <3>2. QED
      BY <1>4, <2>1, <3>1, BatchSizes
  <2>3. \A v \in Batch!Threads :
            batchRequest'[v] = "locked" =>
                /\ holder'["database"] = v
                /\ batchSeen'[v].stock = batchStock'
                /\ batchSeen'[v].records = records'
    BY <1>1, <1>2, <1>3, <1>4, <2>1, <2>2
  <2>4. /\ batchKind = "create" =>
               \/ /\ records = {} /\ batchStock = BatchStock
                  /\ \A v \in Batch!Threads : Silent(v)
               \/ \E v \in Batch!Threads :
                      /\ records = {Fresh(v)} /\ batchStock = BatchStock - Quantity
                      /\ Got(v, "201", Fresh(v))
                      /\ \A u \in Batch!Threads \ {v} :
                             Silent(u) \/ Got(u, "200", Fresh(v))
        /\ batchKind = "contend" =>
               /\ batchStock = BatchStock - Quantity * Cardinality(Granted)
               /\ \A v \in Batch!Threads :
                      answer[v].status = "409" => batchStock < Quantity
    BY <2>1 DEF BatchInv, Serial
  <2>5. QED
    BY <1>1, <2>3, <2>4 DEF Serial, Granted, Silent, Got
<1>9. batchSeen'[w].stock <= BatchStock
  BY <1>2, BatchSizes DEF BatchInv, Batch!TypeOK
<1>10. ~batchTroubled => answer'[w].status # "other"
  BY <1>1, <1>6
<1>11. QED
  BY <1>1, <1>2, <1>3, <1>5, <1>6, <1>7, <1>8, <1>9, BatchServiceKeeps

LEMMA RefuseKeeps ==
    ASSUME Batch!BatchAssumption, BatchInv, NEW w \in Batch!Threads, Batch!Refuse(w)
    PROVE  BatchInv'
<1>1. /\ batchRequest[w] = "sent" /\ batchTroubled' = TRUE
      /\ UNCHANGED <<batchKind, locks, barrier, thread, batchOutcome, holder,
                     batchSeen,
                      batchStock, records>>
  BY DEF Batch!Refuse, Batch!Fault, Batch!batch
<1>2. /\ batchRequest'[w] = "done" /\ answer'[w].status = "other"
      /\ batchRequest' \in [Batch!Threads -> {"none", "sent", "locked", "done"}]
      /\ answer' \in [Batch!Threads -> Batch!Answers]
      /\ \A v \in Batch!Threads \ {w} :
             batchRequest'[v] = batchRequest[v] /\ answer'[v] = answer[v]
  <2>1. [status |-> "other"] \in Batch!Answers
    BY DEF Batch!Answers, Batch!Plain
  <2>2. QED
    BY <2>1 DEF Batch!Refuse, BatchInv, Batch!TypeOK
<1>3. answer[w].status = "none"
  BY <1>1 DEF BatchInv, Threading, Batch!NoAnswer
<1>4. Batch!TypeOK'
  BY <1>1, <1>2 DEF BatchInv, Batch!TypeOK, Batch!Locks
<1>5. /\ Granted' = Granted
      /\ \A v \in Batch!Threads : Silent(v) => Silent(v)'
  BY <1>2, <1>3 DEF Granted, Silent
<1>6. \A v \in Batch!Threads : ~Silent(v) => v # w
  BY <1>3 DEF Silent
<1>7. Stored'
  BY <1>1, <1>2, <1>3, <1>5 DEF BatchInv, Stored, Silent, Got
<1>8. Serial'
  <2>1. SUFFICES ASSUME locks = "shared" PROVE Serial'
    BY <1>1 DEF Serial
  <2>2. \A v \in Batch!Threads :
            batchRequest'[v] = "locked" =>
                /\ holder'["database"] = v
                /\ batchSeen'[v].stock = batchStock'
                /\ batchSeen'[v].records = records'
    BY <1>1, <1>2, <2>1 DEF BatchInv, Serial
  <2>3. batchKind = "create" =>
            \/ /\ records = {} /\ batchStock = BatchStock
               /\ \A v \in Batch!Threads : Silent(v)
            \/ \E v \in Batch!Threads :
                   /\ records = {Fresh(v)} /\ batchStock = BatchStock - Quantity
                   /\ Got(v, "201", Fresh(v))
                   /\ \A u \in Batch!Threads \ {v} :
                          Silent(u) \/ Got(u, "200", Fresh(v))
    BY <2>1 DEF BatchInv, Serial
  <2>4. batchKind = "contend" =>
            /\ batchStock = BatchStock - Quantity * Cardinality(Granted)
            /\ \A v \in Batch!Threads :
                   answer[v].status = "409" => batchStock < Quantity
    BY <2>1 DEF BatchInv, Serial
  <2>5. batchKind' = "create" =>
                 \/ /\ records' = {} /\ batchStock' = BatchStock
                    /\ \A v \in Batch!Threads : Silent(v)'
                 \/ \E v \in Batch!Threads :
                        /\ records' = {Fresh(v)}
                        /\ batchStock' = BatchStock - Quantity
                        /\ Got(v, "201", Fresh(v))'
                        /\ \A u \in Batch!Threads \ {v} :
                               Silent(u)' \/ Got(u, "200", Fresh(v))'
    <3>1. SUFFICES ASSUME batchKind = "create" PROVE
              \/ /\ records = {} /\ batchStock = BatchStock
                 /\ \A v \in Batch!Threads : Silent(v)'
              \/ \E v \in Batch!Threads :
                     /\ records = {Fresh(v)} /\ batchStock = BatchStock - Quantity
                     /\ Got(v, "201", Fresh(v))'
                     /\ \A u \in Batch!Threads \ {v} :
                            Silent(u)' \/ Got(u, "200", Fresh(v))'
      BY <1>1
    <3>2. CASE /\ records = {} /\ batchStock = BatchStock
               /\ \A v \in Batch!Threads : Silent(v)
      BY <1>5, <3>2
    <3>3. CASE \E v \in Batch!Threads :
                   /\ records = {Fresh(v)} /\ batchStock = BatchStock - Quantity
                   /\ Got(v, "201", Fresh(v))
                   /\ \A u \in Batch!Threads \ {v} :
                          Silent(u) \/ Got(u, "200", Fresh(v))
      <4>1. PICK v \in Batch!Threads :
                   /\ records = {Fresh(v)} /\ batchStock = BatchStock - Quantity
                   /\ Got(v, "201", Fresh(v))
                   /\ \A u \in Batch!Threads \ {v} :
                          Silent(u) \/ Got(u, "200", Fresh(v))
        BY <3>3
      <4>2. v # w
        BY <1>3, <4>1 DEF Got
      <4>3. Got(v, "201", Fresh(v))'
        BY <1>2, <4>1, <4>2 DEF Got
      <4>4. \A u \in Batch!Threads \ {v} : Silent(u)' \/ Got(u, "200", Fresh(v))'
        BY <1>2, <4>1 DEF Silent, Got
      <4>5. QED
        BY <4>1, <4>3, <4>4
    <3>4. QED
      BY <2>3, <3>1, <3>2, <3>3
  <2>6. batchKind' = "contend" =>
                 /\ batchStock' = BatchStock - Quantity * Cardinality(Granted')
                 /\ \A v \in Batch!Threads :
                        answer'[v].status = "409" => batchStock' < Quantity
    <3>1. \A v \in Batch!Threads :
              answer'[v].status = "409" => answer[v].status = "409"
      BY <1>2
    <3>2. QED
      BY <1>1, <1>5, <2>4, <3>1
  <2>7. QED
    BY <1>1, <2>2, <2>5, <2>6 DEF Serial
<1>9. batchSeen'[w].stock <= BatchStock
  BY <1>1 DEF BatchInv, Threading
<1>10. QED
  BY <1>1, <1>2, <1>4, <1>7, <1>8, <1>9, BatchServiceKeeps


\* The four ways to decide.
Granting(w) ==
    /\ batchKind = "contend" \/ (batchKind = "create" /\ batchSeen[w].records = {})
    /\ batchSeen[w].stock >= Quantity
    /\ batchStock' = batchSeen[w].stock - Quantity
    /\ records' = records \cup {Fresh(w)}
    /\ answer'[w] = [status |-> "201", record |-> Fresh(w)]
Rejecting(w) ==
    /\ batchKind = "contend" \/ (batchKind = "create" /\ batchSeen[w].records = {})
    /\ ~(batchSeen[w].stock >= Quantity)
    /\ UNCHANGED <<batchStock, records>>
    /\ answer'[w] = [status |-> "409"]
Replaying(w) ==
    /\ batchKind \in {"create", "replay"}
    /\ UNCHANGED <<batchStock, records>>
    /\ \E record \in batchSeen[w].records :
           answer'[w] = [status |-> "200", record |-> record]
Cancelling(w) ==
    /\ batchKind = "cancel"
    /\ batchStock' = BatchStock /\ records' = {Cancelled}
    /\ answer'[w] = [status |-> "200", record |-> Cancelled]

\* A decision answers one request.
LEMMA OneIsAnswered ==
    ASSUME BatchInv, NEW w \in Batch!Threads, Batch!Commit(w)
    PROVE  \E code : answer' = [answer EXCEPT ![w] = code]
<1>1. Batch!Decide(w) /\ batchKind \in Batch!Kinds
  BY DEF Batch!Commit, BatchInv, Batch!TypeOK
<1>2. ASSUME Batch!Create(w) PROVE \E code : answer' = [answer EXCEPT ![w] = code]
  BY <1>2 DEF Batch!Create, Batch!Reply
<1>3. CASE batchKind = "contend"
  <2>1. Batch!Create(w)
    BY <1>1, <1>3 DEF Batch!Decide
  <2>2. QED
    BY <1>2, <2>1
<1>4. CASE batchKind \in {"create", "replay"}
  <2>1. \/ Batch!Create(w)
        \/ \E record \in batchSeen[w].records : Batch!Reply(w, "200", record)
    BY <1>1, <1>4 DEF Batch!Decide
  <2>2. QED
    BY <1>2, <2>1 DEF Batch!Reply
<1>5. CASE batchKind = "cancel"
  <2>1. \E record : Batch!Reply(w, "200", record)
    BY <1>1, <1>5 DEF Batch!Decide
  <2>2. QED
    BY <2>1 DEF Batch!Reply
<1>6. QED
  BY <1>1, <1>3, <1>4, <1>5 DEF Batch!Kinds

LEMMA Decisions ==
    ASSUME Batch!BatchAssumption, BatchInv, NEW w \in Batch!Threads, Batch!Commit(w)
    PROVE  Granting(w) \/ Rejecting(w) \/ Replaying(w) \/ Cancelling(w)
<1>1. /\ Batch!Decide(w) /\ batchKind \in Batch!Kinds
      /\ answer \in [Batch!Threads -> Batch!Answers]
  BY DEF Batch!Commit, BatchInv, Batch!TypeOK
<1>2. ASSUME Batch!Create(w),
             batchKind = "contend" \/ (batchKind = "create" /\ batchSeen[w].records = {})
      PROVE  Granting(w) \/ Rejecting(w)
  <2>1. CASE batchSeen[w].stock >= Quantity
    BY <1>1, <1>2, <2>1 DEF Batch!Create, Batch!Reply, Fresh, Granting
  <2>2. CASE ~(batchSeen[w].stock >= Quantity)
    BY <1>1, <1>2, <2>2 DEF Batch!Create, Batch!Reply, Rejecting
  <2>3. QED
    BY <2>1, <2>2
<1>3. CASE batchKind = "contend"
  <2>1. Batch!Create(w)
    BY <1>1, <1>3 DEF Batch!Decide
  <2>2. batchKind = "contend" \/ (batchKind = "create" /\ batchSeen[w].records = {})
    BY <1>3
  <2>3. QED
    BY <1>2, <2>1, <2>2
<1>4. CASE batchKind \in {"create", "replay"}
  <2>1. \/ batchSeen[w].records = {} /\ Batch!Create(w)
        \/ \E record \in batchSeen[w].records :
               /\ answer'[w] = [status |-> "200", record |-> record]
               /\ UNCHANGED <<batchStock, records>>
    BY <1>1, <1>4 DEF Batch!Decide, Batch!Reply
  <2>2. batchKind = "replay" => batchSeen[w].records # {}
    BY DEF BatchInv, Stored
  <2>3. QED
    BY <1>2, <1>4, <2>1, <2>2 DEF Replaying
<1>5. CASE batchKind = "cancel"
  <2>1. PICK record \in batchSeen[w].records :
            LET cancelled == [record EXCEPT !.status = "CANCELLED"] IN
            /\ Batch!Reply(w, "200", cancelled)
            /\ IF record.status = "ACTIVE"
               THEN /\ batchStock' = batchSeen[w].stock + Quantity
                    /\ records' = (records \ {record}) \cup {cancelled}
               ELSE UNCHANGED <<batchStock, records>>
    BY <1>1, <1>5 DEF Batch!Decide
  <2>2. /\ \/ records = {Batch!Earlier} /\ batchStock = BatchStock - Quantity
           \/ records = {Cancelled} /\ batchStock = BatchStock
        /\ \/ batchSeen[w].records = {Batch!Earlier} /\ batchSeen[w].stock = BatchStock - Quantity
           \/ batchSeen[w].records = {Cancelled} /\ records = {Cancelled}
    BY <1>5 DEF BatchInv, Stored
  <2>3. answer'[w] = [status |-> "200", record |-> Cancelled]
    BY <1>1, <2>1, <2>2, EarlierIsARecord DEF Batch!Reply
  <2>4. CASE record = Batch!Earlier
    <3>1. record.status = "ACTIVE" /\ batchSeen[w].records = {Batch!Earlier}
          /\ batchSeen[w].stock = BatchStock - Quantity
      BY <2>2, <2>4, EarlierIsARecord DEF Batch!Earlier
    <3>2. /\ batchStock' = batchSeen[w].stock + Quantity
          /\ records' = (records \ {Batch!Earlier}) \cup {Cancelled}
      BY <2>1, <2>4, <3>1, EarlierIsARecord
    <3>3. batchStock' = BatchStock
      BY <3>1, <3>2, BatchSizes
    <3>4. records' = {Cancelled}
      BY <2>2, <3>2, EarlierIsARecord
    <3>5. QED
      BY <1>5, <2>3, <3>3, <3>4 DEF Cancelling
  <2>5. CASE record = Cancelled
    <3>1. record.status # "ACTIVE" /\ batchSeen[w].records = {Cancelled}
      BY <2>1, <2>2, <2>5, EarlierIsARecord DEF Cancelled
    <3>2. UNCHANGED <<batchStock, records>> /\ records = {Cancelled}
      BY <2>1, <2>2, <3>1, EarlierIsARecord
    <3>3. batchStock = BatchStock
      BY <2>2, <3>2, EarlierIsARecord
    <3>4. QED
      BY <1>5, <2>3, <3>2, <3>3 DEF Cancelling
  <2>6. QED
    BY <2>1, <2>2, <2>4, <2>5
<1>6. QED
  BY <1>1, <1>3, <1>4, <1>5 DEF Batch!Kinds


LEMMA CommitKeeps ==
    ASSUME Batch!BatchAssumption, BatchInv, NEW w \in Batch!Threads, Batch!Commit(w)
    PROVE  BatchInv'
<1>1. /\ batchRequest[w] = "locked"
      /\ UNCHANGED <<batchKind, locks, barrier, thread, batchOutcome, batchSeen,
                     batchTroubled>>
  BY DEF Batch!Commit, Batch!batch
<1>2. /\ batchRequest'[w] = "done"
      /\ batchRequest' \in [Batch!Threads -> {"none", "sent", "locked", "done"}]
      /\ holder' \in [Batch!Locks -> 0..Count]
      /\ \A v \in Batch!Threads \ {w} : batchRequest'[v] = batchRequest[v]
  <2>1. 0 \in 0..Count
    BY BatchSizes
  <2>2. QED
    BY <2>1 DEF Batch!Commit, BatchInv, Batch!TypeOK
<1>3. \A v \in Batch!Threads \ {w} : answer'[v] = answer[v]
  BY OneIsAnswered DEF BatchInv, Batch!TypeOK
<1>4. answer[w] = Batch!NoAnswer /\ answer[w].status = "none" /\ Silent(w)
  BY <1>1 DEF BatchInv, Threading, Batch!NoAnswer, Silent
<1>5. /\ batchSeen[w].stock \in 0..BatchStock
      /\ batchSeen[w].records \subseteq Batch!Records
      /\ batchStock \in 0..BatchStock /\ records \subseteq Batch!Records
      /\ batchStock \in Nat
      /\ answer \in [Batch!Threads -> Batch!Answers] /\ batchSeen[w].stock \in Nat
  <2>1. batchSeen[w] \in Batch!Snapshots /\ batchSeen[w].stock <= BatchStock
    BY DEF BatchInv, Batch!TypeOK, Threading
  <2>2. /\ batchSeen[w].stock \in 0..BatchStock
        /\ batchSeen[w].records \subseteq Batch!Records
    BY <2>1, BatchSizes DEF Batch!Snapshots
  <2>3. QED
    BY <2>2, BatchSizes DEF BatchInv, Batch!TypeOK
<1>6. batchSeen'[w].stock <= BatchStock /\ (~batchTroubled => answer[w].status # "other")
  BY <1>1, <1>4 DEF BatchInv, Threading
<1>7. Granting(w) \/ Rejecting(w) \/ Replaying(w) \/ Cancelling(w)
  BY Decisions
<1>8. /\ answer'[w].status \in {"200", "201", "409"}
      /\ Granting(w) => answer'[w].status = "201"
      /\ Rejecting(w) => answer'[w].status = "409"
      /\ Replaying(w) \/ Cancelling(w) => answer'[w].status = "200"
  <2>1. Granting(w) => answer'[w].status = "201"
    BY DEF Granting
  <2>2. Rejecting(w) => answer'[w].status = "409"
    BY DEF Rejecting
  <2>3. Replaying(w) => answer'[w].status = "200"
    BY DEF Replaying
  <2>4. Cancelling(w) => answer'[w].status = "200"
    BY DEF Cancelling
  <2>5. QED
    BY <1>7, <2>1, <2>2, <2>3, <2>4
<1>9. Batch!TypeOK'
  <2>1. answer'[w] \in Batch!Answers
    <3>1. CASE Granting(w)
      BY <3>1, EarlierIsARecord
         DEF Batch!Answers, Granting, Rejecting, Replaying, Cancelling
    <3>2. CASE Rejecting(w)
      <4>1. answer'[w] = [status |-> "409"]
        BY <3>2 DEF Granting, Rejecting, Replaying, Cancelling
      <4>2. QED
        BY <4>1 DEF Batch!Answers, Batch!Plain
    <3>3. CASE Replaying(w)
      BY <1>5, <3>3
         DEF Batch!Answers, Granting, Rejecting, Replaying, Cancelling
    <3>4. CASE Cancelling(w)
      BY <3>4, EarlierIsARecord
         DEF Batch!Answers, Granting, Rejecting, Replaying, Cancelling
    <3>5. QED
      BY <1>7, <3>1, <3>2, <3>3, <3>4
  <2>2. answer' \in [Batch!Threads -> Batch!Answers]
    <3>1. \A v \in Batch!Threads : answer'[v] \in Batch!Answers
      BY <1>3, <1>5, <2>1
    <3>2. \E code : answer' = [answer EXCEPT ![w] = code]
      BY OneIsAnswered
    <3>3. QED
      BY <1>5, <3>1, <3>2
  <2>3. batchStock' \in 0..BatchStock /\ records' \subseteq Batch!Records
    <3>1. CASE Granting(w)
      BY <1>5, <3>1, EarlierIsARecord, BatchSizes
         DEF Granting, Rejecting, Replaying, Cancelling
    <3>2. CASE Rejecting(w) \/ Replaying(w)
      BY <1>5, <3>2 DEF Granting, Rejecting, Replaying, Cancelling
    <3>3. CASE Cancelling(w)
      BY <3>3, EarlierIsARecord, BatchSizes
         DEF Granting, Rejecting, Replaying, Cancelling
    <3>4. QED
      BY <1>7, <3>1, <3>2, <3>3
  <2>4. QED
    BY <1>1, <1>2, <2>2, <2>3 DEF BatchInv, Batch!TypeOK, Batch!Locks
<1>10. /\ Granting(w) => Granted' = Granted \cup {w} /\ w \notin Granted
       /\ ~Granting(w) => Granted' = Granted
  BY <1>3, <1>4, <1>7, <1>8 DEF Granted
<1>11. \A v \in Batch!Threads \ {w} :
           \A code, record : Got(v, code, record) <=> Got(v, code, record)'
  BY <1>3 DEF Got
<1>12. \A v \in Batch!Threads \ {w} : Silent(v) <=> Silent(v)'
  BY <1>3 DEF Silent
<1>13. Stored'
  <2>1. batchKind \in {"create", "contend"} => records' = {Fresh(v) : v \in Granted'}
    <3>1. batchKind \in {"create", "contend"} => records = {Fresh(v) : v \in Granted}
      BY DEF BatchInv, Stored
    <3>2. CASE Granting(w)
      BY <1>10, <3>1, <3>2 DEF Granting, Rejecting, Replaying, Cancelling
    <3>3. CASE ~Granting(w)
      BY <1>7, <1>10, <3>1, <3>3 DEF Granting, Rejecting, Replaying, Cancelling
    <3>4. QED
      BY <3>2, <3>3
  <2>2. batchKind = "contend" =>
            \A v \in Batch!Threads :
                \/ Silent(v)'
                \/ answer'[v].status = "409"
                \/ Got(v, "201", Fresh(v))'
    <3>1. SUFFICES ASSUME batchKind = "contend", NEW v \in Batch!Threads
                   PROVE \/ Silent(v)'
                         \/ answer'[v].status = "409"
                         \/ Got(v, "201", Fresh(v))'
      OBVIOUS
    <3>2. CASE v = w
      <4>1. Granting(w) \/ Rejecting(w)
        BY <1>7, <3>1 DEF Granting, Rejecting, Replaying, Cancelling
      <4>2. CASE Granting(w)
        BY <3>2, <4>2 DEF Got, Granting, Rejecting, Replaying, Cancelling
      <4>3. CASE Rejecting(w)
        BY <1>8, <3>2, <4>3
      <4>4. QED
        BY <4>1, <4>2, <4>3
    <3>3. CASE v # w
      BY <1>3, <3>1, <3>3 DEF BatchInv, Stored, Silent, Got
    <3>4. QED
      BY <3>2, <3>3
  <2>3. batchKind = "replay" =>
            /\ records' = {Batch!Earlier} /\ batchStock' = BatchStock - Quantity
            /\ \A v \in Batch!Threads :
                   /\ batchSeen'[v].records = {Batch!Earlier}
                   /\ Silent(v)' \/ Got(v, "200", Batch!Earlier)'
    <3>1. SUFFICES ASSUME batchKind = "replay"
                   PROVE /\ records' = {Batch!Earlier}
                         /\ batchStock' = BatchStock - Quantity
                         /\ \A v \in Batch!Threads :
                                /\ batchSeen'[v].records = {Batch!Earlier}
                                /\ Silent(v)' \/ Got(v, "200", Batch!Earlier)'
      OBVIOUS
    <3>2. /\ records = {Batch!Earlier} /\ batchStock = BatchStock - Quantity
          /\ \A v \in Batch!Threads :
                 /\ batchSeen[v].records = {Batch!Earlier}
                 /\ Silent(v) \/ Got(v, "200", Batch!Earlier)
      BY <3>1 DEF BatchInv, Stored
    <3>3. Got(w, "200", Batch!Earlier)' /\ UNCHANGED <<batchStock, records>>
      BY <1>7, <3>1, <3>2 DEF Got, Granting, Rejecting, Replaying, Cancelling
    <3>4. \A v \in Batch!Threads \ {w} : Silent(v)' \/ Got(v, "200", Batch!Earlier)'
      BY <1>3, <3>2 DEF Silent, Got
    <3>5. QED
      BY <1>1, <3>2, <3>3, <3>4
  <2>4. batchKind = "cancel" =>
            /\ \/ records' = {Batch!Earlier} /\ batchStock' = BatchStock - Quantity
               \/ records' = {Cancelled} /\ batchStock' = BatchStock
            /\ \A v \in Batch!Threads :
                   /\ \/ /\ batchSeen'[v].records = {Batch!Earlier}
                         /\ batchSeen'[v].stock = BatchStock - Quantity
                      \/ /\ batchSeen'[v].records = {Cancelled}
                         /\ records' = {Cancelled}
                   /\ \/ Silent(v)'
                      \/ Got(v, "200", Cancelled)' /\ records' = {Cancelled}
    <3>1. SUFFICES ASSUME batchKind = "cancel"
                   PROVE /\ records' = {Cancelled} /\ batchStock' = BatchStock
                         /\ \A v \in Batch!Threads :
                                /\ \/ /\ batchSeen'[v].records = {Batch!Earlier}
                                      /\ batchSeen'[v].stock = BatchStock - Quantity
                                   \/ batchSeen'[v].records = {Cancelled}
                                /\ Silent(v)' \/ Got(v, "200", Cancelled)'
      OBVIOUS
    <3>2. /\ records' = {Cancelled} /\ batchStock' = BatchStock
          /\ Got(w, "200", Cancelled)'
      BY <1>7, <3>1 DEF Got, Granting, Rejecting, Replaying, Cancelling
    <3>3. \A v \in Batch!Threads : /\ \/ batchSeen[v].records = {Batch!Earlier}
                                         /\ batchSeen[v].stock = BatchStock - Quantity
                                      \/ batchSeen[v].records = {Cancelled}
                                   /\ Silent(v) \/ Got(v, "200", Cancelled)
      BY <3>1 DEF BatchInv, Stored
    <3>4. \A v \in Batch!Threads \ {w} : Silent(v)' \/ Got(v, "200", Cancelled)'
      BY <1>3, <3>3 DEF Silent, Got
    <3>5. QED
      BY <1>1, <3>2, <3>3, <3>4
  <2>5. QED
    BY <1>1, <2>1, <2>2, <2>3, <2>4 DEF Stored
<1>14. Serial'
  <2>1. SUFFICES ASSUME locks = "shared" PROVE Serial'
    BY <1>1 DEF Serial
  <2>2. \A v \in Batch!Threads : batchRequest[v] = "locked" => v = w
    BY <1>1, <2>1 DEF BatchInv, Serial
  <2>3. \A v \in Batch!Threads : batchRequest'[v] # "locked"
    BY <1>2, <2>2
  <2>4. batchSeen[w].stock = batchStock /\ batchSeen[w].records = records
    BY <1>1, <2>1 DEF BatchInv, Serial
  <2>5. ASSUME batchKind = "create"
        PROVE  \/ /\ records' = {} /\ batchStock' = BatchStock
                  /\ \A v \in Batch!Threads : Silent(v)'
               \/ \E v \in Batch!Threads :
                      /\ records' = {Fresh(v)}
                      /\ batchStock' = BatchStock - Quantity
                      /\ Got(v, "201", Fresh(v))'
                      /\ \A u \in Batch!Threads \ {v} :
                             Silent(u)' \/ Got(u, "200", Fresh(v))'
    <3>1. CASE /\ records = {} /\ batchStock = BatchStock
               /\ \A v \in Batch!Threads : Silent(v)
      <4>1. Granting(w)
        BY <1>7, <2>4, <2>5, <3>1, BatchSizes
           DEF Granting, Rejecting, Replaying, Cancelling
      <4>2. records' = {Fresh(w)} /\ batchStock' = BatchStock - Quantity
        BY <2>4, <3>1, <4>1 DEF Granting, Rejecting, Replaying, Cancelling
      <4>3. Got(w, "201", Fresh(w))'
        BY <4>1 DEF Got, Granting, Rejecting, Replaying, Cancelling
      <4>4. \A u \in Batch!Threads \ {w} : Silent(u)'
        BY <1>12, <3>1
      <4>5. QED
        BY <4>2, <4>3, <4>4
    <3>2. CASE \E v \in Batch!Threads :
                   /\ records = {Fresh(v)} /\ batchStock = BatchStock - Quantity
                   /\ Got(v, "201", Fresh(v))
                   /\ \A u \in Batch!Threads \ {v} :
                          Silent(u) \/ Got(u, "200", Fresh(v))
      <4>1. PICK v \in Batch!Threads :
                   /\ records = {Fresh(v)} /\ batchStock = BatchStock - Quantity
                   /\ Got(v, "201", Fresh(v))
                   /\ \A u \in Batch!Threads \ {v} :
                          Silent(u) \/ Got(u, "200", Fresh(v))
        BY <3>2
      <4>2. v # w
        BY <1>4, <4>1 DEF Got
      <4>3. Replaying(w)
        BY <1>7, <2>4, <2>5, <4>1 DEF Granting, Rejecting, Replaying, Cancelling
      <4>4. Got(w, "200", Fresh(v))' /\ UNCHANGED <<batchStock, records>>
        BY <2>4, <4>1, <4>3 DEF Got, Granting, Rejecting, Replaying, Cancelling
      <4>5. Got(v, "201", Fresh(v))'
        BY <1>3, <4>1, <4>2 DEF Got
      <4>6. \A u \in Batch!Threads \ {v} : Silent(u)' \/ Got(u, "200", Fresh(v))'
        BY <1>3, <4>1, <4>4 DEF Silent, Got
      <4>7. QED
        BY <4>1, <4>4, <4>5, <4>6
    <3>3. QED
      BY <2>1, <2>5, <3>1, <3>2 DEF BatchInv, Serial
  <2>6. ASSUME batchKind = "contend"
        PROVE  /\ batchStock' = BatchStock - Quantity * Cardinality(Granted')
               /\ \A v \in Batch!Threads :
                      answer'[v].status = "409" => batchStock' < Quantity
    <3>1. /\ batchStock = BatchStock - Quantity * Cardinality(Granted)
          /\ \A v \in Batch!Threads :
                 answer[v].status = "409" => batchStock < Quantity
      BY <2>1, <2>6 DEF BatchInv, Serial
    <3>2. CASE Granting(w)
      <4>1. Cardinality(Granted') = Cardinality(Granted) + 1
        BY <1>10, <3>2, BatchSizes, FS_AddElement
      <4>2. batchStock' = batchStock - Quantity
        BY <2>4, <3>2 DEF Granting, Rejecting, Replaying, Cancelling
      <4>3. batchStock' = BatchStock - Quantity * Cardinality(Granted')
        <5> DEFINE n == Cardinality(Granted)
        <5>1. n \in Nat /\ Quantity \in Nat /\ BatchStock \in Nat
          BY BatchSizes
        <5>2. batchStock = BatchStock - Quantity * n
          BY <3>1
        <5> HIDE DEF n
        <5>3. batchStock' = BatchStock - Quantity * (n + 1)
          BY <4>2, <5>1, <5>2, Z3
        <5>4. QED
          BY <4>1, <5>3 DEF n
      <4>4. batchStock' < batchStock
        BY <1>5, <4>2, BatchSizes
      <4>5. \A v \in Batch!Threads :
                answer'[v].status = "409" => batchStock < Quantity
        <5>1. answer'[w].status # "409"
          BY <1>8, <3>2
        <5>2. QED
          BY <1>3, <3>1, <5>1
      <4>6. batchStock < Quantity => batchStock' < Quantity
        <5>1. batchStock' \in Nat
          BY <1>9, BatchSizes DEF Batch!TypeOK
        <5>2. QED
          BY <1>5, <4>4, <5>1, BatchSizes
      <4>7. QED
        BY <4>3, <4>5, <4>6
    <3>3. CASE Rejecting(w)
      <4>1. UNCHANGED batchStock /\ Granted' = Granted
        BY <1>8, <1>10, <3>3 DEF Granting, Rejecting, Replaying, Cancelling
      <4>2. batchStock < Quantity
        <5>1. ~(batchStock >= Quantity)
          BY <2>4, <3>3 DEF Granting, Rejecting, Replaying, Cancelling
        <5>2. QED
          BY <1>5, <5>1, BatchSizes
      <4>3. QED
        BY <3>1, <4>1, <4>2
    <3>4. QED
      BY <1>7, <2>6, <3>2, <3>3 DEF Granting, Rejecting, Replaying, Cancelling
  <2>7. QED
    BY <1>1, <2>3, <2>5, <2>6 DEF Serial
<1>15. answer'[w].status # "none" /\ answer'[w].status # "other"
  BY <1>8
<1>16. QED
  BY <1>1, <1>2, <1>3, <1>6, <1>9, <1>13, <1>14, <1>15, BatchServiceKeeps


-----------------------------------------------------------------------------
(* The result.                                                             *)

\* As many records as answers that grant one.
LEMMA GrantedAreRecorded ==
    ASSUME Batch!BatchAssumption
    PROVE  Cardinality({Fresh(w) : w \in Granted}) = Cardinality(Granted)
<1> DEFINE f == [w \in Granted |-> Fresh(w)]
<1>1. \A v, w \in Granted : Fresh(v) = Fresh(w) => v = w
  BY DEF Fresh
<1>2. f \in Bijection(Granted, {Fresh(w) : w \in Granted})
  BY <1>1 DEF Bijection, Injection, Surjection, IsInjective
<1>3. QED
  BY <1>2, BatchSizes, FS_Bijection DEF ExistsBijection

LEMMA PassedSerially ==
    ASSUME Batch!BatchAssumption, BatchInv
    PROVE  Batch!PassedMeansSerial
<1> SUFFICES ASSUME batchOutcome = "passed"
             PROVE  /\ batchStock = Batch!ExpectedStock
                    /\ CASE batchKind = "contend" -> Cardinality(records) = Batch!Fits
                         [] batchKind = "cancel" ->
                                records = {[Batch!Earlier EXCEPT !.status = "CANCELLED"]}
                         [] batchKind = "replay" -> records = {Batch!Earlier}
                         [] batchKind = "create" -> Cardinality(records) = 1
  BY BatchCounts DEF Batch!PassedMeansSerial
<1>1. /\ Batch!Requirement /\ batchStock = Batch!ExpectedStock
      /\ batchKind \in Batch!Kinds
  BY DEF BatchInv, Threading, Batch!TypeOK
<1>2. Batch!Number("201") = Cardinality(Granted)
  BY BatchCounts DEF Batch!Number, Granted
<1>3. batchKind \in {"create", "contend"} => Cardinality(records) = Cardinality(Granted)
  BY GrantedAreRecorded DEF BatchInv, Stored
<1>4. CASE batchKind = "contend"
  <2>1. Batch!RequireStockConflicts
    BY <1>1, <1>4 DEF Batch!Requirement
  <2>2. Cardinality(records) = Batch!Fits
    BY <1>2, <1>3, <1>4, <2>1, BatchCounts DEF Batch!RequireStockConflicts
  <2>3. QED
    BY <1>1, <1>4, <2>2
<1>5. CASE batchKind = "create"
  <2>1. Batch!RequireSameReservation(1)
    BY <1>1, <1>5 DEF Batch!Requirement
  <2>2. Cardinality(records) = 1
    BY <1>2, <1>3, <1>5, <2>1 DEF Batch!RequireSameReservation
  <2>3. QED
    BY <1>1, <1>5, <2>2
<1>6. CASE batchKind = "replay"
  <2>1. records = {Batch!Earlier}
    BY <1>6 DEF BatchInv, Stored
  <2>2. QED
    BY <1>1, <1>6, <2>1
<1>7. CASE batchKind = "cancel"
  <2>1. Batch!RequireSameReservation(0)
    BY <1>1, <1>7 DEF Batch!Requirement
  <2>2. answer[1].status \in {"200", "201"}
    BY <2>1, BatchSizes DEF Batch!RequireSameReservation, Batch!SameRecord
  <2>3. Silent(1) \/ records = {Cancelled}
    BY <1>7, BatchSizes DEF BatchInv, Stored
  <2>4. records = {Cancelled}
    BY <2>2, <2>3 DEF Silent
  <2>5. QED
    BY <1>1, <1>7, <2>4, EarlierIsARecord
<1>8. QED
  BY <1>1, <1>4, <1>5, <1>6, <1>7 DEF Batch!Kinds

LEMMA JoinKeeps ==
    ASSUME Batch!BatchAssumption, BatchInv, Batch!Join
    PROVE  BatchInv'
<1>1. /\ \A w \in Batch!Threads : thread[w] \in {"ended", "raised"}
      /\ batchOutcome' \in {"answered", "failed"}
      /\ batchOutcome' = "answered" => \A w \in Batch!Threads : thread[w] = "ended"
      /\ batchOutcome' = "failed" => \E w \in Batch!Threads : thread[w] # "ended"
      /\ UNCHANGED <<batchKind, locks, barrier, thread, answer, batchRequest,
                     holder,
                      batchSeen, batchStock, records, batchTroubled>>
  BY DEF Batch!Join, Batch!batch, Batch!server
<1>2. Batch!TypeOK'
  BY <1>1 DEF BatchInv, Batch!TypeOK, Batch!Locks
<1>3. Threading'
  BY <1>1 DEF BatchInv, Threading
<1>4. Batch!NoFalseAlarm'
  <2>1. batchOutcome' = "failed" => batchTroubled
    BY <1>1 DEF BatchInv, Threading
  <2>2. QED
    BY <1>1, <2>1 DEF Batch!NoFalseAlarm
<1>5. QED
  BY <1>1, <1>2, <1>3, <1>4, ClientKeeps

\* One answer grants, and all others repeat it.
LEMMA OneGrants ==
    ASSUME Batch!BatchAssumption, NEW v \in Batch!Threads, Got(v, "201", Fresh(v)),
           \A w \in Batch!Threads \ {v} : Got(w, "200", Fresh(v))
    PROVE  Batch!Number("201") = 1 /\ Batch!Number("200") = Count - 1
<1>1. /\ {w \in Batch!Threads : answer[w].status = "201"} = {v}
      /\ {w \in Batch!Threads : answer[w].status = "200"} = Batch!Threads \ {v}
  BY DEF Got
<1>2. Cardinality({v}) = 1
  BY FS_Singleton
<1>3. Cardinality(Batch!Threads \ {v}) = Count - 1
  BY BatchSizes, FS_RemoveElement
<1>4. QED
  BY <1>1, <1>2, <1>3, BatchCounts DEF Batch!Number

\* All answers repeat an earlier one.
LEMMA NoneGrants ==
    ASSUME Batch!BatchAssumption, NEW record,
           \A w \in Batch!Threads : Got(w, "200", record)
    PROVE  Batch!Number("201") = 0 /\ Batch!Number("200") = Count - 0
<1>1. /\ {w \in Batch!Threads : answer[w].status = "201"} = {}
      /\ {w \in Batch!Threads : answer[w].status = "200"} = Batch!Threads
  BY DEF Got
<1>2. Count - 0 = Count /\ Cardinality({}) = 0
  BY BatchSizes, FS_EmptySet
<1>3. QED
  BY <1>1, <1>2, BatchSizes, BatchCounts DEF Batch!Number

\* Of requests that compete, those that fit are granted.
LEMMA ThoseThatFit ==
    ASSUME Batch!BatchAssumption, NEW n \in Nat, n <= Count,
           batchStock = BatchStock - Quantity * n, batchStock \in Nat,
           n < Count => batchStock < Quantity
    PROVE  Batch!Fits = n
<1>1. BatchStock \in Nat /\ Quantity \in Nat /\ Quantity > 0 /\ Count \in Nat
  BY BatchSizes
<1>2. /\ n <= Batch!Capacity
      /\ batchStock < Quantity => Batch!Capacity = n
  BY <1>1, Divided DEF Batch!Capacity
<1>3. CASE n < Count
  BY <1>2, <1>3 DEF Batch!Fits
<1>4. CASE n = Count
  <2>1. ~(Batch!Capacity < Count)
    <3>1. Batch!Capacity \in Int
      BY <1>1 DEF Batch!Capacity
    <3>2. QED
      BY <1>1, <1>2, <1>4, <3>1
  <2>2. QED
    BY <1>4, <2>1 DEF Batch!Fits
<1>5. QED
  BY <1>1, <1>3, <1>4

\* Replicas that share their locks meet the requirement.
LEMMA SerialMeets ==
    ASSUME Batch!BatchAssumption, BatchInv, locks = "shared", ~batchTroubled,
           \A w \in Batch!Threads : thread[w] = "ended"
    PROVE  Batch!Requirement /\ batchStock = Batch!ExpectedStock
<1>1. \A w \in Batch!Threads : batchRequest[w] = "done" /\ ~Silent(w)
  <2>1. \A w \in Batch!Threads : batchRequest[w] = "done"
    BY DEF BatchInv, Threading
  <2>2. \A w \in Batch!Threads : answer[w].status \notin {"none", "other"}
    BY <2>1 DEF BatchInv, Threading
  <2>3. QED
    BY <2>1, <2>2 DEF Silent
<1>2. batchKind \in Batch!Kinds /\ batchStock \in Nat
  BY BatchSizes DEF BatchInv, Batch!TypeOK
<1>3. CASE batchKind = "create"
  <2>1. PICK v \in Batch!Threads :
            /\ batchStock = BatchStock - Quantity
            /\ Got(v, "201", Fresh(v))
            /\ \A w \in Batch!Threads \ {v} : Silent(w) \/ Got(w, "200", Fresh(v))
    BY <1>1, <1>3, BatchSizes DEF BatchInv, Serial
  <2>2. \A w \in Batch!Threads \ {v} : Got(w, "200", Fresh(v))
    BY <1>1, <2>1
  <2>3. Batch!Number("201") = 1 /\ Batch!Number("200") = Count - 1
    BY <2>1, <2>2, OneGrants
  <2>4. \A w \in Batch!Threads : /\ answer[w].status \in {"200", "201"}
                                 /\ answer[w].record = Fresh(v)
                                 /\ answer[w].record.status = "ACTIVE"
    BY <2>1, <2>2 DEF Got, Fresh
  <2>5. Batch!RequireSameReservation(1)
    BY <1>3, <2>3, <2>4 DEF Batch!RequireSameReservation, Batch!SameRecord
  <2>6. QED
    BY <1>3, <2>1, <2>5 DEF Batch!Requirement, Batch!ExpectedStock
<1>4. CASE batchKind = "replay"
  <2>1. batchStock = BatchStock - Quantity /\ \A w \in Batch!Threads : Got(w, "200", Batch!Earlier)
    BY <1>1, <1>4 DEF BatchInv, Stored
  <2>2. Batch!Number("201") = 0 /\ Batch!Number("200") = Count - 0
    BY <2>1, NoneGrants
  <2>3. \A w \in Batch!Threads : /\ answer[w].status \in {"200", "201"}
                                 /\ answer[w].record = Batch!Earlier
                                 /\ answer[w].record.status = "ACTIVE"
                                 /\ answer[w].record.id = Batch!Earlier.id
    BY <2>1 DEF Got, Batch!Earlier
  <2>4. Batch!RequireSameReservation(0)
    BY <1>4, <2>2, <2>3 DEF Batch!RequireSameReservation, Batch!SameRecord
  <2>5. QED
    BY <1>4, <2>1, <2>4 DEF Batch!Requirement, Batch!ExpectedStock
<1>5. CASE batchKind = "cancel"
  <2>1. \A w \in Batch!Threads : Got(w, "200", Cancelled) /\ records = {Cancelled}
    BY <1>1, <1>5 DEF BatchInv, Stored
  <2>2. batchStock = BatchStock
    <3>1. records = {Cancelled}
      BY <2>1, BatchSizes
    <3>2. QED
      BY <1>5, <3>1, EarlierIsARecord DEF BatchInv, Stored
  <2>3. Batch!Number("201") = 0 /\ Batch!Number("200") = Count - 0
    BY <2>1, NoneGrants
  <2>4. \A w \in Batch!Threads : /\ answer[w].status \in {"200", "201"}
                                 /\ answer[w].record = Cancelled
                                 /\ answer[w].record.status = "CANCELLED"
                                 /\ answer[w].record.id = Batch!Earlier.id
    BY <2>1 DEF Got, Cancelled, Batch!Earlier
  <2>5. Batch!RequireSameReservation(0)
    BY <1>5, <2>3, <2>4 DEF Batch!RequireSameReservation, Batch!SameRecord
  <2>6. QED
    BY <1>5, <2>2, <2>5 DEF Batch!Requirement, Batch!ExpectedStock
<1>6. CASE batchKind = "contend"
  <2> DEFINE n == Cardinality(Granted)
             Refused == {w \in Batch!Threads : answer[w].status = "409"}
  <2>1. /\ batchStock = BatchStock - Quantity * n
        /\ \A w \in Batch!Threads : answer[w].status = "409" => batchStock < Quantity
    BY <1>6 DEF BatchInv, Serial
  <2>2. \A w \in Batch!Threads : answer[w].status = "409" \/ Got(w, "201", Fresh(w))
    BY <1>1, <1>6 DEF BatchInv, Stored
  <2>3. Refused = Batch!Threads \ Granted /\ Granted \subseteq Batch!Threads
    <3>1. \A w \in Batch!Threads : Got(w, "201", Fresh(w)) => answer[w].status = "201"
      BY DEF Got
    <3>2. \A w \in Batch!Threads : answer[w].status = "409" <=> answer[w].status # "201"
      BY <2>2, <3>1
    <3>3. QED
      BY <3>2 DEF Granted
  <2>4. n <= Count /\ n \in Nat /\ Cardinality(Refused) = Count - n
    <3>1. Batch!Threads \cap Granted = Granted
      BY <2>3
    <3>2. Cardinality(Batch!Threads \ Granted) = Cardinality(Batch!Threads) - n
      BY <3>1, BatchSizes, FS_Difference
    <3>3. n <= Cardinality(Batch!Threads) /\ n \in Nat
      BY <2>3, BatchSizes, FS_Subset
    <3>4. QED
      BY <2>3, <3>2, <3>3, BatchSizes
  <2>5. n < Count => batchStock < Quantity
    <3>1. SUFFICES ASSUME n < Count PROVE batchStock < Quantity
      OBVIOUS
    <3>2. Granted # Batch!Threads
      BY <2>4, <3>1, BatchSizes
    <3>3. QED
      BY <2>1, <2>3, <3>2
  <2>6. Batch!Number("201") = n /\ Batch!Number("409") = Count - n
    BY <2>4, BatchCounts DEF Batch!Number, Granted
  <2>7. Cardinality({answer[w].record.id : w \in Granted}) = n
    <3>1. ASSUME NEW w \in Granted PROVE answer[w].record.id = w
      <4>1. answer[w].status = "201"
        BY DEF Granted
      <4>2. Got(w, "201", Fresh(w))
        BY <2>2, <4>1 DEF Granted
      <4>3. answer[w].record = Fresh(w)
        BY <4>2 DEF Got
      <4>4. Fresh(w).id = w
        BY DEF Fresh
      <4>5. QED
        BY <4>3, <4>4
    <3>2. {answer[w].record.id : w \in Granted} = Granted
      BY <3>1
    <3>3. QED
      BY <3>2
  <2> HIDE DEF n, Refused
  <2>8. Batch!Fits = n
    BY <1>2, <2>1, <2>4, <2>5, ThoseThatFit
  <2>9. Batch!RequireStockConflicts
    BY <2>6, <2>7, <2>8, BatchCounts DEF Batch!RequireStockConflicts, Granted
  <2>10. batchStock = BatchStock - Batch!Fits * Quantity
    BY <2>1, <2>4, <2>8, BatchSizes, Z3
  <2>11. QED
    BY <1>6, <2>9, <2>10 DEF Batch!Requirement, Batch!ExpectedStock
<1>7. QED
  BY <1>2, <1>3, <1>4, <1>5, <1>6 DEF Batch!Kinds

LEMMA VerifyKeeps ==
    ASSUME Batch!BatchAssumption, BatchInv, Batch!Verify
    PROVE  BatchInv'
<1>1. /\ batchOutcome = "answered" /\ batchOutcome' \in {"passed", "failed"}
      /\ batchOutcome' = "passed" => Batch!Requirement /\ batchStock = Batch!ExpectedStock
      /\ \/ /\ UNCHANGED batchTroubled
            /\ (batchOutcome' = "failed" =>
                       ~(Batch!Requirement /\ batchStock = Batch!ExpectedStock))
         \/ batchOutcome' = "failed" /\ batchTroubled' = TRUE
      /\ UNCHANGED <<batchKind, locks, barrier, thread, answer, batchRequest,
                     holder,
                      batchSeen, batchStock, records>>
  BY DEF Batch!Verify, Batch!Fault, Batch!batch, Batch!server
<1>2. Batch!TypeOK'
  BY <1>1 DEF BatchInv, Batch!TypeOK, Batch!Locks
<1>3. \A w \in Batch!Threads : thread[w] = "ended"
  BY <1>1 DEF BatchInv, Threading
<1>4. /\ Batch!Requirement' = Batch!Requirement
      /\ Batch!ExpectedStock' = Batch!ExpectedStock
  BY <1>1
     DEF Batch!Requirement, Batch!RequireSameReservation,
         Batch!RequireStockConflicts,
              Batch!Number, Batch!SameRecord, Batch!ExpectedStock
<1>5. Threading'
  BY <1>1, <1>3, <1>4 DEF BatchInv, Threading
<1>6. Batch!NoFalseAlarm'
  BY <1>1, <1>3, SerialMeets DEF Batch!NoFalseAlarm
<1>7. QED
  BY <1>1, <1>2, <1>5, <1>6, ClientKeeps

LEMMA BatchStep ==
    ASSUME Batch!BatchAssumption, BatchInv, [Batch!Next]_batchVars
    PROVE  BatchInv'
<1>1. CASE UNCHANGED batchVars
  <2>1. UNCHANGED <<batchKind, locks, barrier, thread, answer, batchOutcome,
                    batchRequest,
                    holder, batchSeen, batchStock, records, batchTroubled>>
    BY <1>1 DEF batchVars, Batch!batch, Batch!client, Batch!server
  <2>2. Batch!TypeOK'
    BY <2>1 DEF BatchInv, Batch!TypeOK, Batch!Locks
  <2>3. /\ Batch!Requirement' = Batch!Requirement
        /\ Batch!ExpectedStock' = Batch!ExpectedStock
    BY <2>1
       DEF Batch!Requirement, Batch!RequireSameReservation,
           Batch!RequireStockConflicts,
                Batch!Number, Batch!SameRecord, Batch!ExpectedStock
  <2>4. Threading'
    BY <2>1, <2>3 DEF BatchInv, Threading
  <2>5. Batch!NoFalseAlarm'
    BY <2>1 DEF BatchInv, Batch!NoFalseAlarm
  <2>6. QED
    BY <2>1, <2>2, <2>4, <2>5, ClientKeeps
<1>2. QED
  BY <1>1, ThreadNextKeeps, BreakKeeps, LockKeeps, CommitKeeps, RefuseKeeps,
     JoinKeeps, VerifyKeeps
     DEF Batch!Next, Batch!DrillNext, Batch!ServiceNext

LEMMA BatchReports ==
    ASSUME Batch!BatchAssumption, BatchInv
    PROVE  /\ Batch!PassedMeansSerial
           /\ Batch!NoThreadOutlivesItsBatch
           /\ Batch!NoFalseAlarm
BY PassedSerially DEF BatchInv, Threading, Batch!NoThreadOutlivesItsBatch

LEMMA BatchIdleInv ==
    ASSUME Batch!BatchAssumption, BatchIdle
    PROVE  BatchInv
<1>1. /\ answer = [w \in Batch!Threads |-> Batch!NoAnswer]
      /\ holder = [l \in Batch!Locks |-> 0]
      /\ records = {} /\ batchStock = BatchStock
      /\ batchSeen = [w \in Batch!Threads |-> [stock |-> batchStock,
                                               records |-> records]]
  BY DEF BatchIdle, Batch!NoAnswer, Batch!Locks
<1>2. QED
  BY <1>1, UntouchedBatch DEF BatchIdle, Batch!Kinds

-----------------------------------------------------------------------------
(* The inspection of release contracts.                                    *)

\* What is known of the image, when a command is next.
Inspected ==
    /\ gateStep \in {"create", "copy", "validate"} =>
           kind[Contract!Image] \notin {"other digest", "other platform"}
    /\ gateStep = "validate" => kind[Contract!Image] # "no contract"
    /\ gateStep \in {"list", "look", "remove"} /\ ~failed =>
           kind[Contract!Image] = "compatible"
    /\ \A i \in 1..(round - 1) : kind[wanted[i]] = "compatible"
    /\ outcome = "allowed" => round = Len(wanted) /\ kind[Contract!Image] = "compatible"

\* Which containers there are, and may still come.
Known ==
    /\ \A c, d \in containers : c.name = d.name /\ c.round = d.round => c = d
    /\ \A c \in containers : c.owner = "us" => c = Contract!Ours
    /\ \A c \in containers \ {Contract!Ours} : c.owner = "another"
    /\ late \subseteq {Contract!Ours}
    /\ gateStep \in {"pull", "inspect", "create"} => Contract!Ours \notin containers
    /\ gateStep \notin {"list", "look", "remove", "done"} => late = {}
    /\ gateStep \in {"copy", "remove"} => Contract!Named \subseteq {Contract!Ours}

ExtractionInv ==
    /\ Contract!TypeOK
    /\ gateStep \in {"pull", "inspect", "create", "copy", "validate"} => ~failed
    /\ late # {} => failed
    /\ gateStep # "done" => outcome = "none"
    /\ Inspected
    /\ Known

LEMMA ImageType ==
    ASSUME Contract!TypeOK
    PROVE  /\ Len(wanted) \in {1, 2}
           /\ \A i \in 1..Len(wanted) : wanted[i] \in References
           /\ Contract!Image \in References
           /\ kind[Contract!Image] \in Contract!Kinds
           /\ round \in 1..Len(wanted)
           /\ round \in {1, 2}
           /\ Contract!Ours \in Contract!Containers
<1>1. /\ Len(wanted) \in {1, 2}
      /\ \A i \in 1..Len(wanted) : wanted[i] \in References
  <2>1. ASSUME NEW r \in References, wanted = <<r>>
        PROVE  Len(wanted) = 1 /\ wanted[1] \in References
    BY <2>1
  <2>2. ASSUME NEW p \in References, NEW r \in References, wanted = <<p, r>>
        PROVE  /\ Len(wanted) = 2
               /\ wanted[1] \in References /\ wanted[2] \in References
    BY <2>2
  <2>3. \/ \E r \in References : wanted = <<r>>
        \/ \E p, r \in References : wanted = <<p, r>>
    BY DEF Contract!TypeOK
  <2>4. QED
    BY <2>1, <2>2, <2>3
<1>2. round \in 1..Len(wanted) /\ round \in {1, 2}
  BY <1>1 DEF Contract!TypeOK
<1>3. Contract!Image \in References /\ kind[Contract!Image] \in Contract!Kinds
  BY <1>1, <1>2 DEF Contract!TypeOK, Contract!Image
<1>4. Contract!Ours \in Contract!Containers
  BY <1>2, <1>3
     DEF Contract!Ours, Contract!Containers, Contract!Names, Contract!Owners
<1>5. QED
  BY <1>1, <1>2, <1>3, <1>4

LEMMA InitExtraction ==
    ASSUME Contract!ExtractionAssumption, Contract!Init
    PROVE  ExtractionInv
<1>1. Len(wanted) \in {1, 2}
  BY DEF Contract!Init
<1>2. Contract!TypeOK
  <2>1. containers \subseteq Contract!Containers /\ 0 \in 0..MaxPrunes
    BY DEF Contract!ExtractionAssumption, Contract!Init
  <2>2. 1 \in 1..Len(wanted)
    BY <1>1
  <2>3. QED
    BY <2>1, <2>2 DEF Contract!Init, Contract!TypeOK, Contract!Steps
<1>3. \A c \in containers : c \in Foreign /\ c.owner = "another"
  BY DEF Contract!ExtractionAssumption, Contract!Init
<1>4. Known
  BY <1>3 DEF Contract!ExtractionAssumption, Contract!Init, Known, Contract!Ours
<1>5. Inspected
  BY <1>1 DEF Contract!Init, Inspected
<1>6. QED
  BY <1>2, <1>4, <1>5 DEF ExtractionInv, Contract!Init

\* Commands that leave the containers alone and do not end an inspection well.
LEMMA CommandKeeps ==
    ASSUME ExtractionInv,
           UNCHANGED <<wanted, local, kind, round, containers, late, prunes>>,
           gateStep # "done",
           \/ /\ UNCHANGED <<failed, outcome>>
              /\ unremoved' = unremoved
              /\ \/ gateStep = "pull" /\ gateStep' = "inspect"
                 \/ /\ gateStep = "inspect" /\ gateStep' = "create"
                    /\ kind[Contract!Image] \notin {"other digest", "other platform"}
                 \/ /\ gateStep = "copy" /\ gateStep' = "validate"
                    /\ kind[Contract!Image] # "no contract"
                 \/ /\ gateStep = "validate" /\ gateStep' = "list"
                    /\ kind[Contract!Image] # "invalid contract"
                 \/ gateStep = "list" /\ gateStep' = "look"
                 \/ /\ gateStep = "look" /\ gateStep' = "remove"
                    /\ Contract!Ours \in containers
           \/ /\ Contract!Raise /\ unremoved' = unremoved
              /\ gateStep \in {"create", "copy", "validate"}
           \/ Contract!Block /\ unremoved' \in BOOLEAN
    PROVE  ExtractionInv'
<1>1. Contract!TypeOK'
  BY DEF ExtractionInv, Contract!TypeOK, Contract!Raise, Contract!Block,
         Contract!Steps
<1>2. /\ Contract!Image' = Contract!Image /\ Contract!Ours' = Contract!Ours
      /\ Contract!Named' = Contract!Named /\ round' = round
  BY DEF Contract!Image, Contract!Ours, Contract!Named
<1>3. kind[Contract!Image] \in Contract!Kinds /\ round \in {1, 2}
  BY ImageType DEF ExtractionInv
<1>4. Inspected'
  BY <1>2, <1>3
     DEF ExtractionInv, Inspected, Contract!Raise, Contract!Block,
         Contract!Kinds
<1>5. gateStep' = "remove" => gateStep = "look" /\ Contract!Ours \in containers
  BY DEF Contract!Raise, Contract!Block
<1>6. Contract!Ours \in containers => Contract!Named \subseteq {Contract!Ours}
  BY DEF ExtractionInv, Known, Contract!Named, Contract!Ours
<1>7. gateStep' = "copy" => gateStep = "copy"
  BY DEF Contract!Raise, Contract!Block
<1>8. gateStep' \in {"pull", "inspect", "create"} => gateStep \in {"pull", "inspect"}
  BY DEF Contract!Raise, Contract!Block
<1>9. gateStep' \notin {"list", "look", "remove", "done"} =>
          gateStep \notin {"list", "look", "remove", "done"}
  BY DEF Contract!Raise, Contract!Block
<1>10. Known'
  BY <1>2, <1>5, <1>6, <1>7, <1>8, <1>9 DEF ExtractionInv, Known
<1>11. gateStep' # "done" => outcome' = "none"
  BY DEF ExtractionInv, Contract!Raise, Contract!Block
<1>12. late' # {} => failed'
  BY DEF ExtractionInv, Contract!Raise, Contract!Block
<1>13. gateStep' \in {"pull", "inspect", "create", "copy", "validate"} => ~failed'
  BY DEF ExtractionInv, Contract!Raise, Contract!Block
<1>14. QED
  BY <1>1, <1>4, <1>10, <1>11, <1>12, <1>13 DEF ExtractionInv

\* The end of an inspection, with none of our containers left.
LEMMA ConcludeKeeps ==
    ASSUME ExtractionInv, Contract!Conclude, gateStep \in {"list", "remove"},
           UNCHANGED <<wanted, local, kind, late, prunes, unremoved>>,
           containers' \subseteq containers,
           Contract!Ours \notin containers'
    PROVE  ExtractionInv'
<1>1. /\ round \in 1..Len(wanted) /\ Len(wanted) \in {1, 2}
      /\ kind[Contract!Image] \in Contract!Kinds
  BY ImageType DEF ExtractionInv
<1>2. CASE failed /\ Contract!Block
  <2>1. Contract!Image' = Contract!Image /\ Contract!Ours' = Contract!Ours
    BY <1>2 DEF Contract!Block, Contract!Image, Contract!Ours
  <2>2. Contract!TypeOK'
    BY <1>2 DEF ExtractionInv, Contract!TypeOK, Contract!Block, Contract!Steps
  <2>3. Inspected'
    BY <1>2, <2>1, <1>1 DEF ExtractionInv, Inspected, Contract!Block
  <2>4. Known'
    BY <1>2, <2>1 DEF ExtractionInv, Known, Contract!Block
  <2>5. QED
    BY <1>2, <2>2, <2>3, <2>4 DEF ExtractionInv, Contract!Block
<1>3. CASE /\ ~failed
           /\ round < Len(wanted)
           /\ round' = round + 1
           /\ gateStep' = "pull"
           /\ UNCHANGED <<failed, outcome>>
  <2>1. Contract!TypeOK'
    BY <1>1, <1>3 DEF ExtractionInv, Contract!TypeOK, Contract!Steps
  <2>2. Inspected'
    <3>1. kind[Contract!Image] = "compatible" /\ Contract!Image = wanted[round]
      BY <1>3 DEF ExtractionInv, Inspected, Contract!Image
    <3>2. \A i \in 1..(round' - 1) : kind[wanted[i]] = "compatible"
      BY <1>1, <1>3, <3>1 DEF ExtractionInv, Inspected
    <3>3. QED
      BY <1>3, <3>2 DEF ExtractionInv, Inspected
  <2>3. Known'
    <3>1. late = {} /\ \A c \in containers' : c.owner = "another"
      BY <1>3 DEF ExtractionInv, Known
    <3>2. Contract!Ours'.owner = "us"
      BY DEF Contract!Ours
    <3>3. QED
      BY <1>3, <3>1, <3>2 DEF ExtractionInv, Known
  <2>4. QED
    BY <1>3, <2>1, <2>2, <2>3 DEF ExtractionInv, Known
<1>4. CASE /\ ~failed
           /\ round = Len(wanted)
           /\ gateStep' = "done"
           /\ outcome' = "allowed"
           /\ UNCHANGED <<round, failed>>
  <2>1. Contract!Image' = Contract!Image /\ Contract!Ours' = Contract!Ours
    BY <1>4 DEF Contract!Image, Contract!Ours
  <2>2. Contract!TypeOK'
    BY <1>4 DEF ExtractionInv, Contract!TypeOK, Contract!Steps
  <2>3. Inspected'
    BY <1>4, <2>1 DEF ExtractionInv, Inspected
  <2>4. Known'
    BY <1>4, <2>1 DEF ExtractionInv, Known
  <2>5. QED
    BY <1>4, <2>2, <2>3, <2>4 DEF ExtractionInv
<1>5. QED
  BY <1>2, <1>3, <1>4 DEF Contract!Conclude

LEMMA CreateKeeps ==
    ASSUME ExtractionInv, Contract!Create
    PROVE  ExtractionInv'
<1>1. /\ gateStep = "create" /\ ~failed /\ late = {}
      /\ UNCHANGED <<wanted, local, kind, round, unremoved, prunes>>
  BY DEF ExtractionInv, Known, Contract!Create, Contract!Raise, Contract!Goto,
         Contract!question
<1>2. /\ Contract!Image' = Contract!Image /\ Contract!Ours' = Contract!Ours
      /\ Contract!Ours \in Contract!Containers /\ Contract!Ours.round = round
  BY <1>1, ImageType DEF ExtractionInv, Contract!Image, Contract!Ours
<1>3. CASE /\ Contract!Named = {}
           /\ containers' = containers \cup {Contract!Ours}
           /\ Contract!Goto("copy") \/ Contract!Raise
           /\ UNCHANGED late
  <2>1. Contract!TypeOK'
    BY <1>1, <1>2, <1>3
       DEF ExtractionInv, Contract!TypeOK, Contract!Goto, Contract!Raise,
           Contract!Steps
  <2>2. Inspected'
    BY <1>1, <1>2, <1>3
       DEF ExtractionInv, Inspected, Contract!Goto, Contract!Raise
  <2>3. \A c \in containers : ~(c.name = Contract!Ours.name /\ c.round = Contract!Ours.round)
    BY <1>3 DEF Contract!Named, Contract!Ours
  <2>4. Contract!Named' \subseteq {Contract!Ours}
    BY <1>1, <1>3 DEF Contract!Named
  <2>5. Known'
    BY <1>1, <1>2, <1>3, <2>3, <2>4
       DEF ExtractionInv, Known, Contract!Goto, Contract!Raise
  <2>6. QED
    BY <1>1, <1>3, <2>1, <2>2, <2>5
       DEF ExtractionInv, Contract!Goto, Contract!Raise
<1>4. CASE /\ late' = late \cup {Contract!Ours}
           /\ Contract!Raise
           /\ UNCHANGED containers
  <2>1. Contract!TypeOK'
    BY <1>1, <1>2, <1>4
       DEF ExtractionInv, Contract!TypeOK, Contract!Raise, Contract!Steps
  <2>2. Inspected'
    BY <1>1, <1>2, <1>4 DEF ExtractionInv, Inspected, Contract!Raise
  <2>3. Known'
    BY <1>1, <1>2, <1>4 DEF ExtractionInv, Known, Contract!Raise
  <2>4. QED
    BY <1>1, <1>4, <2>1, <2>2, <2>3 DEF ExtractionInv, Contract!Raise
<1>5. CASE Contract!Raise /\ UNCHANGED <<containers, late>>
  BY <1>1, <1>5, CommandKeeps
<1>6. QED
  BY <1>3, <1>4, <1>5 DEF Contract!Create

LEMMA CopyKeeps ==
    ASSUME ExtractionInv, Contract!Copy
    PROVE  ExtractionInv'
<1>1. gateStep = "copy" /\ UNCHANGED <<wanted, local, kind, round, unremoved,
                                       containers, late, prunes>>
  BY DEF Contract!Copy, Contract!Goto, Contract!Raise, Contract!question
<1>2. CASE (\E c \in Contract!Named : kind[c.image] # "no contract") /\ Contract!Goto("validate")
  <2>1. /\ Contract!Named \subseteq {Contract!Ours}
        /\ Contract!Ours.image = Contract!Image
    BY <1>1 DEF ExtractionInv, Known, Contract!Ours
  <2>2. kind[Contract!Image] # "no contract"
    BY <1>2, <2>1
  <2>3. QED
    BY <1>1, <1>2, <2>2, CommandKeeps DEF Contract!Goto
<1>3. CASE Contract!Raise
  BY <1>1, <1>3, CommandKeeps
<1>4. QED
  BY <1>2, <1>3 DEF Contract!Copy

LEMMA OursIsNamed ==
    ASSUME ExtractionInv
    PROVE  Contract!Ours \in containers <=> Contract!Ours \in Contract!Named
BY DEF Contract!Named, Contract!Ours

LEMMA RemoveKeeps ==
    ASSUME ExtractionInv, Contract!Remove
    PROVE  ExtractionInv'
<1>1. gateStep = "remove" /\ UNCHANGED <<wanted, local, kind, late, prunes>>
  BY DEF Contract!Remove, Contract!question
<1>2. CASE Contract!RemovalFails /\ UNCHANGED containers
  <2>1. round' = round
    BY <1>2 DEF Contract!RemovalFails, Contract!Block
  <2>2. QED
    BY <1>1, <1>2, <2>1, CommandKeeps DEF Contract!RemovalFails
<1>3. CASE /\ containers' = containers \ Contract!Named
           /\ Contract!Conclude /\ UNCHANGED unremoved
  BY <1>1, <1>3, OursIsNamed, ConcludeKeeps
<1>4. CASE /\ containers' = containers \ Contract!Named
           /\ Contract!RemovalFails
  <2>1. /\ UNCHANGED <<round, failed>> /\ gateStep' = "done"
        /\ outcome' = "blocked" /\ unremoved' = TRUE
    BY <1>4 DEF Contract!RemovalFails, Contract!Block
  <2>2. Contract!Image' = Contract!Image /\ Contract!Ours' = Contract!Ours
    BY <1>1, <2>1 DEF Contract!Image, Contract!Ours
  <2>3. Contract!TypeOK'
    BY <1>1, <1>4, <2>1 DEF ExtractionInv, Contract!TypeOK, Contract!Steps
  <2>4. Inspected'
    BY <1>1, <2>1, <2>2 DEF ExtractionInv, Inspected
  <2>5. Known'
    BY <1>1, <1>4, <2>1, <2>2 DEF ExtractionInv, Known
  <2>6. QED
    BY <1>1, <2>1, <2>3, <2>4, <2>5 DEF ExtractionInv
<1>5. QED
  BY <1>2, <1>3, <1>4 DEF Contract!Remove

LEMMA ListKeeps ==
    ASSUME ExtractionInv, Contract!List
    PROVE  ExtractionInv'
<1>1. gateStep = "list" /\ UNCHANGED <<wanted, local, kind, containers, late,
                                       prunes>>
  BY DEF Contract!List, Contract!question
<1>2. CASE Contract!Listed = {} /\ Contract!Conclude /\ UNCHANGED unremoved
  <2>1. Contract!Ours \notin containers
    BY <1>2 DEF Contract!Listed, Contract!Ours
  <2>2. QED
    BY <1>1, <1>2, <2>1, ConcludeKeeps
<1>3. CASE Contract!Goto("look") /\ UNCHANGED unremoved
  BY <1>1, <1>3, CommandKeeps DEF Contract!Goto
<1>4. CASE Contract!RemovalFails
  BY <1>1, <1>4, CommandKeeps DEF Contract!RemovalFails, Contract!Block
<1>5. QED
  BY <1>2, <1>3, <1>4 DEF Contract!List

LEMMA CreatedLateKeeps ==
    ASSUME ExtractionInv, Contract!CreatedLate
    PROVE  ExtractionInv'
<1>1. /\ UNCHANGED <<wanted, local, kind, round, gateStep, failed, outcome,
                     unremoved, prunes>>
      /\ late = {Contract!Ours}
      /\ \A d \in containers : ~(d.name = "ours" /\ d.round = round)
      /\ containers' = containers \cup {Contract!Ours}
      /\ late' = {}
  BY DEF Contract!CreatedLate, ExtractionInv, Known, Contract!question,
         Contract!gate, Contract!Ours
<1>2. /\ Contract!Image' = Contract!Image /\ Contract!Ours' = Contract!Ours
      /\ Contract!Ours \in Contract!Containers
      /\ Contract!Ours.name = "ours" /\ Contract!Ours.round = round
      /\ Contract!Ours.owner = "us"
  BY <1>1, ImageType DEF ExtractionInv, Contract!Image, Contract!Ours
<1>3. Contract!TypeOK'
  BY <1>1, <1>2 DEF ExtractionInv, Contract!TypeOK
<1>4. Inspected'
  BY <1>1, <1>2 DEF ExtractionInv, Inspected
<1>5. Contract!Named' \subseteq {Contract!Ours}
  BY <1>1 DEF Contract!Named
<1>6. Known'
  BY <1>1, <1>2, <1>5 DEF ExtractionInv, Known
<1>7. QED
  BY <1>1, <1>3, <1>4, <1>6 DEF ExtractionInv

LEMMA PruneKeeps ==
    ASSUME Contract!ExtractionAssumption, ExtractionInv,
           Contract!Prune \/ UNCHANGED contractVars
    PROVE  ExtractionInv'
<1>1. /\ UNCHANGED <<wanted, local, kind, round, gateStep, failed, outcome,
                     unremoved, late>>
      /\ containers' \subseteq containers
      /\ prunes' \in 0..MaxPrunes
  BY DEF Contract!Prune, contractVars, Contract!question, Contract!gate,
         ExtractionInv, Contract!TypeOK, Contract!ExtractionAssumption
<1>2. Contract!Image' = Contract!Image /\ Contract!Ours' = Contract!Ours
  BY <1>1 DEF Contract!Image, Contract!Ours
<1>3. Contract!TypeOK'
  BY <1>1 DEF ExtractionInv, Contract!TypeOK
<1>4. Inspected'
  BY <1>1, <1>2 DEF ExtractionInv, Inspected
<1>5. Contract!Named' \subseteq Contract!Named
  BY <1>1 DEF Contract!Named
<1>6. Known'
  BY <1>1, <1>2, <1>5 DEF ExtractionInv, Known
<1>7. QED
  BY <1>1, <1>3, <1>4, <1>6 DEF ExtractionInv

LEMMA ExtractionStep ==
    ASSUME Contract!ExtractionAssumption, ExtractionInv,
           [Contract!Next]_contractVars
    PROVE  ExtractionInv'
<1>0. unremoved \in BOOLEAN
  BY DEF ExtractionInv, Contract!TypeOK
<1>1. CASE Contract!Pull
  BY <1>0, <1>1, CommandKeeps
     DEF Contract!Pull, Contract!Goto, Contract!Block, Contract!question
<1>2. CASE Contract!Inspect
  BY <1>0, <1>2, CommandKeeps
     DEF Contract!Inspect, Contract!Goto, Contract!Block, Contract!question
<1>3. CASE Contract!Validate
  BY <1>3, CommandKeeps
     DEF Contract!Validate, Contract!Goto, Contract!Raise, Contract!question
<1>4. CASE Contract!Look
  BY <1>4, CommandKeeps, OursIsNamed
     DEF Contract!Look, Contract!Goto, Contract!RemovalFails, Contract!Block,
         Contract!question
<1>5. QED
  BY <1>1, <1>2, <1>3, <1>4, CreateKeeps, CopyKeeps, ListKeeps, RemoveKeeps,
     CreatedLateKeeps, PruneKeeps
     DEF Contract!Next, Contract!GateNext

LEMMA AllowedImages ==
    ASSUME ExtractionInv
    PROVE  Contract!AllowedMeansCompatible
<1>1. Len(wanted) \in {1, 2} /\ round \in {1, 2}
  BY ImageType DEF ExtractionInv
<1> SUFFICES ASSUME outcome = "allowed", NEW i \in 1..Len(wanted)
             PROVE  kind[wanted[i]] = "compatible"
  BY DEF Contract!AllowedMeansCompatible
<1>2. round = Len(wanted) /\ kind[wanted[round]] = "compatible"
  BY DEF ExtractionInv, Inspected, Contract!Image
<1>3. i = round \/ i \in 1..(round - 1)
  BY <1>1, <1>2
<1>4. QED
  BY <1>2, <1>3 DEF ExtractionInv, Inspected

\* What a command of the gate does to the containers.
LEMMA GateStep ==
    ASSUME ExtractionInv, Contract!GateNext
    PROVE  /\ containers \ containers' \subseteq {Contract!Ours}
           /\ gateStep' = "done" =>
                      \/ unremoved' /\ outcome' = "blocked"
                      \/ ~\E c \in containers' : c.owner = "us"
<1>1. Contract!Ours.owner = "us"
  BY DEF Contract!Ours
<1>2. CASE Contract!Pull \/ Contract!Inspect
  BY <1>2
     DEF ExtractionInv, Known, Contract!Pull, Contract!Inspect, Contract!Goto
<1>3. CASE Contract!Create \/ Contract!Copy \/ Contract!Validate
  BY <1>3
     DEF Contract!Create, Contract!Copy, Contract!Validate, Contract!Goto,
         Contract!Raise
<1>4. CASE Contract!List
  <2>1. containers' = containers
    BY <1>4 DEF Contract!List
  <2>2. Contract!Listed = {} => Contract!Ours \notin containers
    BY DEF Contract!Listed, Contract!Ours
  <2>3. QED
    BY <1>4, <2>1, <2>2
       DEF Contract!List, Contract!Goto, Contract!RemovalFails, Contract!Block,
           ExtractionInv, Known
<1>5. CASE Contract!Look
  BY <1>5
     DEF Contract!Look, Contract!Goto, Contract!RemovalFails, Contract!Block
<1>6. CASE Contract!Remove
  BY <1>6, OursIsNamed
     DEF Contract!Remove, Contract!RemovalFails, Contract!Block, ExtractionInv,
         Known
<1>7. QED
  BY <1>2, <1>3, <1>4, <1>5, <1>6 DEF Contract!GateNext

LEMMA ContractIdleInv ==
    ASSUME Contract!ExtractionAssumption, References # {}, ContractIdle
    PROVE  ExtractionInv
<1>1. PICK r \in References : wanted = <<r>>
  BY DEF ContractIdle
<1>2. Len(wanted) = 1 /\ wanted[1] = r
  BY <1>1
<1>3. /\ local = TRUE /\ round = 1 /\ gateStep = "done" /\ failed = FALSE
      /\ outcome = "blocked" /\ unremoved = FALSE
      /\ containers = {} /\ late = {} /\ prunes = 0
  BY DEF ContractIdle
<1>4. Contract!TypeOK
  <2>1. wanted \in {<<s>> : s \in References}
    BY <1>1
  <2>2. kind \in [References -> Contract!Kinds]
    BY DEF ContractIdle, Contract!Kinds
  <2>3. MaxPrunes \in Nat
    BY DEF Contract!ExtractionAssumption
  <2>4. round \in 1..Len(wanted) /\ prunes \in 0..MaxPrunes
    BY <1>2, <1>3, <2>3
  <2>5. QED
    BY <1>3, <2>1, <2>2, <2>4 DEF Contract!TypeOK, Contract!Steps
<1>5. Inspected
  <2>1. 1..(round - 1) = {}
    BY <1>3
  <2>2. QED
    BY <1>3, <2>1 DEF Inspected
<1>6. Known
  BY <1>3 DEF Known
<1>7. QED
  BY <1>3, <1>4, <1>5, <1>6 DEF ExtractionInv

-----------------------------------------------------------------------------
(* The preflight.                                                          *)

LookedAt == {Preflight!Order[k] : k \in 1..asked}
AccountFound ==
    [check |-> "aws_account_access", account |-> "expected", right |-> TRUE]
        \in reads

\* What a check that was made has left.
ChecksMade ==
    /\ \A r \in reads : r.check \in LookedAt
    /\ \A r \in reads :
           r.right /\ r.check \notin Preflight!Unbound => r.account = "expected"
    /\ \A c \in LookedAt :
           c \in failures \/ \E r \in reads : r.check = c /\ r.right
    /\ asked > 0 /\ step = "aws" => AccountFound
    /\ asked > 1 => AccountFound

PreflightInv ==
    /\ Preflight!TypeOK
    /\ awsChecked => invited /\ Preflight!Consistent /\ step # "config"
    /\ step = "config" => failures = {} /\ asked = 0
    /\ asked > 0 => awsChecked
    /\ step = "aws" => awsChecked /\ asked < Preflight!Last
    /\ step \in {"report", "done"} /\ awsChecked /\ failures = {} => asked = Preflight!Last
    /\ step \in {"report", "done"} /\ failures = {} =>
           Preflight!Consistent /\ awsChecked = invited
    /\ ChecksMade
    /\ file = "metadata_verified" =>
           step = "done" /\ awsChecked /\ failures = {}
    /\ exit = "success" =>
           /\ step = "done" /\ failures = {}
           /\ file = IF awsChecked THEN "metadata_verified"
                     ELSE "configuration_valid_unverified"

LEMMA OrderFacts ==
    /\ Len(Preflight!Order) = 10
    /\ Preflight!Checks = {"aws_account_access", "ecr_immutable_repository",
                           "ecr_image_exists", "acm_certificate_ready",
                           "runtime_secret_metadata", "state_bucket_versioning",
                           "state_bucket_public_access", "state_bucket_encryption",
                           "two_availability_zones", "github_oidc_provider"}
    /\ \A k \in 1..10 : Preflight!Order[k] \in Preflight!Checks
    /\ Preflight!Order[1] = "aws_account_access"
    /\ \A k \in 2..10 : Preflight!Order[k] # "aws_account_access"
    /\ Preflight!Order[10] = "github_oidc_provider"
    /\ \A c \in Preflight!Checks : \E k \in 1..10 : Preflight!Order[k] = c
    /\ \A c \in Preflight!Checks \ {"github_oidc_provider"} : \E k \in 1..9 : Preflight!Order[k] = c
<1>1. /\ Len(Preflight!Order) = 10
      /\ Preflight!Order[1] = "aws_account_access"
      /\ Preflight!Order[2] = "ecr_immutable_repository"
      /\ Preflight!Order[3] = "ecr_image_exists"
      /\ Preflight!Order[4] = "acm_certificate_ready"
      /\ Preflight!Order[5] = "runtime_secret_metadata"
      /\ Preflight!Order[6] = "state_bucket_versioning"
      /\ Preflight!Order[7] = "state_bucket_public_access"
      /\ Preflight!Order[8] = "state_bucket_encryption"
      /\ Preflight!Order[9] = "two_availability_zones"
      /\ Preflight!Order[10] = "github_oidc_provider"
  BY DEF Preflight!Order
<1>2. 1..10 = {1, 2, 3, 4, 5, 6, 7, 8, 9, 10}
  OBVIOUS
<1>3. Preflight!Checks = {Preflight!Order[k] : k \in 1..10}
  BY <1>1 DEF Preflight!Checks
<1>4. QED
  BY <1>1, <1>2, <1>3

LEMMA InitPreflight ==
    ASSUME Preflight!PreflightAssumption, Preflight!Init
    PROVE  PreflightInv
<1>1. Preflight!TypeOK
  <2>1. ready \subseteq Preflight!Checks /\ 0 \in 0..Len(Preflight!Order)
    BY OrderFacts DEF Preflight!Init
  <2>2. /\ asked \in 0..Len(Preflight!Order)
        /\ changes \in 0..MaxChanges
        /\ faults \in 0..MaxFaults
    BY <2>1 DEF Preflight!PreflightAssumption, Preflight!Init
  <2>3. QED
    BY <2>1, <2>2 DEF Preflight!Init, Preflight!TypeOK
<1>2. ChecksMade
  BY DEF Preflight!Init, ChecksMade, LookedAt
<1>3. QED
  BY <1>1, <1>2 DEF Preflight!Init, PreflightInv

LEMMA ValidateKeeps ==
    ASSUME Preflight!PreflightAssumption, PreflightInv, Preflight!ValidateConfig
    PROVE  PreflightInv'
<1>1. Preflight!ConfigFailures = {} => Preflight!Consistent
  <2> SUFFICES ASSUME Preflight!ConfigFailures = {} PROVE Preflight!Consistent
    OBVIOUS
  <2>1. config \in Preflight!ConfigSpace
    BY DEF Preflight!PreflightAssumption, PreflightInv, Preflight!TypeOK
  <2>2. config.missing \subseteq Preflight!Fields /\ config.other \in BOOLEAN
    BY <2>1 DEF Preflight!ConfigSpace
  <2>3. /\ config.json = "object"
        /\ config.missing \cap Preflight!Required = {} /\ ~config.other
    BY <2>2 DEF Preflight!ConfigFailures
  <2>4. \A f \in config.malformed \cup config.elsewhere :
            f \in Preflight!Github /\ ~config.github
    BY <2>3 DEF Preflight!ConfigFailures
  <2>5. config.github => Preflight!Github \cap config.missing = {}
    BY <2>3 DEF Preflight!ConfigFailures
  <2>6. QED
    BY <2>3, <2>4, <2>5 DEF Preflight!Consistent
<1>2. Preflight!ConfigFailures \subseteq
          Preflight!Fields \cup {"configuration", "configuration_fields"}
  BY DEF Preflight!PreflightAssumption, PreflightInv, Preflight!TypeOK,
         Preflight!ConfigFailures, Preflight!ConfigSpace,
         Preflight!Fields, Preflight!Placed, Preflight!Required, Preflight!Github
<1>3. /\ step = "config" /\ asked = 0 /\ asked' = 0 /\ reads' = reads
      /\ UNCHANGED <<config, invited, cli, file, exit, session, ready, changes,
                     faults>>
      /\ step' = IF awsChecked' THEN "aws" ELSE "report"
      /\ awsChecked' = (invited /\ Preflight!ConfigFailures = {} /\ cli)
      /\ awsChecked' \in BOOLEAN
      /\ failures' = Preflight!ConfigFailures
                   \cup {f \in {"aws_cli"} :
                             invited /\ Preflight!ConfigFailures = {} /\ ~cli}
      /\ reads = {}
  BY DEF Preflight!ValidateConfig, PreflightInv, Preflight!input,
         Preflight!world, ChecksMade, LookedAt
<1>4. Preflight!TypeOK'
  BY <1>2, <1>3 DEF PreflightInv, Preflight!TypeOK
<1>5. ChecksMade'
  BY <1>3 DEF ChecksMade, LookedAt
<1>6. 0 < Preflight!Last
  BY OrderFacts DEF Preflight!Last
<1>7. /\ Preflight!Consistent' = Preflight!Consistent
      /\ Preflight!Last' = Preflight!Last
  BY <1>3 DEF Preflight!Consistent, Preflight!Last
<1>8. file # "metadata_verified" /\ exit # "success"
  BY <1>3 DEF PreflightInv
<1>9. QED
  BY <1>1, <1>3, <1>4, <1>5, <1>6, <1>7, <1>8 DEF PreflightInv, Preflight!TypeOK

LEMMA ReadKeeps ==
    ASSUME Preflight!PreflightAssumption, PreflightInv, Preflight!Read
    PROVE  PreflightInv'
<1>1. /\ step = "aws" /\ awsChecked /\ asked < Preflight!Last /\ asked \in 0..9
      /\ asked' = asked + 1
      /\ UNCHANGED <<config, invited, cli, awsChecked, file, exit, session,
                     ready, changes>>
      /\ file # "metadata_verified" /\ exit # "success"
      /\ Preflight!Last \in 9..10
  BY OrderFacts
     DEF Preflight!Read, PreflightInv, Preflight!TypeOK, Preflight!input,
         Preflight!world, Preflight!Last
<1>2. Preflight!Check \in Preflight!Checks /\ (Preflight!Check = "aws_account_access" <=> asked = 0)
  BY <1>1, OrderFacts DEF Preflight!Check
<1>3. LookedAt' = LookedAt \cup {Preflight!Check}
  <2>1. 1..(asked + 1) = (1..asked) \cup {asked + 1}
    BY <1>1
  <2>2. QED
    BY <1>1, <2>1 DEF LookedAt, Preflight!Check
<1>4. /\ Preflight!Consistent' = Preflight!Consistent
      /\ Preflight!Last' = Preflight!Last
  BY <1>1 DEF Preflight!Consistent, Preflight!Last
<1>5. asked > 0 => AccountFound
  BY <1>1 DEF PreflightInv, ChecksMade
<1>6. CASE /\ reads' = reads \cup {[check |-> Preflight!Check, account |-> session,
                                   right |-> Preflight!Right(Preflight!Check)]}
           /\ failures' = IF Preflight!Right(Preflight!Check) THEN failures
                          ELSE failures \cup {Preflight!Check}
           /\ Preflight!Continue(~Preflight!Right(Preflight!Check))
           /\ UNCHANGED faults
  <2> DEFINE new == [check |-> Preflight!Check, account |-> session,
                     right |-> Preflight!Right(Preflight!Check)]
  <2>1. Preflight!Right(Preflight!Check) \in BOOLEAN
    BY DEF Preflight!Right
  <2>2. /\ new.check = Preflight!Check /\ new.account = session
        /\ new.right = Preflight!Right(Preflight!Check)
        /\ new \in Preflight!Reads
    BY <1>2, <2>1 DEF PreflightInv, Preflight!TypeOK, Preflight!Reads
  <2>3. Preflight!Right(Preflight!Check) /\ Preflight!Check \notin Preflight!Unbound => session = "expected"
    BY DEF Preflight!Right
  <2>4. asked = 0 /\ Preflight!Right(Preflight!Check) => AccountFound'
    BY <1>2, <1>6, <2>1, <2>3 DEF AccountFound, Preflight!Unbound
  <2>5. AccountFound => AccountFound'
    BY <1>6 DEF AccountFound
  <2>6. step' \in {"aws", "report"} /\ (step' = "aws" => asked + 1 # Preflight!Last
           /\ (asked = 0 => Preflight!Right(Preflight!Check)))
    BY <1>2, <1>6 DEF Preflight!Continue
  <2>7. step' = "report" => asked + 1 = Preflight!Last \/ ~Preflight!Right(Preflight!Check)
    BY <1>6 DEF Preflight!Continue
  <2> HIDE DEF new
  <2>8. reads' = reads \cup {new}
    BY <1>6 DEF new
  <2>9. /\ failures' \subseteq failures \cup {Preflight!Check}
        /\ failures \subseteq failures'
        /\ (~Preflight!Right(Preflight!Check) => Preflight!Check \in failures')
    BY <1>6
  <2>10. Preflight!TypeOK'
    BY <1>1, <1>2, <1>6, <2>2, <2>6, <2>8, <2>9, OrderFacts
       DEF PreflightInv, Preflight!TypeOK
  <2>11. ChecksMade'
    <3>1. \A r \in reads' : r.check \in LookedAt'
      BY <1>3, <2>2, <2>8 DEF PreflightInv, ChecksMade
    <3>2. \A r \in reads' : r.right /\ r.check \notin Preflight!Unbound => r.account = "expected"
      BY <2>2, <2>3, <2>8 DEF PreflightInv, ChecksMade
    <3>3. \A c \in LookedAt' :
           c \in failures' \/ \E r \in reads' : r.check = c /\ r.right
      BY <1>3, <2>2, <2>8, <2>9 DEF PreflightInv, ChecksMade
    <3>4. asked' > 0 /\ step' = "aws" => AccountFound'
      BY <1>1, <1>5, <2>4, <2>5, <2>6
    <3>5. asked' > 1 => AccountFound'
      BY <1>1, <1>5, <2>5
    <3>6. QED
      BY <3>1, <3>2, <3>3, <3>4, <3>5 DEF ChecksMade
  <2>12. QED
    BY <1>1, <1>4, <2>6, <2>7, <2>9, <2>10, <2>11 DEF PreflightInv
<1>7. CASE /\ faults < MaxFaults
           /\ faults' = faults + 1
           /\ failures' = failures \cup {Preflight!Check}
           /\ Preflight!Continue(TRUE)
           /\ UNCHANGED reads
  <2>1. step' \in {"aws", "report"}
        /\ (step' = "aws" => asked + 1 # Preflight!Last /\ asked # 0)
    BY <1>2, <1>7 DEF Preflight!Continue
  <2>2. Preflight!TypeOK'
    BY <1>1, <1>2, <1>7, <2>1, OrderFacts
       DEF Preflight!PreflightAssumption, PreflightInv, Preflight!TypeOK
  <2>3. ChecksMade'
    BY <1>1, <1>3, <1>5, <1>7, <2>1 DEF PreflightInv, ChecksMade, AccountFound
  <2>4. QED
    BY <1>1, <1>4, <1>7, <2>1, <2>2, <2>3 DEF PreflightInv
<1>8. QED
  BY <1>6, <1>7 DEF Preflight!Read

LEMMA ReportKeeps ==
    ASSUME PreflightInv, Preflight!Report
    PROVE  PreflightInv'
<1>1. /\ step = "report" /\ step' = "done"
      /\ UNCHANGED <<config, invited, cli, asked, failures, awsChecked, session,
                     ready, changes, faults, reads>>
      /\ file # "metadata_verified"
  BY DEF Preflight!Report, PreflightInv, Preflight!input, Preflight!world
<1>2. \/ /\ exit' = IF failures = {} THEN "success" ELSE "failure"
         /\ file' = IF failures # {} THEN "blocked"
                    ELSE IF awsChecked THEN "metadata_verified"
                    ELSE "configuration_valid_unverified"
      \/ exit' = "failure" /\ UNCHANGED file
  BY DEF Preflight!Report
<1>3. Preflight!TypeOK'
  BY <1>1, <1>2 DEF PreflightInv, Preflight!TypeOK, Preflight!Readiness
<1>4. ChecksMade'
  BY <1>1 DEF PreflightInv, ChecksMade, LookedAt, AccountFound
<1>5. /\ Preflight!Consistent' = Preflight!Consistent
      /\ Preflight!Last' = Preflight!Last
  BY <1>1 DEF Preflight!Consistent, Preflight!Last
<1>6. QED
  BY <1>1, <1>2, <1>3, <1>4, <1>5 DEF PreflightInv

LEMMA WorldKeeps ==
    ASSUME Preflight!PreflightAssumption, PreflightInv,
           Preflight!SwitchSession \/ Preflight!ChangeResource \/ UNCHANGED preflightVars
    PROVE  PreflightInv'
<1>1. UNCHANGED <<config, invited, cli, step, asked, failures, awsChecked, file,
                  exit, faults, reads>>
  BY DEF Preflight!SwitchSession, Preflight!ChangeResource, preflightVars,
         Preflight!input, Preflight!program, Preflight!world
<1>2. Preflight!TypeOK'
  BY <1>1
     DEF Preflight!SwitchSession, Preflight!ChangeResource, preflightVars,
         Preflight!world, Preflight!PreflightAssumption, PreflightInv,
         Preflight!TypeOK
<1>3. ChecksMade'
  BY <1>1 DEF PreflightInv, ChecksMade, LookedAt, AccountFound
<1>5. /\ Preflight!Consistent' = Preflight!Consistent
      /\ Preflight!Last' = Preflight!Last
  BY <1>1 DEF Preflight!Consistent, Preflight!Last
<1>6. QED
  BY <1>1, <1>2, <1>3, <1>5 DEF PreflightInv

LEMMA PreflightStep ==
    ASSUME Preflight!PreflightAssumption, PreflightInv,
           [Preflight!Next]_preflightVars
    PROVE  PreflightInv'
BY ValidateKeeps, ReadKeeps, ReportKeeps, WorldKeeps
   DEF Preflight!Next, Preflight!PreflightNext

LEMMA PreflightReports ==
    ASSUME PreflightInv
    PROVE  /\ Preflight!VerifiedMeansFound
           /\ Preflight!SuccessIsOnDisk
           /\ Preflight!ReadsAreInvited
<1>1. Preflight!VerifiedMeansFound
  <2> SUFFICES ASSUME file = "metadata_verified",
                      NEW c \in Preflight!Checks \ (IF config.github THEN {}
                                                    ELSE {"github_oidc_provider"})
               PROVE  \E r \in reads :
                          /\ r.check = c /\ r.right
                          /\ c \notin Preflight!Unbound => r.account = "expected"
    BY DEF Preflight!VerifiedMeansFound
  <2>1. asked = Preflight!Last /\ failures = {} /\ ChecksMade
    BY DEF PreflightInv
  <2>2. c \in LookedAt
    BY <2>1, OrderFacts DEF LookedAt, Preflight!Last
  <2>3. QED
    BY <2>1, <2>2 DEF ChecksMade
<1>2. Preflight!SuccessIsOnDisk
  BY DEF Preflight!SuccessIsOnDisk, PreflightInv
<1>3. Preflight!ReadsAreInvited
  <2> SUFFICES ASSUME reads # {} PROVE
        /\ invited
        /\ Preflight!Consistent
        /\ {r.check : r \in reads} = {"aws_account_access"} \/ AccountFound
    BY DEF Preflight!ReadsAreInvited, AccountFound
  <2>1. asked \in Nat /\ asked > 0 /\ ChecksMade /\ invited /\ Preflight!Consistent
    BY OrderFacts DEF PreflightInv, ChecksMade, LookedAt, Preflight!TypeOK
  <2>2. CASE asked = 1
    <3>1. LookedAt = {"aws_account_access"}
      BY <2>2, OrderFacts DEF LookedAt
    <3>2. QED
      BY <2>1, <3>1 DEF ChecksMade
  <2>3. CASE asked > 1
    BY <2>1, <2>3 DEF ChecksMade
  <2>4. QED
    BY <2>1, <2>2, <2>3
<1>4. QED
  BY <1>1, <1>2, <1>3

LEMMA PreflightIdleInv ==
    ASSUME Preflight!PreflightAssumption, Configs # {}, PreflightIdle
    PROVE  PreflightInv
<1>1. config \in Configs
  BY DEF PreflightIdle
<1>2. Preflight!TypeOK
  <2>1. MaxChanges \in 0..MaxChanges /\ 0 \in 0..MaxFaults
    BY DEF Preflight!PreflightAssumption
  <2>2. 0 \in 0..Len(Preflight!Order)
    BY OrderFacts
  <2>3. QED
    BY <1>1, <2>1, <2>2 DEF PreflightIdle, Preflight!TypeOK
<1>3. ChecksMade
  BY DEF PreflightIdle, ChecksMade, LookedAt
<1>4. /\ step = "done" /\ failures # {} /\ asked = 0 /\ awsChecked = FALSE
      /\ file = "older" /\ exit = "failure"
  BY DEF PreflightIdle
<1>5. QED
  BY <1>2, <1>3, <1>4 DEF PreflightInv

-----------------------------------------------------------------------------
(* A listing in pages.                                                     *)

LEMMA SameListing ==
    /\ Listing!ListingAssumption <=> ListingProofs!ListingAssumption
    /\ Listing!TypeOK <=> ListingProofs!TypeOK
    /\ Listing!Init <=> ListingProofs!Init
    /\ Listing!Next <=> ListingProofs!Next
    /\ Listing!PagesShowAll <=> ListingProofs!PagesShowAll
<1>1. Listing!ListingAssumption <=> ListingProofs!ListingAssumption
  BY DEF Listing!ListingAssumption, ListingProofs!ListingAssumption
<1>2. /\ Listing!Tables = ListingProofs!Tables
      /\ Listing!Rows = ListingProofs!Rows
  BY DEF Listing!Tables, ListingProofs!Tables, Listing!Rows,
         ListingProofs!Rows, Listing!IsFiniteSet, ListingProofs!IsFiniteSet
<1>3. Listing!TypeOK <=> ListingProofs!TypeOK
  BY <1>2 DEF Listing!TypeOK, ListingProofs!TypeOK, Listing!Steps,
  Listing!Statuses, ListingProofs!Steps, ListingProofs!Statuses
<1>4. Listing!Init <=> ListingProofs!Init
  BY <1>2 DEF Listing!Init, ListingProofs!Init
<1>5. /\ Listing!Offset = ListingProofs!Offset
      /\ Listing!Admitted <=> ListingProofs!Admitted
  BY DEF Listing!Offset, ListingProofs!Offset, Listing!Admitted,
  ListingProofs!Admitted
<1>6. Listing!Listings = ListingProofs!Listings
  BY DEF Listing!Listings, ListingProofs!Listings, Listing!Before,
  ListingProofs!Before, Listing!SetToSeqs, ListingProofs!SetToSeqs,
  Listing!Cardinality, ListingProofs!Cardinality
<1>7. \A l : Listing!PageOf(l) = ListingProofs!PageOf(l)
  BY <1>5 DEF Listing!PageOf, ListingProofs!PageOf
<1>8. Listing!Ask <=> ListingProofs!Ask
  BY <1>5 DEF Listing!Ask, ListingProofs!Ask, Listing!query, ListingProofs!query
<1>9. Listing!ReadPage <=> ListingProofs!ReadPage
  BY <1>5, <1>6, <1>7 DEF Listing!ReadPage, ListingProofs!ReadPage,
  Listing!query, ListingProofs!query
<1>10. Listing!CountRows <=> ListingProofs!CountRows
  BY <1>5 DEF Listing!CountRows, ListingProofs!CountRows, Listing!Adjusted,
  ListingProofs!Adjusted, Listing!query, ListingProofs!query,
  Listing!Cardinality, ListingProofs!Cardinality
<1>11. Listing!Receive <=> ListingProofs!Receive
  BY DEF Listing!Receive, ListingProofs!Receive, Listing!HasNext,
  ListingProofs!HasNext, Listing!answer, ListingProofs!answer, Listing!ToSet,
  ListingProofs!ToSet
<1>12. Listing!Lose <=> ListingProofs!Lose
  BY DEF Listing!Lose, ListingProofs!Lose,  Listing!answer,
  ListingProofs!answer, Listing!query, ListingProofs!query
<1>13. Listing!Add <=> ListingProofs!Add
  BY <1>2 DEF Listing!Add, ListingProofs!Add, Listing!answer,
  ListingProofs!answer, Listing!query, ListingProofs!query
<1>14. Listing!PagesShowAll <=> ListingProofs!PagesShowAll
  BY DEF Listing!PagesShowAll, ListingProofs!PagesShowAll,
  Listing!NoRowIsSkipped, ListingProofs!NoRowIsSkipped,
  Listing!AdmittedMeansServed, ListingProofs!AdmittedMeansServed
<1>15. QED
  BY <1>1, <1>3, <1>4, <1>8, <1>9, <1>10, <1>11, <1>12, <1>13,
  <1>14 DEF Listing!Next, Listing!Handle, ListingProofs!Next, ListingProofs!Handle

LEMMA InitListing ==
    ASSUME Listing!ListingAssumption, Listing!Init
    PROVE  ListingProofs!ListingInv
BY SameListing, ListingProofs!InitListingInv

LEMMA ListingStep ==
    ASSUME Listing!ListingAssumption, ListingProofs!ListingInv,
           [Listing!Next]_listVars
    PROVE  ListingProofs!ListingInv'
<1>1. Listing!Next \/ UNCHANGED ListingProofs!vars
  BY DEF listVars, ListingProofs!vars, ListingProofs!query, ListingProofs!answer
<1>2. QED
  BY <1>1, SameListing, ListingProofs!NextKeepsListing

LEMMA ListingReports ==
    ASSUME Listing!ListingAssumption, ListingProofs!ListingInv
    PROVE  Listing!TypeOK /\ Listing!PagesShowAll
BY SameListing DEF ListingProofs!ListingInv, ListingProofs!ReadingAll,
ListingProofs!Served, ListingProofs!Admitted, ListingProofs!PagesShowAll,
ListingProofs!NoRowIsSkipped, ListingProofs!AdmittedMeansServed

LEMMA ListIdleInv ==
    ASSUME Listing!ListingAssumption, ListIdle
    PROVE  ListingProofs!ListingInv
<1>1. rows \in ListingProofs!Tables
  <2>1. ListingProofs!IsFiniteSet({})
    BY FS_EmptySet DEF ListingProofs!IsFiniteSet, IsFiniteSet
  <2>2. QED
    BY <2>1 DEF ListIdle, ListingProofs!Tables
<1>2. ListingProofs!TypeOK
  <2>1. items \in Seq(ListingProofs!Rows) /\ losses \in 0..MaxLosses
    <3>1. items = <<>> /\ losses = 0
      BY DEF ListIdle
    <3>2. MaxLosses \in Nat
      BY DEF Listing!ListingAssumption
    <3>3. QED
      BY <3>1, <3>2
  <2>2. QED
    BY <1>1, <2>1
       DEF ListIdle, ListingProofs!TypeOK, ListingProofs!Steps,
           ListingProofs!Statuses
<1>3. QED
  BY <1>2 DEF ListIdle, ListingProofs!ListingInv, ListingProofs!ReadingAll,
  ListingProofs!Served

-----------------------------------------------------------------------------
(* The jobs that prepare a database.                                       *)

Writers ==
    \A j \in MigrationJobs : jobStep[j] \in {"revoke", "grant", "commit"} => writer = j

Drafts ==
    \A j \in MigrationJobs :
        /\ jobStep[j] \in {"revoke", "grant", "commit"} =>
                  /\ draft[j].exists
                  /\ draft[j].password = j
                  /\ ~draft[j].owner
                  /\ ~draft[j].elevated
        /\ jobStep[j] \in {"grant", "commit"} => ~draft[j].more
        /\ jobStep[j] = "commit" => draft[j].needed

Safe ==
    \A j \in MigrationJobs :
        jobStep[j] \in {"revoke", "grant", "commit", "done"} => Provisioning!Acceptable(role)

Migrated ==
    \A j \in MigrationJobs :
        jobStep[j] \notin {"start", "migrate", "failed"} => schema >= Versions[j]

RoleInv ==
    /\ Provisioning!TypeOK
    /\ Writers
    /\ Drafts
    /\ Safe
    /\ Migrated

-----------------------------------------------------------------------------

LEMMA PreparedIsRole ==
    ASSUME NEW j \in MigrationJobs
    PROVE  /\ Provisioning!Prepared(j) \in Provisioning!Roles
           /\ Provisioning!Acceptable(Provisioning!Prepared(j))
BY DEF Provisioning!Prepared, Provisioning!Roles, Provisioning!Passwords,
       Provisioning!Acceptable

\* What a job commits.
LEMMA CommittedIsPrepared ==
    ASSUME Provisioning!TypeOK, Drafts, NEW j \in MigrationJobs, jobStep[j] = "commit"
    PROVE  draft[j] = Provisioning!Prepared(j)
BY DEF Provisioning!TypeOK, Drafts, Provisioning!Roles, Provisioning!Prepared

LEMMA InitRoleInv ==
    ASSUME Provisioning!ProvisioningAssumption, Provisioning!Init
    PROVE  RoleInv
<1>1. Provisioning!NoRole \in Provisioning!Roles
  BY DEF Provisioning!NoRole, Provisioning!Roles, Provisioning!Passwords
<1>2. Provisioning!TypeOK
  BY <1>1
     DEF Provisioning!ProvisioningAssumption, Provisioning!Init,
         Provisioning!TypeOK
<1>3. Writers /\ Drafts /\ Safe /\ Migrated
  BY DEF Provisioning!Init, Writers, Drafts, Safe, Migrated
<1>4. QED
  BY <1>2, <1>3 DEF RoleInv

\* A transaction that ends moves its job, and jobs that wait for it.
LEMMA EndMoves ==
    ASSUME NEW j \in MigrationJobs, NEW s, NEW committed \in BOOLEAN, Provisioning!TypeOK,
           Provisioning!End(j, s, committed)
    PROVE  /\ jobStep'[j] = s
           /\ \A k \in MigrationJobs \ {j} :
                  \/ jobStep'[k] = jobStep[k]
                  \/ jobStep[k] = "wait" /\ jobStep'[k] \in {"failed", "write"}
           /\ writer' = IF writer = j THEN "none" ELSE writer
BY DEF Provisioning!TypeOK, Provisioning!End

LEMMA StartKeeps ==
    ASSUME Provisioning!ProvisioningAssumption, RoleInv, NEW j \in MigrationJobs,
           Provisioning!Start(j)
    PROVE  RoleInv'
BY DEF RoleInv, Provisioning!TypeOK, Writers, Drafts, Safe, Migrated,
       Provisioning!Start, Provisioning!Goto

LEMMA MigrateKeeps ==
    ASSUME Provisioning!ProvisioningAssumption, RoleInv, NEW j \in MigrationJobs,
           Provisioning!Migrate(j)
    PROVE  RoleInv'
<1> USE DEF RoleInv, Provisioning!Migrate, Provisioning!Goto
<1>1. Provisioning!TypeOK'
  BY DEF Provisioning!ProvisioningAssumption, Provisioning!TypeOK,
         Provisioning!Roles, Provisioning!Passwords
<1>2. Writers'
  BY DEF Provisioning!TypeOK, Writers
<1>3. Drafts'
  BY DEF Provisioning!TypeOK, Drafts
<1>4. Safe'
  BY DEF Provisioning!TypeOK, Safe, Provisioning!Acceptable
<1>5. Migrated'
  BY DEF Provisioning!ProvisioningAssumption, Provisioning!TypeOK, Migrated
<1>6. QED
  BY <1>1, <1>2, <1>3, <1>4, <1>5

LEMMA LookKeeps ==
    ASSUME Provisioning!ProvisioningAssumption, RoleInv, NEW j \in MigrationJobs,
           Provisioning!Look(j)
    PROVE  RoleInv'
BY DEF RoleInv, Provisioning!TypeOK, Provisioning!Roles, Writers, Drafts, Safe,
       Migrated, Provisioning!Look, Provisioning!Goto

LEMMA WriteKeeps ==
    ASSUME Provisioning!ProvisioningAssumption, RoleInv, NEW j \in MigrationJobs,
           Provisioning!Write(j)
    PROVE  RoleInv'
<1>1. /\ jobStep[j] = "write"
      /\ UNCHANGED <<schema, role, short, missed, mishaps>>
  BY DEF Provisioning!Write
<1>2. CASE /\ jobStep' = [jobStep EXCEPT ![j] = "failed"]
           /\ UNCHANGED <<draft, writer>>
  BY <1>1, <1>2
     DEF RoleInv, Provisioning!TypeOK, Writers, Drafts, Safe, Migrated,
         Provisioning!Acceptable
<1>3. CASE /\ jobStep' = [jobStep EXCEPT ![j] = "wait"]
           /\ UNCHANGED <<draft, writer>>
  BY <1>1, <1>3
     DEF RoleInv, Provisioning!TypeOK, Writers, Drafts, Safe, Migrated,
         Provisioning!Acceptable
<1>4. CASE /\ Provisioning!Acceptable(role)
           /\ writer = "none"
           /\ draft' = [draft EXCEPT ![j] =
                            [role EXCEPT !.exists = TRUE, !.password = j]]
           /\ writer' = j
           /\ jobStep' = [jobStep EXCEPT ![j] = "revoke"]
  <2> DEFINE r == [role EXCEPT !.exists = TRUE, !.password = j]
  <2>1. /\ r \in Provisioning!Roles
        /\ r.exists
        /\ r.password = j
        /\ ~r.owner
        /\ ~r.elevated
    BY <1>4
       DEF RoleInv, Provisioning!TypeOK, Provisioning!Roles,
           Provisioning!Passwords, Provisioning!Acceptable
  <2>2. /\ draft'[j] = r
        /\ jobStep'[j] = "revoke"
        /\ \A k \in MigrationJobs \ {j} : draft'[k] = draft[k] /\ jobStep'[k] = jobStep[k]
    BY <1>4 DEF RoleInv, Provisioning!TypeOK
  <2> HIDE DEF r
  <2>3. Provisioning!TypeOK'
    <3>1. draft' \in [MigrationJobs -> Provisioning!Roles]
      BY <1>4, <2>1 DEF RoleInv, Provisioning!TypeOK, r
    <3>2. QED
      BY <1>1, <1>4, <3>1 DEF RoleInv, Provisioning!TypeOK
  <2>4. Writers'
    BY <1>4, <2>2 DEF Provisioning!ProvisioningAssumption, RoleInv, Writers
  <2>5. Drafts'
    BY <2>1, <2>2 DEF RoleInv, Drafts
  <2>6. Safe' /\ Migrated'
    BY <1>1, <1>4, <2>2 DEF RoleInv, Safe, Migrated, Provisioning!Acceptable
  <2>7. QED
    BY <2>3, <2>4, <2>5, <2>6 DEF RoleInv
<1>5. QED
  BY <1>2, <1>3, <1>4 DEF Provisioning!Write, Provisioning!Goto

LEMMA RevokeKeeps ==
    ASSUME Provisioning!ProvisioningAssumption, RoleInv, NEW j \in MigrationJobs,
           Provisioning!Revoke(j)
    PROVE  RoleInv'
<1> USE DEF RoleInv, Provisioning!Revoke, Provisioning!Goto
<1>1. Provisioning!TypeOK'
  <2> DEFINE r == [draft[j] EXCEPT !.needed = FALSE, !.more = FALSE]
  <2>1. r \in Provisioning!Roles
    BY DEF Provisioning!TypeOK, Provisioning!Roles
  <2>2. draft' = [draft EXCEPT ![j] = r]
    BY DEF Provisioning!TypeOK, Provisioning!Roles
  <2> HIDE DEF r
  <2>3. draft' \in [MigrationJobs -> Provisioning!Roles]
    BY <2>1, <2>2 DEF Provisioning!TypeOK
  <2>4. QED
    BY <2>3 DEF Provisioning!TypeOK
<1>2. Writers'
  BY DEF Provisioning!TypeOK, Writers
<1>3. Drafts'
  BY DEF Provisioning!TypeOK, Drafts, Provisioning!Roles
<1>4. Safe'
  BY DEF Provisioning!TypeOK, Safe, Provisioning!Acceptable
<1>5. Migrated'
  BY DEF Provisioning!ProvisioningAssumption, Provisioning!TypeOK, Migrated
<1>6. QED
  BY <1>1, <1>2, <1>3, <1>4, <1>5

LEMMA GrantKeeps ==
    ASSUME Provisioning!ProvisioningAssumption, RoleInv, NEW j \in MigrationJobs,
           Provisioning!Grant(j)
    PROVE  RoleInv'
<1> USE DEF RoleInv, Provisioning!Grant, Provisioning!Goto
<1>1. Provisioning!TypeOK'
  BY DEF Provisioning!ProvisioningAssumption, Provisioning!TypeOK,
         Provisioning!Roles, Provisioning!Passwords
<1>2. Writers'
  BY DEF Provisioning!TypeOK, Writers
<1>3. Drafts'
  BY DEF Provisioning!TypeOK, Drafts, Provisioning!Roles
<1>4. Safe'
  BY DEF Provisioning!TypeOK, Safe, Provisioning!Acceptable
<1>5. Migrated'
  BY DEF Provisioning!ProvisioningAssumption, Provisioning!TypeOK, Migrated
<1>6. QED
  BY <1>1, <1>2, <1>3, <1>4, <1>5

LEMMA JobCommitKeeps ==
    ASSUME Provisioning!ProvisioningAssumption, RoleInv, NEW j \in MigrationJobs,
           Provisioning!Commit(j)
    PROVE  RoleInv'
<1>1. PICK s \in {"done", "failed"} : Provisioning!End(j, s, TRUE)
  BY DEF Provisioning!Commit
<1>2. role' = draft[j] /\ draft[j] = Provisioning!Prepared(j)
  BY CommittedIsPrepared DEF RoleInv, Provisioning!Commit
<1>3. UNCHANGED <<schema, short, missed, draft>> /\ mishaps' \in 0..MaxFailures
  <2>1. mishaps' = mishaps \/ (mishaps < MaxFailures /\ mishaps' = mishaps + 1)
    BY DEF Provisioning!Commit
  <2>2. QED
    BY <2>1
       DEF Provisioning!ProvisioningAssumption, RoleInv, Provisioning!TypeOK,
           Provisioning!Commit
<1>4. /\ jobStep'[j] \in {"done", "failed"}
      /\ \A k \in MigrationJobs \ {j} :
             \/ jobStep'[k] = jobStep[k]
             \/ jobStep[k] = "wait" /\ jobStep'[k] \in {"failed", "write"}
      /\ writer' = IF writer = j THEN "none" ELSE writer
  BY <1>1, EndMoves DEF RoleInv
<1>5. Provisioning!TypeOK'
  BY <1>1, <1>3, <1>2, PreparedIsRole, <1>4
     DEF RoleInv, Provisioning!TypeOK, Provisioning!End
<1>6. Writers'
  BY <1>4 DEF RoleInv, Writers
<1>7. Drafts'
  BY <1>3, <1>4 DEF RoleInv, Drafts
<1>8. Safe'
  BY <1>2, PreparedIsRole, <1>4 DEF RoleInv, Safe, Provisioning!Acceptable
<1>9. Migrated'
  BY <1>3, <1>4 DEF RoleInv, Provisioning!TypeOK, Migrated, Provisioning!Commit
<1>10. QED
  BY <1>5, <1>6, <1>7, <1>8, <1>9 DEF RoleInv

LEMMA FailKeeps ==
    ASSUME Provisioning!ProvisioningAssumption, RoleInv, NEW j \in MigrationJobs,
           Provisioning!Fail(j)
    PROVE  RoleInv'
<1>1. Provisioning!End(j, "failed", FALSE)
  BY DEF Provisioning!Fail
<1>2. role' = role
  BY DEF Provisioning!Fail
<1>3. UNCHANGED <<schema, short, missed, draft>> /\ mishaps' \in 0..MaxFailures
  BY DEF Provisioning!ProvisioningAssumption, RoleInv, Provisioning!TypeOK,
         Provisioning!Fail
<1>4. /\ jobStep'[j] \in {"failed"}
      /\ \A k \in MigrationJobs \ {j} :
             \/ jobStep'[k] = jobStep[k]
             \/ jobStep[k] = "wait" /\ jobStep'[k] \in {"failed", "write"}
      /\ writer' = IF writer = j THEN "none" ELSE writer
  BY <1>1, EndMoves DEF RoleInv
<1>5. Provisioning!TypeOK'
  BY <1>1, <1>3, <1>2, <1>4 DEF RoleInv, Provisioning!TypeOK, Provisioning!End
<1>6. Writers'
  BY <1>4 DEF RoleInv, Writers
<1>7. Drafts'
  BY <1>3, <1>4 DEF RoleInv, Drafts
<1>8. Safe'
  BY <1>2, <1>4 DEF RoleInv, Safe, Provisioning!Acceptable
<1>9. Migrated'
  BY <1>3, <1>4 DEF RoleInv, Migrated
<1>10. QED
  BY <1>5, <1>6, <1>7, <1>8, <1>9 DEF RoleInv

LEMMA RoleStepKeeps ==
    ASSUME Provisioning!ProvisioningAssumption, RoleInv,
           [Provisioning!Next]_roleVars
    PROVE  RoleInv'
<1>1. CASE UNCHANGED roleVars
  BY <1>1
     DEF RoleInv, Provisioning!TypeOK, Writers, Drafts, Safe, Migrated,
         Provisioning!Acceptable,
              roleVars
<1>2. ASSUME NEW j \in MigrationJobs,
             Provisioning!Work(j) \/ Provisioning!Fail(j) PROVE RoleInv'
  BY <1>2, StartKeeps, MigrateKeeps, LookKeeps, WriteKeeps, RevokeKeeps,
     GrantKeeps, JobCommitKeeps, FailKeeps
     DEF Provisioning!Work
<1>3. QED
  BY <1>1, <1>2 DEF Provisioning!Next

-----------------------------------------------------------------------------

\* What one step does to the role: nothing, or the commit of an acceptable one.
LEMMA RoleStep ==
    ASSUME RoleInv, [Provisioning!Next]_roleVars
    PROVE  \/ role' = role
           \/ \E j \in MigrationJobs :
                  /\ jobStep[j] = "commit"
                  /\ role' = Provisioning!Prepared(j)
                  /\ Provisioning!Acceptable(role)
<1>1. ASSUME NEW j \in MigrationJobs, Provisioning!Commit(j)
      PROVE  /\ jobStep[j] = "commit"
             /\ role' = Provisioning!Prepared(j)
             /\ Provisioning!Acceptable(role)
  BY <1>1, CommittedIsPrepared DEF RoleInv, Safe, Provisioning!Commit
<1>2. ASSUME NEW j \in MigrationJobs, Provisioning!Work(j) \/ Provisioning!Fail(j),
             ~Provisioning!Commit(j)
      PROVE  role' = role
  BY <1>2
     DEF Provisioning!Work, Provisioning!Start, Provisioning!Migrate,
         Provisioning!Look, Provisioning!Write, Provisioning!Revoke,
         Provisioning!Grant, Provisioning!Fail
<1>3. QED
  BY <1>1, <1>2 DEF Provisioning!Next, roleVars

\* A job succeeds by its commit, and only then.
LEMMA SuccessStep ==
    ASSUME RoleInv, [Provisioning!Next]_roleVars, NEW j \in MigrationJobs,
           jobStep[j] # "done", jobStep'[j] = "done"
    PROVE  Provisioning!Commit(j)
<1>1. ASSUME NEW k \in MigrationJobs, Provisioning!Work(k) \/ Provisioning!Fail(k)
      PROVE  Provisioning!Commit(j)
  <2>1. CASE Provisioning!Commit(k)
    <3>1. PICK s \in {"done", "failed"} : Provisioning!End(k, s, TRUE)
      BY <2>1 DEF Provisioning!Commit
    <3>2. k = j
      BY <3>1, EndMoves DEF RoleInv
    <3>3. QED
      BY <2>1, <3>2
  <2>2. CASE Provisioning!Fail(k)
    <3>1. Provisioning!End(k, "failed", FALSE)
      BY <2>2 DEF Provisioning!Fail
    <3>2. QED
      BY <3>1, EndMoves DEF RoleInv
  <2>3. CASE \/ Provisioning!Start(k) \/ Provisioning!Migrate(k)
             \/ Provisioning!Look(k) \/ Provisioning!Write(k)
             \/ Provisioning!Revoke(k) \/ Provisioning!Grant(k)
    BY <2>3
       DEF RoleInv, Provisioning!TypeOK, Provisioning!Start,
           Provisioning!Migrate, Provisioning!Look, Provisioning!Write,
           Provisioning!Revoke, Provisioning!Grant, Provisioning!Goto
  <2>4. QED
    BY <1>1, <2>1, <2>2, <2>3 DEF Provisioning!Work
<1>2. QED
  BY <1>1 DEF Provisioning!Next, roleVars

\* The schema never goes back.
LEMMA SchemaStep ==
    ASSUME RoleInv, [Provisioning!Next]_roleVars
    PROVE  schema' >= schema
<1>1. ASSUME NEW j \in MigrationJobs, Provisioning!Work(j) \/ Provisioning!Fail(j)
      PROVE  schema' >= schema
  <2>1. CASE Provisioning!Migrate(j)
    BY <2>1 DEF RoleInv, Provisioning!TypeOK, Provisioning!Migrate
  <2>2. CASE ~Provisioning!Migrate(j)
    <3>1. schema' = schema
      BY <1>1, <2>2
         DEF Provisioning!Work, Provisioning!Start, Provisioning!Look,
             Provisioning!Write, Provisioning!Revoke, Provisioning!Grant,
             Provisioning!Commit, Provisioning!Fail
    <3>2. QED
      BY <3>1 DEF RoleInv, Provisioning!TypeOK
  <2>3. QED
    BY <2>1, <2>2
<1>2. QED
  BY <1>1 DEF Provisioning!Next, roleVars, RoleInv, Provisioning!TypeOK

\* A step changes the role as a job prepares it, and when a job succeeds, the
\* schema and the role it brings are in place.
LEMMA WholeRoleStep ==
    ASSUME Provisioning!ProvisioningAssumption, RoleInv,
           [Provisioning!Next]_roleVars
    PROVE  /\ role' = role \/ \E j \in MigrationJobs : role' = Provisioning!Prepared(j)
           /\ schema' >= schema
           /\ \A j \in MigrationJobs :
                  /\ jobStep[j] # "done" /\ jobStep'[j] = "done" =>
                         /\ role' = Provisioning!Prepared(j)
                         /\ schema' >= Versions[j]
                  /\ role' = Provisioning!Prepared(j) /\ role' # role =>
                         jobStep[j] = "commit"
<1>1. role' = role \/ \E j \in MigrationJobs : role' = Provisioning!Prepared(j)
  BY RoleStep
<1>2. ASSUME NEW j \in MigrationJobs, jobStep[j] # "done", jobStep'[j] = "done"
      PROVE  role' = Provisioning!Prepared(j) /\ schema' >= Versions[j]
  <2>1. Provisioning!Commit(j)
    BY <1>2, SuccessStep
  <2>2. draft[j] = Provisioning!Prepared(j)
    BY <2>1, CommittedIsPrepared DEF RoleInv, Provisioning!Commit
  <2>3. QED
    BY <2>1, <2>2 DEF RoleInv, Migrated, Provisioning!Commit
<1>3. ASSUME NEW j \in MigrationJobs, role' = Provisioning!Prepared(j), role' # role
      PROVE  jobStep[j] = "commit"
  BY <1>3, RoleStep DEF Provisioning!Prepared
<1>4. QED
  BY <1>1, <1>2, <1>3, SchemaStep

\* No step changes a role that may not be restricted, and none ends in success.
LEMMA UnsafeRoleStep ==
    ASSUME Provisioning!ProvisioningAssumption, RoleInv,
           [Provisioning!Next]_roleVars, role.owner \/ role.elevated
    PROVE  /\ role' = role
           /\ \A j \in MigrationJobs : jobStep'[j] # "done"
<1>1. role' = role
  BY RoleStep DEF Provisioning!Acceptable
<1>2. RoleInv'
  BY RoleStepKeeps
<1>3. QED
  BY <1>1, <1>2 DEF RoleInv, Safe, Provisioning!Acceptable

LEMMA RoleIdleInv ==
    ASSUME Provisioning!ProvisioningAssumption, RoleIdle
    PROVE  RoleInv
<1>1. Provisioning!NoRole \in Provisioning!Roles
  BY DEF Provisioning!NoRole, Provisioning!Roles, Provisioning!Passwords
<1>2. Provisioning!TypeOK
  BY <1>1 DEF Provisioning!ProvisioningAssumption, RoleIdle, Provisioning!TypeOK
<1>3. Writers /\ Drafts /\ Safe /\ Migrated
  BY DEF RoleIdle, Writers, Drafts, Safe, Migrated
<1>4. QED
  BY <1>2, <1>3 DEF RoleInv

-----------------------------------------------------------------------------
(* All six.                                                                *)

ToolsInv ==
    /\ LoadInv
    /\ BatchInv
    /\ ExtractionInv
    /\ PreflightInv
    /\ ListingProofs!ListingInv
    /\ RoleInv

LEMMA InitToolsInv == Init => ToolsInv
<1> SUFFICES ASSUME Init PROVE ToolsInv
  OBVIOUS
<1> USE ToolsAssumption DEF ToolsAssumption
<1>1. Load!Init \/ LoadIdle
  BY DEF Init
<1>2. Batch!Init \/ BatchIdle
  BY DEF Init
<1>3. Contract!Init \/ ContractIdle
  BY DEF Init
<1>4. Preflight!Init \/ PreflightIdle
  BY DEF Init
<1>5. Listing!Init \/ ListIdle
  BY DEF Init
<1>6. Provisioning!Init \/ RoleIdle
  BY DEF Init
<1>7. LoadInv
  BY <1>1, InitLoad, LoadIdleInv
<1>8. BatchInv
  BY <1>2, InitBatch, BatchIdleInv
<1>9. ExtractionInv
  BY <1>3, InitExtraction, ContractIdleInv
<1>10. PreflightInv
  BY <1>4, InitPreflight, PreflightIdleInv
<1>11. ListingProofs!ListingInv
  BY <1>5, InitListing, ListIdleInv
<1>12. RoleInv
  BY <1>6, InitRoleInv, RoleIdleInv
<1>13. QED
  BY <1>7, <1>8, <1>9, <1>10, <1>11, <1>12 DEF ToolsInv

\* A step of all is a step of one, and none of the others.
LEMMA StepOfOne ==
    ASSUME [Next]_vars
    PROVE  /\ [Load!Next]_loadVars
           /\ [Batch!Next]_batchVars
           /\ [Contract!Next]_contractVars
           /\ [Preflight!Next]_preflightVars
           /\ [Listing!Next]_listVars
           /\ [Provisioning!Next]_roleVars
BY DEF Next, vars

LEMMA ToolsStep == ToolsInv /\ [Next]_vars => ToolsInv'
<1> SUFFICES ASSUME ToolsInv, [Next]_vars PROVE ToolsInv'
  OBVIOUS
<1> USE ToolsAssumption DEF ToolsAssumption, ToolsInv
<1>1. LoadInv'
  BY StepOfOne, LoadStep
<1>2. BatchInv'
  BY StepOfOne, BatchStep
<1>3. ExtractionInv'
  BY StepOfOne, ExtractionStep
<1>4. PreflightInv'
  BY StepOfOne, PreflightStep
<1>5. ListingProofs!ListingInv'
  BY StepOfOne, ListingStep
<1>6. RoleInv'
  BY StepOfOne, RoleStepKeeps
<1>7. QED
  BY <1>1, <1>2, <1>3, <1>4, <1>5, <1>6

\* The invariants of the six parts hold of every behaviour, for any numbers of
\* workers, threads, images, checks, rows and jobs.
THEOREM ToolsInvariant == Spec => []ToolsInv
BY InitToolsInv, ToolsStep, PTL DEF Spec

\* Every variable of the six programs has its type.
THEOREM ToolsTypes == Spec => []TypeOK
<1>1. ToolsInv => TypeOK
  BY ToolsAssumption, ListingReports
     DEF ToolsAssumption, ToolsInv, LoadInv, BatchInv, ExtractionInv, PreflightInv,
         RoleInv, TypeOK
<1>2. QED
  BY <1>1, ToolsInvariant, PTL

\* A load test that passes sold the stock exactly and counted every request
\* once; a batch that passes left what a serial order leaves, with no thread
\* behind it; neither fails a service without race; images that are allowed
\* are compatible; metadata that is verified was found as required
\* (load-test.py:117-130, replica-drill.py:88-126,
\* verify-deployment-image.py:87-88, cloud-preflight.py:182-203).
THEOREM ReportsStayTrue == Spec => []ReportsAreTrue
<1>1. ASSUME ToolsInv PROVE ReportsAreTrue
  <2> USE ToolsAssumption DEF ToolsAssumption, ToolsInv
  <2>1. Load!EveryJobIsCountedOnce /\ Load!NoFalseAlarm
    BY <1>1 DEF LoadInv, Counted
  <2>2. Load!PassedMeansSoldExactly /\ Load!OpenRequestsFailTheTest
    BY <1>1, PassedSoldExactly, OpenRequestsAreReported
  <2>3. /\ Batch!PassedMeansSerial
        /\ Batch!NoThreadOutlivesItsBatch
        /\ Batch!NoFalseAlarm
    BY <1>1, BatchReports
  <2>4. Contract!AllowedMeansCompatible
    BY <1>1, AllowedImages
  <2>5. Preflight!VerifiedMeansFound /\ Preflight!SuccessIsOnDisk
    BY <1>1, PreflightReports
  <2>6. QED
    BY <2>1, <2>2, <2>3, <2>4, <2>5 DEF ReportsAreTrue
<1>2. QED
  BY <1>1, ToolsInvariant, PTL

\* Whoever reads all pages misses no row that was there at first, and a request
\* is refused exactly if it should be (InventoryController.java:72-78).
THEOREM PagesShowEveryRow == Spec => []PagesShowAll
<1>1. ToolsInv => PagesShowAll
  BY ToolsAssumption, ListingReports DEF ToolsAssumption, ToolsInv, PagesShowAll
<1>2. QED
  BY <1>1, ToolsInvariant, PTL

\* AWS is read only on request and of the account expected; the gate removes
\* its own containers and no others, or says so; a role that may not be
\* restricted is never given a password or a right (cloud-preflight.py:119-121,
\* release_contract.py:64-80, 106-123, runtime-role.sql:14-26).
THEOREM LimitsStayKept == Spec => LimitsAreKept
<1> USE ToolsAssumption DEF ToolsAssumption, ToolsInv
<1>1. ToolsInv => Preflight!ReadsAreInvited
  BY PreflightReports
<1>2. ASSUME ToolsInv, [Next]_vars, Contract!GateNext, gateStep' = "done"
      PROVE  \/ unremoved' /\ outcome' = "blocked"
             \/ ~\E c \in containers' : c.owner = "us"
  BY <1>2, GateStep
<1>3. ASSUME ToolsInv, [Next]_vars, Contract!GateNext
      PROVE  \A c \in containers \ containers' : c.owner = "us"
  <2>1. containers \ containers' \subseteq {Contract!Ours}
    BY <1>3, GateStep
  <2>2. QED
    BY <2>1 DEF Contract!Ours
<1>4. ASSUME ToolsInv, [Next]_vars, role.owner \/ role.elevated
      PROVE  role' = role /\ \A j \in MigrationJobs : jobStep'[j] # "done"
  BY <1>4, StepOfOne, UnsafeRoleStep
<1>5. QED
  BY <1>1, <1>2, <1>3, <1>4, ToolsInvariant, PTL
     DEF Spec, LimitsAreKept, Contract!LeftoversAreReported,
         Contract!OthersAreKept, Provisioning!UnsafeRolesAreLeftAlone

\* The service never sees a role that is half prepared, and a job that succeeds
\* has the schema and the role it brings in place
\* (DatabaseMigrationConfiguration.java:32-55).
THEOREM TheRoleStaysWhole == Spec => TheRoleIsWhole
<1> USE ToolsAssumption DEF ToolsAssumption, ToolsInv
<1>1. ASSUME ToolsInv, [Next]_vars
      PROVE  role' = role \/ \E j \in MigrationJobs : role' = Provisioning!Prepared(j)
  BY <1>1, StepOfOne, WholeRoleStep
<1>2. ASSUME ToolsInv, [Next]_vars
      PROVE  /\ schema' >= schema
             /\ \A j \in MigrationJobs :
                    /\ jobStep[j] # "done" /\ jobStep'[j] = "done" =>
                           role' = Provisioning!Prepared(j) /\ schema' >= Versions[j]
                    /\ role' = Provisioning!Prepared(j) /\ role' # role =>
                           jobStep[j] = "commit"
  BY <1>2, StepOfOne, WholeRoleStep
<1>3. QED
  BY <1>1, <1>2, ToolsInvariant, PTL
     DEF Spec, TheRoleIsWhole, Provisioning!TheRoleIsWhole,
         Provisioning!TheRoleChangesAtOnce, Provisioning!SuccessMeansPrepared

=============================================================================
