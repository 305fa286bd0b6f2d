---------------------------- MODULE MonitoringProofs ---------------------------
(***************************************************************************)
(* Proofs about Monitoring, for any number of threads and events.          *)
(*                                                                         *)
(* The argument for the receiver: the lock has one holder, so that the     *)
(* room it has found is still there when it appends (Locked), and what it  *)
(* accepts is among the events (Accepted), which are never removed.        *)
(*                                                                         *)
(* And for the drill: as long as no probe fails by itself, nothing but the *)
(* notifications of its one outage is due, sent or kept, in that order     *)
(* (CourseInv).                                                            *)
(***************************************************************************)
EXTENDS MonitoringProperties, TLAPS

Kept(notice) == \E i \in 1..Len(events) : events[i] = notice

Locked ==
    \A t \in Threads :
        /\ thread[t] \in {"locked", "room"} => lock = t
        /\ thread[t] = "room" => Len(events) < MaxEvents

Accepted ==
    \A t \in Threads :
        /\ thread[t] # "idle" => post[t] \in Notices
        /\ thread[t] = "accepted" => Kept(post[t])

Said ==
    due = NoNotice =>
        notified = NoNotice /\ \A t \in Threads : thread[t] = "idle"

ReceiverInv ==
    /\ TypeOK
    /\ Locked
    /\ Accepted
    /\ Said
    /\ AcknowledgedIsKept

-----------------------------------------------------------------------------

LEMMA NoticeTypes ==
    /\ NoNotice \notin Notices
    /\ \A phase \in Phases :
           /\ [status |-> "firing", when |-> phase] \in Notices
           /\ [status |-> "resolved", when |-> phase] \in Notices
BY DEF NoNotice, Notices, Phases

LEMMA PositionTypes ==
    /\ {"probe up", "unpause", "done"} \subseteq Positions
    /\ \A s \in Positions \ {"done"} : After(s) \in Positions
<1>1. Len(Order) - 1 = 11
  BY DEF Order
<1>2. /\ Len(Order) = 12
      /\ Order[1] = "probe up" /\ Order[7] = "unpause" /\ Order[12] = "done"
  BY DEF Order
<1>3. \A k \in 1..12 : Order[k] \in Positions
  BY <1>2 DEF Positions
<1>4. ASSUME NEW s \in Positions \ {"done"} PROVE After(s) \in Positions
  <2> DEFINE i == CHOOSE j \in 1..(Len(Order) - 1) : Order[j] = s
  <2>1. PICK j \in 1..12 : Order[j] = s
    BY <1>2 DEF Positions
  <2>2. j \in 1..11 /\ Len(Order) - 1 = 11
    <3>1. j # 12
      BY <1>2, <2>1
    <3>2. j \in 1..11
      BY <3>1
    <3>3. QED
      BY <1>1, <3>2
  <2>3. i \in 1..11
    BY <2>1, <2>2
  <2>4. 1 + i \in 1..12
    <3> HIDE DEF i
    <3> QED BY <2>3
  <2>5. After(s) = Order[1 + i]
    BY DEF After
  <2>6. QED
    <3> HIDE DEF i
    <3> QED BY <1>3, <2>4, <2>5
<1>5. Order[1] \in Positions /\ Order[7] \in Positions
      /\ Order[12] \in Positions
  BY <1>3
<1>6. QED
  BY <1>2, <1>4, <1>5

LEMMA InitReceiverInv == Init => ReceiverInv
<1> SUFFICES ASSUME Init PROVE ReceiverInv
  OBVIOUS
<1>1. at \in Positions /\ outage \in Phases /\ report \in Reports
  BY PositionTypes DEF Init, Phases, Reports
<1>2. probe \in Probes /\ alert \in Alerts /\ thread \in [Threads -> Tasks]
  BY DEF Init, Probes, Alerts, Tasks
<1>3. glitches \in 0..MaxGlitches /\ losses \in 0..MaxLosses
  <2>1. glitches = 0 /\ losses = 0
    BY DEF Init
  <2>2. QED
    BY <2>1, MonitoringAssumption
<1>4. events = <<>> /\ notified = NoNotice
  BY DEF Init
<1>5. events \in Seq(Notices) /\ Len(events) = 0
  BY <1>4
<1>6. TypeOK
  BY <1>1, <1>2, <1>3, <1>5 DEF Init, TypeOK
<1>7. Locked /\ Accepted /\ Said
  BY DEF Init, Locked, Accepted, Said
<1>8. AcknowledgedIsKept
  BY <1>4, <1>5, MonitoringAssumption DEF AcknowledgedIsKept
<1>9. QED
  BY <1>6, <1>7, <1>8 DEF ReceiverInv

\* Steps that leave the receiver and Alertmanager alone.
LEMMA QuietKeeps ==
    ASSUME ReceiverInv, UNCHANGED <<alertmanager, receiver>>
    PROVE  Locked' /\ Accepted' /\ Said' /\ AcknowledgedIsKept'
BY DEF ReceiverInv, Locked, Accepted, Said, Kept, AcknowledgedIsKept,
       alertmanager, receiver

LEMMA DrillKeepsTypes ==
    ASSUME ReceiverInv, DrillNext \/ TimeOut \/ CallFails
    PROVE  TypeOK' /\ UNCHANGED <<alertmanager, receiver>>
<1>1. UNCHANGED <<prometheus, alertmanager, receiver, bounds>>
  BY DEF DrillNext, TimeOut, CallFails, Observe, Disagree, Pause, Unpause
<1>2. at' \in Positions
  <2>1. at \in Positions /\ "done" \in Positions /\ "unpause" \in Positions
    BY PositionTypes DEF ReceiverInv, TypeOK
  <2>2. \/ at' \in {"done", "unpause"}
        \/ at # "done" /\ at' = After(at)
    BY DEF DrillNext, TimeOut, CallFails, Observe, Disagree, Pause, Unpause, Fails
  <2>3. QED
    BY <2>1, <2>2, PositionTypes
<1>3. outage' \in Phases
  <2>1. outage' \in {outage, "on", "over"}
    BY DEF DrillNext, TimeOut, CallFails, Observe, Disagree, Pause, Unpause
  <2>2. QED
    BY <2>1 DEF ReceiverInv, TypeOK, Phases
<1>4. report' \in Reports
  <2>1. report' \in {report, "passed", "failed"}
    BY DEF DrillNext, TimeOut, CallFails, Observe, Disagree, Pause, Unpause, Fails
  <2>2. QED
    BY <2>1 DEF ReceiverInv, TypeOK, Reports
<1>5. interrupted' \in BOOLEAN
  <2>1. interrupted' = interrupted \/ interrupted' = TRUE
    BY DEF DrillNext, TimeOut, CallFails, Observe, Disagree, Pause, Unpause
  <2>2. QED
    BY <2>1 DEF ReceiverInv, TypeOK
<1>6. TypeOK'
  BY <1>1, <1>2, <1>3, <1>4, <1>5
     DEF ReceiverInv, TypeOK, prometheus, alertmanager, receiver, bounds
<1>7. QED
  BY <1>1, <1>6

\* What every thread but t is doing stays as it was.
LEMMA ThreadTypes ==
    ASSUME TypeOK, NEW t \in Threads, NEW task \in Tasks,
           thread' = [thread EXCEPT ![t] = task]
    PROVE  /\ thread' \in [Threads -> Tasks]
           /\ thread'[t] = task
           /\ \A u \in Threads : u # t => thread'[u] = thread[u]
BY DEF TypeOK

LEMMA ProbeKeeps ==
    ASSUME ReceiverInv, Probe PROVE ReceiverInv'
<1>1. UNCHANGED <<drill, alert, alertmanager, receiver, losses>>
  BY DEF Probe
<1>2. probe' \in Probes
  BY DEF Probe, Probes
<1>3. glitches' \in 0..MaxGlitches
  <2>1. CASE glitches' = glitches
    BY <2>1 DEF ReceiverInv, TypeOK
  <2>2. CASE glitches < MaxGlitches /\ glitches' = glitches + 1
    <3>1. glitches \in 0..MaxGlitches
      BY DEF ReceiverInv, TypeOK
    <3>2. QED
      BY <2>2, <3>1, MonitoringAssumption
  <2>3. QED
    BY <2>1, <2>2 DEF Probe
<1>4. TypeOK'
  BY <1>1, <1>2, <1>3 DEF ReceiverInv, TypeOK, drill, alertmanager, receiver
<1>5. QED
  BY <1>1, <1>4, QuietKeeps DEF ReceiverInv

LEMMA EvaluateKeeps ==
    ASSUME ReceiverInv, Evaluate PROVE ReceiverInv'
<1>1. UNCHANGED <<drill, probe, notified, sending, receiver, bounds>>
  BY DEF Evaluate
<1>2. alert' \in Alerts
  BY DEF Evaluate, Alerts
<1>3. due' = due \/ due' \in Notices
  BY NoticeTypes DEF Evaluate, ReceiverInv, TypeOK
<1>4. TypeOK'
  BY <1>1, <1>2, <1>3 DEF ReceiverInv, TypeOK, drill, receiver, bounds
<1>5. Locked' /\ Accepted' /\ AcknowledgedIsKept'
  BY <1>1 DEF ReceiverInv, Locked, Accepted, Kept, AcknowledgedIsKept, receiver
<1>6. Said'
  BY <1>1, <1>3, NoticeTypes DEF ReceiverInv, Said, receiver
<1>7. QED
  BY <1>4, <1>5, <1>6 DEF ReceiverInv

LEMMA SendKeeps ==
    ASSUME ReceiverInv, NEW t \in Threads, Send(t) PROVE ReceiverInv'
<1>1. UNCHANGED <<drill, prometheus, due, notified, lock, events, bounds>>
  BY DEF Send
<1>2. due \in Notices
  BY NoticeTypes DEF Send, ReceiverInv, TypeOK, Said
<1>3. /\ thread' \in [Threads -> Tasks]
      /\ thread'[t] = "posted"
      /\ \A u \in Threads : u # t => thread'[u] = thread[u]
  BY ThreadTypes DEF Send, ReceiverInv, Tasks
<1>4. /\ post' \in [Threads -> Notices \cup {NoNotice}]
      /\ post'[t] = due
      /\ \A u \in Threads : u # t => post'[u] = post[u]
  BY <1>2 DEF Send, ReceiverInv, TypeOK
<1>5. TypeOK'
  <2>1. sending' \in Threads
    BY DEF Send
  <2>2. QED
    BY <1>1, <1>3, <1>4, <2>1 DEF ReceiverInv, TypeOK, drill, prometheus, bounds
<1>6. Locked'
  BY <1>1, <1>3 DEF ReceiverInv, Locked
<1>7. Accepted'
  BY <1>1, <1>2, <1>3, <1>4 DEF ReceiverInv, Accepted, Kept
<1>8. Said' /\ AcknowledgedIsKept'
  BY <1>1, <1>2, NoticeTypes DEF ReceiverInv, Said, AcknowledgedIsKept
<1>9. QED
  BY <1>5, <1>6, <1>7, <1>8 DEF ReceiverInv

LEMMA AnsweredKeeps ==
    ASSUME ReceiverInv, NEW t \in Threads, Answered(t) PROVE ReceiverInv'
<1>1. UNCHANGED <<drill, prometheus, due, post, lock, events, bounds>>
  BY DEF Answered
<1>2. /\ thread' \in [Threads -> Tasks]
      /\ thread'[t] = "idle"
      /\ \A u \in Threads : u # t => thread'[u] = thread[u]
  BY ThreadTypes DEF Answered, ReceiverInv, Tasks
<1>3. \/ notified' = notified
      \/ notified' = post[t] /\ post[t] \in Notices /\ Kept(post[t])
  BY DEF Answered, ReceiverInv, Accepted
<1>4. due # NoNotice
  BY DEF Answered, ReceiverInv, Said
<1>5. TypeOK'
  <2>1. sending' = Nobody
    BY DEF Answered
  <2>2. QED
    BY <1>1, <1>2, <1>3, <2>1 DEF ReceiverInv, TypeOK, drill, prometheus, bounds
<1>6. Locked'
  BY <1>1, <1>2 DEF ReceiverInv, Locked
<1>7. Accepted'
  BY <1>1, <1>2 DEF ReceiverInv, Accepted, Kept
<1>8. Said'
  BY <1>1, <1>4 DEF Said
<1>9. AcknowledgedIsKept'
  BY <1>1, <1>3 DEF ReceiverInv, AcknowledgedIsKept, Kept
<1>10. QED
  BY <1>5, <1>6, <1>7, <1>8, <1>9 DEF ReceiverInv

LEMMA UnansweredKeeps ==
    ASSUME ReceiverInv, Unanswered PROVE ReceiverInv'
<1>1. /\ UNCHANGED <<drill, prometheus, due, notified, receiver, glitches>>
      /\ sending' = Nobody
  BY DEF Unanswered
<1>2. losses' \in 0..MaxLosses
  <2>1. losses \in 0..MaxLosses /\ losses < MaxLosses /\ losses' = losses + 1
    BY DEF ReceiverInv, TypeOK, Unanswered
  <2>2. QED
    BY <2>1, MonitoringAssumption
<1>3. TypeOK'
  BY <1>1, <1>2 DEF ReceiverInv, TypeOK, drill, prometheus, receiver
<1>4. Locked' /\ Accepted' /\ Said' /\ AcknowledgedIsKept'
  BY <1>1 DEF ReceiverInv, Locked, Accepted, Said, Kept, AcknowledgedIsKept,
              receiver
<1>5. QED
  BY <1>3, <1>4 DEF ReceiverInv

LEMMA AcquireKeeps ==
    ASSUME ReceiverInv, NEW t \in Threads, Acquire(t) PROVE ReceiverInv'
<1>1. UNCHANGED <<drill, prometheus, alertmanager, post, events, bounds>>
  BY DEF Acquire
<1>2. /\ thread' \in [Threads -> Tasks]
      /\ thread'[t] = "locked"
      /\ \A u \in Threads : u # t => thread'[u] = thread[u]
  BY ThreadTypes DEF Acquire, ReceiverInv, Tasks
<1>3. lock = Nobody /\ lock' = t /\ thread[t] = "posted"
  BY DEF Acquire
<1>4. TypeOK'
  BY <1>1, <1>2, <1>3
     DEF ReceiverInv, TypeOK, drill, prometheus, alertmanager, bounds
<1>5. Locked'
  BY <1>1, <1>2, <1>3, MonitoringAssumption DEF ReceiverInv, Locked
<1>6. Accepted' /\ Said' /\ AcknowledgedIsKept'
  BY <1>1, <1>2, <1>3
     DEF ReceiverInv, Accepted, Said, Kept, AcknowledgedIsKept, alertmanager
<1>7. QED
  BY <1>4, <1>5, <1>6 DEF ReceiverInv

LEMMA CheckRoomKeeps ==
    ASSUME ReceiverInv, NEW t \in Threads, CheckRoom(t) PROVE ReceiverInv'
<1>1. UNCHANGED <<drill, prometheus, alertmanager, post, events, bounds>>
  BY DEF CheckRoom
<1>2. \/ /\ thread' = [thread EXCEPT ![t] = "refused"]
         /\ lock' = Nobody
      \/ /\ thread' = [thread EXCEPT ![t] = "room"]
         /\ lock' = lock
         /\ ~(Len(events) >= MaxEvents)
  BY DEF CheckRoom
<1>3. /\ thread' \in [Threads -> Tasks]
      /\ thread'[t] \in {"refused", "room"}
      /\ \A u \in Threads : u # t => thread'[u] = thread[u]
  BY <1>2, ThreadTypes DEF ReceiverInv, Tasks
<1>4. thread[t] = "locked" /\ lock = t
  BY DEF CheckRoom, ReceiverInv, Locked
<1>5. TypeOK'
  <2>1. lock' \in Threads \cup {Nobody}
    BY <1>2 DEF ReceiverInv, TypeOK
  <2>2. QED
    BY <1>1, <1>3, <2>1
       DEF ReceiverInv, TypeOK, drill, prometheus, alertmanager, bounds
<1>6. Locked'
  <2>1. Len(events) \in Nat
    BY DEF ReceiverInv, TypeOK
  <2>2. \A u \in Threads :
            u # t => thread[u] \notin {"locked", "room"}
    BY <1>4 DEF ReceiverInv, Locked
  <2>3. thread'[t] = "room" => lock' = t /\ Len(events) < MaxEvents
    <3>1. thread[t] \in Tasks /\ t \in DOMAIN thread
      BY DEF ReceiverInv, TypeOK
    <3>2. QED
      BY <1>2, <1>4, <2>1, <3>1, MonitoringAssumption
  <2>4. QED
    BY <1>1, <1>3, <2>2, <2>3 DEF Locked
<1>7. Accepted' /\ Said' /\ AcknowledgedIsKept'
  BY <1>1, <1>3, <1>4
     DEF ReceiverInv, Accepted, Said, Kept, AcknowledgedIsKept, alertmanager
<1>8. QED
  BY <1>5, <1>6, <1>7 DEF ReceiverInv

\* What is appended is there, and what was there stays.
LEMMA Appended ==
    ASSUME events \in Seq(Notices), NEW n \in Notices,
           events' = Append(events, n)
    PROVE  /\ events' \in Seq(Notices)
           /\ Len(events') = Len(events) + 1
           /\ \E i \in 1..Len(events') : events'[i] = n
           /\ \A m : (\E i \in 1..Len(events) : events[i] = m)
                         => \E i \in 1..Len(events') : events'[i] = m
<1>1. /\ Len(events) \in Nat
      /\ events' \in Seq(Notices)
      /\ Len(events') = Len(events) + 1
      /\ events'[Len(events) + 1] = n
      /\ \A i \in 1..Len(events) : events'[i] = events[i]
  OBVIOUS
<1>2. QED
  BY <1>1

LEMMA KeepKeeps ==
    ASSUME ReceiverInv, NEW t \in Threads, Keep(t) PROVE ReceiverInv'
<1>1. UNCHANGED <<drill, prometheus, alertmanager, post, bounds>>
  BY DEF Keep
<1>2. /\ thread' \in [Threads -> Tasks]
      /\ thread'[t] = "accepted"
      /\ \A u \in Threads : u # t => thread'[u] = thread[u]
  BY ThreadTypes DEF Keep, ReceiverInv, Tasks
<1>3. /\ thread[t] = "room" /\ lock = t /\ lock' = Nobody
      /\ Len(events) < MaxEvents
  BY DEF Keep, ReceiverInv, Locked
<1>4. post[t] \in Notices
  BY <1>3 DEF ReceiverInv, Accepted
<1>5. /\ events' \in Seq(Notices)
      /\ Len(events') = Len(events) + 1
      /\ Kept(post[t])'
      /\ \A m : Kept(m) => \E i \in 1..Len(events') : events'[i] = m
  BY <1>1, <1>4, Appended DEF Keep, ReceiverInv, TypeOK, Kept
<1>6. TypeOK'
  BY <1>1, <1>2, <1>3, <1>5
     DEF ReceiverInv, TypeOK, drill, prometheus, alertmanager, bounds
<1>7. Locked'
  BY <1>2, <1>3 DEF ReceiverInv, Locked
<1>8. Accepted'
  BY <1>1, <1>2, <1>3, <1>4, <1>5 DEF ReceiverInv, Accepted, Kept
<1>9. Said'
  BY <1>1, <1>3 DEF ReceiverInv, Said, alertmanager
<1>10. AcknowledgedIsKept'
  <2>1. Len(events) \in Nat
    BY DEF ReceiverInv, TypeOK
  <2>2. Len(events') <= MaxEvents
    BY <1>3, <1>5, <2>1, MonitoringAssumption
  <2>3. QED
    BY <1>1, <1>5, <2>2
       DEF ReceiverInv, AcknowledgedIsKept, Kept, alertmanager
<1>11. QED
  BY <1>6, <1>7, <1>8, <1>9, <1>10 DEF ReceiverInv

LEMMA AbandonKeeps ==
    ASSUME ReceiverInv, NEW t \in Threads, Abandon(t) PROVE ReceiverInv'
<1>1. UNCHANGED <<drill, prometheus, alertmanager, post, lock, events, bounds>>
  BY DEF Abandon
<1>2. /\ thread' \in [Threads -> Tasks]
      /\ thread'[t] = "idle"
      /\ \A u \in Threads : u # t => thread'[u] = thread[u]
  BY ThreadTypes DEF Abandon, ReceiverInv, Tasks
<1>3. TypeOK'
  BY <1>1, <1>2 DEF ReceiverInv, TypeOK, drill, prometheus, alertmanager, bounds
<1>4. Locked'
  BY <1>1, <1>2 DEF ReceiverInv, Locked
<1>5. Accepted' /\ Said' /\ AcknowledgedIsKept'
  BY <1>1, <1>2
     DEF ReceiverInv, Accepted, Said, Kept, AcknowledgedIsKept, alertmanager
<1>6. QED
  BY <1>3, <1>4, <1>5 DEF ReceiverInv

LEMMA NextKeeps == ReceiverInv /\ [Next]_vars => ReceiverInv'
<1> SUFFICES ASSUME ReceiverInv, [Next]_vars PROVE ReceiverInv'
  OBVIOUS
<1>1. CASE DrillNext \/ TimeOut \/ CallFails
  BY <1>1, DrillKeepsTypes, QuietKeeps DEF ReceiverInv
<1>2. CASE Probe
  BY <1>2, ProbeKeeps
<1>3. CASE Evaluate
  BY <1>3, EvaluateKeeps
<1>4. CASE AlertmanagerNext
  BY <1>4, SendKeeps, AnsweredKeeps DEF AlertmanagerNext
<1>5. CASE Unanswered
  BY <1>5, UnansweredKeeps
<1>6. CASE \E t \in Threads : ReceiverNext(t)
  BY <1>6, AcquireKeeps, CheckRoomKeeps, KeepKeeps, AbandonKeeps
     DEF ReceiverNext
<1>7. CASE UNCHANGED vars
  <2>1. UNCHANGED <<alertmanager, receiver>>
    BY <1>7 DEF vars
  <2>2. TypeOK'
    BY <1>7 DEF ReceiverInv, TypeOK, vars, drill, prometheus, alertmanager,
                receiver, bounds
  <2>3. QED
    BY <2>1, <2>2, QuietKeeps DEF ReceiverInv
<1>8. QED
  BY <1>1, <1>2, <1>3, <1>4, <1>5, <1>6, <1>7 DEF Next

-----------------------------------------------------------------------------

\* The lock, the threads and Alertmanager agree in every state
\* (webhook-receiver.py:58-81).
THEOREM ReceiverInvariant == Spec => []ReceiverInv
<1>1. QED
  BY InitReceiverInv, NextKeeps, PTL DEF Spec

\* However many threads deliver at once, the limit of the receiver holds, and
\* what Alertmanager counts as said has been kept (webhook-receiver.py:76-81).
THEOREM AcknowledgedStaysKept == Spec => []AcknowledgedIsKept
<1>1. ReceiverInv => AcknowledgedIsKept
  BY DEF ReceiverInv
<1>2. QED
  BY <1>1, ReceiverInvariant, PTL

-----------------------------------------------------------------------------
(* The one outage of a drill, and what is said of it.                      *)

FiringOn == [status |-> "firing", when |-> "on"]
ResolvedOver == [status |-> "resolved", when |-> "over"]

\* How far the drill is: its outage has not begun, goes on, or is over.
Before == {"probe up", "quiet", "pause"}
During == {"probe down", "firing", "rule fires", "unpause"}
Afterwards == {"ready", "probe up again", "resolved", "rule at rest"}

InStep ==
    /\ at \in Before => outage = "before" /\ report = "none"
    /\ at \in During \ {"unpause"} => outage = "on" /\ report = "none"
    /\ at = "unpause" =>
           /\ report # "passed"
           /\ outage = "on" \/ (outage = "before" /\ report = "failed")
    /\ at \in Afterwards => outage = "over" /\ report = "none"
    /\ at = "done" => report \in {"passed", "failed"}
    /\ report = "passed" => outage = "over"

\* Alertmanager, the threads and the receiver know of nothing else.
Only(notices) ==
    /\ due \in notices \cup {NoNotice}
    /\ \A t \in Threads : thread[t] # "idle" => post[t] \in notices
    /\ \A i \in 1..Len(events) : events[i] \in notices

\* What is said of the one outage, as long as the drill has not failed.
Course ==
    /\ outage = "before" =>
           probe # "down" /\ alert = "inactive" /\ Only({})
    /\ outage = "on" =>
           /\ alert # "inactive" => probe = "down"
           /\ alert = "firing" => due = FiringOn
           /\ Only({FiringOn})
    /\ outage = "over" /\ report # "failed" =>
           /\ \/ alert = "firing" /\ due = FiringOn
              \/ alert = "inactive" /\ probe = "up" /\ due = ResolvedOver
           /\ Only({FiringOn, ResolvedOver})
    /\ report # "failed" /\ at \in {"rule fires", "unpause", "done"} \cup Afterwards =>
           Len(events) > 0 /\ events[1] = FiringOn
    /\ report # "failed" /\ at = "unpause" => alert = "firing"
    /\ report # "failed" /\ at \in {"rule at rest", "done"} =>
           \E i \in 1..Len(events) : events[i].status = "resolved"

CourseInv == InStep /\ (glitches = 0 => Course)

LEMMA OrderValues ==
    /\ Len(Order) = 12
    /\ Order[1] = "probe up" /\ Order[2] = "quiet" /\ Order[3] = "pause"
    /\ Order[4] = "probe down" /\ Order[5] = "firing"
    /\ Order[6] = "rule fires" /\ Order[7] = "unpause" /\ Order[8] = "ready"
    /\ Order[9] = "probe up again" /\ Order[10] = "resolved"
    /\ Order[11] = "rule at rest" /\ Order[12] = "done"
BY DEF Order

LEMMA OneToTwelve ==
    ASSUME NEW k \in 1..12
    PROVE  \/ k = 1 \/ k = 2 \/ k = 3 \/ k = 4 \/ k = 5 \/ k = 6
           \/ k = 7 \/ k = 8 \/ k = 9 \/ k = 10 \/ k = 11 \/ k = 12
OBVIOUS

LEMMA OrderIsInjective ==
    ASSUME NEW i \in 1..12, NEW j \in 1..12, Order[i] = Order[j]
    PROVE  i = j
BY OrderValues, OneToTwelve

LEMMA AfterIsNext ==
    ASSUME NEW k \in 1..11 PROVE After(Order[k]) = Order[k + 1]
<1> DEFINE i == CHOOSE j \in 1..(Len(Order) - 1) : Order[j] = Order[k]
<1>1. Len(Order) - 1 = 11
  BY DEF Order
<1>2. i \in 1..11 /\ Order[i] = Order[k]
  BY <1>1
<1>3. After(Order[k]) = Order[1 + i]
  BY DEF After
<1> HIDE DEF i
<1>4. i = k
  BY <1>2, OrderIsInjective
<1>5. 1 + i = k + 1
  BY <1>4
<1>6. QED
  BY <1>3, <1>5

LEMMA AfterValues ==
    /\ After("probe up") = "quiet" /\ After("quiet") = "pause"
    /\ After("pause") = "probe down" /\ After("probe down") = "firing"
    /\ After("firing") = "rule fires" /\ After("rule fires") = "unpause"
    /\ After("unpause") = "ready" /\ After("ready") = "probe up again"
    /\ After("probe up again") = "resolved"
    /\ After("resolved") = "rule at rest" /\ After("rule at rest") = "done"
<1>1. \A k \in 1..11 : After(Order[k]) = Order[k + 1]
  BY AfterIsNext
<1>2. /\ After(Order[1]) = Order[2] /\ After(Order[2]) = Order[3]
      /\ After(Order[3]) = Order[4] /\ After(Order[4]) = Order[5]
      /\ After(Order[5]) = Order[6] /\ After(Order[6]) = Order[7]
      /\ After(Order[7]) = Order[8] /\ After(Order[8]) = Order[9]
      /\ After(Order[9]) = Order[10] /\ After(Order[10]) = Order[11]
      /\ After(Order[11]) = Order[12]
  BY <1>1
<1>3. QED
  BY <1>2, OrderValues

LEMMA PositionValues ==
    Positions = Before \cup During \cup Afterwards \cup {"done"}
<1>1. Positions = {Order[k] : k \in 1..12}
  BY OrderValues DEF Positions
<1>2. ASSUME NEW k \in 1..12
      PROVE  Order[k] \in Before \cup During \cup Afterwards \cup {"done"}
  BY OneToTwelve, OrderValues DEF Before, During, Afterwards
<1>3. \A k \in 1..12 : Order[k] \in Positions
  BY <1>1
<1>4. /\ Order[1] \in Positions /\ Order[2] \in Positions
      /\ Order[3] \in Positions /\ Order[4] \in Positions
      /\ Order[5] \in Positions /\ Order[6] \in Positions
      /\ Order[7] \in Positions /\ Order[8] \in Positions
      /\ Order[9] \in Positions /\ Order[10] \in Positions
      /\ Order[11] \in Positions /\ Order[12] \in Positions
  BY <1>3
<1>5. Before \cup During \cup Afterwards \cup {"done"} \subseteq Positions
  BY <1>4, OrderValues DEF Before, During, Afterwards
<1>6. QED
  BY <1>1, <1>2, <1>5

\* The observations of the drill, one by one.
LEMMA ObserveCases ==
    ASSUME ReceiverInv, Observe
    PROVE  /\ report = "none"
           /\ UNCHANGED <<outage, interrupted, prometheus, alertmanager, receiver,
                          bounds>>
           /\ \/ at = "probe up" /\ at' = "quiet" /\ report' = report
              \/ at = "quiet" /\ at' = "pause" /\ report' = report
              \/ at = "probe down" /\ at' = "firing" /\ report' = report
              \/ /\ at = "firing" /\ at' = "rule fires" /\ report' = report
                 /\ Notification("firing")
              \/ /\ at = "rule fires" /\ at' = "unpause" /\ report' = report
                 /\ alert = "firing"
              \/ at = "ready" /\ at' = "probe up again" /\ report' = report
              \/ at = "probe up again" /\ at' = "resolved" /\ report' = report
              \/ /\ at = "resolved" /\ at' = "rule at rest"
                 /\ report' = report
                 /\ Notification("resolved")
              \/ at = "rule at rest" /\ at' = "done" /\ report' = "passed"
<1>1. /\ at \in Positions /\ at \notin {"pause", "unpause", "done"}
      /\ report = "none" /\ Sees /\ at' = After(at)
      /\ report' = IF at = "rule at rest" THEN "passed" ELSE report
      /\ UNCHANGED <<outage, interrupted, prometheus, alertmanager, receiver,
                     bounds>>
  BY DEF Observe, ReceiverInv, TypeOK
<1>2. at \in {"probe up", "quiet", "probe down", "firing", "rule fires",
              "ready", "probe up again", "resolved", "rule at rest"}
  BY <1>1, PositionValues DEF Before, During, Afterwards
<1>3. at = "firing" => Notification("firing")
  BY <1>1 DEF Sees
<1>4. at = "rule fires" => alert = "firing"
  BY <1>1 DEF Sees
<1>5. at = "resolved" => Notification("resolved")
  BY <1>1 DEF Sees
<1>6. QED
  BY <1>1, <1>2, <1>3, <1>4, <1>5, AfterValues

\* The drill has not paused its database, or has, or has resumed it.
LEMMA InStepKeeps ==
    ASSUME ReceiverInv, InStep, [Next]_vars PROVE InStep'
<1>1. CASE Observe
  <2>1. report = "none" /\ UNCHANGED outage
    BY <1>1, ObserveCases
  <2>2. CASE at \in Before /\ at' \in Before /\ report' = report
    BY <2>1, <2>2 DEF InStep, Before, During, Afterwards
  <2>3. CASE at \in During \ {"unpause"} /\ at' \in During /\ report' = report
    <3>1. outage' = "on" /\ report' = "none"
      BY <2>1, <2>3 DEF InStep
    <3>2. at' \notin Before \cup Afterwards \cup {"done"}
      BY <2>3 DEF Before, During, Afterwards
    <3>3. QED
      BY <3>1, <3>2 DEF InStep
  <2>4. CASE at \in Afterwards /\ at' \in Afterwards /\ report' = report
    BY <2>1, <2>4 DEF InStep, Before, During, Afterwards
  <2>5. CASE at = "rule at rest" /\ at' = "done" /\ report' = "passed"
    BY <2>1, <2>5 DEF InStep, Before, During, Afterwards
  <2>6. QED
    BY <1>1, <2>2, <2>3, <2>4, <2>5, ObserveCases
       DEF Before, During, Afterwards
<1>2. CASE Disagree \/ TimeOut
  <2>1. /\ report = "none" /\ report' = "failed" /\ UNCHANGED outage
        /\ at' = IF at \in InTry THEN "unpause" ELSE "done"
    BY <1>2 DEF Disagree, TimeOut, Fails
  <2>2. at \in InTry => outage = "on" \/ at = "pause"
    BY DEF InStep, InTry, During
  <2>3. at # "pause"
    BY <1>2 DEF Disagree, TimeOut, Waits
  <2>4. QED
    BY <2>1, <2>2, <2>3 DEF InStep, Before, During, Afterwards
<1>3. CASE CallFails
  <2>1. /\ at # "done" /\ report' = "failed"
        /\ at' = IF at \in InTry THEN "unpause" ELSE "done"
        /\ \/ outage' = outage
           \/ at = "pause" /\ outage' = "on"
           \/ at = "unpause" /\ outage = "on" /\ outage' = "over"
    BY <1>3 DEF CallFails, Fails
  <2>2. CASE at = "pause"
    <3>1. at' = "unpause" /\ outage' \in {"before", "on"}
      BY <2>1, <2>2 DEF InStep, Before, InTry
    <3>2. QED
      BY <2>1, <3>1 DEF InStep, Before, During, Afterwards
  <2>3. CASE at \in InTry \ {"pause"}
    <3>1. at' = "unpause" /\ outage' = "on"
      BY <2>1, <2>3 DEF InStep, During, InTry
    <3>2. QED
      BY <2>1, <3>1 DEF InStep, Before, During, Afterwards
  <2>4. CASE at \notin InTry
    <3>1. at' = "done"
      BY <2>1, <2>4
    <3>2. QED
      BY <2>1, <3>1 DEF InStep, Before, During, Afterwards
  <2>5. QED
    BY <2>2, <2>3, <2>4
<1>4. CASE Pause
  <2>1. at = "pause" /\ outage' = "on" /\ at' = "probe down"
        /\ report' = report
    BY <1>4, AfterValues DEF Pause
  <2>2. QED
    BY <2>1 DEF InStep, Before, During, Afterwards
<1>5. CASE Unpause
  <2>1. /\ at = "unpause" /\ report' = report
        /\ outage' = IF outage = "on" THEN "over" ELSE outage
        /\ at' = IF report = "failed" THEN "done" ELSE "ready"
    BY <1>5, AfterValues DEF Unpause
  <2>2. report \in {"none", "failed"} /\ (report = "none" => outage = "on")
    BY <2>1 DEF InStep, ReceiverInv, TypeOK, Reports
  <2>3. QED
    BY <2>1, <2>2 DEF InStep, Before, During, Afterwards
<1>6. CASE UNCHANGED drill
  BY <1>6 DEF InStep, drill
<1>7. QED
  BY <1>1, <1>2, <1>3, <1>4, <1>5, <1>6
     DEF Next, DrillNext, Probe, Evaluate, AlertmanagerNext, Send, Answered,
         Unanswered, ReceiverNext, Acquire, CheckRoom, Keep, Abandon, vars

\* What is sent is what is due; what is kept was sent.
LEMMA OnlyKeeps ==
    ASSUME ReceiverInv, NEW notices, Only(notices),
           AlertmanagerNext \/ Unanswered \/ \E t \in Threads : ReceiverNext(t)
    PROVE  /\ Only(notices)'
           /\ UNCHANGED <<drill, prometheus, due, glitches>>
           /\ Len(events') >= Len(events)
           /\ \A i \in 1..Len(events) :
                  i \in 1..Len(events') /\ events'[i] = events[i]
<1>0. /\ TypeOK /\ events \in Seq(Notices) /\ Len(events) \in Nat
      /\ thread \in [Threads -> Tasks]
      /\ post \in [Threads -> Notices \cup {NoNotice}]
      /\ due # NoNotice => due \in notices
  BY DEF ReceiverInv, TypeOK, Only
<1>1. ASSUME NEW t \in Threads, Send(t)
      PROVE  /\ Only(notices)' /\ UNCHANGED events
             /\ UNCHANGED <<drill, prometheus, due, glitches>>
  <2>1. due \in notices
    BY <1>0, <1>1, NoticeTypes DEF Send, ReceiverInv, Said
  <2>2. /\ \A u \in Threads : u # t => thread'[u] = thread[u]
        /\ \A u \in Threads : u # t => post'[u] = post[u]
        /\ post'[t] = due
    BY <1>0, <1>1 DEF Send
  <2>3. UNCHANGED <<drill, prometheus, due, events, glitches>>
    BY <1>1 DEF Send, bounds
  <2>4. QED
    BY <2>1, <2>2, <2>3 DEF Only
<1>2. ASSUME UNCHANGED <<due, post, events>>,
             \A t \in Threads : thread'[t] # "idle" => thread[t] # "idle"
      PROVE  Only(notices)'
  BY <1>2 DEF Only
<1>3. ASSUME NEW t \in Threads, Answered(t) \/ Acquire(t) \/ CheckRoom(t)
                                \/ Abandon(t)
      PROVE  /\ Only(notices)' /\ UNCHANGED events
             /\ UNCHANGED <<drill, prometheus, due, glitches>>
  <2>1. UNCHANGED <<drill, prometheus, due, post, events, glitches>>
    BY <1>3 DEF Answered, Acquire, CheckRoom, Abandon, alertmanager, bounds
  <2>2. /\ thread[t] # "idle"
        /\ \E task \in Tasks : thread' = [thread EXCEPT ![t] = task]
    BY <1>3 DEF Answered, Acquire, CheckRoom, Abandon, Tasks
  <2>3. \A u \in Threads : u # t => thread'[u] = thread[u]
    BY <1>0, <2>2
  <2>4. \A u \in Threads : thread'[u] # "idle" => thread[u] # "idle"
    BY <2>2, <2>3
  <2>5. QED
    BY <1>2, <2>1, <2>4
<1>4. CASE Unanswered
  <2>1. UNCHANGED <<drill, prometheus, due, thread, post, events, glitches>>
    BY <1>4 DEF Unanswered, receiver
  <2>2. Only(notices)'
    BY <1>2, <2>1
  <2>3. QED
    BY <1>0, <2>1, <2>2
<1>5. ASSUME NEW t \in Threads, Keep(t)
      PROVE  /\ Only(notices)'
             /\ UNCHANGED <<drill, prometheus, due, glitches>>
             /\ Len(events') = Len(events) + 1
             /\ \A i \in 1..Len(events) : events'[i] = events[i]
  <2>1. /\ UNCHANGED <<drill, prometheus, due, post, glitches>>
        /\ thread[t] = "room" /\ events' = Append(events, post[t])
        /\ thread' = [thread EXCEPT ![t] = "accepted"]
    BY <1>5 DEF Keep, alertmanager, bounds
  <2>2. post[t] \in notices /\ post[t] \in Notices
    BY <2>1 DEF Only, ReceiverInv, Accepted
  <2>3. /\ Len(events') = Len(events) + 1
        /\ events'[Len(events) + 1] = post[t]
        /\ \A i \in 1..Len(events) : events'[i] = events[i]
    BY <1>0, <2>1, <2>2
  <2>4. \A i \in 1..Len(events') : events'[i] \in notices
    <3>1. \A i \in 1..Len(events') :
              i \in 1..Len(events) \/ i = Len(events) + 1
      BY <1>0, <2>3
    <3>2. QED
      BY <2>2, <2>3, <3>1 DEF Only
  <2>5. \A u \in Threads : thread'[u] # "idle" => thread[u] # "idle"
    BY <1>0, <2>1
  <2>6. Only(notices)'
    BY <2>1, <2>4, <2>5 DEF Only
  <2>7. QED
    BY <2>1, <2>3, <2>6
<1>6. ASSUME UNCHANGED events
      PROVE  /\ Len(events') >= Len(events)
             /\ \A i \in 1..Len(events) :
                    i \in 1..Len(events') /\ events'[i] = events[i]
  BY <1>0, <1>6
<1>7. ASSUME Len(events') = Len(events) + 1
      PROVE  /\ Len(events') >= Len(events)
             /\ \A i \in 1..Len(events) : i \in 1..Len(events')
  BY <1>0, <1>7
<1>8. QED
  BY <1>1, <1>3, <1>4, <1>5, <1>6, <1>7 DEF AlertmanagerNext, ReceiverNext

\* Delivery changes nothing about what is to be delivered.
LEMMA DeliveryCourse ==
    ASSUME ReceiverInv, Course,
           AlertmanagerNext \/ Unanswered \/ \E t \in Threads : ReceiverNext(t)
    PROVE  Course' /\ glitches' = glitches
<1>1. /\ UNCHANGED <<drill, prometheus, due, glitches>>
      /\ Len(events') >= Len(events)
      /\ \A i \in 1..Len(events) :
             i \in 1..Len(events') /\ events'[i] = events[i]
  <2>1. Only(Notices)
    BY DEF Only, ReceiverInv, TypeOK, Accepted
  <2>2. QED
    BY <2>1, OnlyKeeps
<1>2. UNCHANGED <<at, outage, report, probe, alert, due>>
  BY <1>1 DEF drill, prometheus
<1>3. \A notices : Only(notices) => Only(notices)'
  BY OnlyKeeps
<1>4. /\ outage' = "before" =>
             probe' # "down" /\ alert' = "inactive" /\ Only({})'
      /\ outage' = "on" =>
             /\ alert' # "inactive" => probe' = "down"
             /\ alert' = "firing" => due' = FiringOn
             /\ Only({FiringOn})'
      /\ outage' = "over" /\ report' # "failed" =>
             /\ \/ alert' = "firing" /\ due' = FiringOn
                \/ alert' = "inactive" /\ probe' = "up" /\ due' = ResolvedOver
             /\ Only({FiringOn, ResolvedOver})'
  BY <1>2, <1>3 DEF Course
<1>5. Len(events) > 0 /\ events[1] = FiringOn =>
          Len(events') > 0 /\ events'[1] = FiringOn
  <2>1. Len(events) \in Nat /\ Len(events') \in Nat
    <3>1. ReceiverInv'
      BY NextKeeps DEF Next
    <3>2. QED
      BY <3>1 DEF ReceiverInv, TypeOK
  <2>2. Len(events) > 0 => 1 \in 1..Len(events) /\ Len(events') > 0
    BY <1>1, <2>1
  <2>3. QED
    BY <1>1, <2>2
<1>6. (\E i \in 1..Len(events) : events[i].status = "resolved") =>
          \E i \in 1..Len(events') : events'[i].status = "resolved"
  BY <1>1
<1>7. QED
  BY <1>1, <1>2, <1>4, <1>5, <1>6 DEF Course

\* A probe that does not fail by itself tells whether the outage is on.
LEMMA ProbeCourse ==
    ASSUME ReceiverInv, Course, Probe, glitches' = 0, glitches \in Nat
    PROVE  Course'
<1>1. /\ UNCHANGED <<at, outage, report, alert, due, thread, post, events>>
      /\ probe' = IF outage = "on" THEN "down" ELSE "up"
  <2>1. glitches' # glitches + 1
    OBVIOUS
  <2>2. QED
    BY <2>1 DEF Probe, drill, alertmanager, receiver
<1>2. \A notices : Only(notices) => Only(notices)'
  BY <1>1 DEF Only
<1>3. QED
  BY <1>1, <1>2 DEF Course

LEMMA EvaluateCourse ==
    ASSUME ReceiverInv, InStep, Course, Evaluate PROVE Course'
<1>1. UNCHANGED <<at, outage, report, probe, thread, post, events>>
  BY DEF Evaluate, drill, receiver
<1>2. CASE probe = "down" /\ alert = "inactive" /\ alert' = "pending"
           /\ UNCHANGED due
  <2>1. \A notices : Only(notices) => Only(notices)'
    BY <1>1, <1>2 DEF Only
  <2>2. QED
    BY <1>1, <1>2, <2>1 DEF Course
<1>3. CASE probe = "down" /\ alert = "pending" /\ alert' = "firing"
           /\ due' = [status |-> "firing", when |-> outage]
  <2>1. outage = "on" => Only({FiringOn})'
    BY <1>1, <1>3 DEF Course, Only, FiringOn
  <2>2. outage \in {"before", "on", "over"}
    BY DEF ReceiverInv, TypeOK, Phases
  <2>3. QED
    BY <1>1, <1>3, <2>1, <2>2 DEF Course, FiringOn
<1>4. CASE probe = "up" /\ alert # "inactive" /\ alert' = "inactive"
           /\ due' = IF alert = "firing"
                     THEN [status |-> "resolved", when |-> outage] ELSE due
  <2>1. outage = "over" /\ report # "failed" =>
            Only({FiringOn, ResolvedOver})'
    BY <1>1, <1>4 DEF Course, Only, ResolvedOver
  <2>2. outage \notin {"before", "on"}
    BY <1>4 DEF Course
  <2>3. outage = "over" /\ report # "failed" => due' = ResolvedOver
    BY <1>4 DEF Course, ResolvedOver
  <2>4. report # "failed" /\ at = "unpause" => FALSE
    BY <1>4, <2>2 DEF InStep, During
  <2>5. QED
    BY <1>1, <1>4, <2>1, <2>2, <2>3, <2>4 DEF Course
<1>5. QED
  BY <1>2, <1>3, <1>4 DEF Evaluate

LEMMA DrillCourse ==
    ASSUME ReceiverInv, InStep, Course, DrillNext \/ TimeOut \/ CallFails
    PROVE  Course' /\ glitches' = glitches
<1>0. Len(events) \in Nat
  BY DEF ReceiverInv, TypeOK
<1>1. UNCHANGED <<probe, alert, due, thread, post, events, glitches>>
  BY DEF DrillNext, TimeOut, CallFails, Observe, Disagree, Pause, Unpause, prometheus,
         alertmanager, receiver, bounds
<1>2. \A notices : Only(notices) => Only(notices)'
  BY <1>1 DEF Only
<1>3. CASE Observe
  <2>1. UNCHANGED outage /\ report = "none"
    BY <1>3, ObserveCases
  <2>2. CASE at = "firing" /\ at' = "rule fires" /\ Notification("firing")
    <3>1. outage = "on" /\ Only({FiringOn})
      BY <2>2 DEF InStep, During, Course
    <3>2. PICK i \in 1..Len(events) : events[i].status = "firing"
      BY <2>2 DEF Notification
    <3>3. Len(events) > 0 /\ 1 \in 1..Len(events)
      BY <1>0, <3>2
    <3>4. events[1] = FiringOn
      BY <3>1, <3>3 DEF Only
    <3>5. QED
      BY <1>1, <1>2, <2>1, <2>2, <3>3, <3>4
         DEF Course, Before, During, Afterwards
  <2>3. CASE at = "rule fires" /\ at' = "unpause" /\ alert = "firing"
    BY <1>1, <1>2, <2>1, <2>3 DEF Course, Before, During, Afterwards
  <2>4. CASE at = "resolved" /\ at' = "rule at rest" /\ Notification("resolved")
    <3>1. \E i \in 1..Len(events) : events[i].status = "resolved"
      BY <2>4 DEF Notification
    <3>2. QED
      BY <1>1, <1>2, <2>1, <2>4, <3>1 DEF Course, Before, During, Afterwards
  <2>5. CASE \/ at = "probe up" /\ at' = "quiet"
             \/ at = "quiet" /\ at' = "pause"
             \/ at = "probe down" /\ at' = "firing"
             \/ at = "ready" /\ at' = "probe up again"
             \/ at = "probe up again" /\ at' = "resolved"
    BY <1>1, <1>2, <2>1, <2>5 DEF Course, Before, During, Afterwards
  <2>6. CASE at = "rule at rest" /\ at' = "done" /\ report' = "passed"
    BY <1>1, <1>2, <2>1, <2>6 DEF Course, Before, During, Afterwards
  <2>7. QED
    BY <1>1, <1>3, <2>2, <2>3, <2>4, <2>5, <2>6, ObserveCases
<1>4. CASE Disagree \/ TimeOut
  <2>1. UNCHANGED outage /\ report' = "failed"
    BY <1>4 DEF Disagree, TimeOut, Fails
  <2>2. QED
    BY <1>1, <1>2, <2>1 DEF Course
<1>5. CASE Pause
  <2>1. /\ at = "pause" /\ outage' = "on" /\ at' = "probe down"
        /\ report' = report
    BY <1>5, AfterValues DEF Pause
  <2>2. outage = "before"
    BY <2>1 DEF InStep, Before
  <2>3. alert = "inactive" /\ Only({})
    BY <2>2 DEF Course
  <2>4. Only({FiringOn})'
    BY <1>1, <2>3 DEF Only
  <2>5. QED
    BY <1>1, <2>1, <2>3, <2>4 DEF Course, Afterwards
<1>6. CASE Unpause
  <2>1. /\ at = "unpause" /\ report' = report
        /\ outage' = IF outage = "on" THEN "over" ELSE outage
        /\ at' = IF report = "failed" THEN "done" ELSE "ready"
    BY <1>6, AfterValues DEF Unpause
  <2>2. CASE outage = "on"
    <3>1. Only({FiringOn})
      BY <2>2 DEF Course
    <3>2. Only({FiringOn, ResolvedOver})'
      BY <1>1, <3>1 DEF Only
    <3>3. QED
      BY <1>1, <2>1, <2>2, <3>2 DEF Course, Afterwards
  <2>3. CASE outage = "before" /\ report = "failed"
    BY <1>1, <1>2, <2>1, <2>3 DEF Course
  <2>4. QED
    BY <2>1, <2>2, <2>3 DEF InStep
<1>7. CASE CallFails
  <2>1. /\ report' = "failed"
        /\ \/ outage' = outage
           \/ at = "pause" /\ outage' = "on"
           \/ at = "unpause" /\ outage = "on" /\ outage' = "over"
    BY <1>7 DEF CallFails, Fails
  <2>2. CASE outage' = outage
    BY <1>1, <1>2, <2>1, <2>2 DEF Course
  <2>3. CASE at = "pause" /\ outage' = "on"
    <3>1. alert = "inactive" /\ Only({})
      BY <2>3 DEF InStep, Before, Course
    <3>2. Only({FiringOn})'
      BY <1>1, <3>1 DEF Only
    <3>3. QED
      BY <1>1, <2>1, <2>3, <3>1, <3>2 DEF Course
  <2>4. CASE outage' = "over"
    BY <1>1, <2>1, <2>4 DEF Course
  <2>5. QED
    BY <2>1, <2>2, <2>3, <2>4
<1>8. QED
  BY <1>1, <1>3, <1>4, <1>5, <1>6, <1>7 DEF DrillNext

LEMMA InitCourseInv == Init => CourseInv
<1> SUFFICES ASSUME Init PROVE CourseInv
  OBVIOUS
<1>1. events = <<>> /\ Len(events) = 0
  BY DEF Init
<1>2. \A i \in 1..Len(events) : FALSE
  BY <1>1
<1>3. Only({})
  BY <1>2 DEF Init, Only
<1>4. QED
  BY <1>3 DEF Init, CourseInv, InStep, Course, Before, During, Afterwards

LEMMA NextCourseInv == ReceiverInv /\ CourseInv /\ [Next]_vars => CourseInv'
<1> SUFFICES ASSUME ReceiverInv, CourseInv, [Next]_vars PROVE CourseInv'
  OBVIOUS
<1>1. InStep'
  BY InStepKeeps DEF CourseInv
<1>2. glitches \in Nat
  <2>1. glitches \in 0..MaxGlitches
    BY DEF ReceiverInv, TypeOK
  <2>2. QED
    BY <2>1
<1> SUFFICES ASSUME glitches' = 0 PROVE Course'
  BY <1>1 DEF CourseInv
<1>3. glitches = 0
  <2>1. glitches' = glitches \/ glitches' = glitches + 1
    BY DEF Next, DrillNext, Observe, Disagree, Pause, Unpause, TimeOut, CallFails, Probe,
           Evaluate, AlertmanagerNext, Send, Answered, Unanswered,
           ReceiverNext, Acquire, CheckRoom, Keep, Abandon, vars, bounds
  <2>2. QED
    BY <1>2, <2>1
<1>4. Course /\ InStep
  BY <1>3 DEF CourseInv
<1>5. CASE UNCHANGED vars
  <2>1. UNCHANGED <<at, outage, report, probe, alert, due, thread, post,
                    events>>
    BY <1>5 DEF vars, drill, prometheus, alertmanager, receiver
  <2>2. \A notices : Only(notices) => Only(notices)'
    BY <2>1 DEF Only
  <2>3. QED
    BY <1>4, <2>1, <2>2 DEF Course
<1>6. QED
  BY <1>2, <1>4, <1>5, DrillCourse, ProbeCourse, EvaluateCourse,
     DeliveryCourse DEF Next

\* A drill that passes, with no probe that fails by itself, has been told of
\* its own outage, and after that of its end: no notification of another time
\* is on its way, in a thread or among the events, however the answers to them
\* are lost (monitoring-drill.py:255-300, webhook-receiver.py:76-81).
THEOREM PassedIsNotified == Spec => []PassedMeansNotified
<1>1. ReceiverInv /\ CourseInv => PassedMeansNotified
  <2> SUFFICES ASSUME ReceiverInv, CourseInv, report = "passed", glitches = 0
               PROVE  \E i, j \in 1..Len(events) :
                          /\ i < j
                          /\ events[i] = FiringOn /\ events[j] = ResolvedOver
    BY DEF PassedMeansNotified, FiringOn, ResolvedOver
  <2>1. at = "done" /\ outage = "over" /\ Course
    BY PositionValues DEF CourseInv, InStep, ReceiverInv, TypeOK
  <2>2. PICK j \in 1..Len(events) : events[j].status = "resolved"
    BY <2>1 DEF Course
  <2>3. Len(events) \in Nat
    BY DEF ReceiverInv, TypeOK
  <2>4. events[1] = FiringOn /\ events[j] \in {FiringOn, ResolvedOver}
    BY <2>1, <2>2 DEF Course, Only
  <2>5. FiringOn.status = "firing"
    BY DEF FiringOn
  <2>6. events[j] = ResolvedOver /\ j # 1
    BY <2>2, <2>4, <2>5
  <2>7. 1 \in 1..Len(events) /\ 1 < j
    BY <2>2, <2>3, <2>6
  <2>8. QED
    BY <2>4, <2>6, <2>7
<1>2. QED
  BY <1>1, InitCourseInv, NextCourseInv, ReceiverInvariant, PTL DEF Spec

=============================================================================
