------------------------------- MODULE Monitoring ------------------------------
(***************************************************************************)
(* The outage of monitoring-drill.py and the way of its alert: Prometheus  *)
(* probes the readiness of the service, its rule fires after two           *)
(* evaluations, Alertmanager notifies webhook-receiver.py until it is      *)
(* answered, and the drill looks at the probe, at the rule and at the      *)
(* events the receiver has kept.                                           *)
(*                                                                         *)
(* Prometheus and Alertmanager are external: what they do is what the      *)
(* files of monitoring/ configure.  Time is not modelled; a wait of the    *)
(* drill may time out at any moment, and so may Alertmanager's, and any    *)
(* call of the drill may fail.                                             *)
(***************************************************************************)
EXTENDS Integers, Sequences

CONSTANTS
    Threads,        \* of the receiver
    Nobody,         \* holds no lock, or is waited for by nobody
    MaxEvents,      \* MAX_EVENTS
    MaxGlitches,    \* bound on probes that fail without an outage
    MaxLosses       \* bound on answers lost or late for Alertmanager

ASSUME MonitoringAssumption ==
    /\ Threads # {}
    /\ Nobody \notin Threads
    /\ MaxEvents \in Nat
    /\ MaxGlitches \in Nat
    /\ MaxLosses \in Nat

VARIABLES
    at,             \* what the drill does next
    outage,         \* "before", "on" or "over"
    interrupted,    \* a wait has timed out, or a call has failed
    report,
    probe, alert,   \* last probe, state of the rule
    due, notified,  \* what Alertmanager has to say, and what it has said
    sending,        \* the thread it waits for
    thread, post,   \* what each handler thread does, and with which body
    lock, events,   \* event_lock, events
    glitches, losses

drill == <<at, outage, interrupted, report>>
prometheus == <<probe, alert>>
alertmanager == <<due, notified, sending>>
receiver == <<thread, post, lock, events>>
bounds == <<glitches, losses>>
vars == <<drill, prometheus, alertmanager, receiver, bounds>>

\* The order of the drill's observations.
Order == <<"probe up", "quiet", "pause", "probe down", "firing", "rule fires",
           "unpause", "ready", "probe up again", "resolved", "rule at rest",
           "done">>
Waits == {"probe up", "probe down", "firing", "ready", "probe up again",
          "resolved"}
After(s) == Order[1 + CHOOSE i \in 1..(Len(Order) - 1) : Order[i] = s]
InTry == {"pause", "probe down", "firing", "rule fires"}

Positions == {Order[i] : i \in 1..Len(Order)}
Phases == {"before", "on", "over"}
Reports == {"none", "passed", "failed"}
Probes == {"none", "up", "down"}
Alerts == {"inactive", "pending", "firing"}
Tasks == {"idle", "posted", "locked", "room", "accepted", "refused"}
Notices == [status : {"firing", "resolved"}, when : Phases]
NoNotice == [status |-> "none", when |-> "before"]

TypeOK ==
    /\ at \in Positions
    /\ outage \in Phases
    /\ interrupted \in BOOLEAN
    /\ report \in Reports
    /\ probe \in Probes
    /\ alert \in Alerts
    /\ due \in Notices \cup {NoNotice}
    /\ notified \in Notices \cup {NoNotice}
    /\ sending \in Threads \cup {Nobody}
    /\ thread \in [Threads -> Tasks]
    /\ post \in [Threads -> Notices \cup {NoNotice}]
    /\ lock \in Threads \cup {Nobody}
    /\ events \in Seq(Notices)
    /\ glitches \in 0..MaxGlitches
    /\ losses \in 0..MaxLosses

Init ==
    /\ at = "probe up"
    /\ outage = "before"
    /\ interrupted = FALSE
    /\ report = "none"
    /\ probe = "none"
    /\ alert = "inactive"
    /\ due = NoNotice
    /\ notified = NoNotice
    /\ sending = Nobody
    /\ thread = [t \in Threads |-> "idle"]
    /\ post = [t \in Threads |-> NoNotice]
    /\ lock = Nobody
    /\ events = <<>>
    /\ glitches = 0
    /\ losses = 0

-----------------------------------------------------------------------------
(* Prometheus: the job inventory-readiness and the rule.                   *)

Probe ==
    /\ \/ /\ probe' = IF outage = "on" THEN "down" ELSE "up"
          /\ UNCHANGED glitches
       \/ /\ outage # "on"
          /\ glitches < MaxGlitches
          /\ glitches' = glitches + 1
          /\ probe' = "down"
    /\ UNCHANGED <<drill, alert, alertmanager, receiver, losses>>

\* A failure that lasts makes a pending alert fire; its end resolves it.
Evaluate ==
    /\ \/ /\ probe = "down"
          /\ \/ alert = "inactive" /\ alert' = "pending" /\ UNCHANGED due
             \/ /\ alert = "pending"
                /\ alert' = "firing"
                /\ due' = [status |-> "firing", when |-> outage]
       \/ /\ probe = "up"
          /\ alert # "inactive"
          /\ alert' = "inactive"
          /\ due' = IF alert = "firing"
                    THEN [status |-> "resolved", when |-> outage] ELSE due
    /\ UNCHANGED <<drill, probe, notified, sending, receiver, bounds>>

-----------------------------------------------------------------------------
(* Alertmanager: one route, one receiver, resolved notices are sent.       *)

\* Nothing is resolved for a receiver that was told of nothing.
Send(t) ==
    /\ sending = Nobody
    /\ due # notified
    /\ due.status = "resolved" => notified.status = "firing"
    /\ thread[t] = "idle"
    /\ sending' = t
    /\ thread' = [thread EXCEPT ![t] = "posted"]
    /\ post' = [post EXCEPT ![t] = due]
    /\ UNCHANGED <<drill, prometheus, due, notified, lock, events, bounds>>

\* An answer is there, or a refusal, after which it tries again.
Answered(t) ==
    /\ sending = t
    /\ thread[t] \in {"accepted", "refused"}
    /\ notified' = IF thread[t] = "accepted" THEN post[t] ELSE notified
    /\ sending' = Nobody
    /\ thread' = [thread EXCEPT ![t] = "idle"]
    /\ UNCHANGED <<drill, prometheus, due, post, lock, events, bounds>>

\* It gives up waiting, whatever the thread still does.
Unanswered ==
    /\ sending # Nobody
    /\ losses < MaxLosses
    /\ losses' = losses + 1
    /\ sending' = Nobody
    /\ UNCHANGED <<drill, prometheus, due, notified, receiver, glitches>>

-----------------------------------------------------------------------------
(* The receiver: do_POST of each thread.                                   *)

\* Mutant: the lock is not waited for.
EnterUnlocked(t) ==
    /\ thread[t] = "posted"
    /\ lock' = t
    /\ thread' = [thread EXCEPT ![t] = "locked"]
    /\ UNCHANGED <<drill, prometheus, alertmanager, post, events, bounds>>

Acquire(t) ==
    /\ thread[t] = "posted"
    /\ lock = Nobody
    /\ lock' = t
    /\ thread' = [thread EXCEPT ![t] = "locked"]
    /\ UNCHANGED <<drill, prometheus, alertmanager, post, events, bounds>>

\* Mutant: a full receiver accepts what it drops.
AcceptWhenFull(t) ==
    /\ thread[t] = "locked"
    /\ IF Len(events) >= MaxEvents
       THEN /\ thread' = [thread EXCEPT ![t] = "accepted"]
            /\ lock' = Nobody
       ELSE /\ thread' = [thread EXCEPT ![t] = "room"]
            /\ UNCHANGED lock
    /\ UNCHANGED <<drill, prometheus, alertmanager, post, events, bounds>>

CheckRoom(t) ==
    /\ thread[t] = "locked"
    /\ IF Len(events) >= MaxEvents
       THEN /\ thread' = [thread EXCEPT ![t] = "refused"]
            /\ lock' = Nobody
       ELSE /\ thread' = [thread EXCEPT ![t] = "room"]
            /\ UNCHANGED lock
    /\ UNCHANGED <<drill, prometheus, alertmanager, post, events, bounds>>

Keep(t) ==
    /\ thread[t] = "room"
    /\ events' = Append(events, post[t])
    /\ thread' = [thread EXCEPT ![t] = "accepted"]
    /\ lock' = Nobody
    /\ UNCHANGED <<drill, prometheus, alertmanager, post, bounds>>

\* Nobody waits for the answer any more.
Abandon(t) ==
    /\ sending # t
    /\ thread[t] \in {"accepted", "refused"}
    /\ thread' = [thread EXCEPT ![t] = "idle"]
    /\ UNCHANGED <<drill, prometheus, alertmanager, post, lock, events,
                   bounds>>

-----------------------------------------------------------------------------
(* The drill.                                                              *)

\* do_GET copies the events under the lock.
Readable == lock = Nobody

\* Mutant: any notification of this alert will do.
AnyNotification(status) ==
    Readable /\ \E i \in 1..Len(events) : events[i].status \in {status, "firing"}

\* Mutant: a resolved notification is looked for in the wrong place.
NotificationOfFirstOnly(status) ==
    Readable /\ events # <<>> /\ events[1].status = status

\* notification() on the receiver's events.  There is one alert, and so one
\* fingerprint.
Notification(status) ==
    Readable /\ \E i \in 1..Len(events) : events[i].status = status

\* What the drill waits for, or requires, before it goes on.
Sees ==
    CASE at = "probe up" -> probe = "up"
      [] at = "quiet" -> events = <<>>
      [] at = "probe down" -> probe = "down"
      [] at = "firing" -> Notification("firing")
      [] at = "rule fires" -> alert = "firing"
      [] at = "ready" -> outage # "on"
      [] at = "probe up again" -> probe = "up"
      [] at = "resolved" -> Notification("resolved")
      [] at = "rule at rest" -> alert = "inactive"

Observe ==
    /\ at \notin {"pause", "unpause", "done"}
    /\ report = "none"
    /\ Sees
    /\ at' = After(at)
    /\ report' = IF at = "rule at rest" THEN "passed" ELSE report
    /\ UNCHANGED <<outage, interrupted, prometheus, alertmanager, receiver,
                   bounds>>

\* An exception; the finally block follows one of the try block.
Fails ==
    /\ report' = "failed"
    /\ at' = IF at \in InTry THEN "unpause" ELSE "done"

\* A requirement does not hold.
Disagree ==
    /\ report = "none"
    /\ at \in {"quiet", "rule fires", "rule at rest"}
    /\ at = "quiet" => Readable
    /\ ~Sees
    /\ Fails
    /\ UNCHANGED <<outage, interrupted, prometheus, alertmanager, receiver,
                   bounds>>

\* Observation.wait gives up, of itself or because all waits together took
\* too long.
TimeOut ==
    /\ report = "none"
    /\ at \in Waits
    /\ interrupted' = TRUE
    /\ Fails
    /\ UNCHANGED <<outage, prometheus, alertmanager, receiver, bounds>>

\* A call to Docker, to the service, to Prometheus or to the receiver fails,
\* those of the finally block included.  Docker may have done what it was told.
CallFails ==
    /\ at # "done"
    /\ interrupted' = TRUE
    /\ Fails
    /\ \/ UNCHANGED outage
       \/ at = "pause" /\ outage' = "on"
       \/ at = "unpause" /\ outage = "on" /\ outage' = "over"
    /\ UNCHANGED <<prometheus, alertmanager, receiver, bounds>>

Pause ==
    /\ at = "pause"
    /\ outage' = "on"
    /\ at' = After(at)
    /\ UNCHANGED <<interrupted, report, prometheus, alertmanager, receiver,
                   bounds>>

\* Only a database that is paused is resumed.
Unpause ==
    /\ at = "unpause"
    /\ outage' = IF outage = "on" THEN "over" ELSE outage
    /\ at' = IF report = "failed" THEN "done" ELSE After(at)
    /\ UNCHANGED <<interrupted, report, prometheus, alertmanager, receiver,
                   bounds>>

DrillNext == Observe \/ Disagree \/ Pause \/ Unpause

-----------------------------------------------------------------------------

ReceiverNext(t) == Acquire(t) \/ CheckRoom(t) \/ Keep(t) \/ Abandon(t)
AlertmanagerNext == \E t \in Threads : Send(t) \/ Answered(t)

Next ==
    \/ DrillNext \/ TimeOut \/ CallFails \/ Probe \/ Evaluate \/ AlertmanagerNext
    \/ Unanswered \/ \E t \in Threads : ReceiverNext(t)

\* Probes and evaluations recur, Alertmanager tries again, threads run, and
\* the drill polls; no probe has to fail by itself.
Fairness ==
    /\ WF_vars(DrillNext)
    /\ WF_vars(Probe /\ UNCHANGED glitches)
    /\ WF_vars(Evaluate)
    /\ WF_vars(AlertmanagerNext)
    /\ \A t \in Threads : WF_vars(ReceiverNext(t))

Spec == Init /\ [][Next]_vars
FairSpec == Spec /\ Fairness

=============================================================================
