-------------------------- MODULE MonitoringProperties -------------------------
(***************************************************************************)
(* What the receiver and the monitoring drill promise.                     *)
(***************************************************************************)
EXTENDS Monitoring

\* What Alertmanager counts as said has been kept, whatever other threads do
\* at the limit: a notification is accepted after it was stored, and concurrent
\* and repeated deliveries do not take the receiver over its limit
\* (webhook-receiver.py:76-81).
AcknowledgedIsKept ==
    /\ Len(events) <= MaxEvents
    /\ notified # NoNotice => \E i \in 1..Len(events) : events[i] = notified

\* Without probes that fail by themselves, a passed drill has received the
\* firing notification of its own outage, and after it the resolved one, sent
\* when the outage was over ("failure to resolve ... causes a nonzero exit",
\* docs/monitoring.md:63).
PassedMeansNotified ==
    report = "passed" /\ glitches = 0 =>
        \E i, j \in 1..Len(events) :
            /\ i < j
            /\ events[i] = [status |-> "firing", when |-> "on"]
            /\ events[j] = [status |-> "resolved", when |-> "over"]

\* If no wait times out, no call fails and no probe fails by itself, the drill
\* passes, however often Alertmanager has to repeat itself; unless the alert
\* ends before any answer to the firing notification arrives, for then
\* Alertmanager has nothing to resolve, and the drill waits for it in vain.
PassesInTime ==
    \/ <>(report = "passed" \/ interrupted \/ glitches > 0)
    \/ <>[](due.status = "resolved" /\ notified = NoNotice)

=============================================================================
