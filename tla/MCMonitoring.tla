------------------------------ MODULE MCMonitoring -----------------------------
(***************************************************************************)
(* The outage for TLC, with two handler threads.                           *)
(***************************************************************************)
EXTENDS MonitoringProperties

CONSTANTS t1, t2

=============================================================================
