------------------------------ MODULE MCDrillChecks ----------------------------
(***************************************************************************)
(* Every drill against every defect, for TLC.                              *)
(***************************************************************************)
EXTENDS DrillChecksProperties

AllDrills == DOMAIN Scripts

=============================================================================
