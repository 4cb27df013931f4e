-------------------------- MODULE MCAutonomyMission --------------------------
(* AutonomyMission with one mission the fabric can run and one that lacks a
   capability. *)
EXTENDS AutonomyMission

CONSTANTS known, lacking, crm, research

MCRequired == [m \in Missions |-> IF m = lacking THEN {crm} ELSE {research}]
=============================================================================
