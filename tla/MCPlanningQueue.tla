-------------------------- MODULE MCPlanningQueue ---------------------------
(* PlanningQueue for TLC: a run over few tickets, with model values for  *)
(* tickets, threads and devices.                                         *)
EXTENDS PlanningQueue, TLC
=============================================================================
