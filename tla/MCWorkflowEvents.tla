-------------------------- MODULE MCWorkflowEvents --------------------------
(* Instances of WorkflowEvents for TLC.                                     *)
EXTENDS WorkflowEvents, TLC
=============================================================================
