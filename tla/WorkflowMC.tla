----------------------------- MODULE WorkflowMC -----------------------------
(***************************************************************************)
(* Instances of Workflow for TLC.  Two checkpoints are retained of the     *)
(* eight of the code; three runs exceed them by one.                       *)
(***************************************************************************)
EXTENDS Workflow

FirstThree == 1..3
FirstTwo == 1..2
=============================================================================
