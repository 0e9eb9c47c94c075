---------------------------- MODULE MCMp2mpTree ----------------------------
(* Model values and bounds for checking Mp2mpTree with TLC.                *)
EXTENDS Mp2mpTree
=============================================================================
