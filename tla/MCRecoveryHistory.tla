-------------------------- MODULE MCRecoveryHistory --------------------------
(* A small instance of RecoveryHistory for TLC.                             *)
EXTENDS RecoveryHistory
==============================================================================
