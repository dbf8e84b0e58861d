---------------------------- MODULE MCBmcObserver ----------------------------
(* Small instances of BmcObserver for TLC. *)
EXTENDS BmcObserver
=============================================================================
