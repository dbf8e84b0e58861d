----------------------- MODULE MCAvailabilityWatchdog -----------------------
(* The availability watchdog on small instances. *)
EXTENDS AvailabilityWatchdog
=============================================================================
