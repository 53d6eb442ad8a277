-------------------------- MODULE MCImportWatchdog --------------------------
(* The watchdog over a day on which one failover is allowed.              *)
EXTENDS ImportWatchdog
=============================================================================
