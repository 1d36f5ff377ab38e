-------------------------- MODULE MCMonitorHandOver --------------------------
(* Small instances of MonitorHandOver for TLC.                             *)
EXTENDS MonitorHandOver
=============================================================================
