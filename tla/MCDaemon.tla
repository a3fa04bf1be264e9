------------------------------ MODULE MCDaemon ------------------------------
(* Three subsystems: the collector, the dashboard and the updater. *)
EXTENDS Daemon, TLC

CONSTANTS collector, dashboard, updater
=============================================================================
