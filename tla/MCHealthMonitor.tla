-------------------------- MODULE MCHealthMonitor --------------------------
(***************************************************************************)
(* HealthMonitor for TLC: a word of three bits, one that every input wraps.*)
(***************************************************************************)
EXTENDS HealthMonitor
=============================================================================
