------------------------------ MODULE MCMonitor -----------------------------
(* An instance of Monitor for TLC.                                         *)
EXTENDS Monitor
=============================================================================
