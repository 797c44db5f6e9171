----------------------------- MODULE MCTimeSync -----------------------------
(* TimeSync with the values its configurations give to the constants.      *)
EXTENDS TimeSync

=============================================================================
