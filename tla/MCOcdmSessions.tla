--------------------------- MODULE MCOcdmSessions ---------------------------
(* An instance of OcdmSessions for TLC. *)
EXTENDS OcdmSessions, TLC

Symmetry == Permutations(Clients)
=============================================================================
