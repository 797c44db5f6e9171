---------------------------- MODULE MCDhcpServer ----------------------------
(***************************************************************************)
(* Instances of DhcpServer for TLC.                                        *)
(***************************************************************************)
EXTENDS DhcpServer, TLC

\* The polite clients do the same.
Symmetry == Permutations(Polite)

=============================================================================
