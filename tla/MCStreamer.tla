----------------------------- MODULE MCStreamer -----------------------------
(***************************************************************************)
(* Instances of Streamer for TLC.                                          *)
(***************************************************************************)
EXTENDS Streamer, TLC

Symmetry == Permutations(Streams)

=============================================================================
