---------------------------- MODULE MCRoundTrip ----------------------------
(* Two workers and a stream of two bytes in small payloads.                 *)
EXTENDS RoundTrip, TLC

Symmetry == Permutations(Workers)
=============================================================================
