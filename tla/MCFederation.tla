----------------------------- MODULE MCFederation -----------------------------
(* Federation for TLC: handshakes are interchangeable. *)
EXTENDS Federation, TLC

Symmetry == Permutations(Handshakes)
=============================================================================
