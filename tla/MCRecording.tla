---------------------------- MODULE MCRecording ----------------------------
(* Recording on small instances. *)
EXTENDS Recording, TLC

OriginSymmetry == Permutations(Origins)
=============================================================================
