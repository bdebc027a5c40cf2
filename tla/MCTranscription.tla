-------------------------- MODULE MCTranscription --------------------------
(* Transcription on small instances. *)
EXTENDS Transcription, TLC

ClipSymmetry == Permutations(Locals) \cup Permutations(Submissions)
=============================================================================
