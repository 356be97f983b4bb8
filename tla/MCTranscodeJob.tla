--------------------------- MODULE MCTranscodeJob ---------------------------
(* TranscodeJob on small instances. *)
EXTENDS TranscodeJob, TLC

Symmetry == Permutations(Workers)
=============================================================================
