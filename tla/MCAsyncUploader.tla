-------------------------- MODULE MCAsyncUploader --------------------------
(* Small instances of AsyncUploader. *)
EXTENDS AsyncUploader, TLC

Symmetry == Permutations(Items) \cup Permutations(Workers)
=============================================================================
