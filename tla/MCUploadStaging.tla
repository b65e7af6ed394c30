-------------------------- MODULE MCUploadStaging --------------------------
(* Small instances of UploadStaging for TLC.                               *)
EXTENDS UploadStaging, TLC

\* Requests are interchangeable, and so are uploads, sessions and chunks.
Symmetry ==
  Permutations(Sessions) \cup Permutations(Uploads) \cup Permutations(Chunks)
    \cup Permutations(Requests)
=============================================================================
