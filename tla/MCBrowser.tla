------------------------------ MODULE MCBrowser ------------------------------
(* One worker with two files and a tab with two sessions, one after the other.  *)
EXTENDS MCUploadQueue, Browser

\* Sessions and calls of a kind are interchangeable.
Symmetry == Permutations(BCSessions) \cup Permutations(Listings)
=============================================================================
