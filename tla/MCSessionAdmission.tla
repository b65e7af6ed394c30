------------------------- MODULE MCSessionAdmission -------------------------
(* Small instances of SessionAdmission for TLC. *)
EXTENDS SessionAdmission, TLC

\* Goroutines are interchangeable, and so are session ids and addresses.
Symmetry == Permutations(Requests) \cup Permutations(Sessions) \cup Permutations(IPs)
=============================================================================
