--------------------------- MODULE MCLoginThrottle ---------------------------
(* Small instances of LoginThrottle for TLC.                               *)
EXTENDS LoginThrottle, TLC

\* Goroutines are interchangeable, and so are accounts and addresses.
Symmetry == Permutations(Attempts) \cup Permutations(Accounts) \cup Permutations(IPs)
=============================================================================
