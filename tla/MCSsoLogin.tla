----------------------------- MODULE MCSsoLogin -----------------------------
EXTENDS SsoLogin, TLC

\* Every link expires after one second.
MCExp == [t \in Tokens |-> 1]

Symmetry == Permutations(Tokens) \cup Permutations(Sessions) \cup Permutations(Requests)
=============================================================================
