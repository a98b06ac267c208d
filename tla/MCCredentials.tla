----------------------------- MODULE MCCredentials -----------------------------
EXTENDS Credentials, TLC

Symmetry == Permutations(Sessions) \cup Permutations(Keys) \cup Permutations(Calls)
=============================================================================
