------------------------------ MODULE MCRequests ------------------------------
EXTENDS Requests, TLC

Symmetry == Permutations(Sessions) \cup Permutations(Requests)
==============================================================================
