------------------------------ MODULE MCReports ------------------------------
EXTENDS Reports, TLC

Symmetry == Permutations(Analyses) \cup Permutations(Tabs)
=============================================================================
