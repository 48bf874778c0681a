------------------------------ MODULE MCMaterial ------------------------------
EXTENDS Material, TLC

CallerSymmetry == Permutations(Callers)
=============================================================================
