------------------------------ MODULE MCVideos ------------------------------
EXTENDS Videos, TLC

CONSTANT v1

OfTheFirst == [f \in Frames |-> v1]
Symmetry   == Permutations(Calls) \cup Permutations(Ids) \cup Permutations(Tasks)
=============================================================================
