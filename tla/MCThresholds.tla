----------------------------- MODULE MCThresholds -----------------------------
EXTENDS Thresholds, TLC

\* Two cutoffs: a pair of score 2 is confirmed by one and left by the other.
AllBands == {[review |-> 1, confirm |-> 2], [review |-> 3, confirm |-> 3]}
Default  == [review |-> 1, confirm |-> 2]
=============================================================================
