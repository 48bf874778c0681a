---------------------------- MODULE MCClusters ----------------------------
(* Instances of Clusters for TLC: a few features, a few changes. *)
EXTENDS Clusters

SomeFeatures == 1..3
=============================================================================
