---------------------------- MODULE MCDecisions ----------------------------
(* Instances of Decisions for TLC. *)
EXTENDS Decisions

FaceTypes   == {"FACIAL_REVIEW", "FACIAL_COMPARISON"}
SomeLevels  == {"STRONG_SUPPORT_COMMON", "SUPPORT_COMMON", "INCONCLUSIVE", "SUPPORT_DIFFERENT"}
ReviewsOnly == {"FACIAL_REVIEW"}
=============================================================================
