------------------------------ MODULE MCGallery ------------------------------
(* Instances of Gallery for TLC. *)
EXTENDS Gallery, TLC

FaceSymmetry == Permutations(Known)
=============================================================================
