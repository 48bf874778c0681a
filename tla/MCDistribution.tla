---------------------------- MODULE MCDistribution ----------------------------
(* An instance of Distribution for TLC: three analyses, two of them of one *)
(* subject, the last of a type that one of the examiners does not examine. *)
EXTENDS Distribution

MCTypeOf  == [a \in Analyses |-> IF \E b \in Analyses : b > a THEN "FINGERPRINT" ELSE "FACIAL"]
MCExamine == [t \in Types |-> IF t = "FACIAL" THEN Users \ {1} ELSE Users]
MCSubject == [a \in Analyses |-> IF a = 2 THEN "s2" ELSE "s1"]
=============================================================================
