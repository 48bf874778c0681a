---------------------------- MODULE MCExamination ----------------------------
(* Instances of Examination for TLC: examiners, pairs and calls are model  *)
(* values the specification treats alike, so their permutations are        *)
(* symmetries; pairs are not where they are made of different traces.      *)
EXTENDS Examination, TLC

\* Every pair is of the one trace of the case and a person's file, and any may be a candidate.
OneForAll == [p \in Pairs |-> Traces]
AnyOfThem == SUBSET Pairs

\* Pair 1 is of the first trace and a person's file, pair 2 of both traces; the matcher has decided
\* the second.
OneOrTwo == [p \in Pairs |-> 1..p]
OfTwo    == {{2}}

PeopleSymmetry == Permutations(Users) \cup Permutations(Calls)
Symmetry       == PeopleSymmetry \cup Permutations(Pairs)
=============================================================================
