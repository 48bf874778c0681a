------------------------------ MODULE Assignments ------------------------------
(***************************************************************************)
(* What handing out the steps of analyses promises, told without calls,    *)
(* locks or connections.  A distribution gives several people work in one  *)
(* step, and only what nobody has; a manual assignment takes a step from   *)
(* one person and gives it to another; and whoever gets a step examines    *)
(* the modality and holds no other step of the analysis at that moment     *)
(* (src/distribution/distribution.go).  Distribution implements this.      *)
(***************************************************************************)
EXTENDS Naturals, FiniteSets

CONSTANTS
  Users,    \* examiners
  NoUser,   \* nobody: a pending step
  Analyses,
  Fit,      \* Fit[a]: who examines the modality of a
  MaxCount  \* the most that one distribution hands out

VARIABLES
  stage,  \* the stage each analysis is at
  holder  \* who holds each of its steps

assignmentVars == <<stage, holder>>

Steps == {"VERIFICATOR", "REVIEWER", "INCONSISTENCE"}

ActiveStep(s) ==
  CASE s = "VERIFICATION"  -> "REVIEWER"
    [] s = "INCONSISTENCE" -> "INCONSISTENCE"
    [] s \notin {"VERIFICATION", "INCONSISTENCE"} -> "VERIFICATOR"

\* The steps that have been active, at the latest at stage s.
ReachedSteps(s) ==
  CASE s = "EXAMINATION"  -> {"VERIFICATOR"}
    [] s = "VERIFICATION" -> {"VERIFICATOR", "REVIEWER"}
    [] s \notin {"EXAMINATION", "VERIFICATION"} -> Steps

Candidates(a) == Fit[a] \ {holder[a][s] : s \in Steps}

AssignmentsInit ==
  /\ stage = [a \in Analyses |-> "EXAMINATION"]
  /\ holder = [a \in Analyses |-> [s \in Steps |-> NoUser]]

\* At once, to[a] gets the active step of a, where it is somebody: it is still to be done, and nobody's.
HandOut(to) ==
  LET given == {a \in Analyses : to[a] # NoUser}
  IN  /\ given # {} /\ Cardinality(given) <= MaxCount
      /\ \A a \in given :
           /\ stage[a] \notin {"REPORT", "CLOSED"}
           /\ holder[a][ActiveStep(stage[a])] = NoUser
           /\ to[a] \in Candidates(a)
      /\ holder' = [a \in Analyses |->
                      IF a \in given THEN [holder[a] EXCEPT ![ActiveStep(stage[a])] = to[a]] ELSE holder[a]]
      /\ UNCHANGED stage

\* A step passes to another examiner or back to nobody: the one that is active, or was when it was asked for.
Reassign(a, s, u) ==
  /\ s \in ReachedSteps(stage[a])
  /\ u \in Candidates(a) \cup {NoUser}
  /\ holder' = [holder EXCEPT ![a][s] = u]
  /\ UNCHANGED stage

\* Whoever holds the active step finishes it.
Finish(a, next) ==
  /\ holder[a][ActiveStep(stage[a])] # NoUser
  /\ <<stage[a], next>> \in
       {<<"EXAMINATION", "VERIFICATION">>, <<"EXAMINATION", "REPORT">>, <<"VERIFICATION", "INCONSISTENCE">>,
        <<"VERIFICATION", "REPORT">>, <<"INCONSISTENCE", "REPORT">>, <<"REPORT", "CLOSED">>}
  /\ stage' = [stage EXCEPT ![a] = next]
  /\ UNCHANGED holder

AssignmentsNext ==
  \/ \E a \in Analyses, next \in {"VERIFICATION", "INCONSISTENCE", "REPORT", "CLOSED"} : Finish(a, next)
  \/ \E a \in Analyses, s \in Steps, u \in Users \cup {NoUser} : Reassign(a, s, u)
  \/ \E to \in [Analyses -> Users \cup {NoUser}] : HandOut(to)

AssignmentsSpec == AssignmentsInit /\ [][AssignmentsNext]_assignmentVars
================================================================================
