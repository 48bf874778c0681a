------------------------------ MODULE Decisions ------------------------------
(***************************************************************************)
(* One pair of features and what is decided about it over time: the        *)
(* matcher's SYSTEM decision and the rounds of the analyses that examine   *)
(* it (several may be open at once), from which the cluster package        *)
(* derives the pair's status, the round that gave it and the link shown    *)
(* in forensic views.                                                      *)
(*                                                                         *)
(* An analysis is told by what it does to this pair: its locks and people  *)
(* are in Examination, its other pairs are the free choice of the stage    *)
(* that follows.  A chain is not kept in order: one human row per role and *)
(* analysis is all the schema allows, and of the SYSTEM rows only the      *)
(* latest is ever looked at.                                               *)
(***************************************************************************)
EXTENDS Naturals, Sequences, FiniteSetsExt

CONSTANTS
  MaxAnalyses, \* bound on the analyses opened
  MaxSystem,   \* bound on the SYSTEM rows written
  Types,       \* the types of analysis opened
  Levels,      \* the conclusion levels examiners use
  NoRow        \* no such row

AnalysisTypes == {"FACIAL_REVIEW", "FACIAL_COMPARISON", "FINGERPRINT_COMPARISON"}
Conclusions   == {"STRONG_SUPPORT_COMMON", "SUPPORT_COMMON", "INCONCLUSIVE",
                  "SUPPORT_DIFFERENT", "STRONG_SUPPORT_DIFFERENT"}
SystemDecisions == {"POSITIVE", "NEGATIVE", "INCONCLUSIVE"}

ASSUME DecisionsConstantsOK ==
  /\ MaxAnalyses \in Nat /\ MaxSystem \in Nat
  /\ Types \subseteq AnalysisTypes /\ Levels \subseteq Conclusions
  /\ NoRow \notin SystemDecisions \cup [decision : SystemDecisions, level : Conclusions \cup {""}]

VARIABLES
  type,    \* type[a]: the type of analysis a, one for each opened, in order of id
  stage,   \* stage[a]
  listed,  \* listed[a]: the pair is among the ones analysis a lists
  traces,  \* how many of the traces that make the pair the case still has
  calls,   \* calls[a][role]: the human decision of that analysis and role
  system,  \* the latest SYSTEM decision
  written  \* how many SYSTEM rows were written

decisionsVars == <<type, stage, listed, traces, calls, system, written>>

Opened == DOMAIN type
Roles  == {"VERIFICATOR", "REVIEWER", "INCONSISTENCE"}
Stages == {"EXAMINATION", "VERIFICATION", "INCONSISTENCE", "REPORT"}

-----------------------------------------------------------------------------
(* What an examiner concludes.                                             *)

DecisionOf(level) ==
  CASE level \in {"STRONG_SUPPORT_COMMON", "SUPPORT_COMMON"}       -> "POSITIVE"
    [] level \in {"SUPPORT_DIFFERENT", "STRONG_SUPPORT_DIFFERENT"} -> "NEGATIVE"
    [] OTHER                                                       -> "INCONCLUSIVE"

\* A facial comparison grades its conclusion, the others only decide.
CallsOf(t) ==
  IF t = "FACIAL_COMPARISON"
    THEN {[decision |-> DecisionOf(l), level |-> l] : l \in Levels}
    ELSE [decision : SystemDecisions, level : {""}]

AnyCall == UNION {CallsOf(t) : t \in Types}
Unmade  == [r \in Roles |-> NoRow]

DecisionsTypeOK ==
  /\ type \in Seq(Types) /\ Len(type) <= MaxAnalyses
  /\ stage \in [Opened -> Stages]
  /\ listed \in [Opened -> BOOLEAN]
  /\ traces \in {"ALL", "SOME", "NONE"}
  /\ calls \in [Opened -> [Roles -> AnyCall \cup {NoRow}]]
  /\ \A a \in Opened, r \in Roles : calls[a][r] \in CallsOf(type[a]) \cup {NoRow}
  /\ system \in SystemDecisions \cup {NoRow}
  /\ written \in 0..MaxSystem

-----------------------------------------------------------------------------
(* From the chain to the pair's status: cluster/decision.go.               *)

Outcome(decision, inconclusive) ==
  CASE decision = "POSITIVE" -> "CONFIRMED"
    [] decision = "NEGATIVE" -> "REJECTED"
    [] OTHER                 -> inconclusive

\* Fault: two examiners agree when their decisions do, whatever their levels.
DeriveRoundByDecision(c, sys) ==
  LET v == c["VERIFICATOR"]  r == c["REVIEWER"]  i == c["INCONSISTENCE"]
  IN  CASE i # NoRow -> [status |-> Outcome(i.decision, "DISPUTED"), by |-> "INCONSISTENCE"]
        [] i = NoRow /\ v # NoRow /\ r # NoRow ->
             [status |-> IF v.decision = r.decision THEN Outcome(v.decision, "PENDING_REVIEW")
                                                    ELSE "DISPUTED",
              by     |-> "REVIEWER"]
        [] i = NoRow /\ v # NoRow /\ r = NoRow -> [status |-> "PENDING_REVIEW", by |-> "VERIFICATOR"]
        [] i = NoRow /\ v = NoRow /\ sys # NoRow ->
             [status |-> Outcome(sys, "PENDING_REVIEW"), by |-> "SYSTEM"]
        [] OTHER -> [status |-> "NONE", by |-> "NONE"]

\* The state one round's chain comes to, and the role that settled it: c the analysis's human
\* decisions, sys the SYSTEM one.  A REVIEWER without a VERIFICATOR settles nothing.
DeriveRound(c, sys) ==
  LET v == c["VERIFICATOR"]  r == c["REVIEWER"]  i == c["INCONSISTENCE"]
  IN  CASE i # NoRow -> [status |-> Outcome(i.decision, "DISPUTED"), by |-> "INCONSISTENCE"]
        [] i = NoRow /\ v # NoRow /\ r # NoRow ->
             [status |-> IF v = r THEN Outcome(v.decision, "PENDING_REVIEW") ELSE "DISPUTED",
              by     |-> "REVIEWER"]
        [] i = NoRow /\ v # NoRow /\ r = NoRow -> [status |-> "PENDING_REVIEW", by |-> "VERIFICATOR"]
        [] i = NoRow /\ v = NoRow /\ sys # NoRow ->
             [status |-> Outcome(sys, "PENDING_REVIEW"), by |-> "SYSTEM"]
        [] OTHER -> [status |-> "NONE", by |-> "NONE"]

\* Round 0 is the SYSTEM decision alone; the SYSTEM decision counts in every other too.
RoundOutcome(r) == DeriveRound(IF r = 0 THEN Unmade ELSE calls[r], system)

Rounds == {a \in Opened : calls[a] # Unmade} \cup IF system # NoRow THEN {0} ELSE {}

SettledStatus == {"CONFIRMED", "REJECTED"}

\* Fault: the latest round's status, settled or not.
ConsiderLatest(acc, r) ==
  LET o == RoundOutcome(r)
  IN  [round |-> r, status |-> o.status, by |-> o.by, settled |-> o.status \in SettledStatus]

\* One turn of DecidingRound's loop: a settled round takes over, and an unsettled one only while
\* none has settled.
Consider(acc, r) ==
  LET o       == RoundOutcome(r)
      settles == o.status \in SettledStatus
  IN  IF settles \/ ~acc.settled
        THEN [round |-> r, status |-> o.status, by |-> o.by, settled |-> acc.settled \/ settles]
        ELSE acc

\* The round whose outcome is the pair's status, that status, and the role that settled it.
DecidingRound ==
  LET acc[n \in 0..(Len(type) + 1)] ==
        IF n = 0 THEN [round |-> 0, status |-> "NONE", by |-> "NONE", settled |-> FALSE]
        ELSE IF n - 1 \in Rounds THEN Consider(acc[n-1], n - 1) ELSE acc[n-1]
  IN  acc[Len(type) + 1]

\* Confirmed by people: the pair builds the REVIEWED clusters.
Reviewed == DecidingRound.status = "CONFIRMED" /\ DecidingRound.by # "SYSTEM"

IsComparison(t) == t \in {"FACIAL_COMPARISON", "FINGERPRINT_COMPARISON"}

\* Fault: a comparison its first examiner has just decided is shown as inconclusive.
LaterLaudoHasty(round) ==
  LET later == {a \in Opened : a > round /\ calls[a] # Unmade /\ IsComparison(type[a])}
      o     == DeriveRound(calls[Max(later)], NoRow)
  IN  CASE later = {} -> "NONE"
        [] later # {} /\ o.status = "DISPUTED" -> "DISPUTED"
        [] later # {} /\ o.status = "PENDING_REVIEW" -> "INCONCLUSIVE"
        [] OTHER -> "PENDING"

\* What ReviewedLink shows beside a link settled in a round: how the latest later comparison
\* stands, judged by its people alone.
LaterLaudo(round) ==
  LET later == {a \in Opened : a > round /\ calls[a] # Unmade /\ IsComparison(type[a])}
      o     == DeriveRound(calls[Max(later)], NoRow)
  IN  CASE later = {} -> "NONE"
        [] later # {} /\ o.status = "DISPUTED" -> "DISPUTED"
        [] later # {} /\ o.status = "PENDING_REVIEW" /\ o.by = "REVIEWER" -> "INCONCLUSIVE"
        [] OTHER -> "PENDING"

-----------------------------------------------------------------------------
(* What happens to the pair.                                               *)

DecisionsInit ==
  /\ type = <<>> /\ stage = <<>> /\ listed = <<>> /\ calls = <<>>
  /\ traces = "ALL" /\ system = NoRow /\ written = 0

\* A sync decides an undecided pair; applying another threshold version changes its mind.
MatcherDecides(d) ==
  /\ written < MaxSystem
  /\ IF system = NoRow THEN d # "NEGATIVE" ELSE d # system
  /\ system' = d
  /\ written' = written + 1
  /\ UNCHANGED <<type, stage, listed, traces, calls>>

\* A review is opened, or a comparison, that lists the pair or does not.
Open(t, lists) ==
  /\ Len(type) < MaxAnalyses
  /\ lists => IsComparison(t) /\ traces = "ALL"
  /\ type' = Append(type, t)
  /\ stage' = Append(stage, "EXAMINATION")
  /\ listed' = Append(listed, lists)
  /\ calls' = Append(calls, Unmade)
  /\ UNCHANGED <<traces, system, written>>

\* AddPairs checks that the first examiner has not submitted and adds the pair later, when it
\* may have (Examination): the stage is no guard.
AddPair(a) ==
  /\ IsComparison(type[a]) /\ ~listed[a] /\ traces = "ALL"
  /\ listed' = [listed EXCEPT ![a] = TRUE]
  /\ UNCHANGED <<type, stage, traces, calls, system, written>>

\* One of the pair's two traces is deleted, or its last: no stage forbids it, and every decision
\* stays.
DeleteTrace ==
  /\ traces # "NONE"
  /\ traces' \in {"SOME", "NONE"} \ {traces}
  /\ UNCHANGED <<type, stage, listed, calls, system, written>>

\* Without all its traces the pair leaves every analysis, but for a comparison that lists it, where
\* one of them is enough once the matcher has decided.
InScope(a) ==
  IF IsComparison(type[a])
    THEN listed[a] /\ (traces = "ALL" \/ (traces = "SOME" /\ system # NoRow))
    ELSE traces = "ALL" /\ system \notin {NoRow, "NEGATIVE"}

\* examination.disputed: the first two examiners of c decided differently.
Disputed(c) ==
  /\ c["VERIFICATOR"] # NoRow /\ c["REVIEWER"] # NoRow
  /\ c["VERIFICATOR"] # c["REVIEWER"]

StepOf(s) == CASE s = "EXAMINATION" -> "VERIFICATOR" [] s = "VERIFICATION" -> "REVIEWER"
               [] OTHER -> "INCONSISTENCE"

\* Fault: the third examiner is given the pair even when nobody disputes it.
DecidesAlways(a) == InScope(a)

\* The step submitted decides this pair.
Decides(a) == InScope(a) /\ (stage[a] = "INCONSISTENCE" => Disputed(calls[a]))

\* Fault: a graded conclusion is recorded by its decision alone.
RecordedUngraded(a, c) ==
  IF Decides(a) THEN [calls EXCEPT ![a][StepOf(stage[a])] = [c EXCEPT !.level = ""]] ELSE calls

\* The decisions with call c on record for the active step of analysis a.
Recorded(a, c) == IF Decides(a) THEN [calls EXCEPT ![a][StepOf(stage[a])] = c] ELSE calls

\* The active step of analysis a is submitted, with call c if it decides this pair; what the
\* other pairs came to may lead to any next stage this one does not rule out.
Submit(a, c) ==
  /\ stage[a] # "REPORT"
  /\ calls' = Recorded(a, c)
  /\ \E next \in Stages :
       /\ CASE stage[a] = "EXAMINATION"   -> next \in {"VERIFICATION"} \cup
                                               IF Decides(a) THEN {} ELSE {"REPORT"}
            [] stage[a] = "VERIFICATION"  -> next \in {"INCONSISTENCE"} \cup
                                               IF Decides(a) /\ Disputed(calls'[a]) THEN {} ELSE {"REPORT"}
            [] OTHER                      -> next = "REPORT"
       /\ stage' = [stage EXCEPT ![a] = next]
  /\ UNCHANGED <<type, listed, traces, system, written>>

DecisionsNext ==
  \/ \E d \in SystemDecisions : MatcherDecides(d)
  \/ \E t \in Types, lists \in BOOLEAN : Open(t, lists)
  \/ \E a \in Opened : AddPair(a)
  \/ DeleteTrace
  \/ \E a \in Opened : \E c \in CallsOf(type[a]) : Submit(a, c)

DecisionsSpec == DecisionsInit /\ [][DecisionsNext]_decisionsVars

-----------------------------------------------------------------------------
(* Properties.                                                             *)

SettledByPeople(d) == d.status \in SettledStatus /\ d.by # "SYSTEM"

\* The second examiner decided the pair and the first did not: it came into the analysis between
\* the two (a new candidate, or AddPairs).
HalfDecided(c) == c["VERIFICATOR"] = NoRow /\ c["REVIEWER"] # NoRow

\* "The pair keeps the outcome of its latest *settled* round" (DecidingRound), whichever order
\* its rounds' rows came in: the loop's answer against its definition.
DecidingIsLatestSettled ==
  LET settled == {r \in Rounds : RoundOutcome(r).status \in SettledStatus}
  IN  Rounds # {} =>
        /\ DecidingRound.round = IF settled # {} THEN Max(settled) ELSE Max(Rounds)
        /\ DecidingRound.status = RoundOutcome(DecidingRound.round).status

\* The two packages that judge whether examiners disagree -- examination, to call a third one,
\* and cluster, to say what the pair's status is -- judge alike in every round.
DisputesAgree ==
  \A a \in Opened :
    /\ Disputed(calls[a]) /\ calls[a]["INCONSISTENCE"] = NoRow
         <=> DeriveRound(calls[a], system) = [status |-> "DISPUTED", by |-> "REVIEWER"]
    /\ calls[a]["INCONSISTENCE"] # NoRow => Disputed(calls[a])

\* What people settled, only people unsettle, and only in a later round: no threshold version,
\* and no round of fewer people, takes a pair into or out of the forensic views.  The exception
\* is a round that its second examiner decided alone (OnlyPeopleUndo has none).
PeopleUndoUnlessHalfDecided ==
  [][LET d == DecidingRound
         e == DecidingRound'
     IN  SettledByPeople(d) /\ e.status # d.status
           => \/ SettledByPeople(e) /\ e.round > d.round
              \/ e.round \in Opened' /\ HalfDecided(calls'[e.round])]_decisionsVars

\* "A later round that is still pending, disputed, or ended inconclusive does not undo it"
\* (decision.go:67-69).
OnlyPeopleUndo ==
  [][LET d == DecidingRound
         e == DecidingRound'
     IN  SettledByPeople(d) /\ e.status # d.status => SettledByPeople(e) /\ e.round > d.round]_decisionsVars

\* The note beside a reviewed link says how its latest later comparison really stands: pending
\* only while that comparison is worked, disputed only over a disagreement that its third
\* examiner has not settled.  At its report it is pending for good where only one of its first
\* two examiners decided: the pair came in late, or lost a trace between the two.
LaterLaudoIsTrue ==
  Reviewed =>
    LET r     == DecidingRound.round
        later == {a \in Opened : a > r /\ calls[a] # Unmade /\ IsComparison(type[a])}
        last  == Max(later)
    IN  /\ later = {} <=> LaterLaudo(r) = "NONE"
        /\ LaterLaudo(r) = "PENDING" =>
             \/ stage[last] # "REPORT"
             \/ HalfDecided(calls[last])
             \/ traces # "ALL" /\ calls[last]["REVIEWER"] = NoRow
        /\ LaterLaudo(r) = "DISPUTED" => Disputed(calls[last])
        /\ LaterLaudo(r) = "INCONCLUSIVE" =>
             stage[last] \in {"INCONSISTENCE", "REPORT"} /\ ~Disputed(calls[last])
=============================================================================
