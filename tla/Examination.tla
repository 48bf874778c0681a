----------------------------- MODULE Examination -----------------------------
(***************************************************************************)
(* One analysis of a biometric case, worked by examiners: distribution of  *)
(* its steps, draft decisions, submitting a step, adding pairs, the        *)
(* matcher's decisions that make a review's pairs, the deletion of traces  *)
(* that pairs are made of, and issuing the report.                         *)
(*                                                                         *)
(* The tables are variables.  A handler that reads, decides and then       *)
(* writes is two actions or more, with its reads kept in an "in flight"    *)
(* variable between them; what its lock excludes is in the guards:         *)
(*   - the case's row lock is held while submit # NoRow, and for the       *)
(*     instant of AddPairsCommit;                                          *)
(*   - the distribution lock is held while assign # NoRow.                 *)
(* A call is the decision with its conclusion level: the code compares     *)
(* calls and does nothing else with them here.                             *)
(***************************************************************************)
EXTENDS Naturals, FiniteSets

CONSTANTS
  Users,          \* the active examiners of the analysis's modality
  NoUser,         \* nobody: an unassigned step
  Traces,         \* the case's traces
  Pairs,          \* the pairs that may come to be examined
  TracesOf,       \* TracesOf[p]: the traces that pair p is made of, two, or one beside a person's file
  Proposals,      \* the sets of pairs the matcher may have proposed when the analysis is opened
  Calls,          \* what an examiner can conclude on a pair
  NoRow,          \* no row in the table; no handler in flight
  Comparison,     \* Type.Comparison(): the pairs are listed, not the matcher's
  MaxAssignments, \* bound on analysis_assignments rows
  MaxMatches,     \* bound on SYSTEM rows the matcher adds
  MaxSaves        \* bound on SaveDraft calls in flight at once

Stages == {"EXAMINATION", "VERIFICATION", "INCONSISTENCE", "REPORT"}
Steps  == {"VERIFICATOR", "REVIEWER", "INCONSISTENCE"}

Draft      == [call : Calls, by : Users]
Decision   == [call : Calls, by : Users]
Save       == [user : Users, step : Steps, pair : Pairs, call : Calls]
Submission == [user : Users, stage : Stages, read : BOOLEAN,
               calls : [Pairs -> Calls \cup {NoRow}]]
Handover   == [step : Steps, user : Users \cup {NoUser}, discard : BOOLEAN]

ASSUME ConstantsOK ==
  /\ NoUser \notin Users
  /\ NoRow \notin Calls \cup Decision \cup Submission \cup Handover
  /\ TracesOf \in [Pairs -> SUBSET Traces]
  /\ Proposals \subseteq SUBSET Pairs
  /\ Comparison \in BOOLEAN
  /\ MaxAssignments \in Nat /\ MaxMatches \in Nat /\ MaxSaves \in Nat

VARIABLES
  status,      \* case_analyses.status
  stage,       \* case_analyses.stage
  listed,      \* case_analysis_pairs: a comparison's pairs
  system,      \* the latest SYSTEM decision of each pair
  traces,      \* case_traces: those not deleted
  holder,      \* current_analysis_assignments: who holds each step
  drafts,      \* analysis_decision_drafts
  decisions,   \* biometric_decisions of this analysis
  issuedBy,    \* analysis_reports.issued_by; NoUser while the report is a draft
  assignments, \* how many analysis_assignments rows were written
  matches,     \* how many SYSTEM rows were written
  saves,       \* SaveDraft calls that passed their checks
  submit,      \* the Submit holding the case's lock
  assign,      \* the Assign or Distribute holding the distribution lock
  adding,      \* pairs of an AddPairs that passed its checks
  issuing      \* users whose IssueReport passed CanWork

tables   == <<status, stage, listed, system, traces, holder, drafts, decisions, issuedBy>>
counters == <<assignments, matches>>
inFlight == <<saves, submit, assign, adding, issuing>>
vars     == <<tables, counters, inFlight>>

TypeOK ==
  /\ status \in {"OPEN", "CLOSED"}
  /\ stage \in Stages
  /\ listed \subseteq Pairs
  /\ system \in [Pairs -> {"NONE", "CANDIDATE", "NEGATIVE"}]
  /\ traces \subseteq Traces
  /\ holder \in [Steps -> Users \cup {NoUser}]
  /\ drafts \in [Steps -> [Pairs -> Draft \cup {NoRow}]]
  /\ decisions \in [Steps -> [Pairs -> Decision \cup {NoRow}]]
  /\ issuedBy \in Users \cup {NoUser}
  /\ assignments \in Nat /\ matches \in Nat
  /\ saves \subseteq Save
  /\ submit \in Submission \cup {NoRow}
  /\ assign \in Handover \cup {NoRow}
  /\ adding \subseteq Pairs
  /\ issuing \subseteq Users

-----------------------------------------------------------------------------
(* What the handlers read.                                                 *)

\* The step whose examiner works stage s; at REPORT, the first examiner's.
ActiveStep(s) == CASE s = "VERIFICATION"  -> "REVIEWER"
                   [] s = "INCONSISTENCE" -> "INCONSISTENCE"
                   [] OTHER               -> "VERIFICATOR"

\* inScope: the case has every trace that p is made of.
Whole(p) == TracesOf[p] \subseteq traces

\* The analysis's pairs: those listed, or the matcher's standing candidates, whose traces are there.
\* One of its traces is enough for a listed pair that the matcher has decided.
Scope ==
  IF Comparison
    THEN {p \in listed : Whole(p) \/ (system[p] # "NONE" /\ TracesOf[p] \cap traces # {})}
    ELSE {p \in Pairs : Whole(p) /\ system[p] = "CANDIDATE"}

\* The first two examiners decided p differently, in the decisions d.
Disputed(d, p) ==
  /\ d["VERIFICATOR"][p] # NoRow
  /\ d["REVIEWER"][p] # NoRow
  /\ d["VERIFICATOR"][p].call # d["REVIEWER"][p].call

\* Fault: the third examiner is given every pair.
StepScopeUnnarrowed(step) == Scope

\* The pairs a step decides.
StepScope(step) ==
  IF step = "INCONSISTENCE" THEN {p \in Scope : Disputed(decisions, p)} ELSE Scope

CanWork(u) == status = "OPEN" /\ holder[ActiveStep(stage)] = u

\* Fault: one agreed pair is enough to call the two examiners agreed.
NextStageIfAllDisputed(from, ps, d) ==
  CASE from = "EXAMINATION" /\ ps # {} -> "VERIFICATION"
    [] from = "VERIFICATION" /\ ps # {} /\ (\A p \in ps : Disputed(d, p)) -> "INCONSISTENCE"
    [] OTHER -> "REPORT"

\* Fault: the step that comes next, where its stage is due.
NextStageStep(from, ps, d) ==
  CASE from = "EXAMINATION" /\ ps # {} -> "REVIEWER"
    [] from = "VERIFICATION" /\ (\E p \in ps : Disputed(d, p)) -> "INCONSISTENCE"
    [] OTHER -> "REPORT"

\* Where submitting the pairs ps at stage from leads, d being the decisions afterwards.
NextStage(from, ps, d) ==
  CASE from = "EXAMINATION" /\ ps # {} -> "VERIFICATION"
    [] from = "VERIFICATION" /\ (\E p \in ps : Disputed(d, p)) -> "INCONSISTENCE"
    [] OTHER -> "REPORT"

NoRows == [p \in Pairs |-> NoRow]

-----------------------------------------------------------------------------
(* An analysis just opened: a comparison with its pairs or none yet, a     *)
(* review over whatever the matcher has decided so far.                    *)

Init ==
  /\ status = "OPEN"
  /\ stage = "EXAMINATION"
  /\ listed \in IF Comparison THEN SUBSET Pairs ELSE {{}}
  /\ system \in {[p \in Pairs |-> IF p \in ps THEN "CANDIDATE" ELSE "NONE"] : ps \in Proposals}
  /\ traces = Traces
  /\ holder = [s \in Steps |-> NoUser]
  /\ drafts = [s \in Steps |-> NoRows]
  /\ decisions = [s \in Steps |-> NoRows]
  /\ issuedBy = NoUser
  /\ assignments = 0 /\ matches = 0
  /\ saves = {} /\ submit = NoRow /\ assign = NoRow /\ adding = {} /\ issuing = {}

-----------------------------------------------------------------------------
(* Draft decisions.  SaveDraft has no transaction and takes no lock: its   *)
(* upsert comes whenever it comes after its checks.                        *)

SaveDraftCheck(u, p, c) ==
  /\ Cardinality(saves) < MaxSaves
  /\ CanWork(u)
  /\ stage # "REPORT"
  /\ p \in StepScope(ActiveStep(stage))
  /\ saves' = saves \cup {[user |-> u, step |-> ActiveStep(stage), pair |-> p, call |-> c]}
  /\ UNCHANGED <<tables, counters, submit, assign, adding, issuing>>

SaveDraftUpsert(s) ==
  /\ drafts' = [drafts EXCEPT ![s.step][s.pair] = [call |-> s.call, by |-> s.user]]
  /\ saves' = saves \ {s}
  /\ UNCHANGED <<status, stage, listed, system, traces, holder, decisions, issuedBy, counters,
                 submit, assign, adding, issuing>>

-----------------------------------------------------------------------------
(* Submitting a step, under the case's lock: the analysis is read again    *)
(* once the lock is held, then the pairs and drafts, and the transaction   *)
(* writes at the end.  Distribution, saves and the matcher take another    *)
(* lock or none, and come in between.                                      *)

SubmitLock(u) ==
  /\ submit = NoRow
  /\ CanWork(u)
  /\ stage # "REPORT"
  /\ submit' = [user |-> u, stage |-> stage, read |-> FALSE, calls |-> NoRows]
  /\ UNCHANGED <<tables, counters, saves, assign, adding, issuing>>

\* Fault: the undecided pairs are left out instead of refused.
SubmitReadPartial ==
  /\ submit # NoRow /\ ~submit.read
  /\ LET step == ActiveStep(submit.stage)
     IN  submit' = [submit EXCEPT !.read = TRUE,
                      !.calls = [p \in Pairs |->
                                   IF p \in StepScope(step) /\ drafts[step][p] # NoRow
                                     THEN drafts[step][p].call ELSE NoRow]]
  /\ UNCHANGED <<tables, counters, saves, assign, adding, issuing>>

SubmitRead ==
  /\ submit # NoRow /\ ~submit.read
  /\ LET step == ActiveStep(submit.stage)
     IN  /\ \A p \in StepScope(step) : drafts[step][p] # NoRow
         /\ submit' = [submit EXCEPT !.read = TRUE,
                         !.calls = [p \in Pairs |->
                                      IF p \in StepScope(step)
                                        THEN drafts[step][p].call ELSE NoRow]]
  /\ UNCHANGED <<tables, counters, saves, assign, adding, issuing>>

\* The decisions are inserted (one row per pair, role and analysis), every draft of the step
\* goes, whoever saved it and whenever, and the stage is set.
SubmitCommit ==
  /\ submit # NoRow /\ submit.read
  /\ LET step == ActiveStep(submit.stage)
         ps   == {p \in Pairs : submit.calls[p] # NoRow}
     IN  /\ \A p \in ps : decisions[step][p] = NoRow
         /\ decisions' = [decisions EXCEPT ![step] =
                            [p \in Pairs |-> IF p \in ps
                                               THEN [call |-> submit.calls[p], by |-> submit.user]
                                               ELSE @[p]]]
         /\ drafts' = [drafts EXCEPT ![step] = NoRows]
         /\ stage' = NextStage(submit.stage, ps, decisions')
  /\ submit' = NoRow
  /\ UNCHANGED <<status, listed, system, traces, holder, issuedBy, counters, saves, assign, adding, issuing>>

\* IncompleteError, any other error, a cancelled request, a crash: nothing was written.
SubmitRollback ==
  /\ submit # NoRow
  /\ submit' = NoRow
  /\ UNCHANGED <<tables, counters, saves, assign, adding, issuing>>

-----------------------------------------------------------------------------
(* Distribution, under its own lock: the analysis is read, then the        *)
(* assignment of the step that was active at the read is written.          *)

\* Fault: only the holders of the first two steps are refused.
AssignCheckTwoSteps(u) ==
  /\ assign = NoRow /\ assignments < MaxAssignments
  /\ status = "OPEN"
  /\ u # holder[ActiveStep(stage)]
  /\ u # NoUser => u # holder["VERIFICATOR"] /\ u # holder["REVIEWER"]
  /\ assign' = [step |-> ActiveStep(stage), user |-> u, discard |-> TRUE]
  /\ UNCHANGED <<tables, counters, saves, submit, adding, issuing>>

\* A coordinator gives the active step to u, or takes it back to pending (NoUser).
AssignCheck(u) ==
  /\ assign = NoRow /\ assignments < MaxAssignments
  /\ status = "OPEN"
  /\ u # holder[ActiveStep(stage)]
  /\ u # NoUser => \A s \in Steps : holder[s] # u
  /\ assign' = [step |-> ActiveStep(stage), user |-> u, discard |-> TRUE]
  /\ UNCHANGED <<tables, counters, saves, submit, adding, issuing>>

\* Distribution gives a pending step to somebody who holds neither of the first two; which
\* of them depends on loads and on other analyses, so any of them may be the one.
DistributePlan(u) ==
  /\ assign = NoRow /\ assignments < MaxAssignments
  /\ status = "OPEN" /\ stage # "REPORT"
  /\ holder[ActiveStep(stage)] = NoUser
  /\ u \notin {holder["VERIFICATOR"], holder["REVIEWER"]}
  /\ assign' = [step |-> ActiveStep(stage), user |-> u, discard |-> FALSE]
  /\ UNCHANGED <<tables, counters, saves, submit, adding, issuing>>

\* The row is written and the lock released; a manual assignment discards the step's drafts.
AssignCommit ==
  /\ assign # NoRow
  /\ holder' = [holder EXCEPT ![assign.step] = assign.user]
  /\ drafts' = IF assign.discard THEN [drafts EXCEPT ![assign.step] = NoRows] ELSE drafts
  /\ assignments' = assignments + 1
  /\ assign' = NoRow
  /\ UNCHANGED <<status, stage, listed, system, traces, decisions, issuedBy, matches,
                 saves, submit, adding, issuing>>

-----------------------------------------------------------------------------
(* A comparison's pairs: the stage is checked before the case's lock is    *)
(* taken and not again.                                                    *)

AddPairsCheck(ps) ==
  /\ adding = {} /\ ps # {}
  /\ Comparison
  /\ status = "OPEN" /\ stage = "EXAMINATION"
  /\ adding' = ps
  /\ UNCHANGED <<tables, counters, saves, submit, assign, issuing>>

\* Under the lock every pair's traces are looked for once more (validPairs).
AddPairsCommit ==
  /\ adding # {}
  /\ submit = NoRow
  /\ \A p \in adding : Whole(p)
  /\ listed' = listed \cup adding
  /\ adding' = {}
  /\ UNCHANGED <<status, stage, system, traces, holder, drafts, decisions, issuedBy, counters,
                 saves, submit, assign, issuing>>

\* ErrInvalidPair, any other error: no pair is added.
AddPairsRollback ==
  /\ adding # {}
  /\ adding' = {}
  /\ UNCHANGED <<tables, counters, saves, submit, assign, issuing>>

-----------------------------------------------------------------------------
(* Traces are deleted at any stage, under no lock; the decisions and the   *)
(* listed pairs keep the features' ids and stay.                           *)

DeleteTrace(t) ==
  /\ t \in traces
  /\ traces' = traces \ {t}
  /\ UNCHANGED <<status, stage, listed, system, holder, drafts, decisions, issuedBy,
                 counters, inFlight>>

-----------------------------------------------------------------------------
(* The matcher: a sync decides a pair no SYSTEM row decides yet, a bulk    *)
(* apply of another threshold version changes its mind on one.             *)

SyncDecides(p) ==
  /\ matches < MaxMatches
  /\ system[p] = "NONE"
  /\ system' = [system EXCEPT ![p] = "CANDIDATE"]
  /\ matches' = matches + 1
  /\ UNCHANGED <<status, stage, listed, traces, holder, drafts, decisions, issuedBy,
                 assignments, inFlight>>

BulkApplies(p) ==
  /\ matches < MaxMatches
  /\ system[p] # "NONE"
  /\ system' = [system EXCEPT ![p] = IF @ = "CANDIDATE" THEN "NEGATIVE" ELSE "CANDIDATE"]
  /\ matches' = matches + 1
  /\ UNCHANGED <<status, stage, listed, traces, holder, drafts, decisions, issuedBy,
                 assignments, inFlight>>

-----------------------------------------------------------------------------
(* The report: who may issue is checked first, that it is still a draft    *)
(* once the numbering lock is held.  (Numbers and documents: ReportIssue.) *)

IssueCheck(u) ==
  /\ CanWork(u)
  /\ stage = "REPORT"
  /\ issuing' = issuing \cup {u}
  /\ UNCHANGED <<tables, counters, saves, submit, assign, adding>>

\* Fault: the report's status is not looked at again under the lock.
IssueCommitUnchecked(u) ==
  /\ u \in issuing
  /\ issuedBy' = u
  /\ status' = "CLOSED"
  /\ issuing' = issuing \ {u}
  /\ UNCHANGED <<stage, listed, system, traces, holder, drafts, decisions, counters,
                 saves, submit, assign, adding>>

IssueCommit(u) ==
  /\ u \in issuing
  /\ issuedBy = NoUser
  /\ issuedBy' = u
  /\ status' = "CLOSED"
  /\ issuing' = issuing \ {u}
  /\ UNCHANGED <<stage, listed, system, traces, holder, drafts, decisions, counters,
                 saves, submit, assign, adding>>

\* ErrNotDraft, a failing document, any other error: the transaction is rolled back.
IssueRollback(u) ==
  /\ u \in issuing
  /\ issuing' = issuing \ {u}
  /\ UNCHANGED <<tables, counters, saves, submit, assign, adding>>

-----------------------------------------------------------------------------
Next ==
  \/ \E u \in Users, p \in Pairs, c \in Calls : SaveDraftCheck(u, p, c)
  \/ \E s \in saves : SaveDraftUpsert(s)
  \/ \E u \in Users : SubmitLock(u)
  \/ SubmitRead
  \/ SubmitCommit
  \/ SubmitRollback
  \/ \E u \in Users \cup {NoUser} : AssignCheck(u)
  \/ \E u \in Users : DistributePlan(u)
  \/ AssignCommit
  \/ \E ps \in SUBSET Pairs : AddPairsCheck(ps)
  \/ AddPairsCommit
  \/ AddPairsRollback
  \/ \E t \in Traces : DeleteTrace(t)
  \/ \E p \in Pairs : SyncDecides(p) \/ BulkApplies(p)
  \/ \E u \in Users : IssueCheck(u) \/ IssueCommit(u) \/ IssueRollback(u)

Spec == Init /\ [][Next]_vars

-----------------------------------------------------------------------------
(* Properties.                                                             *)

\* "One person never holds two steps of one analysis" (007_analyses.sql; Target.StepOf relies
\* on it to tell a user's step).  Two handlers write assignments, each from an analysis it read
\* earlier, while submits move the stage between the read and the write.
OneStepPerPerson ==
  \A s, t \in Steps : s # t /\ holder[s] # NoUser => holder[s] # holder[t]

\* An INCONSISTENCE decision exists only where the REVIEWER and the VERIFICATOR disagree,
\* whatever the matcher did to the pairs meanwhile.
InconsistenceOnlyOnDispute ==
  \A p \in Pairs : decisions["INCONSISTENCE"][p] # NoRow => Disputed(decisions, p)

\* The two examiners agree on p, or a third has decided it.
Settled(p) ==
  \/ decisions["INCONSISTENCE"][p] # NoRow
  \/ /\ decisions["VERIFICATOR"][p] # NoRow
     /\ decisions["REVIEWER"][p] # NoRow
     /\ ~Disputed(decisions, p)

\* A comparison that reached its report has settled every pair its first examiner decided and the
\* case still has the traces of: none is left disputed, or verified by nobody, though pairs were
\* added and traces of other pairs deleted meanwhile.  A pair that lost a trace may have left the
\* scope before it was settled (ReportMeansSettled).
ExaminedPairsSettled ==
  Comparison /\ stage = "REPORT" =>
    \A p \in Pairs : decisions["VERIFICATOR"][p] # NoRow /\ Whole(p) => Settled(p)

\* Once a report is issued it keeps its issuer and the analysis stays closed, though two
\* examiners may have passed the check before the first of them issued it.
IssuedStands ==
  [][issuedBy # NoUser => issuedBy' = issuedBy /\ status' = "CLOSED"]_<<issuedBy, status>>

\* The analysis as AnalysisRound tells it: the decisions without their authors.
CallsOnRecord ==
  [s \in Steps |-> [p \in Pairs |->
     IF decisions[s][p] = NoRow THEN NoRow ELSE decisions[s][p].call]]

Round == INSTANCE AnalysisRound WITH record <- CallsOnRecord

\* The handlers, interleaved as they are, implement the round of examination.
ImplementsRound == Round!RoundSpec

\* "REPORT -- every pair settled" (007_analyses.sql:21): at its report an analysis has settled
\* every pair that any of its examiners decided.
ReportMeansSettled ==
  stage = "REPORT" =>
    \A p \in Pairs : (\E s \in Steps : decisions[s][p] # NoRow) => Settled(p)

\* "Drafts are only ever shown to the examiner holding the step, and a reassignment of the step
\* discards them" (007_analyses.sql:115-116): the drafts of a held step are its holder's.
DraftsAreTheHolders ==
  \A s \in Steps, p \in Pairs :
    drafts[s][p] # NoRow /\ holder[s] # NoUser => drafts[s][p].by = holder[s]

\* "Within the analysis only the holders of its other steps can have [worked on its pairs], and
\* they are excluded anyway" (distribution.go:221): who takes a step has decided no other of it.
NobodyDecidesTwice ==
  \A s, t \in Steps : \A p, q \in Pairs :
    s # t /\ decisions[s][p] # NoRow /\ decisions[t][q] # NoRow
      => decisions[s][p].by # decisions[t][q].by
=============================================================================
