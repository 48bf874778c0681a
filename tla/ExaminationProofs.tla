-------------------------- MODULE ExaminationProofs --------------------------
(***************************************************************************)
(* Theorems about Examination, for any examiners, pairs, calls and bounds. *)
(*                                                                         *)
(* One inductive invariant carries them all.  Its parts say what each lock *)
(* protects (CaseLockInv, HolderInv), which steps have decisions at which  *)
(* stage (DecisionsInv), what a comparison's pairs add (ComparisonInv) and *)
(* how the report ends the analysis (ReportInv).                           *)
(***************************************************************************)
EXTENDS Examination, TLAPS

Decided(s, p) == decisions[s][p] # NoRow

\* While a Submit holds the case's lock nobody else moves the stage, and what it read is what it
\* has to decide.
CaseLockInv ==
  submit # NoRow =>
    /\ submit.stage = stage
    /\ stage # "REPORT"
    /\ submit.read => \A p \in Pairs :
         /\ stage = "INCONSISTENCE" /\ submit.calls[p] # NoRow => Disputed(decisions, p)
         /\ Comparison /\ p \in listed /\ Whole(p)
                /\ (stage = "INCONSISTENCE" => Disputed(decisions, p)) => submit.calls[p] # NoRow
         /\ Comparison /\ submit.calls[p] # NoRow => p \in listed

\* A step is held, or about to be, only once its stage has come; and the assignment in flight is
\* of somebody who still holds no other step.
HolderInv ==
  /\ holder["REVIEWER"] # NoUser => stage # "EXAMINATION"
  /\ holder["INCONSISTENCE"] # NoUser => stage \in {"INCONSISTENCE", "REPORT"}
  /\ assign # NoRow =>
       /\ assign.step = "REVIEWER" => stage # "EXAMINATION"
       /\ assign.step = "INCONSISTENCE" => stage \in {"INCONSISTENCE", "REPORT"}
       /\ assign.user # NoUser => \A s \in Steps : s # assign.step => holder[s] # assign.user
  /\ OneStepPerPerson

\* No step has decided anything before its stage is over.
DecisionsInv ==
  /\ \A p \in Pairs :
       /\ Decided("VERIFICATOR", p) => stage # "EXAMINATION"
       /\ Decided("REVIEWER", p) => stage \in {"INCONSISTENCE", "REPORT"}
       /\ Decided("INCONSISTENCE", p) => stage = "REPORT"
  /\ InconsistenceOnlyOnDispute

\* The second examiner of a comparison decides all that the first did, the third all that the
\* two dispute, but for the pairs that lost a trace.
ComparisonInv ==
  Comparison =>
    \A p \in Pairs :
      /\ Decided("VERIFICATOR", p) => p \in listed
      /\ stage \in {"INCONSISTENCE", "REPORT"} /\ Decided("VERIFICATOR", p) /\ Whole(p)
           => Decided("REVIEWER", p)
      /\ stage = "REPORT" /\ Disputed(decisions, p) /\ Whole(p) => Decided("INCONSISTENCE", p)

\* The analysis is closed exactly when its report is issued, and only from the last stage.
ReportInv ==
  /\ status = "CLOSED" <=> issuedBy # NoUser
  /\ status = "CLOSED" \/ issuing # {} => stage = "REPORT"

IInv == TypeOK /\ CaseLockInv /\ HolderInv /\ DecisionsInv /\ ComparisonInv /\ ReportInv

-----------------------------------------------------------------------------
(* Type correctness.                                                       *)

\* Every stage has a step that works it.
LEMMA ActiveStepType == \A s \in Stages : ActiveStep(s) \in Steps
  BY DEF ActiveStep, Stages, Steps

LEMMA TypeInit == Init => TypeOK
  BY ConstantsOK DEF Init, TypeOK, Stages, NoRows

\* Every handler's step keeps the tables and the in-flight reads well typed.
LEMMA TypeStep == TypeOK /\ [Next]_vars => TypeOK'
<1> SUFFICES ASSUME TypeOK, [Next]_vars PROVE TypeOK'
  OBVIOUS
<1> USE DEF TypeOK, tables, counters, inFlight
<1>1. ASSUME NEW u \in Users, NEW p \in Pairs, NEW c \in Calls, SaveDraftCheck(u, p, c)
      PROVE  TypeOK'
  <2>1. [user |-> u, step |-> ActiveStep(stage), pair |-> p, call |-> c] \in Save
    BY ActiveStepType DEF Save
  <2>2. QED
    BY <1>1, <2>1 DEF SaveDraftCheck
<1>2. ASSUME NEW s \in saves, SaveDraftUpsert(s) PROVE TypeOK'
  <2>1. s \in Save /\ [call |-> s.call, by |-> s.user] \in Draft
    BY DEF Save, Draft
  <2>2. drafts' \in [Steps -> [Pairs -> Draft \cup {NoRow}]]
    BY <1>2, <2>1 DEF SaveDraftUpsert, Save
  <2>3. QED
    BY <1>2, <2>2 DEF SaveDraftUpsert
<1>3. ASSUME NEW u \in Users, SubmitLock(u) PROVE TypeOK'
  BY <1>3 DEF SubmitLock, Submission, NoRows
<1>4. CASE SubmitRead
  <2>1. submit \in Submission
    BY <1>4 DEF SubmitRead
  <2>2. \A p \in StepScope(ActiveStep(submit.stage)) :
          p \in Pairs => drafts[ActiveStep(submit.stage)][p].call \in Calls
    <3>1. ActiveStep(submit.stage) \in Steps
      BY <2>1, ActiveStepType DEF Submission
    <3>2. QED
      BY <1>4, <3>1 DEF SubmitRead, Draft
  <2>3. submit' \in Submission
    BY <1>4, <2>1, <2>2 DEF SubmitRead, Submission
  <2>4. QED
    BY <1>4, <2>3 DEF SubmitRead
<1>5. CASE SubmitCommit
  <2>1. submit \in Submission /\ ActiveStep(submit.stage) \in Steps
    BY <1>5, ActiveStepType DEF SubmitCommit, Submission
  <2>2. decisions' \in [Steps -> [Pairs -> Decision \cup {NoRow}]]
    BY <1>5, <2>1 DEF SubmitCommit, Submission, Decision
  <2>3. drafts' \in [Steps -> [Pairs -> Draft \cup {NoRow}]]
    BY <1>5, <2>1 DEF SubmitCommit, NoRows
  <2>4. stage' \in Stages
    BY <1>5 DEF SubmitCommit, NextStage, Stages
  <2>5. QED
    BY <1>5, <2>2, <2>3, <2>4 DEF SubmitCommit
<1>6. CASE SubmitRollback
  BY <1>6 DEF SubmitRollback
<1>7. ASSUME NEW u \in Users \cup {NoUser}, AssignCheck(u) \/ DistributePlan(u) PROVE TypeOK'
  <2>1. assign' \in Handover
    <3>1. \A d \in BOOLEAN : [step |-> ActiveStep(stage), user |-> u, discard |-> d] \in Handover
      BY ActiveStepType DEF Handover
    <3>2. QED
      BY <1>7, <3>1 DEF AssignCheck, DistributePlan
  <2>2. QED
    BY <1>7, <2>1 DEF AssignCheck, DistributePlan
<1>8. CASE AssignCommit
  BY <1>8 DEF AssignCommit, Handover, NoRows
<1>9. CASE (\E ps \in SUBSET Pairs : AddPairsCheck(ps)) \/ AddPairsCommit \/ AddPairsRollback
  BY <1>9 DEF AddPairsCheck, AddPairsCommit, AddPairsRollback
<1>10. CASE \E t \in Traces : DeleteTrace(t)
  BY <1>10 DEF DeleteTrace
<1>11. ASSUME NEW p \in Pairs, SyncDecides(p) \/ BulkApplies(p) PROVE TypeOK'
  BY <1>11 DEF SyncDecides, BulkApplies
<1>12. ASSUME NEW u \in Users, IssueCheck(u) \/ IssueCommit(u) \/ IssueRollback(u)
       PROVE  TypeOK'
  BY <1>12 DEF IssueCheck, IssueCommit, IssueRollback
<1>13. CASE UNCHANGED vars
  BY <1>13 DEF vars
<1>14. QED
  BY <1>1, <1>2, <1>3, <1>4, <1>5, <1>6, <1>7, <1>8, <1>9, <1>10, <1>11, <1>12, <1>13 DEF Next

\* The tables, and what the handlers carry between their steps, are always well typed.
THEOREM TypeCorrect == Spec => []TypeOK
  BY TypeInit, TypeStep, PTL DEF Spec

-----------------------------------------------------------------------------
(* What one step of Submit does to the decisions.                          *)

\* A commit records the calls it carries in the step of its stage, and nothing else.
LEMMA Recorded ==
  ASSUME TypeOK, SubmitCommit, NEW p \in Pairs
  PROVE  LET step == ActiveStep(submit.stage)
         IN  /\ submit \in Submission /\ step \in Steps
             /\ submit.calls[p] # NoRow =>
                  /\ decisions[step][p] = NoRow
                  /\ decisions'[step][p] # NoRow
                  /\ decisions'[step][p].call = submit.calls[p]
             /\ submit.calls[p] = NoRow => decisions'[step][p] = decisions[step][p]
             /\ \A s \in Steps : s # step => decisions'[s] = decisions[s]
             /\ stage' = NextStage(submit.stage, {q \in Pairs : submit.calls[q] # NoRow}, decisions')
<1> DEFINE step == ActiveStep(submit.stage)
<1>1. submit \in Submission /\ step \in Steps
  BY ActiveStepType DEF TypeOK, SubmitCommit, Submission
<1>2. decisions' = [decisions EXCEPT ![step] =
                      [q \in Pairs |-> IF submit.calls[q] # NoRow
                                         THEN [call |-> submit.calls[q], by |-> submit.user]
                                         ELSE @[q]]]
  BY DEF SubmitCommit
<1>3. submit.calls[p] # NoRow => [call |-> submit.calls[p], by |-> submit.user] \in Decision
  BY <1>1 DEF Submission, Decision
<1>4. submit.calls[p] # NoRow => decisions[step][p] = NoRow
  BY DEF SubmitCommit
<1> HIDE DEF step
<1>5. decisions \in [Steps -> [Pairs -> Decision \cup {NoRow}]]
  BY DEF TypeOK
<1>6. /\ submit.calls[p] # NoRow => decisions'[step][p] = [call |-> submit.calls[p], by |-> submit.user]
      /\ submit.calls[p] = NoRow => decisions'[step][p] = decisions[step][p]
      /\ \A s \in Steps : s # step => decisions'[s] = decisions[s]
  BY <1>1, <1>2, <1>5
<1>7. stage' = NextStage(submit.stage, {q \in Pairs : submit.calls[q] # NoRow}, decisions')
  BY DEF SubmitCommit
<1>8. NoRow \notin Decision
  BY ConstantsOK
<1>9. QED
  BY <1>1, <1>3, <1>4, <1>6, <1>7, <1>8 DEF step

\* The reads that Submit makes are what it has to decide, each pair with its draft's call.
LEMMA ReadScope ==
  ASSUME TypeOK, SubmitRead, NEW p \in Pairs
  PROVE  /\ submit'.stage = submit.stage
         /\ submit'.calls[p] # NoRow <=> p \in StepScope(ActiveStep(submit.stage))
<1> DEFINE step == ActiveStep(submit.stage)
<1>1. submit \in Submission /\ step \in Steps
  BY ActiveStepType DEF TypeOK, SubmitRead, Submission
<1>2. submit'.stage = submit.stage
  BY <1>1 DEF SubmitRead, Submission
<1>3. submit'.calls[p] = IF p \in StepScope(step) THEN drafts[step][p].call ELSE NoRow
  BY <1>1 DEF SubmitRead, Submission
<1>4. p \in StepScope(step) => drafts[step][p] # NoRow
  BY DEF SubmitRead
<1> HIDE DEF step
<1>5. p \in StepScope(step) => drafts[step][p] \in Draft
  BY <1>1, <1>4 DEF TypeOK
<1>6. p \in StepScope(step) => drafts[step][p].call \in Calls
  BY <1>5 DEF Draft
<1>7. QED
  BY <1>2, <1>3, <1>6, ConstantsOK DEF step

-----------------------------------------------------------------------------
(* The parts of the invariant, one lemma each.                             *)

\* Each table has one writer: only it can disturb a part that reads that table alone.
LEMMA Writers ==
  ASSUME [Next]_vars
  PROVE  /\ SubmitCommit \/ UNCHANGED <<stage, decisions>>
         /\ AddPairsCommit \/ UNCHANGED listed
         /\ (\E t \in Traces : DeleteTrace(t)) \/ UNCHANGED traces
         /\ AssignCommit \/ UNCHANGED holder
         /\ (\E u \in Users : IssueCommit(u)) \/ UNCHANGED <<status, issuedBy>>
         /\ (\E u \in Users : SubmitLock(u)) \/ SubmitRead \/ SubmitCommit \/ SubmitRollback
              \/ UNCHANGED submit
         /\ (\E u \in Users \cup {NoUser} : AssignCheck(u)) \/ (\E u \in Users : DistributePlan(u))
              \/ AssignCommit \/ UNCHANGED assign
         /\ (\E u \in Users : IssueCheck(u) \/ IssueCommit(u) \/ IssueRollback(u))
              \/ UNCHANGED issuing
<1> USE DEF tables, counters, inFlight
<1>1. ASSUME NEW u \in Users, NEW p \in Pairs, NEW c \in Calls, SaveDraftCheck(u, p, c)
      PROVE  UNCHANGED <<stage, decisions, listed, traces, holder, status, issuedBy, submit, assign, issuing>>
  BY <1>1 DEF SaveDraftCheck
<1>2. ASSUME NEW s \in saves, SaveDraftUpsert(s)
      PROVE  UNCHANGED <<stage, decisions, listed, traces, holder, status, issuedBy, submit, assign, issuing>>
  BY <1>2 DEF SaveDraftUpsert
<1>3. (\E u \in Users : SubmitLock(u)) \/ SubmitRead \/ SubmitRollback =>
        UNCHANGED <<stage, decisions, listed, traces, holder, status, issuedBy, assign, issuing>>
  BY DEF SubmitLock, SubmitRead, SubmitRollback
<1>4. SubmitCommit => UNCHANGED <<listed, traces, holder, status, issuedBy, assign, issuing>>
  BY DEF SubmitCommit
<1>5. ASSUME NEW u \in Users \cup {NoUser}, AssignCheck(u) \/ DistributePlan(u)
      PROVE  UNCHANGED <<stage, decisions, listed, traces, holder, status, issuedBy, submit, issuing>>
  BY <1>5 DEF AssignCheck, DistributePlan
<1>6. AssignCommit => UNCHANGED <<stage, decisions, listed, traces, status, issuedBy, submit, issuing>>
  BY DEF AssignCommit
<1>7. ASSUME NEW ps \in SUBSET Pairs, AddPairsCheck(ps)
      PROVE  UNCHANGED <<stage, decisions, listed, traces, holder, status, issuedBy, submit, assign, issuing>>
  BY <1>7 DEF AddPairsCheck
<1>8. AddPairsCommit => UNCHANGED <<stage, decisions, traces, holder, status, issuedBy, submit, assign, issuing>>
  BY DEF AddPairsCommit
<1>9. AddPairsRollback \/ (\E t \in Traces : DeleteTrace(t)) =>
         UNCHANGED <<stage, decisions, listed, holder, status, issuedBy, submit, assign, issuing>>
  BY DEF AddPairsRollback, DeleteTrace
<1>10. AddPairsRollback => UNCHANGED traces
  BY DEF AddPairsRollback
<1>11. ASSUME NEW p \in Pairs, SyncDecides(p) \/ BulkApplies(p)
      PROVE  UNCHANGED <<stage, decisions, listed, traces, holder, status, issuedBy, submit, assign, issuing>>
  BY <1>11 DEF SyncDecides, BulkApplies
<1>12. ASSUME NEW u \in Users, IssueCheck(u) \/ IssueCommit(u) \/ IssueRollback(u)
       PROVE  UNCHANGED <<stage, decisions, listed, traces, holder, submit, assign>>
  BY <1>12 DEF IssueCheck, IssueCommit, IssueRollback
<1>13. ASSUME NEW u \in Users, IssueCheck(u) \/ IssueRollback(u)
       PROVE  UNCHANGED <<status, issuedBy>>
  BY <1>13 DEF IssueCheck, IssueRollback
<1>14. CASE UNCHANGED vars
  BY <1>14 DEF vars
<1>15. CASE Next
  BY <1>1, <1>2, <1>3, <1>4, <1>5, <1>6, <1>7, <1>8, <1>9, <1>10, <1>11, <1>12,
     <1>13, <1>15 DEF Next
<1>16. QED
  BY <1>14, <1>15

\* A pair that has lost a trace has lost it for good.
LEMMA WholeStep ==
  ASSUME [Next]_vars, NEW p \in Pairs
  PROVE  /\ Whole(p)' => Whole(p)
         /\ SubmitCommit \/ AddPairsCommit => (Whole(p)' <=> Whole(p))
<1>1. traces' \subseteq traces
  BY Writers DEF DeleteTrace
<1>2. SubmitCommit \/ AddPairsCommit => UNCHANGED traces
  BY DEF SubmitCommit, AddPairsCommit
<1>3. QED
  BY <1>1, <1>2 DEF Whole

\* The case's lock.
LEMMA CaseLockStep == ASSUME IInv, [Next]_vars PROVE CaseLockInv'
<1> USE DEF IInv, CaseLockInv
<1>1. ASSUME NEW u \in Users, SubmitLock(u) PROVE CaseLockInv'
  <2>1. submit'.stage = stage /\ submit'.read = FALSE
    BY <1>1 DEF SubmitLock
  <2>2. UNCHANGED stage /\ stage # "REPORT"
    BY <1>1 DEF SubmitLock, tables
  <2>3. QED
    BY <2>1, <2>2
<1>2. CASE SubmitRead
  <2>1. UNCHANGED <<stage, decisions, listed, traces>> /\ submit # NoRow
    BY <1>2 DEF SubmitRead, tables
  <2>2. submit.stage = stage /\ stage # "REPORT"
    BY <2>1
  <2>3. submit'.stage = submit.stage
    BY <1>2 DEF SubmitRead, TypeOK, Submission
  <2>4. stage = "INCONSISTENCE" <=> ActiveStep(stage) = "INCONSISTENCE"
    BY DEF ActiveStep, TypeOK, Stages
  <2>5. ASSUME NEW p \in Pairs
        PROVE  /\ stage = "INCONSISTENCE" /\ submit'.calls[p] # NoRow => Disputed(decisions, p)
               /\ Comparison /\ p \in listed /\ Whole(p)
                      /\ (stage = "INCONSISTENCE" => Disputed(decisions, p))
                    => submit'.calls[p] # NoRow
               /\ Comparison /\ submit'.calls[p] # NoRow => p \in listed
    <3>1. submit'.calls[p] # NoRow <=> p \in StepScope(ActiveStep(stage))
      BY <1>2, <2>2, ReadScope
    <3>2. QED
      BY <2>4, <3>1 DEF StepScope, Scope
  <2>6. QED
    BY <2>1, <2>2, <2>3, <2>5 DEF Disputed, Whole
<1>3. CASE SubmitCommit \/ SubmitRollback
  BY <1>3 DEF SubmitCommit, SubmitRollback
<1>4. CASE UNCHANGED submit /\ ~SubmitCommit
  <2>1. UNCHANGED <<stage, decisions>>
    BY <1>4, Writers
  <2>2. submit # NoRow => UNCHANGED listed
    BY Writers DEF AddPairsCommit
  <2>3. \A p \in Pairs : Whole(p)' => Whole(p)
    BY WholeStep
  <2>4. QED
    BY <1>4, <2>1, <2>2, <2>3 DEF Disputed
<1>5. QED
  BY <1>1, <1>2, <1>3, <1>4, Writers

\* A submit only ever moves the analysis forward.
LEMMA Forward ==
  ASSUME IInv, SubmitCommit
  PROVE  /\ submit \in Submission /\ submit.stage = stage /\ stage # "REPORT"
         /\ stage' # "EXAMINATION"
         /\ stage' = "VERIFICATION" => stage = "EXAMINATION"
         /\ stage' = "INCONSISTENCE" => stage = "VERIFICATION"
<1>1. submit \in Submission /\ submit.stage = stage /\ stage # "REPORT"
  BY DEF IInv, TypeOK, CaseLockInv, SubmitCommit
<1>2. QED
  BY <1>1 DEF SubmitCommit, NextStage

\* Who holds the steps.
LEMMA HolderStep == ASSUME IInv, [Next]_vars PROVE HolderInv'
<1> USE DEF IInv, HolderInv
<1>1. CASE SubmitCommit
  <2>1. UNCHANGED <<holder, assign>>
    BY <1>1 DEF SubmitCommit
  <2>2. /\ stage # "EXAMINATION" => stage' # "EXAMINATION"
        /\ stage \in {"INCONSISTENCE", "REPORT"} => stage' \in {"INCONSISTENCE", "REPORT"}
    BY <1>1, Forward, TypeStep DEF TypeOK, Stages
  <2>3. QED
    BY <2>1, <2>2 DEF OneStepPerPerson
<1>2. ASSUME NEW u \in Users \cup {NoUser}, AssignCheck(u) PROVE HolderInv'
  <2>1. UNCHANGED <<holder, stage>>
    BY <1>2 DEF AssignCheck, tables
  <2>2. assign' = [step |-> ActiveStep(stage), user |-> u, discard |-> TRUE]
    BY <1>2 DEF AssignCheck
  <2>3. u # NoUser => \A s \in Steps : holder[s] # u
    BY <1>2 DEF AssignCheck
  <2>4. /\ ActiveStep(stage) = "REVIEWER" => stage # "EXAMINATION"
        /\ ActiveStep(stage) = "INCONSISTENCE" => stage \in {"INCONSISTENCE", "REPORT"}
    BY DEF ActiveStep
  <2>5. assign'.step = ActiveStep(stage) /\ assign'.user = u
    BY <2>2
  <2>6. QED
    BY <2>1, <2>3, <2>4, <2>5 DEF OneStepPerPerson
<1>3. ASSUME NEW u \in Users, DistributePlan(u) PROVE HolderInv'
  <2>1. UNCHANGED <<holder, stage>> /\ stage # "REPORT"
    BY <1>3 DEF DistributePlan, tables
  <2>2. assign' = [step |-> ActiveStep(stage), user |-> u, discard |-> FALSE]
    BY <1>3 DEF DistributePlan
  <2>3. assign'.step = ActiveStep(stage) /\ assign'.user = u
    BY <2>2
  <2>4. u # NoUser /\ u # holder["VERIFICATOR"] /\ u # holder["REVIEWER"]
    BY <1>3, ConstantsOK DEF DistributePlan
  <2>5. /\ ActiveStep(stage) = "REVIEWER" => stage # "EXAMINATION"
        /\ ActiveStep(stage) = "INCONSISTENCE" => stage \in {"INCONSISTENCE", "REPORT"}
        /\ ActiveStep(stage) # "INCONSISTENCE" => stage \notin {"INCONSISTENCE", "REPORT"}
    BY <2>1 DEF ActiveStep, TypeOK, Stages
  <2>6. \A s \in Steps : s # ActiveStep(stage) => holder[s] # u
    BY <2>4, <2>5 DEF Steps
  <2>7. QED
    BY <2>1, <2>3, <2>5, <2>6 DEF OneStepPerPerson
<1>4. CASE AssignCommit
  <2>1. UNCHANGED stage /\ assign' = NoRow /\ assign \in Handover /\ assign # NoRow
    BY <1>4 DEF AssignCommit, TypeOK
  <2>2. \A s \in Steps : holder'[s] = IF s = assign.step THEN assign.user ELSE holder[s]
    BY <1>4, <2>1 DEF AssignCommit, TypeOK
  <2>3. OneStepPerPerson'
    BY <2>1, <2>2 DEF OneStepPerPerson
  <2>4. /\ holder'["REVIEWER"] # NoUser => stage # "EXAMINATION"
        /\ holder'["INCONSISTENCE"] # NoUser => stage \in {"INCONSISTENCE", "REPORT"}
    BY <2>1, <2>2 DEF Steps
  <2>5. QED
    BY <2>1, <2>3, <2>4
<1>5. CASE UNCHANGED <<stage, holder, assign>>
  BY <1>5 DEF OneStepPerPerson
<1>6. QED
  BY <1>1, <1>2, <1>3, <1>4, <1>5, Writers

\* Which steps have decided, and the third one's pairs.
LEMMA DecisionsStep == ASSUME IInv, [Next]_vars PROVE DecisionsInv'
<1> USE DEF IInv, DecisionsInv, Decided
<1>1. CASE SubmitCommit
  <2> DEFINE step == ActiveStep(stage)
  <2>1. stage \in Stages /\ stage' \in Stages
    BY TypeStep DEF TypeOK
  <2>2. /\ stage = "EXAMINATION" => step = "VERIFICATOR"
        /\ stage = "VERIFICATION" => step = "REVIEWER"
        /\ stage = "INCONSISTENCE" => step = "INCONSISTENCE"
    BY DEF ActiveStep
  <2>3. ASSUME NEW p \in Pairs
        PROVE  /\ Decided("VERIFICATOR", p)' => stage' # "EXAMINATION"
               /\ Decided("REVIEWER", p)' => stage' \in {"INCONSISTENCE", "REPORT"}
               /\ Decided("INCONSISTENCE", p)' => stage' = "REPORT"
               /\ Decided("INCONSISTENCE", p)' => Disputed(decisions', p)
    <3>1. \A s \in Steps : s # step => decisions'[s] = decisions[s]
      BY <1>1, Forward, Recorded
    <3>2. submit.calls[p] = NoRow => decisions'[step][p] = decisions[step][p]
      BY <1>1, Forward, Recorded
    <3>3. CASE stage = "INCONSISTENCE"
      <4>1. stage' = "REPORT" /\ step = "INCONSISTENCE"
        BY <1>1, <2>1, <2>2, <3>3, Forward DEF Stages
      <4>2. submit.calls[p] # NoRow => Disputed(decisions, p)
        BY <1>1, <3>3 DEF CaseLockInv, SubmitCommit
      <4>3. Decided("INCONSISTENCE", p)' => Disputed(decisions, p)
        BY <3>2, <4>1, <4>2 DEF InconsistenceOnlyOnDispute
      <4>4. Disputed(decisions, p) => Disputed(decisions', p)
        BY <3>1, <4>1 DEF Disputed, Steps
      <4>5. QED
        BY <4>1, <4>3, <4>4
    <3>4. CASE stage = "VERIFICATION"
      <4>1. stage' \in {"INCONSISTENCE", "REPORT"}
        BY <1>1, <2>1, <3>4, Forward DEF Stages
      <4>2. ~Decided("INCONSISTENCE", p)'
        BY <2>2, <3>1, <3>4 DEF Steps
      <4>3. QED
        BY <4>1, <4>2
    <3>5. CASE stage = "EXAMINATION"
      <4>1. stage' # "EXAMINATION"
        BY <1>1, Forward
      <4>2. ~Decided("REVIEWER", p)' /\ ~Decided("INCONSISTENCE", p)'
        BY <2>2, <3>1, <3>5 DEF Steps
      <4>3. QED
        BY <4>1, <4>2
    <3>6. QED
      BY <1>1, <2>1, <3>3, <3>4, <3>5, Forward DEF Stages
  <2>4. QED
    BY <2>3 DEF InconsistenceOnlyOnDispute
<1>2. CASE UNCHANGED <<stage, decisions>>
  BY <1>2 DEF InconsistenceOnlyOnDispute, Disputed
<1>3. QED
  BY <1>1, <1>2, Writers

\* What a comparison's second and third examiners decide.
LEMMA ComparisonStep == ASSUME IInv, [Next]_vars PROVE ComparisonInv'
<1> SUFFICES ASSUME Comparison, NEW p \in Pairs
             PROVE  (/\ Decided("VERIFICATOR", p) => p \in listed
                     /\ stage \in {"INCONSISTENCE", "REPORT"} /\ Decided("VERIFICATOR", p) /\ Whole(p)
                          => Decided("REVIEWER", p)
                     /\ stage = "REPORT" /\ Disputed(decisions, p) /\ Whole(p)
                          => Decided("INCONSISTENCE", p))'
  BY DEF ComparisonInv
<1> USE DEF IInv, ComparisonInv, Decided
<1>0. Whole(p)' => Whole(p)
  BY WholeStep
<1>1. CASE SubmitCommit
  <2> DEFINE step == ActiveStep(stage)
  <2>1. stage \in Stages /\ stage' \in Stages /\ UNCHANGED listed
    BY <1>1, TypeStep DEF TypeOK, SubmitCommit
  <2>2. /\ stage = "EXAMINATION" => step = "VERIFICATOR"
        /\ stage = "VERIFICATION" => step = "REVIEWER"
        /\ stage = "INCONSISTENCE" => step = "INCONSISTENCE"
    BY DEF ActiveStep
  <2>3. \A s \in Steps : s # step => decisions'[s] = decisions[s]
    BY <1>1, Forward, Recorded
  <2>4. /\ submit.calls[p] # NoRow => decisions'[step][p] # NoRow
        /\ submit.calls[p] = NoRow => decisions'[step][p] = decisions[step][p]
    BY <1>1, Forward, Recorded
  <2>5. /\ Comparison /\ p \in listed /\ Whole(p)
               /\ (stage = "INCONSISTENCE" => Disputed(decisions, p)) => submit.calls[p] # NoRow
        /\ submit.calls[p] # NoRow => p \in listed
    BY <1>1 DEF CaseLockInv, SubmitCommit
  <2>6. stage' = NextStage(stage, {q \in Pairs : submit.calls[q] # NoRow}, decisions')
    BY <1>1, Forward, Recorded
  <2>7. CASE stage = "INCONSISTENCE"
    <3>1. UNCHANGED <<decisions["VERIFICATOR"], decisions["REVIEWER"]>>
      BY <2>2, <2>3, <2>7 DEF Steps
    <3>2. Disputed(decisions', p) => Disputed(decisions, p)
      BY <3>1 DEF Disputed
    <3>3. Disputed(decisions, p) /\ Whole(p) => Decided("INCONSISTENCE", p)'
      BY <2>2, <2>4, <2>5, <2>7 DEF Disputed
    <3>4. QED
      BY <1>0, <2>1, <2>7, <3>1, <3>2, <3>3
  <2>8. CASE stage = "VERIFICATION"
    <3>1. UNCHANGED decisions["VERIFICATOR"]
      BY <2>2, <2>3, <2>8 DEF Steps
    <3>2. Decided("VERIFICATOR", p) /\ Whole(p) => Decided("REVIEWER", p)'
      BY <2>2, <2>4, <2>5, <2>8
    <3>3. stage' = "REPORT" /\ submit.calls[p] # NoRow => ~Disputed(decisions', p)
      BY <2>6, <2>8 DEF NextStage
    <3>4. submit.calls[p] = NoRow => ~Disputed(decisions', p)
      BY <2>2, <2>4, <2>8 DEF Disputed, DecisionsInv
    <3>5. QED
      BY <1>0, <2>1, <3>1, <3>2, <3>3, <3>4
  <2>9. CASE stage = "EXAMINATION"
    <3>1. UNCHANGED decisions["REVIEWER"] /\ ~Decided("REVIEWER", p)
      BY <2>2, <2>3, <2>9 DEF Steps, DecisionsInv
    <3>2. Decided("VERIFICATOR", p)' => p \in listed
      BY <2>2, <2>4, <2>5, <2>9
    <3>3. stage' \in {"INCONSISTENCE", "REPORT"} => submit.calls[p] = NoRow
      BY <2>6, <2>9 DEF NextStage
    <3>4. ~Decided("VERIFICATOR", p)
      BY <2>9 DEF DecisionsInv
    <3>5. stage' \in {"INCONSISTENCE", "REPORT"} => ~Decided("VERIFICATOR", p)'
      BY <2>2, <2>4, <2>9, <3>3, <3>4
    <3>6. QED
      BY <2>1, <3>1, <3>2, <3>5 DEF Disputed
  <2>10. QED
    BY <1>1, <2>1, <2>7, <2>8, <2>9, Forward DEF Stages
<1>2. CASE AddPairsCommit
  BY <1>0, <1>2, Writers DEF AddPairsCommit, Disputed
<1>3. CASE UNCHANGED <<stage, decisions, listed>>
  BY <1>0, <1>3 DEF Disputed
<1>4. QED
  BY <1>1, <1>2, <1>3, Writers

\* How the report ends the analysis.
LEMMA ReportStep == ASSUME IInv, [Next]_vars PROVE ReportInv'
<1> USE DEF IInv, ReportInv
<1>1. CASE SubmitCommit
  <2>1. UNCHANGED <<status, issuedBy, issuing>>
    BY <1>1 DEF SubmitCommit
  <2>2. QED
    BY <1>1, <2>1, Forward
<1>2. ASSUME NEW u \in Users, IssueCheck(u) \/ IssueCommit(u) \/ IssueRollback(u)
      PROVE  ReportInv'
  <2>1. UNCHANGED stage
    BY <1>2 DEF IssueCheck, IssueCommit, IssueRollback, tables
  <2>2. stage = "REPORT"
    BY <1>2 DEF IssueCheck, IssueCommit, IssueRollback
  <2>3. \/ UNCHANGED <<status, issuedBy>>
        \/ status' = "CLOSED" /\ issuedBy' = u
    BY <1>2 DEF IssueCheck, IssueCommit, IssueRollback, tables
  <2>4. QED
    BY <2>1, <2>2, <2>3, ConstantsOK
<1>3. CASE UNCHANGED <<stage, status, issuedBy, issuing>>
  BY <1>3
<1>4. QED
  BY <1>1, <1>2, <1>3, Writers

-----------------------------------------------------------------------------
(* The theorems.                                                           *)

LEMMA IInvInit == Init => IInv
<1> SUFFICES ASSUME Init PROVE IInv
  OBVIOUS
<1> USE DEF Init
<1>1. HolderInv
  BY DEF HolderInv, OneStepPerPerson, Steps
<1>2. CaseLockInv /\ ReportInv
  BY ConstantsOK DEF CaseLockInv, ReportInv
<1>3. \A s \in Steps, p \in Pairs : ~Decided(s, p)
  BY DEF NoRows, Decided
<1>4. DecisionsInv /\ ComparisonInv
  BY <1>3 DEF DecisionsInv, ComparisonInv, InconsistenceOnlyOnDispute, Steps, Decided
<1>5. QED
  BY <1>1, <1>2, <1>4, TypeInit DEF IInv

LEMMA IInvStep == IInv /\ [Next]_vars => IInv'
  BY TypeStep, CaseLockStep, HolderStep, DecisionsStep, ComparisonStep, ReportStep DEF IInv

\* The inductive invariant holds in every reachable state.
THEOREM Inductive == Spec => []IInv
  BY IInvInit, IInvStep, PTL DEF Spec

\* However assignments, distributions and submits interleave, nobody ever holds two steps of
\* one analysis: what Target.StepOf and the blind verification rely on.
THEOREM HoldersDistinct == Spec => []OneStepPerPerson
<1>1. IInv => OneStepPerPerson
  BY DEF IInv, HolderInv
<1>2. QED
  BY <1>1, Inductive, PTL

\* A third examiner has only ever decided pairs that the first two decided differently.
THEOREM ThirdOnlyOnDispute == Spec => []InconsistenceOnlyOnDispute
<1>1. IInv => InconsistenceOnlyOnDispute
  BY DEF IInv, DecisionsInv
<1>2. QED
  BY <1>1, Inductive, PTL

\* At its report a comparison has settled every pair that its first examiner decided and the case
\* still has the traces of, whatever pairs were added and whatever traces deleted meanwhile.
THEOREM ComparisonSettles == Spec => []ExaminedPairsSettled
<1>1. IInv => ExaminedPairsSettled
  BY DEF IInv, ComparisonInv, ExaminedPairsSettled, Settled, Decided
<1>2. QED
  BY <1>1, Inductive, PTL

\* An issued report keeps its issuer and its analysis stays closed.
THEOREM IssuedForGood == Spec => IssuedStands
<1>1. IInv /\ [Next]_vars => [issuedBy # NoUser => issuedBy' = issuedBy /\ status' = "CLOSED"]_<<issuedBy, status>>
  <2> SUFFICES ASSUME IInv, [Next]_vars, issuedBy # NoUser
               PROVE  issuedBy' = issuedBy /\ status' = "CLOSED"
    OBVIOUS
  <2>1. UNCHANGED <<status, issuedBy>>
    BY Writers DEF IssueCommit
  <2>2. QED
    BY <2>1 DEF IInv, ReportInv
<1>2. QED
  BY <1>1, Inductive, PTL DEF Spec, IssuedStands

-----------------------------------------------------------------------------
(* Examination implements AnalysisRound.                                   *)

\* A commit puts the calls it carries on record, in a step that had none.
LEMMA CommitRecords ==
  ASSUME IInv, SubmitCommit
  PROVE  LET step == ActiveStep(stage)
         IN  /\ step \in Steps /\ stage \in Stages
             /\ submit.calls \in [Pairs -> Calls \cup {NoRow}]
             /\ CallsOnRecord[step] = Round!Blank
             /\ CallsOnRecord' = [CallsOnRecord EXCEPT ![step] = submit.calls]
             /\ status = "OPEN" /\ UNCHANGED status
<1> DEFINE step == ActiveStep(stage)
<1>1. /\ submit \in Submission /\ submit.stage = stage /\ stage # "REPORT"
      /\ step \in Steps /\ stage \in Stages
  BY Forward, ActiveStepType DEF IInv, TypeOK
<1>2. submit.calls \in [Pairs -> Calls \cup {NoRow}]
  BY <1>1 DEF Submission
<1>3. status = "OPEN" /\ UNCHANGED status
  BY <1>1 DEF IInv, ReportInv, TypeOK, SubmitCommit
<1>4. \A p \in Pairs : decisions[step][p] = NoRow
  BY <1>1 DEF IInv, DecisionsInv, Decided, ActiveStep, Stages
<1>5. CallsOnRecord[step] = Round!Blank
  BY <1>1, <1>4 DEF CallsOnRecord, Round!Blank
<1>6. ASSUME NEW s \in Steps PROVE CallsOnRecord'[s] = [CallsOnRecord EXCEPT ![step] = submit.calls][s]
  <2>1. CASE s # step
    <3>1. CallsOnRecord'[s] = [p \in Pairs |-> IF decisions'[s][p] = NoRow THEN NoRow ELSE decisions'[s][p].call]
      BY DEF CallsOnRecord
    <3>2. ASSUME NEW p \in Pairs PROVE decisions'[s][p] = decisions[s][p]
      BY <1>1, <2>1, Recorded DEF IInv
    <3>3. QED
      BY <2>1, <3>1, <3>2 DEF CallsOnRecord
  <2>2. CASE s = step
    <3>1. CallsOnRecord'[step] = [p \in Pairs |-> IF decisions'[step][p] = NoRow THEN NoRow ELSE decisions'[step][p].call]
      BY <1>1 DEF CallsOnRecord
    <3>2. ASSUME NEW p \in Pairs
          PROVE  (IF decisions'[step][p] = NoRow THEN NoRow ELSE decisions'[step][p].call) = submit.calls[p]
      BY <1>1, <1>4, Recorded DEF IInv
    <3>3. CallsOnRecord'[step] = submit.calls
      BY <1>2, <3>1, <3>2
    <3>4. QED
      BY <1>1, <2>2, <3>3 DEF CallsOnRecord
  <2>3. QED
    BY <2>1, <2>2
<1>7. CallsOnRecord' = [CallsOnRecord EXCEPT ![step] = submit.calls]
  BY <1>6 DEF CallsOnRecord
<1>8. QED
  BY <1>1, <1>2, <1>3, <1>5, <1>7

\* A pair is disputed in the decisions exactly when it is disputed in the calls on record.
LEMMA DisputedSame ==
  ASSUME TypeOK, NEW p \in Pairs
  PROVE  Disputed(decisions, p) <=> Round!DisputedOnRecord(CallsOnRecord, p)
<1>1. \A s \in Steps : /\ decisions[s][p] = NoRow => CallsOnRecord[s][p] = NoRow
                       /\ decisions[s][p] # NoRow => /\ CallsOnRecord[s][p] # NoRow
                                                    /\ CallsOnRecord[s][p] = decisions[s][p].call
  BY ConstantsOK DEF CallsOnRecord, TypeOK, Decision
<1>2. QED
  BY <1>1 DEF Disputed, Round!DisputedOnRecord, Steps

\* Every handler's step is a step of the round of examination, or changes nothing it tells.
LEMMA RoundStep == IInv /\ [Next]_vars => [Round!RoundNext]_(Round!roundVars)
<1> SUFFICES ASSUME IInv, [Next]_vars PROVE [Round!RoundNext]_(Round!roundVars)
  OBVIOUS
<1>1. CASE SubmitCommit
  <2> DEFINE step  == ActiveStep(stage)
             calls == submit.calls
  <2>1. /\ step \in Steps /\ stage \in Stages
        /\ calls \in [Pairs -> Calls \cup {NoRow}]
        /\ CallsOnRecord[step] = Round!Blank
        /\ CallsOnRecord' = [CallsOnRecord EXCEPT ![step] = calls]
        /\ status = "OPEN" /\ UNCHANGED status
    BY <1>1, CommitRecords
  <2>2. Round!Records(step, calls)
    BY <2>1 DEF Round!Records
  <2>3. stage' = NextStage(stage, {q \in Pairs : calls[q] # NoRow}, decisions') /\ stage # "REPORT"
    BY <1>1, Forward DEF SubmitCommit
  <2>4. \A p \in Pairs : Disputed(decisions', p) <=> Round!DisputedOnRecord(CallsOnRecord', p)
    <3>1. TypeOK'
      BY TypeStep DEF IInv
    <3>2. \A p \in Pairs, s \in Steps :
            /\ decisions'[s][p] = NoRow => CallsOnRecord'[s][p] = NoRow
            /\ decisions'[s][p] # NoRow => /\ CallsOnRecord'[s][p] # NoRow
                                           /\ CallsOnRecord'[s][p] = decisions'[s][p].call
      BY <3>1, ConstantsOK DEF CallsOnRecord, TypeOK, Decision
    <3>3. QED
      BY <3>2 DEF Disputed, Round!DisputedOnRecord, Steps
  <2>5. CASE stage = "EXAMINATION"
    <3>1. {q \in Pairs : calls[q] # NoRow} = {} <=> calls = Round!Blank
      BY <2>1 DEF Round!Blank
    <3>2. Round!Examine(calls)
      BY <2>2, <2>3, <2>5, <3>1 DEF Round!Examine, NextStage, ActiveStep
    <3>3. QED
      BY <2>1, <3>2 DEF Round!RoundNext
  <2>6. CASE stage = "VERIFICATION"
    <3>1. \A p \in Pairs : Disputed(decisions', p) => calls[p] # NoRow
      <4>1. step = "REVIEWER"
        BY <2>6 DEF ActiveStep
      <4>2. \A p \in Pairs : CallsOnRecord'["REVIEWER"][p] = calls[p]
        BY <2>1, <4>1 DEF CallsOnRecord
      <4>3. QED
        BY <2>4, <4>2 DEF Round!DisputedOnRecord
    <3>2. Round!Verify(calls)
      BY <2>2, <2>3, <2>4, <2>6, <3>1 DEF Round!Verify, NextStage, ActiveStep
    <3>3. QED
      BY <2>1, <3>2 DEF Round!RoundNext
  <2>7. CASE stage = "INCONSISTENCE"
    <3>1. \A p \in Pairs : calls[p] # NoRow => Round!DisputedOnRecord(CallsOnRecord, p)
      BY <1>1, <2>7, DisputedSame DEF IInv, CaseLockInv, SubmitCommit
    <3>2. Round!Resolve(calls)
      BY <2>2, <2>3, <2>7, <3>1 DEF Round!Resolve, NextStage, ActiveStep
    <3>3. QED
      BY <2>1, <3>2 DEF Round!RoundNext
  <2>8. QED
    BY <2>1, <2>3, <2>5, <2>6, <2>7 DEF Stages
<1>2. ASSUME NEW u \in Users, IssueCommit(u) PROVE [Round!RoundNext]_(Round!roundVars)
  <2>1. status = "OPEN" /\ stage = "REPORT" /\ status' = "CLOSED"
    BY <1>2 DEF IssueCommit, IInv, ReportInv, TypeOK
  <2>2. UNCHANGED <<stage, CallsOnRecord>>
    BY <1>2 DEF IssueCommit, CallsOnRecord
  <2>3. QED
    BY <2>1, <2>2 DEF Round!RoundNext, Round!Conclude
<1>3. CASE UNCHANGED <<status, stage, decisions>>
  BY <1>3 DEF Round!roundVars, CallsOnRecord
<1>4. QED
  BY <1>1, <1>2, <1>3, Writers

\* The handlers with their locks, drafts and reassignments implement the round of examination
\* that the migration describes: each step records all its calls at once, in its own stage, once.
THEOREM Refinement == Spec => ImplementsRound
<1>1. Init => Round!RoundInit
  BY DEF Init, Round!RoundInit, Round!Blank, CallsOnRecord, NoRows, Steps
<1>2. QED
  BY <1>1, RoundStep, Inductive, PTL DEF Spec, ImplementsRound, Round!RoundSpec

=============================================================================
