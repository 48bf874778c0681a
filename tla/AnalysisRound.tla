---------------------------- MODULE AnalysisRound ----------------------------
(***************************************************************************)
(* What one analysis promises, told without people, locks or drafts: the   *)
(* stages of a round of examination and the calls each step puts on        *)
(* record.  Every step records all its calls at once and leaves its stage; *)
(* nothing is recorded outside the stage's own step, and no recorded call  *)
(* ever changes (src/db/migrations/007_analyses.sql, head comment).        *)
(* Examination implements this module.                                     *)
(***************************************************************************)
CONSTANTS Pairs,  \* the pairs of features an analysis may decide
          Calls,  \* what an examiner can conclude on a pair
          NoRow   \* "no row in the table"

VARIABLES status, \* "OPEN" or "CLOSED"
          stage,  \* the stage the analysis is at
          record  \* record[step][pair]: the call on record, or NoRow

roundVars == <<status, stage, record>>

Blank == [p \in Pairs |-> NoRow]

RoundInit ==
  /\ status = "OPEN"
  /\ stage = "EXAMINATION"
  /\ record = [s \in {"VERIFICATOR", "REVIEWER", "INCONSISTENCE"} |-> Blank]

DisputedOnRecord(r, p) ==
  /\ r["VERIFICATOR"][p] # NoRow
  /\ r["REVIEWER"][p] # NoRow
  /\ r["VERIFICATOR"][p] # r["REVIEWER"][p]

\* A step records its calls, one for each pair of a set, in one go.
Records(step, calls) ==
  /\ status = "OPEN"
  /\ record[step] = Blank
  /\ record' = [record EXCEPT ![step] = calls]
  /\ UNCHANGED status

\* The first examiner concludes; with nothing to decide there is nobody to verify.
Examine(calls) ==
  /\ stage = "EXAMINATION"
  /\ stage' = IF calls = Blank THEN "REPORT" ELSE "VERIFICATION"
  /\ Records("VERIFICATOR", calls)

\* The second examiner concludes: any pair decided differently calls for a third.
Verify(calls) ==
  /\ stage = "VERIFICATION"
  /\ stage' # stage
  /\ Records("REVIEWER", calls)
  /\ stage' = IF \E p \in Pairs : DisputedOnRecord(record', p)
                THEN "INCONSISTENCE" ELSE "REPORT"

\* The third examiner concludes, on disputed pairs only.
Resolve(calls) ==
  /\ stage = "INCONSISTENCE"
  /\ stage' = "REPORT"
  /\ \A p \in Pairs : calls[p] # NoRow => DisputedOnRecord(record, p)
  /\ Records("INCONSISTENCE", calls)

\* The report is issued, closing the analysis.
Conclude ==
  /\ status = "OPEN" /\ stage = "REPORT"
  /\ status' = "CLOSED"
  /\ UNCHANGED <<stage, record>>

RoundNext ==
  \/ \E calls \in [Pairs -> Calls \cup {NoRow}] :
       Examine(calls) \/ Verify(calls) \/ Resolve(calls)
  \/ Conclude

RoundSpec == RoundInit /\ [][RoundNext]_roundVars
=============================================================================
