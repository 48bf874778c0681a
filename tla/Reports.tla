-------------------------------- MODULE Reports --------------------------------
(***************************************************************************)
(* The laudos of one case's comparisons, all of one type and year: their   *)
(* drafts, which the examiner saves from one tab or several, the refreshes *)
(* that bring in changed data, the issuing that numbers and freezes one,   *)
(* and the reports issued elsewhere that an import records.                *)
(*                                                                         *)
(* A document is its locked content, which is the data it was generated    *)
(* from, and the text of its sections, which is the number of the save     *)
(* that wrote it, 0 for the template's blank.                              *)
(***************************************************************************)
EXTENDS Naturals, FiniteSetsExt

CONSTANTS
  Analyses,    \* comparisons of the case, at their report
  Tabs,        \* requests in flight at once
  MaxEdits,    \* bound on the changes of the case's data
  MaxSaves,    \* bound on saves
  MaxVersions, \* bound on the versions of all drafts
  MaxNumber,   \* greatest number an import brings; issuing may go past it
  No           \* no request, import or document

ASSUME ConstantsOK ==
  /\ IsFiniteSet(Analyses) /\ {MaxEdits, MaxSaves, MaxVersions, MaxNumber} \subseteq Nat
  /\ No \notin Tabs

VARIABLES
  edits,     \* changes made to the case's data
  asked,     \* the analyses answer a request, whose questions are sections of the laudo
  saves,     \* saves made
  latest,    \* latest[a]: the analysis_report_versions row of the greatest version, or No: the only one read
  inserted,  \* versions inserted
  report,    \* report[a]: analysis_reports
  open,      \* open[a]: the analysis's status
  req,       \* req[k]: the request in flight
  numbering, \* the request holding the numbering lock, or No
  import     \* a RecordImported between its reads and its commit, or No

drafting == <<edits, asked, saves, latest, inserted>>
issuing  == <<report, open, numbering>>
vars     == <<drafting, issuing, req, import>>

Idle      == [at |-> "NONE"]
Draft0    == [status |-> "DRAFT"]
Issued(a) == report[a].status = "ISSUED"
Native(a) == Issued(a) /\ ~report[a].imported

\* Build: the case and its request, and the case's other issued reports.
Build(a) == [edits |-> edits, asked |-> asked, prior |-> {<<b, report[b].number>> : b \in {b \in Analyses \ {a} : Issued(b)}}]

\* The sections: those every laudo has, and an answer to each question.
Sections(data) == data.asked

HasVersion(a) == latest[a] # No

Data == [edits : 0..MaxEdits, asked : BOOLEAN, prior : SUBSET (Analyses \X Nat)]
Doc  == [data : Data, text : 0..MaxSaves]

TypeOK ==
  /\ edits \in 0..MaxEdits /\ asked \in BOOLEAN /\ saves \in 0..MaxSaves /\ inserted \in 0..MaxVersions
  /\ \A a \in Analyses :
       /\ latest[a] \in Doc \cup {No}
       /\ Native(a) => report[a].number # 0 /\ report[a].doc \in Doc /\ report[a].snapshot \in Data /\ ~open[a]
       /\ Issued(a) => report[a].number \in Nat
  /\ \A k \in Tabs : req[k].at \in {"NONE", "READ", "CHECKED", "NUMBERED"}
  /\ numbering = No <=> \A k \in Tabs : req[k].at # "NUMBERED"

Init ==
  /\ edits = 0 /\ asked = FALSE /\ saves = 0
  /\ latest = [a \in Analyses |-> No] /\ inserted = 0 /\ report = [a \in Analyses |-> Draft0]
  /\ open = [a \in Analyses |-> TRUE]
  /\ req = [k \in Tabs |-> Idle] /\ numbering = No /\ import = No

\* The request of a tab, marked as crossed when what it read of an analysis in as changed.
Crossed(as) ==
  [k \in Tabs |-> IF req[k].at # "NONE" /\ req[k].a \in as THEN [req[k] EXCEPT !.crossed = TRUE] ELSE req[k]]

-----------------------------------------------------------------------------
(* The data a report is drawn from.                                        *)

\* A correction anywhere in the case: its material, its occurrence, an assessment.
Edit ==
  /\ edits < MaxEdits
  /\ edits' = edits + 1 /\ req' = Crossed(Analyses)
  /\ UNCHANGED <<asked, saves, latest, inserted, issuing, import>>

\* The case's first request takes the analyses that answered none.
AttachUnrequestedAnalyses ==
  /\ ~asked /\ edits < MaxEdits
  /\ asked' = TRUE /\ edits' = edits + 1 /\ req' = Crossed(Analyses)
  /\ UNCHANGED <<saves, latest, inserted, issuing, import>>

-----------------------------------------------------------------------------
(* Drafts.                                                                 *)

\* draftTarget and canWrite: a draft, of an open analysis.
CanWrite(a) == report[a].status = "DRAFT" /\ open[a]

\* A request read what it works from; d is the document it is to add, or to issue.
Reads(k, op, a, d) ==
  /\ req[k].at = "NONE"
  /\ req' = [req EXCEPT ![k] = [at |-> IF op = "ISSUE" THEN "CHECKED" ELSE "READ", op |-> op, a |-> a, doc |-> d, crossed |-> FALSE]]

\* Draft generates the first version; a later call only reads.
Draft(k, a) ==
  /\ CanWrite(a) /\ ~HasVersion(a)
  /\ Reads(k, "DRAFT", a, [data |-> Build(a), text |-> 0])
  /\ UNCHANGED <<drafting, issuing, import>>

\* Save: a document edited from any version, refused unless its locked content is the latest's.
Save(k, a) ==
  /\ CanWrite(a) /\ HasVersion(a) /\ saves < MaxSaves
  /\ Reads(k, "SAVE", a, [data |-> latest[a].data, text |-> saves + 1])
  /\ saves' = saves + 1
  /\ UNCHANGED <<edits, asked, latest, inserted, issuing, import>>

\* Fault: the sections are left as the template has them.
RefreshBlank(k, a) ==
  /\ CanWrite(a) /\ HasVersion(a)
  /\ Sections(latest[a].data) = Sections(Build(a))
  /\ Reads(k, "REFRESH", a, [data |-> Build(a), text |-> 0])
  /\ UNCHANGED <<drafting, issuing, import>>

\* Refresh: the data now, with the latest version's text, refused when the sections are others.
Refresh(k, a) ==
  /\ CanWrite(a) /\ HasVersion(a)
  /\ Sections(latest[a].data) = Sections(Build(a))
  /\ Reads(k, "REFRESH", a, [data |-> Build(a), text |-> latest[a].text])
  /\ UNCHANGED <<drafting, issuing, import>>

\* addVersion: the next version, whatever was added since the read; the report is not looked at again.
AddVersion(k) ==
  LET r == req[k] IN
  /\ r.at = "READ" /\ inserted < MaxVersions
  /\ latest' = [latest EXCEPT ![r.a] = r.doc] /\ inserted' = inserted + 1
  /\ req' = [Crossed({r.a}) EXCEPT ![k] = Idle]
  /\ UNCHANGED <<edits, asked, saves, issuing, import>>

-----------------------------------------------------------------------------
(* Issuing.                                                                *)

\* Fault: the draft's locked content is not compared with the data.
IssueReadsUnchecked(k, a) ==
  /\ CanWrite(a) /\ HasVersion(a) /\ latest[a].text # 0
  /\ Reads(k, "ISSUE", a, latest[a])
  /\ UNCHANGED <<drafting, issuing, import>>

\* Issue reads the latest version: the data's, with every section written.
IssueReads(k, a) ==
  /\ CanWrite(a) /\ HasVersion(a)
  /\ latest[a].data = Build(a) /\ latest[a].text # 0
  /\ Reads(k, "ISSUE", a, latest[a])
  /\ UNCHANGED <<drafting, issuing, import>>

MaxReportNumber == Max({report[a].number : a \in {a \in Analyses : Issued(a)}} \cup {0})

\* Fault: the numbering is not serialized.
IssueNumbersUnlocked(k) ==
  /\ req[k].at = "CHECKED" /\ CanWrite(req[k].a)
  /\ numbering' = k
  /\ req' = [req EXCEPT ![k] = [at |-> "NUMBERED", op |-> "ISSUE", a |-> @.a, doc |-> @.doc, crossed |-> @.crossed,
                                number |-> MaxReportNumber + 1]]
  /\ UNCHANGED <<drafting, report, open, import>>

\* IssueReport's transaction checks again, takes the numbering lock and the next number.
IssueNumbers(k) ==
  /\ req[k].at = "CHECKED" /\ CanWrite(req[k].a)
  /\ numbering = No /\ numbering' = k
  /\ req' = [req EXCEPT ![k] = [at |-> "NUMBERED", op |-> "ISSUE", a |-> @.a, doc |-> @.doc, crossed |-> @.crossed,
                                number |-> MaxReportNumber + 1]]
  /\ UNCHANGED <<drafting, report, open, import>>

\* analysis_reports_number_key.
Taken(n) == n # 0 /\ \E a \in Analyses : Issued(a) /\ report[a].number = n

\* Its documents -- the data as it is now, the draft as it was read -- and the commit.
IssueCommits(k) ==
  LET r == req[k] IN
  /\ r.at = "NUMBERED" /\ report[r.a].status = "DRAFT" /\ ~Taken(r.number)
  /\ report' = [report EXCEPT ![r.a] = [status |-> "ISSUED", imported |-> FALSE, number |-> r.number, doc |-> r.doc,
                                        snapshot |-> Build(r.a), crossed |-> r.crossed]]
  /\ open' = [open EXCEPT ![r.a] = FALSE]
  /\ numbering' = No
  /\ req' = [Crossed(Analyses \ {r.a}) EXCEPT ![k] = Idle]
  /\ UNCHANGED <<drafting, import>>

\* Fault: the lock outlives the transaction.
RequestFailsHolding(k) ==
  /\ req[k].at # "NONE"
  /\ req' = [req EXCEPT ![k] = Idle]
  /\ UNCHANGED <<drafting, issuing, import>>

\* A request is refused at its end, or fails: a taken number, a report issued meanwhile, the store.
RequestFails(k) ==
  /\ req[k].at # "NONE"
  /\ req' = [req EXCEPT ![k] = Idle]
  /\ numbering' = IF numbering = k THEN No ELSE numbering
  /\ UNCHANGED <<drafting, report, open, import>>

-----------------------------------------------------------------------------
(* Reports issued elsewhere.                                               *)

\* ReportNumberTaken: by another report.
NumberTaken(a, n) == \E b \in Analyses \ {a} : Issued(b) /\ report[b].number = n

\* RecordImported reads whether its number is taken, and leaves out one that is; its snapshot is not
\* followed here, since nothing reads it again.
ImportReads(a, n) ==
  /\ import = No
  /\ import' = [a |-> a, number |-> IF NumberTaken(a, n) THEN 0 ELSE n]
  /\ UNCHANGED <<drafting, issuing, req>>

\* Fault: a report issued here is not refused.
ImportCommitsOver ==
  LET i == import IN
  /\ i # No
  /\ i.number = 0 \/ ~NumberTaken(i.a, i.number)
  /\ report' = [report EXCEPT ![i.a] = [status |-> "ISSUED", imported |-> TRUE, number |-> i.number]]
  /\ import' = No /\ req' = Crossed(Analyses)
  /\ UNCHANGED <<drafting, open, numbering>>

\* The report of a draft, or again of an imported one; the unique index refuses a number taken since.
ImportCommits ==
  LET i == import IN
  /\ i # No
  /\ ~Native(i.a)
  /\ i.number = 0 \/ ~NumberTaken(i.a, i.number)
  /\ report' = [report EXCEPT ![i.a] = [status |-> "ISSUED", imported |-> TRUE, number |-> i.number]]
  /\ import' = No /\ req' = Crossed(Analyses)
  /\ UNCHANGED <<drafting, open, numbering>>

ImportFails ==
  /\ import # No
  /\ import' = No
  /\ UNCHANGED <<drafting, issuing, req>>

-----------------------------------------------------------------------------

Next ==
  \/ Edit \/ AttachUnrequestedAnalyses
  \/ \E k \in Tabs, a \in Analyses :
       Draft(k, a) \/ Save(k, a) \/ Refresh(k, a) \/ IssueReads(k, a)
  \/ \E k \in Tabs : AddVersion(k) \/ IssueNumbers(k) \/ IssueCommits(k) \/ RequestFails(k)
  \/ \E a \in Analyses, n \in 0..MaxNumber : ImportReads(a, n)
  \/ ImportCommits \/ ImportFails

Spec == Init /\ [][Next]_vars

-----------------------------------------------------------------------------
(* Properties.                                                             *)

Adds(k) == req[k].at = "READ" /\ inserted' # inserted /\ req'[k].at = "NONE"

\* A draft goes forward: a version never brings back the text of an earlier save, and one the server
\* generates is of the data as it is, unless another request or a change of the data came between its
\* read and its insert, which nothing in addVersion (reports.go) looks for.
DraftGoesForward ==
  [][\A k \in Tabs, a \in Analyses : Adds(k) /\ req[k].a = a /\ ~req[k].crossed =>
       /\ HasVersion(a) => latest'[a].text >= latest[a].text
       /\ req[k].op # "SAVE" => latest'[a].data = Build(a)]_vars

\* The number an issue took is past every number given here, until it commits or fails: the numbering
\* lock serializes issues.  An import does not take it, and may commit that very number first: the
\* issue then fails on the index, and no two reports, issued here or elsewhere, have the same number.
NumberIsFree ==
  /\ \A k \in Tabs, a \in Analyses :
       req[k].at = "NUMBERED" /\ Native(a) => report[a].number < req[k].number
  /\ \A a, b \in Analyses :
       a # b /\ Issued(a) /\ Issued(b) /\ report[a].number # 0 => report[a].number # report[b].number

\* A report issued here has its sections written, and its snapshot is never of older data than its
\* document shows: it is that data, unless that changed between Issue's comparison and the commit.
IssuedAsChecked ==
  \A a \in Analyses : Native(a) =>
    /\ report[a].doc.text # 0
    /\ report[a].doc.data.edits <= report[a].snapshot.edits
    /\ ~report[a].crossed => report[a].snapshot = report[a].doc.data

\* "An issued report never changes": its number, document and snapshot stand, whatever tabs, other
\* issues and imports do, and one issued elsewhere only changes into one issued elsewhere.
IssuedStands ==
  [][\A a \in Analyses :
       /\ Native(a) => report'[a] = report[a]
       /\ Issued(a) /\ ~Native(a) => Issued(a)' /\ ~Native(a)']_vars

-----------------------------------------------------------------------------
(* What the code's comments say and a run refutes.                         *)

\* The data an issued report froze is the data its document shows: the package comment of reports.go
\* and 009_reports.sql say the document is checked against the frozen data.
SnapshotIsTheDocument ==
  \A a \in Analyses : Native(a) => report[a].snapshot = report[a].doc.data

\* A stale draft can be refreshed, as ErrStale tells its examiner to do.
StaleIsRefreshed ==
  \A a \in Analyses : CanWrite(a) /\ HasVersion(a) => Sections(latest[a].data) = Sections(Build(a))

=============================================================================
