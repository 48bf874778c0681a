----------------------------- MODULE ReportsProofs -----------------------------
(***************************************************************************)
(* Theorems about Reports, for any comparisons, tabs and bounds.           *)
(*                                                                         *)
(* The inductive invariant says what a request in flight holds of what it  *)
(* read: a draft's next version as long as nothing crossed it (GoesForward),*)
(* a checked document of the data as it is (IsChecked), and a number past  *)
(* those given here (NumberInv), which only the lock's holder has          *)
(* (HasLock).  A second one, kept apart, follows what no crossing undoes:  *)
(* documents are of the past, and numbers differ (PastInv).                *)
(***************************************************************************)
EXTENDS Reports, Extremes

Ops     == {"DRAFT", "SAVE", "REFRESH", "ISSUE"}
InIssue == {"CHECKED", "NUMBERED"}

\* A request in flight, and one that holds the numbering lock.
Pending  == [at : {"READ", "CHECKED"}, op : Ops, a : Analyses, doc : Doc, crossed : BOOLEAN]
Numbered == [at : {"NUMBERED"}, op : {"ISSUE"}, a : Analyses, doc : Doc, crossed : BOOLEAN, number : Nat \ {0}]

\* The rows: a report is a draft or issued, and a version's text was saved.
RowInv ==
  /\ DOMAIN latest = Analyses /\ DOMAIN report = Analyses /\ DOMAIN open = Analyses
  /\ \A a \in Analyses :
       /\ report[a].status \in {"DRAFT", "ISSUED"}
       /\ HasVersion(a) => latest[a] \in Doc /\ latest[a].text <= saves

\* A request adds or issues a document whose text was saved, and issues only a written one.
RequestInv ==
  /\ req \in [Tabs -> {Idle} \cup Pending \cup Numbered]
  /\ numbering \in Tabs \cup {No}
  /\ \A k \in Tabs : req[k].at # "NONE" =>
       /\ req[k].doc.text <= saves
       /\ req[k].at \in InIssue <=> req[k].op = "ISSUE"
       /\ req[k].at \in InIssue => req[k].doc.text # 0

ImportInv == import # No => import.a \in Analyses /\ import.number \in Nat

HasLock == \A k \in Tabs : req[k].at = "NUMBERED" <=> numbering = k

\* What a request is to add, unless something crossed it, is not behind what is there.
GoesForward ==
  \A k \in Tabs : req[k].at = "READ" /\ ~req[k].crossed =>
    /\ HasVersion(req[k].a) => req[k].doc.text >= latest[req[k].a].text
    /\ req[k].op # "SAVE" => req[k].doc.data = Build(req[k].a)

\* What a request is to issue, unless something crossed it, is of the data as it is.
IsChecked ==
  \A k \in Tabs : req[k].at \in InIssue /\ ~req[k].crossed => req[k].doc.data = Build(req[k].a)

\* The number of the lock's holder is past those given here.
NumberInv ==
  \A k \in Tabs, a \in Analyses :
    req[k].at = "NUMBERED" /\ Native(a) => report[a].number < req[k].number

\* What was issued here is as it was checked, unless something crossed it.
IssuedInv ==
  \A a \in Analyses : Native(a) =>
    /\ report[a].doc.text # 0
    /\ ~report[a].crossed => report[a].snapshot = report[a].doc.data

IInv ==
  /\ TypeOK /\ RowInv /\ RequestInv /\ ImportInv /\ HasLock
  /\ GoesForward /\ IsChecked /\ NumberInv /\ IssuedInv

-----------------------------------------------------------------------------
(* What the operators give.                                                *)

\* Build gives a document's data.
LEMMA BuildType ==
  ASSUME TypeOK, NEW a \in Analyses
  PROVE  Build(a) \in Data
<1>1. ASSUME NEW b \in Analyses, Issued(b)
      PROVE  <<b, report[b].number>> \in Analyses \X Nat
  BY <1>1 DEF TypeOK
<1>2. {<<b, report[b].number>> : b \in {b \in Analyses \ {a} : Issued(b)}} \in SUBSET (Analyses \X Nat)
  BY <1>1
<1>3. edits \in 0..MaxEdits /\ asked \in BOOLEAN
  BY DEF TypeOK
<1> QED BY <1>2, <1>3 DEF Build, Data

\* The number an issue takes is past every number given, here or elsewhere.
LEMMA NextIsPast ==
  ASSUME TypeOK
  PROVE  /\ MaxReportNumber \in Nat
         /\ \A a \in Analyses : Issued(a) => report[a].number <= MaxReportNumber
<1> DEFINE As == {a \in Analyses : Issued(a)}
           f  == [a \in As |-> report[a].number]
           Ns == {report[a].number : a \in As}
<1>1. IsFiniteSet(As)
  BY ConstantsOK, FS_Subset
<1>2. IsFiniteSet(Ns)
  <2>1. DOMAIN f = As
    OBVIOUS
  <2>2. {f[x] : x \in DOMAIN f} = Ns
    OBVIOUS
  <2> HIDE DEF As, f, Ns
  <2> QED BY <1>1, <2>1, <2>2, FiniteImage
<1>3. IsFiniteSet(Ns \cup {0})
  <2> HIDE DEF Ns
  <2> QED BY <1>2, FS_AddElement
<1>4. Ns \subseteq Nat
  BY DEF TypeOK
<1>5. Ns \cup {0} \in SUBSET Int /\ Ns \cup {0} # {} /\ Ns \cup {0} \subseteq Nat
  <2> HIDE DEF Ns
  <2> QED BY <1>4
<1>6. MaxReportNumber = Max(Ns \cup {0})
  BY DEF MaxReportNumber
<1>7. Max(Ns \cup {0}) \in Ns \cup {0} /\ \A y \in Ns \cup {0} : y <= Max(Ns \cup {0})
  <2> HIDE DEF Ns
  <2> QED BY <1>3, <1>5, MaxIsGreatest
<1>8. MaxReportNumber \in Nat
  <2> HIDE DEF Ns
  <2> QED BY <1>5, <1>6, <1>7
<1>9. ASSUME NEW a \in Analyses, Issued(a)
      PROVE  report[a].number <= MaxReportNumber
  <2>1. report[a].number \in Ns
    BY <1>9
  <2> HIDE DEF Ns
  <2> QED BY <2>1, <1>6, <1>7
<1> QED BY <1>8, <1>9

\* A change of the data crosses the requests of the analyses it is about, and nothing else of them.
LEMMA CrossedType ==
  ASSUME NEW as, RequestInv
  PROVE  /\ Crossed(as) \in [Tabs -> {Idle} \cup Pending \cup Numbered]
         /\ \A k \in Tabs :
              /\ Crossed(as)[k].at = req[k].at
              /\ req[k].at # "NONE" =>
                   /\ Crossed(as)[k].a = req[k].a /\ Crossed(as)[k].op = req[k].op
                   /\ Crossed(as)[k].doc = req[k].doc
                   /\ req[k].at = "NUMBERED" => Crossed(as)[k].number = req[k].number
                   /\ req[k].a \in as => Crossed(as)[k].crossed
                   /\ req[k].a \notin as => Crossed(as)[k].crossed = req[k].crossed
<1>1. ASSUME NEW k \in Tabs
      PROVE  /\ Crossed(as)[k] = IF req[k].at # "NONE" /\ req[k].a \in as THEN [req[k] EXCEPT !.crossed = TRUE] ELSE req[k]
             /\ req[k] \in {Idle} \cup Pending \cup Numbered
  BY DEF Crossed, RequestInv
<1>2. ASSUME NEW k \in Tabs
      PROVE  /\ Crossed(as)[k] \in {Idle} \cup Pending \cup Numbered
             /\ Crossed(as)[k].at = req[k].at
             /\ req[k].at # "NONE" =>
                  /\ Crossed(as)[k].a = req[k].a /\ Crossed(as)[k].op = req[k].op
                  /\ Crossed(as)[k].doc = req[k].doc
                  /\ req[k].at = "NUMBERED" => Crossed(as)[k].number = req[k].number
                  /\ req[k].a \in as => Crossed(as)[k].crossed
                  /\ req[k].a \notin as => Crossed(as)[k].crossed = req[k].crossed
  <2>1. CASE req[k] = Idle
    <3>1. req[k].at = "NONE"
      BY <2>1 DEF Idle
    <3>2. Crossed(as)[k] = req[k]
      BY <1>1, <3>1, Zenon
    <3> QED BY <1>1, <3>1, <3>2
  <2>2. CASE req[k] \in Pending
    BY <1>1, <2>2 DEF Pending
  <2>3. CASE req[k] \in Numbered
    <3>1. [req[k] EXCEPT !.crossed = TRUE] \in Numbered
      BY <2>3 DEF Numbered
    <3>2. /\ [req[k] EXCEPT !.crossed = TRUE].at = req[k].at
          /\ [req[k] EXCEPT !.crossed = TRUE].a = req[k].a
          /\ [req[k] EXCEPT !.crossed = TRUE].op = req[k].op
          /\ [req[k] EXCEPT !.crossed = TRUE].doc = req[k].doc
          /\ [req[k] EXCEPT !.crossed = TRUE].number = req[k].number
          /\ [req[k] EXCEPT !.crossed = TRUE].crossed
      BY <2>3 DEF Numbered
    <3> QED BY <1>1, <3>1, <3>2
  <2> QED BY <1>1, <2>1, <2>2, <2>3
<1>3. Crossed(as) = [k \in Tabs |-> Crossed(as)[k]]
  BY DEF Crossed
<1> QED BY <1>2, <1>3

\* The data a report is drawn from depends on nothing else.
LEMMA BuildSame ==
  ASSUME UNCHANGED <<edits, asked, report>>, NEW a
  PROVE  Build(a)' = Build(a)
BY DEF Build, Issued

\* An analysis's own report is no part of the data its report is drawn from.
LEMMA BuildOfOthers ==
  ASSUME NEW a \in Analyses, UNCHANGED <<edits, asked>>, \A b \in Analyses : b # a => report'[b] = report[b]
  PROVE  Build(a)' = Build(a)
<1>1. {b \in Analyses \ {a} : Issued(b)}' = {b \in Analyses \ {a} : Issued(b)}
  BY DEF Issued
<1>2. \A b \in {b \in Analyses \ {a} : Issued(b)} : <<b, report'[b].number>> = <<b, report[b].number>>
  OBVIOUS
<1>3. {<<b, report[b].number>> : b \in {b \in Analyses \ {a} : Issued(b)}}' = {<<b, report[b].number>> : b \in {b \in Analyses \ {a} : Issued(b)}}
  BY <1>1, <1>2
<1> QED BY <1>3 DEF Build

-----------------------------------------------------------------------------
(* A request that reads.                                                   *)

\* What a request reads leaves the invariant as it is, when its document is one it may add or issue.
LEMMA ReadsInv ==
  ASSUME IInv, NEW k \in Tabs, NEW op \in Ops, NEW a \in Analyses, NEW d \in Doc,
         Reads(k, op, a, d), UNCHANGED <<edits, asked, latest, inserted, issuing, import>>,
         saves' \in 0..MaxSaves, saves <= saves', d.text <= saves',
         op = "ISSUE" => d.text # 0 /\ d.data = Build(a),
         HasVersion(a) => d.text >= latest[a].text,
         op # "SAVE" => d.data = Build(a)
  PROVE  IInv'
<1> DEFINE r == [at |-> IF op = "ISSUE" THEN "CHECKED" ELSE "READ", op |-> op, a |-> a, doc |-> d, crossed |-> FALSE]
<1>1. req[k].at = "NONE" /\ req' = [req EXCEPT ![k] = r]
  BY DEF Reads
<1>2. /\ r \in Pending /\ r.at # "NONE" /\ r.at # "NUMBERED"
      /\ r.op = op /\ r.a = a /\ r.doc = d /\ r.crossed = FALSE
      /\ r.at \in InIssue <=> op = "ISSUE"
      /\ r.at = "READ" => op # "ISSUE"
  BY DEF Pending, InIssue
<1>3. /\ req' \in [Tabs -> {Idle} \cup Pending \cup Numbered]
      /\ req'[k] = r /\ \A j \in Tabs : j # k => req'[j] = req[j]
  <2> HIDE DEF r
  <2> QED BY <1>1, <1>2 DEF IInv, RequestInv
<1> HIDE DEF r
<1>4. UNCHANGED <<edits, asked, latest, inserted, report, open, numbering, import>>
  BY DEF issuing
<1>5. HasLock'
  BY <1>1, <1>2, <1>3, <1>4 DEF IInv, HasLock
<1>6. TypeOK'
  <2>1. req'[k].at \in {"READ", "CHECKED"}
    BY <1>2, <1>3 DEF Pending
  <2> QED BY <1>1, <1>3, <1>4, <2>1 DEF IInv, TypeOK, Issued, Native
<1>7. RowInv'
  BY <1>4 DEF IInv, RowInv, HasVersion, Doc, TypeOK
<1>8. RequestInv'
  <2>1. ASSUME NEW j \in Tabs, req'[j].at # "NONE"
        PROVE  /\ req'[j].doc.text <= saves'
               /\ req'[j].at \in InIssue <=> req'[j].op = "ISSUE"
               /\ req'[j].at \in InIssue => req'[j].doc.text # 0
    <3>1. CASE j = k
      BY <1>2, <1>3, <3>1
    <3>2. CASE j # k
      <4>1. req[j].doc.text \in 0..MaxSaves
        <5>1. req[j] \in Pending \cup Numbered
          BY <1>3, <2>1, <3>2 DEF IInv, RequestInv, Idle
        <5>2. req[j].doc \in Doc
          BY <5>1 DEF Pending, Numbered
        <5> QED BY <5>2 DEF Doc
      <4> QED BY <1>3, <2>1, <3>2, <4>1, ConstantsOK DEF IInv, RequestInv, TypeOK
    <3> QED BY <3>1, <3>2
  <2> QED BY <1>3, <1>4, <2>1 DEF RequestInv, IInv
<1>9. ImportInv'
  BY <1>4 DEF IInv, ImportInv
<1>10. \A b : Build(b)' = Build(b)
  BY <1>4, BuildSame
<1>11. GoesForward'
  BY <1>2, <1>3, <1>4, <1>10 DEF IInv, GoesForward, HasVersion
<1>12. IsChecked'
  BY <1>2, <1>3, <1>4, <1>10 DEF IInv, IsChecked
<1>13. NumberInv'
  BY <1>2, <1>3, <1>4 DEF IInv, NumberInv, Native, Issued
<1>14. IssuedInv'
  BY <1>4 DEF IInv, IssuedInv, Native, Issued
<1> QED BY <1>5, <1>6, <1>7, <1>8, <1>9, <1>11, <1>12, <1>13, <1>14 DEF IInv

\* Each of the four calls that read.
LEMMA CallsInv ==
  ASSUME IInv, NEW k \in Tabs, NEW a \in Analyses,
         Draft(k, a) \/ Save(k, a) \/ Refresh(k, a) \/ IssueReads(k, a)
  PROVE  IInv'
<1>1. Build(a) \in Data
  BY BuildType DEF IInv
<1>2. saves \in 0..MaxSaves /\ 0 \in 0..MaxSaves /\ {MaxSaves, MaxEdits} \subseteq Nat
  BY ConstantsOK DEF IInv, TypeOK
<1>3. HasVersion(a) => /\ latest[a] \in Doc /\ latest[a].text <= saves
                       /\ latest[a].data \in Data /\ latest[a].text \in 0..MaxSaves
  <2>1. HasVersion(a) => latest[a] \in Doc /\ latest[a].text <= saves
    BY DEF IInv, RowInv
  <2> QED BY <2>1 DEF Doc
<1>4. CASE Draft(k, a)
  <2> DEFINE d == [data |-> Build(a), text |-> 0]
  <2>1. d \in Doc /\ d.text = 0 /\ d.data = Build(a)
    BY <1>1, <1>2 DEF Doc
  <2> HIDE DEF d
  <2>2. Reads(k, "DRAFT", a, d) /\ ~HasVersion(a) /\ UNCHANGED <<edits, asked, saves, latest, inserted, issuing, import>>
    BY <1>4 DEF Draft, drafting, d
  <2> QED BY <1>2, <2>1, <2>2, ReadsInv DEF Ops
<1>5. CASE Save(k, a)
  <2> DEFINE d == [data |-> latest[a].data, text |-> saves + 1]
  <2>1. saves < MaxSaves /\ HasVersion(a) /\ saves' = saves + 1
    BY <1>5 DEF Save
  <2>2. saves + 1 \in 0..MaxSaves
    BY <1>2, <2>1
  <2>3. d \in Doc /\ d.text = saves + 1
    BY <1>3, <2>1, <2>2 DEF Doc
  <2> HIDE DEF d
  <2>4. Reads(k, "SAVE", a, d) /\ UNCHANGED <<edits, asked, latest, inserted, issuing, import>>
    BY <1>5 DEF Save, d
  <2>5. d.text >= latest[a].text /\ saves <= saves' /\ d.text <= saves'
    BY <1>2, <1>3, <2>1, <2>3
  <2> QED BY <2>1, <2>2, <2>3, <2>4, <2>5, ReadsInv DEF Ops
<1>6. CASE Refresh(k, a)
  <2> DEFINE d == [data |-> Build(a), text |-> latest[a].text]
  <2>1. HasVersion(a)
    BY <1>6 DEF Refresh
  <2>2. d \in Doc /\ d.text = latest[a].text /\ d.data = Build(a)
    BY <1>1, <1>3, <2>1 DEF Doc
  <2> HIDE DEF d
  <2>3. Reads(k, "REFRESH", a, d) /\ UNCHANGED <<edits, asked, saves, latest, inserted, issuing, import>>
    BY <1>6 DEF Refresh, drafting, d
  <2> QED BY <1>2, <1>3, <2>1, <2>2, <2>3, ReadsInv DEF Ops
<1>7. CASE IssueReads(k, a)
  <2>1. /\ HasVersion(a) /\ latest[a].data = Build(a) /\ latest[a].text # 0
        /\ Reads(k, "ISSUE", a, latest[a])
        /\ UNCHANGED <<edits, asked, saves, latest, inserted, issuing, import>>
    BY <1>7 DEF IssueReads, drafting
  <2> QED BY <1>2, <1>3, <2>1, ReadsInv DEF Ops
<1> QED BY <1>4, <1>5, <1>6, <1>7

-----------------------------------------------------------------------------
(* The data changes.                                                       *)

\* A change of the data of the case crosses every request.
LEMMA EditInv ==
  ASSUME IInv, Edit \/ AttachUnrequestedAnalyses
  PROVE  IInv'
<1>1. /\ edits' \in 0..MaxEdits /\ asked' \in BOOLEAN
      /\ req' = Crossed(Analyses)
      /\ UNCHANGED <<saves, latest, inserted, report, open, numbering, import>>
  <2>1. edits + 1 \in 0..MaxEdits \/ ~(edits < MaxEdits)
    BY ConstantsOK DEF IInv, TypeOK
  <2>2. CASE Edit
    BY <2>1, <2>2 DEF Edit, IInv, TypeOK, issuing
  <2>3. CASE AttachUnrequestedAnalyses
    BY <2>1, <2>3 DEF AttachUnrequestedAnalyses, IInv, TypeOK, issuing
  <2> QED BY <2>2, <2>3
<1>2. /\ req' \in [Tabs -> {Idle} \cup Pending \cup Numbered]
      /\ \A k \in Tabs : req'[k].at = req[k].at
      /\ \A k \in Tabs : req[k].at # "NONE" =>
           /\ req'[k].a = req[k].a /\ req'[k].op = req[k].op /\ req'[k].doc = req[k].doc
           /\ req[k].at = "NUMBERED" => req'[k].number = req[k].number
           /\ req[k].a \in Analyses => req'[k].crossed
  BY <1>1, CrossedType DEF IInv
<1>3. \A k \in Tabs : req[k].at # "NONE" => req[k].a \in Analyses
  BY DEF IInv, RequestInv, Idle, Pending, Numbered
<1>4. \A k \in Tabs : req[k].at # "NONE" => req'[k].crossed
  BY <1>2, <1>3
<1>5. HasLock'
  BY <1>1, <1>2 DEF IInv, HasLock
<1>6. TypeOK'
  BY <1>1, <1>2 DEF IInv, TypeOK, Issued, Native
<1>7. RowInv'
  BY <1>1 DEF IInv, RowInv, HasVersion
<1>8. RequestInv'
  BY <1>1, <1>2 DEF IInv, RequestInv
<1>9. ImportInv'
  BY <1>1 DEF IInv, ImportInv
<1>10. GoesForward' /\ IsChecked'
  BY <1>2, <1>4 DEF GoesForward, IsChecked, InIssue
<1>11. NumberInv'
  BY <1>1, <1>2 DEF IInv, NumberInv, Native, Issued
<1>12. IssuedInv'
  BY <1>1 DEF IInv, IssuedInv, Native, Issued
<1> QED BY <1>5, <1>6, <1>7, <1>8, <1>9, <1>10, <1>11, <1>12 DEF IInv

-----------------------------------------------------------------------------
(* A version is added.                                                     *)

LEMMA AddVersionInv ==
  ASSUME IInv, NEW k \in Tabs, AddVersion(k)
  PROVE  IInv'
<1> DEFINE r == req[k]
           C == Crossed({r.a})
<1>1. /\ r.at = "READ" /\ inserted' = inserted + 1 /\ inserted < MaxVersions
      /\ latest' = [latest EXCEPT ![r.a] = r.doc]
      /\ req' = [C EXCEPT ![k] = Idle]
      /\ UNCHANGED <<edits, asked, saves, report, open, numbering, import>>
  BY DEF AddVersion, issuing
<1>2. r \in Pending /\ r.a \in Analyses /\ r.doc \in Doc /\ r.doc.text <= saves
  <2>1. r \in Pending
    BY <1>1 DEF IInv, RequestInv, Idle, Numbered
  <2> QED BY <1>1, <2>1 DEF IInv, RequestInv, Pending
<1>3. /\ C \in [Tabs -> {Idle} \cup Pending \cup Numbered]
      /\ \A j \in Tabs : C[j].at = req[j].at
      /\ \A j \in Tabs : req[j].at # "NONE" =>
           /\ C[j].a = req[j].a /\ C[j].op = req[j].op /\ C[j].doc = req[j].doc
           /\ req[j].at = "NUMBERED" => C[j].number = req[j].number
           /\ req[j].a = r.a => C[j].crossed
           /\ req[j].a # r.a => C[j].crossed = req[j].crossed
  <2> HIDE DEF r
  <2> QED BY CrossedType DEF IInv
<1> HIDE DEF C
<1>4. /\ req' \in [Tabs -> {Idle} \cup Pending \cup Numbered]
      /\ req'[k] = Idle /\ \A j \in Tabs : j # k => req'[j] = C[j]
  BY <1>1, <1>3
<1>5. req'[k].at = "NONE"
  BY <1>4 DEF Idle
<1>6. /\ \A a \in Analyses : latest'[a] = IF a = r.a THEN r.doc ELSE latest[a]
      /\ DOMAIN latest' = Analyses
  BY <1>1 DEF IInv, RowInv
<1> HIDE DEF r
<1>7. HasLock'
  BY <1>1, <1>3, <1>4, <1>5 DEF IInv, HasLock, r
<1>8. TypeOK'
  <2>1. inserted' \in 0..MaxVersions
    BY <1>1, ConstantsOK DEF IInv, TypeOK
  <2>2. \A a \in Analyses : latest'[a] \in Doc \cup {No}
    BY <1>2, <1>6 DEF IInv, TypeOK
  <2>3. \A j \in Tabs : req'[j].at \in {"NONE", "READ", "CHECKED", "NUMBERED"} /\ (req'[j].at = "NUMBERED" <=> req[j].at = "NUMBERED")
    BY <1>1, <1>3, <1>4, <1>5 DEF IInv, TypeOK, r
  <2> QED BY <1>1, <2>1, <2>2, <2>3 DEF IInv, TypeOK, Issued, Native
<1>9. RowInv'
  BY <1>1, <1>2, <1>6 DEF IInv, RowInv, HasVersion
<1>10. RequestInv'
  BY <1>1, <1>3, <1>4, <1>5 DEF IInv, RequestInv
<1>11. ImportInv'
  BY <1>1 DEF IInv, ImportInv
<1>12. \A b : Build(b)' = Build(b)
  BY <1>1, BuildSame
<1>13. GoesForward'
  <2>1. ASSUME NEW j \in Tabs, req'[j].at = "READ", ~req'[j].crossed
        PROVE  (/\ HasVersion(req[j].a) => req[j].doc.text >= latest[req[j].a].text
                /\ req[j].op # "SAVE" => req[j].doc.data = Build(req[j].a))'
    <3>1. j # k /\ req'[j] = C[j]
      BY <1>4, <1>5, <2>1
    <3>2. req[j].at = "READ" /\ ~req[j].crossed /\ req[j].a # r.a /\ req[j].a \in Analyses
          /\ C[j].a = req[j].a /\ C[j].op = req[j].op /\ C[j].doc = req[j].doc
      <4>1. req[j].at = "READ"
        BY <1>3, <2>1, <3>1
      <4>2. req[j] \in Pending
        BY <4>1 DEF IInv, RequestInv, Idle, Numbered
      <4> QED BY <1>3, <2>1, <3>1, <4>1, <4>2 DEF Pending
    <3>3. latest'[req[j].a] = latest[req[j].a]
      BY <1>6, <3>2
    <3> QED BY <1>12, <3>1, <3>2, <3>3 DEF IInv, GoesForward, HasVersion
  <2> QED BY <2>1, <1>12 DEF GoesForward
<1>14. IsChecked'
  <2>1. ASSUME NEW j \in Tabs, req'[j].at \in InIssue, ~req'[j].crossed
        PROVE  (req[j].doc.data = Build(req[j].a))'
    <3>1. j # k /\ req'[j] = C[j]
      BY <1>4, <1>5, <2>1 DEF InIssue
    <3>2. req[j].at \in InIssue /\ ~req[j].crossed /\ C[j].a = req[j].a /\ C[j].doc = req[j].doc
      BY <1>3, <2>1, <3>1 DEF InIssue
    <3> QED BY <1>12, <3>1, <3>2 DEF IInv, IsChecked
  <2> QED BY <2>1, <1>12 DEF IsChecked
<1>15. NumberInv'
  BY <1>1, <1>3, <1>4, <1>5 DEF IInv, NumberInv, Native, Issued
<1>16. IssuedInv'
  BY <1>1 DEF IInv, IssuedInv, Native, Issued
<1> QED BY <1>7, <1>8, <1>9, <1>10, <1>11, <1>13, <1>14, <1>15, <1>16 DEF IInv

-----------------------------------------------------------------------------
(* A report is issued.                                                     *)

\* Who takes the numbering lock takes a number past those given.
LEMMA IssueNumbersInv ==
  ASSUME IInv, NEW k \in Tabs, IssueNumbers(k)
  PROVE  IInv'
<1> DEFINE r == req[k]
           n == [at |-> "NUMBERED", op |-> "ISSUE", a |-> r.a, doc |-> r.doc, crossed |-> r.crossed,
                 number |-> MaxReportNumber + 1]
<1>1. /\ r.at = "CHECKED" /\ numbering = No /\ numbering' = k
      /\ req' = [req EXCEPT ![k] = n]
      /\ UNCHANGED <<edits, asked, saves, latest, inserted, report, open, import>>
  BY DEF IssueNumbers, drafting
<1>2. r \in Pending /\ r.doc.text <= saves /\ r.doc.text # 0
  <2>1. r \in Pending
    BY <1>1 DEF IInv, RequestInv, Idle, Numbered
  <2> QED BY <1>1, <2>1 DEF IInv, RequestInv, InIssue
<1>3. MaxReportNumber \in Nat /\ \A a \in Analyses : Issued(a) => report[a].number <= MaxReportNumber
  BY NextIsPast DEF IInv
<1>4. /\ n \in Numbered /\ n.at = "NUMBERED" /\ n.op = "ISSUE" /\ n.doc = r.doc /\ n.a = r.a
      /\ n.crossed = r.crossed /\ n.number = MaxReportNumber + 1
  <2> HIDE DEF r
  <2>1. MaxReportNumber + 1 \in Nat \ {0}
    BY <1>3
  <2> HIDE DEF MaxReportNumber
  <2> QED BY <1>2, <2>1 DEF Pending, Numbered
<1> HIDE DEF n
<1>5. /\ req' \in [Tabs -> {Idle} \cup Pending \cup Numbered]
      /\ req'[k] = n /\ \A j \in Tabs : j # k => req'[j] = req[j]
  BY <1>1, <1>4 DEF IInv, RequestInv
<1>6. HasLock'
  BY <1>1, <1>4, <1>5, ConstantsOK DEF IInv, HasLock
<1>7. TypeOK'
  BY <1>1, <1>4, <1>5, ConstantsOK DEF IInv, TypeOK, Issued, Native
<1>8. RowInv'
  BY <1>1 DEF IInv, RowInv, HasVersion
<1>9. RequestInv'
  BY <1>1, <1>2, <1>4, <1>5 DEF IInv, RequestInv, InIssue
<1>10. ImportInv'
  BY <1>1 DEF IInv, ImportInv
<1>11. \A b : Build(b)' = Build(b)
  BY <1>1, BuildSame
<1>12. GoesForward'
  BY <1>1, <1>4, <1>5, <1>11 DEF IInv, GoesForward, HasVersion
<1>13. IsChecked'
  BY <1>1, <1>4, <1>5, <1>11 DEF IInv, IsChecked, InIssue
<1>14. NumberInv'
  <2>1. ASSUME NEW j \in Tabs, NEW a \in Analyses, req'[j].at = "NUMBERED", Native(a)
        PROVE  report[a].number < req'[j].number
    <3>1. j = k
      <4>1. CASE j # k
        BY <1>1, <1>5, <2>1, <4>1, ConstantsOK DEF IInv, HasLock
      <4> QED BY <4>1
    <3>2. report[a].number <= MaxReportNumber /\ report[a].number \in Nat
      BY <1>3, <2>1 DEF Native, IInv, TypeOK
    <3> HIDE DEF MaxReportNumber
    <3> QED BY <1>3, <1>4, <1>5, <3>1, <3>2
  <2> QED BY <1>1, <2>1 DEF NumberInv, Native, Issued
<1>15. IssuedInv'
  BY <1>1 DEF IInv, IssuedInv, Native, Issued
<1> QED BY <1>6, <1>7, <1>8, <1>9, <1>10, <1>12, <1>13, <1>14, <1>15 DEF IInv

\* The one holding the lock commits: nobody else has a number, and what it issues is what it
\* checked unless something crossed it.
LEMMA IssueCommitsInv ==
  ASSUME IInv, NEW k \in Tabs, IssueCommits(k)
  PROVE  IInv'
<1> DEFINE r == req[k]
           C == Crossed(Analyses \ {r.a})
           row == [status |-> "ISSUED", imported |-> FALSE, number |-> r.number, doc |-> r.doc,
                   snapshot |-> Build(r.a), crossed |-> r.crossed]
<1>1. /\ r.at = "NUMBERED"
      /\ report' = [report EXCEPT ![r.a] = row]
      /\ open' = [open EXCEPT ![r.a] = FALSE]
      /\ numbering' = No
      /\ req' = [C EXCEPT ![k] = Idle]
      /\ UNCHANGED <<edits, asked, saves, latest, inserted, import>>
  BY DEF IssueCommits, drafting
<1>2. /\ r.a \in Analyses /\ r.doc \in Doc /\ r.doc.text # 0 /\ r.number \in Nat \ {0}
      /\ ~r.crossed => r.doc.data = Build(r.a)
  <2>1. r \in Numbered
    BY <1>1 DEF IInv, RequestInv, Idle, Pending
  <2> QED BY <1>1, <2>1 DEF IInv, RequestInv, Numbered, InIssue, IsChecked
<1>3. Build(r.a) \in Data
  BY <1>2, BuildType DEF IInv
<1>4. /\ C \in [Tabs -> {Idle} \cup Pending \cup Numbered]
      /\ \A j \in Tabs : C[j].at = req[j].at
      /\ \A j \in Tabs : req[j].at # "NONE" =>
           /\ C[j].a = req[j].a /\ C[j].op = req[j].op /\ C[j].doc = req[j].doc
           /\ req[j].at = "NUMBERED" => C[j].number = req[j].number
           /\ req[j].a \in Analyses \ {r.a} => C[j].crossed
           /\ req[j].a = r.a => C[j].crossed = req[j].crossed
  <2> HIDE DEF r
  <2> QED BY CrossedType DEF IInv
<1> HIDE DEF C
<1>5. /\ req' \in [Tabs -> {Idle} \cup Pending \cup Numbered]
      /\ req'[k] = Idle /\ \A j \in Tabs : j # k => req'[j] = C[j]
  BY <1>1, <1>4
<1>6. req'[k].at = "NONE"
  BY <1>5 DEF Idle
<1>7. /\ row.status = "ISSUED" /\ row.imported = FALSE /\ row.number = r.number /\ row.doc = r.doc
      /\ row.snapshot = Build(r.a) /\ row.crossed = r.crossed
  OBVIOUS
<1> HIDE DEF row
<1>8. /\ DOMAIN report' = Analyses /\ DOMAIN open' = Analyses
      /\ report'[r.a] = row /\ open'[r.a] = FALSE
      /\ \A a \in Analyses : a # r.a => report'[a] = report[a] /\ open'[a] = open[a]
  <2> HIDE DEF r
  <2> QED BY <1>1, <1>2 DEF IInv, RowInv
<1>9. \A j \in Tabs : req'[j].at # "NUMBERED"
  <2>1. ASSUME NEW j \in Tabs, j # k
        PROVE  req[j].at # "NUMBERED"
    BY <1>1, <2>1 DEF IInv, HasLock
  <2> QED BY <1>4, <1>5, <1>6, <2>1
<1>10. HasLock'
  BY <1>1, <1>9, ConstantsOK DEF HasLock
<1>11. TypeOK'
  <2>1. \A j \in Tabs : req'[j].at \in {"NONE", "READ", "CHECKED", "NUMBERED"}
    BY <1>4, <1>5, <1>6 DEF IInv, TypeOK
  <2>2. ASSUME NEW a \in Analyses
        PROVE  (/\ latest[a] \in Doc \cup {No}
                /\ Native(a) => report[a].number # 0 /\ report[a].doc \in Doc /\ report[a].snapshot \in Data /\ ~open[a]
                /\ Issued(a) => report[a].number \in Nat)'
    <3>1. CASE a = r.a
      <4> HIDE DEF r
      <4> QED BY <1>1, <1>2, <1>3, <1>7, <1>8, <3>1 DEF IInv, TypeOK, Native, Issued
    <3>2. CASE a # r.a
      <4> HIDE DEF r
      <4> QED BY <1>1, <1>8, <3>2 DEF IInv, TypeOK, Native, Issued
    <3> QED BY <3>1, <3>2
  <2> QED BY <1>1, <1>9, <2>1, <2>2 DEF IInv, TypeOK
<1>12. RowInv'
  BY <1>1, <1>7, <1>8 DEF IInv, RowInv, HasVersion
<1>13. RequestInv'
  BY <1>1, <1>4, <1>5, <1>6 DEF IInv, RequestInv
<1>14. ImportInv'
  BY <1>1 DEF IInv, ImportInv
<1>15. ASSUME NEW j \in Tabs, req'[j].at # "NONE", ~req'[j].crossed
       PROVE  /\ req'[j].a = r.a /\ req[j].a = r.a /\ ~req[j].crossed /\ req'[j].doc = req[j].doc
              /\ req'[j].op = req[j].op /\ req'[j].at = req[j].at
  <2>1. j # k /\ req'[j] = C[j] /\ req[j].at # "NONE"
    BY <1>4, <1>5, <1>6, <1>15
  <2>2. req[j].a \in Analyses
    BY <2>1 DEF IInv, RequestInv, Idle, Pending, Numbered
  <2> HIDE DEF r
  <2> QED BY <1>4, <1>15, <2>1, <2>2
<1>16. ASSUME NEW a \in Analyses, a = r.a
       PROVE  Build(a)' = Build(a)
  BY <1>1, <1>8, <1>16, BuildOfOthers
<1>17. GoesForward'
  <2>1. ASSUME NEW j \in Tabs, req'[j].at = "READ", ~req'[j].crossed
        PROVE  (/\ HasVersion(req[j].a) => req[j].doc.text >= latest[req[j].a].text
                /\ req[j].op # "SAVE" => req[j].doc.data = Build(req[j].a))'
    <3>1. /\ HasVersion(req[j].a) => req[j].doc.text >= latest[req[j].a].text
          /\ req[j].op # "SAVE" => req[j].doc.data = Build(req[j].a)
      BY <1>15, <2>1 DEF IInv, GoesForward
    <3>2. req'[j].a = req[j].a /\ req'[j].doc = req[j].doc /\ req'[j].op = req[j].op
      BY <1>15, <2>1
    <3>3. Build(req[j].a)' = Build(req[j].a)
      BY <1>2, <1>15, <1>16, <2>1
    <3> QED BY <1>1, <3>1, <3>2, <3>3 DEF HasVersion
  <2> QED BY <2>1 DEF GoesForward
<1>18. IsChecked'
  <2>1. ASSUME NEW j \in Tabs, req'[j].at \in InIssue, ~req'[j].crossed
        PROVE  (req[j].doc.data = Build(req[j].a))'
    <3>1. req[j].doc.data = Build(req[j].a) /\ req'[j].doc = req[j].doc
      BY <1>15, <2>1 DEF IInv, IsChecked, InIssue
    <3>2. Build(req[j].a)' = Build(req[j].a)
      BY <1>2, <1>15, <1>16, <2>1 DEF InIssue
    <3> QED BY <3>1, <3>2
  <2> QED BY <2>1 DEF IsChecked
<1>19. NumberInv'
  BY <1>9 DEF NumberInv
<1>20. IssuedInv'
  <2>1. ASSUME NEW a \in Analyses, Native(a)'
        PROVE  report'[a].doc.text # 0 /\ (~report'[a].crossed => report'[a].snapshot = report'[a].doc.data)
    <3>1. CASE a = r.a
      <4> HIDE DEF r
      <4>1. report'[a] = row
        BY <1>8, <3>1
      <4> HIDE DEF r
      <4>2. row.doc.text # 0 /\ (~row.crossed => row.snapshot = row.doc.data)
        BY <1>2, <1>7
      <4> QED BY <4>1, <4>2
    <3>2. CASE a # r.a
      <4> HIDE DEF r
      <4> QED BY <1>8, <2>1, <3>2 DEF IInv, IssuedInv, Native, Issued
    <3> QED BY <3>1, <3>2
  <2> QED BY <2>1 DEF IssuedInv
<1> QED BY <1>10, <1>11, <1>12, <1>13, <1>14, <1>17, <1>18, <1>19, <1>20 DEF IInv

\* A request ends without an effect, and lets go of the lock.
LEMMA RequestFailsInv ==
  ASSUME IInv, NEW k \in Tabs, RequestFails(k)
  PROVE  IInv'
<1>1. /\ req' = [req EXCEPT ![k] = Idle]
      /\ numbering' = IF numbering = k THEN No ELSE numbering
      /\ UNCHANGED <<edits, asked, saves, latest, inserted, report, open, import>>
  BY DEF RequestFails, drafting
<1>2. /\ req' \in [Tabs -> {Idle} \cup Pending \cup Numbered]
      /\ req'[k] = Idle /\ req'[k].at = "NONE" /\ \A j \in Tabs : j # k => req'[j] = req[j]
  BY <1>1 DEF IInv, RequestInv, Idle
<1>3. HasLock'
  BY <1>1, <1>2, ConstantsOK DEF IInv, HasLock
<1>4. TypeOK'
  <2>1. numbering' \in Tabs \cup {No}
    BY <1>1 DEF IInv, RequestInv
  <2>2. numbering' = No <=> \A j \in Tabs : req'[j].at # "NUMBERED"
    BY <1>3, <2>1, ConstantsOK DEF HasLock
  <2>3. \A j \in Tabs : req'[j].at \in {"NONE", "READ", "CHECKED", "NUMBERED"}
    BY <1>2 DEF IInv, TypeOK
  <2> QED BY <1>1, <2>2, <2>3 DEF IInv, TypeOK, Issued, Native
<1>5. RowInv'
  BY <1>1 DEF IInv, RowInv, HasVersion
<1>6. RequestInv'
  BY <1>1, <1>2 DEF IInv, RequestInv
<1>7. ImportInv'
  BY <1>1 DEF IInv, ImportInv
<1>8. \A b : Build(b)' = Build(b)
  BY <1>1, BuildSame
<1>9. GoesForward'
  BY <1>1, <1>2, <1>8 DEF IInv, GoesForward, HasVersion
<1>10. IsChecked'
  BY <1>1, <1>2, <1>8 DEF IInv, IsChecked, InIssue
<1>11. NumberInv'
  BY <1>1, <1>2 DEF IInv, NumberInv, Native, Issued
<1>12. IssuedInv'
  BY <1>1 DEF IInv, IssuedInv, Native, Issued
<1> QED BY <1>3, <1>4, <1>5, <1>6, <1>7, <1>9, <1>10, <1>11, <1>12 DEF IInv

-----------------------------------------------------------------------------
(* A report issued elsewhere is recorded.                                  *)

\* An import that reads, or fails, changes no row.
LEMMA ImportOnlyInv ==
  ASSUME IInv, (\E a \in Analyses, n \in 0..MaxNumber : ImportReads(a, n)) \/ ImportFails
  PROVE  IInv'
<1>1. UNCHANGED <<edits, asked, saves, latest, inserted, report, open, numbering, req>>
  BY DEF ImportReads, ImportFails, drafting, issuing
<1>2. ImportInv'
  <2>1. CASE ImportFails
    BY <2>1 DEF ImportFails, ImportInv
  <2>2. ASSUME NEW a \in Analyses, NEW n \in 0..MaxNumber, ImportReads(a, n)
        PROVE  ImportInv'
    <3>1. import' = [a |-> a, number |-> IF NumberTaken(a, n) THEN 0 ELSE n] /\ n \in Nat
      BY <2>2, ConstantsOK DEF ImportReads
    <3> QED BY <3>1 DEF ImportInv
  <2> QED BY <2>1, <2>2
<1>3. \A b : Build(b)' = Build(b)
  BY <1>1, BuildSame
<1>4. TypeOK' /\ RowInv' /\ RequestInv' /\ HasLock'
  BY <1>1 DEF IInv, TypeOK, RowInv, RequestInv, HasLock, HasVersion, Issued, Native
<1>5. GoesForward'
  BY <1>1, <1>3 DEF IInv, GoesForward, HasVersion
<1>6. IsChecked'
  BY <1>1, <1>3 DEF IInv, IsChecked
<1>7. NumberInv' /\ IssuedInv'
  BY <1>1 DEF IInv, NumberInv, IssuedInv, Native, Issued
<1> QED BY <1>2, <1>4, <1>5, <1>6, <1>7 DEF IInv

\* An import that commits writes a row that is not one issued here, and crosses every request.
LEMMA ImportCommitsInv ==
  ASSUME IInv, ImportCommits
  PROVE  IInv'
<1> DEFINE i == import
           row == [status |-> "ISSUED", imported |-> TRUE, number |-> i.number]
<1>1. /\ i.a \in Analyses /\ i.number \in Nat
      /\ report' = [report EXCEPT ![i.a] = row]
      /\ req' = Crossed(Analyses) /\ import' = No
      /\ UNCHANGED <<edits, asked, saves, latest, inserted, open, numbering>>
  BY DEF ImportCommits, drafting, IInv, ImportInv
<1>2. row.status = "ISSUED" /\ row.imported = TRUE /\ row.number = i.number
  OBVIOUS
<1> HIDE DEF row
<1>3. /\ DOMAIN report' = Analyses
      /\ \A a \in Analyses : report'[a] = IF a = i.a THEN row ELSE report[a]
  BY <1>1 DEF IInv, RowInv
<1> HIDE DEF i
<1>4. /\ req' \in [Tabs -> {Idle} \cup Pending \cup Numbered]
      /\ \A k \in Tabs : req'[k].at = req[k].at
      /\ \A k \in Tabs : req[k].at # "NONE" =>
           /\ req'[k].a = req[k].a /\ req'[k].op = req[k].op /\ req'[k].doc = req[k].doc
           /\ req[k].at = "NUMBERED" => req'[k].number = req[k].number
           /\ req[k].a \in Analyses => req'[k].crossed
  BY <1>1, CrossedType DEF IInv
<1>5. \A k \in Tabs : req[k].at # "NONE" => req[k].a \in Analyses
  BY DEF IInv, RequestInv, Idle, Pending, Numbered
<1>6. \A k \in Tabs : req[k].at # "NONE" => req'[k].crossed
  BY <1>4, <1>5
<1>7. \A a \in Analyses : Native(a)' => Native(a) /\ report'[a] = report[a]
  BY <1>2, <1>3 DEF Native, Issued
<1>8. HasLock'
  BY <1>1, <1>4 DEF IInv, HasLock
<1>9. TypeOK'
  <2>1. \A a \in Analyses : Issued(a)' => report'[a].number \in Nat
    BY <1>1, <1>2, <1>3 DEF IInv, TypeOK, Issued
  <2> QED BY <1>1, <1>4, <1>7, <2>1 DEF IInv, TypeOK
<1>10. RowInv'
  BY <1>1, <1>2, <1>3 DEF IInv, RowInv, HasVersion
<1>11. RequestInv'
  BY <1>1, <1>4 DEF IInv, RequestInv
<1>12. ImportInv'
  BY <1>1 DEF ImportInv
<1>13. GoesForward' /\ IsChecked'
  BY <1>4, <1>6 DEF GoesForward, IsChecked, InIssue
<1>14. NumberInv'
  BY <1>4, <1>7 DEF IInv, NumberInv
<1>15. IssuedInv'
  BY <1>7 DEF IInv, IssuedInv
<1> QED BY <1>8, <1>9, <1>10, <1>11, <1>12, <1>13, <1>14, <1>15 DEF IInv

-----------------------------------------------------------------------------
(* The theorems.                                                           *)

LEMMA InitInv == Init => IInv
<1> SUFFICES ASSUME Init PROVE IInv
  OBVIOUS
<1>1. \A a \in Analyses : report[a].status = "DRAFT" /\ latest[a] = No
  BY DEF Init, Draft0
<1>2. \A k \in Tabs : req[k] = Idle /\ req[k].at = "NONE"
  BY DEF Init, Idle
<1>3. TypeOK
  <2>1. edits \in 0..MaxEdits /\ asked \in BOOLEAN /\ saves \in 0..MaxSaves /\ inserted \in 0..MaxVersions
    <3>1. MaxEdits \in Nat /\ MaxSaves \in Nat /\ MaxVersions \in Nat
      BY ConstantsOK
    <3>2. edits = 0 /\ saves = 0 /\ inserted = 0 /\ asked = FALSE
      BY DEF Init
    <3>3. edits \in 0..MaxEdits /\ saves \in 0..MaxSaves /\ inserted \in 0..MaxVersions
      BY <3>1, <3>2
    <3>4. asked \in BOOLEAN
      BY <3>2
    <3> QED BY <3>3, <3>4
  <2>2. numbering = No
    BY DEF Init
  <2> QED BY <1>1, <1>2, <2>1, <2>2 DEF TypeOK, Native, Issued
<1>4. RowInv /\ RequestInv /\ ImportInv
  BY <1>1, <1>2 DEF Init, RowInv, RequestInv, ImportInv, HasVersion
<1>5. HasLock
  BY <1>2, ConstantsOK DEF Init, HasLock
<1>6. GoesForward /\ IsChecked /\ NumberInv /\ IssuedInv
  BY <1>1, <1>2 DEF GoesForward, IsChecked, NumberInv, IssuedInv, Native, Issued, InIssue
<1> QED BY <1>3, <1>4, <1>5, <1>6 DEF IInv

\* Every step keeps what requests hold of what they read.
THEOREM StepInv == IInv /\ [Next]_vars => IInv'
<1> SUFFICES ASSUME IInv, [Next]_vars PROVE IInv'
  OBVIOUS
<1>1. CASE Edit \/ AttachUnrequestedAnalyses
  BY <1>1, EditInv
<1>2. ASSUME NEW k \in Tabs, NEW a \in Analyses, Draft(k, a) \/ Save(k, a) \/ Refresh(k, a) \/ IssueReads(k, a)
      PROVE  IInv'
  BY <1>2, CallsInv
<1>3. ASSUME NEW k \in Tabs, AddVersion(k) \/ IssueNumbers(k) \/ IssueCommits(k) \/ RequestFails(k)
      PROVE  IInv'
  BY <1>3, AddVersionInv, IssueNumbersInv, IssueCommitsInv, RequestFailsInv
<1>4. CASE (\E a \in Analyses, n \in 0..MaxNumber : ImportReads(a, n)) \/ ImportFails
  BY <1>4, ImportOnlyInv
<1>5. CASE ImportCommits
  BY <1>5, ImportCommitsInv
<1>6. CASE UNCHANGED vars
  <2>1. UNCHANGED <<edits, asked, saves, latest, inserted, report, open, numbering, req, import>>
    BY <1>6 DEF vars, drafting, issuing
  <2>2. \A b : Build(b)' = Build(b)
    BY <2>1, BuildSame
  <2>3. TypeOK' /\ RowInv' /\ RequestInv' /\ HasLock' /\ ImportInv'
    BY <2>1 DEF IInv, TypeOK, RowInv, RequestInv, HasLock, ImportInv, HasVersion, Issued, Native
  <2>4. GoesForward' /\ IsChecked'
    BY <2>1, <2>2 DEF IInv, GoesForward, IsChecked, HasVersion
  <2>5. NumberInv' /\ IssuedInv'
    BY <2>1 DEF IInv, NumberInv, IssuedInv, Native, Issued
  <2> QED BY <2>3, <2>4, <2>5 DEF IInv
<1> QED BY <1>1, <1>2, <1>3, <1>4, <1>5, <1>6 DEF Next

LEMMA Always == Spec => []IInv
<1> QED BY InitInv, StepInv, PTL DEF Spec

\* The rows and requests of Reports have their types, for any comparisons, tabs and bounds.
THEOREM TypeCorrect == Spec => []TypeOK
<1>1. IInv => TypeOK
  BY DEF IInv
<1> QED BY Always, <1>1, PTL

-----------------------------------------------------------------------------
(* What no crossing undoes.                                                *)

\* A document is of the data as it is or was.
OfThePast(doc) == doc.data.edits <= edits

\* Every document drafted or in flight is of the past, every one issued froze no older data, and the
\* index keeps the numbers apart.
PastInv ==
  /\ \A a \in Analyses : HasVersion(a) => OfThePast(latest[a])
  /\ \A k \in Tabs : req[k].at # "NONE" => OfThePast(req[k].doc)
  /\ \A a \in Analyses : Native(a) => report[a].doc.data.edits <= report[a].snapshot.edits
  /\ \A a, b \in Analyses :
       a # b /\ Issued(a) /\ Issued(b) /\ report[a].number # 0 => report[a].number # report[b].number

\* A request that reads takes the data as it is, or the latest version's.
LEMMA ReadsPast ==
  ASSUME IInv, PastInv, NEW k \in Tabs, NEW a \in Analyses,
         Draft(k, a) \/ Save(k, a) \/ Refresh(k, a) \/ IssueReads(k, a)
  PROVE  PastInv'
<1>1. edits \in Nat /\ Build(a).edits = edits
  BY ConstantsOK DEF IInv, TypeOK, Build
<1>2. UNCHANGED <<edits, latest, report>>
  BY DEF Draft, Save, Refresh, IssueReads, drafting, issuing
<1>3. PICK d : OfThePast(d) /\ \E op \in Ops : Reads(k, op, a, d)
  <2>1. CASE Draft(k, a)
    BY <1>1, <2>1 DEF Draft, OfThePast, Ops
  <2>2. CASE Save(k, a)
    BY <2>2 DEF Save, OfThePast, Ops, PastInv
  <2>3. CASE Refresh(k, a)
    BY <1>1, <2>3 DEF Refresh, OfThePast, Ops
  <2>4. CASE IssueReads(k, a)
    BY <2>4 DEF IssueReads, OfThePast, Ops, PastInv
  <2> QED BY <2>1, <2>2, <2>3, <2>4
<1>4. req'[k].doc = d /\ \A j \in Tabs : j # k => req'[j] = req[j]
  BY <1>3 DEF Reads, IInv, RequestInv
<1> QED BY <1>2, <1>3, <1>4 DEF PastInv, OfThePast, HasVersion, Native, Issued

\* A request that ends, or takes a number, leaves the documents as they are.
LEMMA RequestPast ==
  ASSUME IInv, PastInv, NEW k \in Tabs, AddVersion(k) \/ IssueNumbers(k) \/ RequestFails(k)
  PROVE  PastInv'
<1>1. UNCHANGED <<edits, report>>
  BY DEF AddVersion, IssueNumbers, RequestFails, drafting, issuing
<1>2. ASSUME NEW j \in Tabs, req'[j].at # "NONE"
      PROVE  req[j].at # "NONE" /\ req'[j].doc = req[j].doc
  <2>1. CASE AddVersion(k)
    <3> DEFINE C == Crossed({req[k].a})
    <3>1. DOMAIN C = Tabs /\ C[j].at = req[j].at /\ (req[j].at # "NONE" => C[j].doc = req[j].doc)
      BY CrossedType DEF IInv
    <3>2. req' = [C EXCEPT ![k] = Idle]
      BY <2>1 DEF AddVersion
    <3> HIDE DEF C
    <3> QED BY <1>2, <3>1, <3>2 DEF Idle
  <2>2. CASE IssueNumbers(k)
    <3> HIDE DEF MaxReportNumber
    <3> QED BY <1>2, <2>2 DEF IssueNumbers, IInv, RequestInv
  <2>3. CASE RequestFails(k)
    BY <1>2, <2>3 DEF RequestFails, IInv, RequestInv, Idle
  <2> QED BY <2>1, <2>2, <2>3
<1>3. ASSUME NEW a \in Analyses, HasVersion(a)'
      PROVE  OfThePast(latest'[a])
  <2>1. CASE UNCHANGED latest
    BY <1>3, <2>1 DEF PastInv, HasVersion
  <2>2. CASE AddVersion(k)
    <3>1. latest'[a] = IF a = req[k].a THEN req[k].doc ELSE latest[a]
      BY <2>2 DEF AddVersion, IInv, RowInv
    <3>2. OfThePast(req[k].doc)
      BY <2>2 DEF AddVersion, PastInv
    <3> QED BY <1>3, <3>1, <3>2 DEF PastInv, HasVersion
  <2> QED BY <2>1, <2>2 DEF IssueNumbers, RequestFails, drafting
<1> QED BY <1>1, <1>2, <1>3 DEF PastInv, OfThePast, Native, Issued

\* What changes the data, or records an import, leaves the documents as they are.
LEMMA CrossedPast ==
  ASSUME IInv, PastInv, Edit \/ AttachUnrequestedAnalyses \/ ImportCommits
  PROVE  PastInv'
<1>1. edits \in Nat /\ edits' \in Nat /\ edits <= edits' /\ UNCHANGED latest /\ req' = Crossed(Analyses)
  BY ConstantsOK DEF Edit, AttachUnrequestedAnalyses, ImportCommits, drafting, IInv, TypeOK
<1>2. \A k \in Tabs : req'[k].at # "NONE" => req[k].at # "NONE" /\ req'[k].doc = req[k].doc
  BY <1>1, CrossedType DEF IInv
<1>3. ASSUME NEW doc \in Doc, OfThePast(doc)
      PROVE  OfThePast(doc)'
  <2>1. doc.data.edits \in Nat
    BY ConstantsOK DEF Doc, Data
  <2> QED BY <1>1, <1>3, <2>1 DEF OfThePast
<1>4. \A a \in Analyses : HasVersion(a)' => OfThePast(latest[a])'
  BY <1>1, <1>3 DEF PastInv, HasVersion, IInv, RowInv
<1>5. \A k \in Tabs : (req[k].at # "NONE" => OfThePast(req[k].doc))'
  <2>1. \A k \in Tabs : req[k].at # "NONE" => req[k].doc \in Doc
    BY DEF IInv, RequestInv, Idle, Pending, Numbered
  <2> QED BY <1>2, <1>3, <2>1 DEF PastInv
<1>6. CASE UNCHANGED report
  BY <1>4, <1>5, <1>6 DEF PastInv, Native, Issued
<1>7. CASE ImportCommits
  <2> DEFINE row == [status |-> "ISSUED", imported |-> TRUE, number |-> import.number]
  <2>1. /\ import.a \in Analyses
        /\ \A a \in Analyses : report'[a] = IF a = import.a THEN row ELSE report[a]
        /\ import.number = 0 \/ ~NumberTaken(import.a, import.number)
    BY <1>7 DEF ImportCommits, IInv, ImportInv, RowInv
  <2>2. row.status = "ISSUED" /\ row.imported = TRUE /\ row.number = import.number
    OBVIOUS
  <2> HIDE DEF row
  <2>3. \A a \in Analyses : Native(a)' => report[a].doc.data.edits <= report[a].snapshot.edits /\ report'[a] = report[a]
    BY <2>1, <2>2 DEF PastInv, Native, Issued
  <2>4. ASSUME NEW a \in Analyses, NEW b \in Analyses, a # b, Issued(a)', Issued(b)', report'[a].number # 0
        PROVE  report'[a].number # report'[b].number
    <3>1. CASE a = import.a
      BY <2>1, <2>2, <2>4, <3>1 DEF NumberTaken, Issued
    <3>2. CASE b = import.a
      BY <2>1, <2>2, <2>4, <3>2 DEF NumberTaken, Issued
    <3>3. CASE a # import.a /\ b # import.a
      BY <2>1, <2>4, <3>3 DEF PastInv, Issued
    <3> QED BY <3>1, <3>2, <3>3
  <2> QED BY <1>4, <1>5, <2>3, <2>4 DEF PastInv
<1> QED BY <1>6, <1>7 DEF Edit, AttachUnrequestedAnalyses, issuing

\* An issue freezes the data as it is, and its number is nobody's.
LEMMA CommitsPast ==
  ASSUME IInv, PastInv, NEW k \in Tabs, IssueCommits(k)
  PROVE  PastInv'
<1> DEFINE r   == req[k]
           C   == Crossed(Analyses \ {r.a})
           row == [status |-> "ISSUED", imported |-> FALSE, number |-> r.number, doc |-> r.doc,
                   snapshot |-> Build(r.a), crossed |-> r.crossed]
<1>1. /\ r.at = "NUMBERED" /\ ~Taken(r.number)
      /\ report' = [report EXCEPT ![r.a] = row]
      /\ req' = [C EXCEPT ![k] = Idle]
      /\ UNCHANGED <<edits, latest>>
  BY DEF IssueCommits, drafting
<1>2. r.a \in Analyses /\ r.number \in Nat \ {0} /\ OfThePast(r.doc)
  <2>1. r \in Numbered
    BY <1>1 DEF IInv, RequestInv, Idle, Pending
  <2> QED BY <1>1, <2>1 DEF Numbered, PastInv
<1>3. /\ row.status = "ISSUED" /\ row.imported = FALSE /\ row.number = r.number
      /\ row.doc = r.doc /\ row.snapshot.edits = edits
  BY DEF Build
<1>4. DOMAIN C = Tabs /\ \A j \in Tabs : C[j].at = req[j].at /\ (req[j].at # "NONE" => C[j].doc = req[j].doc)
  BY CrossedType DEF IInv
<1> HIDE DEF C, row, r
<1>5. \A a \in Analyses : report'[a] = IF a = r.a THEN row ELSE report[a]
  BY <1>1, <1>2 DEF IInv, RowInv
<1>6. \A j \in Tabs : req'[j].at # "NONE" => req[j].at # "NONE" /\ req'[j].doc = req[j].doc
  BY <1>1, <1>4 DEF Idle
<1>7. \A a \in Analyses : Native(a)' => report'[a].doc.data.edits <= report'[a].snapshot.edits
  BY <1>2, <1>3, <1>5 DEF PastInv, Native, Issued, OfThePast
<1>8. ASSUME NEW a \in Analyses, NEW b \in Analyses, a # b, Issued(a)', Issued(b)', report'[a].number # 0
      PROVE  report'[a].number # report'[b].number
  <2>1. CASE a # r.a /\ b # r.a
    BY <1>5, <1>8, <2>1 DEF PastInv, Issued
  <2>2. CASE a = r.a \/ b = r.a
    BY <1>1, <1>2, <1>3, <1>5, <1>8, <2>2 DEF Taken, Issued
  <2> QED BY <2>1, <2>2
<1> QED BY <1>1, <1>6, <1>7, <1>8 DEF PastInv, OfThePast, HasVersion

LEMMA PastAlways == Spec => [](IInv /\ PastInv)
<1>1. Init => PastInv
  BY DEF Init, PastInv, HasVersion, Native, Issued, Idle, Draft0
<1>2. IInv /\ PastInv /\ [Next]_vars => PastInv'
  <2> SUFFICES ASSUME IInv, PastInv, [Next]_vars PROVE PastInv'
    OBVIOUS
  <2>1. CASE UNCHANGED <<edits, latest, report, req>>
    BY <2>1 DEF PastInv, OfThePast, HasVersion, Native, Issued
  <2> QED BY <2>1, ReadsPast, RequestPast, CrossedPast, CommitsPast
          DEF Next, vars, drafting, issuing, ImportReads, ImportFails
<1> QED BY Always, <1>1, <1>2, PTL DEF Spec

\* The number an issue takes under the numbering lock stays past every number given here until it
\* commits or fails (IssueReport).  An import, which does not take the lock, may commit that number
\* first; no two reports ever have the same.
THEOREM NumberIsFreeAlways == Spec => []NumberIsFree
<1>1. IInv /\ PastInv => NumberIsFree
  BY DEF IInv, NumberInv, PastInv, NumberIsFree
<1> QED BY PastAlways, <1>1, PTL

\* What was issued here was written, froze no older data than it shows, and is of the data it froze
\* unless that changed on the way.
THEOREM IssuedAsCheckedAlways == Spec => []IssuedAsChecked
<1>1. IInv /\ PastInv => IssuedAsChecked
  BY DEF IInv, IssuedInv, PastInv, IssuedAsChecked
<1> QED BY PastAlways, <1>1, PTL

\* No step of IssueReport or RecordImported touches a report that is issued here.
THEOREM IssuedStandsAlways == Spec => IssuedStands
<1> DEFINE Stands == \A a \in Analyses :
             /\ Native(a) => report'[a] = report[a]
             /\ Issued(a) /\ ~Native(a) => Issued(a)' /\ ~Native(a)'
<1>1. ASSUME IInv, [Next]_vars
      PROVE  Stands
  <2>1. DOMAIN report = Analyses
    BY <1>1 DEF IInv, RowInv
  <2>2. CASE UNCHANGED report
    BY <2>2 DEF Native, Issued
  <2>3. ASSUME NEW k \in Tabs, IssueCommits(k)
        PROVE  Stands
    <3> DEFINE b == req[k].a
    <3>1. report[b].status = "DRAFT" /\ \A a \in Analyses : a # b => report'[a] = report[a]
      BY <2>1, <2>3 DEF IssueCommits
    <3> QED BY <3>1 DEF Native, Issued
  <2>4. CASE ImportCommits
    <3> DEFINE row == [status |-> "ISSUED", imported |-> TRUE, number |-> import.number]
    <3>1. ~Native(import.a) /\ \A a \in Analyses : report'[a] = IF a = import.a THEN row ELSE report[a]
      BY <2>1, <2>4 DEF ImportCommits
    <3>2. row.status = "ISSUED" /\ row.imported = TRUE
      OBVIOUS
    <3> HIDE DEF row
    <3> QED BY <3>1, <3>2 DEF Native, Issued
  <2>5. UNCHANGED report \/ (\E k \in Tabs : IssueCommits(k)) \/ ImportCommits
    BY <1>1 DEF Next, vars, issuing, drafting, Edit, AttachUnrequestedAnalyses, Draft, Save, Refresh, IssueReads, AddVersion,
       IssueNumbers, RequestFails, ImportReads, ImportFails
  <2> QED BY <2>2, <2>3, <2>4, <2>5
<1>2. IInv /\ [Next]_vars => [Stands]_vars
  BY <1>1
<1> QED BY Always, <1>2, PTL DEF Spec, IssuedStands

\* A version that is added is not behind the one it follows, unless something came between (addVersion).
THEOREM DraftGoesForwardAlways == Spec => DraftGoesForward
<1> DEFINE Forward == \A k \in Tabs, a \in Analyses : Adds(k) /\ req[k].a = a /\ ~req[k].crossed =>
             /\ HasVersion(a) => latest'[a].text >= latest[a].text
             /\ req[k].op # "SAVE" => latest'[a].data = Build(a)
<1>1. ASSUME IInv, [Next]_vars
      PROVE  Forward
  <2> SUFFICES ASSUME NEW k \in Tabs, NEW a \in Analyses, Adds(k), req[k].a = a, ~req[k].crossed
               PROVE  /\ HasVersion(a) => latest'[a].text >= latest[a].text
                      /\ req[k].op # "SAVE" => latest'[a].data = Build(a)
    OBVIOUS
  <2>1. PICK j \in Tabs : AddVersion(j)
    BY <1>1 DEF Adds, Next, vars, issuing, drafting, Edit, AttachUnrequestedAnalyses, Draft, Save, Refresh, IssueReads,
       IssueNumbers, IssueCommits, RequestFails, ImportReads, ImportCommits, ImportFails
  <2>2. j = k
    <3>1. ASSUME j # k
          PROVE  req'[k].at = req[k].at
      <4>1. req' = [Crossed({req[j].a}) EXCEPT ![j] = Idle]
        BY <2>1 DEF AddVersion
      <4>2. Crossed({req[j].a})[k].at = req[k].at /\ DOMAIN Crossed({req[j].a}) = Tabs
        BY <1>1, CrossedType DEF IInv
      <4> QED BY <3>1, <4>1, <4>2
    <3> QED BY <3>1 DEF Adds
  <2>3. latest'[a] = req[k].doc
    BY <1>1, <2>1, <2>2 DEF AddVersion, IInv, RowInv
  <2> QED BY <1>1, <2>3 DEF Adds, IInv, GoesForward
<1>2. IInv /\ [Next]_vars => [Forward]_vars
  BY <1>1
<1> QED BY Always, <1>2, PTL DEF Spec, DraftGoesForward
=============================================================================
