-------------------------------- MODULE Requests -------------------------------
(***************************************************************************)
(* Requests arriving: a registration opens new cases, numbered after the   *)
(* year's last, and joins existing ones; a later request joins a case; one *)
(* registered under the wrong case moves, with what answers it; analyses   *)
(* are opened and files marked under a request. Each is a transaction that *)
(* locks the rows of the cases it changes.                                 *)
(*                                                                         *)
(* A case is its number. What a transaction writes to a case it holds is   *)
(* seen by nobody before the commit, and is modelled there; the numbers it *)
(* took for new cases are not free to others meanwhile.                    *)
(***************************************************************************)
EXTENDS Integers, FiniteSetsExt, SequencesExt

CONSTANTS
  Sessions,     \* callers at once
  Requests,
  MaxCases,     \* bound on the cases of the year
  MaxJoins,     \* bound on the existing cases a registration names
  MaxNew,       \* bound on the new cases it opens
  MaxAttempts,  \* maxNumberingAttempts of cases and maxAttempts of requests
  MaxSequence,  \* bound on the place a moved request takes among a case's
  No            \* no request

ASSUME ConstantsOK ==
  /\ IsFiniteSet(Sessions) /\ {MaxCases, MaxJoins, MaxNew, MaxAttempts, MaxSequence} \subseteq Nat
  /\ No \notin Requests

VARIABLES
  cases,   \* the committed cases
  links,   \* case_request_cases: [r, c, seq]
  answers, \* what is marked as answering a request: analyses, and the files it sent in
  astray,  \* ghost: the answers written by who saw the request on the case before it moved away
  tx       \* tx[s]: the caller's transaction

data == <<cases, links, answers, astray>>
vars == <<data, tx>>

AllCases == 1..MaxCases
Kinds    == {"ANALYSIS", "FILE"}
Answers  == [kind : Kinds, c : AllCases, r : Requests \cup {No}]
Idle     == [at |-> "NONE", mine |-> {}, locks |-> {}]

On(r, c)    == \E l \in links : l.r = r /\ l.c = c
Sequences(c) == {l.seq : l \in {l \in links : l.c = c}}
\* Fault: the requests on the case are counted.
NextSequenceCounted(c) == Cardinality(Sequences(c)) + 1

\* LinkCaseRequest and MoveCaseRequestLink: one past the case's last.
NextSequence(c) == Max(Sequences(c) \cup {0}) + 1

Taken       == UNION {tx[s].mine : s \in Sessions}
Answer(k, c, r) == [kind |-> k, c |-> c, r |-> r]

TypeOK ==
  /\ cases \subseteq AllCases
  /\ \A l \in links : l.r \in Requests /\ l.c \in cases /\ l.seq \in Nat \ {0}
  /\ answers \subseteq Answers /\ astray \subseteq answers
  /\ \A l, m \in links : l.c = m.c /\ (l.seq = m.seq \/ l.r = m.r) => l = m
  /\ \A s, t \in Sessions : s # t => tx[s].mine \cap (tx[t].mine \cup cases) = {} /\ tx[s].locks \cap tx[t].locks = {}

Init == cases = {} /\ links = {} /\ answers = {} /\ astray = {} /\ tx = [s \in Sessions |-> Idle]

-----------------------------------------------------------------------------
(* What the callers ask.                                                   *)

\* A transaction begins: what it is to do, the cases it is to open and the rows it is to lock, in order.
Begins(s, op, at, r, joins, new, wants) ==
  /\ tx[s].at = "NONE"
  /\ tx' = [tx EXCEPT ![s] = [at |-> at, op |-> op, r |-> r, joins |-> joins, new |-> new, max |-> 0, tries |-> 1,
                              wants |-> wants, mine |-> {}, locks |-> {}, crossed |-> FALSE]]
  /\ UNCHANGED data

Unused == {r \in Requests : (\A l \in links : l.r # r) /\ (\A s \in Sessions : tx[s].at # "NONE" => tx[s].r # r)}

\* cases.Create: a case with no request yet.
CreateCase(s) == Begins(s, "CASE", "NUMBER", No, <<>>, 1, <<>>)

\* Register: new cases and existing ones, in the order the coordinator named them, each once.
Register(s, r, joins, new) ==
  /\ r \in Unused /\ Len(joins) + new > 0 /\ IsInjective(joins) /\ Range(joins) \subseteq cases
  /\ Begins(s, "REGISTER", IF new > 0 THEN "NUMBER" ELSE "LOCK", r, joins, new, joins)

\* Create: a later request on a case, with the files of the case it sent in.
Create(s, r, c) ==
  /\ r \in Unused /\ c \in cases
  /\ Begins(s, "CREATE", "LOCK", r, <<c>>, 0, <<c>>)

\* Fault: the cases are locked as the call names them.
LockOrderAsNamed(from, to) == <<from, to>>

\* In a fixed order.
LockOrder(from, to) == IF from < to THEN <<from, to>> ELSE <<to, from>>

MoveToCase(s, r, from, to) ==
  /\ {from, to} \subseteq cases /\ from # to
  /\ Begins(s, "MOVE", "LOCK", r, <<from, to>>, 0, LockOrder(from, to))

\* The request an analysis of c answers when the coordinator names none: the latest that joined it.
LatestCaseRequest(r, c) ==
  IF Sequences(c) = {} THEN r = No ELSE \E l \in links : l.c = c /\ l.r = r /\ l.seq = Max(Sequences(c))

\* OpenWith: the request is read, and then the case locked.
OpenWith(s, r, c) ==
  /\ c \in cases /\ (LatestCaseRequest(r, c) \/ On(r, c))
  /\ Begins(s, "OPEN", "LOCK", r, <<c>>, 0, <<c>>)

\* Check: the request is one of the case's; what follows takes no lock.
AttachFiles(s, r, c) ==
  /\ On(r, c)
  /\ Begins(s, "ATTACH", "READY", r, <<c>>, 0, <<>>)

-----------------------------------------------------------------------------
(* Numbering and locking.                                                  *)

\* Fault: numbers of cases not committed count too, as a sequence would count them.
MaxCaseNumberForYearOfAll(s) == Max(cases \cup Taken \cup {0})

\* The highest number a transaction sees: the committed ones and its own.
MaxCaseNumberForYear(s) == Max(cases \cup tx[s].mine \cup {0})

ReadsMax(s) ==
  /\ tx[s].at = "NUMBER" /\ MaxCaseNumberForYear(s) < MaxCases
  /\ tx' = [tx EXCEPT ![s].at = "INSERT", ![s].max = MaxCaseNumberForYear(s)]
  /\ UNCHANGED data

\* The number was taken: the whole transaction is rolled back and tried again.
AfterDuplicate(t) == IF t.tries = MaxAttempts THEN Idle ELSE [t EXCEPT !.at = "NUMBER", !.mine = {}, !.tries = t.tries + 1]

AfterInsert(t, n) ==
  [t EXCEPT !.mine = @ \cup {n}, !.at = IF Cardinality(t.mine) + 1 < t.new THEN "NUMBER" ELSE IF t.wants = <<>> THEN "READY" ELSE "LOCK"]

\* CreateBiometricCase: the unique index makes it wait for whoever took the number.
InsertsCase(s) ==
  /\ tx[s].at = "INSERT" /\ tx[s].max + 1 \notin Taken
  /\ tx' = [tx EXCEPT ![s] = IF @.max + 1 \in cases THEN AfterDuplicate(@) ELSE AfterInsert(@, @.max + 1)]
  /\ UNCHANGED data

\* LockBiometricCase: waits for whoever holds the row.
Locks(s) ==
  /\ tx[s].at = "LOCK" /\ \A t \in Sessions : Head(tx[s].wants) \notin tx[t].locks
  /\ tx' = [tx EXCEPT ![s].locks = @ \cup {Head(tx[s].wants)}, ![s].wants = Tail(@), ![s].at = IF Len(tx[s].wants) = 1 THEN "READY" ELSE "LOCK"]
  /\ UNCHANGED data

\* Refused, the connection lost, or chosen by the database to break a deadlock: nothing is kept.
Fails(s) ==
  /\ tx[s].at # "NONE"
  /\ tx' = [tx EXCEPT ![s] = Idle]
  /\ UNCHANGED data

-----------------------------------------------------------------------------
(* What is written.                                                        *)

\* AttachUnrequestedAnalyses: what the first request of a case takes.
Unrequested(all) == {a \in answers : a.c \in all /\ Sequences(a.c) = {} /\ a.kind = "ANALYSIS" /\ a.r = No}

\* joinCase for each case, as its next request, and OpenIn; a CREATE brings files too.
Registers(s) ==
  LET r   == tx[s].r
      all == Range(tx[s].joins) \cup tx[s].mine
      new == {Answer(k, c, r) : k \in IF tx[s].op = "CREATE" THEN Kinds ELSE {"ANALYSIS"}, c \in all}
  IN /\ cases' = cases \cup tx[s].mine
     /\ links' = links \cup {[r |-> r, c |-> c, seq |-> NextSequence(c)] : c \in all}
     /\ answers' = (answers \ Unrequested(all)) \cup {[a EXCEPT !.r = r] : a \in Unrequested(all)} \cup new
     /\ tx' = [tx EXCEPT ![s] = Idle]
     /\ UNCHANGED astray

\* The case of a CASE commits.
CreatesCase(s) ==
  /\ cases' = cases \cup tx[s].mine
  /\ tx' = [tx EXCEPT ![s] = Idle]
  /\ UNCHANGED <<links, answers, astray>>

\* Fault: only the link and the files move.
MovedWithoutAnalyses(as, r, from, to) == {IF a.c = from /\ a.r = r /\ a.kind = "FILE" THEN [a EXCEPT !.c = to] ELSE a : a \in as}

\* MoveRequestAnalyses and MoveRequestFiles: what answers the request follows it.
Moved(as, r, from, to) == {IF a.c = from /\ a.r = r THEN [a EXCEPT !.c = to] ELSE a : a \in as}

\* A call that read the request on the case, and is to write an answer to it.
IsAnswering(t) == tx[t].at # "NONE" /\ tx[t].op \in {"OPEN", "ATTACH"}

\* MoveCaseRequestLink, refused when the request is not on the one case or already on the other;
\* whoever saw it on the first case goes on regardless.
Moves(s) ==
  LET r == tx[s].r  from == tx[s].joins[1]  to == tx[s].joins[2]
  IN /\ On(r, from) /\ ~On(r, to) /\ NextSequence(to) <= MaxSequence
     /\ links' = {l \in links : l.r # r \/ l.c # from} \cup {[r |-> r, c |-> to, seq |-> NextSequence(to)]}
     /\ answers' = Moved(answers, r, from, to)
     /\ astray' = {a \in astray : a.r # r \/ a.c \notin {from, to}}
     /\ tx' = [t \in Sessions |->
                 IF t = s THEN Idle
                 ELSE IF IsAnswering(t) /\ tx[t].r = r /\ tx[t].joins = <<from>> THEN [tx[t] EXCEPT !.crossed = TRUE] ELSE tx[t]]
     /\ UNCHANGED cases

\* InsertCaseAnalysis, or AttachRequestFiles.
Answering(s) ==
  LET a == Answer(IF tx[s].op = "OPEN" THEN "ANALYSIS" ELSE "FILE", tx[s].joins[1], tx[s].r)
  IN /\ answers' = answers \cup {a}
     /\ astray' = IF tx[s].crossed THEN astray \cup {a} ELSE astray
     /\ tx' = [tx EXCEPT ![s] = Idle]
     /\ UNCHANGED <<cases, links>>

Commits(s) ==
  /\ tx[s].at = "READY"
  /\ \/ tx[s].op = "CASE" /\ CreatesCase(s)
     \/ tx[s].op \in {"REGISTER", "CREATE"} /\ Registers(s)
     \/ tx[s].op = "MOVE" /\ Moves(s)
     \/ tx[s].op \in {"OPEN", "ATTACH"} /\ Answering(s)

-----------------------------------------------------------------------------
Next ==
  \/ \E s \in Sessions :
       \/ CreateCase(s)
       \/ \E r \in Requests, joins \in BoundedSeq(cases, MaxJoins), new \in 0..MaxNew : Register(s, r, joins, new)
       \/ \E r \in Requests, c \in cases : Create(s, r, c) \/ AttachFiles(s, r, c)
       \/ \E r \in Requests \cup {No}, c \in cases : OpenWith(s, r, c)
       \/ \E l \in links, to \in cases : MoveToCase(s, l.r, l.c, to)
       \/ ReadsMax(s) \/ InsertsCase(s) \/ Locks(s) \/ Commits(s) \/ Fails(s)

Spec == Init /\ [][Next]_vars

-----------------------------------------------------------------------------
(* Properties.                                                             *)

\* The year's cases are numbered from 1 without a gap, whatever registrations race, wait for each
\* other's numbers, start again or are rolled back with numbers taken (cases.CreateWith).
NumberedWithoutGaps == cases = 1..Cardinality(cases)

\* What answers a request is on a case the request is on, through registrations and moves, except
\* what was written by a call that had seen the request there before it moved away
\* (requests.MoveToCase: "with the analyses that answer it and the material it sent in").
AnswersFollowTheRequest == \A a \in answers \ astray : a.r # No => On(a.r, a.c)

\* Callers that all wait for one another, each for a row or a number another of them holds.
WaitsFor(s, t) ==
  \/ tx[s].at = "LOCK" /\ Head(tx[s].wants) \in tx[t].locks
  \/ tx[s].at = "INSERT" /\ tx[s].max + 1 \in tx[t].mine
Deadlocked(ss) == ss # {} /\ \A s \in ss : \E t \in ss \ {s} : WaitsFor(s, t)

\* Moves, numbering, analyses and later requests never wait for one another in a circle: in one there
\* is always a registration that joins several cases, which locks them in the order it was given them
\* (requests.MoveToCase: "In a fixed order, so two moves in opposite directions can't deadlock").
OnlyRegistrationsDeadlock == \A ss \in SUBSET Sessions : Deadlocked(ss) => \E s \in ss : tx[s].op = "REGISTER" /\ Len(tx[s].joins) > 1

-----------------------------------------------------------------------------
(* Claims the code does not keep, each shown by a counterexample.          *)

\* requests.MoveToCase moves a request "with the analyses that answer it and the material it sent in":
\* broken by OpenWith and AttachFiles, which look at the request before they lock the case, or never do.
AnswersAreOnTheirCase == \A a \in answers : a.r # No => On(a.r, a.c)

\* db.AttachUnrequestedAnalyses: "Analyses of a case opened before it had any request (its automatic
\* review) answer its first one": broken by OpenWith, which sees no request and then waits for the
\* registration that brings the first, and by MoveToCase, whose request may be the case's first.
UnrequestedAnswerTheFirst == \A a \in answers : a.kind = "ANALYSIS" /\ Sequences(a.c) # {} => a.r # No

\* Nobody waits in a circle: broken by two registrations that name the same cases in opposite orders.
NobodyDeadlocks == \A ss \in SUBSET Sessions : ~Deadlocked(ss)
==============================================================================
