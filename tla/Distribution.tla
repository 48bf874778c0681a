----------------------------- MODULE Distribution -----------------------------
(***************************************************************************)
(* Handing the steps of several analyses out to examiners: Distribute and  *)
(* Assign (src/distribution/distribution.go), as calls that each hold a    *)
(* connection of the pool for their transaction, wait for the distribution *)
(* lock, read in several statements and write, while examiners draft and   *)
(* submit under other locks.                                               *)
(*                                                                         *)
(* Users and analyses are numbers: ids break ties, and an older analysis   *)
(* has a lower number.  Analyses of one subject have the same pairs.       *)
(* Stages move as Examination has them; here the next one is left open.    *)
(***************************************************************************)
EXTENDS Naturals, Sequences, FiniteSetsExt, Functions

CONSTANTS
  Users,    \* active examiners
  NoUser,   \* nobody: a pending step
  Analyses, \* analyses, oldest first
  TypeOf,   \* TypeOf[a]: the analysis's type
  Examine,  \* Examine[t]: the users who examine the modality of type t
  Subject,  \* Subject[a]: what its pairs are of
  Calls,    \* requests being served
  NoCall,   \* the lock is free
  PoolSize, \* connections in the pool (SetMaxOpenConns)
  MaxCount, \* bound on the count a distribution is asked for
  MaxCalls  \* bound on how many calls begin

Steps == {"VERIFICATOR", "REVIEWER", "INCONSISTENCE"}
Types == {TypeOf[a] : a \in Analyses}

ASSUME ConstantsOK ==
  /\ Users \subseteq Nat /\ IsFiniteSet(Users) /\ NoUser \notin Users
  /\ Analyses \subseteq Nat /\ IsFiniteSet(Analyses)
  /\ DOMAIN TypeOf = Analyses /\ DOMAIN Subject = Analyses
  /\ Examine \in [Types -> SUBSET Users]
  /\ IsFiniteSet(Calls) /\ NoCall \notin Calls
  /\ PoolSize \in Nat \ {0} /\ MaxCount \in Nat \ {0} /\ MaxCalls \in Nat

VARIABLES
  stage,   \* case_analyses.stage, CLOSED once the status is
  holder,  \* current_analysis_assignments: who holds each step
  draft,   \* who has draft decisions at each step
  decided, \* decided[s]: who has decided pairs of subject s
  lock,    \* who holds the distribution lock
  calls,   \* calls[c]: the Distribute or Assign a request is at
  begun    \* how many calls began

tables == <<stage, holder, draft, decided>>
vars   == <<tables, lock, calls, begun>>

ActiveStep(s) ==
  CASE s = "VERIFICATION"  -> "REVIEWER"
    [] s = "INCONSISTENCE" -> "INCONSISTENCE"
    [] s \notin {"VERIFICATION", "INCONSISTENCE"} -> "VERIFICATOR"

\* ListExaminerLoads: the open analyses whose current stage is the user's to work.
Load(u) == Cardinality({a \in Analyses : stage[a] # "CLOSED" /\ holder[a][ActiveStep(stage[a])] = u})

\* pairDeciders: who decided the pairs before, or is at it in another analysis.
PriorDeciders(a) ==
  decided[Subject[a]] \cup
    {u \in Users : \E b \in Analyses \ {a}, s \in Steps : Subject[b] = Subject[a] /\ draft[b][s] = u}

Unassigned(a) == stage[a] \notin {"REPORT", "CLOSED"} /\ holder[a][ActiveStep(stage[a])] = NoUser

\* Fault: who holds the analysis's other steps is not excluded.
PendingWorkExcludingNobody(types) ==
  {[a |-> a, step |-> ActiveStep(stage[a]), exclude |-> {}] : a \in {b \in Analyses : TypeOf[b] \in types /\ Unassigned(b)}}

\* ListPendingWork: the steps nobody holds, each with who holds the analysis's other ones.
PendingWork(types) ==
  {[a |-> a, step |-> ActiveStep(stage[a]),
    exclude |-> {holder[a]["VERIFICATOR"], holder[a]["REVIEWER"]} \ {NoUser}] :
     a \in {b \in Analyses : TypeOf[b] \in types /\ Unassigned(b)}}

\* Its rows, oldest first.
OldestFirst(work) ==
  {rows \in [1..Cardinality(work) -> work] : \A i, j \in DOMAIN rows : i < j => rows[i].a < rows[j].a}

-----------------------------------------------------------------------------
(* plan: who gets what, from what was read.                                *)

Eligible(item) == Examine[TypeOf[item.a]] \ item.exclude

\* Those who did not work on its pairs, or when there is none, all.
Preferred(item, avoid) ==
  IF Eligible(item) \subseteq avoid[item.a] THEN Eligible(item) ELSE Eligible(item) \ avoid[item.a]

LeastLoaded(us, load) ==
  CHOOSE u \in us : \A v \in us : load[u] < load[v] \/ (load[u] = load[v] /\ u <= v)

\* Fault: what is given is not counted.
GiveUncounted(done, item, avoid, count) ==
  IF Eligible(item) = {} \/ Len(done.given) = count THEN done
  ELSE LET u == LeastLoaded(Preferred(item, avoid), done.load)
       IN  [done EXCEPT !.given = Append(@, [a |-> item.a, step |-> item.step, user |-> u])]

\* Fault: one item more than the count.
GiveOneMore(done, item, avoid, count) ==
  IF Eligible(item) = {} \/ Len(done.given) > count THEN done
  ELSE LET u == LeastLoaded(Preferred(item, avoid), done.load)
       IN  [load  |-> [done.load EXCEPT ![u] = @ + 1],
            given |-> Append(done.given, [a |-> item.a, step |-> item.step, user |-> u])]

\* The next item goes to the preferred examiner with the least, unless the count is reached or
\* nobody can take it.
Give(done, item, avoid, count) ==
  IF Eligible(item) = {} \/ Len(done.given) = count THEN done
  ELSE LET u == LeastLoaded(Preferred(item, avoid), done.load)
       IN  [load  |-> [done.load EXCEPT ![u] = @ + 1],
            given |-> Append(done.given, [a |-> item.a, step |-> item.step, user |-> u])]

Plan(pending, avoid, load, count) ==
  LET done[n \in 0..Len(pending)] ==
        IF n = 0 THEN [load |-> load, given |-> <<>>] ELSE Give(done[n-1], pending[n], avoid, count)
  IN  done[Len(pending)].given

-----------------------------------------------------------------------------
Distributes == [op : {"DISTRIBUTE"}, count : 1..MaxCount, types : {Types} \cup {{t} : t \in Types}]
Assigns     == [op : {"ASSIGN"}, a : Analyses, user : Users \cup {NoUser}]

Item  == [a : Analyses, step : Steps, exclude : SUBSET Users]
Given == [a : Analyses, step : Steps, user : Users]
Idle  == [at |-> "NONE"]

\* What a call holds at each point.
Call ==
  {Idle}
    \cup [at : {"BEGUN", "LOCKED"}, req : Distributes \cup Assigns]
    \cup [at : {"PENDING"}, req : Distributes, pending : Seq(Item)]
    \cup [at : {"PLANNED"}, req : Distributes, pending : Seq(Item), avoid : [Analyses -> SUBSET Users],
          load : [Users -> 0..Cardinality(Analyses)], given : Seq(Given)]
    \cup [at : {"LOOKUP", "ASSIGN"}, req : Assigns, step : Steps]

TypeOK ==
  /\ stage \in [Analyses -> {"EXAMINATION", "VERIFICATION", "INCONSISTENCE", "REPORT", "CLOSED"}]
  /\ holder \in [Analyses -> [Steps -> Users \cup {NoUser}]]
  /\ draft \in [Analyses -> [Steps -> Users \cup {NoUser}]]
  /\ decided \in [{Subject[a] : a \in Analyses} -> SUBSET Users]
  /\ lock \in Calls \cup {NoCall}
  /\ calls \in [Calls -> Call]
  /\ begun \in 0..MaxCalls

UnderWay == {c \in Calls : calls[c].at # "NONE"}

\* Every call under way has a connection for its transaction.
Free == PoolSize - Cardinality(UnderWay)

Init ==
  /\ stage = [a \in Analyses |-> "EXAMINATION"]
  /\ holder = [a \in Analyses |-> [s \in Steps |-> NoUser]]
  /\ draft = [a \in Analyses |-> [s \in Steps |-> NoUser]]
  /\ decided = [s \in {Subject[a] : a \in Analyses} |-> {}]
  /\ lock = NoCall
  /\ calls = [c \in Calls |-> Idle]
  /\ begun = 0

-----------------------------------------------------------------------------
(* Examiners: each a connection for an instant.                            *)

SaveDraft(a) ==
  LET step == ActiveStep(stage[a])
  IN  /\ Free > 0
      /\ stage[a] \notin {"REPORT", "CLOSED"}
      /\ holder[a][step] # NoUser
      /\ draft' = [draft EXCEPT ![a][step] = holder[a][step]]
      /\ UNCHANGED <<stage, holder, decided, lock, calls, begun>>

\* A step's drafts become its decisions, and the analysis moves on.
Submit(a, next) ==
  LET step == ActiveStep(stage[a])
  IN  /\ Free > 0
      /\ stage[a] \notin {"REPORT", "CLOSED"}
      /\ holder[a][step] # NoUser
      /\ \/ stage[a] = "EXAMINATION" /\ next \in {"VERIFICATION", "REPORT"}
         \/ stage[a] = "VERIFICATION" /\ next \in {"INCONSISTENCE", "REPORT"}
         \/ stage[a] = "INCONSISTENCE" /\ next = "REPORT"
      /\ stage' = [stage EXCEPT ![a] = next]
      /\ draft' = [draft EXCEPT ![a][step] = NoUser]
      /\ decided' = IF stage[a] = "EXAMINATION" /\ next = "REPORT" THEN decided \* no pair
                    ELSE [decided EXCEPT ![Subject[a]] = @ \cup {holder[a][step]}]
      /\ UNCHANGED <<holder, lock, calls, begun>>

IssueReport(a) ==
  /\ Free > 0
  /\ stage[a] = "REPORT" /\ holder[a]["VERIFICATOR"] # NoUser
  /\ stage' = [stage EXCEPT ![a] = "CLOSED"]
  /\ UNCHANGED <<holder, draft, decided, lock, calls, begun>>

-----------------------------------------------------------------------------
(* Calls.                                                                  *)

\* BeginTx, with a connection of the pool.
Begin(c, req) ==
  /\ calls[c].at = "NONE" /\ Free > 0 /\ begun < MaxCalls
  /\ calls' = [calls EXCEPT ![c] = [at |-> "BEGUN", req |-> req]]
  /\ begun' = begun + 1
  /\ UNCHANGED <<tables, lock>>

\* Fault: the lock is not waited for.
LockCaseDistributionAnyway(c) ==
  /\ calls[c].at = "BEGUN"
  /\ lock' = c
  /\ calls' = [calls EXCEPT ![c].at = "LOCKED"]
  /\ UNCHANGED <<tables, begun>>

LockCaseDistribution(c) ==
  /\ calls[c].at = "BEGUN" /\ lock = NoCall
  /\ lock' = c
  /\ calls' = [calls EXCEPT ![c].at = "LOCKED"]
  /\ UNCHANGED <<tables, begun>>

Unlocked(c) == IF lock = c THEN NoCall ELSE lock

\* Fault: a call that ends keeps the lock, as a session's would stay.
EndsLocked(c) == lock' = lock /\ calls' = [calls EXCEPT ![c] = Idle]

\* The transaction ends: its connection and the lock are given back.
Ends(c) == lock' = Unlocked(c) /\ calls' = [calls EXCEPT ![c] = Idle]

\* An error, or a request given up: nothing is written.  A dry run ends so, too.
Rollback(c) ==
  /\ calls[c].at # "NONE"
  /\ Ends(c)
  /\ UNCHANGED <<tables, begun>>

\* Distribute reads what is pending ...
DistributeReadsPending(c) ==
  /\ calls[c].at = "LOCKED" /\ calls[c].req.op = "DISTRIBUTE"
  /\ \E rows \in OldestFirst(PendingWork(calls[c].req.types)) :
       calls' = [calls EXCEPT ![c] = [at |-> "PENDING", req |-> calls[c].req, pending |-> rows]]
  /\ UNCHANGED <<tables, lock, begun>>

\* ... then who worked on the pairs, and the loads, and plans ...
DistributeReadsExaminers(c) ==
  /\ calls[c].at = "PENDING"
  /\ LET call  == calls[c]
         avoid == [a \in Analyses |-> PriorDeciders(a)]
         load  == [u \in Users |-> Load(u)]
     IN  calls' = [calls EXCEPT ![c] = [at |-> "PLANNED", req |-> call.req, pending |-> call.pending,
                                        avoid |-> avoid, load |-> load,
                                        given |-> Plan(call.pending, avoid, load, call.req.count)]]
  /\ UNCHANGED <<tables, lock, begun>>

\* Who is given step s of a.
GivenTo(given, a, s) == {g \in Range(given) : g.a = a /\ g.step = s}

\* ... and writes what it planned.
DistributeWrites(c) ==
  /\ calls[c].at = "PLANNED"
  /\ holder' = [a \in Analyses |-> [s \in Steps |->
                  LET to == GivenTo(calls[c].given, a, s)
                  IN  IF to = {} THEN holder[a][s] ELSE (CHOOSE g \in to : TRUE).user]]
  /\ Ends(c)
  /\ UNCHANGED <<stage, draft, decided, begun>>

Refused(req) ==
  LET held == holder[req.a]
  IN  \/ stage[req.a] = "CLOSED"
      \/ held[ActiveStep(stage[req.a])] = req.user              \* unchanged
      \/ req.user # NoUser /\ \E s \in Steps : held[s] = req.user \* holds another step

\* Assign reads the analysis; an examiner is then looked up outside the transaction.
AssignChecks(c) ==
  /\ calls[c].at = "LOCKED" /\ calls[c].req.op = "ASSIGN"
  /\ \/ /\ Refused(calls[c].req)
        /\ Ends(c)
     \/ /\ ~Refused(calls[c].req)
        /\ calls' = [calls EXCEPT ![c] =
                       [at |-> IF calls[c].req.user = NoUser THEN "ASSIGN" ELSE "LOOKUP",
                        req |-> calls[c].req, step |-> ActiveStep(stage[calls[c].req.a])]]
        /\ UNCHANGED lock
  /\ UNCHANGED <<tables, begun>>

\* FindByID, on another connection of the pool.
AssignLooksUp(c) ==
  LET req == calls[c].req
  IN  /\ calls[c].at = "LOOKUP"
      /\ Free > 0
      /\ \/ req.user \notin Examine[TypeOf[req.a]] /\ Ends(c)
         \/ /\ req.user \in Examine[TypeOf[req.a]]
            /\ calls' = [calls EXCEPT ![c].at = "ASSIGN"]
            /\ UNCHANGED lock
      /\ UNCHANGED <<tables, begun>>

AssignWrites(c) ==
  LET call == calls[c]
  IN  /\ call.at = "ASSIGN"
      /\ draft' = [draft EXCEPT ![call.req.a][call.step] = NoUser]
      /\ holder' = [holder EXCEPT ![call.req.a][call.step] = call.req.user]
      /\ Ends(c)
      /\ UNCHANGED <<stage, decided, begun>>

\* What a call does by itself.
Proceed(c) ==
  \/ LockCaseDistribution(c)
  \/ DistributeReadsPending(c) \/ DistributeReadsExaminers(c) \/ DistributeWrites(c)
  \/ AssignChecks(c) \/ AssignLooksUp(c) \/ AssignWrites(c)

Next ==
  \/ \E a \in Analyses : SaveDraft(a) \/ IssueReport(a)
  \/ \E a \in Analyses, next \in {"VERIFICATION", "INCONSISTENCE", "REPORT"} : Submit(a, next)
  \/ \E c \in Calls, req \in Distributes \cup Assigns : Begin(c, req)
  \/ \E c \in Calls : Proceed(c) \/ Rollback(c)

Spec == Init /\ [][Next]_vars

-----------------------------------------------------------------------------
(* Properties.                                                             *)

ExaminersOf == [a \in Analyses |-> Examine[TypeOf[a]]]
Handed == INSTANCE Assignments WITH Fit <- ExaminersOf

\* Whatever the calls read before others moved on, each hands out in one step what nobody has, to who
\* examines it and holds nothing else of the analysis when it is written; no other step changes hands.
ImplementsAssignments == Handed!AssignmentsSpec

\* "Two admins distributing at once cannot hand the same pending work out twice" (LockCaseDistribution
\* in src/db/queries/analyses.sql): a distribution never takes a step from who got it while it read.
HandedOutOnce ==
  [][\A c \in Calls : calls[c].at = "PLANNED" /\ calls'[c].at = "NONE" =>
       \A a \in Analyses, s \in Steps : holder[a][s] # NoUser => holder'[a][s] = holder[a][s]]_vars

\* The oldest items somebody can take are handed out, each once, up to the count, and what nobody
\* can take uses none of it (plan, src/distribution/distribution.go).
OldestHandedOut ==
  \A c \in Calls : calls[c].at = "PLANNED" =>
    LET pending == calls[c].pending
        given   == calls[c].given
        able    == {i \in DOMAIN pending : Eligible(pending[i]) # {}}
    IN  /\ Len(given) <= calls[c].req.count
        /\ \A n \in DOMAIN given : \E i \in able : given[n].a = pending[i].a
        /\ \A m, n \in DOMAIN given : m < n => given[m].a < given[n].a
        /\ \A i \in able :
             \/ \E n \in DOMAIN given : given[n].a = pending[i].a
             \/ Len(given) = calls[c].req.count /\ \A n \in DOMAIN given : given[n].a < pending[i].a

\* How many of what is given go to u.
Share(given, u) == Cardinality({n \in DOMAIN given : given[n].user = u})

\* "Counting each assignment as it goes so the load evens out": nobody ends with two more than
\* someone who could as well have taken the last item given to them; and someone who worked on
\* the pairs gets them only when nobody else can.
LoadsEvenOut ==
  \A c \in Calls : calls[c].at = "PLANNED" =>
    LET given  == calls[c].given
        end(u) == calls[c].load[u] + Share(given, u)
        avoids(u, n) == u \in calls[c].avoid[given[n].a]
        last(n) == \A m \in DOMAIN given : m > n => given[m].user # given[n].user
    IN  \A item \in Range(calls[c].pending), n \in DOMAIN given :
          given[n].a = item.a =>
            \A v \in Eligible(item) :
              /\ avoids(given[n].user, n) => avoids(v, n)
              /\ last(n) /\ (avoids(v, n) => avoids(given[n].user, n))
                   => end(given[n].user) <= end(v) + 1

\* All connections are with calls, and the one that holds the lock wants another for its lookup.
Starved == Free = 0 /\ lock # NoCall /\ calls[lock].at = "LOOKUP"

\* What can hold a call under way up: the lock, or the connection it looks its examiner up on.
Waits(c) ==
  \/ calls[c].at = "BEGUN" /\ lock # NoCall
  \/ calls[c].at = "LOOKUP" /\ ~(Free > 0)

\* Calls under way never wait for one another for ever, but in one case: the pool's connections
\* are all with calls, of which one looks its examiner up and the others wait for the lock it has.
\* Then nobody goes on until a request is given up.
OnlyAStarvedPoolStalls ==
  UnderWay # {} /\ (\A c \in UnderWay : Waits(c)) =>
    Starved /\ \A c \in UnderWay \ {lock} : calls[c].at = "BEGUN"

\* "Concurrent distributions and manual assignments run one at a time" (distribution.go:143): as
\* many as there are connections may not run at all.
CallsRun == ~Starved
=============================================================================
